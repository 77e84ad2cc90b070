--------------------------- MODULE MCMsgInterface ---------------------------
(***************************************************************************)
(* The message queue on small instances.                                   *)
(***************************************************************************)
EXTENDS MsgInterface

\* The pairs the firmware publishes, with small numbers for the codes: a
\* console command, the configuration to apply, the work ticks that poll a
\* pair of UARTs and the link, and the link going down.
ConsoleCommand == [msg |-> 0, para |-> 0]
ConfigApply == [msg |-> 1, para |-> 0]
WorkTick(n) == [msg |-> 2, para |-> n]
LinkDown == [msg |-> 3, para |-> 0]

MCLinkTick == WorkTick(9)
\* main(), then USART3, TIM3 and EXTI9_5 or ETH.
MCPub == [c \in 0..Top |-> CASE c = 0 -> {LinkDown}
                             [] c = 1 -> {ConsoleCommand}
                             [] c = 2 -> {WorkTick(7), WorkTick(9)}
                             [] OTHER -> {ConfigApply}]

\* The same with the link tick alone.
LinkPub == [MCPub EXCEPT ![2] = {WorkTick(9)}]

\* FifoUntilRaced claims nothing behind the first race.
BeforeRace == ~raced
=============================================================================
