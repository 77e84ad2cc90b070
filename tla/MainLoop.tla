------------------------------ MODULE MainLoop ------------------------------
(***************************************************************************)
(* main() after start-up: processMsg for ever (USER/main.c and             *)
(* USER/msg_handlers.c), and the TIM3 interrupt that publishes the work    *)
(* ticks (USER/timer.c).  The message queue is the abstract one, MsgFifo;  *)
(* lwip_periodic_handle, which shares no state with this, is in Periodic.  *)
(***************************************************************************)
EXTENDS Integers, Sequences

CONSTANTS Pairs,        \* pairs of UARTs, a work tick for each: 8
          Unit,         \* interrupts in a tenth of a second: 20
          Queries,      \* values of query_cycle_s
          Capacity,     \* MSG_MAX_LEN
          Turn,         \* bound: interrupts in a turn of main()'s loop
          Blinking      \* bound: further interrupts in blink()

ASSUME TickAssumption == /\ Pairs \in Nat \ {0} /\ Unit \in Nat \ {0}
                         /\ Queries \subseteq Nat
                         /\ Turn \in Nat /\ Turn < Unit /\ Blinking \in Nat

Phases == Pairs + 2
LinkPhase == Pairs + 1

WorkTick(n) == <<"MSG_WORKTICK", n>>
LinkDown == <<"MSG_LINK_DOWN", 0>>
ConfigApply == <<"MSG_CONFIG_APPLY", 0>>
ConsoleCommand == <<"MSG_CONSOLE_COMMAND", 0>>
OthersMessages == {ConfigApply, ConsoleCommand}
Messages == {WorkTick(n) : n \in 0..(Phases - 1)} \cup {LinkDown} \cup OthersMessages
Nothing == <<"", 0>>

VARIABLES queue,        \* MsgFifo's
          got,          \* the message processMsg has in hand
          timer_cnt, cycle,
          link,         \* whether the cable is connected
          link_status,
          pc,           \* where main() is
          lag,          \* history: interrupts since the turn began
          tick, since, started,  \* history: the last work tick, interrupts
                        \* since it, whether cycle was known then
          loss          \* history: what became of the report of a link loss
timing == <<timer_cnt, cycle, tick, since, started>>
mainVars == <<queue, got, timing, link, link_status, pc, lag, loss>>

Queue == INSTANCE MsgFifo WITH Message <- Messages

\* publishMsg: a full queue refuses, and no caller looks at the result.
Full == Len(queue) >= Capacity
Publish(m) == queue' = IF Full THEN queue ELSE Append(queue, m)

MainInit == /\ queue = <<>> /\ got = Nothing
            /\ timer_cnt = 0 /\ cycle = 0
            /\ link \in BOOLEAN /\ link_status = TRUE
            /\ pc = "enable" /\ lag = 0
            /\ tick = 0 /\ since = 0 /\ started = FALSE
            /\ loss = "none"
-----------------------------------------------------------------------------
\* The TIM3 interrupt.

\* UDIV and the MLS of a remainder: a division by zero gives 0.
Quotient(a, b) == IF b = 0 THEN 0 ELSE a \div b
Remainder(a, b) == a - b * Quotient(a, b)

\* Mutant: the count starts over one interrupt late.
OverLate == timer_cnt + 1 > cycle * Phases
Over == timer_cnt + 1 >= cycle * Phases

\* The interrupts that fall into one turn are bounded; blink() takes longer.
Budget == IF got = ConfigApply THEN Turn + Blinking ELSE Turn

timerProcess ==
    /\ pc # "enable" /\ lag < Budget
    /\ IF Remainder(timer_cnt, cycle) = 0
       THEN LET n == Quotient(timer_cnt, cycle) % Phases
            IN /\ Publish(WorkTick(n))
               /\ tick' = n /\ since' = 0 /\ started' = (cycle # 0)
       ELSE since' = since + 1 /\ UNCHANGED <<queue, tick, started>>
    /\ timer_cnt' = IF Over THEN 0 ELSE timer_cnt + 1
    /\ lag' = lag + 1
    /\ UNCHANGED <<got, cycle, link, link_status, pc, loss>>

\* The console and the web server publish in interrupts of their own.
Others == /\ \E m \in OthersMessages : Publish(m)
          /\ UNCHANGED <<got, timing, link, link_status, pc, lag, loss>>

\* The cable.
Plug == /\ link' = ~link
        /\ UNCHANGED <<queue, got, timing, link_status, pc, lag, loss>>
-----------------------------------------------------------------------------
\* initTimer.  TIM_TimeBaseInit leaves an update pending, so that the
\* interrupt may come as soon as it is enabled.
Goto(here, next) == pc = here /\ pc' = next

EnableTimer == /\ Goto("enable", "count")
               /\ UNCHANGED <<queue, got, timing, link, link_status, lag, loss>>
ResetCount == /\ Goto("count", "cycle")
              /\ timer_cnt' = 0
              /\ UNCHANGED <<queue, got, cycle, tick, since, started, link,
                             link_status, lag, loss>>
SetCycle == /\ Goto("cycle", "msg")
            /\ \E q \in Queries : cycle' = Unit * (IF q > 0 THEN q ELSE 1)
            /\ UNCHANGED <<queue, got, timer_cnt, tick, since, started, link,
                           link_status, lag, loss>>
-----------------------------------------------------------------------------
\* processMsg.  The turn ends where the next one begins.
Take == /\ Goto("msg", "handle")
        /\ Queue!Get
        /\ lag' = 0
        /\ UNCHANGED <<timing, link, link_status, loss>>
NoMessage == /\ pc = "msg" /\ queue = <<>>
             /\ got' = Nothing /\ lag' = 0
             /\ UNCHANGED <<queue, timing, link, link_status, pc, loss>>

\* Mutant: onWorkTick leaves out the first pair.
PairsButFirst(n) == n > 0 /\ n < Pairs
IsPair(n) == n >= 0 /\ n < Pairs

\* onWorkTick for a pair of UARTs: checkUartFsmc, twice.
Poll == /\ Goto("handle", "polled")
        /\ got[1] = "MSG_WORKTICK" /\ IsPair(got[2])
        /\ UNCHANGED <<queue, got, timing, link, link_status, lag, loss>>
Polled(n) == pc = "polled" /\ got = WorkTick(n)

\* onWorkTick for the last phase, lines 34 to 46.
Broken == /\ Goto("handle", "msg")
          /\ got = WorkTick(LinkPhase) /\ ~link
          /\ link_status' = FALSE
          /\ IF link_status
             THEN /\ Publish(LinkDown)
                  /\ loss' = IF Full THEN "refused" ELSE "published"
             ELSE UNCHANGED <<queue, loss>>
          /\ UNCHANGED <<got, timing, link, lag>>
Normal == /\ Goto("handle", "msg")
          /\ got = WorkTick(LinkPhase) /\ link
          /\ link_status' = TRUE /\ loss' = "none"
          /\ UNCHANGED <<queue, got, timing, link, lag>>

\* Mutant: MSG_CONFIG_APPLY ends in a break, and MSG_LINK_DOWN with it.
PulseNever == {}
PulseFor == {ConfigApply, LinkDown}

\* The pulse of lines 98 to 100, after blink() or without.
Pulse == /\ Goto("handle", "msg")
         /\ got \in PulseFor
         /\ loss' = IF got = LinkDown /\ loss = "published" THEN "pulsed" ELSE loss
         /\ UNCHANGED <<queue, got, timing, link, link_status, lag>>

\* Messages and phases that change no state of main(), and the way back.
Handled == /\ \/ /\ Goto("handle", "msg")
                 /\ ~(got[1] = "MSG_WORKTICK" /\ IsPair(got[2]))
                 /\ got \notin PulseFor \cup {WorkTick(LinkPhase)}
              \/ Goto("polled", "msg")
           /\ UNCHANGED <<queue, got, timing, link, link_status, lag, loss>>
-----------------------------------------------------------------------------
Main == \/ EnableTimer \/ ResetCount \/ SetCycle
        \/ Take \/ NoMessage \/ Poll \/ Broken \/ Normal \/ Pulse \/ Handled
MainNext == Main \/ timerProcess \/ Others \/ Plug

MainSpec == MainInit /\ [][MainNext]_mainVars

\* main() runs between interrupts, and the timer runs.
FairMainSpec == MainSpec /\ WF_mainVars(Main) /\ WF_mainVars(timerProcess)
-----------------------------------------------------------------------------
MainTypeOK == /\ queue \in Seq(Messages) /\ Len(queue) <= Capacity
              /\ got \in Messages \cup {Nothing}
              /\ timer_cnt \in Nat /\ cycle \in Nat
              /\ link \in BOOLEAN /\ link_status \in BOOLEAN
              /\ pc \in {"enable", "count", "cycle", "msg", "handle", "polled"}
              /\ lag \in 0..(Turn + Blinking)
              /\ tick \in 0..(Phases - 1) /\ since \in Nat /\ started \in BOOLEAN
              /\ loss \in {"none", "published", "refused", "pulsed"}

\* Work ticks name the phases in turn, `cycle` interrupts apart, whatever
\* falls between the stores of initTimer: there a tick 0 may come with every
\* interrupt, because timer.c:59 divides by a cycle that is still 0.
TicksInTurn ==
    [][timerProcess => \/ since' = since + 1 /\ since' < cycle /\ tick' = tick
                       \/ ~started /\ tick' = 0 /\ since' = 0
                       \/ /\ started /\ since + 1 = cycle /\ since' = 0
                          /\ tick' = (tick + 1) % Phases]_mainVars

\* Once the other publishers are silent ...
Silence == <>[][~Others]_mainVars

\* ... every pair of UARTs is polled again and again: no phase is left out and
\* in the end no tick is refused.
PairsPolled == Silence => \A n \in 0..(Pairs - 1) : []<>Polled(n)

\* ... a link that stays down ends in the pulse, unless the queue was full at
\* the one moment the loss was published (msg_handlers.c:38 forgets it then).
LinkLossServed == Silence /\ <>[](~link) => <>[](loss \in {"pulsed", "refused"})
=============================================================================
