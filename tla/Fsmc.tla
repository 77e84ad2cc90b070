-------------------------------- MODULE Fsmc --------------------------------
(***************************************************************************)
(* The bus to the UARTs' FPGA (HARDWARE/fsmc.c): each access is followed   *)
(* by a delay of a moment, in main(), which polls and pulses, and in the   *)
(* ETH interrupt, which sends and resets (HARDWARE/uart_fsmc.c).           *)
(***************************************************************************)
EXTENDS Delay

CONSTANTS Moment,       \* the count of delay_moment
          Microseconds  \* the count of delay_us(100), and of blink()'s delays

ASSUME MomentAssumption == {Moment, Microseconds} \subseteq Delays /\ Moment <= Microseconds

VARIABLES reset,        \* where resetUartFsmc is: "off", "low" or "held"
          quiet,        \* history: ticks since the last access
          accessed,     \* history: the interrupt has accessed the FSMC
          low           \* history: ticks since the reset began
fsmcVars == <<delayVars, reset, quiet, accessed, low>>

FsmcInit == /\ DelayInit
            /\ reset = "off" /\ quiet = Moment /\ accessed = FALSE /\ low = 0
-----------------------------------------------------------------------------
UpTo(n, bound) == IF n < bound THEN n + 1 ELSE n
Time == /\ Tick
        /\ quiet' = UpTo(quiet, Moment)
        /\ low' = IF reset # "off" THEN UpTo(low, Microseconds) ELSE 0
        /\ UNCHANGED <<reset, accessed>>

EnterIrq == /\ ~inIrq /\ inIrq' = TRUE /\ accessed' = FALSE
            /\ UNCHANGED <<registers, at, need, passed, cut, reset, quiet, low>>
LeaveIrq == /\ inIrq /\ reset = "off" /\ at["eth"] = "idle" /\ inIrq' = FALSE
            /\ UNCHANGED <<registers, at, need, passed, cut, reset, quiet,
                           accessed, low>>

Count(c) == Delaying(c) /\ UNCHANGED <<reset, quiet, accessed, low>>

\* readFSMC and writeFSMC.
Access(c) == /\ StartDelay(c, Moment)
             /\ quiet' = 0
             /\ accessed' = (accessed \/ c = "eth")

\* main(): the accesses of a poll (uart_fsmc.c:102 to :104) and of the pulse
\* (main.c:98 to :100).
MainAccess == Access("main") /\ UNCHANGED <<reset, low>>

\* blink, in pieces of at most 540 ms: a delay without an access.
Blink == StartDelay("main", Microseconds) /\ UNCHANGED <<reset, quiet, accessed, low>>

\* sendDataUartFsmc in the interrupt: any number of accesses.
SendAccess == reset = "off" /\ Access("eth") /\ UNCHANGED <<reset, low>>

\* resetUartFsmc in the interrupt.
ResetLow == /\ reset = "off" /\ Access("eth")
            /\ reset' = "low" /\ low' = 0
\* Mutant: the line is raised without waiting.
ResetHoldShort == /\ reset = "low" /\ reset' = "held"
                  /\ StartDelay("eth", Moment)
                  /\ UNCHANGED <<quiet, accessed, low>>
ResetHold == /\ reset = "low" /\ reset' = "held"
             /\ StartDelay("eth", Microseconds)
             /\ UNCHANGED <<quiet, accessed, low>>
ResetHigh == /\ reset = "held" /\ Access("eth")
             /\ reset' = "off" /\ UNCHANGED low
-----------------------------------------------------------------------------
EthAccess == SendAccess \/ ResetLow \/ ResetHigh

FsmcNext == \/ Time \/ EnterIrq \/ LeaveIrq
            \/ \E c \in Ctx : Count(c)
            \/ MainAccess \/ Blink \/ EthAccess \/ ResetHold

FsmcSpec == FsmcInit /\ [][FsmcNext]_fsmcVars

\* Time passes, what is begun goes on, and handlers leave main() some time.
FairFsmcSpec == /\ FsmcSpec
                /\ WF_fsmcVars(Time) /\ WF_fsmcVars(Count("eth"))
                /\ WF_fsmcVars(ResetHold \/ ResetHigh)
                /\ SF_fsmcVars(LeaveIrq) /\ SF_fsmcVars(Count("main"))
-----------------------------------------------------------------------------
\* An access to the FSMC comes a moment after the last one, though main()'s
\* delays may be cut short: only the first access of an interrupt may follow
\* at once on one of main() (fsmc.c:127, :135).  A reset lasts 100 us.
Spaced == [][/\ MainAccess => quiet >= Moment
             /\ EthAccess => quiet >= Moment \/ ~accessed
             /\ ResetHigh => low >= Microseconds]_fsmcVars

\* Every delay ends, though the interrupt stops the timer main() waits on.
DelayEnds == \A c \in Ctx : at[c] = "wait" ~> at[c] = "idle"
=============================================================================
