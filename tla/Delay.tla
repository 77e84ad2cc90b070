-------------------------------- MODULE Delay --------------------------------
(***************************************************************************)
(* The delays of SYSTEM/delay.c: delay_us, delay_xms and delay_moment are  *)
(* one loop over the SysTick timer, which main() and the ETH interrupt     *)
(* share.  The interrupt may come between any two of main()'s accesses to  *)
(* the timer, and leaves it stopped and cleared.                           *)
(***************************************************************************)
EXTENDS Integers

CONSTANTS Delays        \* the counts delays are called with: LOAD

ASSUME DelayAssumption == Delays \subseteq Nat \ {0} /\ Delays # {}

Ctx == {"main", "eth"}

VARIABLES LOAD, VAL, ENABLE, COUNTFLAG,
          inIrq,        \* ETH_IRQHandler is running
          at,           \* where each context is in a delay, or "idle"
          need,         \* the count of the delay
          passed,       \* history: ticks since the delay was called
          cut           \* history: the interrupt delayed within main()'s delay
registers == <<LOAD, VAL, ENABLE, COUNTFLAG>>
delayVars == <<registers, inIrq, at, need, passed, cut>>

DelayInit == /\ LOAD = 0 /\ VAL = 0 /\ ENABLE = FALSE /\ COUNTFLAG = FALSE
             /\ inIrq = FALSE
             /\ at = [c \in Ctx |-> "idle"]
             /\ need = [c \in Ctx |-> 0] /\ passed = [c \in Ctx |-> 0]
             /\ cut = FALSE

Runs(c) == IF c = "main" THEN ~inIrq ELSE inIrq
-----------------------------------------------------------------------------
\* SysTick: a tick after VAL reached 0 it is loaded again; COUNTFLAG tells
\* that it has counted from 1 to 0.
Counting == IF ~ENABLE THEN UNCHANGED registers
            ELSE /\ VAL' = IF VAL = 0 THEN LOAD ELSE VAL - 1
                 /\ COUNTFLAG' = (COUNTFLAG \/ VAL = 1)
                 /\ UNCHANGED <<LOAD, ENABLE>>

Tick == /\ Counting
        /\ passed' = [c \in Ctx |-> IF passed[c] < need[c] THEN passed[c] + 1
                                    ELSE passed[c]]
        /\ UNCHANGED <<inIrq, at, need, cut>>
-----------------------------------------------------------------------------
\* A delay of n is called.
StartDelay(c, n) ==
    /\ Runs(c) /\ at[c] = "idle"
    /\ at' = [at EXCEPT ![c] = "load"]
    /\ need' = [need EXCEPT ![c] = n]
    /\ passed' = [passed EXCEPT ![c] = 0]
    /\ cut' = (c = "eth" /\ (cut \/ at["main"] # "idle"))
    /\ UNCHANGED <<registers, inIrq>>

GoOn(c, here, next) == /\ Runs(c) /\ at[c] = here /\ at' = [at EXCEPT ![c] = next]
                       /\ UNCHANGED <<inIrq, need, passed, cut>>

Load(c) == /\ GoOn(c, "load", "clear")
           /\ LOAD' = need[c] /\ UNCHANGED <<VAL, ENABLE, COUNTFLAG>>
\* A write of VAL clears it and COUNTFLAG.
Clear(c) == /\ GoOn(c, "clear", "enable")
            /\ VAL' = 0 /\ COUNTFLAG' = FALSE /\ UNCHANGED <<LOAD, ENABLE>>
\* A read of CTRL clears COUNTFLAG.  A handler between the load and the store
\* of `|=` or `&=` leaves ENABLE 0, so that it may as well come before.
Enable(c) == /\ GoOn(c, "enable", "wait")
             /\ ENABLE' = TRUE /\ COUNTFLAG' = FALSE /\ UNCHANGED <<LOAD, VAL>>

\* Mutants: the loop waits for COUNTFLAG alone, or for nothing.
OverFlag == COUNTFLAG
OverAtOnce == TRUE
Over == ~(ENABLE /\ ~COUNTFLAG)

Wait(c) == /\ GoOn(c, "wait", IF Over THEN "stop" ELSE "wait")
           /\ COUNTFLAG' = FALSE /\ UNCHANGED <<LOAD, VAL, ENABLE>>
Stop(c) == /\ GoOn(c, "stop", "zero")
           /\ ENABLE' = FALSE /\ COUNTFLAG' = FALSE /\ UNCHANGED <<LOAD, VAL>>
Zero(c) == /\ GoOn(c, "zero", "idle")
           /\ VAL' = 0 /\ COUNTFLAG' = FALSE /\ UNCHANGED <<LOAD, ENABLE>>

Delaying(c) == Load(c) \/ Clear(c) \/ Enable(c) \/ Wait(c) \/ Stop(c) \/ Zero(c)
-----------------------------------------------------------------------------
DelayTypeOK == /\ LOAD \in Nat /\ VAL \in Nat
               /\ ENABLE \in BOOLEAN /\ COUNTFLAG \in BOOLEAN
               /\ inIrq \in BOOLEAN /\ cut \in BOOLEAN
               /\ at \in [Ctx -> {"idle", "load", "clear", "enable", "wait",
                                  "stop", "zero"}]
               /\ need \in [Ctx -> Delays \cup {0}] /\ passed \in [Ctx -> Nat]

\* A delay lasts as long as it was asked to - but for one of main() in which
\* the interrupt delayed (delay.c:59 sees the timer the handler stopped).
DelayFull == \A c \in Ctx : at[c] = "zero" => \/ passed[c] >= need[c]
                                              \/ c = "main" /\ cut
=============================================================================
