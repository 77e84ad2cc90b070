------------------------------ MODULE Periodic ------------------------------
(***************************************************************************)
(* lwIP's time (HARDWARE/lwip_comm.c): the TIM3 interrupt advances         *)
(* lwip_localtime, a u32 of milliseconds, and lwip_periodic_handle, once   *)
(* in every turn of main()'s loop, calls tcp_tmr and etharp_tmr when their *)
(* period has passed.  The rest of the turn only takes time.               *)
(***************************************************************************)
EXTENDS Integers

CONSTANTS Step,         \* milliseconds from interrupt to interrupt: 5
          Wrap,         \* lwip_localtime is kept modulo Wrap: 2^32
          Period,       \* TCP_TMR_INTERVAL and ARP_TMR_INTERVAL
          Longest       \* bound: milliseconds a turn of main()'s loop takes

Timers == {"tcp", "arp"}

ASSUME TimeAssumption ==
    /\ Step \in Nat \ {0} /\ Longest \in Nat /\ Wrap \in Nat
    /\ Period \in [Timers -> Nat]
    /\ \A t \in Timers : Period[t] + 2 * Longest < Wrap
    /\ Step < Wrap

VARIABLES lwip_localtime,
          timer,        \* TCPTimer and ARPTimer
          at,           \* where main() is: "rest" of the loop, "check" or "call"
          due,          \* the timer lwip_periodic_handle looks at
          spent,        \* history: milliseconds since the turn began
          age           \* history: milliseconds since each timer was served
timeVars == <<lwip_localtime, timer, at, due, spent, age>>

TimeInit == /\ lwip_localtime = 0 /\ timer = [t \in Timers |-> 0]
            /\ at = "rest" /\ due = "tcp"
            /\ spent = 0 /\ age = [t \in Timers |-> 0]

\* Arithmetic of u32.
Plus(a, b) == IF a + b >= Wrap THEN a + b - Wrap ELSE a + b
Minus(a, b) == IF a >= b THEN a - b ELSE a - b + Wrap
-----------------------------------------------------------------------------
\* timerProcess, line 56, at any moment; a turn does not last for ever.
Advance == /\ spent + Step <= Longest
           /\ lwip_localtime' = Plus(lwip_localtime, Step)
           /\ spent' = spent + Step
           /\ age' = [t \in Timers |-> age[t] + Step]
           /\ UNCHANGED <<timer, at, due>>

\* processMsg is over.
StartChecks == /\ at = "rest" /\ at' = "check"
               /\ UNCHANGED <<lwip_localtime, timer, due, spent, age>>

\* Mutants: the time is compared with the moment the timer is due at, and the
\* operands are swapped.
ElapsedAbsolute(t) == lwip_localtime >= timer[t] + Period[t]
ElapsedSwapped(t) == Minus(timer[t], lwip_localtime) >= Period[t]
Elapsed(t) == Minus(lwip_localtime, timer[t]) >= Period[t]

\* From tcp to arp, and from there to the next turn.
GoOn == IF due = "tcp"
        THEN due' = "arp" /\ at' = "check" /\ UNCHANGED spent
        ELSE due' = "tcp" /\ at' = "rest" /\ spent' = 0

NotYet == /\ at = "check" /\ ~Elapsed(due)
          /\ GoOn
          /\ UNCHANGED <<lwip_localtime, timer, age>>
Late == /\ at = "check" /\ Elapsed(due)
        /\ at' = "call"
        /\ UNCHANGED <<lwip_localtime, timer, due, spent, age>>

\* lwip_localtime is read again: an interrupt may have come between.
Call == /\ at = "call"
        /\ timer' = [timer EXCEPT ![due] = lwip_localtime]
        /\ age' = [age EXCEPT ![due] = 0]
        /\ GoOn
        /\ UNCHANGED lwip_localtime

lwip_periodic_handle == StartChecks \/ NotYet \/ Late \/ Call

TimeNext == Advance \/ lwip_periodic_handle

TimeSpec == TimeInit /\ [][TimeNext]_timeVars
-----------------------------------------------------------------------------
TimeTypeOK == /\ lwip_localtime \in 0..(Wrap - 1)
              /\ timer \in [Timers -> 0..(Wrap - 1)]
              /\ at \in {"rest", "check", "call"} /\ due \in Timers
              /\ spent \in 0..Longest
              /\ age \in [Timers -> Nat]

\* tcp_tmr and etharp_tmr are called no later than two turns of the loop after
\* their period, also when lwip_localtime wraps around (lwip_comm.c:177, :184).
OnTime == \A t \in Timers : age[t] <= Period[t] + 2 * Longest

\* They are never called before their period has passed.
NeverEarly == [][\A t \in Timers : age'[t] < age[t] => age[t] >= Period[t]]_timeVars

\* Why: a u32 difference is the true age as long as the age fits, and a timer
\* found not due in this turn was young when the turn began.
Checked(t) == t = "tcp" /\ due = "arp"
Young(t) == age[t] <= Period[t] + spent + (IF Checked(t) THEN 0 ELSE Longest)
AgeInv == \A t \in Timers : /\ Minus(lwip_localtime, timer[t]) = age[t]
                            /\ Young(t)
                            /\ at = "call" /\ due = t => age[t] >= Period[t]
=============================================================================
