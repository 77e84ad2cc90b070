-------------------------- MODULE MainLoop_proofs ---------------------------
(***************************************************************************)
(* Proofs about the time main()'s loop keeps.  lwIP's timers are served in *)
(* time and never early, for every period, step and length of a turn that  *)
(* the modulus of lwip_localtime leaves room for; and the work ticks name  *)
(* the phases in turn, for every number of phases and every query cycle.   *)
(***************************************************************************)
EXTENDS MainLoop, Periodic, TLAPS

TimeInv == TimeTypeOK /\ AgeInv

\* What AgeInv says of one timer.
AgeOf(t) == /\ Minus(lwip_localtime, timer[t]) = age[t]
            /\ Young(t)
            /\ at = "call" /\ due = t => age[t] >= Period[t]

\* A u32 clock that advances stays a u32 and its distance from a moment grows
\* by as much, as long as the distance fits.
LEMMA Advances ==
    ASSUME NEW a \in Nat, NEW b \in Nat, NEW s \in Nat, Wrap \in Nat,
           a < Wrap, b < Wrap, s < Wrap, Minus(a, b) + s < Wrap
    PROVE  /\ Plus(a, s) \in Nat /\ Plus(a, s) < Wrap
           /\ Minus(Plus(a, s), b) = Minus(a, b) + s
  BY SMT DEF Plus, Minus

LEMMA TypesOf ==
    ASSUME TimeTypeOK, NEW t \in Timers
    PROVE  /\ lwip_localtime \in Nat /\ lwip_localtime < Wrap
           /\ timer[t] \in Nat /\ timer[t] < Wrap
           /\ age[t] \in Nat /\ spent \in Nat /\ spent <= Longest
           /\ Period[t] \in Nat /\ Longest \in Nat /\ Wrap \in Nat
           /\ Step \in Nat /\ Step > 0 /\ Step < Wrap
           /\ Period[t] + 2 * Longest < Wrap
  BY TimeAssumption, SMT DEF TimeTypeOK

\* An interrupt.
LEMMA AdvanceKeeps ==
    ASSUME TimeInv, Advance, NEW t \in Timers
    PROVE  AgeOf(t)' /\ lwip_localtime' \in 0..(Wrap - 1) /\ spent' \in 0..Longest
                     /\ age'[t] \in Nat
  <1> USE DEF Advance
  <1>1. AgeOf(t)
    BY DEF TimeInv, AgeInv, AgeOf
  <1>2. /\ spent' = spent + Step /\ spent + Step <= Longest
        /\ lwip_localtime' = Plus(lwip_localtime, Step)
        /\ age'[t] = age[t] + Step
        /\ timer' = timer /\ at' = at /\ due' = due
    OBVIOUS
  <1>3. Checked(t)' <=> Checked(t)
    BY <1>2 DEF Checked
  <1>4. age[t] <= Period[t] + Longest + spent
    BY <1>1, TypesOf, SMT DEF TimeInv, AgeOf, Young
  <1>5. Minus(lwip_localtime, timer[t]) + Step < Wrap
    BY <1>1, <1>2, <1>4, TypesOf, SMT DEF TimeInv, AgeOf
  <1>6. /\ lwip_localtime' \in Nat /\ lwip_localtime' < Wrap
        /\ Minus(lwip_localtime', timer[t]) = Minus(lwip_localtime, timer[t]) + Step
    BY <1>2, <1>5, Advances, TypesOf DEF TimeInv
  <1>7. Minus(lwip_localtime, timer[t])' = age'[t]
    BY <1>1, <1>2, <1>6, SMT DEF AgeOf, Minus
  <1>8. Young(t)'
    BY <1>1, <1>2, <1>3, TypesOf, SMT DEF TimeInv, AgeOf, Young
  <1>9. at' = "call" /\ due' = t => age'[t] >= Period[t]
    BY <1>1, <1>2, TypesOf, SMT DEF TimeInv, AgeOf
  <1> QED BY <1>2, <1>6, <1>7, <1>8, <1>9, TypesOf, SMT DEF TimeInv, AgeOf

\* A timer found not due, or a step that neither looks at a timer nor serves it.
LEMMA NotYetKeeps ==
    ASSUME TimeInv, NotYet, NEW t \in Timers
    PROVE  AgeOf(t)'
  <1>1. AgeOf(t) /\ at = "check" /\ due \in Timers /\ due' \in Timers
    BY DEF TimeInv, TimeTypeOK, AgeInv, AgeOf, NotYet, GoOn, Timers
  <1>2. due = t => age[t] < Period[t]
    BY <1>1, TypesOf, SMT DEF TimeInv, NotYet, Elapsed, AgeOf
  <1>3. lwip_localtime' = lwip_localtime /\ timer' = timer /\ age' = age
    BY DEF NotYet
  <1>4. at' # "call"
    BY DEF NotYet, GoOn
  <1>5. CASE due = "tcp"
    <2>1. due' = "arp" /\ spent' = spent /\ ~Checked(t)
      BY <1>5 DEF NotYet, GoOn, Checked
    <2>2. Checked(t)' <=> t = "tcp"
      BY <2>1 DEF Checked
    <2>3. Young(t)'
      <3>1. CASE t = "tcp"
        BY <1>2, <1>3, <1>5, <2>1, <2>2, <3>1, TypesOf, SMT DEF TimeInv, Young
      <3>2. CASE t # "tcp"
        BY <1>1, <1>3, <2>1, <2>2, <3>2 DEF AgeOf, Young
      <3> QED BY <3>1, <3>2
    <2> QED BY <1>1, <1>3, <1>4, <2>3 DEF AgeOf, Minus
  <1>6. CASE due = "arp"
    <2>1. due' = "tcp" /\ spent' = 0
      BY <1>6 DEF NotYet, GoOn
    <2>2. ~Checked(t)'
      BY <2>1 DEF Checked
    <2>3. age[t] <= Period[t] + spent
      <3>1. CASE t = "tcp"
        <4>1. age[t] <= Period[t] + spent + 0
          BY <1>1, <1>6, <3>1 DEF AgeOf, Young, Checked
        <4> QED BY <4>1, TypesOf, SMT DEF TimeInv
      <3>2. CASE t = "arp"
        BY <1>2, <1>6, <3>2, TypesOf, SMT DEF TimeInv
      <3> QED BY <3>1, <3>2 DEF Timers
    <2>4. Young(t)'
      BY <1>3, <2>1, <2>2, <2>3, TypesOf, SMT DEF TimeInv, Young
    <2> QED BY <1>1, <1>3, <1>4, <2>4 DEF AgeOf, Minus
  <1> QED BY <1>1, <1>5, <1>6 DEF Timers

\* The call of a timer that is due.
LEMMA CallKeeps ==
    ASSUME TimeInv, Call, NEW t \in Timers
    PROVE  AgeOf(t)' /\ timer'[t] \in 0..(Wrap - 1) /\ age'[t] \in Nat
  <1>1. /\ AgeOf(t) /\ due \in Timers /\ lwip_localtime' = lwip_localtime
        /\ timer \in [Timers -> 0..(Wrap - 1)] /\ age \in [Timers -> Nat]
    BY DEF TimeInv, TimeTypeOK, AgeInv, AgeOf, Call
  <1>2. at' # "call"
    BY DEF Call, GoOn
  <1>3. CASE due = t
    <2>1. timer'[t] = lwip_localtime /\ age'[t] = 0
      BY <1>1, <1>3 DEF Call
    <2>2. spent' \in Nat
      <3>1. CASE due = "tcp"
        BY <3>1, TypesOf DEF Call, GoOn, TimeInv
      <3>2. CASE due # "tcp"
        BY <3>2 DEF Call, GoOn
      <3> QED BY <3>1, <3>2
    <2>3. Young(t)'
      BY <2>1, <2>2, TypesOf, SMT DEF TimeInv, Young
    <2>4. Minus(lwip_localtime, timer[t])' = age'[t]
      BY <1>1, <2>1, TypesOf, SMT DEF TimeInv, Minus
    <2> QED BY <1>1, <1>2, <2>1, <2>3, <2>4, TypesOf, SMT DEF TimeInv, AgeOf
  <1>4. CASE due # t
    <2>1. timer'[t] = timer[t] /\ age'[t] = age[t]
      BY <1>1, <1>4 DEF Call
    <2>2. Minus(lwip_localtime, timer[t])' = age'[t]
      BY <1>1, <2>1 DEF AgeOf, Minus
    <2>3. Young(t)'
      <3>1. CASE due = "tcp"
        <4>1. t = "arp" /\ spent' = spent
          BY <1>4, <3>1 DEF Timers, Call, GoOn
        <4> QED BY <1>1, <2>1, <4>1 DEF AgeOf, Young, Checked
      <3>2. CASE due = "arp"
        <4>1. t = "tcp" /\ due' = "tcp" /\ spent' = 0
          BY <1>4, <3>2 DEF Timers, Call, GoOn
        <4>2. age[t] <= Period[t] + spent
          <5>1. age[t] <= Period[t] + spent + 0
            BY <1>1, <3>2, <4>1 DEF AgeOf, Young, Checked
          <5> QED BY <5>1, TypesOf, SMT DEF TimeInv
        <4>3. ~Checked(t)'
          BY <4>1 DEF Checked
        <4> QED BY <2>1, <4>1, <4>2, <4>3, TypesOf, SMT DEF TimeInv, Young
      <3> QED BY <1>1, <3>1, <3>2 DEF Timers
    <2> QED BY <1>1, <1>2, <2>1, <2>2, <2>3 DEF AgeOf
  <1> QED BY <1>3, <1>4
-----------------------------------------------------------------------------
LEMMA TimeStart == TimeInit => TimeInv
  <1> SUFFICES ASSUME TimeInit PROVE TimeInv
    OBVIOUS
  <1> USE TimeAssumption DEF TimeInit
  <1>1. TimeTypeOK
    BY SMT DEF TimeTypeOK, Timers
  <1>2. ASSUME NEW t \in Timers PROVE AgeOf(t)
    <2>1. lwip_localtime = 0 /\ timer[t] = 0 /\ age[t] = 0 /\ spent = 0 /\ at # "call"
      OBVIOUS
    <2>2. Young(t)
      BY <2>1, SMT DEF Young
    <2> QED BY <2>1, <2>2, SMT DEF AgeOf, Minus
  <1> QED BY <1>1, <1>2 DEF TimeInv, AgeInv, AgeOf

LEMMA TimeStep == TimeInv /\ [TimeNext]_timeVars => TimeInv'
  <1> SUFFICES ASSUME TimeInv, [TimeNext]_timeVars PROVE TimeInv'
    OBVIOUS
  <1>1. TimeTypeOK /\ \A t \in Timers : AgeOf(t)
    BY DEF TimeInv, AgeInv, AgeOf
  <1>2. CASE Advance
    <2>1. \A t \in Timers : AgeOf(t)'
      BY <1>2, AdvanceKeeps
    <2>2. lwip_localtime' \in 0..(Wrap - 1) /\ spent' \in 0..Longest
      BY <1>2, AdvanceKeeps DEF Timers
    <2>3. age' \in [Timers -> Nat]
      BY <1>1, <1>2, TimeAssumption, SMT DEF Advance, TimeTypeOK
    <2>4. TimeTypeOK'
      BY <1>1, <1>2, <2>2, <2>3 DEF Advance, TimeTypeOK
    <2> QED BY <2>1, <2>4 DEF TimeInv, AgeInv, AgeOf
  <1>3. CASE StartChecks
    <2> USE <1>3 DEF StartChecks
    <2>1. TimeTypeOK'
      BY <1>1 DEF TimeTypeOK
    <2>2. ASSUME NEW t \in Timers PROVE AgeOf(t)'
      BY <1>1, <2>2 DEF AgeOf, Young, Checked, Minus
    <2> QED BY <2>1, <2>2 DEF TimeInv, AgeInv, AgeOf
  <1>4. CASE NotYet
    <2>1. TimeTypeOK'
      BY <1>1, <1>4, TimeAssumption, SMT DEF NotYet, GoOn, TimeTypeOK, Timers
    <2> QED BY <1>4, <2>1, NotYetKeeps DEF TimeInv, AgeInv, AgeOf
  <1>5. CASE Late
    <2>1. TimeTypeOK'
      BY <1>1, <1>5 DEF Late, TimeTypeOK
    <2>2. ASSUME NEW t \in Timers PROVE AgeOf(t)'
      <3>1. AgeOf(t) /\ at' = "call" /\ due' = due
        BY <1>1, <1>5, <2>2 DEF Late
      <3>2. due = t => age[t] >= Period[t]
        BY <1>5, <3>1 DEF Late, Elapsed, AgeOf
      <3> QED BY <1>5, <3>1, <3>2 DEF Late, AgeOf, Young, Checked, Minus
    <2> QED BY <2>1, <2>2 DEF TimeInv, AgeInv, AgeOf
  <1>6. CASE Call
    <2>1. TimeTypeOK'
      <3>1. /\ timer' = [timer EXCEPT ![due] = lwip_localtime]
            /\ age' = [age EXCEPT ![due] = 0]
            /\ lwip_localtime' = lwip_localtime
        BY <1>6 DEF Call
      <3>2. timer' \in [Timers -> 0..(Wrap - 1)] /\ age' \in [Timers -> Nat]
        BY <1>1, <3>1 DEF TimeTypeOK
      <3>3. at' \in {"rest", "check", "call"} /\ due' \in Timers /\ spent' \in 0..Longest
        BY <1>1, <1>6, TimeAssumption, SMT DEF Call, GoOn, TimeTypeOK, Timers
      <3> QED BY <1>1, <3>1, <3>2, <3>3 DEF TimeTypeOK
    <2> QED BY <1>6, <2>1, CallKeeps DEF TimeInv, AgeInv, AgeOf
  <1>7. CASE UNCHANGED timeVars
    BY <1>1, <1>7 DEF timeVars, TimeInv, TimeTypeOK, AgeInv, AgeOf, Young, Checked, Minus
  <1> QED BY <1>2, <1>3, <1>4, <1>5, <1>6, <1>7 DEF TimeNext, lwip_periodic_handle

\* The u32 difference is the time since a timer was served, in every state.
THEOREM AgesTrue == TimeSpec => []TimeInv
  BY TimeStart, TimeStep, PTL DEF TimeSpec

\* tcp_tmr and etharp_tmr come within two turns of main()'s loop after their
\* period, for all periods, also when lwip_localtime wraps around.
THEOREM ServedOnTime == TimeSpec => []OnTime
  <1>1. TimeInv => OnTime
    <2> SUFFICES ASSUME TimeInv, NEW t \in Timers PROVE age[t] <= Period[t] + 2 * Longest
      BY DEF OnTime
    <2>1. Young(t)
      BY DEF TimeInv, AgeInv
    <2> QED BY <2>1, TypesOf, SMT DEF TimeInv, Young
  <1> QED BY <1>1, AgesTrue, PTL

\* They are never called before their period has passed.
THEOREM ServedNeverEarly == TimeSpec => NeverEarly
  <1>1. TimeInv /\ [TimeNext]_timeVars
          => [\A t \in Timers : age'[t] < age[t] => age[t] >= Period[t]]_timeVars
    <2> SUFFICES ASSUME TimeInv, TimeNext, NEW t \in Timers, age'[t] < age[t]
                 PROVE  age[t] >= Period[t]
      OBVIOUS
    <2>1. age \in [Timers -> Nat] /\ AgeOf(t) /\ age[t] \in Nat
      BY DEF TimeInv, TimeTypeOK, AgeInv, AgeOf
    <2>2. CASE Advance
      BY <2>1, <2>2, TypesOf, SMT DEF TimeInv, Advance
    <2>3. CASE Call
      <3>1. at = "call" /\ age' = [age EXCEPT ![due] = 0]
        BY <2>3 DEF Call
      <3>2. CASE due = t
        BY <2>1, <3>1, <3>2 DEF AgeOf
      <3>3. CASE due # t
        <4>1. age'[t] = age[t]
          BY <2>1, <3>1, <3>3
        <4> QED BY <2>1, <4>1, SMT
      <3> QED BY <3>2, <3>3
    <2>4. CASE age' = age
      BY <2>1, <2>4, SMT
    <2> QED BY <2>2, <2>3, <2>4 DEF TimeNext, lwip_periodic_handle, StartChecks, NotYet, Late
  <1> QED BY <1>1, AgesTrue, PTL DEF TimeSpec, NeverEarly
-----------------------------------------------------------------------------
(***************************************************************************)
(* The work ticks.  Once cycle is known, timer_cnt counts the interrupts   *)
(* of a round: those of the phases before tick, and one more than have     *)
(* come since; it stands at 0 again after the last of them.                *)
(***************************************************************************)
Starting == pc \in {"enable", "count", "cycle"}

InRound == timer_cnt = tick * cycle + (since + 1) /\ timer_cnt < cycle * Phases
RoundOver == timer_cnt = 0 /\ tick + 1 = Phases /\ since + 1 = cycle

TickInv == /\ timer_cnt \in Nat /\ cycle \in Nat /\ tick \in Nat /\ since \in Nat
           /\ tick < Phases
           /\ Starting => cycle = 0
           /\ ~Starting => cycle > 0
           /\ cycle = 0 => ~started
           /\ ~started => timer_cnt = 0
           /\ started => since < cycle /\ (InRound \/ RoundOver)

\* Division by a whole number: the only way to write a number as a multiple
\* and a rest.
LEMMA Division ==
    ASSUME NEW c \in Nat, c > 0, NEW q \in Nat, NEW r \in Nat, r < c
    PROVE  (q * c + r) \div c = q
  <1> DEFINE x == q * c + r
             d == x \div c
             m == x % c
  <1>1. x \in Nat
    BY SMT
  <1>2. d \in Int /\ m \in Nat /\ m < c /\ x = c * d + m
    <2> HIDE DEF x
    <2> QED BY <1>1, SMT
  <1> HIDE DEF d, m
  <1>3. ~(d >= q + 1)
    <2> SUFFICES ASSUME d >= q + 1 PROVE FALSE
      OBVIOUS
    <2>1. c * d >= c * (q + 1)
      BY <1>2, SMT
    <2> QED BY <1>2, <2>1, SMT
  <1>4. ~(q >= d + 1)
    <2> SUFFICES ASSUME q >= d + 1 PROVE FALSE
      OBVIOUS
    <2>1. c * q >= c * (d + 1)
      BY <1>2, SMT
    <2> QED BY <1>2, <2>1, SMT
  <1>5. d = q
    BY <1>2, <1>3, <1>4, SMT
  <1> QED BY <1>5 DEF d

LEMMA TickTypes ==
    /\ Pairs \in Nat /\ Pairs > 0 /\ Phases \in Nat /\ Phases >= 3
    /\ Unit \in Nat /\ Unit > 0
  BY TickAssumption, SMT DEF Phases

\* The interrupt, by what timer_cnt says.
LEMMA TickCases ==
    ASSUME TickInv, timerProcess
    PROVE  /\ TickInv'
           /\ \/ since' = since + 1 /\ since' < cycle /\ tick' = tick
              \/ ~started /\ tick' = 0 /\ since' = 0
              \/ /\ started /\ since + 1 = cycle /\ since' = 0
                 /\ tick' = (tick + 1) % Phases
  <1>1. /\ timer_cnt \in Nat /\ cycle \in Nat /\ tick \in Nat /\ since \in Nat /\ tick < Phases
        /\ cycle' = cycle /\ Starting' = Starting
        /\ timer_cnt' = IF timer_cnt + 1 >= cycle * Phases THEN 0 ELSE timer_cnt + 1
    BY DEF TickInv, timerProcess, Over, Starting
  <1>2. ASSUME Remainder(timer_cnt, cycle) = 0
        PROVE  /\ tick' = Quotient(timer_cnt, cycle) % Phases
               /\ since' = 0 /\ started' = (cycle # 0)
    BY <1>2 DEF timerProcess
  <1>3. ASSUME Remainder(timer_cnt, cycle) # 0
        PROVE  since' = since + 1 /\ tick' = tick /\ started' = started
    BY <1>3 DEF timerProcess
  <1>4. CASE ~started
    <2>1. timer_cnt = 0
      BY <1>4 DEF TickInv
    <2>2. Quotient(timer_cnt, cycle) = 0
      <3>1. CASE cycle = 0
        BY <3>1 DEF Quotient
      <3>2. CASE cycle # 0
        BY <1>1, <2>1, <3>2, SMT DEF Quotient
      <3> QED BY <3>1, <3>2
    <2>3. Remainder(timer_cnt, cycle) = 0
      BY <1>1, <2>1, <2>2, SMT DEF Remainder
    <2>4. tick' = 0 /\ since' = 0 /\ started' = (cycle # 0)
      <3>1. 0 % Phases = 0
        BY TickTypes, SMT
      <3> QED BY <1>2, <2>2, <2>3, <3>1
    <2>5. CASE cycle = 0
      <3>1. timer_cnt' = 0
        <4>1. cycle * Phases = 0
          BY <2>5, TickTypes, SMT
        <4> QED BY <1>1, <2>1, <4>1, SMT
      <3>2. TickInv'
        <4>1. ~started'
          BY <2>4, <2>5
        <4>2. timer_cnt' \in Nat /\ since' \in Nat /\ tick' \in Nat /\ tick' < Phases
          BY <2>4, <3>1, TickTypes, SMT
        <4>3. cycle' = 0 /\ Starting'
          BY <1>1, <2>5, SMT DEF TickInv
        <4> QED BY <3>1, <4>1, <4>2, <4>3, SMT DEF TickInv
      <3> QED BY <1>4, <2>4, <3>2
    <2>6. CASE cycle # 0
      <3>1. cycle * Phases >= 3
        BY <1>1, <2>6, TickTypes, SMT
      <3>2. timer_cnt' = 1
        BY <1>1, <2>1, <3>1, TickTypes, SMT
      <3>3. cycle' \in Nat /\ cycle' > 0 /\ 0 * cycle' + (0 + 1) = 1 /\ 1 < cycle' * Phases
        BY <1>1, <2>6, <3>1, TickTypes, SMT
      <3>4. InRound'
        BY <2>4, <3>2, <3>3 DEF InRound
      <3>5. ~Starting'
        BY <1>1, <2>6 DEF TickInv
      <3>6. TickInv'
        <4>1. started'
          BY <2>4, <2>6
        <4>2. timer_cnt' \in Nat /\ since' \in Nat /\ tick' \in Nat /\ tick' < Phases
              /\ since' < cycle'
          BY <2>4, <3>2, <3>3, TickTypes, SMT
        <4> QED BY <3>3, <3>4, <3>5, <4>1, <4>2 DEF TickInv
      <3> QED BY <1>4, <2>4, <3>6
    <2> QED BY <2>5, <2>6
  <1>5. CASE started
    <2>1. cycle > 0 /\ cycle # 0 /\ since < cycle /\ (InRound \/ RoundOver) /\ ~Starting
      BY <1>1, <1>5, SMT DEF TickInv
    <2>2. CASE RoundOver
      <3>1. timer_cnt = 0 /\ tick + 1 = Phases /\ since + 1 = cycle
        BY <2>2 DEF RoundOver
      <3>2. Quotient(timer_cnt, cycle) = 0 /\ Remainder(timer_cnt, cycle) = 0
        BY <1>1, <2>1, <3>1, SMT DEF Quotient, Remainder
      <3>3. 0 % Phases = 0 /\ (tick + 1) % Phases = 0
        BY <3>1, TickTypes, SMT
      <3>4. tick' = 0 /\ since' = 0 /\ started'
        BY <1>2, <2>1, <3>2, <3>3
      <3>5. cycle * Phases >= 3
        BY <1>1, <2>1, TickTypes, SMT
      <3>6. timer_cnt' = 1
        BY <1>1, <3>1, <3>5, TickTypes, SMT
      <3>7. cycle' \in Nat /\ cycle' > 0 /\ 0 * cycle' + (0 + 1) = 1 /\ 1 < cycle' * Phases
        BY <1>1, <2>1, <3>5, TickTypes, SMT
      <3>8. InRound'
        BY <3>4, <3>6, <3>7 DEF InRound
      <3>9. TickInv'
        BY <1>1, <2>1, <3>4, <3>6, <3>7, <3>8, TickTypes DEF TickInv
      <3> QED BY <1>5, <3>1, <3>3, <3>4, <3>9
    <2>3. CASE InRound
      <3>1. timer_cnt = tick * cycle + (since + 1) /\ timer_cnt < cycle * Phases
        BY <2>3 DEF InRound
      <3>2. CASE since + 1 = cycle
        <4>1. timer_cnt = (tick + 1) * cycle + 0 /\ tick + 1 \in Nat
          BY <1>1, <3>1, <3>2, SMT
        <4>2. Quotient(timer_cnt, cycle) = tick + 1
          BY <1>1, <2>1, <4>1, Division DEF Quotient
        <4>3. Remainder(timer_cnt, cycle) = 0
          BY <1>1, <4>1, <4>2, SMT DEF Remainder
        <4>4. tick + 1 < Phases
          <5>1. tick + 1 >= Phases => (tick + 1) * cycle >= cycle * Phases
            BY <1>1, <4>1, TickTypes, SMT
          <5>2. ~(tick + 1 >= Phases)
            BY <1>1, <3>1, <4>1, <5>1, TickTypes, SMT
          <5> QED BY <4>1, <5>2, TickTypes, SMT
        <4>5. (tick + 1) % Phases = tick + 1
          BY <4>1, <4>4, TickTypes, SMT
        <4>6. tick' = tick + 1 /\ since' = 0 /\ started'
          BY <1>2, <2>1, <4>2, <4>3, <4>5
        <4> DEFINE k == tick'
        <4>7. timer_cnt = k * cycle /\ k < Phases /\ k \in Nat
          BY <1>1, <4>1, <4>4, <4>6, SMT
        <4> HIDE DEF k
        <4>8. k * cycle + cycle <= cycle * Phases
          <5>1. (k + 1) * cycle <= Phases * cycle
            BY <1>1, <4>7, TickTypes, SMT
          <5> QED BY <1>1, <4>7, <5>1, TickTypes, SMT
        <4>9. InRound' \/ RoundOver'
          <5>1. CASE timer_cnt + 1 >= cycle * Phases
            <6>1. cycle = 1
              BY <1>1, <2>1, <4>7, <4>8, <5>1, TickTypes, SMT
            <6>2. k + 1 = Phases
              BY <1>1, <4>7, <5>1, <6>1, TickTypes, SMT
            <6> QED BY <1>1, <4>6, <5>1, <6>1, <6>2 DEF RoundOver, k
          <5>2. CASE ~(timer_cnt + 1 >= cycle * Phases)
            <6>1. timer_cnt + 1 = k * cycle + (0 + 1) /\ timer_cnt + 1 < cycle * Phases
              BY <1>1, <4>7, <5>2, TickTypes, SMT
            <6> QED BY <1>1, <4>6, <5>2, <6>1 DEF InRound, k
          <5> QED BY <5>1, <5>2
        <4>10. timer_cnt' \in Nat
          BY <1>1, SMT
        <4>11. TickInv'
          BY <1>1, <2>1, <4>6, <4>7, <4>9, <4>10 DEF TickInv, k
        <4> QED BY <1>5, <3>2, <4>5, <4>6, <4>11
      <3>3. CASE since + 1 # cycle
        <4>1. since + 1 < cycle /\ since + 1 \in Nat
          BY <1>1, <2>1, <3>3, SMT
        <4>2. Quotient(timer_cnt, cycle) = tick
          BY <1>1, <2>1, <3>1, <4>1, Division DEF Quotient
        <4>3. Remainder(timer_cnt, cycle) # 0
          BY <1>1, <2>1, <3>1, <4>2, SMT DEF Remainder
        <4>4. since' = since + 1 /\ tick' = tick /\ started'
          BY <1>3, <1>5, <4>3
        <4>5. timer_cnt + 1 = tick * cycle + ((since + 1) + 1)
          BY <1>1, <3>1, SMT
        <4>6. InRound' \/ RoundOver'
          <5>1. CASE timer_cnt + 1 >= cycle * Phases
            <6>1. tick + 1 >= Phases
              <7> SUFFICES ASSUME ~(tick + 1 >= Phases) PROVE FALSE
                OBVIOUS
              <7>1. tick + 2 <= Phases
                BY <1>1, TickTypes, SMT
              <7>2. (tick + 2) * cycle <= Phases * cycle
                BY <1>1, <7>1, TickTypes, SMT
              <7> QED BY <1>1, <2>1, <4>1, <4>5, <5>1, <7>2, TickTypes, SMT
            <6>2. tick + 1 = Phases
              BY <1>1, <6>1, TickTypes, SMT
            <6>3. cycle * Phases = tick * cycle + cycle
              BY <1>1, <6>2, SMT
            <6>4. (since + 1) + 1 = cycle
              BY <1>1, <4>1, <4>5, <5>1, <6>3, SMT
            <6> QED BY <1>1, <4>4, <5>1, <6>2, <6>4 DEF RoundOver
          <5>2. CASE ~(timer_cnt + 1 >= cycle * Phases)
            <6>1. timer_cnt + 1 < cycle * Phases
              BY <1>1, <5>2, TickTypes, SMT
            <6> QED BY <1>1, <4>4, <4>5, <5>2, <6>1 DEF InRound
          <5> QED BY <5>1, <5>2
        <4>7. timer_cnt' \in Nat
          BY <1>1, SMT
        <4>8. since' \in Nat /\ tick' \in Nat /\ since' < cycle' /\ tick' < Phases
          BY <1>1, <4>1, <4>4
        <4>9. TickInv'
          BY <1>1, <2>1, <4>4, <4>6, <4>7, <4>8 DEF TickInv
        <4> QED BY <1>1, <4>1, <4>4, <4>9
      <3> QED BY <3>2, <3>3
    <2> QED BY <2>1, <2>2, <2>3
  <1> QED BY <1>4, <1>5

\* The other steps of main() leave the tick alone, but for initTimer, which is
\* over before cycle is known.
LEMMA TickRests ==
    ASSUME TickInv, MainNext, ~timerProcess
    PROVE  TickInv'
  <1>1. ASSUME UNCHANGED timing, Starting' = Starting
        PROVE  TickInv'
    BY <1>1 DEF timing, TickInv, InRound, RoundOver
  <1>2. CASE EnableTimer \/ Take \/ NoMessage \/ Poll \/ Broken \/ Normal \/ Pulse \/ Handled
             \/ Others \/ Plug
    <2>1. UNCHANGED timing /\ Starting' = Starting
      BY <1>2 DEF EnableTimer, Take, NoMessage, Poll, Broken, Normal, Pulse, Handled,
         Others, Plug, Goto, Starting
    <2> QED BY <1>1, <2>1
  <1>3. CASE ResetCount
    <2>1. /\ Starting /\ Starting' /\ timer_cnt' = 0
          /\ UNCHANGED <<cycle, tick, since, started>>
      BY <1>3 DEF ResetCount, Goto, Starting
    <2> QED BY <2>1 DEF TickInv
  <1>4. CASE SetCycle
    <2>1. /\ Starting /\ ~Starting' /\ UNCHANGED <<timer_cnt, tick, since, started>>
      BY <1>4 DEF SetCycle, Goto, Starting
    <2>2. cycle' \in Nat /\ cycle' > 0
      <3>1. PICK q \in Queries : cycle' = Unit * (IF q > 0 THEN q ELSE 1)
        BY <1>4 DEF SetCycle
      <3> DEFINE d == IF q > 0 THEN q ELSE 1
      <3>2. d \in Nat /\ d > 0
        BY TickAssumption, SMT
      <3> HIDE DEF d
      <3>3. cycle' = Unit * d
        BY <3>1 DEF d
      <3> QED BY <3>2, <3>3, TickTypes, SMT
    <2> QED BY <2>1, <2>2 DEF TickInv
  <1> QED BY <1>2, <1>3, <1>4 DEF MainNext, Main

LEMMA TickStart == MainInit => TickInv
  BY TickTypes, SMT DEF MainInit, TickInv, Starting

LEMMA TickStep == TickInv /\ [MainNext]_mainVars => TickInv'
  <1> SUFFICES ASSUME TickInv, [MainNext]_mainVars PROVE TickInv'
    OBVIOUS
  <1>1. CASE UNCHANGED mainVars
    BY <1>1 DEF mainVars, timing, TickInv, InRound, RoundOver, Starting
  <1> QED BY <1>1, TickCases, TickRests

\* The counter of the TIM3 interrupt says which phase is under way and how far.
THEOREM RoundCounted == MainSpec => []TickInv
  BY TickStart, TickStep, PTL DEF MainSpec

\* timer.c: for every number of phases and every query cycle, work ticks come
\* `cycle` interrupts apart and name the phases in turn, whatever main() and
\* the other publishers do between the interrupts.
THEOREM TicksComeInTurn == MainSpec => TicksInTurn
  <1>1. TickInv /\ [MainNext]_mainVars =>
           [timerProcess => \/ since' = since + 1 /\ since' < cycle /\ tick' = tick
                            \/ ~started /\ tick' = 0 /\ since' = 0
                            \/ /\ started /\ since + 1 = cycle /\ since' = 0
                               /\ tick' = (tick + 1) % Phases]_mainVars
    BY TickCases
  <1> QED BY <1>1, RoundCounted, PTL DEF MainSpec, TicksInTurn
=============================================================================
