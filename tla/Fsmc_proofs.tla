----------------------------- MODULE Fsmc_proofs -----------------------------
(***************************************************************************)
(* Proofs about Delay, Fsmc and UartFsmc: for every length of the delays,  *)
(* none is cut short but those of main(), and the accesses to the bus are  *)
(* spaced all the same; for every depth of the FIFOs and size of a report, *)
(* the bytes of a UART are reported in order and in well-formed reports.   *)
(***************************************************************************)
EXTENDS Fsmc, UartFsmc, SequenceTheorems, WellFoundedInduction, TLAPS

\* The timer as a context uses it: from the first load on it counts down to 0
\* no faster than time passes.
Counts(c) == /\ VAL <= need[c]
             /\ VAL > 0 => passed[c] + VAL > need[c]
             /\ COUNTFLAG => passed[c] >= need[c]
DelayInv(c) == /\ at[c] \in {"clear", "enable", "wait"} => LOAD = need[c]
               /\ at[c] \in {"enable", "wait"} => Counts(c)
               /\ at[c] = "wait" => ENABLE
               /\ at[c] \in {"stop", "zero"} => passed[c] >= need[c]

TimerInv == /\ DelayTypeOK
            /\ at["eth"] # "idle" => inIrq
            /\ at["eth"] # "idle" /\ at["main"] # "idle" => cut
            /\ DelayInv("eth")
            /\ ~cut => DelayInv("main")

\* As many ticks have passed since an access as since the call of a delay, or
\* enough of them.
Since(ticks, enough, c) == ticks >= enough \/ ticks >= passed[c]

SpaceInv == /\ quiet \in Nat /\ low \in Nat /\ accessed \in BOOLEAN
            /\ reset \in {"off", "low", "held"}
            /\ reset # "off" => inIrq /\ accessed
            /\ inIrq /\ accessed /\ at["main"] # "idle" => cut
            /\ at["eth"] # "idle" => need["eth"] >= Moment /\ Since(quiet, Moment, "eth")
            /\ at["eth"] = "idle" =>
                  \/ quiet >= Moment
                  \/ /\ at["main"] # "idle" /\ ~cut
                     /\ need["main"] >= Moment /\ Since(quiet, Moment, "main")
            /\ reset = "held" =>
                  /\ at["eth"] # "idle" => /\ need["eth"] = Microseconds
                                           /\ Since(low, Microseconds, "eth")
                  /\ at["eth"] = "idle" => low >= Microseconds
BusInv == TimerInv /\ SpaceInv
-----------------------------------------------------------------------------
LEMMA NumbersTyped ==
    ASSUME DelayTypeOK, NEW c \in Ctx
    PROVE  LOAD \in Nat /\ VAL \in Nat /\ need[c] \in Nat /\ passed[c] \in Nat
  <1>1. need[c] \in Delays \cup {0} /\ passed[c] \in Nat /\ LOAD \in Nat /\ VAL \in Nat
    BY DEF DelayTypeOK
  <1>2. Delays \cup {0} \subseteq Nat
    BY DelayAssumption, SMT
  <1> QED BY <1>1, <1>2

LEMMA CtxIs == Ctx = {"main", "eth"} /\ "main" \in Ctx /\ "eth" \in Ctx
  BY DEF Ctx

\* A tick takes one from the timer and adds one to the time passed, up to need.
LEMMA TickCounts ==
    ASSUME DelayTypeOK, Tick
    PROVE  /\ DelayTypeOK'
           /\ UNCHANGED <<inIrq, at, need, cut>>
           /\ \A c \in Ctx : passed'[c] = IF passed[c] < need[c] THEN passed[c] + 1
                                          ELSE passed[c]
  <1>1. /\ UNCHANGED <<inIrq, at, need, cut>>
        /\ passed' = [c \in Ctx |-> IF passed[c] < need[c] THEN passed[c] + 1 ELSE passed[c]]
    BY DEF Tick
  <1>2. passed' \in [Ctx -> Nat]
    <2>1. \A c \in Ctx : (IF passed[c] < need[c] THEN passed[c] + 1 ELSE passed[c]) \in Nat
      BY NumbersTyped, SMT
    <2> QED BY <1>1, <2>1
  <1>3. LOAD' \in Nat /\ VAL' \in Nat
    <2>1. LOAD \in Nat /\ VAL \in Nat
      BY DEF DelayTypeOK
    <2>2. CASE VAL = 0
      BY <2>1, <2>2 DEF Tick, Counting, registers
    <2>3. CASE VAL # 0
      BY <2>1, <2>3, SMT DEF Tick, Counting, registers
    <2> QED BY <2>2, <2>3
  <1>4. ENABLE' \in BOOLEAN
    BY DEF Tick, Counting, registers, DelayTypeOK
  <1>5. COUNTFLAG' \in BOOLEAN
    BY DEF Tick, Counting, registers, DelayTypeOK
  <1> QED BY <1>1, <1>2, <1>3, <1>4, <1>5 DEF DelayTypeOK

LEMMA TickKeeps ==
    ASSUME DelayTypeOK, Tick, NEW c \in Ctx, DelayInv(c)
    PROVE  DelayInv(c)'
  <1>1. /\ at'[c] = at[c] /\ need'[c] = need[c]
        /\ passed'[c] = IF passed[c] < need[c] THEN passed[c] + 1 ELSE passed[c]
        /\ LOAD \in Nat /\ VAL \in Nat /\ need[c] \in Nat /\ passed[c] \in Nat
    BY TickCounts, NumbersTyped
  <1>2. LOAD' = LOAD /\ (ENABLE' <=> ENABLE)
    BY DEF Tick, Counting, registers
  <1>3. passed[c] >= need[c] => passed'[c] >= need[c]
    BY <1>1, SMT
  <1>4. at[c] \in {"enable", "wait"} => Counts(c)'
    <2> SUFFICES ASSUME at[c] \in {"enable", "wait"} PROVE Counts(c)'
      OBVIOUS
    <2>1. LOAD = need[c] /\ VAL <= need[c] /\ (VAL > 0 => passed[c] + VAL > need[c])
      BY DEF DelayInv, Counts
    <2>2. COUNTFLAG => passed[c] >= need[c]
      BY DEF DelayInv, Counts
    <2>3. CASE ~ENABLE
      <3>1. VAL' = VAL /\ (COUNTFLAG' <=> COUNTFLAG)
        BY <2>3 DEF Tick, Counting, registers
      <3>2. VAL > 0 => passed'[c] + VAL > need[c]
        BY <1>1, <2>1, SMT
      <3> QED BY <1>1, <1>3, <2>1, <2>2, <3>1, <3>2 DEF Counts
    <2>4. CASE ENABLE
      <3>1. VAL' = IF VAL = 0 THEN LOAD ELSE VAL - 1
        BY <2>4 DEF Tick, Counting
      <3>2. COUNTFLAG' <=> COUNTFLAG \/ VAL = 1
        BY <2>4 DEF Tick, Counting
      <3>3. VAL' <= need[c] /\ (VAL' > 0 => passed'[c] + VAL' > need[c])
        BY <1>1, <2>1, <3>1, SMT
      <3>4. VAL = 1 => passed'[c] >= need[c]
        BY <1>1, <2>1, SMT
      <3> QED BY <1>1, <1>3, <2>2, <3>2, <3>3, <3>4 DEF Counts
    <2> QED BY <2>3, <2>4
  <1> QED BY <1>1, <1>2, <1>3, <1>4 DEF DelayInv

\* A step within a delay, and the call of one.
LEMMA DelayingIs ==
    ASSUME DelayTypeOK, NEW c \in Ctx, Delaying(c)
    PROVE  /\ DelayTypeOK' /\ Runs(c) /\ at[c] # "idle"
           /\ UNCHANGED <<inIrq, need, passed, cut>>
           /\ \A d \in Ctx : d # c => at'[d] = at[d]
  <1>1. PICK here, next \in {"idle", "load", "clear", "enable", "wait", "stop", "zero"} :
           GoOn(c, here, next) /\ here # "idle"
    BY DEF Delaying, Load, Clear, Enable, Wait, Stop, Zero
  <1>2. /\ Runs(c) /\ at[c] # "idle" /\ UNCHANGED <<inIrq, need, passed, cut>>
        /\ at' = [at EXCEPT ![c] = next]
    BY <1>1 DEF GoOn
  <1>3. at' \in [Ctx -> {"idle", "load", "clear", "enable", "wait", "stop", "zero"}]
    BY <1>1, <1>2 DEF DelayTypeOK
  <1>4. LOAD' \in Nat /\ VAL' \in Nat
    BY NumbersTyped DEF Delaying, Load, Clear, Enable, Wait, Stop, Zero
  <1>5. ENABLE' \in BOOLEAN
    BY DEF DelayTypeOK, Delaying, Load, Clear, Enable, Wait, Stop, Zero
  <1>6. COUNTFLAG' \in BOOLEAN
    BY DEF DelayTypeOK, Delaying, Load, Clear, Enable, Wait, Stop, Zero
  <1> QED BY <1>2, <1>3, <1>4, <1>5, <1>6 DEF DelayTypeOK

LEMMA DelayingKeeps ==
    ASSUME DelayTypeOK, NEW c \in Ctx, DelayInv(c), Delaying(c)
    PROVE  DelayInv(c)'
  <1> USE DEF GoOn
  <1>1. /\ LOAD \in Nat /\ VAL \in Nat /\ need[c] \in Nat /\ passed[c] \in Nat
        /\ need' = need /\ passed' = passed
        /\ at \in [Ctx -> {"idle", "load", "clear", "enable", "wait", "stop", "zero"}]
    BY NumbersTyped, DelayingIs DEF DelayTypeOK
  <1>2. CASE Load(c)
    BY <1>1, <1>2 DEF Load, DelayInv
  <1>3. CASE Clear(c)
    <2>1. at'[c] = "enable" /\ VAL' = 0 /\ ~COUNTFLAG' /\ LOAD' = LOAD /\ LOAD = need[c]
      BY <1>1, <1>3 DEF Clear, DelayInv
    <2>2. VAL' <= need[c] /\ ~(VAL' > 0)
      BY <1>1, <2>1, SMT
    <2> QED BY <1>1, <2>1, <2>2 DEF DelayInv, Counts
  <1>4. CASE Enable(c)
    BY <1>1, <1>4 DEF Enable, DelayInv, Counts
  <1>5. CASE Wait(c)
    <2>1. Counts(c) /\ ENABLE /\ LOAD = need[c] /\ at[c] = "wait"
      BY <1>5 DEF Wait, DelayInv
    <2>2. /\ at'[c] = IF Over THEN "stop" ELSE "wait"
          /\ ~COUNTFLAG' /\ UNCHANGED <<LOAD, VAL, ENABLE>>
      BY <1>1, <1>5 DEF Wait
    <2>3. Over => passed[c] >= need[c]
      BY <2>1 DEF Over, Counts
    <2>4. Counts(c)'
      BY <1>1, <2>1, <2>2 DEF Counts
    <2> QED BY <1>1, <2>1, <2>2, <2>3, <2>4 DEF DelayInv
  <1>6. CASE Stop(c)
    BY <1>1, <1>6 DEF Stop, DelayInv
  <1>7. CASE Zero(c)
    BY <1>1, <1>7 DEF Zero, DelayInv
  <1> QED BY <1>2, <1>3, <1>4, <1>5, <1>6, <1>7 DEF Delaying

LEMMA StartDelayIs ==
    ASSUME DelayTypeOK, NEW c \in Ctx, NEW n \in Delays, StartDelay(c, n)
    PROVE  /\ DelayTypeOK' /\ Runs(c) /\ at[c] = "idle"
           /\ UNCHANGED <<registers, inIrq>>
           /\ at'[c] = "load" /\ need'[c] = n /\ passed'[c] = 0
           /\ \A d \in Ctx : d # c => at'[d] = at[d] /\ need'[d] = need[d]
                                      /\ passed'[d] = passed[d]
           /\ cut' = (c = "eth" /\ (cut \/ at["main"] # "idle"))
  <1>1. /\ Runs(c) /\ at[c] = "idle" /\ UNCHANGED <<registers, inIrq>>
        /\ at' = [at EXCEPT ![c] = "load"] /\ need' = [need EXCEPT ![c] = n]
        /\ passed' = [passed EXCEPT ![c] = 0]
        /\ cut' = (c = "eth" /\ (cut \/ at["main"] # "idle"))
    BY DEF StartDelay
  <1>2. cut' \in BOOLEAN
    BY <1>1
  <1>3. /\ at' \in [Ctx -> {"idle", "load", "clear", "enable", "wait", "stop", "zero"}]
        /\ need' \in [Ctx -> Delays \cup {0}] /\ passed' \in [Ctx -> Nat]
    BY <1>1 DEF DelayTypeOK
  <1>4. DelayTypeOK'
    BY <1>1, <1>2, <1>3 DEF DelayTypeOK, registers
  <1>5. /\ at'[c] = "load" /\ need'[c] = n /\ passed'[c] = 0
        /\ \A d \in Ctx : d # c => at'[d] = at[d] /\ need'[d] = need[d]
                                   /\ passed'[d] = passed[d]
    BY <1>1 DEF DelayTypeOK
  <1> QED BY <1>1, <1>4, <1>5

\* What leaves a context's delay and the timer alone keeps its invariant.
LEMMA RestKeeps ==
    ASSUME NEW c \in Ctx, DelayInv(c), UNCHANGED registers,
           at'[c] = at[c], need'[c] = need[c], passed'[c] = passed[c]
    PROVE  DelayInv(c)'
  BY DEF DelayInv, Counts, registers

LEMMA IdleKeeps ==
    ASSUME NEW c \in Ctx, at'[c] \in {"idle", "load"}
    PROVE  DelayInv(c)'
  BY DEF DelayInv
-----------------------------------------------------------------------------
\* The timer under each kind of step of FsmcNext.
LEMMA TimerTick == TimerInv /\ Tick => TimerInv'
  BY TickCounts, TickKeeps, CtxIs DEF TimerInv

LEMMA TimerCount ==
    ASSUME TimerInv, NEW c \in Ctx, Delaying(c)
    PROVE  TimerInv'
  <1>1. /\ DelayTypeOK' /\ Runs(c) /\ at[c] # "idle"
        /\ UNCHANGED <<inIrq, need, passed, cut>>
        /\ \A d \in Ctx : d # c => at'[d] = at[d]
    BY DelayingIs DEF TimerInv
  <1>2. CASE c = "main"
    <2>1. at["eth"] = "idle" /\ at'["eth"] = "idle"
      BY <1>1, <1>2, CtxIs DEF TimerInv, Runs
    <2>2. ~cut => DelayInv("main")'
      BY <1>2, DelayingKeeps, CtxIs DEF TimerInv
    <2> QED BY <1>1, <2>1, <2>2, IdleKeeps, CtxIs DEF TimerInv
  <1>3. CASE c = "eth"
    <2>1. at'["main"] = at["main"]
      BY <1>1, <1>3, CtxIs
    <2>2. DelayInv("eth")'
      BY <1>3, DelayingKeeps, CtxIs DEF TimerInv
    <2>3. ~cut => at["main"] = "idle"
      BY <1>1, <1>3 DEF TimerInv
    <2>4. ~cut => DelayInv("main")'
      BY <2>1, <2>3, IdleKeeps, CtxIs
    <2>5. inIrq
      BY <1>1, <1>3 DEF Runs
    <2>6. at["main"] # "idle" => cut
      BY <2>3
    <2> QED BY <1>1, <2>1, <2>2, <2>4, <2>5, <2>6 DEF TimerInv
  <1> QED BY <1>2, <1>3, CtxIs

LEMMA TimerStart ==
    ASSUME TimerInv, NEW c \in Ctx, NEW n \in Delays, StartDelay(c, n)
    PROVE  TimerInv'
  <1>1. /\ DelayTypeOK' /\ Runs(c) /\ at[c] = "idle"
        /\ UNCHANGED <<registers, inIrq>>
        /\ at'[c] = "load"
        /\ \A d \in Ctx : d # c => at'[d] = at[d] /\ need'[d] = need[d]
                                   /\ passed'[d] = passed[d]
        /\ cut' = (c = "eth" /\ (cut \/ at["main"] # "idle"))
    BY StartDelayIs DEF TimerInv
  <1>2. CASE c = "main"
    <2>1. at["eth"] = "idle" /\ at'["eth"] = "idle" /\ at'["main"] = "load"
      BY <1>1, <1>2, CtxIs DEF TimerInv, Runs
    <2> QED BY <1>1, <2>1, IdleKeeps, CtxIs DEF TimerInv
  <1>3. CASE c = "eth"
    <2>1. inIrq /\ at'["eth"] = "load" /\ at'["main"] = at["main"]
      BY <1>1, <1>3, CtxIs DEF Runs
    <2>2. ~cut' => ~cut /\ at["main"] = "idle"
      BY <1>1, <1>3
    <2>3. ~cut' => DelayInv("main")'
      BY <2>1, <2>2, IdleKeeps, CtxIs
    <2>4. DelayInv("eth")'
      BY <2>1, IdleKeeps, CtxIs
    <2>5. at'["main"] # "idle" => cut'
      BY <2>1, <2>2
    <2> QED BY <1>1, <2>1, <2>3, <2>4, <2>5 DEF TimerInv
  <1> QED BY <1>2, <1>3, CtxIs

LEMMA TimerIrq ==
    ASSUME TimerInv, UNCHANGED <<registers, at, need, passed, cut>>,
           inIrq' \in BOOLEAN, inIrq' \/ at["eth"] = "idle"
    PROVE  TimerInv'
  <1>1. DelayTypeOK'
    BY DEF TimerInv, DelayTypeOK, registers
  <1>2. DelayInv("eth")' /\ (~cut => DelayInv("main")')
    BY RestKeeps, CtxIs DEF TimerInv
  <1> QED BY <1>1, <1>2 DEF TimerInv
-----------------------------------------------------------------------------
LEMMA Bounds ==
    /\ Moment \in Delays /\ Microseconds \in Delays
    /\ Moment \in Nat /\ Microseconds \in Nat /\ Microseconds >= Moment
  <1>1. Moment \in Delays /\ Microseconds \in Delays
    BY MomentAssumption
  <1>2. Moment \in Nat /\ Microseconds \in Nat
    BY <1>1, DelayAssumption
  <1> QED BY <1>1, <1>2, MomentAssumption, SMT

LEMMA BusStart == FsmcInit => BusInv
  <1> SUFFICES ASSUME FsmcInit PROVE BusInv
    OBVIOUS
  <1> USE DEF FsmcInit, DelayInit
  <1>1. \A c \in Ctx : at[c] = "idle" /\ need[c] = 0 /\ passed[c] = 0
    OBVIOUS
  <1>2. DelayTypeOK
    BY DEF DelayTypeOK
  <1>3. TimerInv
    BY <1>1, <1>2, CtxIs DEF TimerInv, DelayInv
  <1>4. quiet = Moment /\ quiet >= Moment /\ quiet \in Nat /\ low \in Nat
    BY Bounds, SMT
  <1>5. SpaceInv
    BY <1>1, <1>4, CtxIs DEF SpaceInv
  <1> QED BY <1>3, <1>5 DEF BusInv

\* Ticks are counted up to a bound.
LEMMA UpToCounts ==
    ASSUME NEW n \in Nat, NEW bound \in Nat
    PROVE  /\ UpTo(n, bound) \in Nat /\ UpTo(n, bound) >= n
           /\ UpTo(n, bound) >= bound \/ UpTo(n, bound) = n + 1
  BY SMT DEF UpTo

\* Time passes for an access and for a delay alike.
LEMMA SinceKeeps ==
    ASSUME DelayTypeOK, Tick, NEW c \in Ctx, NEW ticks \in Nat, NEW enough \in Nat,
           Since(ticks, enough, c)
    PROVE  UpTo(ticks, enough) >= enough \/ UpTo(ticks, enough) >= passed'[c]
  <1>1. /\ passed'[c] = IF passed[c] < need[c] THEN passed[c] + 1 ELSE passed[c]
        /\ need[c] \in Nat /\ passed[c] \in Nat
    BY TickCounts, NumbersTyped
  <1>2. passed'[c] <= passed[c] + 1
    BY <1>1, SMT
  <1> QED BY <1>1, <1>2, SMT DEF UpTo, Since

LEMMA SpaceTime == BusInv /\ Time => SpaceInv'
  <1> SUFFICES ASSUME BusInv, Time PROVE SpaceInv'
    OBVIOUS
  <1>1. DelayTypeOK /\ Tick /\ UNCHANGED <<inIrq, at, need, cut, reset, accessed>>
    BY TickCounts DEF BusInv, TimerInv, Time
  <1>2. quiet \in Nat /\ low \in Nat /\ quiet' = UpTo(quiet, Moment)
    BY DEF BusInv, SpaceInv, Time
  <1>3. low' \in Nat /\ (reset = "held" => low' = UpTo(low, Microseconds))
    <2>1. UpTo(low, Microseconds) \in Nat
      BY <1>2, Bounds, UpToCounts
    <2> QED BY <2>1 DEF Time
  <1>4. quiet' \in Nat /\ (quiet >= Moment => quiet' >= Moment)
    <2>1. UpTo(quiet, Moment) \in Nat /\ UpTo(quiet, Moment) >= quiet
      BY <1>2, Bounds, UpToCounts
    <2> QED BY <1>2, <2>1, Bounds, SMT
  <1>5. low >= Microseconds /\ reset = "held" => low' >= Microseconds
    <2>1. UpTo(low, Microseconds) \in Nat /\ UpTo(low, Microseconds) >= low
      BY <1>2, Bounds, UpToCounts
    <2> QED BY <1>2, <1>3, <2>1, Bounds, SMT
  <1>6. \A c \in Ctx : Since(quiet, Moment, c) => Since(quiet, Moment, c)'
    BY <1>1, <1>2, SinceKeeps, Bounds DEF Since
  <1>7. reset = "held" /\ Since(low, Microseconds, "eth") => Since(low, Microseconds, "eth")'
    BY <1>1, <1>2, <1>3, SinceKeeps, Bounds, CtxIs DEF Since
  <1> QED BY <1>1, <1>3, <1>4, <1>5, <1>6, <1>7, CtxIs DEF BusInv, SpaceInv

\* A delay that comes to its end was as long as it was asked to be.
LEMMA SpaceCount ==
    ASSUME BusInv, NEW c \in Ctx, Count(c)
    PROVE  SpaceInv'
  <1>1. /\ DelayTypeOK /\ Delaying(c) /\ UNCHANGED <<reset, quiet, accessed, low>>
        /\ Runs(c) /\ at[c] # "idle"
        /\ UNCHANGED <<inIrq, need, passed, cut>>
        /\ \A d \in Ctx : d # c => at'[d] = at[d]
    BY DelayingIs DEF BusInv, TimerInv, Count
  <1>2. at'[c] = "idle" => at[c] = "zero"
    BY <1>1 DEF Delaying, Load, Clear, Enable, Wait, Stop, Zero, GoOn, DelayTypeOK
  <1>3. \A d \in Ctx, t, e \in Nat :
           Since(t, e, d) /\ need[d] >= e /\ passed[d] >= need[d] => t >= e
    BY <1>1, NumbersTyped, SMT DEF Since
  <1>4. CASE c = "main"
    <2>1. at["eth"] = "idle" /\ at'["eth"] = "idle" /\ at["main"] # "idle"
      BY <1>1, <1>4, CtxIs DEF BusInv, TimerInv, Runs
    <2>2. ~cut /\ at'["main"] = "idle" => passed["main"] >= need["main"]
      BY <1>2, <1>4 DEF BusInv, TimerInv, DelayInv
    <2>3. ~cut /\ at'["main"] = "idle" => quiet >= Moment
      BY <1>3, <2>1, <2>2, Bounds, CtxIs DEF BusInv, SpaceInv
    <2>4. quiet >= Moment \/ (at'["main"] # "idle" /\ ~cut /\ need["main"] >= Moment
                                /\ Since(quiet, Moment, "main"))
      BY <2>1, <2>3 DEF BusInv, SpaceInv
    <2>5. Since(quiet, Moment, "main")' <=> Since(quiet, Moment, "main")
      BY <1>1 DEF Since
    <2> QED BY <1>1, <2>1, <2>4, <2>5 DEF BusInv, SpaceInv
  <1>5. CASE c = "eth"
    <2>1. at'["main"] = at["main"] /\ at["eth"] # "idle"
      BY <1>1, <1>5, CtxIs
    <2>2. need["eth"] >= Moment /\ Since(quiet, Moment, "eth")
      BY <2>1 DEF BusInv, SpaceInv
    <2>3. at'["eth"] = "idle" => passed["eth"] >= need["eth"]
      BY <1>2, <1>5 DEF BusInv, TimerInv, DelayInv
    <2>4. at'["eth"] = "idle" => quiet >= Moment
      BY <1>3, <2>2, <2>3, Bounds, CtxIs DEF BusInv, SpaceInv
    <2>5. reset = "held" => need["eth"] = Microseconds /\ Since(low, Microseconds, "eth")
      BY <2>1 DEF BusInv, SpaceInv
    <2>6. Microseconds >= Microseconds
      BY Bounds, SMT
    <2>7. reset = "held" /\ at'["eth"] = "idle" => low >= Microseconds
      BY <1>3, <2>3, <2>5, <2>6, Bounds, CtxIs DEF BusInv, SpaceInv
    <2>8. /\ Since(quiet, Moment, "eth")' <=> Since(quiet, Moment, "eth")
          /\ Since(low, Microseconds, "eth")' <=> Since(low, Microseconds, "eth")
      BY <1>1 DEF Since
    <2> QED BY <1>1, <2>1, <2>2, <2>4, <2>5, <2>7, <2>8 DEF BusInv, SpaceInv
  <1> QED BY <1>4, <1>5, CtxIs

\* A delay of main() begins, after an access or without one.
LEMMA SpaceMain ==
    ASSUME BusInv, NEW n \in Delays, n >= Moment, StartDelay("main", n),
           quiet' \in Nat, UNCHANGED <<reset, low>>, accessed' = accessed
    PROVE  SpaceInv'
  <1>1. /\ ~inIrq /\ inIrq' = inIrq /\ at'["main"] = "load" /\ need'["main"] = n
        /\ passed'["main"] = 0 /\ at'["eth"] = at["eth"] /\ ~cut'
    BY StartDelayIs, CtxIs DEF BusInv, TimerInv, Runs
  <1>2. at["eth"] = "idle" /\ reset = "off"
    BY <1>1 DEF BusInv, TimerInv, SpaceInv
  <1>3. Since(quiet, Moment, "main")'
    <2>1. quiet' >= 0
      BY SMT
    <2> QED BY <1>1, <2>1 DEF Since
  <1> QED BY <1>1, <1>2, <1>3 DEF BusInv, SpaceInv

\* A delay of the interrupt begins, after an access or, within a reset, without.
LEMMA SpaceEth ==
    ASSUME BusInv, NEW n \in Delays, n >= Moment, StartDelay("eth", n),
           quiet' \in Nat, low' \in Nat, accessed', reset' \in {"off", "low", "held"},
           reset' = "held" => n = Microseconds
    PROVE  SpaceInv'
  <1>1. /\ inIrq /\ inIrq' = inIrq /\ at'["eth"] = "load" /\ need'["eth"] = n
        /\ passed'["eth"] = 0 /\ at'["main"] = at["main"]
        /\ at["main"] # "idle" => cut'
    BY StartDelayIs, CtxIs DEF BusInv, TimerInv, Runs
  <1>2. Since(quiet, Moment, "eth")' /\ Since(low, Microseconds, "eth")'
    <2>1. quiet' >= 0 /\ low' >= 0
      BY SMT
    <2> QED BY <1>1, <2>1 DEF Since
  <1> QED BY <1>1, <1>2 DEF SpaceInv

LEMMA SpaceAccess ==
    ASSUME BusInv, MainAccess \/ Blink \/ EthAccess \/ ResetHold
    PROVE  SpaceInv'
  <1>1. /\ quiet \in Nat /\ low \in Nat /\ 0 \in Nat
        /\ reset \in {"off", "low", "held"} /\ (reset # "off" => accessed)
    BY DEF BusInv, SpaceInv
  <1>2. Moment >= Moment
    BY Bounds, SMT
  <1>3. CASE MainAccess
    <2>1. accessed' = accessed
      BY <1>1, <1>3 DEF MainAccess, Access, BusInv, SpaceInv
    <2> QED BY <1>1, <1>2, <1>3, <2>1, SpaceMain, Bounds DEF MainAccess, Access
  <1>4. CASE Blink
    BY <1>1, <1>4, SpaceMain, Bounds DEF Blink
  <1>5. CASE SendAccess
    BY <1>1, <1>2, <1>5, SpaceEth, Bounds DEF SendAccess, Access
  <1>6. CASE ResetLow
    BY <1>1, <1>2, <1>6, SpaceEth, Bounds DEF ResetLow, Access
  <1>7. CASE ResetHigh
    BY <1>1, <1>2, <1>7, SpaceEth, Bounds DEF ResetHigh, Access
  <1>8. CASE ResetHold
    BY <1>1, <1>8, SpaceEth, Bounds DEF ResetHold
  <1> QED BY <1>3, <1>4, <1>5, <1>6, <1>7, <1>8 DEF EthAccess

LEMMA SpaceIrq == BusInv /\ (EnterIrq \/ LeaveIrq) => SpaceInv'
  <1> SUFFICES ASSUME BusInv, EnterIrq \/ LeaveIrq PROVE SpaceInv'
    OBVIOUS
  <1>1. UNCHANGED <<at, need, passed, cut, reset, quiet, low>> /\ accessed' \in BOOLEAN
    BY DEF EnterIrq, LeaveIrq, BusInv, SpaceInv
  <1>2. reset = "off" /\ ~(inIrq' /\ accessed')
    BY DEF EnterIrq, LeaveIrq, BusInv, SpaceInv
  <1> QED BY <1>1, <1>2 DEF BusInv, SpaceInv, Since

LEMMA BusStep == BusInv /\ [FsmcNext]_fsmcVars => BusInv'
  <1> SUFFICES ASSUME BusInv, [FsmcNext]_fsmcVars PROVE BusInv'
    OBVIOUS
  <1> USE DEF BusInv
  <1>1. CASE Time
    BY <1>1, TimerTick, SpaceTime DEF Time
  <1>2. CASE \E c \in Ctx : Count(c)
    BY <1>2, TimerCount, SpaceCount DEF Count
  <1>3. CASE MainAccess \/ Blink \/ EthAccess \/ ResetHold
    <2>1. \E c \in Ctx, n \in Delays : StartDelay(c, n)
      BY <1>3, Bounds, CtxIs DEF MainAccess, Blink, EthAccess, SendAccess, ResetLow,
                                 ResetHigh, ResetHold, Access
    <2> QED BY <1>3, <2>1, TimerStart, SpaceAccess
  <1>4. CASE EnterIrq \/ LeaveIrq
    <2>1. /\ UNCHANGED <<registers, at, need, passed, cut>>
          /\ inIrq' \in BOOLEAN /\ (inIrq' \/ at["eth"] = "idle")
      BY <1>4 DEF EnterIrq, LeaveIrq
    <2> QED BY <1>4, <2>1, TimerIrq, SpaceIrq
  <1>5. CASE UNCHANGED fsmcVars
    <2>1. /\ UNCHANGED <<registers, at, need, passed, cut, inIrq>>
          /\ inIrq' \in BOOLEAN /\ (inIrq' \/ at["eth"] = "idle")
          /\ UNCHANGED <<reset, quiet, accessed, low>>
      BY <1>5 DEF fsmcVars, delayVars, TimerInv, DelayTypeOK
    <2>2. TimerInv'
      BY <2>1, TimerIrq
    <2>3. SpaceInv'
      BY <2>1 DEF SpaceInv, Since
    <2> QED BY <2>2, <2>3
  <1> QED BY <1>1, <1>2, <1>3, <1>4, <1>5 DEF FsmcNext

\* The timer and the spacing, in every state.
THEOREM BusSound == FsmcSpec => []BusInv
  BY BusStart, BusStep, PTL DEF FsmcSpec

\* Whatever the lengths of the delays, none ends early but one of main() in
\* which the interrupt delayed (delay.c:57).
THEOREM DelaysAreFull == FsmcSpec => []DelayFull
  <1>1. BusInv => DelayFull
    <2> SUFFICES ASSUME BusInv, NEW c \in Ctx, at[c] = "zero", ~(c = "main" /\ cut)
                 PROVE  passed[c] >= need[c]
      BY DEF DelayFull
    <2>1. DelayInv(c)
      BY CtxIs DEF BusInv, TimerInv
    <2> QED BY <2>1 DEF DelayInv
  <1> QED BY <1>1, BusSound, PTL

\* Accesses to the FSMC are a moment apart and a reset lasts 100 us, though
\* main()'s delays may be cut short (fsmc.c:127, uart_fsmc.c:53).
THEOREM AccessesSpaced == FsmcSpec => Spaced
  <1>1. BusInv /\ [FsmcNext]_fsmcVars =>
           [/\ MainAccess => quiet >= Moment
            /\ EthAccess => quiet >= Moment \/ ~accessed
            /\ ResetHigh => low >= Microseconds]_fsmcVars
    <2> SUFFICES ASSUME BusInv
                 PROVE  /\ MainAccess => quiet >= Moment
                        /\ EthAccess => quiet >= Moment \/ ~accessed
                        /\ ResetHigh => low >= Microseconds
      OBVIOUS
    <2>1. MainAccess => at["main"] = "idle" /\ at["eth"] = "idle"
      BY DEF MainAccess, Access, StartDelay, Runs, BusInv, TimerInv
    <2>2. EthAccess => at["eth"] = "idle" /\ inIrq
      BY DEF EthAccess, SendAccess, ResetLow, ResetHigh, Access, StartDelay, Runs
    <2>3. ResetHigh => at["eth"] = "idle" /\ reset = "held"
      BY DEF ResetHigh, Access, StartDelay
    <2> QED BY <2>1, <2>2, <2>3 DEF BusInv, SpaceInv
  <1> QED BY <1>1, BusSound, PTL DEF FsmcSpec, Spaced
-----------------------------------------------------------------------------
(***************************************************************************)
(* The bytes.  Numbered from the next to arrive backwards, what a UART     *)
(* holds are the last bytes that arrived; and unless a reset fell into the *)
(* poll, they follow those in report_buff, which follow those reported.    *)
(***************************************************************************)
Read(u) == IF polling /\ u = chl THEN i ELSE 0
Disturbed(u) == erased /\ u = chl

\* The number of the first byte the UART still holds.
First(u) == After(arriving[u], Ids - Len(fifo[u]))

Latest(u) == \A k \in 1..Len(fifo[u]) : fifo[u][k] = After(First(u), k - 1)
Follows(u) == ~Disturbed(u) => After(expected[u], Read(u)) = First(u)
InBuffer == \A k \in 1..i : report_buff[DataAt + k - 1] = After(expected[chl], k - 1)

ByteTypeOK == /\ fifo \in [Channel -> Seq(0..(Ids - 1))]
              /\ \A u \in Channel : Len(fifo[u]) <= Depth
              /\ arriving \in [Channel -> 0..(Ids - 1)]
              /\ expected \in [Channel -> 0..(Ids - 1)]
              /\ polling \in BOOLEAN /\ erased \in BOOLEAN
              /\ chl \in Channel /\ pre_size \in Nat /\ i \in Nat
              /\ i <= pre_size /\ pre_size <= Depth
              /\ DOMAIN report_buff = 0..(SizeofReport + 2)

ByteInv == /\ ByteTypeOK
           /\ ~polling => i = 0 /\ ~erased
           /\ \A u \in Channel : Latest(u) /\ Follows(u)
           /\ polling /\ ~erased => pre_size <= i + Len(fifo[chl]) /\ InBuffer
-----------------------------------------------------------------------------
Number == 0..(Ids - 1)

\* The numbers go round.
LEMMA Rounds ==
    ASSUME NEW N \in Nat, N > 0, NEW s \in Nat, s < 4 * N
    PROVE  s % N = IF s < N THEN s
                   ELSE IF s < 2 * N THEN s - N
                   ELSE IF s < 3 * N THEN s - 2 * N ELSE s - 3 * N
  <1>1. CASE s < N
    BY <1>1, SMT
  <1>2. CASE s >= N /\ s < 2 * N
    BY <1>2, SMT
  <1>3. CASE s >= 2 * N /\ s < 3 * N
    BY <1>3, SMT
  <1>4. CASE s >= 3 * N
    BY <1>4, SMT
  <1> QED BY <1>1, <1>2, <1>3, <1>4, SMT

LEMMA AfterIs ==
    ASSUME NEW id \in Number, NEW n \in Nat, n < 3 * Ids
    PROVE  After(id, n) = LET s == id + n
                          IN IF s < Ids THEN s
                             ELSE IF s < 2 * Ids THEN s - Ids
                             ELSE IF s < 3 * Ids THEN s - 2 * Ids ELSE s - 3 * Ids
  <1>1. Ids \in Nat /\ Ids > 0
    BY UartAssumption, SMT
  <1>2. id + n \in Nat /\ id + n < 4 * Ids
    BY <1>1, SMT DEF Number
  <1> QED BY <1>1, <1>2, Rounds, SMT DEF After

LEMMA AfterNumber ==
    ASSUME NEW id \in Number, NEW n \in Nat, n < 3 * Ids
    PROVE  After(id, n) \in Number
  BY AfterIs, UartAssumption, SMT DEF Number

LEMMA AfterAdd ==
    ASSUME NEW id \in Number, NEW n \in Nat, NEW m \in Nat, n <= Ids, m <= Ids
    PROVE  After(After(id, n), m) = After(id, n + m)
  <1>0. Ids \in Nat /\ Ids > 0
    BY UartAssumption, SMT
  <1>1. n < 3 * Ids /\ m < 3 * Ids /\ n + m < 3 * Ids /\ n + m \in Nat
    BY <1>0, SMT
  <1>2. After(id, n) \in Number
    BY <1>1, AfterNumber
  <1>3. After(id, n) = IF id + n < Ids THEN id + n
                       ELSE IF id + n < 2 * Ids THEN id + n - Ids ELSE id + n - 2 * Ids
    BY <1>0, <1>1, AfterIs, SMT DEF Number
  <1> DEFINE a == After(id, n)
  <1>4. After(a, m) = LET s == a + m
                      IN IF s < Ids THEN s
                         ELSE IF s < 2 * Ids THEN s - Ids
                         ELSE IF s < 3 * Ids THEN s - 2 * Ids ELSE s - 3 * Ids
    BY <1>1, <1>2, AfterIs
  <1>5. After(id, n + m) = LET s == id + (n + m)
                           IN IF s < Ids THEN s
                              ELSE IF s < 2 * Ids THEN s - Ids
                              ELSE IF s < 3 * Ids THEN s - 2 * Ids ELSE s - 3 * Ids
    BY <1>1, AfterIs
  <1>6. a \in Number /\ a = IF id + n < Ids THEN id + n
                            ELSE IF id + n < 2 * Ids THEN id + n - Ids ELSE id + n - 2 * Ids
    BY <1>2, <1>3
  <1> HIDE DEF a
  <1>7. After(a, m) = After(id, n + m)
    BY ONLY <1>0, <1>4, <1>5, <1>6, id \in Number, n \in Nat, m \in Nat, n <= Ids, m <= Ids,
            SMT DEF Number
  <1> QED BY <1>7 DEF a

LEMMA AfterRound ==
    ASSUME NEW id \in Number
    PROVE  After(id, Ids) = id /\ After(id, 0) = id
  <1>1. Ids \in Nat /\ Ids > 0 /\ Ids < 3 * Ids /\ 0 < 3 * Ids
    BY UartAssumption, SMT
  <1> QED BY <1>1, AfterIs, SMT DEF Number

LEMMA SizesTyped == /\ Uarts \in Nat /\ Uarts > 0 /\ Depth \in Nat
                    /\ MaxData \in Nat /\ MaxData > 0
                    /\ Ids \in Nat /\ Ids > Depth /\ Number = 0..(Ids - 1)
  BY UartAssumption, SMT DEF Number

\* What the type invariant says of one UART.
LEMMA BytesTyped ==
    ASSUME ByteTypeOK, NEW u \in Channel
    PROVE  /\ fifo[u] \in Seq(Number) /\ Len(fifo[u]) \in Nat /\ Len(fifo[u]) <= Depth
           /\ arriving[u] \in Number /\ expected[u] \in Number
           /\ Read(u) \in Nat /\ Read(u) <= Depth
  <1>1. /\ fifo[u] \in Seq(Number) /\ Len(fifo[u]) <= Depth
        /\ arriving[u] \in Number /\ expected[u] \in Number
    BY DEF ByteTypeOK, Number
  <1>2. Len(fifo[u]) \in Nat
    BY <1>1, LenProperties
  <1>3. Read(u) \in Nat /\ Read(u) <= Depth
    BY SizesTyped, SMT DEF ByteTypeOK, Read
  <1> QED BY <1>1, <1>2, <1>3

LEMMA FirstNumber ==
    ASSUME ByteTypeOK, NEW u \in Channel
    PROVE  First(u) \in Number
  <1>1. Ids - Len(fifo[u]) \in Nat /\ Ids - Len(fifo[u]) < 3 * Ids
    BY BytesTyped, SizesTyped, SMT
  <1> QED BY <1>1, BytesTyped, AfterNumber DEF First

\* Counted from the first byte a UART holds, the next to arrive comes after all of them.
LEMMA FirstThenArriving ==
    ASSUME ByteTypeOK, NEW u \in Channel
    PROVE  After(First(u), Len(fifo[u])) = arriving[u]
  <1> DEFINE n == Len(fifo[u])
  <1>1. n \in Nat /\ n <= Ids /\ Ids - n \in Nat /\ Ids - n <= Ids /\ (Ids - n) + n = Ids
    BY BytesTyped, SizesTyped, SMT
  <1>2. arriving[u] \in Number
    BY BytesTyped
  <1>3. After(After(arriving[u], Ids - n), n) = After(arriving[u], (Ids - n) + n)
    BY <1>1, <1>2, AfterAdd
  <1>4. After(arriving[u], Ids) = arriving[u]
    BY <1>2, AfterRound
  <1> QED BY <1>1, <1>3, <1>4 DEF First

\* First, Latest and Follows of a UART depend on that UART's own state alone.
LEMMA ByteFrame ==
    ASSUME NEW u, fifo'[u] = fifo[u], arriving'[u] = arriving[u]
    PROVE  First(u)' = First(u) /\ (Latest(u) <=> Latest(u)')
  <1>1. First(u)' = First(u)
    BY DEF First, After
  <1>2. \A k \in 1..Len(fifo[u]) : After(First(u), k - 1)' = After(First(u), k - 1)
    BY <1>1 DEF After
  <1>3. Latest(u)' <=> \A k \in 1..Len(fifo[u]) : fifo[u][k] = After(First(u), k - 1)'
    BY DEF Latest
  <1> QED BY <1>1, <1>2, <1>3 DEF Latest

LEMMA ByteInit == UartInit => ByteInv
  <1> SUFFICES ASSUME UartInit PROVE ByteInv
    OBVIOUS
  <1>1. /\ 0 \in Number /\ 0 \in Channel /\ 0 \in Nat /\ Len(<<>>) = 0
        /\ Ids - 0 = Ids /\ 0 <= Depth /\ ~(0 > 0)
    BY SizesTyped, UartAssumption, EmptySeq, SMT DEF Channel
  <1>2. /\ fifo \in [Channel -> Seq(Number)]
        /\ \A u \in Channel : fifo[u] = <<>> /\ Len(fifo[u]) = 0
    BY <1>1, EmptySeq DEF UartInit
  <1>3. DOMAIN report_buff = 0..(SizeofReport + 2)
    BY DEF UartInit, WithLen, Prepared
  <1>4. ByteTypeOK
    BY <1>1, <1>2, <1>3, SMT DEF UartInit, ByteTypeOK, Number
  <1>5. \A u \in Channel : First(u) = 0 /\ After(0, 0) = 0
    BY <1>1, <1>2, AfterRound DEF First, UartInit
  <1>6. \A u \in Channel : Latest(u)
    BY <1>2, SMT DEF Latest
  <1>7. \A u \in Channel : Follows(u)
    BY <1>5 DEF Follows, Read, UartInit
  <1> QED BY <1>4, <1>6, <1>7 DEF ByteInv, UartInit

LEMMA ByteReceive ==
    ASSUME ByteInv, NEW u \in Channel, Receive(u)
    PROVE  ByteInv'
  <1> DEFINE s == fifo[u]
             L == Len(s)
             t == Append(s, arriving[u])
  <1>0. ByteTypeOK
    BY DEF ByteInv
  <1>1. /\ s \in Seq(Number) /\ L \in Nat /\ L < Depth /\ arriving[u] \in Number
        /\ Depth \in Nat /\ Ids \in Nat /\ Ids > Depth
    BY <1>0, BytesTyped, SizesTyped DEF Receive
  <1>2. /\ t \in Seq(Number) /\ Len(t) = L + 1 /\ t[L + 1] = arriving[u]
        /\ \A k \in 1..L : t[k] = s[k]
    BY <1>1, AppendProperties
  <1>3. After(arriving[u], 1) \in Number
    BY <1>1, AfterNumber, SMT
  <1>4. /\ fifo' = [fifo EXCEPT ![u] = t] /\ fifo'[u] = t
        /\ arriving' = [arriving EXCEPT ![u] = After(@, 1)]
        /\ arriving'[u] = After(arriving[u], 1)
        /\ \A v \in Channel \ {u} : fifo'[v] = fifo[v] /\ arriving'[v] = arriving[v]
        /\ UNCHANGED <<polling, chl, pre_size, i, report_buff, expected, erased>>
    BY <1>0 DEF Receive, ByteTypeOK
  <1>5. ByteTypeOK'
    <2>1. /\ fifo' \in [Channel -> Seq(Number)] /\ arriving' \in [Channel -> Number]
      BY <1>0, <1>2, <1>3, <1>4 DEF ByteTypeOK, Number
    <2>2. Len(t) <= Depth
      BY <1>1, <1>2, SMT
    <2>3. \A v \in Channel : Len(fifo'[v]) <= Depth
      BY <1>0, <1>4, <2>2 DEF ByteTypeOK
    <2> QED BY <1>0, <1>4, <2>1, <2>3 DEF ByteTypeOK, Number
  <1>6. First(u)' = First(u)
    <2>1. /\ Ids - (L + 1) \in Nat /\ Ids - (L + 1) <= Ids
          /\ 1 + (Ids - (L + 1)) = Ids - L /\ 1 \in Nat /\ 1 <= Ids
      <3>1. L \in Nat /\ L < Depth /\ Depth \in Nat /\ Ids \in Nat /\ Ids > Depth
        BY <1>1
      <3> HIDE DEF L
      <3> QED BY ONLY <3>1, SMT
    <2>2. After(After(arriving[u], 1), Ids - (L + 1)) = After(arriving[u], 1 + (Ids - (L + 1)))
      BY <1>1, <2>1, AfterAdd
    <2>3. First(u)' = After(After(arriving[u], 1), Ids - (L + 1))
      BY <1>2, <1>4 DEF First, After
    <2> QED BY <2>1, <2>2, <2>3 DEF First
  <1>7. Latest(u)'
    <2>1. Latest(u) /\ After(First(u), L) = arriving[u]
      BY <1>0, FirstThenArriving DEF ByteInv
    <2> SUFFICES ASSUME NEW k \in 1..(L + 1)
                 PROVE  t[k] = After(First(u), k - 1)
      BY <1>2, <1>4, <1>6 DEF Latest, After
    <2>2. CASE k \in 1..L
      BY <1>2, <2>1, <2>2 DEF Latest
    <2>3. CASE k = L + 1
      <3>1. k - 1 = L
        BY <1>1, <2>3, SMT
      <3> QED BY <1>2, <2>1, <2>3, <3>1
    <2> QED BY <1>1, <2>2, <2>3, SMT
  <1>8. \A v \in Channel : First(v)' = First(v) /\ Latest(v)'
    BY <1>4, <1>6, <1>7, ByteFrame DEF ByteInv
  <1>9. \A v \in Channel : Follows(v)'
    BY <1>4, <1>8 DEF ByteInv, Follows, Disturbed, Read, After
  <1>10. InBuffer => InBuffer'
    BY <1>4 DEF InBuffer, After
  <1>11. polling /\ ~erased => pre_size <= i + Len(fifo'[chl])
    <2>1. CASE u = chl
      BY <1>0, <1>1, <1>2, <1>4, <2>1, SMT DEF ByteInv, ByteTypeOK
    <2>2. CASE u # chl
      BY <1>0, <1>4, <2>2 DEF ByteInv, ByteTypeOK
    <2> QED BY <2>1, <2>2
  <1>12. (~polling => i = 0 /\ ~erased)'
    BY <1>4 DEF ByteInv
  <1>13. (polling /\ ~erased => pre_size <= i + Len(fifo[chl]) /\ InBuffer)'
    BY <1>4, <1>10, <1>11 DEF ByteInv
  <1> QED BY <1>5, <1>8, <1>9, <1>12, <1>13 DEF ByteInv

LEMMA ByteReset == ASSUME ByteInv, Reset PROVE ByteInv'
  <1>0. ByteTypeOK
    BY DEF ByteInv
  <1>1. /\ \A u \in Channel : fifo'[u] = <<>> /\ Len(fifo'[u]) = 0
        /\ fifo' \in [Channel -> Seq(Number)] /\ 0 <= Depth /\ Ids - 0 = Ids
    BY EmptySeq, SizesTyped, SMT DEF Reset
  <1>2. UNCHANGED <<arriving, polling, chl, pre_size, i, report_buff>>
    BY DEF Reset
  <1>3. expected' \in [Channel -> Number]
    BY <1>0, BytesTyped DEF Reset
  <1>4. erased' \in BOOLEAN
    BY <1>0 DEF Reset, ByteTypeOK
  <1>5. ByteTypeOK'
    BY <1>0, <1>1, <1>2, <1>3, <1>4 DEF ByteTypeOK, Number
  <1>6. \A u \in Channel : First(u)' = arriving[u]
    BY <1>0, <1>1, <1>2, BytesTyped, AfterRound DEF First, After
  <1>7. \A u \in Channel : Latest(u)'
    BY <1>1, SMT DEF Latest
  <1>8. \A u \in Channel : Follows(u)'
    <2> SUFFICES ASSUME NEW u \in Channel, ~Disturbed(u)' PROVE After(expected[u], Read(u))' = First(u)'
      BY DEF Follows
    <2>1. ~(polling /\ u = chl)
      BY <1>2 DEF Reset, Disturbed
    <2>2. expected'[u] = arriving[u] /\ Read(u)' = 0
      BY <1>2, <2>1 DEF Reset, Read
    <2>3. After(arriving[u], 0) = arriving[u]
      BY <1>0, BytesTyped, AfterRound
    <2> QED BY <1>6, <2>2, <2>3 DEF After
  <1>9. ~polling' => i' = 0 /\ ~erased'
    BY <1>2 DEF Reset, ByteInv
  <1>10. ~(polling' /\ ~erased')
    BY <1>2 DEF Reset
  <1> QED BY <1>5, <1>7, <1>8, <1>9, <1>10 DEF ByteInv

LEMMA ByteStart == ASSUME ByteInv, NEW u \in Channel, StartPoll(u) PROVE ByteInv'
  <1>0. ByteTypeOK /\ ~polling /\ i = 0 /\ ~erased
    BY DEF ByteInv, StartPoll
  <1>1. /\ fifo' = fifo /\ arriving' = arriving /\ expected' = expected
        /\ polling' = TRUE /\ erased' = FALSE /\ i' = 0 /\ chl' = u
        /\ pre_size' = Len(fifo[u])
    BY DEF StartPoll
  <1>2. DOMAIN report_buff' = DOMAIN report_buff
    BY DEF StartPoll
  <1>3. /\ Len(fifo[u]) \in Nat /\ Len(fifo[u]) <= Depth /\ 0 \in Nat /\ 0 <= Len(fifo[u])
        /\ Len(fifo[u]) <= 0 + Len(fifo[u])
    BY <1>0, BytesTyped, SMT
  <1>4. ByteTypeOK'
    BY <1>0, <1>1, <1>2, <1>3 DEF ByteTypeOK
  <1>5. \A v \in Channel : First(v)' = First(v) /\ Latest(v)'
    BY <1>1, ByteFrame DEF ByteInv
  <1>6. \A v \in Channel : Follows(v)'
    <2> SUFFICES ASSUME NEW v \in Channel PROVE After(expected[v], Read(v))' = First(v)'
      BY DEF Follows
    <2>1. Read(v) = 0 /\ Read(v)' = 0
      BY <1>0, <1>1 DEF Read
    <2>2. After(expected[v], Read(v)) = First(v)
      BY <1>0 DEF ByteInv, Follows, Disturbed
    <2> QED BY <1>1, <1>5, <2>1, <2>2 DEF After
  <1>7. InBuffer'
    BY <1>1, SMT DEF InBuffer
  <1>8. pre_size' <= i' + Len(fifo'[chl'])
    BY <1>1, <1>3
  <1>9. (~polling => i = 0 /\ ~erased)'
    BY <1>1
  <1> QED BY <1>4, <1>5, <1>6, <1>7, <1>8, <1>9 DEF ByteInv

\* A byte more of report_buff: its first ones stay, and it keeps its size.
LEMMA BufferPut ==
    ASSUME DOMAIN report_buff = 0..(SizeofReport + 2), i \in Nat, i < MaxData, NEW b,
           report_buff' = [report_buff EXCEPT ![DataAt + i] = b]
    PROVE  /\ DOMAIN report_buff' = 0..(SizeofReport + 2)
           /\ \A k \in 1..i : report_buff'[DataAt + k - 1] = report_buff[DataAt + k - 1]
           /\ report_buff'[DataAt + (i + 1) - 1] = b
  <1>1. /\ DataAt + i \in DOMAIN report_buff /\ DataAt + (i + 1) - 1 = DataAt + i
        /\ \A k \in 1..i : DataAt + k - 1 \in DOMAIN report_buff /\ DataAt + k - 1 # DataAt + i
    BY SizesTyped, SMT DEF SizeofReport, DataAt
  <1> DEFINE at1 == DataAt + i
  <1> HIDE DEF at1
  <1> QED BY <1>1

LEMMA ByteRead == ASSUME ByteInv, ReadByte PROVE ByteInv'
  <1> DEFINE u == chl
             s == fifo[chl]
             L == Len(s)
  <1>0. ByteTypeOK /\ polling /\ chl \in Channel /\ i \in Nat /\ i < MaxData /\ i < pre_size
        /\ pre_size \in Nat /\ pre_size <= Depth
    BY DEF ByteInv, ByteTypeOK, ReadByte, More
  <1>1. /\ s \in Seq(Number) /\ L \in Nat /\ L <= Depth /\ First(chl) \in Number
        /\ expected[chl] \in Number
        /\ Depth \in Nat /\ Ids \in Nat /\ Ids > Depth /\ MaxData \in Nat
    BY <1>0, BytesTyped, SizesTyped, FirstNumber
  <1>2. /\ fifo' = [fifo EXCEPT ![chl] = IF s = <<>> THEN s ELSE Tail(s)]
        /\ fifo'[chl] = (IF s = <<>> THEN s ELSE Tail(s))
        /\ \A v \in Channel \ {chl} : fifo'[v] = fifo[v]
        /\ i' = i + 1
        /\ UNCHANGED <<arriving, polling, chl, pre_size, expected, erased>>
    BY <1>0 DEF ReadByte, ByteTypeOK
  <1>3. s # <<>> => /\ Head(s) = s[1] /\ Tail(s) \in Seq(Number) /\ Len(Tail(s)) = L - 1
                    /\ \A k \in 1..(L - 1) : Tail(s)[k] = s[k + 1]
                    /\ L >= 1
    <2>1. s # <<>> => L \in Nat \ {0}
      BY <1>1, EmptySeq
    <2>2. s # <<>> => /\ Tail(s) \in Seq(Number) /\ Len(Tail(s)) = L - 1
                      /\ \A k \in 1..(L - 1) : Tail(s)[k] = s[k + 1]
      BY <1>1, HeadTailProperties
    <2> QED BY <2>1, <2>2, SMT
  <1>4. /\ DOMAIN report_buff' = 0..(SizeofReport + 2)
        /\ \A k \in 1..i : report_buff'[DataAt + k - 1] = report_buff[DataAt + k - 1]
        /\ s # <<>> => report_buff'[DataAt + (i + 1) - 1] = Head(s)
    <2> DEFINE b == IF s = <<>> THEN Junk ELSE Head(s)
    <2>1. report_buff' = [report_buff EXCEPT ![DataAt + i] = b]
      BY DEF ReadByte
    <2>2. DOMAIN report_buff = 0..(SizeofReport + 2)
      BY <1>0 DEF ByteTypeOK
    <2> HIDE DEF b
    <2>3. /\ DOMAIN report_buff' = 0..(SizeofReport + 2)
          /\ \A k \in 1..i : report_buff'[DataAt + k - 1] = report_buff[DataAt + k - 1]
          /\ report_buff'[DataAt + (i + 1) - 1] = b
      BY <1>0, <2>1, <2>2, BufferPut
    <2>4. s # <<>> => b = Head(s)
      BY DEF b
    <2> QED BY <2>3, <2>4
  <1>5. ByteTypeOK'
    <2>1. fifo' \in [Channel -> Seq(Number)]
      BY <1>0, <1>2, <1>3 DEF ByteTypeOK, Number
    <2>2. Len(fifo'[chl]) <= Depth
      BY <1>1, <1>2, <1>3, SMT
    <2>3. \A v \in Channel : Len(fifo'[v]) <= Depth
      BY <1>0, <1>2, <2>2 DEF ByteTypeOK
    <2>4. i' \in Nat /\ i' <= pre_size'
      BY <1>0, <1>2, SMT
    <2> QED BY <1>0, <1>2, <1>4, <2>1, <2>3, <2>4 DEF ByteTypeOK, Number
  <1>6. s # <<>> => First(chl)' = After(First(chl), 1)
    <2> SUFFICES ASSUME s # <<>> PROVE First(chl)' = After(First(chl), 1)
      OBVIOUS
    <2>1. First(chl)' = After(arriving[chl], Ids - (L - 1))
      BY <1>2, <1>3 DEF First, After
    <2>2. /\ Ids - L \in Nat /\ Ids - L <= Ids /\ 1 \in Nat /\ 1 <= Ids
          /\ (Ids - L) + 1 = Ids - (L - 1)
      <3>1. L \in Nat /\ L <= Depth /\ Depth \in Nat /\ Ids \in Nat /\ Ids > Depth
        BY <1>1
      <3> HIDE DEF L
      <3> QED BY ONLY <3>1, SMT
    <2>3. After(After(arriving[chl], Ids - L), 1) = After(arriving[chl], (Ids - L) + 1)
      BY <1>0, <2>2, BytesTyped, AfterAdd
    <2> QED BY <2>1, <2>2, <2>3 DEF First
  <1>7. Latest(chl)'
    <2>1. CASE s = <<>>
      BY <1>2, <2>1, ByteFrame, <1>0 DEF ByteInv
    <2>2. CASE s # <<>>
      <3> SUFFICES ASSUME NEW k \in 1..(L - 1)
                   PROVE  Tail(s)[k] = After(After(First(chl), 1), k - 1)
        BY <1>2, <1>3, <1>6, <2>2, ZenonT(30) DEF Latest, After
      <3>1. /\ k + 1 \in 1..L /\ (k + 1) - 1 = 1 + (k - 1)
            /\ k - 1 \in Nat /\ k - 1 <= Ids /\ 1 \in Nat /\ 1 <= Ids
        <4>1. L \in Nat /\ L <= Depth /\ Depth \in Nat /\ Ids \in Nat /\ Ids > Depth
          BY <1>1
        <4> HIDE DEF L
        <4> QED BY ONLY <4>1, k \in 1..(L - 1), SMT
      <3>2. s[k + 1] = After(First(chl), (k + 1) - 1)
        BY <1>0, <3>1 DEF ByteInv, Latest
      <3>3. After(After(First(chl), 1), k - 1) = After(First(chl), 1 + (k - 1))
        BY <1>1, <3>1, AfterAdd
      <3> QED BY <1>3, <2>2, <3>1, <3>2, <3>3
    <2> QED BY <2>1, <2>2
  <1>8. \A v \in Channel : Latest(v)'
    BY <1>2, <1>7, ByteFrame DEF ByteInv
  <1>9. ~erased => /\ pre_size <= i + L /\ InBuffer
                   /\ s # <<>> /\ After(expected[chl], i) = First(chl)
    <2> SUFFICES ASSUME ~erased
                 PROVE  /\ pre_size <= i + L /\ InBuffer
                        /\ s # <<>> /\ After(expected[chl], i) = First(chl)
      OBVIOUS
    <2>1. pre_size <= i + L /\ InBuffer
      BY <1>0 DEF ByteInv
    <2>2. L # 0
      BY <1>0, <1>1, <2>1, SMT
    <2>3. s # <<>>
      BY <2>2, EmptySeq
    <2>4. After(expected[chl], i) = First(chl)
      BY <1>0 DEF ByteInv, Follows, Disturbed, Read
    <2> QED BY <2>1, <2>3, <2>4
  <1>10. \A v \in Channel : Follows(v)'
    <2>1. ASSUME NEW v \in Channel, v # chl PROVE Follows(v)'
      <3>1. Follows(v) /\ First(v)' = First(v) /\ Read(v)' = 0 /\ Read(v) = 0
        BY <1>2, <2>1, ByteFrame DEF ByteInv, Read
      <3> QED BY <1>2, <2>1, <3>1 DEF Follows, Disturbed, After
    <2>2. Follows(chl)'
      <3> SUFFICES ASSUME ~erased PROVE After(expected[chl], i + 1) = After(First(chl), 1)
        BY <1>0, <1>2, <1>6, <1>9 DEF Follows, Disturbed, Read, After
      <3>1. 1 \in Nat /\ 1 <= Ids /\ i <= Ids
        BY <1>0, <1>1, SMT
      <3>2. i \in Nat /\ expected[chl] \in Number
        BY <1>0, <1>1
      <3>3. After(After(expected[chl], i), 1) = After(expected[chl], i + 1)
        BY <3>1, <3>2, AfterAdd
      <3> QED BY <1>9, <3>3
    <2> QED BY <1>2, <2>1, <2>2
  <1>11. ~erased => InBuffer'
    <2> SUFFICES ASSUME ~erased, NEW k \in 1..(i + 1)
                 PROVE  report_buff'[DataAt + k - 1] = After(expected[chl], k - 1)
      BY <1>2 DEF InBuffer, After
    <2>1. CASE k \in 1..i
      BY <1>4, <1>9, <2>1 DEF InBuffer
    <2>2. CASE k = i + 1
      <3>1. k - 1 = i /\ 1 \in 1..L /\ 1 - 1 = 0
        BY <1>0, <1>1, <1>3, <1>9, <2>2, SMT
      <3>2. s[1] = After(First(chl), 0)
        BY <1>0, <3>1 DEF ByteInv, Latest
      <3>3. After(First(chl), 0) = First(chl)
        BY <1>1, AfterRound
      <3> QED BY <1>3, <1>4, <1>9, <2>2, <3>1, <3>2, <3>3
    <2> QED BY <1>0, <2>1, <2>2, SMT
  <1>12. ~erased => pre_size <= (i + 1) + Len(fifo'[chl])
    BY <1>0, <1>1, <1>2, <1>3, <1>9, SMT
  <1>13. (~polling => i = 0 /\ ~erased)'
    BY <1>0, <1>2
  <1>14. (polling /\ ~erased => pre_size <= i + Len(fifo[chl]) /\ InBuffer)'
    BY <1>2, <1>11, <1>12
  <1> QED BY <1>5, <1>8, <1>10, <1>13, <1>14 DEF ByteInv

\* Filling in the head and the check sum, report_buff keeps its size.
LEMMA FilledDomain == DOMAIN Filled = DOMAIN report_buff
  <1>1. \A buff, n : DOMAIN WithLen(buff, n) = DOMAIN buff
    BY DEF WithLen
  <1>2. \A buff, k, b : DOMAIN [buff EXCEPT ![k] = b] = DOMAIN buff
    OBVIOUS
  <1> QED BY <1>1, <1>2 DEF Filled

LEMMA ByteReturn ==
    ASSUME ByteInv, Return, DOMAIN report_buff' = DOMAIN report_buff
    PROVE  ByteInv'
  <1>0. ByteTypeOK /\ polling /\ chl \in Channel
    BY DEF ByteInv, ByteTypeOK, Return
  <1>1. /\ polling' = FALSE /\ pre_size' = 0 /\ i' = 0 /\ erased' = FALSE
        /\ fifo' = fifo /\ arriving' = arriving /\ chl' = chl
        /\ expected' = [expected EXCEPT ![chl] = First(chl)]
    BY DEF Return, First
  <1>2. First(chl) \in Number
    BY <1>0, FirstNumber
  <1>3. 0 \in Nat /\ 0 <= 0 /\ 0 <= Depth
    BY SizesTyped, SMT
  <1>4. ByteTypeOK'
    BY <1>0, <1>1, <1>2, <1>3 DEF ByteTypeOK, Number
  <1>5. \A u \in Channel : First(u)' = First(u) /\ Latest(u)'
    BY <1>1, ByteFrame DEF ByteInv
  <1>6. \A u \in Channel : Follows(u)'
    <2> SUFFICES ASSUME NEW u \in Channel PROVE After(expected'[u], 0) = First(u)
      BY <1>1, <1>5 DEF Follows, Read, After
    <2>1. CASE u = chl
      BY <1>0, <1>1, <1>2, <2>1, AfterRound DEF ByteTypeOK
    <2>2. CASE u # chl
      <3>1. expected'[u] = expected[u]
        BY <1>0, <1>1, <2>2 DEF ByteTypeOK
      <3>2. Follows(u) /\ ~Disturbed(u) /\ Read(u) = 0
        BY <2>2 DEF ByteInv, Disturbed, Read
      <3> QED BY <3>1, <3>2 DEF Follows
    <2> QED BY <2>1, <2>2
  <1>7. (~polling => i = 0 /\ ~erased)' /\ ~polling'
    BY <1>1
  <1> QED BY <1>4, <1>5, <1>6, <1>7 DEF ByteInv

\* What main() has read of a poll and what a UART holds are the bytes that
\* follow those reported, unless a reset fell into the poll: the inductive
\* invariant of uart_fsmc.c and protocol_layer.c:31 to :63.
THEOREM BytesInvariant == UartSpec => []ByteInv
  <1>1. UartInit => ByteInv
    BY ByteInit
  <1>2. ByteInv /\ [UartNext]_uartVars => ByteInv'
    <2> SUFFICES ASSUME ByteInv, [UartNext]_uartVars PROVE ByteInv'
      OBVIOUS
    <2>1. CASE Reset
      BY <2>1, ByteReset
    <2>2. CASE ReadByte
      BY <2>2, ByteRead
    <2>3. CASE NoData
      BY <2>3, ByteReturn DEF NoData
    <2>4. CASE Report
      BY <2>4, FilledDomain, ByteReturn DEF Report
    <2>5. ASSUME NEW u \in Channel, Receive(u) PROVE ByteInv'
      BY <2>5, ByteReceive
    <2>6. ASSUME NEW u \in Channel, StartPoll(u) PROVE ByteInv'
      BY <2>6, ByteStart
    <2>7. CASE UNCHANGED uartVars
      <3>1. /\ ByteTypeOK' <=> ByteTypeOK
            /\ InBuffer' <=> InBuffer
        BY <2>7 DEF uartVars, ByteTypeOK, InBuffer, After
      <3>2. \A u \in Channel : (Latest(u)' <=> Latest(u)) /\ First(u)' = First(u)
        BY <2>7, ByteFrame DEF uartVars
      <3>3. \A u \in Channel : Follows(u)' <=> Follows(u)
        BY <2>7, <3>2 DEF uartVars, Follows, Disturbed, Read, After
      <3> QED BY <2>7, <3>1, <3>2, <3>3 DEF uartVars, ByteInv
    <2> QED BY <2>1, <2>2, <2>3, <2>4, <2>5, <2>6, <2>7 DEF UartNext
  <1> QED BY <1>1, <1>2, PTL DEF UartSpec

\* The numbers a UART holds in hand and in its FIFO run on without a gap.
LEMMA BytesJoin == ByteInv => BytesInOrder
  <1> SUFFICES ASSUME ByteInv, NEW u \in Channel, ~Disturbed(u)
               PROVE  InHand(u) \o fifo[u]
                        = Stream(expected[u], Len(InHand(u) \o fifo[u]))
    BY DEF BytesInOrder, Disturbed
  <1> DEFINE n == Read(u)
             hand == InHand(u)
             s == fifo[u]
             L == Len(s)
             held == hand \o s
             e == expected[u]
  <1>1. /\ ByteTypeOK /\ s \in Seq(Number) /\ L \in Nat /\ L <= Depth
        /\ e \in Number /\ n \in Nat /\ n <= Depth
        /\ Depth \in Nat /\ Ids \in Nat /\ Ids > Depth
    BY BytesTyped, SizesTyped DEF ByteInv
  <1>2. \A k \in 1..n : After(e, k - 1) \in Number
    BY <1>1, AfterNumber, SMT
  <1>3. hand \in Seq(Number) /\ Len(hand) = n /\ \A k \in 1..n : hand[k] = After(e, k - 1)
    <2>1. CASE polling /\ u = chl
      <3>1. n = i /\ InBuffer /\ hand = [k \in 1..i |-> report_buff[DataAt + k - 1]]
        BY <2>1 DEF ByteInv, Disturbed, Read, InHand
      <3>2. \A k \in 1..n : report_buff[DataAt + k - 1] = After(e, k - 1)
        BY <2>1, <3>1 DEF InBuffer
      <3>3. hand \in [1..n -> Number] /\ \A k \in 1..n : hand[k] = After(e, k - 1)
        BY <1>2, <3>1, <3>2
      <3> HIDE DEF hand
      <3> QED BY <1>1, <3>3, SMT
    <2>2. CASE ~(polling /\ u = chl)
      <3>1. n = 0 /\ hand = <<>>
        BY <2>2 DEF Read, InHand
      <3> QED BY <3>1, EmptySeq, SMT
    <2> QED BY <2>1, <2>2
  <1>4. \A k \in 1..L : s[k] = After(e, n + k - 1)
    <2> SUFFICES ASSUME NEW k \in 1..L PROVE s[k] = After(e, n + k - 1)
      OBVIOUS
    <2>1. s[k] = After(First(u), k - 1) /\ After(e, n) = First(u)
      BY DEF ByteInv, Latest, Follows
    <2>2. k - 1 \in Nat /\ k - 1 <= Ids /\ n <= Ids /\ n + (k - 1) = n + k - 1
      BY <1>1, SMT
    <2>3. After(After(e, n), k - 1) = After(e, n + (k - 1))
      BY <1>1, <2>2, AfterAdd
    <2> QED BY <2>1, <2>2, <2>3
  <1> HIDE DEF hand, s, e, n
  <1>5. /\ held \in Seq(Number) /\ Len(held) = n + L
        /\ \A k \in 1..(n + L) : held[k] = IF k <= n THEN hand[k] ELSE s[k - n]
    BY <1>1, <1>3, ConcatProperties
  <1>6. \A k \in 1..(n + L) : held[k] = After(e, k - 1)
    <2> SUFFICES ASSUME NEW k \in 1..(n + L) PROVE held[k] = After(e, k - 1)
      OBVIOUS
    <2>1. CASE k <= n
      BY <1>1, <1>3, <1>5, <2>1, SMT
    <2>2. CASE ~(k <= n)
      <3>1. k - n \in 1..L /\ n + (k - n) - 1 = k - 1
        BY <1>1, <2>2, SMT
      <3>2. s[k - n] = After(e, n + (k - n) - 1)
        BY <1>4, <3>1
      <3> QED BY <1>5, <2>2, <3>1, <3>2
    <2> QED BY <2>1, <2>2
  <1>7. held = [k \in 1..Len(held) |-> held[k]]
    BY <1>5, LenProperties
  <1>8. held = Stream(e, Len(held))
    <2> HIDE DEF held
    <2> QED BY <1>5, <1>6, <1>7 DEF Stream
  <1> QED BY <1>8 DEF hand, s, e

\* The bytes of a UART are reported in the order of their arrival, each once
\* and none invented, for every number of UARTs, depth of their FIFOs and size
\* of a report, unless a reset falls into the poll (uart_fsmc.c:102).
THEOREM BytesReportedInOrder == UartSpec => []BytesInOrder
  BY BytesInvariant, BytesJoin, PTL
-----------------------------------------------------------------------------
(***************************************************************************)
(* The check sum: FoldLeft as the recursion that defines it, and what one  *)
(* more element adds.                                                      *)
(***************************************************************************)
\* Induction over the numbers, for a property given as the set of them that have it.
LEMMA Induction ==
    ASSUME NEW P, 0 \in P, \A n \in Nat : n \in P => n + 1 \in P
    PROVE  \A n \in Nat : n \in P
  <1> DEFINE R == OpToRel(<, Nat)
             T == Nat \ P
  <1>1. IsWellFoundedOn(R, Nat)
    BY NatLessThanWellFounded
  <1>2. \A n \in Nat \ {0} : n - 1 \in Nat /\ (n - 1) + 1 = n /\ <<n - 1, n>> \in R
    BY SMT DEF OpToRel
  <1> HIDE DEF R
  <1>3. SUFFICES ASSUME T # {} PROVE FALSE
    OBVIOUS
  <1>4. T \subseteq Nat
    OBVIOUS
  <1>5. PICK x \in T : \A y \in T : ~(<<y, x>> \in R)
    <2> HIDE DEF T
    <2> QED BY <1>1, <1>3, <1>4, WFMin
  <1>6. x \in Nat \ {0}
    BY <1>5
  <1>7. x - 1 \in P
    BY <1>2, <1>5, <1>6
  <1>8. x \in P
    BY <1>2, <1>6, <1>7
  <1> QED BY <1>5, <1>8

\* A set of places of a sequence has a last one.
LEMMA MaxOfPlaces ==
    \A n \in Nat : \A d \in SUBSET (1..n) :
        d # {} => Max(d) \in d /\ \A y \in d : Max(d) >= y
  <1> DEFINE P == {n \in Nat : \A d \in SUBSET (1..n) :
                                  d # {} => \E x \in d : \A y \in d : x >= y}
  <1>1. 0 \in P
    <2>1. \A d \in SUBSET (1..0) : d = {}
      BY SMT
    <2> QED BY <2>1
  <1>2. ASSUME NEW n \in Nat, n \in P PROVE n + 1 \in P
    <2> SUFFICES ASSUME NEW d \in SUBSET (1..(n + 1)), d # {}
                 PROVE  \E x \in d : \A y \in d : x >= y
      OBVIOUS
    <2>1. CASE n + 1 \in d
      BY <2>1, SMT
    <2>2. CASE n + 1 \notin d
      <3>1. d \in SUBSET (1..n)
        BY <2>2, SMT
      <3> QED BY <1>2, <3>1
    <2> QED BY <2>1, <2>2
  <1> HIDE DEF P
  <1>3. \A n \in Nat : n \in P
    BY <1>1, <1>2, Induction
  <1>4. ASSUME NEW n \in Nat, NEW d \in SUBSET (1..n), d # {}
        PROVE  \E x \in d : \A y \in d : x >= y
    BY <1>3, <1>4 DEF P
  <1> QED BY <1>4 DEF Max

LEMMA MaxTo == \A n \in Nat : Max(1..(n + 1)) = n + 1
  <1> SUFFICES ASSUME NEW n \in Nat PROVE Max(1..(n + 1)) = n + 1
    OBVIOUS
  <1> DEFINE m == Max(1..(n + 1))
  <1>1. n + 1 \in Nat /\ n + 1 \in 1..(n + 1)
    BY SMT
  <1>2. m \in 1..(n + 1) /\ \A y \in 1..(n + 1) : m >= y
    BY <1>1, MaxOfPlaces
  <1> HIDE DEF m
  <1>3. m = n + 1
    BY <1>1, <1>2, SMT
  <1> QED BY <1>3 DEF m

\* The sums of s over sets of its first n places.
Summing(s, g, n) ==
    [d \in SUBSET (1..n) |-> IF d = {} THEN 0 ELSE g[d \ {Max(d)}] + s[Max(d)]]
Sums(s) == CHOOSE g : g = Summing(s, g, Len(s))

Total(s) == FoldLeft(+, 0, s)

LEMMA FoldIs ==
    ASSUME NEW s \in Seq(Nat)
    PROVE  Total(s) = Sums(s)[1..Len(s)]
  <1>1. DOMAIN s = 1..Len(s)
    BY LenProperties
  <1> QED BY <1>1 DEF Total, FoldLeft, MapThenFoldSet, Sums, Summing

LEMMA SumsExist ==
    ASSUME NEW s \in Seq(Nat)
    PROVE  Sums(s) = Summing(s, Sums(s), Len(s))
  <1> DEFINE P == {n \in Nat : \E g : g = Summing(s, g, n)}
  <1>1. 0 \in P
    <2> DEFINE g == [d \in SUBSET (1..0) |-> 0]
    <2>1. \A d \in SUBSET (1..0) : d = {}
      BY SMT
    <2>2. g = Summing(s, g, 0)
      BY <2>1 DEF Summing
    <2> QED BY <2>2
  <1>2. ASSUME NEW n \in Nat, n \in P PROVE n + 1 \in P
    <2>1. PICK g : g = Summing(s, g, n)
      BY <1>2
    <2> DEFINE h == [d \in SUBSET (1..(n + 1)) |->
                        IF n + 1 \in d THEN g[d \ {n + 1}] + s[n + 1] ELSE g[d]]
    <2>2. ASSUME NEW d \in SUBSET (1..(n + 1))
          PROVE  h[d] = IF d = {} THEN 0 ELSE h[d \ {Max(d)}] + s[Max(d)]
      <3>1. CASE n + 1 \in d
        <4>1. Max(d) = n + 1
          <5> DEFINE m == Max(d)
          <5>1. n + 1 \in Nat /\ d # {}
            BY <3>1
          <5>2. m \in d /\ \A y \in d : m >= y
            BY <5>1, MaxOfPlaces
          <5> HIDE DEF m
          <5>3. m = n + 1
            BY <3>1, <5>2, SMT
          <5> QED BY <5>3 DEF m
        <4>2. d \ {n + 1} \in SUBSET (1..(n + 1)) /\ n + 1 \notin d \ {n + 1}
          OBVIOUS
        <4>3. h[d] = g[d \ {n + 1}] + s[n + 1] /\ h[d \ {n + 1}] = g[d \ {n + 1}]
          BY <3>1, <4>2
        <4> HIDE DEF h
        <4> QED BY <3>1, <4>1, <4>3
      <3>2. CASE n + 1 \notin d
        <4>1. d \in SUBSET (1..n) /\ d \ {Max(d)} \in SUBSET (1..(n + 1))
              /\ n + 1 \notin d \ {Max(d)}
          <5>1. d \in SUBSET (1..n)
            BY <3>2, SMT
          <5> QED BY <3>2, <5>1
        <4>2. h[d] = g[d] /\ h[d \ {Max(d)}] = g[d \ {Max(d)}]
          BY <3>2, <4>1
        <4>3. g[d] = IF d = {} THEN 0 ELSE g[d \ {Max(d)}] + s[Max(d)]
          BY <2>1, <4>1 DEF Summing
        <4> HIDE DEF h
        <4> QED BY <4>2, <4>3
      <3> QED BY <3>1, <3>2
    <2>3. h = [d \in SUBSET (1..(n + 1)) |-> h[d]]
      OBVIOUS
    <2> HIDE DEF h
    <2>4. h = Summing(s, h, n + 1)
      BY <2>2, <2>3 DEF Summing
    <2> QED BY <2>4
  <1> HIDE DEF P
  <1>3. Len(s) \in P
    <2>1. \A n \in Nat : n \in P
      BY <1>1, <1>2, Induction
    <2> QED BY <2>1, LenProperties
  <1> QED BY <1>3 DEF P, Sums

\* The sum of the first n + 1 elements is that of the first n and one more.
LEMMA SumsStep ==
    ASSUME NEW s \in Seq(Nat), NEW n \in Nat, n < Len(s)
    PROVE  Sums(s)[1..(n + 1)] = Sums(s)[1..n] + s[n + 1]
  <1> DEFINE g == Sums(s)
             d == 1..(n + 1)
  <1>1. g = Summing(s, g, Len(s))
    BY SumsExist
  <1>2. Max(d) = n + 1
    BY MaxTo
  <1>3. d \in SUBSET (1..Len(s)) /\ d # {} /\ d \ {n + 1} = 1..n
    <2>1. Len(s) \in Nat
      BY LenProperties
    <2>2. /\ \A k \in 1..(n + 1) : k \in 1..Len(s)
          /\ n + 1 \in 1..(n + 1)
          /\ \A k : k \in 1..n <=> k \in 1..(n + 1) /\ k # n + 1
      BY <2>1, SMT
    <2> QED BY <2>2, Zenon
  <1> HIDE DEF g, d
  <1>4. g[d] = g[d \ {Max(d)}] + s[Max(d)]
    BY <1>1, <1>3 DEF Summing
  <1> QED BY <1>2, <1>3, <1>4 DEF g, d

LEMMA SumsNone == \A s \in Seq(Nat) : Sums(s)[1..0] = 0
  <1> SUFFICES ASSUME NEW s \in Seq(Nat) PROVE Sums(s)[1..0] = 0
    OBVIOUS
  <1> DEFINE g == Sums(s)
  <1>1. g = Summing(s, g, Len(s))
    BY SumsExist
  <1>2. 1..0 \in SUBSET (1..Len(s)) /\ 1..0 = {}
    BY SMT
  <1> HIDE DEF g
  <1>3. g[1..0] = 0
    BY <1>1, <1>2 DEF Summing
  <1> QED BY <1>3 DEF g

LEMMA SumsAgree ==
    ASSUME NEW s \in Seq(Nat), NEW t \in Seq(Nat), Len(s) <= Len(t),
           \A k \in 1..Len(s) : s[k] = t[k]
    PROVE  \A n \in Nat : n <= Len(s) =>
               Sums(s)[1..n] \in Nat /\ Sums(s)[1..n] = Sums(t)[1..n]
  <1>0. Len(s) \in Nat /\ Len(t) \in Nat
    BY LenProperties
  <1> DEFINE P == {n \in Nat : n <= Len(s) =>
                      Sums(s)[1..n] \in Nat /\ Sums(s)[1..n] = Sums(t)[1..n]}
  <1>1. 0 \in P
    BY SumsNone
  <1>2. ASSUME NEW n \in Nat, n \in P PROVE n + 1 \in P
    <2> SUFFICES ASSUME n + 1 <= Len(s)
                 PROVE  Sums(s)[1..(n + 1)] \in Nat /\ Sums(s)[1..(n + 1)] = Sums(t)[1..(n + 1)]
      OBVIOUS
    <2>1. n < Len(s) /\ n < Len(t) /\ n <= Len(s) /\ n + 1 \in 1..Len(s)
      BY <1>0, SMT
    <2>2. /\ Sums(s)[1..(n + 1)] = Sums(s)[1..n] + s[n + 1]
          /\ Sums(t)[1..(n + 1)] = Sums(t)[1..n] + t[n + 1]
      BY <2>1, SumsStep
    <2>3. Sums(s)[1..n] \in Nat /\ Sums(s)[1..n] = Sums(t)[1..n]
      BY <1>2, <2>1
    <2>4. s[n + 1] \in Nat /\ s[n + 1] = t[n + 1]
      BY <2>1, ElementOfSeq
    <2> QED BY <2>2, <2>3, <2>4
  <1> HIDE DEF P
  <1>3. \A n \in Nat : n \in P
    BY <1>1, <1>2, Induction
  <1> QED BY <1>3 DEF P

\* The sum of a sequence with one more element.
LEMMA FoldAppend ==
    ASSUME NEW s \in Seq(Nat), NEW x \in Nat
    PROVE  /\ Total(s) \in Nat
           /\ Total(Append(s, x)) = Total(s) + x
  <1> DEFINE t == Append(s, x)
             n == Len(s)
  <1>1. /\ t \in Seq(Nat) /\ Len(t) = n + 1 /\ t[n + 1] = x
        /\ \A k \in 1..n : s[k] = t[k]
    BY AppendProperties, LenProperties
  <1>2. n \in Nat
    BY LenProperties
  <1> HIDE DEF t
  <1>3. Sums(t)[1..(n + 1)] = Sums(t)[1..n] + x
    BY <1>1, <1>2, SumsStep, SMT
  <1>4. Sums(s)[1..n] \in Nat /\ Sums(s)[1..n] = Sums(t)[1..n]
    <2>1. Len(s) <= Len(t) /\ n <= Len(s)
      BY <1>1, <1>2, SMT
    <2> QED BY <1>1, <1>2, <2>1, SumsAgree
  <1>5. Total(s) = Sums(s)[1..n] /\ Total(t) = Sums(t)[1..(n + 1)]
    BY <1>1, FoldIs
  <1> QED BY <1>3, <1>4, <1>5 DEF t

-----------------------------------------------------------------------------
(***************************************************************************)
(* The report: what of its head stays, and what every report adds up to.   *)
(***************************************************************************)
LastPlace == SizeofReport + 2

\* Between reports only the length, the data and the check sum change.
HeadInv == /\ report_buff \in [0..LastPlace -> Nat]
           /\ report_buff[0] = 170 /\ report_buff[1] = 170
           /\ report_buff[CodeAt] = 177 /\ report_buff[CodeAt + 1] = 0
           /\ report_buff[ChlAt] \in Channel
           /\ i \in Nat /\ i <= MaxData

LEMMA LastPlaceIs == LastPlace = 8 + MaxData /\ MaxData \in Nat /\ MaxData > 0 /\ MaxData <= 255
  BY UartAssumption, SMT DEF LastPlace, SizeofReport

\* A length is stored in two bytes and read back.
LEMMA LenStored ==
    ASSUME NEW b \in [0..LastPlace -> Nat], NEW n \in Nat
    PROVE  /\ WithLen(b, n) \in [0..LastPlace -> Nat]
           /\ Len16(WithLen(b, n)) = n
           /\ \A k \in (0..LastPlace) \ {LenAt, LenAt + 1} : WithLen(b, n)[k] = b[k]
  <1> DEFINE w == WithLen(b, n)
             lo == n % 256
             hi == n \div 256
  <1>1. w = [b EXCEPT ![2] = lo, ![3] = hi]
    BY DEF WithLen, LenAt
  <1>2. lo \in Nat /\ hi \in Nat /\ lo + 256 * hi = n
    BY SMT
  <1>3. 2 \in 0..LastPlace /\ 3 \in 0..LastPlace
    BY LastPlaceIs, SMT
  <1> HIDE DEF lo, hi
  <1>4. /\ w \in [0..LastPlace -> Nat] /\ w[2] = lo /\ w[3] = hi
        /\ \A k \in (0..LastPlace) \ {2, 3} : w[k] = b[k]
    BY <1>1, <1>2, <1>3
  <1> HIDE DEF w
  <1>5. Len16(w) = n
    BY <1>2, <1>4, SMTT(30) DEF Len16, LenAt
  <1> QED BY <1>4, <1>5 DEF w, LenAt

\* The bytes a check sum is over, and its value.
Summands(b, first, last) == [k \in 1..(last - first + 1) |-> b[first + k - 1]]

LEMMA SummandsTyped ==
    ASSUME NEW b, NEW last \in Nat, last >= 1, \A k \in 2..last : b[k] \in Nat
    PROVE  /\ Summands(b, 2, last) \in Seq(Nat) /\ Len(Summands(b, 2, last)) = last - 1
           /\ SumOf(b, 2, last) = Total(Summands(b, 2, last))
           /\ SumOf(b, 2, last) \in Nat
  <1> DEFINE s == Summands(b, 2, last)
  <1>1. s = [k \in 1..(last - 1) |-> b[2 + k - 1]]
    <2>1. last - 2 + 1 = last - 1
      BY SMT
    <2> QED BY <2>1 DEF Summands
  <1>2. last - 1 \in Nat /\ \A k \in 1..(last - 1) : b[2 + k - 1] \in Nat
    BY SMT
  <1>3. s \in [1..(last - 1) -> Nat]
    BY <1>1, <1>2
  <1>4. SumOf(b, 2, last) = Total(s)
    BY DEF SumOf, Summands, Total
  <1> HIDE DEF s
  <1>5. s \in Seq(Nat) /\ Len(s) = last - 1
    BY <1>2, <1>3, SMT
  <1>6. Total(s) \in Nat
    BY <1>5, FoldAppend
  <1> QED BY <1>4, <1>5, <1>6 DEF s

\* With its check sum behind it a message adds up to 0.
LEMMA SumWithCheck ==
    ASSUME NEW b, NEW c, NEW last \in Nat, last >= 1,
           \A k \in 2..(last + 1) : b[k] \in Nat,
           \A k \in 2..last : c[k] = b[k],
           b[last + 1] = (256 - (SumOf(c, 2, last) % 256)) % 256
    PROVE  SumOf(b, 2, last + 1) % 256 = 0
  <1> DEFINE s == Summands(b, 2, last)
             t == Summands(b, 2, last + 1)
             x == b[last + 1]
  <1>1. /\ \A k \in 2..last : b[k] \in Nat /\ c[k] \in Nat
        /\ x \in Nat /\ last + 1 \in Nat /\ last + 1 >= 1
    BY SMT
  <1>2. s \in Seq(Nat) /\ Len(s) = last - 1 /\ SumOf(b, 2, last) = Total(s)
    BY <1>1, SummandsTyped
  <1>3. /\ t \in Seq(Nat) /\ Len(t) = (last + 1) - 1
        /\ SumOf(b, 2, last + 1) = Total(t)
    BY <1>1, SummandsTyped
  <1>4. Summands(c, 2, last) = s
    <2>1. \A k \in 1..(last - 2 + 1) : 2 + k - 1 \in 2..last
      BY SMT
    <2>2. \A k \in 1..(last - 2 + 1) : c[2 + k - 1] = b[2 + k - 1]
      BY <2>1
    <2> QED BY <2>2 DEF Summands
  <1>5. SumOf(c, 2, last) = SumOf(b, 2, last) /\ SumOf(c, 2, last) \in Nat
    <2>1. SumOf(c, 2, last) = Total(s)
      BY <1>4 DEF SumOf, Summands, Total
    <2>2. Total(s) \in Nat
      BY <1>2, FoldAppend
    <2> QED BY <1>2, <2>1, <2>2
  <1>6. t = Append(s, x)
    <2>1. \A k \in 1..(last - 1) : s[k] = b[2 + k - 1]
      <3>1. \A k \in 1..(last - 1) : k \in 1..(last - 2 + 1)
        BY SMT
      <3> QED BY <3>1 DEF Summands
    <2>2. \A k \in 1..last : t[k] = b[2 + k - 1]
      <3>1. \A k \in 1..last : k \in 1..((last + 1) - 2 + 1)
        BY SMT
      <3> QED BY <3>1 DEF Summands
    <2> HIDE DEF s, t, x
    <2> DEFINE u == Append(s, x)
    <2>3. /\ u \in Seq(Nat) /\ Len(u) = Len(s) + 1 /\ u[Len(s) + 1] = x
          /\ \A k \in 1..Len(s) : u[k] = s[k]
      <3>1. s \in Seq(Nat) /\ x \in Nat
        BY <1>1, <1>2
      <3> QED BY ONLY <3>1, AppendProperties
    <2> HIDE DEF u
    <2>4. Len(t) = last /\ Len(u) = last /\ u[last] = x /\ 2 + last - 1 = last + 1
          /\ (last - 1) + 1 = last /\ last \in 1..last
      <3>1. /\ last \in Nat /\ last >= 1 /\ Len(s) = last - 1 /\ Len(t) = (last + 1) - 1
            /\ Len(u) = Len(s) + 1 /\ u[Len(s) + 1] = x
        BY <1>2, <1>3, <2>3
      <3>2. (last + 1) - 1 = last /\ (last - 1) + 1 = last /\ 2 + last - 1 = last + 1 /\ last \in 1..last
        BY SMT
      <3> QED BY <3>1, <3>2
    <2>5. ASSUME NEW k \in 1..last PROVE t[k] = u[k]
      <3>1. CASE k = last
        BY <2>2, <2>4, <3>1 DEF x
      <3>2. CASE k # last
        <4>1. k \in 1..(last - 1)
          BY <3>2, SMT
        <4> QED BY <1>2, <2>1, <2>2, <2>3, <4>1, SMTT(30)
      <3> QED BY <3>1, <3>2
    <2>6. t = u
      BY <1>3, <2>3, <2>4, <2>5, SeqEqual
    <2> QED BY <2>6 DEF u
  <1>7. Total(t) = Total(s) + x
    <2>1. s \in Seq(Nat) /\ x \in Nat
      BY <1>1, <1>2
    <2>2. Total(Append(s, x)) = Total(s) + x
      <3> HIDE DEF s, x
      <3> QED BY ONLY <2>1, FoldAppend
    <2> QED BY <1>6, <2>2
  <1> DEFINE S == SumOf(c, 2, last)
  <1>8. SumOf(b, 2, last + 1) = S + x /\ x = (256 - (S % 256)) % 256 /\ S \in Nat
    BY <1>2, <1>3, <1>5, <1>7
  <1> HIDE DEF S, x
  <1>9. (S + x) % 256 = 0
    BY <1>8, SMT
  <1> QED BY <1>8, <1>9

LEMMA ReportFilled ==
    ASSUME HeadInv, i > 0
    PROVE  /\ Filled \in [0..LastPlace -> Nat]
           /\ \A k \in {0, 1, CodeAt, CodeAt + 1, ChlAt} : Filled[k] = report_buff[k]
           /\ WellFormed([k \in 1..(Len16(Filled) + 2) |-> Filled[k - 1]])
  <1> DEFINE b == [report_buff EXCEPT ![NumAt] = i]
             n == SizeofReport + 1 - (MaxData - i)
             sized == WithLen(b, n)
             check == (256 - (Summed(sized) % 256)) % 256
             F == Filled
  <1>1. /\ report_buff \in [0..LastPlace -> Nat] /\ report_buff[0] = 170 /\ report_buff[1] = 170
        /\ report_buff[4] = 177 /\ report_buff[5] = 0 /\ report_buff[6] \in Channel
        /\ i \in Nat /\ i <= MaxData /\ i > 0
        /\ LastPlace = 8 + MaxData /\ MaxData \in Nat /\ MaxData > 0
    BY LastPlaceIs DEF HeadInv, CodeAt, ChlAt
  <1>2. n = 7 + i /\ n \in Nat /\ n + 1 \in 0..LastPlace /\ n + 1 > 7 /\ n >= 1
    BY <1>1, SMT DEF SizeofReport
  <1>3. /\ b \in [0..LastPlace -> Nat] /\ b[7] = i
        /\ \A k \in (0..LastPlace) \ {7} : b[k] = report_buff[k]
    <2>1. 7 \in 0..LastPlace
      BY <1>1, SMT
    <2> QED BY <1>1, <2>1 DEF NumAt
  <1> HIDE DEF b, n
  <1>4. /\ sized \in [0..LastPlace -> Nat] /\ Len16(sized) = n
        /\ \A k \in (0..LastPlace) \ {2, 3} : sized[k] = b[k]
    <2>1. /\ WithLen(b, n) \in [0..LastPlace -> Nat] /\ Len16(WithLen(b, n)) = n
          /\ \A k \in (0..LastPlace) \ {LenAt, LenAt + 1} : WithLen(b, n)[k] = b[k]
      BY <1>2, <1>3, LenStored
    <2> QED BY <2>1 DEF LenAt
  <1>5. F = [sized EXCEPT ![n + 1] = check]
    BY <1>4 DEF Filled, b, n
  <1>6. Summed(sized) = SumOf(sized, 2, n)
    BY <1>4 DEF Summed, LenAt
  <1>7. check = (256 - (SumOf(sized, 2, n) % 256)) % 256
    BY <1>6
  <1> HIDE DEF sized, F
  <1>8. SumOf(sized, 2, n) \in Nat
    <2>1. \A k \in 2..n : sized[k] \in Nat
      <3>1. \A k \in 2..n : k \in 0..LastPlace
        BY <1>1, <1>2, SMT
      <3> QED BY <1>4, <3>1
    <2> QED BY <1>2, <2>1, SummandsTyped
  <1>9. check \in Nat
    BY <1>7, <1>8, SMT
  <1> HIDE DEF check
  <1>10. /\ F \in [0..LastPlace -> Nat] /\ F[n + 1] = check
         /\ \A k \in (0..LastPlace) \ {n + 1} : F[k] = sized[k]
    BY <1>2, <1>4, <1>5, <1>9
  <1>11. \A k \in 0..7 : k \in (0..LastPlace) \ {n + 1}
    BY <1>1, <1>2, SMT
  <1>12. Len16(F) = n
    BY <1>4, <1>10, <1>11 DEF Len16, LenAt
  <1>13. /\ \A k \in {0, 1, 4, 5, 6} : F[k] = report_buff[k]
         /\ F[7] = i
    BY <1>3, <1>4, <1>10, <1>11
  <1> DEFINE bytes == [k \in 1..(n + 2) |-> F[k - 1]]
             byte == [k \in 0..(Len(bytes) - 1) |-> bytes[k + 1]]
  <1>14. Len(bytes) = n + 2
    BY <1>2, SMT
  <1>15. byte = [k \in 0..(n + 1) |-> F[k]]
    <2>1. (n + 2) - 1 = n + 1 /\ \A k \in 0..(n + 1) : k + 1 \in 1..(n + 2) /\ (k + 1) - 1 = k
      BY <1>2, SMT
    <2>2. \A k \in 0..(n + 1) : bytes[k + 1] = F[k]
      BY <2>1
    <2> HIDE DEF bytes
    <2> QED BY <1>14, <2>1, <2>2
  <1> HIDE DEF byte
  <1>16. /\ \A k \in 0..7 : byte[k] = F[k] /\ k \in 0..(n + 1)
         /\ Len16(byte) = n
    <2>1. \A k \in 0..7 : k \in 0..(n + 1)
      BY <1>2, SMT
    <2>2. \A k \in 0..7 : byte[k] = F[k]
      BY <1>15, <2>1
    <2> QED BY <1>12, <2>1, <2>2 DEF Len16, LenAt
  <1>17. SumOf(byte, 2, n + 1) % 256 = 0
    <2>1. /\ \A k \in 2..(n + 1) : k \in 0..(n + 1) /\ k \in 0..LastPlace
          /\ \A k \in 2..n : k \in 2..(n + 1) /\ k # n + 1
          /\ n + 1 \in 0..(n + 1)
      BY <1>1, <1>2, SMT
    <2>2. \A k \in 2..(n + 1) : byte[k] = F[k] /\ byte[k] \in Nat
      BY <1>10, <1>15, <2>1
    <2>3. \A k \in 2..n : sized[k] = byte[k]
      BY <1>10, <2>1, <2>2
    <2>4. byte[n + 1] = (256 - (SumOf(sized, 2, n) % 256)) % 256
      BY <1>7, <1>10, <1>15, <2>1
    <2>5. \A k \in 2..(n + 1) : byte[k] \in Nat
      BY <2>2
    <2> QED BY <1>2, <2>3, <2>4, <2>5, SumWithCheck
  <1>18. byte[4] + 256 * byte[5] = 177
    BY <1>1, <1>13, <1>16, SMTT(30)
  <1>19. byte[7] = n - 7 /\ byte[7] > 0 /\ n = Len(bytes) - 2 /\ Len(bytes) - 1 = n + 1
    <2>1. byte[7] = i
      BY <1>13, <1>16
    <2> HIDE DEF bytes
    <2> QED BY <1>1, <1>2, <1>14, <2>1, SMT
  <1>20. byte[0] = 170 /\ byte[1] = 170 /\ byte[6] \in Channel
    BY <1>1, <1>13, <1>16, SMTT(30)
  <1> HIDE DEF bytes
  <1>21. /\ byte[CodeAt] + 256 * byte[CodeAt + 1] = 177 /\ byte[ChlAt] \in Channel
         /\ byte[NumAt] = Len16(byte) - 7 /\ byte[NumAt] > 0
         /\ SumOf(byte, LenAt, Len(bytes) - 1) % 256 = 0 /\ Len16(byte) = Len(bytes) - 2
    <2>1. byte[4 + 1] = byte[5] /\ SumOf(byte, 2, Len(bytes) - 1) = SumOf(byte, 2, n + 1)
      BY <1>19
    <2> QED BY <1>16, <1>17, <1>18, <1>19, <1>20, <2>1 DEF CodeAt, ChlAt, NumAt, LenAt
  <1>22. WellFormed(bytes)
    BY <1>20, <1>21 DEF WellFormed, byte
  <1>23. \A k \in {0, 1, CodeAt, CodeAt + 1, ChlAt} : F[k] = report_buff[k]
    BY <1>13 DEF CodeAt, ChlAt
  <1>24. bytes = [k \in 1..(Len16(F) + 2) |-> F[k - 1]]
    BY <1>12 DEF bytes
  <1>25. WellFormed([k \in 1..(Len16(F) + 2) |-> F[k - 1]])
    <2> HIDE DEF bytes
    <2> QED BY <1>22, <1>24
  <1> QED BY <1>10, <1>23, <1>25 DEF F

\* A report carries its own length and a check sum that makes it add up to 0,
\* for every size of its data, though report_buff still holds longer reports
\* sent before (protocol_layer.c:50 to :56).
THEOREM ReportsWellFormed == UartSpec => []ReportWellFormed
  <1> DEFINE Inv == HeadInv /\ ReportWellFormed
  <1>1. UartInit => Inv
    <2> SUFFICES ASSUME UartInit PROVE HeadInv /\ ReportWellFormed
      OBVIOUS
    <2>1. Prepared \in [0..LastPlace -> Nat] /\ Prepared[0] = 170 /\ Prepared[1] = 170
          /\ Prepared[4] = 177 /\ Prepared[5] = 0 /\ Prepared[6] = 0
      <3>1. \A k \in 0..7 : k \in 0..LastPlace
        BY LastPlaceIs, SMT
      <3> QED BY <3>1 DEF Prepared, LastPlace, CodeAt
    <2>2. SizeofReport + 1 \in Nat
      BY LastPlaceIs, SMT DEF SizeofReport
    <2>3. /\ report_buff \in [0..LastPlace -> Nat]
          /\ \A k \in (0..LastPlace) \ {LenAt, LenAt + 1} : report_buff[k] = Prepared[k]
      <3> DEFINE p == Prepared
                 m == SizeofReport + 1
      <3>1. p \in [0..LastPlace -> Nat] /\ m \in Nat /\ report_buff = WithLen(p, m)
        BY <2>1, <2>2 DEF UartInit
      <3> HIDE DEF p, m
      <3>2. /\ WithLen(p, m) \in [0..LastPlace -> Nat]
            /\ \A k \in (0..LastPlace) \ {LenAt, LenAt + 1} : WithLen(p, m)[k] = p[k]
        BY <3>1, LenStored
      <3> QED BY <3>1, <3>2 DEF p
    <2>4. \A k \in {0, 1, 4, 5, 6} : k \in (0..LastPlace) \ {LenAt, LenAt + 1}
      BY LastPlaceIs, SMT DEF LenAt
    <2>5. 0 \in Channel /\ 0 \in Nat /\ 0 <= MaxData
      BY UartAssumption, SMT DEF Channel
    <2>6. HeadInv
      BY <2>1, <2>3, <2>4, <2>5 DEF HeadInv, CodeAt, ChlAt, UartInit
    <2> QED BY <2>6 DEF UartInit, ReportWellFormed
  <1>2. ByteInv /\ Inv /\ [UartNext]_uartVars => Inv'
    <2> SUFFICES ASSUME ByteInv, HeadInv, ReportWellFormed, [UartNext]_uartVars
                 PROVE  HeadInv' /\ ReportWellFormed'
      OBVIOUS
    <2>1. \A k \in {0, 1, 4, 5, 6} : k \in 0..LastPlace
      BY LastPlaceIs, SMT
    <2>2. \A u \in Channel : StartPoll(u) => HeadInv' /\ ReportWellFormed'
      <3> SUFFICES ASSUME NEW u \in Channel, StartPoll(u) PROVE HeadInv' /\ ReportWellFormed'
        OBVIOUS
      <3>1. /\ report_buff' = [report_buff EXCEPT ![6] = u] /\ i' = 0 /\ datagram' = <<>>
        BY DEF StartPoll, ChlAt
      <3>2. u \in Nat /\ 0 \in Nat /\ 0 <= MaxData
        BY UartAssumption, SMT DEF Channel
      <3>3. HeadInv'
        BY <2>1, <3>1, <3>2 DEF HeadInv, CodeAt, ChlAt
      <3> QED BY <3>1, <3>3 DEF ReportWellFormed
    <2>3. CASE ReadByte
      <3> DEFINE x == IF fifo[chl] = <<>> THEN Junk ELSE Head(fifo[chl])
                 o == 8 + i
      <3>1. /\ report_buff' = [report_buff EXCEPT ![o] = x] /\ i' = i + 1 /\ i < MaxData
            /\ datagram' = datagram
        BY <2>3 DEF ReadByte, More, DataAt
      <3>2. x \in Nat
        <4>1. chl \in Channel /\ fifo[chl] \in Seq(Number)
          BY BytesTyped DEF ByteInv, ByteTypeOK
        <4>2. Number \subseteq Nat /\ Junk \in Nat
          BY UartAssumption, SMT DEF Number
        <4>3. fifo[chl] # <<>> => Head(fifo[chl]) \in Number
          BY <4>1, HeadTailProperties
        <4> QED BY <4>2, <4>3
      <3>3. /\ i \in Nat /\ o \in 0..LastPlace /\ \A k \in {0, 1, 4, 5, 6} : k # o
            /\ i + 1 \in Nat /\ i + 1 <= MaxData
        BY <3>1, LastPlaceIs, SMT DEF HeadInv
      <3> HIDE DEF x, o
      <3>4. HeadInv'
        BY <2>1, <3>1, <3>2, <3>3 DEF HeadInv, CodeAt, ChlAt
      <3> QED BY <3>1, <3>4 DEF ReportWellFormed
    <2>4. CASE NoData
      <3>1. UNCHANGED <<report_buff, datagram>> /\ i' = 0 /\ 0 \in Nat /\ 0 <= MaxData
        BY <2>4, LastPlaceIs, SMT DEF NoData, Return
      <3> QED BY <3>1 DEF HeadInv, ReportWellFormed
    <2>5. CASE Report
      <3>1. /\ i > 0 /\ report_buff' = Filled /\ i' = 0 /\ 0 \in Nat /\ 0 <= MaxData
            /\ datagram' \in {<<>>, [k \in 1..(Len16(report_buff') + 2) |-> report_buff'[k - 1]]}
        BY <2>5, LastPlaceIs, SMT DEF Report, Return
      <3>2. /\ Filled \in [0..LastPlace -> Nat]
            /\ \A k \in {0, 1, CodeAt, CodeAt + 1, ChlAt} : Filled[k] = report_buff[k]
            /\ WellFormed([k \in 1..(Len16(Filled) + 2) |-> Filled[k - 1]])
        BY <3>1, ReportFilled
      <3>3. HeadInv'
        BY <3>1, <3>2 DEF HeadInv
      <3>4. WellFormed(datagram') \/ datagram' = <<>>
        BY <3>1, <3>2
      <3> QED BY <3>3, <3>4 DEF ReportWellFormed
    <2>6. CASE UNCHANGED <<report_buff, datagram, i>>
      BY <2>6 DEF HeadInv, ReportWellFormed
    <2>7. ReadByte \/ NoData \/ Report \/ (\E u \in Channel : StartPoll(u))
            \/ UNCHANGED <<report_buff, datagram, i>>
      BY DEF UartNext, Reset, Receive, uartVars
    <2> QED BY <2>2, <2>3, <2>4, <2>5, <2>6, <2>7
  <1> QED BY <1>1, <1>2, BytesInvariant, PTL DEF UartSpec
=============================================================================
