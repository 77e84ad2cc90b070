--------------------------- MODULE Console_proofs ---------------------------
(***************************************************************************)
(* The console's ring, for every size of the ring and of a command and for *)
(* every stream of bytes: its bounds, that it is a queue while no byte     *)
(* completes a command inside the decrement of cmdCnt, that as long every  *)
(* command has its message or is one of those that lost it, and that it    *)
(* receives the lines as they were typed.                                  *)
(***************************************************************************)
EXTENDS Console, SequenceTheorems, FiniteSetTheorems, WellFoundedInduction, TLAPS

RingInv == TypeOK /\ CountFits

\* An index of the ring advances to an index of the ring.
LEMMA NextSlot == \A i \in Slot : (i + 1) % MaxCnt \in Slot
  BY RingAssumption DEF Slot

LEMMA RingInvInit == Init => RingInv
  <1> SUFFICES ASSUME Init PROVE RingInv
    OBVIOUS
  <1>1. TypeOK
    <2>1. 0 \in Slot
      BY RingAssumption DEF Slot
    <2>2. <<>> \in Seq(Char) /\ Len(<<>>) = 0
      OBVIOUS
    <2> QED
      BY <2>1, <2>2, RingAssumption, BoundAssumption DEF Init, TypeOK
  <1>2. CountFits
    BY RingAssumption DEF Init, CountFits
  <1> QED
    BY <1>1, <1>2 DEF RingInv

\* The interrupt handler: only Record changes the ring, and only when there
\* is room for one more command.
LEMMA HandlerStep ==
  ASSUME RingInv, USART3_IRQHandler
  PROVE  RingInv'
  <1> USE DEF RingInv
  <1>1. ASSUME NEW Res \in Char, Content(Res)
        PROVE  RingInv'
    <2>1. buf' \in Seq(Char) /\ Len(buf') <= MaxSize
      BY <1>1, RingAssumption DEF Content, TypeOK
    <2> QED
      BY <1>1, <2>1 DEF Content, ring, main, TypeOK, CountFits
  <1>2. ASSUME NEW Res \in Char, StartOver(Res)
        PROVE  RingInv'
    <2>1. buf' \in Seq(Char) /\ Len(buf') <= MaxSize
      BY <1>2, RingAssumption DEF StartOver
    <2> QED
      BY <1>2, <2>1 DEF StartOver, ring, main, TypeOK, CountFits
  <1>3. CASE CarriageReturn
    BY <1>3 DEF CarriageReturn, ring, main, TypeOK, CountFits
  <1>4. CASE Record
    <2>1. iCmdSave' \in Slot
      BY <1>4, NextSlot DEF Record, TypeOK
    <2>2. cmds' \in [Slot -> Seq(Char)]
      BY <1>4 DEF Record, TypeOK
    <2>3. notices' \in 0..MaxNotices
      BY <1>4, BoundAssumption DEF Record, Notify, TypeOK
    <2>4. buf' \in Seq(Char) /\ Len(buf') <= MaxSize
      BY <1>4, RingAssumption DEF Record
    <2>5. cr' \in BOOLEAN /\ end' \in BOOLEAN
      BY <1>4, Zenon DEF Record, TypeOK
    <2>6. /\ cmdCnt' \in Nat /\ reg' \in Nat /\ iCmdRead' \in Slot
          /\ pc' \in {"idle", "num", "check", "get", "load", "store"}
      BY <1>4, SMT DEF Record, main, TypeOK
    <2>7. CountFits'
      BY <1>4, RingAssumption DEF Record, main, TypeOK, CountFits
    <2> QED
      BY <2>1, <2>2, <2>3, <2>4, <2>5, <2>6, <2>7 DEF TypeOK
  <1>5. CASE GoDeaf
    BY <1>5 DEF GoDeaf, ring, main, TypeOK, CountFits
  <1> QED
    BY <1>1, <1>2, <1>3, <1>4, <1>5 DEF USART3_IRQHandler

\* main(): between the check of cmdCnt and the store of the decrement the
\* handler can only have added commands.
LEMMA MainStep ==
  ASSUME RingInv, Main
  PROVE  RingInv'
  <1> USE DEF RingInv
  <1>1. CASE OnConsoleCommand
    <2>1. notices' \in 0..MaxNotices
      BY <1>1, BoundAssumption DEF OnConsoleCommand, TypeOK
    <2> QED
      BY <1>1, <2>1 DEF OnConsoleCommand, ring, rx, TypeOK, CountFits
  <1>2. CASE Waiting
    BY <1>2 DEF Waiting, ring, rx, TypeOK, CountFits
  <1>3. CASE NoneWaiting
    BY <1>3 DEF NoneWaiting, ring, rx, TypeOK, CountFits
  <1>4. CASE Take
    <2>1. iCmdRead' \in Slot
      BY <1>4, NextSlot DEF Take, TypeOK
    <2> QED
      BY <1>4, <2>1 DEF Take, rx, TypeOK, CountFits
  <1>5. CASE LoadCnt
    BY <1>5 DEF LoadCnt, ring, rx, TypeOK, CountFits
  <1>6. CASE StoreCnt
    <2>1. cmdCnt' \in Nat /\ cmdCnt' <= MaxCnt /\ reg' = 0 /\ pc' = "idle"
      BY <1>6, RingAssumption, SMT DEF StoreCnt, TypeOK, CountFits
    <2>2. cr' \in BOOLEAN /\ end' \in BOOLEAN
      BY <1>6, Zenon DEF StoreCnt, rx, TypeOK
    <2>3. /\ cmds' \in [Slot -> Seq(Char)] /\ iCmdRead' \in Slot
          /\ iCmdSave' \in Slot /\ buf' \in Seq(Char)
          /\ Len(buf') <= MaxSize /\ notices' \in 0..MaxNotices
      BY <1>6, SMT DEF StoreCnt, rx, TypeOK
    <2> QED
      BY <2>1, <2>2, <2>3, SMT DEF TypeOK, CountFits
  <1> QED
    BY <1>1, <1>2, <1>3, <1>4, <1>5, <1>6 DEF Main

\* The invariant is kept by every step of the console and of main().
THEOREM RingInvariant == Spec => []RingInv
  <1>1. Init => RingInv
    BY RingInvInit
  <1>2. RingInv /\ [Next]_vars => RingInv'
    <2> SUFFICES ASSUME RingInv, [Next]_vars PROVE RingInv'
      OBVIOUS
    <2>1. CASE USART3_IRQHandler
      BY <2>1, HandlerStep
    <2>2. CASE Main
      BY <2>2, MainStep
    <2>3. CASE UNCHANGED vars
      BY <2>3 DEF vars, RingInv, TypeOK, CountFits
    <2> QED
      BY <2>1, <2>2, <2>3 DEF Next
  <1> QED
    BY <1>1, <1>2, PTL DEF Spec

\* console.c: cmdCnt never exceeds CMD_MAX_CNT and its decrement never wraps,
\* at whatever instruction the USART interrupts getCommand.
THEOREM CountAlwaysFits == Spec => []CountFits
  <1>1. RingInv => CountFits
    BY DEF RingInv
  <1> QED
    BY RingInvariant, <1>1, PTL
-----------------------------------------------------------------------------
(***************************************************************************)
(* The ring as a queue.  All of it is said of behaviours in which no byte  *)
(* completed a command inside the decrement of line 104: the command that  *)
(* did is in the ring, and cmdCnt does not count it.                       *)
(***************************************************************************)
Nth(o, k) == (o + k) % MaxCnt
Owed == Len(recorded) - Len(taken)

\* The commands owed lie from iCmdRead on and end before iCmdSave; cmdCnt is
\* their number, plus the one main() is just taking.
Queued == /\ Len(taken) <= Len(recorded)
          /\ cmdCnt = Owed + (IF pc \in {"load", "store"} THEN 1 ELSE 0)
          /\ pc = "store" => reg = cmdCnt
          /\ iCmdSave = Nth(iCmdRead, Owed)
          /\ \A k \in 1..Owed : cmds[Nth(iCmdRead, k - 1)] = recorded[Len(taken) + k]
          /\ \A k \in 1..Len(taken) : taken[k] = recorded[k]

\* Every command has its message, queued, refused or in main()'s hands.
InHands == IF pc = "idle" THEN 0 ELSE 1
Announced == cmdCnt = notices + refused + InHands

HistoryOK == /\ recorded \in Seq(Seq(Char)) /\ taken \in Seq(Seq(Char))
             /\ refused \in Nat /\ raced \in BOOLEAN

QueueInv == RingInv /\ HistoryOK /\ (~raced => Queued /\ Announced)

LEMMA NthInRing ==
    ASSUME NEW o \in Slot, NEW k \in 0..MaxCnt
    PROVE  Nth(o, k) \in Slot
  BY RingAssumption, SMT DEF Nth, Slot

LEMMA NthDistinct ==
    ASSUME NEW o \in Slot, NEW j \in 0..MaxCnt, NEW k \in 0..MaxCnt, j < k, k < MaxCnt
    PROVE  Nth(o, j) # Nth(o, k)
  BY RingAssumption, SMT DEF Nth, Slot

\* Advancing the first index moves every place one down, and the place after
\* the last is its successor.
LEMMA NthNext ==
    ASSUME NEW o \in Slot, NEW k \in 0..(MaxCnt - 1)
    PROVE  Nth((o + 1) % MaxCnt, k) = Nth(o, k + 1) /\ (Nth(o, k) + 1) % MaxCnt = Nth(o, k + 1)
  <1>1. (o + 1) % MaxCnt = IF o = MaxCnt - 1 THEN 0 ELSE o + 1
    BY RingAssumption, SMT DEF Slot
  <1>2. Nth(o, k) = IF o + k < MaxCnt THEN o + k ELSE o + k - MaxCnt
    BY RingAssumption, SMT DEF Nth, Slot
  <1>3. Nth(o, k + 1) = IF o + (k + 1) < MaxCnt THEN o + (k + 1) ELSE o + (k + 1) - MaxCnt
    BY RingAssumption, SMT DEF Nth, Slot
  <1>4. Nth((o + 1) % MaxCnt, k) = Nth(o, k + 1)
    BY <1>1, <1>3, RingAssumption, SMT DEF Nth, Slot
  <1>5. (Nth(o, k) + 1) % MaxCnt = Nth(o, k + 1)
    BY <1>2, <1>3, RingAssumption, SMT DEF Slot
  <1> QED BY <1>4, <1>5

LEMMA QueueInit == Init => QueueInv
  <1> SUFFICES ASSUME Init PROVE QueueInv
    OBVIOUS
  <1>1. /\ recorded = <<>> /\ taken = <<>> /\ refused = 0 /\ raced = FALSE
        /\ cmdCnt = 0 /\ iCmdRead = 0 /\ iCmdSave = 0 /\ pc = "idle" /\ notices = 0
    BY DEF Init
  <1>2. HistoryOK
    <2>1. <<>> \in Seq(Seq(Char)) /\ 0 \in Nat /\ FALSE \in BOOLEAN
      OBVIOUS
    <2> QED BY <1>1, <2>1, Zenon DEF HistoryOK
  <1>3. Owed = 0 /\ Len(taken) = 0 /\ Len(recorded) = 0
    BY <1>1 DEF Owed
  <1>4. Nth(0, 0) = 0
    BY RingAssumption, SMT DEF Nth
  <1>5. Queued /\ Announced
    BY <1>1, <1>3, <1>4 DEF Queued, Announced, InHands
  <1> QED BY <1>2, <1>5, RingInvInit DEF QueueInv

LEMMA NumbersTyped ==
    ASSUME QueueInv
    PROVE  cmdCnt \in Nat /\ notices \in Nat /\ refused \in Nat /\ reg \in Nat
  <1>1. cmdCnt \in Nat /\ refused \in Nat /\ reg \in Nat
    BY DEF QueueInv, RingInv, TypeOK, HistoryOK
  <1>2. notices \in 0..MaxNotices
    BY DEF QueueInv, RingInv, TypeOK
  <1> QED BY <1>1, <1>2, BoundAssumption, SMT

\* Steps that neither put a command into the ring nor take one out of it.
LEMMA QueueCalm ==
    ASSUME QueueInv, UNCHANGED <<cmds, iCmdRead, iCmdSave, cmdCnt, recorded, taken,
                                 refused, raced>>,
           pc' \in {"load", "store"} <=> pc \in {"load", "store"},
           ~raced => (pc' = "store" => reg' = cmdCnt),
           ~raced => notices' + InHands' = notices + InHands,
           notices' \in Nat
    PROVE  HistoryOK' /\ (~raced' => Queued' /\ Announced')
  <1>1. HistoryOK'
    BY DEF QueueInv, HistoryOK
  <1>2. ~raced => Queued'
    BY DEF QueueInv, Queued, Owed, Nth
  <1>3. ~raced => Announced'
    <2> SUFFICES ASSUME ~raced PROVE Announced'
      OBVIOUS
    <2>1. cmdCnt \in Nat /\ notices \in Nat /\ refused \in Nat
      BY NumbersTyped
    <2>2. /\ cmdCnt = notices + refused + InHands /\ cmdCnt' = cmdCnt /\ refused' = refused
          /\ notices' + InHands' = notices + InHands /\ notices' \in Nat
      BY DEF QueueInv, Announced
    <2>3. InHands \in Nat /\ InHands' \in Nat
      BY DEF InHands
    <2> DEFINE n == notices'
               h == InHands'
    <2> HIDE DEF n, h
    <2>4. n \in Nat /\ h \in Nat /\ n + h = notices + InHands
      BY <2>2, <2>3 DEF n, h
    <2>5. cmdCnt = n + refused + h
      BY <2>1, <2>2, <2>3, <2>4, SMT
    <2>6. cmdCnt' = notices' + refused' + InHands'
      BY <2>2, <2>5 DEF n, h
    <2> QED BY <2>6 DEF Announced
  <1> QED BY <1>1, <1>2, <1>3

\* The line goes behind the commands owed: there is room, and no decrement is
\* under way.
LEMMA QueueRecord ==
    ASSUME QueueInv, Record
    PROVE  HistoryOK' /\ (~raced' => Queued' /\ Announced')
  <1>1. /\ cmdCnt < MaxCnt /\ cmds' = [cmds EXCEPT ![iCmdSave] = buf]
        /\ iCmdSave' = (iCmdSave + 1) % MaxCnt /\ cmdCnt' = cmdCnt + 1
        /\ recorded' = Append(recorded, buf) /\ UNCHANGED <<iCmdRead, pc, reg, taken>>
        /\ raced' = (raced \/ pc = "store")
    BY DEF Record, main
  <1>2. /\ notices' \in Nat /\ refused' \in Nat /\ notices \in Nat /\ refused \in Nat
        /\ notices' + refused' = notices + refused + 1
    <2>1. notices \in Nat /\ refused \in Nat
      BY NumbersTyped
    <2>2. \/ notices' = notices + 1 /\ refused' = refused
          \/ refused' = refused + 1 /\ notices' = notices
      BY DEF Record, Notify
    <2> QED BY <2>1, <2>2, SMT
  <1>3. /\ TypeOK /\ buf \in Seq(Char) /\ recorded \in Seq(Seq(Char)) /\ taken \in Seq(Seq(Char))
    BY DEF QueueInv, RingInv, TypeOK, HistoryOK
  <1>4. /\ recorded' \in Seq(Seq(Char)) /\ Len(recorded') = Len(recorded) + 1
        /\ \A k \in 1..Len(recorded) : recorded'[k] = recorded[k]
        /\ recorded'[Len(recorded) + 1] = buf
    BY <1>1, <1>3, AppendProperties
  <1>5. HistoryOK'
    <2>1. raced' \in BOOLEAN
      BY <1>1, Zenon DEF QueueInv, HistoryOK
    <2> QED BY <1>1, <1>2, <1>3, <1>4, <2>1 DEF HistoryOK
  <1> SUFFICES ASSUME ~raced' PROVE Queued' /\ Announced'
    BY <1>5
  <1>6. ~raced /\ pc # "store" /\ Queued /\ Announced
    BY <1>1 DEF QueueInv
  <1>7. Announced'
    <2>1. cmdCnt \in Nat /\ cmdCnt' = cmdCnt + 1 /\ pc' = pc
      BY <1>1, NumbersTyped
    <2>2. InHands \in Nat /\ InHands' = InHands
      BY <2>1 DEF InHands
    <2>3. cmdCnt = notices + refused + InHands
      BY <1>6 DEF Announced
    <2> DEFINE n == notices'
               r == refused'
    <2> HIDE DEF n, r
    <2>4. n \in Nat /\ r \in Nat /\ n + r = notices + refused + 1
      BY <1>2 DEF n, r
    <2>5. cmdCnt + 1 = n + r + InHands
      BY <1>2, <2>1, <2>2, <2>3, <2>4, SMT
    <2>6. cmdCnt' = notices' + refused' + InHands'
      BY <2>1, <2>2, <2>5 DEF n, r
    <2> QED BY <2>6 DEF Announced
  <1>8. /\ Len(recorded) \in Nat /\ Len(taken) \in Nat /\ Len(taken) <= Len(recorded)
        /\ Owed \in 0..(MaxCnt - 1) /\ Owed' = Owed + 1
        /\ Len(recorded) + 1 = Len(taken) + (Owed + 1)
    <2>1. Len(recorded) \in Nat /\ Len(taken) \in Nat
      BY <1>3, LenProperties
    <2> QED BY <1>1, <1>3, <1>4, <1>6, <2>1, RingAssumption, SMTT(30) DEF Queued, Owed, TypeOK
  <1>9. iCmdSave = Nth(iCmdRead, Owed) /\ iCmdRead \in Slot /\ iCmdSave \in Slot
        /\ cmds \in [Slot -> Seq(Char)]
    BY <1>3, <1>6 DEF Queued, TypeOK
  <1>10. iCmdSave' = Nth(iCmdRead, Owed + 1)
    BY <1>1, <1>8, <1>9, NthNext
  <1>11. ASSUME NEW k \in 1..(Owed + 1)
         PROVE  cmds'[Nth(iCmdRead, k - 1)] = recorded'[Len(taken) + k]
    <2>1. CASE k = Owed + 1
      <3>1. k - 1 = Owed /\ Len(taken) + k = Len(recorded) + 1
        BY <1>8, <2>1, SMT
      <3> QED BY <1>1, <1>4, <1>9, <3>1
    <2>2. CASE k # Owed + 1
      <3>1. k \in 1..Owed /\ k - 1 \in 0..MaxCnt /\ Owed \in 0..MaxCnt /\ k - 1 < Owed
            /\ Owed < MaxCnt /\ Len(taken) + k \in 1..Len(recorded)
        BY <1>8, <2>2, RingAssumption, SMT
      <3>2. Nth(iCmdRead, k - 1) # iCmdSave /\ Nth(iCmdRead, k - 1) \in Slot
        BY <1>9, <3>1, NthDistinct, NthInRing
      <3>3. cmds'[Nth(iCmdRead, k - 1)] = cmds[Nth(iCmdRead, k - 1)]
        BY <1>1, <1>9, <3>2
      <3> QED BY <1>4, <1>6, <3>1, <3>3 DEF Queued
    <2> QED BY <2>1, <2>2
  <1>12. \A k \in 1..Len(taken) : taken'[k] = recorded'[k]
    <2>1. \A k \in 1..Len(taken) : k \in 1..Len(recorded)
      BY <1>8, SMT
    <2> QED BY <1>1, <1>4, <1>6, <2>1 DEF Queued
  <1>13. cmdCnt' = Owed' + (IF pc' \in {"load", "store"} THEN 1 ELSE 0)
    BY <1>1, <1>3, <1>6, <1>8, SMT DEF Queued, TypeOK
  <1>14. Len(taken') <= Len(recorded')
    BY <1>1, <1>4, <1>8, SMT
  <1>15. Nth(iCmdRead, Owed + 1) = Nth(iCmdRead, Owed)' /\ iCmdRead' = iCmdRead
    BY <1>1, <1>8 DEF Nth
  <1>16. \A k \in 1..(Owed + 1) : cmds'[Nth(iCmdRead, k - 1)'] = recorded'[Len(taken) + k]
    BY <1>1, <1>11 DEF Nth
  <1>17. Queued'
    BY <1>1, <1>6, <1>8, <1>10, <1>12, <1>13, <1>14, <1>15, <1>16 DEF Queued
  <1> QED BY <1>7, <1>17

\* getCommand hands out the oldest command owed.
LEMMA QueueTake ==
    ASSUME QueueInv, Take
    PROVE  HistoryOK' /\ (~raced' => Queued' /\ Announced')
  <1>1. /\ pc = "get" /\ pc' = "load" /\ taken' = Append(taken, cmds[iCmdRead])
        /\ iCmdRead' = (iCmdRead + 1) % MaxCnt
        /\ UNCHANGED <<cmds, iCmdSave, cmdCnt, reg, notices, recorded, refused, raced>>
    BY DEF Take, history
  <1>2. /\ TypeOK /\ CountFits /\ iCmdRead \in Slot /\ cmds \in [Slot -> Seq(Char)]
        /\ recorded \in Seq(Seq(Char)) /\ taken \in Seq(Seq(Char))
    BY DEF QueueInv, RingInv, TypeOK, HistoryOK
  <1>3. cmds[iCmdRead] \in Seq(Char)
    BY <1>2
  <1>4. /\ taken' \in Seq(Seq(Char)) /\ Len(taken') = Len(taken) + 1
        /\ \A k \in 1..Len(taken) : taken'[k] = taken[k]
        /\ taken'[Len(taken) + 1] = cmds[iCmdRead]
    BY <1>1, <1>2, <1>3, AppendProperties
  <1>5. HistoryOK'
    BY <1>1, <1>4 DEF QueueInv, HistoryOK
  <1> SUFFICES ASSUME ~raced' PROVE Queued' /\ Announced'
    BY <1>5
  <1>6. Queued /\ Announced
    BY <1>1 DEF QueueInv
  <1>7. Announced'
    BY <1>1, <1>6 DEF Announced, InHands
  <1>8. /\ Len(recorded) \in Nat /\ Len(taken) \in Nat /\ Owed \in 1..MaxCnt
        /\ Owed' = Owed - 1 /\ Len(taken) + 1 <= Len(recorded)
    <2>1. Len(recorded) \in Nat /\ Len(taken) \in Nat
      BY <1>2, LenProperties
    <2>2. cmdCnt > 0 /\ cmdCnt <= MaxCnt /\ cmdCnt \in Nat /\ cmdCnt = Owed
      BY <1>1, <1>2, <1>6, <2>1, SMT DEF CountFits, Queued, TypeOK, Owed
    <2> QED BY <1>1, <1>4, <2>1, <2>2, RingAssumption, SMT DEF Owed
  <1>9. cmds[iCmdRead] = recorded[Len(taken) + 1]
    <2>1. Nth(iCmdRead, 1 - 1) = iCmdRead
      <3>1. iCmdRead \in Nat /\ iCmdRead < MaxCnt /\ MaxCnt \in Nat \ {0}
        BY <1>2, RingAssumption, SMT DEF Slot
      <3>2. iCmdRead + (1 - 1) = iCmdRead /\ iCmdRead % MaxCnt = iCmdRead
        BY <3>1, SMT
      <3> QED BY <3>2 DEF Nth
    <2>2. 1 \in 1..Owed
      BY <1>8, SMT
    <2> QED BY <1>6, <2>1, <2>2 DEF Queued
  <1>10. iCmdSave = Nth(iCmdRead, Owed)' 
    <2>1. Owed - 1 \in 0..(MaxCnt - 1) /\ (Owed - 1) + 1 = Owed
      BY <1>8, RingAssumption, SMT
    <2>2. Nth((iCmdRead + 1) % MaxCnt, Owed - 1) = Nth(iCmdRead, Owed)
      BY <1>2, <2>1, NthNext
    <2>3. Nth(iCmdRead, Owed)' = Nth((iCmdRead + 1) % MaxCnt, Owed - 1)
      BY <1>1, <1>8 DEF Nth
    <2> QED BY <1>6, <2>2, <2>3 DEF Queued
  <1>11. ASSUME NEW k \in 1..(Owed - 1)
         PROVE  cmds[Nth(iCmdRead, k - 1)'] = recorded[(Len(taken) + 1) + k]
    <2>1. k - 1 \in 0..(MaxCnt - 1) /\ k + 1 \in 1..Owed /\ (k - 1) + 1 = (k + 1) - 1
          /\ (Len(taken) + 1) + k = Len(taken) + (k + 1)
      BY <1>8, RingAssumption, SMT
    <2>2. Nth(iCmdRead, k - 1)' = Nth((iCmdRead + 1) % MaxCnt, k - 1)
      BY <1>1 DEF Nth
    <2>3. Nth((iCmdRead + 1) % MaxCnt, k - 1) = Nth(iCmdRead, (k + 1) - 1)
      BY <1>2, <2>1, NthNext
    <2> QED BY <1>6, <2>1, <2>2, <2>3 DEF Queued
  <1>12. \A k \in 1..(Len(taken) + 1) : taken'[k] = recorded[k]
    <2>1. \A k \in 1..(Len(taken) + 1) : k \in 1..Len(taken) \/ k = Len(taken) + 1
      BY <1>8, SMT
    <2> QED BY <1>4, <1>6, <1>9, <2>1 DEF Queued
  <1>13. cmdCnt' = Owed' + (IF pc' \in {"load", "store"} THEN 1 ELSE 0)
    BY <1>1, <1>2, <1>6, <1>8, SMT DEF Queued, TypeOK
  <1>14. Len(taken') <= Len(recorded')
    BY <1>1, <1>4, <1>8
  <1>15. Queued'
    BY <1>1, <1>4, <1>8, <1>10, <1>11, <1>12, <1>13, <1>14 DEF Queued
  <1> QED BY <1>7, <1>15

\* The decrement: nothing was counted between its load and its store.
LEMMA QueueStore ==
    ASSUME QueueInv, StoreCnt
    PROVE  HistoryOK' /\ (~raced' => Queued' /\ Announced')
  <1>1. /\ pc = "store" /\ pc' = "idle" /\ cmdCnt' = reg - 1
        /\ UNCHANGED <<cmds, iCmdRead, iCmdSave, notices, recorded, taken, refused, raced>>
    BY DEF StoreCnt, history
  <1>2. HistoryOK'
    BY <1>1 DEF QueueInv, HistoryOK
  <1> SUFFICES ASSUME ~raced' PROVE Queued' /\ Announced'
    BY <1>2
  <1>3. Queued /\ Announced /\ reg = cmdCnt /\ Owed' = Owed
    BY <1>1 DEF QueueInv, Queued, Owed
  <1>4. cmdCnt' = Owed /\ cmdCnt \in Nat /\ notices \in Nat /\ refused \in Nat
        /\ cmdCnt' = cmdCnt - 1
    <2>1. cmdCnt \in Nat /\ notices \in Nat /\ refused \in Nat /\ Len(recorded) \in Nat
          /\ Len(taken) \in Nat
      BY BoundAssumption, LenProperties, SMT DEF QueueInv, RingInv, TypeOK, HistoryOK
    <2> QED BY <1>1, <1>3, <2>1, SMT DEF Queued, Owed
  <1>5. Announced'
    BY <1>1, <1>3, <1>4, SMT DEF Announced, InHands
  <1>6. Owed \in Int
    BY LenProperties, SMT DEF QueueInv, HistoryOK, Owed
  <1>7. cmdCnt' = Owed' + (IF pc' \in {"load", "store"} THEN 1 ELSE 0)
    BY <1>1, <1>3, <1>4, <1>6, SMT
  <1>8. Queued'
    BY <1>1, <1>3, <1>7 DEF Queued, Nth
  <1> QED BY <1>5, <1>8

THEOREM QueueInvariant == Spec => []QueueInv
  <1>1. QueueInv /\ [Next]_vars => QueueInv'
    <2> SUFFICES ASSUME QueueInv, [Next]_vars PROVE QueueInv'
      OBVIOUS
    <2>1. RingInv'
      <3>1. CASE UNCHANGED vars
        BY <3>1 DEF vars, QueueInv, RingInv, TypeOK, CountFits
      <3> QED BY <3>1, HandlerStep, MainStep DEF QueueInv, Next
    <2>2. notices \in Nat /\ notices' \in Nat
      BY <2>1, BoundAssumption DEF QueueInv, RingInv, TypeOK
    <2> SUFFICES HistoryOK' /\ (~raced' => Queued' /\ Announced')
      BY <2>1 DEF QueueInv
    <2>3. ASSUME NEW Res \in Char, Content(Res) \/ StartOver(Res)
          PROVE  HistoryOK' /\ (~raced' => Queued' /\ Announced')
      <3>1. UNCHANGED <<cmds, iCmdRead, iCmdSave, cmdCnt, recorded, taken, refused, raced,
                        pc, reg, notices>>
        BY <2>3 DEF Content, StartOver, ring, main
      <3> QED BY <3>1, <2>2, QueueCalm DEF QueueInv, Queued, InHands
    <2>4. CASE CarriageReturn \/ GoDeaf \/ UNCHANGED vars
      <3>1. UNCHANGED <<cmds, iCmdRead, iCmdSave, cmdCnt, recorded, taken, refused, raced,
                        pc, reg, notices>>
        BY <2>4 DEF CarriageReturn, GoDeaf, vars, ring, main
      <3> QED BY <3>1, <2>2, QueueCalm DEF QueueInv, Queued, InHands
    <2>5. CASE OnConsoleCommand
      <3>1. /\ UNCHANGED <<cmds, iCmdRead, iCmdSave, cmdCnt, recorded, taken, refused, raced>>
            /\ pc = "idle" /\ pc' = "num" /\ notices' = notices - 1
        BY <2>5 DEF OnConsoleCommand, ring, history
      <3> QED BY <3>1, <2>2, QueueCalm, SMT DEF InHands
    <2>6. CASE Waiting
      <3>1. /\ UNCHANGED <<cmds, iCmdRead, iCmdSave, cmdCnt, recorded, taken, refused, raced,
                           notices>>
            /\ pc \in {"num", "check"} /\ pc' \in {"check", "get"}
        BY <2>6 DEF Waiting, ring, history
      <3> QED BY <3>1, <2>2, QueueCalm, SMT DEF InHands
    <2>7. CASE NoneWaiting
      <3>1. /\ UNCHANGED <<cmds, iCmdRead, iCmdSave, cmdCnt, recorded, taken, refused, raced,
                           notices>>
            /\ pc \in {"num", "check"} /\ pc' = "idle" /\ ~(cmdCnt > 0)
        BY <2>7 DEF NoneWaiting, ring, history
      <3>2. raced
        BY <3>1, <2>2, SMT DEF QueueInv, HistoryOK, RingInv, TypeOK, Announced, InHands
      <3> QED BY <3>1, <3>2 DEF QueueInv, HistoryOK
    <2>8. CASE LoadCnt
      <3>1. /\ UNCHANGED <<cmds, iCmdRead, iCmdSave, cmdCnt, recorded, taken, refused, raced,
                           notices>>
            /\ pc = "load" /\ pc' = "store" /\ reg' = cmdCnt
        BY <2>8 DEF LoadCnt, ring, history
      <3> QED BY <3>1, <2>2, QueueCalm, SMT DEF InHands
    <2> QED BY <2>3, <2>4, <2>5, <2>6, <2>7, <2>8, QueueRecord, QueueTake, QueueStore
            DEF Next, USART3_IRQHandler, Main
  <1> QED BY <1>1, QueueInit, PTL DEF Spec

\* console.c: for every size of the ring, while no byte completes a command
\* inside the decrement, commands are handed out in the order they were typed,
\* each once.
THEOREM CommandsInOrder == Spec => []InOrder
  <1>1. QueueInv => InOrder
    <2> SUFFICES ASSUME QueueInv, ~raced
                 PROVE  Len(taken) <= Len(recorded) /\ taken = SubSeq(recorded, 1, Len(taken))
      BY DEF InOrder
    <2>1. /\ taken \in Seq(Seq(Char)) /\ recorded \in Seq(Seq(Char)) /\ Queued
      BY DEF QueueInv, HistoryOK
    <2>2. Len(taken) \in Nat /\ Len(recorded) \in Nat /\ Len(taken) <= Len(recorded)
          /\ taken = [k \in 1..Len(taken) |-> taken[k]]
      BY <2>1, LenProperties DEF Queued
    <2>3. SubSeq(recorded, 1, Len(taken)) = [k \in 1..Len(taken) |-> recorded[k]]
      <3> DEFINE n == Len(taken)
      <3>1. n \in Nat /\ \A k \in 1..n : 1 + k - 1 = k
        BY <2>2, SMT
      <3> HIDE DEF n
      <3>2. SubSeq(recorded, 1, n) = [k \in 1..n |-> recorded[k]]
        BY <2>1, <3>1, SMT
      <3> QED BY <3>2 DEF n
    <2> QED BY <2>1, <2>2, <2>3 DEF Queued
  <1> QED BY <1>1, QueueInvariant, PTL

\* As long, cmdCnt is the number of commands not yet handed out, and each of
\* them has a message in the queue or lost its message to a full queue.
THEOREM BacklogCounted == Spec => []Backlog
  <1>1. QueueInv => Backlog
    BY SMT DEF QueueInv, RingInv, TypeOK, HistoryOK, Queued, Announced, InHands, Owed, Backlog
  <1> QED BY <1>1, QueueInvariant, PTL
-----------------------------------------------------------------------------
(***************************************************************************)
(* The lines typed: which CR counts, and what one more byte adds.          *)
(***************************************************************************)
\* Induction over the numbers, for a property given as the set of them that have it.
LEMMA Induction ==
    ASSUME NEW P, 0 \in P, \A n \in Nat : n \in P => n + 1 \in P
    PROVE  \A n \in Nat : n \in P
  <1> DEFINE R == OpToRel(<, Nat)
             T == Nat \ P
  <1>1. IsWellFoundedOn(R, Nat)
    BY NatLessThanWellFounded
  <1>2. \A n \in Nat \ {0} : n - 1 \in Nat /\ (n - 1) + 1 = n /\ <<n - 1, n>> \in R
    BY SMT DEF OpToRel
  <1> HIDE DEF R
  <1>3. SUFFICES ASSUME T # {} PROVE FALSE
    OBVIOUS
  <1>4. T \subseteq Nat
    OBVIOUS
  <1>5. PICK x \in T : \A y \in T : ~(<<y, x>> \in R)
    <2> HIDE DEF T
    <2> QED BY <1>1, <1>3, <1>4, WFMin
  <1>6. x \in Nat \ {0}
    BY <1>5
  <1>7. x - 1 \in P
    BY <1>2, <1>5, <1>6
  <1>8. x \in P
    BY <1>2, <1>6, <1>7
  <1> QED BY <1>5, <1>8

\* A set of places has a last one.
LEMMA LastOf ==
    ASSUME NEW n \in Nat, NEW d \in SUBSET (0..n), d # {}
    PROVE  Max(d) \in d /\ \A y \in d : Max(d) >= y
  <1> DEFINE P == {m \in Nat : \A e \in SUBSET (0..m) :
                                  e # {} => \E x \in e : \A y \in e : x >= y}
  <1>1. 0 \in P
    <2> SUFFICES ASSUME NEW e \in SUBSET (0..0), e # {}
                 PROVE  \E x \in e : \A y \in e : x >= y
      OBVIOUS
    <2>1. PICK x \in e : TRUE
      OBVIOUS
    <2>2. x \in 0..0 /\ \A y \in e : y \in 0..0
      OBVIOUS
    <2>3. \A y \in e : x >= y
      BY <2>2, SMT
    <2> QED BY <2>3
  <1>2. ASSUME NEW m \in Nat, m \in P PROVE m + 1 \in P
    <2> SUFFICES ASSUME NEW e \in SUBSET (0..(m + 1)), e # {}
                 PROVE  \E x \in e : \A y \in e : x >= y
      OBVIOUS
    <2>1. CASE m + 1 \in e
      BY <2>1, SMT
    <2>2. CASE m + 1 \notin e
      <3>1. e \in SUBSET (0..m)
        BY <2>2, SMT
      <3> QED BY <1>2, <3>1
    <2> QED BY <2>1, <2>2
  <1> HIDE DEF P
  <1>3. n \in P
    BY <1>1, <1>2, Induction
  <1>4. \E x \in d : \A y \in d : x >= y
    BY <1>3 DEF P
  <1> QED BY <1>4 DEF Max

\* A run of CRs up to i that begins at j.
Run(s, j, i) == /\ j \in 1..i
                /\ \A k \in j..i : s[k] = CR
                /\ (j = 1 \/ s[j - 1] # CR)

LEMMA CountsIsRun ==
    ASSUME NEW s, NEW i
    PROVE  i \in Counts(s) <=> i \in 1..Len(s) /\ \E j : Run(s, j, i) /\ (i - j) % 2 = 0
  BY DEF Counts, Run

LEMMA RunExists ==
    ASSUME NEW s, NEW i \in Nat, i >= 1, s[i] = CR
    PROVE  \E j : Run(s, j, i)
  <1> DEFINE P == {n \in Nat : n >= 1 /\ s[n] = CR => \E j : Run(s, j, n)}
  <1>1. 0 \in P
    BY SMT
  <1>2. ASSUME NEW n \in Nat, n \in P PROVE n + 1 \in P
    <2> SUFFICES ASSUME s[n + 1] = CR PROVE \E j : Run(s, j, n + 1)
      OBVIOUS
    <2>1. CASE n >= 1 /\ s[n] = CR
      <3>1. PICK j : Run(s, j, n)
        BY <1>2, <2>1
      <3>2. j \in 1..(n + 1) /\ \A k \in j..(n + 1) : k \in j..n \/ k = n + 1
        BY <3>1, SMT DEF Run
      <3> QED BY <3>1, <3>2 DEF Run
    <2>2. CASE ~(n >= 1 /\ s[n] = CR)
      <3>1. n + 1 \in 1..(n + 1) /\ (\A k \in (n + 1)..(n + 1) : k = n + 1)
            /\ (n + 1) - 1 = n /\ (n + 1 = 1 <=> ~(n >= 1))
        BY SMT
      <3>2. Run(s, n + 1, n + 1)
        BY <2>2, <3>1 DEF Run
      <3> QED BY <3>2
    <2> QED BY <2>1, <2>2
  <1> HIDE DEF P
  <1>3. i \in P
    BY <1>1, <1>2, Induction
  <1> QED BY <1>3 DEF P

LEMMA RunUnique ==
    ASSUME NEW s, NEW i \in Nat, NEW j, NEW h, Run(s, j, i), Run(s, h, i)
    PROVE  j = h
  <1>1. j \in 1..i /\ h \in 1..i
    BY DEF Run
  <1>2. ASSUME j < h PROVE FALSE
    <2>1. h # 1 /\ h - 1 \in j..i
      BY <1>1, <1>2, SMT
    <2> QED BY <2>1 DEF Run
  <1>3. ASSUME h < j PROVE FALSE
    <2>1. j # 1 /\ j - 1 \in h..i
      BY <1>1, <1>3, SMT
    <2> QED BY <2>1 DEF Run
  <1> QED BY <1>1, <1>2, <1>3, SMT

\* Byte by byte: a CR counts unless the byte before it is one that counts.
LEMMA CountsIs ==
    ASSUME NEW s, Len(s) \in Nat, NEW i \in 1..Len(s)
    PROVE  i \in Counts(s) <=> s[i] = CR /\ i - 1 \notin Counts(s)
  <1>0. i \in Nat /\ i >= 1 /\ i - 1 \in Nat
    BY SMT
  <1>1. ASSUME i \in Counts(s) PROVE s[i] = CR /\ i - 1 \notin Counts(s)
    <2>1. PICK j : Run(s, j, i) /\ (i - j) % 2 = 0
      BY <1>1, CountsIsRun
    <2>2. j \in 1..i /\ i \in j..i
      BY <1>0, <2>1, SMT DEF Run
    <2>3. s[i] = CR
      BY <2>1, <2>2 DEF Run
    <2>4. ASSUME i - 1 \in Counts(s) PROVE FALSE
      <3>1. PICK h : Run(s, h, i - 1) /\ ((i - 1) - h) % 2 = 0
        BY <2>4, CountsIsRun
      <3>2. h \in 1..(i - 1)
        BY <3>1 DEF Run
      <3>3. h \in 1..i /\ \A k \in h..i : k \in h..(i - 1) \/ k = i
        BY <1>0, <3>2, SMT
      <3>4. Run(s, h, i)
        BY <2>3, <3>1, <3>3 DEF Run
      <3>5. h = j
        BY <1>0, <2>1, <3>4, RunUnique
      <3> QED BY <1>0, <2>1, <2>2, <3>1, <3>5, SMT
    <2> QED BY <2>3, <2>4
  <1>2. ASSUME s[i] = CR, i - 1 \notin Counts(s) PROVE i \in Counts(s)
    <2>1. PICK j : Run(s, j, i)
      BY <1>0, <1>2, RunExists
    <2>2. CASE (i - j) % 2 = 0
      BY <2>1, <2>2, CountsIsRun
    <2>3. CASE (i - j) % 2 # 0
      <3>1. j \in 1..i
        BY <2>1 DEF Run
      <3>2. j # i
        BY <1>0, <2>3, <3>1, SMT
      <3>3. /\ i - 1 \in 1..Len(s) /\ j \in 1..(i - 1) /\ ((i - 1) - j) % 2 = 0
            /\ \A k \in j..(i - 1) : k \in j..i
        BY <1>0, <2>3, <3>1, <3>2, SMT
      <3>4. Run(s, j, i - 1)
        BY <2>1, <3>3 DEF Run
      <3>5. i - 1 \in Counts(s)
        BY <3>3, <3>4, CountsIsRun
      <3> QED BY <1>2, <3>5
    <2> QED BY <2>2, <2>3
  <1> QED BY <1>1, <1>2

\* What one more byte does to a byte string and to the CRs that count.
Grows(s, c, t, n) ==
    /\ t \in Seq(Char) /\ Len(t) = n + 1 /\ n \in Nat
    /\ t[n + 1] = c /\ \A k \in 1..n : t[k] = s[k]
    /\ \A i \in 1..n : i \in Counts(t) <=> i \in Counts(s)
    /\ n + 1 \in Counts(t) <=> c = CR /\ n \notin Counts(s)
    /\ \A i \in Counts(s) : i \in 1..n
    /\ \A i \in Counts(t) : i \in 1..(n + 1)

LEMMA CountsAppend ==
    ASSUME NEW s \in Seq(Char), NEW c \in Char, NEW t, t = Append(s, c),
           NEW n, n = Len(s)
    PROVE  Grows(s, c, t, n)
  <1>1. /\ t \in Seq(Char) /\ Len(t) = n + 1 /\ n \in Nat
        /\ t[n + 1] = c /\ \A k \in 1..n : t[k] = s[k]
    BY AppendProperties, LenProperties
  <1>2. /\ \A i \in Counts(s) : i \in 1..n
        /\ \A i \in Counts(t) : i \in 1..(n + 1)
    BY <1>1 DEF Counts
  <1>3. ASSUME NEW i \in 1..n PROVE i \in Counts(t) <=> i \in Counts(s)
    <2>1. i \in 1..(n + 1)
      BY <1>1, SMT
    <2>2. ASSUME NEW j PROVE Run(t, j, i) <=> Run(s, j, i)
      <3>1. SUFFICES ASSUME j \in 1..i PROVE Run(t, j, i) <=> Run(s, j, i)
        BY DEF Run
      <3>2. (\A k \in j..i : k \in 1..n) /\ (j # 1 => j - 1 \in 1..n)
        BY <1>1, <3>1, SMT
      <3> QED BY <1>1, <3>2 DEF Run
    <2> QED BY <1>1, <2>1, <2>2, CountsIsRun
  <1>4. n + 1 \in Counts(t) <=> c = CR /\ n \notin Counts(s)
    <2>1. n + 1 \in 1..Len(t) /\ (n + 1) - 1 = n /\ Len(t) \in Nat
      BY <1>1, SMT
    <2>2. n + 1 \in Counts(t) <=> t[n + 1] = CR /\ n \notin Counts(t)
      BY <2>1, CountsIs
    <2>3. n \in Counts(t) <=> n \in Counts(s)
      <3>1. CASE n = 0
        <4>1. n \notin 1..n /\ n \notin 1..(n + 1)
          BY <3>1, SMT
        <4> QED BY <1>2, <4>1
      <3>2. CASE n # 0
        <4>1. n \in 1..n
          BY <1>1, <3>2, SMT
        <4> QED BY <1>3, <4>1
      <3> QED BY <3>1, <3>2
    <2> QED BY <1>1, <2>2, <2>3
  <1> QED BY <1>1, <1>2, <1>3, <1>4 DEF Grows

\* A line that is complete stays what it is.
LEMMA EndedAppend ==
    ASSUME NEW s \in Seq(Char), NEW c \in Char, NEW t, t = Append(s, c),
           NEW n, n = Len(s)
    PROVE  Ended(t) = Ended(s) \cup (IF c = LF /\ n \in Counts(s) THEN {n} ELSE {})
  <1>0. Grows(s, c, t, n)
    BY CountsAppend
  <1>1. /\ t \in Seq(Char) /\ Len(t) = n + 1 /\ n \in Nat
        /\ t[n + 1] = c /\ \A k \in 1..n : t[k] = s[k]
        /\ \A i \in 1..n : i \in Counts(t) <=> i \in Counts(s)
        /\ n + 1 \in Counts(t) <=> c = CR /\ n \notin Counts(s)
        /\ \A i \in Counts(s) : i \in 1..n
        /\ \A i \in Counts(t) : i \in 1..(n + 1)
    BY <1>0 DEF Grows
  <1>2. ASSUME NEW i, i \in Ended(t)
        PROVE  i \in Ended(s) \/ (i = n /\ c = LF /\ n \in Counts(s))
    <2>1. i \in Counts(t) /\ i < n + 1 /\ t[i + 1] = LF
      BY <1>1, <1>2 DEF Ended
    <2>2. i \in 1..n
      BY <1>1, <2>1, SMT
    <2>3. CASE i = n
      BY <1>1, <2>1, <2>2, <2>3
    <2>4. CASE i # n
      <3>1. i < n /\ i + 1 \in 1..n
        BY <1>1, <2>2, <2>4, SMT
      <3> QED BY <1>1, <2>1, <2>2, <3>1 DEF Ended
    <2> QED BY <2>3, <2>4
  <1>3. ASSUME NEW i, i \in Ended(s) PROVE i \in Ended(t)
    <2>1. i \in Counts(s) /\ i < n /\ s[i + 1] = LF /\ i \in 1..n
      BY <1>1, <1>3 DEF Ended
    <2>2. i < n + 1 /\ i + 1 \in 1..n
      BY <1>1, <2>1, SMT
    <2> QED BY <1>1, <2>1, <2>2 DEF Ended
  <1>4. ASSUME c = LF, n \in Counts(s) PROVE n \in Ended(t)
    <2>1. n \in 1..n /\ n < n + 1
      BY <1>1, <1>4, SMT
    <2> QED BY <1>1, <1>4, <2>1 DEF Ended
  <1> QED BY <1>2, <1>3, <1>4

\* Where a line begins: behind every CR that counts and the byte after it.
LEMMA BeginIs ==
    ASSUME NEW s \in Seq(Char), NEW i \in 1..(Len(s) + 1)
    PROVE  /\ Begin(s, i) \in Nat /\ Begin(s, i) >= 1
           /\ \A j \in Counts(s) : j < i => j + 2 <= Begin(s, i)
           /\ Begin(s, i) = 1 \/ \E j \in Counts(s) : j < i /\ Begin(s, i) = j + 2
  <1> DEFINE d == {0} \cup {j + 1 : j \in {j \in Counts(s) : j < i}}
             l == Len(s)
  <1>1. l \in Nat /\ \A j \in Counts(s) : j \in 1..l
    BY LenProperties DEF Counts
  <1>2. l + 1 \in Nat /\ d \in SUBSET (0..(l + 1)) /\ 0 \in d
    <2>1. \A j \in 1..l : j + 1 \in 0..(l + 1)
      BY <1>1, SMT
    <2>2. 0 \in 0..(l + 1) /\ l + 1 \in Nat
      BY <1>1, SMT
    <2> QED BY <1>1, <2>1, <2>2
  <1> DEFINE m == Max(d)
  <1>3. m \in d /\ \A y \in d : m >= y
    <2> HIDE DEF d
    <2> QED BY <1>2, LastOf
  <1>4. Begin(s, i) = 1 + m
    BY DEF Begin
  <1> HIDE DEF m
  <1>5. m = 0 \/ \E j \in Counts(s) : j < i /\ m = j + 1
    BY <1>3
  <1>6. \A j \in Counts(s) : j < i => m >= j + 1
    BY <1>3
  <1>7. m \in Nat
    BY <1>1, <1>5, SMT
  <1>8. \A j \in Counts(s) : j < i => j + 2 <= 1 + m
    BY <1>1, <1>6, <1>7, SMT
  <1>9. 1 + m = 1 \/ \E j \in Counts(s) : j < i /\ 1 + m = j + 2
    BY <1>1, <1>5, SMT
  <1> QED BY <1>4, <1>7, <1>8, <1>9, SMT

\* Only the CRs before a place say where its line begins.
LEMMA BeginAppend ==
    ASSUME NEW s \in Seq(Char), NEW c \in Char, NEW t, t = Append(s, c),
           NEW n, n = Len(s), NEW i \in 1..(n + 1)
    PROVE  Begin(t, i) = Begin(s, i)
  <1>0. Grows(s, c, t, n)
    BY CountsAppend
  <1>1. /\ n \in Nat
        /\ \A k \in 1..n : k \in Counts(t) <=> k \in Counts(s)
        /\ \A k \in Counts(s) : k \in 1..n
        /\ \A k \in Counts(t) : k \in 1..(n + 1)
    BY <1>0 DEF Grows
  <1>2. \A k \in 1..(n + 1) : k < i => k \in 1..n
    BY <1>1, SMT
  <1>3. {j \in Counts(t) : j < i} = {j \in Counts(s) : j < i}
    BY <1>1, <1>2
  <1> QED BY <1>3 DEF Begin

\* A byte that is no CR that counts begins no line.
LEMMA BeginNext ==
    ASSUME NEW s \in Seq(Char), NEW i \in 1..Len(s), i \notin Counts(s)
    PROVE  Begin(s, i + 1) = Begin(s, i)
  <1>1. \A j \in Counts(s) : j \in 1..Len(s) /\ Len(s) \in Nat
    BY LenProperties DEF Counts
  <1>2. \A j \in Counts(s) : j < i + 1 <=> j < i
    <2>1. \A j \in Counts(s) : j # i
      OBVIOUS
    <2> QED BY <1>1, <2>1, SMT
  <1>3. {j \in Counts(s) : j < i + 1} = {j \in Counts(s) : j < i}
    BY <1>2
  <1> QED BY <1>3 DEF Begin

\* The text of the line not yet ended.
Text(s) == LET n == Len(s)
           IN IF n \in Counts(s) THEN SubSeq(s, Begin(s, n), n - 1)
              ELSE SubSeq(s, Begin(s, n + 1), n)

LEMMA SliceIs ==
    ASSUME NEW s \in Seq(Char), NEW b \in Nat, b >= 1, NEW e \in Nat, e <= Len(s), b <= e + 1
    PROVE  /\ SubSeq(s, b, e) \in Seq(Char)
           /\ Len(SubSeq(s, b, e)) = e - b + 1
           /\ \A k \in 1..(e - b + 1) : SubSeq(s, b, e)[k] = s[b + k - 1]
  <1>1. Len(s) \in Nat
    BY LenProperties
  <1>2. b \in 1..(Len(s) + 1) /\ e \in (b - 1)..Len(s)
    BY <1>1, SMT
  <1> DEFINE u == SubSeq(s, b, e)
  <1>3. CASE b <= e
    <2>1. /\ u \in Seq(Char) /\ Len(u) = IF b <= e THEN e - b + 1 ELSE 0
          /\ \A k \in 1..(e - b + 1) : u[k] = s[b + k - 1]
      BY <1>2, SubSeqProperties
    <2> QED BY <1>3, <2>1
  <1>4. CASE b = e + 1
    <2>1. u = <<>>
      BY <1>4, SMT
    <2>2. e - b + 1 = 0 /\ \A k \in 1..0 : FALSE
      BY <1>4, SMT
    <2>3. <<>> \in Seq(Char) /\ Len(<<>>) = 0
      OBVIOUS
    <2> HIDE DEF u
    <2> QED BY <2>1, <2>2, <2>3
  <1> QED BY <1>3, <1>4, SMT

\* What is before the last byte is not touched by it.
LEMMA SliceAppend ==
    ASSUME NEW s \in Seq(Char), NEW c \in Char, NEW t, t = Append(s, c),
           NEW n, n = Len(s), NEW b \in Nat, b >= 1
    PROVE  /\ \A e \in Nat : e <= n /\ b <= e + 1 => SubSeq(t, b, e) = SubSeq(s, b, e)
           /\ b <= n + 1 => SubSeq(t, b, n + 1) = Append(SubSeq(s, b, n), c)
  <1>1. /\ t \in Seq(Char) /\ Len(t) = n + 1 /\ n \in Nat
        /\ t[n + 1] = c /\ \A k \in 1..n : t[k] = s[k]
    BY AppendProperties, LenProperties
  <1>2. ASSUME NEW e \in Nat, e <= n, b <= e + 1 PROVE SubSeq(t, b, e) = SubSeq(s, b, e)
    <2> DEFINE u == SubSeq(s, b, e)
               v == SubSeq(t, b, e)
    <2>1. /\ u \in Seq(Char) /\ Len(u) = e - b + 1
          /\ \A k \in 1..(e - b + 1) : u[k] = s[b + k - 1]
      BY <1>2, SliceIs
    <2>2. e <= Len(t)
      BY <1>1, <1>2, SMT
    <2>3. /\ v \in Seq(Char) /\ Len(v) = e - b + 1
          /\ \A k \in 1..(e - b + 1) : v[k] = t[b + k - 1]
      BY <1>1, <1>2, <2>2, SliceIs
    <2>4. \A k \in 1..(e - b + 1) : b + k - 1 \in 1..n
      BY <1>1, <1>2, SMT
    <2> HIDE DEF u, v
    <2>5. \A k \in 1..Len(u) : u[k] = v[k]
      BY <1>1, <2>1, <2>3, <2>4
    <2>6. u = v
      BY <2>1, <2>3, <2>5, SeqEqual
    <2> QED BY <2>6 DEF u, v
  <1>3. ASSUME b <= n + 1 PROVE SubSeq(t, b, n + 1) = Append(SubSeq(s, b, n), c)
    <2> DEFINE u == SubSeq(s, b, n)
               v == SubSeq(t, b, n + 1)
               w == Append(u, c)
               l == n - b + 1
    <2>0. l \in Nat /\ n + 1 - b + 1 = l + 1 /\ b + (l + 1) - 1 = n + 1
          /\ n + 1 \in Nat /\ b <= n + 2
      BY <1>1, <1>3, SMT
    <2>1. /\ u \in Seq(Char) /\ Len(u) = l /\ \A k \in 1..l : u[k] = s[b + k - 1]
      BY <1>1, <1>3, SliceIs
    <2>2. /\ v \in Seq(Char) /\ Len(v) = l + 1
          /\ \A k \in 1..(l + 1) : v[k] = t[b + k - 1]
      BY <1>1, <2>0, SliceIs
    <2>3. /\ w \in Seq(Char) /\ Len(w) = l + 1 /\ w[l + 1] = c
          /\ \A k \in 1..l : w[k] = u[k]
      <3> HIDE DEF u, l
      <3> QED BY <2>1, AppendProperties
    <2>4. \A k \in 1..l : b + k - 1 \in 1..n
      BY <1>1, <1>3, SMT
    <2>5. \A k \in 1..(l + 1) : k \in 1..l \/ k = l + 1
      BY <2>0, SMT
    <2> HIDE DEF u, v, w, l
    <2>6. \A k \in 1..l : v[k] = w[k]
      <3>1. \A k \in 1..l : k \in 1..(l + 1)
        BY <2>0, SMT
      <3> QED BY <1>1, <2>1, <2>2, <2>3, <2>4, <3>1
    <2>7. v[l + 1] = c
      <3>1. l + 1 \in 1..(l + 1)
        BY <2>0, SMT
      <3> QED BY <1>1, <2>0, <2>2, <3>1
    <2>8. \A k \in 1..Len(v) : v[k] = w[k]
      BY <2>2, <2>3, <2>5, <2>6, <2>7
    <2>9. v = w
      BY <2>2, <2>3, <2>8, SeqEqual
    <2> QED BY <2>9 DEF u, v, w
  <1> QED BY <1>2, <1>3

\* A CR that counts lies behind the beginning of its line.
LEMMA BeginBefore ==
    ASSUME NEW s \in Seq(Char), NEW i \in 1..(Len(s) + 1), i - 1 \notin Counts(s)
    PROVE  Begin(s, i) \in Nat /\ Begin(s, i) >= 1 /\ Begin(s, i) <= i
  <1>1. \A j \in Counts(s) : j \in 1..Len(s) /\ Len(s) \in Nat
    BY LenProperties DEF Counts
  <1>2. \A j \in Counts(s) : j # i - 1
    OBVIOUS
  <1>3. /\ Begin(s, i) \in Nat /\ Begin(s, i) >= 1
        /\ \A j \in Counts(s) : j < i => j + 2 <= Begin(s, i)
        /\ Begin(s, i) = 1 \/ \E j \in Counts(s) : j < i /\ Begin(s, i) = j + 2
    BY BeginIs
  <1>4. i \in Nat /\ i >= 1
    BY SMT, LenProperties
  <1>5. CASE Begin(s, i) = 1
    BY <1>3, <1>4, <1>5
  <1>6. ASSUME NEW j \in Counts(s), j < i, Begin(s, i) = j + 2 PROVE Begin(s, i) <= i
    <2>1. j + 2 <= i
      BY <1>1, <1>2, <1>4, <1>6, SMT
    <2> QED BY <1>6, <2>1
  <1> QED BY <1>3, <1>5, <1>6

\* The lines that ended keep their text.
LEMMA LineAppend ==
    ASSUME NEW s \in Seq(Char), NEW c \in Char, NEW t, t = Append(s, c), NEW i \in Counts(s)
    PROVE  Line(t, i) = Line(s, i)
  <1> DEFINE n == Len(s)
             b == Begin(s, i)
  <1>1. i \in 1..n /\ n \in Nat
    BY LenProperties DEF Counts
  <1>2. i - 1 \notin Counts(s)
    BY <1>1, CountsIs
  <1>3. i \in 1..(n + 1) /\ i - 1 \in Nat /\ i - 1 <= n /\ (i - 1) + 1 = i
    BY <1>1, SMT
  <1>4. b \in Nat /\ b >= 1 /\ b <= i
    BY <1>2, <1>3, BeginBefore
  <1>5. Begin(t, i) = b
    <2>1. t = Append(s, c) /\ i \in 1..(n + 1)
      BY <1>3
    <2> QED BY ONLY <2>1, BeginAppend
  <1>6. SubSeq(t, b, i - 1) = SubSeq(s, b, i - 1)
    BY <1>3, <1>4, SliceAppend
  <1> QED BY <1>5, <1>6 DEF Line

\* What it does to the line under way.
TextGrows(s, c, t, n) ==
    /\ n \notin Counts(s) /\ c # CR => Text(t) = Append(Text(s), c)
    /\ n \notin Counts(s) /\ c = CR => Text(t) = Text(s)
    /\ n \in Counts(s) => Text(t) = <<>>

LEMMA TextStep ==
    ASSUME NEW s \in Seq(Char), NEW c \in Char, NEW t, t = Append(s, c),
           NEW n, n = Len(s)
    PROVE  TextGrows(s, c, t, n)
  <1>0. Grows(s, c, t, n)
    BY CountsAppend
  <1>1. /\ t \in Seq(Char) /\ Len(t) = n + 1 /\ n \in Nat
        /\ t[n + 1] = c /\ \A k \in 1..n : t[k] = s[k]
        /\ \A i \in 1..n : i \in Counts(t) <=> i \in Counts(s)
        /\ n + 1 \in Counts(t) <=> c = CR /\ n \notin Counts(s)
        /\ \A i \in Counts(s) : i \in 1..n
        /\ \A i \in Counts(t) : i \in 1..(n + 1)
    BY <1>0 DEF Grows
  <1> DEFINE b == Begin(s, n + 1)
  <1>2. n + 1 \in 1..(n + 1) /\ (n + 1) - 1 = n /\ (n + 1) + 1 = n + 2
        /\ n + 1 \in Nat /\ n + 2 \in 1..(n + 2) /\ n <= n
    BY <1>1, SMT
  <1>3. Begin(t, n + 1) = b
    <2> DEFINE m == n + 1
    <2>1. m \in 1..(n + 1)
      BY <1>2
    <2> HIDE DEF m
    <2>2. Begin(t, m) = Begin(s, m)
      BY <2>1, BeginAppend
    <2> QED BY <2>2 DEF m
  <1>4. n \notin Counts(s) => b \in Nat /\ b >= 1 /\ b <= n + 1
    BY <1>2, BeginBefore
  <1>5. n \notin Counts(s) => Text(s) = SubSeq(s, b, n)
    BY DEF Text
  <1>6. ASSUME n \notin Counts(s), c # CR PROVE Text(t) = Append(Text(s), c)
    <2>1. Begin(t, n + 2) = b
      BY <1>1, <1>2, <1>3, <1>6, BeginNext
    <2>2. Text(t) = SubSeq(t, b, n + 1)
      BY <1>1, <1>2, <1>6, <2>1 DEF Text
    <2>3. SubSeq(t, b, n + 1) = Append(SubSeq(s, b, n), c)
      <3>1. b \in Nat /\ b >= 1 /\ b <= n + 1
        BY <1>4, <1>6
      <3> HIDE DEF b
      <3> QED BY <3>1, SliceAppend
    <2> QED BY <1>5, <1>6, <2>2, <2>3
  <1>7. ASSUME n \notin Counts(s), c = CR PROVE Text(t) = Text(s)
    <2>1. Text(t) = SubSeq(t, b, n)
      BY <1>1, <1>2, <1>3, <1>7 DEF Text
    <2>2. SubSeq(t, b, n) = SubSeq(s, b, n)
      BY <1>1, <1>2, <1>4, <1>7, SliceAppend
    <2> QED BY <1>5, <1>7, <2>1, <2>2
  <1>8. ASSUME n \in Counts(s) PROVE Text(t) = <<>>
    <2> DEFINE e == Begin(t, n + 2)
    <2>1. n \in Counts(t) /\ n + 1 \notin Counts(t)
      BY <1>1, <1>8
    <2>2. Text(t) = SubSeq(t, e, n + 1)
      BY <1>1, <1>2, <2>1 DEF Text
    <2>3. n < n + 2 /\ n + 2 \in 1..(Len(t) + 1)
      BY <1>1, SMT
    <2>4. e \in Nat /\ n + 2 <= e
      BY <1>1, <2>1, <2>3, BeginIs
    <2> HIDE DEF e
    <2>5. e > n + 1
      BY <1>1, <2>4, SMT
    <2> QED BY <1>1, <2>2, <2>4, <2>5, SMT
  <1> QED BY <1>6, <1>7, <1>8 DEF TextGrows

\* A slice of no bytes, and the cut of a line that has one byte more.
LEMMA CutAppend ==
    ASSUME NEW u \in Seq(Char), NEW c \in Char
    PROVE  Cut(Append(u, c)) =
               IF Len(Cut(u)) < MaxSize THEN Append(Cut(u), c) ELSE Cut(u)
  <1> DEFINE n == Len(u)
             t == Append(u, c)
             m == MaxSize
  <1>1. /\ t \in Seq(Char) /\ Len(t) = n + 1 /\ n \in Nat /\ m \in Nat /\ m >= 1
    BY AppendProperties, LenProperties, RingAssumption, SMT
  <1>2. CASE n < m
    <2>1. n + 1 <= m /\ n <= m
      BY <1>1, <1>2, SMT
    <2> QED BY <1>1, <1>2, <2>1 DEF Cut
  <1>3. CASE n = m
    <2>1. ~(n + 1 <= m) /\ n <= m /\ ~(n < m) /\ 1 <= m + 1
      BY <1>1, <1>3, SMT
    <2>2. Cut(t) = SubSeq(t, 1, m) /\ Cut(u) = u
      BY <1>1, <2>1 DEF Cut
    <2>3. SubSeq(t, 1, m) = SubSeq(u, 1, m)
      BY <1>1, <1>3, <2>1, SliceAppend
    <2>4. SubSeq(u, 1, n) = u
      <3>1. /\ SubSeq(u, 1, n) \in Seq(Char) /\ Len(SubSeq(u, 1, n)) = n - 1 + 1
            /\ \A k \in 1..(n - 1 + 1) : SubSeq(u, 1, n)[k] = u[1 + k - 1]
        BY <1>1, <1>3, <2>1, SliceIs
      <3>2. n - 1 + 1 = n /\ \A k \in 1..n : 1 + k - 1 = k
        BY <1>1, SMT
      <3> HIDE DEF n
      <3>3. Len(SubSeq(u, 1, n)) = Len(u) /\ \A k \in 1..Len(u) : SubSeq(u, 1, n)[k] = u[k]
        BY <3>1, <3>2 DEF n
      <3> QED BY <3>1, <3>3, SeqEqual
    <2> QED BY <1>3, <2>1, <2>2, <2>3, <2>4
  <1>4. CASE n > m
    <2>1. ~(n + 1 <= m) /\ ~(n <= m) /\ m <= n /\ 1 <= m + 1 /\ m - 1 + 1 = m /\ ~(m < m)
      BY <1>1, <1>4, SMT
    <2>2. Cut(t) = SubSeq(t, 1, m) /\ Cut(u) = SubSeq(u, 1, m)
      BY <1>1, <2>1 DEF Cut
    <2>3. SubSeq(t, 1, m) = SubSeq(u, 1, m)
      BY <1>1, <2>1, SliceAppend
    <2>4. Len(SubSeq(u, 1, m)) = m
      BY <1>1, <2>1, SliceIs
    <2> QED BY <2>1, <2>2, <2>3, <2>4
  <1> QED BY <1>1, <1>2, <1>3, <1>4, SMT
-----------------------------------------------------------------------------
(***************************************************************************)
(* What the handler holds of the line under way, and what it put into the  *)
(* ring: the lines that ended, each at its place among them.               *)
(***************************************************************************)
\* Until it goes deaf the handler knows whether the last byte is a CR that
\* counts, and holds the text of the line as far as it fits.
Following == ~end => /\ cr <=> Len(seen) \in Counts(seen)
                     /\ buf = Cut(Text(seen))

TypedInv == /\ seen \in Seq(Char) /\ recorded \in Seq(Seq(Char))
            /\ Following /\ RecordedAsTyped

\* The lines that ended before a place, counted.
Rank(d, i) == Cardinality({j \in d : j <= i})

LEMMA RankIs ==
    ASSUME NEW n \in Nat, NEW d \in SUBSET (1..n)
    PROVE  /\ IsFiniteSet(d) /\ Cardinality(d) \in Nat
           /\ \A i \in d : Rank(d, i) \in 1..Cardinality(d)
  <1>1. IsFiniteSet(1..n)
    BY FS_Interval, SMT
  <1>2. IsFiniteSet(d)
    BY <1>1, FS_Subset
  <1>3. Cardinality(d) \in Nat
    BY <1>2, FS_CardinalityType
  <1>4. ASSUME NEW i \in d PROVE Rank(d, i) \in 1..Cardinality(d)
    <2> DEFINE e == {j \in d : j <= i}
    <2>1. e \subseteq d /\ i \in e
      BY <1>4, SMT
    <2>2. IsFiniteSet(e) /\ Cardinality(e) <= Cardinality(d) /\ Cardinality(e) \in Nat
      <3> HIDE DEF e
      <3> QED BY <1>2, <2>1, FS_Subset, FS_CardinalityType
    <2>3. Cardinality(e) # 0
      <3> HIDE DEF e
      <3> QED BY <2>1, <2>2, FS_EmptySet
    <2>4. Rank(d, i) = Cardinality(e)
      BY DEF Rank
    <2> HIDE DEF e
    <2> QED BY <1>3, <2>2, <2>3, <2>4, SMT
  <1> QED BY <1>2, <1>3, <1>4

\* A line that ends behind the others comes last.
LEMMA RankAdd ==
    ASSUME NEW n \in Nat, NEW d \in SUBSET (1..n), NEW m \in Nat, n < m
    PROVE  /\ Cardinality(d \cup {m}) = Cardinality(d) + 1
           /\ Rank(d \cup {m}, m) = Cardinality(d) + 1
           /\ \A i \in d : Rank(d \cup {m}, i) = Rank(d, i)
  <1> DEFINE e == d \cup {m}
  <1>1. IsFiniteSet(d)
    BY RankIs
  <1>2. m \notin d /\ \A j \in d : j <= m
    BY SMT
  <1>3. Cardinality(e) = Cardinality(d) + 1
    BY <1>1, <1>2, FS_AddElement
  <1>4. {j \in e : j <= m} = e
    <2>1. m <= m
      BY SMT
    <2> QED BY <1>2, <2>1
  <1>5. Rank(e, m) = Cardinality(d) + 1
    BY <1>3, <1>4 DEF Rank
  <1>6. ASSUME NEW i \in d PROVE Rank(e, i) = Rank(d, i)
    <2>1. ~(m <= i)
      BY SMT
    <2>2. {j \in e : j <= i} = {j \in d : j <= i}
      BY <2>1
    <2> QED BY <2>2 DEF Rank
  <1> QED BY <1>3, <1>5, <1>6

\* The lines of RecordedAsTyped.
Lines == Ended(seen) \ (IF end THEN {Len(seen) - 1} ELSE {})

LEMMA RecordedIs ==
    RecordedAsTyped <=> /\ Len(recorded) = Cardinality(Lines)
                        /\ \A i \in Lines : recorded[Rank(Lines, i)] = Line(seen, i)
  BY DEF RecordedAsTyped, Lines, Rank

LEMMA TypedInit == Init => TypedInv
  <1> SUFFICES ASSUME Init PROVE TypedInv
    OBVIOUS
  <1>1. /\ seen = <<>> /\ recorded = <<>> /\ buf = <<>> /\ cr = FALSE /\ end = FALSE
    BY DEF Init
  <1>2. /\ <<>> \in Seq(Char) /\ <<>> \in Seq(Seq(Char)) /\ Len(<<>>) = 0
    OBVIOUS
  <1>3. Counts(<<>>) = {}
    <2>1. 1..0 = {}
      BY SMT
    <2> QED BY <1>2, <2>1 DEF Counts
  <1>4. Ended(<<>>) = {}
    BY <1>3 DEF Ended
  <1>5. Lines = {}
    BY <1>1, <1>4 DEF Lines
  <1>6. RecordedAsTyped
    BY <1>1, <1>2, <1>5, RecordedIs, FS_EmptySet
  <1>7. Cut(Text(<<>>)) = <<>>
    <2>1. 1 \in 1..(Len(<<>>) + 1) /\ Len(<<>>) + 1 = 1
      BY <1>2, SMT
    <2>2. Begin(<<>>, 1) = 1
      BY <1>2, <1>3, <2>1, BeginIs
    <2>3. Text(<<>>) = SubSeq(<<>>, 1, 0)
      BY <1>2, <1>3, <2>1, <2>2 DEF Text
    <2>4. SubSeq(<<>>, 1, 0) = <<>>
      BY SMT
    <2> QED BY <1>2, <2>3, <2>4, RingAssumption, SMT DEF Cut
  <1>8. Following
    BY <1>1, <1>2, <1>3, <1>7 DEF Following
  <1> QED BY <1>1, <1>2, <1>6, <1>8 DEF TypedInv

\* A byte that ends no line leaves the lines recorded as they are.
LEMMA LinesStay ==
    ASSUME TypedInv, NEW c \in Char, seen' = Append(seen, c), recorded' = recorded,
           Lines' = Ended(seen), ~end
    PROVE  seen' \in Seq(Char) /\ recorded' \in Seq(Seq(Char)) /\ RecordedAsTyped'
  <1>1. seen \in Seq(Char) /\ recorded \in Seq(Seq(Char)) /\ RecordedAsTyped
    BY DEF TypedInv
  <1>2. seen' \in Seq(Char)
    BY <1>1, AppendProperties
  <1>3. Lines = Ended(seen)
    BY DEF Lines
  <1>4. /\ Len(recorded) = Cardinality(Ended(seen))
        /\ \A i \in Ended(seen) : recorded[Rank(Ended(seen), i)] = Line(seen, i)
    BY <1>1, <1>3, RecordedIs
  <1>5. \A i \in Ended(seen) : Line(seen', i) = Line(seen, i)
    BY <1>1, LineAppend DEF Ended
  <1>6. /\ Len(recorded') = Cardinality(Lines')
        /\ \A i \in Lines' : recorded'[Rank(Lines', i)] = Line(seen', i)
    BY <1>4, <1>5
  <1>7. RecordedAsTyped'
    BY <1>6 DEF RecordedAsTyped, Lines, Rank
  <1> QED BY <1>1, <1>2, <1>7

\* The handler, one byte at a time.
LEMMA TypedHandler ==
    ASSUME TypedInv, RingInv, USART3_IRQHandler
    PROVE  TypedInv'
  <1> DEFINE n == Len(seen)
  <1>1. /\ seen \in Seq(Char) /\ recorded \in Seq(Seq(Char)) /\ RecordedAsTyped /\ Following
        /\ n \in Nat /\ CR \in Char /\ LF \in Char /\ CR # LF
    BY LenProperties, CharAssumption DEF TypedInv
  <1>2. ~end /\ (cr <=> n \in Counts(seen)) /\ buf = Cut(Text(seen))
    BY <1>1 DEF USART3_IRQHandler, Content, StartOver, CarriageReturn, Record, GoDeaf,
                Receive, Following
  <1>3. Text(seen) \in Seq(Char)
    <2>1. CASE n \in Counts(seen)
      <3>1. n \in 1..n /\ n - 1 \notin Counts(seen)
        BY <2>1, <1>1, CountsIs DEF Counts
      <3>2. n \in 1..(n + 1) /\ n - 1 \in Nat /\ n - 1 <= n /\ (n - 1) + 1 = n
        BY <1>1, <3>1, SMT
      <3>3. Begin(seen, n) \in Nat /\ Begin(seen, n) >= 1 /\ Begin(seen, n) <= n
        BY <1>1, <3>1, <3>2, BeginBefore
      <3>4. SubSeq(seen, Begin(seen, n), n - 1) \in Seq(Char)
        BY <1>1, <3>2, <3>3, SliceIs
      <3> QED BY <2>1, <3>4 DEF Text
    <2>2. CASE n \notin Counts(seen)
      <3>1. n + 1 \in 1..(n + 1) /\ (n + 1) - 1 = n /\ n <= n
        BY <1>1, SMT
      <3>2. Begin(seen, n + 1) \in Nat /\ Begin(seen, n + 1) >= 1 /\ Begin(seen, n + 1) <= n + 1
        BY <1>1, <2>2, <3>1, BeginBefore
      <3>3. SubSeq(seen, Begin(seen, n + 1), n) \in Seq(Char)
        BY <1>1, <3>1, <3>2, SliceIs
      <3> QED BY <2>2, <3>3 DEF Text
    <2> QED BY <2>1, <2>2
  <1> HIDE DEF n
  <1>4. ASSUME NEW c \in Char, seen' = Append(seen, c)
        PROVE  /\ Len(seen') \in Counts(seen') <=> c = CR /\ n \notin Counts(seen)
               /\ Ended(seen') = Ended(seen) \cup (IF c = LF /\ n \in Counts(seen)
                                                   THEN {n} ELSE {})
               /\ n \notin Counts(seen) /\ c # CR => Text(seen') = Append(Text(seen), c)
               /\ n \notin Counts(seen) /\ c = CR => Text(seen') = Text(seen)
               /\ n \in Counts(seen) => Text(seen') = <<>>
    <2>1. Grows(seen, c, seen', n)
      BY <1>1, <1>4, CountsAppend DEF n
    <2>2. Len(seen') \in Counts(seen') <=> c = CR /\ n \notin Counts(seen)
      BY <2>1 DEF Grows
    <2>3. Ended(seen') = Ended(seen) \cup (IF c = LF /\ n \in Counts(seen) THEN {n} ELSE {})
      BY <1>1, <1>4, EndedAppend DEF n
    <2>4. TextGrows(seen, c, seen', n)
      BY <1>1, <1>4, TextStep DEF n
    <2> QED BY <2>2, <2>3, <2>4 DEF TextGrows
  <1>5. Cut(<<>>) = <<>>
    <2>1. Len(<<>>) = 0 /\ 0 <= MaxSize
      BY RingAssumption, SMT
    <2> QED BY <2>1 DEF Cut
  <1>6. ASSUME NEW c \in Char, Content(c) PROVE TypedInv'
    <2>1. /\ ~cr /\ c # CR /\ seen' = Append(seen, c) /\ UNCHANGED <<cr, end, recorded>>
          /\ buf' = IF Len(buf) < MaxSize THEN Append(buf, c) ELSE buf
      BY <1>6 DEF Content, Receive
    <2>2. buf' = Cut(Text(seen'))
      <3>1. Text(seen') = Append(Text(seen), c)
        BY <1>2, <1>4, <2>1
      <3> QED BY <1>2, <1>3, <2>1, <3>1, CutAppend
    <2>3. ~(Len(seen') \in Counts(seen')) /\ Ended(seen') = Ended(seen)
      BY <1>2, <1>4, <2>1
    <2>4. Lines' = Ended(seen)
      BY <1>2, <2>1, <2>3 DEF Lines
    <2>5. seen' \in Seq(Char) /\ recorded' \in Seq(Seq(Char)) /\ RecordedAsTyped'
      BY <1>2, <2>1, <2>4, LinesStay
    <2>6. Following'
      BY <2>1, <2>2, <2>3, Zenon DEF Following
    <2> QED BY <2>5, <2>6 DEF TypedInv
  <1>7. ASSUME NEW c \in Char, StartOver(c) PROVE TypedInv'
    <2>1. /\ cr /\ c # LF /\ seen' = Append(seen, c) /\ UNCHANGED <<end, recorded>>
          /\ buf' = <<>> /\ cr' = FALSE
      BY <1>7 DEF StartOver, Receive
    <2>2. buf' = Cut(Text(seen'))
      BY <1>2, <1>4, <1>5, <2>1
    <2>3. ~(Len(seen') \in Counts(seen')) /\ Ended(seen') = Ended(seen)
      BY <1>2, <1>4, <2>1
    <2>4. Lines' = Ended(seen)
      BY <1>2, <2>1, <2>3 DEF Lines
    <2>5. seen' \in Seq(Char) /\ recorded' \in Seq(Seq(Char)) /\ RecordedAsTyped'
      BY <1>2, <2>1, <2>4, LinesStay
    <2>6. Following'
      BY <2>1, <2>2, <2>3, Zenon DEF Following
    <2> QED BY <2>5, <2>6 DEF TypedInv
  <1>8. CASE CarriageReturn
    <2>1. /\ ~cr /\ seen' = Append(seen, CR) /\ UNCHANGED <<buf, end, recorded>> /\ cr' = TRUE
      BY <1>8 DEF CarriageReturn, Receive
    <2>2. buf' = Cut(Text(seen'))
      BY <1>1, <1>2, <1>4, <2>1
    <2>3. Len(seen') \in Counts(seen') /\ Ended(seen') = Ended(seen)
      BY <1>1, <1>2, <1>4, <2>1
    <2>4. Lines' = Ended(seen)
      BY <1>2, <2>1, <2>3 DEF Lines
    <2>5. seen' \in Seq(Char) /\ recorded' \in Seq(Seq(Char)) /\ RecordedAsTyped'
      BY <1>1, <1>2, <2>1, <2>4, LinesStay
    <2>6. Following'
      BY <2>1, <2>2, <2>3, Zenon DEF Following
    <2> QED BY <2>5, <2>6 DEF TypedInv
  <1>9. CASE Record
    <2>1. /\ cr /\ seen' = Append(seen, LF) /\ UNCHANGED end
          /\ recorded' = Append(recorded, buf) /\ buf' = <<>> /\ cr' = FALSE
      BY <1>9 DEF Record, Receive
    <2>2. n \in Counts(seen) /\ buf' = Cut(Text(seen'))
      BY <1>1, <1>2, <1>4, <1>5, <2>1
    <2>3. ~(Len(seen') \in Counts(seen')) /\ Ended(seen') = Ended(seen) \cup {n}
      BY <1>1, <1>2, <1>4, <2>1
    <2>4. Following'
      BY <2>1, <2>2, <2>3, Zenon DEF Following
    <2>5. buf \in Seq(Char) /\ buf = Line(seen, n)
      <3>1. Line(seen, n) = Cut(Text(seen))
        BY <2>2 DEF Line, Text, n
      <3> QED BY <1>2, <3>1 DEF RingInv, TypeOK
    <2> DEFINE d == Ended(seen)
               e == Ended(seen')
               l == Len(recorded)
    <2>6. n - 1 \in Nat /\ n - 1 < n /\ d \in SUBSET (1..(n - 1))
      <3>1. \A i \in d : i \in 1..n /\ i < n
        BY DEF Ended, Counts, n
      <3>2. n \in 1..n
        BY <2>2 DEF Counts, n
      <3> QED BY <1>1, <3>1, <3>2, SMT
    <2>7. Lines = d /\ Lines' = e
      BY <1>2, <2>1 DEF Lines
    <2>8. /\ l = Cardinality(d)
          /\ \A i \in d : recorded[Rank(d, i)] = Line(seen, i)
      BY <1>1, <2>7, RecordedIs
    <2>9. \A i \in d : Rank(d, i) \in 1..l
      BY <2>6, <2>8, RankIs
    <2>10. /\ Cardinality(e) = l + 1 /\ Rank(e, n) = l + 1
           /\ \A i \in d : Rank(e, i) = Rank(d, i)
      <3> HIDE DEF d, e, l
      <3>1. e = d \cup {n}
        BY <2>3 DEF d, e
      <3>2. n \in Nat
        BY <1>1
      <3>3. /\ Cardinality(e) = Cardinality(d) + 1 /\ Rank(e, n) = Cardinality(d) + 1
            /\ \A i \in d : Rank(e, i) = Rank(d, i)
        <4> DEFINE k == n - 1
        <4>1. k \in Nat /\ k < n /\ d \in SUBSET (1..k)
          BY <2>6
        <4> HIDE DEF k
        <4>2. /\ Cardinality(d \cup {n}) = Cardinality(d) + 1
              /\ Rank(d \cup {n}, n) = Cardinality(d) + 1
              /\ \A i \in d : Rank(d \cup {n}, i) = Rank(d, i)
          BY ONLY <3>2, <4>1, RankAdd
        <4> QED BY <3>1, <4>2
      <3> QED BY <2>8, <3>3
    <2>11. /\ recorded' \in Seq(Seq(Char)) /\ Len(recorded') = l + 1 /\ recorded'[l + 1] = buf
           /\ \A k \in 1..l : recorded'[k] = recorded[k]
      BY <1>1, <2>1, <2>5, AppendProperties
    <2>12. \A i \in Counts(seen) : Line(seen', i) = Line(seen, i)
      BY <1>1, <2>1, LineAppend
    <2>13. ASSUME NEW i \in e PROVE recorded'[Rank(e, i)] = Line(seen', i)
      <3>1. CASE i = n
        BY <2>2, <2>5, <2>10, <2>11, <2>12, <3>1
      <3>2. CASE i \in d
        <4>1. i \in Counts(seen)
          BY <3>2 DEF Ended
        <4> HIDE DEF d, e, l
        <4> QED BY <2>8, <2>9, <2>10, <2>11, <2>12, <3>2, <4>1
      <3> QED BY <2>3, <3>1, <3>2
    <2>14. /\ Len(recorded') = Cardinality(Lines')
           /\ \A i \in Lines' : recorded'[Rank(Lines', i)] = Line(seen', i)
      BY <2>7, <2>10, <2>11, <2>13
    <2>15. RecordedAsTyped'
      BY <2>14 DEF RecordedAsTyped, Lines, Rank
    <2>16. seen' \in Seq(Char)
      BY <1>1, <2>1, AppendProperties
    <2> QED BY <2>4, <2>11, <2>15, <2>16 DEF TypedInv
  <1>10. CASE GoDeaf
    <2>1. /\ cr /\ seen' = Append(seen, LF) /\ recorded' = recorded /\ end' = TRUE
      BY <1>10 DEF GoDeaf, Receive
    <2>2. Ended(seen') = Ended(seen) \cup {n}
      BY <1>1, <1>2, <1>4, <2>1
    <2>3. Len(seen') - 1 = n /\ n \notin Ended(seen)
      <3>1. Grows(seen, LF, seen', n)
        BY <1>1, <2>1, CountsAppend DEF n
      <3>2. Len(seen') = n + 1
        BY <3>1 DEF Grows
      <3>3. ~(n < n)
        BY <1>1, SMT
      <3> QED BY <1>1, <3>2, <3>3, SMT DEF Ended, n
    <2>4. Lines' = Ended(seen)
      BY <2>1, <2>2, <2>3 DEF Lines
    <2>5. seen' \in Seq(Char) /\ recorded' \in Seq(Seq(Char)) /\ RecordedAsTyped'
      BY <1>1, <1>2, <2>1, <2>4, LinesStay
    <2>6. Following'
      BY <2>1 DEF Following
    <2> QED BY <2>5, <2>6 DEF TypedInv
  <1> QED BY <1>6, <1>7, <1>8, <1>9, <1>10 DEF USART3_IRQHandler

\* Nothing else writes what the handler keeps.
LEMMA TypedCalm ==
    ASSUME TypedInv, UNCHANGED <<rx, seen, recorded>>
    PROVE  TypedInv'
  BY DEF TypedInv, Following, RecordedAsTyped, rx

\* USART3_IRQHandler: for every stream of bytes the ring has received exactly
\* the lines in it, in order, each cut at COMMAND_MAX_SIZE, up to the one that
\* found the ring full.
THEOREM LinesAsTyped == Spec => []RecordedAsTyped
  <1>1. Init => TypedInv
    BY TypedInit
  <1>2. TypedInv /\ RingInv /\ [Next]_vars => TypedInv'
    <2> SUFFICES ASSUME TypedInv, RingInv, [Next]_vars PROVE TypedInv'
      OBVIOUS
    <2>1. CASE USART3_IRQHandler
      BY <2>1, TypedHandler
    <2>2. CASE Main
      <3>1. UNCHANGED <<rx, seen, recorded>>
        BY <2>2 DEF Main, OnConsoleCommand, Waiting, NoneWaiting, Take, LoadCnt, StoreCnt,
                    history
      <3> QED BY <3>1, TypedCalm
    <2>3. CASE UNCHANGED vars
      <3>1. UNCHANGED <<rx, seen, recorded>>
        BY <2>3 DEF vars, rx
      <3> QED BY <3>1, TypedCalm
    <2> QED BY <2>1, <2>2, <2>3 DEF Next
  <1>3. TypedInv => RecordedAsTyped
    BY DEF TypedInv
  <1> QED BY <1>1, <1>2, <1>3, RingInvariant, PTL DEF Spec
=============================================================================
