------------------------ MODULE MsgInterface_proofs ------------------------
(***************************************************************************)
(* The message queue for every queue length, every depth of interrupt      *)
(* nesting and every set of publishers, interrupts taken anywhere.         *)
(***************************************************************************)
EXTENDS MsgInterface, SequenceTheorems, FiniteSetTheorems, TLAPS

\* The initial pair and all published ones have a known code and parameter.
LEMMA MessageFields ==
    ASSUME NEW m \in Message
    PROVE  m \in [msg : Code, para : Para]
<1>1. PICK c \in Ctx : m \in Pub[c]
  BY DEF Message
<1>2. m \in [msg : Nat, para : Nat]
  BY <1>1, PubAssumption
<1>3. m.msg \in Code /\ m.para \in Para
  BY DEF Code, Para
<1> QED
  BY <1>2, <1>3

LEMMA ZeroFields == ZeroMsg \in Message /\ ZeroMsg \in [msg : Code, para : Para]
BY PubAssumption, MessageFields

\* Writing one field of a slot keeps the list's type.
LEMMA StoreField ==
    ASSUME msgList \in [Slot -> [msg : Code, para : Para]],
           NEW i \in Slot, NEW m \in Message
    PROVE  /\ [msgList EXCEPT ![i].msg = m.msg] \in [Slot -> [msg : Code, para : Para]]
           /\ [msgList EXCEPT ![i].para = m.para] \in [Slot -> [msg : Code, para : Para]]
<1>1. m.msg \in Code /\ m.para \in Para
  BY MessageFields
<1> QED
  BY <1>1

LEMMA NextSlot ==
    ASSUME NEW i \in Slot
    PROVE  (i + 1) % N \in Slot
BY SizeAssumption DEF Slot
-----------------------------------------------------------------------------
LEMMA TypeInit == Init => TypeOK
<1> SUFFICES ASSUME Init
             PROVE  TypeOK
  OBVIOUS
<1>1. /\ iMsgPush \in Slot /\ iMsgPull \in Slot
      /\ nMsg \in 0..(U32 - 1) /\ reg \in [Ctx -> 0..(U32 - 1)]
  BY SizeAssumption, WidthAssumption DEF Init, Slot
<1>2. raced \in BOOLEAN
  BY DEF Init
<1> QED
  BY <1>1, <1>2, ZeroFields DEF Init, TypeOK, Points, GetPoints

\* One load or store of publishMsg, in any context.
LEMMA TypePublish ==
    ASSUME TypeOK, NEW c \in Ctx, Publish(c)
    PROVE  TypeOK'
<1> USE DEF TypeOK, Goto, Load, ring, record, Points, PublishPoints, GetPoints
<1>1. CASE Refuse(c)
  BY <1>1, ZeroFields, WidthAssumption DEF Refuse, Return
<1>2. CASE Accept(c)
  BY <1>2 DEF Accept
<1>3. CASE SlotMsg(c)
  BY <1>3, SizeAssumption, WidthAssumption DEF SlotMsg, Slot
<1>4. CASE PutMsg(c)
  <2>1. reg[c] \in Slot /\ arg[c] \in Message
    BY <1>4 DEF PutMsg, At
  <2>2. msgList' \in [Slot -> [msg : Code, para : Para]]
    BY <1>4, <2>1, StoreField DEF PutMsg
  <2> QED
    BY <1>4, <2>2 DEF PutMsg
<1>5. CASE SlotPara(c)
  BY <1>5, SizeAssumption, WidthAssumption DEF SlotPara, Slot
<1>6. CASE PutPara(c)
  <2>1. reg[c] \in Slot /\ arg[c] \in Message
    BY <1>6 DEF PutPara, At
  <2>2. msgList' \in [Slot -> [msg : Code, para : Para]]
    BY <1>6, <2>1, StoreField DEF PutPara
  <2> QED
    BY <1>6, <2>2 DEF PutPara
<1>7. CASE LoadPush(c)
  BY <1>7, SizeAssumption, WidthAssumption DEF LoadPush, Slot
<1>8. CASE StorePush(c)
  <2>1. iMsgPush' \in Slot
    BY <1>8, NextSlot DEF StorePush, At
  <2> QED
    BY <1>8, <2>1 DEF StorePush
<1>9. CASE LoadCount(c)
  BY <1>9 DEF LoadCount
<1>10. CASE StoreCount(c)
  BY <1>10, ZeroFields, WidthAssumption, SizeAssumption DEF StoreCount, Return, Inc
<1> QED
  BY <1>1, <1>2, <1>3, <1>4, <1>5, <1>6, <1>7, <1>8, <1>9, <1>10 DEF Publish

\* One step of main()'s polling.
LEMMA TypeMain ==
    ASSUME TypeOK, Main
    PROVE  TypeOK'
<1> USE DEF TypeOK, Goto, Load, ring, record, Points, PublishPoints, GetPoints
<1>0. 0 \in Ctx
  BY SizeAssumption DEF Ctx
<1>1. CASE Poll
  BY <1>0, <1>1 DEF Poll
<1>2. CASE Empty
  BY <1>0, <1>2 DEF Empty
<1>3. CASE Pending
  BY <1>0, <1>3 DEF Pending
<1>4. CASE GetMsg
  BY <1>0, <1>4 DEF GetMsg
<1>5. CASE GetPara
  BY <1>0, <1>5 DEF GetPara
<1>6. CASE IncPull
  <2>1. iMsgPull' \in Slot
    BY <1>6, NextSlot DEF IncPull
  <2> QED
    BY <1>0, <1>6, <2>1 DEF IncPull
<1>7. CASE LoadDec
  BY <1>0, <1>7 DEF LoadDec
<1>8. CASE StoreDec
  BY <1>0, <1>8, WidthAssumption, SizeAssumption DEF StoreDec, Dec
<1>9. CASE Handled
  BY <1>0, <1>9, ZeroFields, WidthAssumption DEF Handled, Return
<1>10. CASE \E m \in Pub[0] : ReportLink(m)
  <2>1. PICK m \in Pub[0] : ReportLink(m)
    BY <1>10
  <2>2. m \in Message
    BY <1>0 DEF Message
  <2> QED
    BY <1>0, <2>1, <2>2 DEF ReportLink
<1> QED
  BY <1>1, <1>2, <1>3, <1>4, <1>5, <1>6, <1>7, <1>8, <1>9, <1>10 DEF Main

LEMMA TypeInterrupt ==
    ASSUME TypeOK, NEW c \in Ctx, NEW m \in Pub[c], Interrupt(c, m)
    PROVE  TypeOK'
<1>1. m \in Message
  BY DEF Message
<1> QED
  BY <1>1 DEF TypeOK, Interrupt, Goto, ring, record, Points, PublishPoints, GetPoints

\* Every index publishMsg and getNextMsg use stays inside msgList, and every
\* stored pair has the fields of published ones, whatever interrupts whatever.
THEOREM TypeCorrect == Spec => []TypeOK
<1>1. TypeOK /\ [Next]_vars => TypeOK'
  <2> SUFFICES ASSUME TypeOK, [Next]_vars
               PROVE  TypeOK'
    OBVIOUS
  <2>1. CASE \E c \in Ctx : Publish(c)
    BY <2>1, TypePublish
  <2>2. CASE Main
    BY <2>2, TypeMain
  <2>3. CASE \E c \in Ctx : \E m \in Pub[c] : Interrupt(c, m)
    BY <2>3, TypeInterrupt
  <2>4. CASE UNCHANGED vars
    BY <2>4 DEF TypeOK, vars
  <2> QED
    BY <2>1, <2>2, <2>3, <2>4 DEF Next
<1> QED
  BY TypeInit, <1>1, PTL DEF Spec
-----------------------------------------------------------------------------
LEMMA CountInit == Init => CountInv
BY SizeAssumption DEF Init, CountInv, Armed, PublishPoints, Ctx

\* A step of publishMsg.  The one that matters is the store of line 34: the
\* contexts it interrupted are less urgent, so their allowance is larger by
\* at least one; the more urgent ones are idle.
LEMMA CountPublish ==
    ASSUME TypeOK, CountInv, NEW c \in Ctx, Publish(c)
    PROVE  CountInv'
<1> USE SizeAssumption DEF TypeOK, CountInv, Armed, PublishPoints, Ctx, Goto, ring
<1>1. CASE Refuse(c)
  BY <1>1 DEF Refuse, Return, Load, At
<1>2. CASE Accept(c)
  BY <1>2 DEF Accept, At
<1>3. CASE SlotMsg(c)
  BY <1>3 DEF SlotMsg, Load, At
<1>4. CASE PutMsg(c)
  BY <1>4 DEF PutMsg, At
<1>5. CASE SlotPara(c)
  BY <1>5 DEF SlotPara, Load, At
<1>6. CASE PutPara(c)
  BY <1>6 DEF PutPara, At
<1>7. CASE LoadPush(c)
  BY <1>7 DEF LoadPush, Load, At
<1>8. CASE StorePush(c)
  <2>1. /\ pc[c] = "storePush" /\ nMsg' = nMsg /\ reg' = reg
        /\ pc' = [pc EXCEPT ![c] = "loadCount"]
    BY <1>8 DEF StorePush, At
  <2> QED
    BY <2>1
<1>9. CASE LoadCount(c)
  BY <1>9 DEF LoadCount, Load, At
<1>10. CASE StoreCount(c)
  <2>1. /\ pc[c] = "storeCount"
        /\ \A d \in Ctx : d > c => pc[d] = "idle"
    BY <1>10 DEF StoreCount, At, Runs
  <2>2. reg[c] \in Nat /\ reg[c] <= N - 1 + (Top - c)
    BY <2>1, WidthAssumption
  <2>3. nMsg' = reg[c] + 1
    BY <1>10, <2>2, WidthAssumption DEF StoreCount, Inc
  <2>4. \A d \in Ctx : pc'[d] \in Armed => d < c /\ pc[d] \in Armed
    BY <1>10, <2>1 DEF StoreCount, Return
  <2>5. \A d \in Ctx : pc'[d] \in Armed => nMsg' <= N - 1 + (Top - d)
    BY <2>2, <2>3, <2>4
  <2>6. \A d \in Ctx : pc'[d] = "storeCount" => reg'[d] <= N - 1 + (Top - d)
    BY <1>10, <2>4 DEF StoreCount, Return, Load
  <2>7. pc'[0] = "storeDec" => reg'[0] > 0 /\ reg'[0] <= N + Top
    BY <1>10, <2>1 DEF StoreCount, Return, Load
  <2> QED
    BY <2>2, <2>3, <2>5, <2>6, <2>7
<1> QED
  BY <1>1, <1>2, <1>3, <1>4, <1>5, <1>6, <1>7, <1>8, <1>9, <1>10 DEF Publish

\* A step of main().  When it stores the decremented count every handler is
\* idle, so no armed context can be harmed.
LEMMA CountMain ==
    ASSUME TypeOK, CountInv, Main
    PROVE  CountInv'
<1> USE SizeAssumption DEF TypeOK, CountInv, Armed, PublishPoints, Ctx, Goto, ring
<1>1. CASE Poll
  BY <1>1 DEF Poll, At
<1>2. CASE Empty
  BY <1>2 DEF Empty, At
<1>3. CASE Pending
  BY <1>3 DEF Pending, At
<1>4. CASE GetMsg
  BY <1>4 DEF GetMsg, At
<1>5. CASE GetPara
  BY <1>5 DEF GetPara, At
<1>6. CASE IncPull
  BY <1>6 DEF IncPull, At
<1>7. CASE LoadDec
  BY <1>7 DEF LoadDec, Load, At
<1>8. CASE StoreDec
  <2>1. /\ pc[0] = "storeDec"
        /\ \A d \in Ctx : d > 0 => pc[d] = "idle"
    BY <1>8 DEF StoreDec, At, Runs
  <2>2. nMsg' = reg[0] - 1 /\ reg[0] \in Nat
    BY <1>8, <2>1, WidthAssumption DEF StoreDec, Dec
  <2>3. \A d \in Ctx : pc'[d] \notin Armed
    BY <1>8, <2>1 DEF StoreDec
  <2> QED
    BY <1>8, <2>1, <2>2, <2>3 DEF StoreDec
<1>9. CASE Handled
  BY <1>9 DEF Handled, Return, Load, At
<1>10. CASE \E m \in Pub[0] : ReportLink(m)
  BY <1>10 DEF ReportLink, At
<1> QED
  BY <1>1, <1>2, <1>3, <1>4, <1>5, <1>6, <1>7, <1>8, <1>9, <1>10 DEF Main

LEMMA CountStep == TypeOK /\ CountInv /\ [Next]_vars => CountInv'
<1> SUFFICES ASSUME TypeOK, CountInv, [Next]_vars
             PROVE  CountInv'
  OBVIOUS
<1>1. CASE \E c \in Ctx : Publish(c)
  BY <1>1, CountPublish
<1>2. CASE Main
  BY <1>2, CountMain
<1>3. CASE \E c \in Ctx : \E m \in Pub[c] : Interrupt(c, m)
  BY <1>3, SizeAssumption
     DEF Interrupt, TypeOK, CountInv, Armed, PublishPoints, Ctx, Goto, ring, At
<1>4. CASE UNCHANGED vars
  BY <1>4 DEF vars, CountInv, Armed
<1> QED
  BY <1>1, <1>2, <1>3, <1>4 DEF Next

\* The strengthened bound on the count is an invariant of the code.
THEOREM CountInvariant == Spec => []CountInv
<1> QED
  BY TypeCorrect, CountInit, CountStep, PTL DEF Spec

\* However publishMsg calls nest, nMsg exceeds MSG_MAX_LEN by at most one for
\* each level of interrupt nesting.
THEOREM CountBounded == Spec => []CountBound
<1>1. CountInv => CountBound
  BY DEF CountInv, CountBound
<1> QED
  BY CountInvariant, <1>1, PTL

\* nMsg-- in getNextMsg never wraps below zero.
THEOREM NeverUnderflows == Spec => []NoUnderflow
<1>1. CountInv => NoUnderflow
  BY DEF CountInv, NoUnderflow
<1> QED
  BY CountInvariant, <1>1, PTL
-----------------------------------------------------------------------------
(***************************************************************************)
(* The queue as a FIFO, with interrupts anywhere, until a handler          *)
(* publishes inside a window of a call it interrupted.                     *)
(***************************************************************************)

\* The slot of the k-th pair after the oldest; Nth(Held) is the first free one.
Nth(k) == (Oldest + k) % N

\* The calls that saw room and have not counted.
Open == {c \in Ctx : pc[c] \in Armed}

\* Whoever interrupted a call inside a window has not passed the check.
Alone == \A c \in Ctx : pc[c] \in Window
                           => \A d \in Ctx : d > c => pc[d] \in {"idle", "check"}

\* What context c has done so far of its call: what it loaded is still so, and
\* the fields it wrote are in the slot it is filling.
Writing(c) ==
    /\ pc[c] \in {"putMsg", "putPara", "storePush"} => reg[c] = iMsgPush
    /\ pc[c] \in {"slotPara", "putPara"} => msgList[Nth(Held)].msg = arg[c].msg
    /\ pc[c] \in {"loadPush", "storePush"} => msgList[Nth(Held)] = arg[c]
    /\ pc[c] = "storeCount" => reg[c] = nMsg

\* What main() has read so far of the oldest pair.
Taking ==
    /\ pc[0] \in {"getMsg", "getPara", "incPull", "loadDec", "storeDec"} => nMsg > 0
    /\ pc[0] = "getPara" => out.msg = msgList[Nth(0)].msg
    /\ pc[0] \in {"incPull", "loadDec", "storeDec"} => out = msgList[Nth(0)]
    /\ pc[0] = "storeDec" => reg[0] = nMsg

\* Every call that saw room still has it.
FifoInv == /\ Alone
           /\ nMsg + Cardinality(Open) <= N
           /\ iMsgPush = Nth(Held)
           /\ \A c \in Ctx : Writing(c)
           /\ Taking

LEMMA SetCount == \A S \in SUBSET Ctx : IsFiniteSet(S) /\ Cardinality(S) \in Nat
<1>1. IsFiniteSet(Ctx)
  BY FS_Interval, SizeAssumption DEF Ctx
<1> QED
  BY <1>1, FS_Subset, FS_CardinalityType

LEMMA OneMore ==
    ASSUME NEW S \in SUBSET Ctx, NEW c \in Ctx, c \notin S
    PROVE  Cardinality(S \cup {c}) = Cardinality(S) + 1
BY SetCount, FS_AddElement

\* What is held fits the ring, and leaves a slot to a call that saw room and
\* has not yet pushed.
LEMMA HeldFits ==
    ASSUME TypeOK, nMsg + Cardinality(Open) <= N
    PROVE  /\ N \in Nat /\ N > 0 /\ nMsg \in Nat
           /\ Held \in Nat /\ nMsg <= Held /\ Held <= N
           /\ \A c \in Ctx : pc[c] \in Armed \ {"loadCount", "storeCount"} => Held < N
<1>1. N \in Nat /\ N > 0 /\ nMsg \in Nat
  BY SizeAssumption, WidthAssumption DEF TypeOK
<1>2. Uncounted \subseteq Open /\ Open \in SUBSET Ctx /\ Uncounted \in SUBSET Ctx
  BY DEF Uncounted, Open, Armed, PublishPoints
<1>3. /\ IsFiniteSet(Open) /\ Cardinality(Open) \in Nat
      /\ Cardinality(Uncounted) \in Nat /\ Cardinality(Uncounted) <= Cardinality(Open)
  BY <1>2, SetCount, FS_Subset
<1>4. Held \in Nat /\ nMsg <= Held /\ Held <= N
  BY <1>1, <1>3 DEF Held
<1>5. ASSUME NEW c \in Ctx, pc[c] \in Armed \ {"loadCount", "storeCount"}
      PROVE  Held < N
  <2>1. c \notin Uncounted /\ Uncounted \cup {c} \subseteq Open
    BY <1>2, <1>5 DEF Uncounted, Open
  <2>2. Cardinality(Uncounted \cup {c}) = Cardinality(Uncounted) + 1
    BY <1>2, <2>1, OneMore
  <2>3. Cardinality(Uncounted \cup {c}) <= Cardinality(Open)
    BY <1>3, <2>1, FS_Subset
  <2> QED
    BY <1>1, <1>3, <2>2, <2>3 DEF Held
<1> QED
  BY <1>1, <1>4, <1>5

LEMMA OldestInt == TypeOK => Oldest \in Int /\ -1 <= Oldest /\ Oldest < N /\ N \in Nat /\ N > 0
BY SizeAssumption DEF TypeOK, Slot, Oldest

LEMMA NthSlot ==
    ASSUME TypeOK, NEW k \in Nat
    PROVE  Nth(k) \in Slot
BY OldestInt DEF Nth, Slot

LEMMA NthNext ==
    ASSUME TypeOK, NEW k \in 0..(N - 1)
    PROVE  Nth(k + 1) = (Nth(k) + 1) % N
<1>1. Oldest \in Int /\ -1 <= Oldest /\ Oldest < N
  BY OldestInt
<1> QED
  BY <1>1, SizeAssumption DEF Nth

\* Two pairs of a queue share no slot, and neither does the first free one.
LEMMA NthDistinct ==
    ASSUME TypeOK, NEW j \in 0..N, NEW k \in 0..N, j < k, k < N
    PROVE  Nth(j) # Nth(k)
BY OldestInt DEF Nth

LEMMA ContentsNth ==
    ASSUME TypeOK, Held \in Nat
    PROVE  /\ Contents = [i \in 1..Held |-> msgList[Nth(i - 1)]]
           /\ Contents \in Seq([msg : Code, para : Para])
           /\ Len(Contents) = Held
<1>1. \A i \in 1..Held : i - 1 \in Nat /\ (Oldest + i - 1) % N = Nth(i - 1)
  BY OldestInt DEF Nth
<1>2. Contents = [i \in 1..Held |-> msgList[Nth(i - 1)]]
  BY <1>1 DEF Contents
<1>3. \A i \in 1..Held : msgList[Nth(i - 1)] \in [msg : Code, para : Para]
  BY <1>1, NthSlot DEF TypeOK
<1> DEFINE S == [msg : Code, para : Para]
<1>4. Contents \in [1..Held -> S]
  BY <1>2, <1>3
<1> HIDE DEF S
<1>5. Contents \in Seq(S) /\ Len(Contents) = Held
  BY ONLY <1>4, Held \in Nat
<1> QED
  BY <1>2, <1>5 DEF S

\* A race is never forgotten.
LEMMA RacedStays == [Next]_vars /\ raced => raced'
BY DEF Next, Publish, Main, Interrupt, Refuse, Accept, SlotMsg, PutMsg, SlotPara, PutPara,
       LoadPush, StorePush, LoadCount, StoreCount, Poll, Empty, Pending, GetMsg, GetPara,
       IncPull, LoadDec, StoreDec, Handled, ReportLink, vars, record

\* A refused call leaves everything as it was.
LEMMA RefuseQuiet ==
    ASSUME TypeOK, FifoInv, NEW c \in Ctx, Refuse(c)
    PROVE  FifoInv' /\ Contents' = Contents /\ delivered' = delivered
<1>1. /\ pc[c] = "check" /\ pc'[c] = "idle" /\ \A d \in Ctx : d # c => pc'[d] = pc[d]
      /\ \A d \in Ctx : d # c => reg'[d] = reg[d] /\ arg'[d] = arg[d]
      /\ UNCHANGED <<ring, out, delivered>>
  BY DEF Refuse, Return, At, Goto, Load, TypeOK, record
<1>2. /\ UNCHANGED <<msgList, iMsgPush, iMsgPull, nMsg, out, delivered>>
      /\ 0 \in Ctx
  BY <1>1, SizeAssumption DEF ring, Ctx
<1>3. /\ Uncounted' = Uncounted /\ Open' = Open
  BY <1>1 DEF Uncounted, Open, Armed, PublishPoints
<1>4. Oldest' = Oldest
  BY <1>1, <1>2 DEF Oldest
<1>5. Held' = Held /\ (\A k : Nth(k)' = Nth(k)) /\ Nth(Held)' = Nth(Held)
  BY <1>2, <1>3, <1>4 DEF Held, Nth
<1>6. Contents' = Contents
  BY <1>2, <1>4, <1>5 DEF Contents
<1>7. Alone'
  BY <1>1 DEF FifoInv, Alone, Window
<1>8. \A d \in Ctx : Writing(d)'
  BY <1>1, <1>2, <1>5 DEF FifoInv, Writing
<1>9. Nth(0)' = Nth(0)
  BY <1>4 DEF Nth
<1>10. Taking'
  BY <1>1, <1>2, <1>9 DEF FifoInv, Taking
<1> QED
  BY <1>2, <1>3, <1>5, <1>6, <1>7, <1>8, <1>10 DEF FifoInv

\* Any other step of publishMsg before a race: no other call is inside a
\* window, and main()'s side of the queue is left alone.
LEMMA PublishFrame ==
    ASSUME TypeOK, FifoInv, NEW c \in Ctx, Publish(c), ~Refuse(c), ~raced'
    PROVE  /\ pc[c] \in PublishPoints
           /\ pc'[c] \in PublishPoints \cup {"idle"}
           /\ \A d \in Ctx : d # c => /\ pc'[d] = pc[d]
                                      /\ pc[d] \notin Window
                                      /\ Writing(d)'
           /\ Alone'
           /\ Oldest' = Oldest
           /\ UNCHANGED <<iMsgPull, out, delivered>>
<1>1. /\ pc[c] \in PublishPoints /\ Runs(c)
      /\ pc[c] = "check" => ~Overlap
      /\ \E p \in PublishPoints \cup {"idle"} : Goto(c, p)
      /\ UNCHANGED <<iMsgPull, out, delivered>>
  BY DEF Publish, Accept, SlotMsg, PutMsg, SlotPara, PutPara, LoadPush,
         StorePush, LoadCount, StoreCount, Return, At, PublishPoints, ring, record
<1>2. PICK p \in PublishPoints \cup {"idle"} : Goto(c, p)
  BY <1>1
<1>3. pc'[c] = p /\ \A d \in Ctx : d # c => pc'[d] = pc[d]
  BY <1>2 DEF TypeOK, Goto
<1>4. \A d \in Ctx : d > c => pc[d] = "idle"
  BY <1>1 DEF Runs
<1>5. \A d \in Ctx : d # c => pc[d] \notin Window
  <2>1. CASE pc[c] = "check"
    BY <1>1, <2>1 DEF Overlap
  <2>2. CASE pc[c] # "check"
    <3>1. pc[c] \notin {"idle", "check"}
      BY <1>1, <2>2 DEF PublishPoints
    <3>2. \A d \in Ctx : c > d => pc[d] \notin Window
      BY <3>1 DEF FifoInv, Alone
    <3>3. \A d \in Ctx : d # c => d > c \/ c > d
      BY SizeAssumption DEF Ctx
    <3> QED
      BY <1>4, <3>2, <3>3 DEF Window
  <2> QED
    BY <2>1, <2>2
<1>6. \A d \in Ctx : d # c => Writing(d)'
  BY <1>3, <1>5 DEF Writing, Window
<1>7. Alone'
  BY <1>3, <1>4, <1>5, SizeAssumption DEF Alone, Ctx
<1>8. Oldest' = Oldest
  BY <1>1, <1>3, SizeAssumption DEF Oldest, PublishPoints, Ctx
<1> QED
  BY <1>1, <1>3, <1>5, <1>6, <1>7, <1>8

\* Writing the first free slot leaves the queue as it is.
LEMMA WriteFrame ==
    ASSUME TypeOK, Held \in Nat, Held < N, Oldest' = Oldest, Held' = Held,
           \A i \in Slot : i # Nth(Held) => msgList'[i] = msgList[i]
    PROVE  /\ Held > 0 => msgList'[Nth(0)] = msgList[Nth(0)]
           /\ Contents' = Contents
<1>1. Oldest \in Int /\ N \in Nat
  BY OldestInt
<1>2. ASSUME NEW k \in 0..(Held - 1)
      PROVE  msgList'[Nth(k)] = msgList[Nth(k)]
  <2>1. k \in Nat /\ k \in 0..N /\ k < Held /\ Held \in 0..N
    BY <1>1
  <2>2. Nth(k) \in Slot /\ Nth(k) # Nth(Held)
    BY <2>1, NthSlot, NthDistinct
  <2> QED
    BY <2>2
<1>3. ASSUME NEW i \in 1..Held
      PROVE  msgList'[(Oldest + i - 1) % N] = msgList[(Oldest + i - 1) % N]
  <2>1. i - 1 \in 0..(Held - 1) /\ Oldest + (i - 1) = Oldest + i - 1
    BY <1>1
  <2>2. Nth(i - 1) = (Oldest + i - 1) % N
    BY <2>1 DEF Nth
  <2> QED
    BY <2>1, <2>2, <1>2
<1>4. Contents' = Contents
  BY <1>3 DEF Contents
<1>5. Held > 0 => 0 \in 0..(Held - 1)
  OBVIOUS
<1> QED
  BY <1>2, <1>4, <1>5

\* Until it stores iMsgPush, a step of publishMsg leaves the queue as it is and
\* keeps the invariant; so does the load of the count.
LEMMA PublishQuiet ==
    ASSUME TypeOK, FifoInv, NEW c \in Ctx, Publish(c), ~Refuse(c), ~StorePush(c),
           ~StoreCount(c), ~raced'
    PROVE  FifoInv' /\ Contents' = Contents /\ delivered' = delivered
<1>1. /\ pc[c] \in PublishPoints
      /\ pc'[c] \in PublishPoints \cup {"idle"}
      /\ \A d \in Ctx : d # c => /\ pc'[d] = pc[d]
                                 /\ pc[d] \notin Window
                                 /\ Writing(d)'
      /\ Alone'
      /\ Oldest' = Oldest
      /\ UNCHANGED <<iMsgPull, out, delivered>>
  BY PublishFrame
<1>2. nMsg' = nMsg /\ iMsgPush' = iMsgPush
  BY DEF Publish, Accept, SlotMsg, PutMsg, SlotPara, PutPara, LoadPush, LoadCount, ring
<1>3. Writing(c)
  BY DEF FifoInv
<1>4. Uncounted' = Uncounted
  <2>1. pc'[c] \in {"loadCount", "storeCount"} <=> pc[c] \in {"loadCount", "storeCount"}
    BY <1>1 DEF Publish, Accept, SlotMsg, PutMsg, SlotPara, PutPara, LoadPush, LoadCount,
                At, Goto, TypeOK
  <2> QED
    BY <1>1, <2>1 DEF Uncounted
<1>5. Held' = Held /\ Nth(Held)' = Nth(Held) /\ Nth(0)' = Nth(0)
  BY <1>1, <1>2, <1>4 DEF Held, Nth
<1>6. /\ Held \in Nat /\ nMsg \in Nat /\ N \in Nat /\ nMsg <= Held
      /\ pc[c] \in {"putMsg", "putPara"} => Held < N
      /\ iMsgPush = Nth(Held) /\ Nth(Held) \in Slot
  BY HeldFits, NthSlot DEF FifoInv, Armed, PublishPoints
<1>7. \A i \in Slot : i # Nth(Held) => msgList'[i] = msgList[i]
  <2>1. CASE PutMsg(c)
    BY <2>1, <1>3, <1>6 DEF PutMsg, At, Writing, TypeOK
  <2>2. CASE PutPara(c)
    BY <2>2, <1>3, <1>6 DEF PutPara, At, Writing, TypeOK
  <2> QED
    BY <2>1, <2>2 DEF Publish, Accept, SlotMsg, SlotPara, LoadPush, LoadCount, ring
<1>8. ~(PutMsg(c) \/ PutPara(c)) => msgList' = msgList
  BY DEF Publish, Accept, SlotMsg, SlotPara, LoadPush, LoadCount, ring
<1>9. /\ Contents' = Contents
      /\ nMsg > 0 => msgList'[Nth(0)] = msgList[Nth(0)]
  <2>1. CASE PutMsg(c) \/ PutPara(c)
    <3>1. Held < N
      BY <1>6, <2>1 DEF PutMsg, PutPara, At
    <3> QED
      BY <3>1, <1>1, <1>5, <1>6, <1>7, WriteFrame
  <2>2. CASE ~(PutMsg(c) \/ PutPara(c))
    BY <2>2, <1>1, <1>5, <1>8 DEF Contents
  <2> QED
    BY <2>1, <2>2
<1>10. Taking'
  <2>1. CASE c = 0
    BY <2>1, <1>1 DEF Taking, PublishPoints
  <2>2. CASE c # 0
    <3>1. 0 \in Ctx /\ pc'[0] = pc[0] /\ pc[0] # "storeDec"
      BY <2>2, <1>1, SizeAssumption DEF Ctx, Window
    <3> QED
      BY <3>1, <1>1, <1>2, <1>5, <1>9 DEF Taking, FifoInv
  <2> QED
    BY <2>1, <2>2
<1>11. Writing(c)'
  <2> USE <1>2, <1>3, <1>5, <1>6 DEF Writing, TypeOK, Goto, At, Load
  <2>1. CASE Accept(c)
    BY <2>1 DEF Accept
  <2>2. CASE SlotMsg(c)
    BY <2>2 DEF SlotMsg
  <2>3. CASE PutMsg(c)
    BY <2>3 DEF PutMsg
  <2>4. CASE SlotPara(c)
    BY <2>4 DEF SlotPara, ring
  <2>5. CASE PutPara(c)
    <3>1. msgList'[Nth(Held)].para = arg[c].para /\ msgList'[Nth(Held)].msg = arg[c].msg
      BY <2>5 DEF PutPara
    <3>2. msgList'[Nth(Held)] \in [msg : Code, para : Para]
      BY <2>5, TypePublish
    <3>3. arg[c] \in [msg : Code, para : Para]
      BY MessageFields
    <3>4. msgList'[Nth(Held)] = arg[c]
      BY <3>1, <3>2, <3>3
    <3> QED
      BY <2>5, <3>4 DEF PutPara
  <2>6. CASE LoadPush(c)
    BY <2>6 DEF LoadPush, ring
  <2>7. CASE LoadCount(c)
    BY <2>7 DEF LoadCount, ring
  <2> QED
    BY <2>1, <2>2, <2>3, <2>4, <2>5, <2>6, <2>7 DEF Publish
<1>12. nMsg' + Cardinality(Open') <= N
  <2>1. CASE Accept(c)
    <3>1. /\ pc[c] = "check" /\ pc'[c] = "slotMsg" /\ nMsg < N /\ ~Overlap
      BY <2>1 DEF Accept, At, Goto, TypeOK
    <3>2. Open' = Open \cup {c} /\ c \notin Open /\ Open \in SUBSET Ctx
      BY <1>1, <3>1 DEF Open, Armed, PublishPoints
    <3>3. Cardinality(Open') = Cardinality(Open) + 1 /\ Cardinality(Open) \in Nat
      BY <3>2, OneMore, SetCount
    <3>4. Open = {} \/ nMsg + Cardinality(Open) < N
      BY <1>6, <3>1, <3>3 DEF Overlap, Open
    <3>5. Open = {} => Cardinality(Open) = 0
      BY FS_EmptySet
    <3> QED
      BY <1>2, <1>6, <3>1, <3>3, <3>4, <3>5
  <2>2. CASE ~Accept(c)
    <3>1. pc[c] \in Armed /\ pc'[c] \in Armed
      BY <2>2 DEF Publish, SlotMsg, PutMsg, SlotPara, PutPara, LoadPush, LoadCount,
                  At, Goto, TypeOK, Armed, PublishPoints
    <3>2. Open' = Open
      BY <1>1, <3>1 DEF Open
    <3> QED
      BY <1>2, <3>2 DEF FifoInv
  <2> QED
    BY <2>1, <2>2
<1> QED
  BY <1>1, <1>2, <1>5, <1>6, <1>9, <1>10, <1>11, <1>12 DEF FifoInv

\* The store of line 33 appends the caller's own pair to the queue.
LEMMA PublishAppends ==
    ASSUME TypeOK, FifoInv, NEW c \in Ctx, StorePush(c), ~raced'
    PROVE  FifoInv' /\ Appended(c)
<1>1. /\ \A d \in Ctx : d # c => /\ pc'[d] = pc[d]
                                 /\ pc[d] \notin Window
                                 /\ Writing(d)'
      /\ Alone'
      /\ Oldest' = Oldest
      /\ UNCHANGED <<iMsgPull, out, delivered>>
  <2>1. Publish(c) /\ ~Refuse(c)
    BY DEF Publish, StorePush, Refuse, At
  <2> QED
    BY <2>1, PublishFrame
<1>2. /\ pc[c] = "storePush" /\ pc'[c] = "loadCount"
      /\ msgList' = msgList /\ nMsg' = nMsg /\ iMsgPush' = (reg[c] + 1) % N
  BY DEF StorePush, At, Goto, TypeOK
<1>3. /\ Held \in Nat /\ nMsg \in Nat /\ N \in Nat /\ Held < N
      /\ iMsgPush = Nth(Held) /\ reg[c] = iMsgPush /\ msgList[Nth(Held)] = arg[c]
  BY <1>2, HeldFits DEF FifoInv, Writing, Armed, PublishPoints
<1>4. Uncounted' = Uncounted \cup {c} /\ c \notin Uncounted /\ Uncounted \in SUBSET Ctx
  BY <1>1, <1>2 DEF Uncounted
<1>5. Held' = Held + 1
  <2>1. Cardinality(Uncounted') = Cardinality(Uncounted) + 1 /\ Cardinality(Uncounted) \in Nat
    BY <1>4, OneMore, SetCount
  <2> QED
    BY <1>2, <1>3, <2>1 DEF Held
<1>6. Open' = Open
  BY <1>1, <1>2 DEF Open, Armed, PublishPoints
<1>7. iMsgPush' = Nth(Held)'
  <2>1. iMsgPush' = Nth(Held + 1)
    <3>1. Held \in 0..(N - 1)
      BY <1>3
    <3> QED
      BY <1>2, <1>3, <3>1, NthNext
  <2>2. Nth(Held)' = Nth(Held + 1)
    BY <1>1, <1>5 DEF Nth
  <2> QED
    BY <2>1, <2>2
<1>8. Writing(c)'
  BY <1>2 DEF Writing
<1>9. Taking'
  <2>1. CASE c = 0
    BY <2>1, <1>2 DEF Taking
  <2>2. CASE c # 0
    <3>1. 0 \in Ctx /\ pc'[0] = pc[0] /\ pc[0] # "storeDec"
      BY <2>2, <1>1, SizeAssumption DEF Ctx, Window
    <3>2. Nth(0)' = Nth(0)
      BY <1>1 DEF Nth
    <3> QED
      BY <3>1, <3>2, <1>1, <1>2 DEF Taking, FifoInv
  <2> QED
    BY <2>1, <2>2
<1>10. FifoInv'
  BY <1>1, <1>2, <1>6, <1>7, <1>8, <1>9 DEF FifoInv
<1>11. Contents' = Append(Contents, arg[c])
  <2> DEFINE S == [msg : Code, para : Para]
  <2>1. /\ Contents = [i \in 1..Held |-> msgList[Nth(i - 1)]]
        /\ Contents \in Seq(S) /\ Len(Contents) = Held
    BY <1>3, ContentsNth
  <2>2. Contents' = [i \in 1..(Held + 1) |-> msgList[Nth(i - 1)]]
    <3>1. Contents' = [i \in 1..(Held + 1) |-> msgList[(Oldest + i - 1) % N]]
      BY <1>1, <1>2, <1>5 DEF Contents
    <3>2. \A i \in 1..(Held + 1) : (Oldest + i - 1) % N = Nth(i - 1)
      BY <1>3, OldestInt DEF Nth
    <3> QED
      BY <3>1, <3>2
  <2>3. arg[c] \in S
    BY MessageFields DEF TypeOK
  <2> HIDE DEF S
  <2>4. /\ Append(Contents, arg[c]) \in Seq(S)
        /\ Len(Append(Contents, arg[c])) = Held + 1
        /\ \A i \in 1..Held : Append(Contents, arg[c])[i] = Contents[i]
        /\ Append(Contents, arg[c])[Held + 1] = arg[c]
    <3>1. Append(Contents, arg[c]) \in Seq(S) /\ Len(Append(Contents, arg[c])) = Held + 1
      <4>1. ASSUME NEW s \in Seq(S), NEW x \in S
            PROVE  Append(s, x) \in Seq(S) /\ Len(Append(s, x)) = Len(s) + 1
        BY AppendProperties
      <4>2. Append(Contents, arg[c]) \in Seq(S)
        BY <2>1, <2>3, <4>1, Zenon
      <4>3. Len(Append(Contents, arg[c])) = Len(Contents) + 1
        BY <2>1, <2>3, <4>1, Zenon
      <4> QED
        BY <2>1, <4>2, <4>3
    <3>2. \A i \in 1..(Held + 1) :
             Append(Contents, arg[c])[i] = IF i <= Held THEN Contents[i] ELSE arg[c]
      BY <2>1, <1>3
    <3> QED
      BY <1>3, <3>1, <3>2
  <2>5. ASSUME NEW i \in 1..(Held + 1)
        PROVE  Append(Contents, arg[c])[i] = msgList[Nth(i - 1)]
    <3>1. CASE i \in 1..Held
      BY <2>1, <2>4, <3>1
    <3>2. CASE i \notin 1..Held
      <4>1. i = Held + 1 /\ i - 1 = Held
        BY <1>3, <3>2
      <4> QED
        BY <1>3, <2>4, <4>1
    <3> QED
      BY <3>1, <3>2
  <2>6. Append(Contents, arg[c]) = [i \in 1..(Held + 1) |-> msgList[Nth(i - 1)]]
    BY <1>3, <2>4, <2>5
  <2> QED
    BY <2>2, <2>6
<1>12. Len(Contents) < N
  BY <1>3, ContentsNth
<1> QED
  BY <1>1, <1>2, <1>10, <1>11, <1>12 DEF Appended, Fifo!Put

\* The store of line 34 counts one that the queue already holds.
LEMMA CountQuiet ==
    ASSUME TypeOK, FifoInv, NEW c \in Ctx, StoreCount(c), ~raced'
    PROVE  FifoInv' /\ Contents' = Contents /\ delivered' = delivered
<1>1. /\ \A d \in Ctx : d # c => /\ pc'[d] = pc[d]
                                 /\ pc[d] \notin Window
                                 /\ Writing(d)'
      /\ Alone'
      /\ Oldest' = Oldest
      /\ UNCHANGED <<iMsgPull, out, delivered>>
  <2>1. Publish(c) /\ ~Refuse(c)
    BY DEF Publish, StoreCount, Refuse, At
  <2> QED
    BY <2>1, PublishFrame
<1>2. /\ pc[c] = "storeCount" /\ pc'[c] = "idle"
      /\ msgList' = msgList /\ iMsgPush' = iMsgPush /\ nMsg' = Inc(reg[c])
  BY DEF StoreCount, Return, At, Goto, TypeOK
<1>3. /\ Held \in Nat /\ nMsg \in Nat /\ N \in Nat /\ nMsg <= N /\ reg[c] = nMsg
  BY <1>2, HeldFits DEF FifoInv, Writing
<1>4. nMsg' = nMsg + 1
  BY <1>2, <1>3, WidthAssumption, SizeAssumption DEF Inc
<1>5. /\ Uncounted = Uncounted' \cup {c} /\ c \notin Uncounted' /\ Uncounted' \in SUBSET Ctx
      /\ Open = Open' \cup {c} /\ c \notin Open' /\ Open' \in SUBSET Ctx
  BY <1>1, <1>2 DEF Uncounted, Open, Armed, PublishPoints
<1>6. /\ Cardinality(Uncounted) = Cardinality(Uncounted') + 1
      /\ Cardinality(Open) = Cardinality(Open') + 1
      /\ Cardinality(Uncounted') \in Nat /\ Cardinality(Open') \in Nat
  BY <1>5, OneMore, SetCount
<1>7. Held' = Held /\ nMsg' + Cardinality(Open') <= N
  BY <1>3, <1>4, <1>6 DEF Held, FifoInv
<1>8. Nth(Held)' = Nth(Held) /\ Nth(0)' = Nth(0)
  BY <1>1, <1>7 DEF Nth
<1>9. Contents' = Contents
  BY <1>1, <1>2, <1>7 DEF Contents
<1>10. Writing(c)'
  BY <1>2 DEF Writing
<1>11. Taking'
  <2>1. CASE c = 0
    BY <2>1, <1>2 DEF Taking
  <2>2. CASE c # 0
    <3>1. 0 \in Ctx /\ pc'[0] = pc[0] /\ pc[0] # "storeDec"
      BY <2>2, <1>1, SizeAssumption DEF Ctx, Window
    <3>2. nMsg > 0 => nMsg' > 0
      BY <1>3, <1>4
    <3> QED
      BY <3>1, <3>2, <1>1, <1>2, <1>8 DEF Taking, FifoInv
  <2> QED
    BY <2>1, <2>2
<1> QED
  BY <1>1, <1>2, <1>7, <1>8, <1>9, <1>10, <1>11 DEF FifoInv

\* A step of main() finds every handler idle, and nothing uncounted.
LEMMA MainFrame ==
    ASSUME TypeOK, FifoInv, Main
    PROVE  /\ 0 \in Ctx /\ Runs(0)
           /\ pc[0] \in GetPoints \cup {"idle", "handle"}
           /\ \A d \in Ctx : d # 0 => pc[d] = "idle" /\ pc'[d] = "idle"
           /\ pc'[0] \in GetPoints \cup {"idle", "handle", "check"}
           /\ Alone'
           /\ Held = nMsg /\ Held' = nMsg' /\ Cardinality(Open') = 0
           /\ nMsg \in Nat /\ nMsg <= N /\ N \in Nat
           /\ iMsgPush = Nth(nMsg)
           /\ \A c \in Ctx : Writing(c)'
           /\ UNCHANGED <<msgList, iMsgPush>>
<1>0. 0 \in Ctx
  BY SizeAssumption DEF Ctx
<1>1. /\ Runs(0) /\ pc[0] \in GetPoints \cup {"idle", "handle"}
      /\ \E p \in GetPoints \cup {"idle", "handle", "check"} : Goto(0, p)
      /\ UNCHANGED <<msgList, iMsgPush>>
  BY DEF Main, Poll, Empty, Pending, GetMsg, GetPara, IncPull, LoadDec, StoreDec,
         Handled, ReportLink, Return, At, GetPoints, ring
<1>2. PICK p \in GetPoints \cup {"idle", "handle", "check"} : Goto(0, p)
  BY <1>1
<1>3. pc'[0] = p /\ \A d \in Ctx : d # 0 => pc[d] = "idle" /\ pc'[d] = "idle"
  BY <1>0, <1>1, <1>2 DEF TypeOK, Goto, Runs, Ctx
<1>4. Alone'
  BY <1>3, SizeAssumption DEF Alone, Window, Ctx
<1>5. /\ \A c \in Ctx : pc[c] \notin Armed /\ pc'[c] \notin Armed
  BY <1>1, <1>2, <1>3 DEF Armed, PublishPoints, GetPoints
<1>6. Uncounted = {} /\ Uncounted' = {} /\ Open' = {}
  BY <1>5 DEF Uncounted, Open, Armed, PublishPoints
<1>7. /\ nMsg \in Nat /\ nMsg' \in Nat /\ nMsg <= N /\ N \in Nat /\ Cardinality(Open') = 0
      /\ Held = nMsg /\ Held' = nMsg'
  <2>1. TypeOK'
    BY TypeMain
  <2>2. nMsg \in Nat /\ nMsg' \in Nat
    BY <2>1, WidthAssumption DEF TypeOK
  <2>3. Cardinality(Uncounted) = 0 /\ Cardinality(Uncounted') = 0 /\ Cardinality(Open') = 0
    BY <1>6, FS_EmptySet
  <2>4. Held <= N /\ N \in Nat
    BY HeldFits DEF FifoInv
  <2> QED
    <3>1. Held = nMsg + Cardinality(Uncounted)
      BY DEF Held
    <3>2. Held = nMsg
      BY <2>2, <2>3, <3>1
    <3>3. nMsg' + 0 = nMsg'
      <4>1. ASSUME NEW n \in Nat
            PROVE  n + 0 = n
        OBVIOUS
      <4> QED
        BY <2>2, <4>1, Zenon
    <3>4. Held' = nMsg'
      BY <2>3, <3>3, Zenon DEF Held
    <3> QED
      BY <2>2, <2>3, <2>4, <3>2, <3>4
<1>8. iMsgPush = Nth(nMsg)
  BY <1>7 DEF FifoInv
<1>9. \A c \in Ctx : Writing(c)'
  BY <1>5 DEF Writing, Armed, PublishPoints
<1> QED
  BY <1>0, <1>1, <1>2, <1>3, <1>4, <1>7, <1>8, <1>9

\* Until it stores the decremented count, a step of main() leaves the queue
\* as it is: moving the pull index early is compensated by Oldest.
LEMMA MainQuiet ==
    ASSUME TypeOK, FifoInv, Main, ~StoreDec
    PROVE  FifoInv' /\ Contents' = Contents /\ delivered' = delivered
<1>1. /\ 0 \in Ctx /\ Alone' /\ iMsgPush = Nth(nMsg)
      /\ Held = nMsg /\ Held' = nMsg' /\ Cardinality(Open') = 0
      /\ \A c \in Ctx : Writing(c)'
      /\ UNCHANGED <<msgList, iMsgPush>>
      /\ nMsg \in Nat /\ nMsg <= N /\ N \in Nat
  BY MainFrame
<1>2. nMsg' = nMsg /\ delivered' = delivered
  BY DEF Main, Poll, Empty, Pending, GetMsg, GetPara, IncPull, LoadDec,
         Handled, ReportLink, ring, record
<1>3. \A k \in 0..N : Nth(k)' = Nth(k)
  <2>1. CASE IncPull
    <3>1. Oldest = iMsgPull /\ Oldest' = iMsgPull' - 1
      BY <2>1, <1>1 DEF IncPull, At, Goto, Oldest, TypeOK
    <3>2. iMsgPull \in Slot /\ iMsgPull' = (iMsgPull + 1) % N
      BY <2>1 DEF IncPull, TypeOK
    <3>3. iMsgPull' = IF iMsgPull = N - 1 THEN 0 ELSE iMsgPull + 1
      BY <3>2, SizeAssumption DEF Slot
    <3>4. ASSUME NEW k \in 0..N
          PROVE  (iMsgPull' - 1 + k) % N = (iMsgPull + k) % N
      BY <3>2, <3>3, SizeAssumption DEF Slot
    <3> QED
      BY <3>1, <3>4 DEF Nth
  <2>2. CASE ~IncPull
    <3>1. Oldest' = Oldest
      BY <2>2, <1>1
         DEF Main, Poll, Empty, Pending, GetMsg, GetPara, LoadDec, Handled, ReportLink,
             Return, Goto, At, Oldest, TypeOK, ring
    <3> QED
      BY <3>1 DEF Nth
  <2> QED
    BY <2>1, <2>2
<1>4. iMsgPush' = Nth(Held)'
  <2>1. Nth(nMsg)' = Nth(nMsg)
    BY <1>1, <1>2, <1>3 DEF Nth
  <2>2. Nth(Held)' = Nth(nMsg)'
    BY <1>1 DEF Nth
  <2> QED
    BY <1>1, <2>1, <2>2
<1>5. Taking'
  <2>0. Nth(0)' = Nth(0) /\ Nth(0) \in Slot
    BY <1>1, <1>3, NthSlot
  <2> USE <1>1, <1>2, <2>0 DEF Taking, FifoInv, TypeOK, Goto, At, Load
  <2>1. CASE Poll \/ Empty \/ Pending \/ Handled \/ \E m \in Pub[0] : ReportLink(m)
    BY <2>1 DEF Poll, Empty, Pending, Handled, ReportLink, Return, ring, record
  <2>2. CASE GetMsg \/ GetPara
    <3>0. Oldest = iMsgPull /\ iMsgPull \in Slot
      BY <2>2 DEF GetMsg, GetPara, Oldest
    <3>1. iMsgPull = Nth(0)
      BY ONLY <3>0, SizeAssumption DEF Nth, Slot
    <3>2. CASE GetMsg
      <4>1. out'.msg = msgList[Nth(0)].msg /\ pc'[0] = "getPara" /\ nMsg > 0
        BY <3>1, <3>2 DEF GetMsg
      <4> QED
        BY <4>1
    <3>3. CASE GetPara
      <4>1. out'.msg = msgList[Nth(0)].msg /\ out'.para = msgList[Nth(0)].para
        BY <3>1, <3>3 DEF GetPara
      <4>2. out' \in [msg : Code, para : Para] /\ msgList[Nth(0)] \in [msg : Code, para : Para]
        BY <3>1, <3>3 DEF GetPara
      <4>3. out' = msgList[Nth(0)]
        BY <4>1, <4>2
      <4> QED
        BY <3>3, <4>3 DEF GetPara, ring
    <3> QED
      BY <2>2, <3>2, <3>3
  <2>3. CASE IncPull
    BY <2>3 DEF IncPull, record
  <2>4. CASE LoadDec
    BY <2>4 DEF LoadDec, ring, record
  <2> QED
    BY <2>1, <2>2, <2>3, <2>4 DEF Main
<1>6. Contents' = Contents
  <2>1. TypeOK'
    BY TypeMain
  <2>2. Oldest \in Int /\ Oldest' \in Int
    BY <2>1 DEF TypeOK, Slot, Oldest
  <2>3. ASSUME NEW i \in 1..nMsg
        PROVE  msgList'[(Oldest' + i - 1) % N] = msgList[(Oldest + i - 1) % N]
    <3>1. i - 1 \in 0..N
      BY <1>1
    <3>2. Nth(i - 1)' = Nth(i - 1)
      BY <3>1, <1>3
    <3>3. Nth(i - 1) = (Oldest + i - 1) % N /\ Nth(i - 1)' = (Oldest' + i - 1) % N
      BY <2>2, <3>1 DEF Nth
    <3> QED
      BY <3>2, <3>3, <1>1
  <2> QED
    BY <2>3, <1>1, <1>2 DEF Contents
<1> QED
  BY <1>1, <1>2, <1>4, <1>5, <1>6 DEF FifoInv

\* The store of line 55 removes the oldest pair, the one main() has read.
LEMMA GetRemoves ==
    ASSUME TypeOK, FifoInv, StoreDec
    PROVE  FifoInv' /\ Fifo!Get
<1>0. Main
  BY DEF Main
<1>1. /\ 0 \in Ctx /\ Alone' /\ iMsgPush = Nth(nMsg)
      /\ Held = nMsg /\ Held' = nMsg' /\ Cardinality(Open') = 0
      /\ \A c \in Ctx : Writing(c)'
      /\ UNCHANGED <<msgList, iMsgPush>>
      /\ nMsg \in Nat /\ nMsg <= N /\ N \in Nat
  BY <1>0, MainFrame
<1>2. /\ pc[0] = "storeDec" /\ pc'[0] = "handle" /\ iMsgPull' = iMsgPull
      /\ nMsg > 0 /\ reg[0] = nMsg /\ out = msgList[Nth(0)] /\ delivered' = out
  BY <1>1 DEF StoreDec, At, Goto, FifoInv, Taking, TypeOK
<1>3. nMsg' = nMsg - 1
  BY <1>1, <1>2 DEF StoreDec, Dec
<1>4. Oldest = iMsgPull - 1 /\ Oldest' = iMsgPull /\ iMsgPull \in Int
  BY <1>2 DEF Oldest, TypeOK, Slot
<1>5. iMsgPush' = Nth(Held)'
  <2>1. (iMsgPull + (nMsg - 1)) % N = (iMsgPull - 1 + nMsg) % N
    BY <1>1, <1>4
  <2> QED
    BY <1>1, <1>3, <1>4, <2>1 DEF Nth
<1>6. Taking'
  BY <1>2 DEF Taking
<1>7. FifoInv'
  BY <1>1, <1>2, <1>3, <1>5, <1>6 DEF FifoInv
<1>8. /\ Contents = [i \in 1..nMsg |-> msgList[Nth(i - 1)]]
      /\ Contents \in Seq([msg : Code, para : Para])
      /\ Len(Contents) = nMsg
  BY <1>1, ContentsNth
<1>9. Contents # <<>> /\ Head(Contents) = Contents[1]
  BY <1>1, <1>2, <1>8, SMTT(30)
<1>10. Contents' = Tail(Contents)
  <2>1. Contents' = [i \in 1..(nMsg - 1) |-> msgList[(iMsgPull + i - 1) % N]]
    BY <1>1, <1>3, <1>4 DEF Contents
  <2>2. ASSUME NEW i \in 1..(nMsg - 1)
        PROVE  msgList[(iMsgPull + i - 1) % N] = Contents[i + 1]
    <3>1. i + 1 \in 1..nMsg /\ i \in Int
      BY <1>1
    <3>2. Contents[i + 1] = msgList[Nth((i + 1) - 1)]
      BY <3>1, <1>8
    <3>3. Nth((i + 1) - 1) = (iMsgPull + i - 1) % N
      BY <3>1, <1>4 DEF Nth
    <3> QED
      BY <3>2, <3>3
  <2>3. Tail(Contents) = [i \in 1..(nMsg - 1) |-> Contents[i + 1]]
    BY <1>1, <1>2, <1>8
  <2> QED
    BY <2>1, <2>2, <2>3
<1>11. delivered' = Head(Contents)
  <2>1. Contents[1] = msgList[Nth(0)]
    BY <1>1, <1>2, <1>8
  <2> QED
    BY <2>1, <1>2, <1>9
<1> QED
  BY <1>7, <1>9, <1>10, <1>11 DEF Fifo!Get

\* A handler may start anywhere: it has only reached its check.
LEMMA InterruptQuiet ==
    ASSUME TypeOK, FifoInv, NEW c \in Ctx, NEW m \in Pub[c], Interrupt(c, m)
    PROVE  FifoInv' /\ Contents' = Contents /\ delivered' = delivered
<1>1. /\ c # 0 /\ pc[c] = "idle" /\ pc'[c] = "check"
      /\ \A d \in Ctx : d # c => pc'[d] = pc[d] /\ arg'[d] = arg[d]
      /\ UNCHANGED <<ring, reg, out, delivered>>
  BY DEF Interrupt, At, Goto, TypeOK, Ctx, record
<1>2. /\ UNCHANGED <<msgList, iMsgPush, iMsgPull, nMsg>>
      /\ 0 \in Ctx /\ pc'[0] = pc[0]
  BY <1>1, SizeAssumption DEF ring, Ctx
<1>3. Uncounted' = Uncounted /\ Open' = Open
  BY <1>1 DEF Uncounted, Open, Armed, PublishPoints
<1>4. Oldest' = Oldest
  BY <1>2 DEF Oldest
<1>5. Held' = Held /\ Nth(Held)' = Nth(Held) /\ Nth(0)' = Nth(0)
  BY <1>2, <1>3, <1>4 DEF Held, Nth
<1>6. Contents' = Contents
  BY <1>2, <1>4, <1>5 DEF Contents
<1>7. Alone'
  BY <1>1 DEF FifoInv, Alone, Window
<1>8. \A d \in Ctx : Writing(d)'
  <2>1. Writing(c)'
    BY <1>1 DEF Writing
  <2>2. ASSUME NEW d \in Ctx, d # c
        PROVE  Writing(d)'
    BY <2>2, <1>1, <1>2, <1>5 DEF FifoInv, Writing
  <2> QED
    BY <2>1, <2>2
<1>9. Taking'
  BY <1>1, <1>2, <1>5 DEF FifoInv, Taking
<1> QED
  BY <1>1, <1>2, <1>3, <1>5, <1>6, <1>7, <1>8, <1>9 DEF FifoInv

LEMMA FifoInit == Init => FifoInv /\ Fifo!Init
<1> SUFFICES ASSUME Init
             PROVE  FifoInv /\ Fifo!Init
  OBVIOUS
<1>1. \A c \in Ctx : pc[c] = "idle"
  BY DEF Init
<1>2. /\ nMsg = 0 /\ Oldest = 0 /\ iMsgPush = 0 /\ 0 \in Ctx /\ N \in Nat \ {0}
      /\ delivered \in Message
  BY <1>1, SizeAssumption, ZeroFields DEF Init, Oldest, Ctx
<1>3. Uncounted = {} /\ Open = {}
  BY <1>1 DEF Uncounted, Open, Armed, PublishPoints
<1>4. Held = 0 /\ nMsg + Cardinality(Open) <= N
  <2>1. Cardinality(Uncounted) = 0 /\ Cardinality(Open) = 0
    BY <1>3, FS_EmptySet
  <2> QED
    BY <1>2, <2>1 DEF Held
<1>5. iMsgPush = Nth(Held)
  BY <1>2, <1>4 DEF Nth
<1>6. FifoInv
  BY <1>1, <1>2, <1>4, <1>5 DEF FifoInv, Alone, Writing, Taking, Window
<1>7. Contents = <<>>
  BY <1>4 DEF Contents
<1> QED
  BY <1>2, <1>6, <1>7 DEF Fifo!Init

\* Until a race each step keeps the invariant, and is a step of the abstract
\* queue or none.
LEMMA FifoStep ==
    TypeOK /\ (raced \/ FifoInv) /\ [Next]_vars
       => /\ raced' \/ FifoInv'
          /\ [raced' \/ Fifo!Get \/ \E c \in Ctx : Appended(c)]_(Fifo!fifoVars)
<1> SUFFICES ASSUME TypeOK, raced \/ FifoInv, [Next]_vars, ~raced'
             PROVE  /\ FifoInv'
                    /\ [Fifo!Get \/ \E c \in Ctx : Appended(c)]_(Fifo!fifoVars)
  OBVIOUS
<1>0. FifoInv
  BY RacedStays
<1>1. ASSUME NEW c \in Ctx, Publish(c)
      PROVE  /\ FifoInv'
             /\ [Fifo!Get \/ \E d \in Ctx : Appended(d)]_(Fifo!fifoVars)
  <2>1. CASE Refuse(c)
    BY <2>1, <1>0, RefuseQuiet DEF Fifo!fifoVars
  <2>2. CASE StorePush(c)
    BY <2>2, <1>0, PublishAppends
  <2>3. CASE StoreCount(c)
    BY <2>3, <1>0, CountQuiet DEF Fifo!fifoVars
  <2>4. CASE ~Refuse(c) /\ ~StorePush(c) /\ ~StoreCount(c)
    BY <2>4, <1>0, <1>1, PublishQuiet DEF Fifo!fifoVars
  <2> QED
    BY <2>1, <2>2, <2>3, <2>4
<1>2. CASE Main
  <2>1. CASE StoreDec
    BY <2>1, <1>0, GetRemoves
  <2>2. CASE ~StoreDec
    BY <1>0, <1>2, <2>2, MainQuiet DEF Fifo!fifoVars
  <2> QED
    BY <2>1, <2>2
<1>3. CASE \E c \in Ctx : \E m \in Pub[c] : Interrupt(c, m)
  BY <1>0, <1>3, InterruptQuiet DEF Fifo!fifoVars
<1>4. CASE UNCHANGED vars
  <2>1. /\ Oldest' = Oldest /\ Uncounted' = Uncounted /\ Open' = Open
    BY <1>4 DEF vars, Oldest, Uncounted, Open
  <2>2. Held' = Held /\ Nth(Held)' = Nth(Held) /\ Nth(0)' = Nth(0)
    BY <1>4, <2>1 DEF vars, Held, Nth
  <2>3. FifoInv'
    BY <1>0, <1>4, <2>1, <2>2 DEF vars, FifoInv, Alone, Writing, Taking
  <2>4. Contents' = Contents /\ delivered' = delivered
    BY <1>4, <2>1, <2>2 DEF vars, Contents
  <2> QED
    BY <2>3, <2>4 DEF Fifo!fifoVars
<1> QED
  BY <1>1, <1>2, <1>3, <1>4 DEF Next

\* The calls as the code makes them, interrupts taken anywhere: up to the first
\* time a handler publishes inside a window of a call it interrupted, or into
\* the last slots such calls have in view, every publishMsg that is not refused
\* appends its own pair, whole, in the order of the stores of iMsgPush, and
\* every getNextMsg hands out the oldest: nothing is lost, duplicated, torn or
\* overtaken.
THEOREM QueueIsFifoUntilRaced == Spec => FifoUntilRaced
<1>1. Init => (raced \/ FifoInv) /\ Fifo!Init
  BY FifoInit
<1>2. TypeOK /\ (raced \/ FifoInv) /\ [Next]_vars
         => /\ raced' \/ FifoInv'
            /\ [raced' \/ Fifo!Get \/ \E c \in Ctx : Appended(c)]_(Fifo!fifoVars)
  BY FifoStep
<1> QED
  BY <1>1, <1>2, TypeCorrect, PTL DEF Spec, FifoUntilRaced

\* Up to the same race getPendingMsgNum counts exactly the slots published and
\* not taken whenever no call is in progress.
THEOREM CountExactUntilRaced == Spec => []PendingUntilRaced
<1>1. TypeOK /\ (raced \/ FifoInv) => PendingUntilRaced
  <2> SUFFICES ASSUME TypeOK, FifoInv, Quiet
               PROVE  nMsg % N = (iMsgPush - iMsgPull) % N
    BY DEF PendingUntilRaced, PendingExact
  <2>1. 0 \in Ctx /\ Oldest = iMsgPull /\ Uncounted = {}
    BY SizeAssumption DEF Quiet, Ctx, Oldest, Uncounted
  <2>2. Held = nMsg
    <3>1. Cardinality(Uncounted) = 0 /\ nMsg \in Nat
      BY <2>1, FS_EmptySet, HeldFits DEF FifoInv
    <3> QED
      BY <3>1 DEF Held
  <2>3. /\ nMsg \in Nat /\ nMsg <= N /\ iMsgPull \in Slot
        /\ iMsgPush = (iMsgPull + nMsg) % N
    BY <2>1, <2>2, HeldFits DEF TypeOK, FifoInv, Nth
  <2>4. /\ iMsgPush = IF iMsgPull + nMsg < N THEN iMsgPull + nMsg ELSE iMsgPull + nMsg - N
        /\ iMsgPush \in Int /\ iMsgPull \in Int
    BY <2>3, SizeAssumption DEF Slot
  <2> QED
    BY <2>3, <2>4, SizeAssumption DEF Slot
<1>2. Init => raced \/ FifoInv
  BY FifoInit
<1>3. TypeOK /\ (raced \/ FifoInv) /\ [Next]_vars => raced' \/ FifoInv'
  BY FifoStep
<1> QED
  BY <1>1, <1>2, <1>3, TypeCorrect, PTL DEF Spec
=============================================================================
