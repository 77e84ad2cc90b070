---------------------------- MODULE MsgInterface ----------------------------
(***************************************************************************)
(* The message queue of SYSTEM/msg_interface.c, used by main() and by      *)
(* every interrupt handler of the firmware without masking interrupts.     *)
(*                                                                         *)
(* Contexts are numbered by urgency: 0 is main(), 1 USART3_IRQHandler      *)
(* (console), 2 TIM3_IRQHandler (work tick), 3 EXTI9_5/ETH (apply the      *)
(* configuration).  On one Cortex-M4 core a context runs only while every  *)
(* more urgent one is idle, and an interrupt is taken between any two      *)
(* instructions.  The image is built without optimisation, so each C       *)
(* statement loads the shared variables it names and stores its result:    *)
(* an action is one load or one store of a shared variable.                *)
(***************************************************************************)
EXTENDS Integers, Sequences, FiniteSets

CONSTANTS N,            \* MSG_MAX_LEN
          Top,          \* the most urgent context
          U32,          \* 2^32, the modulus of the u32 counter
          Pub,          \* Pub[c]: the pairs context c publishes
          LinkTick      \* the pair on which main() looks at the link

Ctx == 0..Top
PublishPoints == {"check", "slotMsg", "putMsg", "slotPara", "putPara",
                  "loadPush", "storePush", "loadCount", "storeCount"}
GetPoints == {"poll", "getMsg", "getPara", "incPull", "loadDec", "storeDec"}
Points == PublishPoints \cup GetPoints \cup {"idle", "handle"}

Message == UNION {Pub[c] : c \in Ctx}
\* msgList is zero-initialised, and code 0 is MSG_CONSOLE_COMMAND.
ZeroMsg == [msg |-> 0, para |-> 0]
Code == {m.msg : m \in Message \cup {ZeroMsg}}
Para == {m.para : m \in Message \cup {ZeroMsg}}
Slot == 0..(N - 1)

ASSUME SizeAssumption == N \in Nat \ {0} /\ Top \in Nat
ASSUME WidthAssumption == U32 \in Nat /\ U32 > N + Top + 1
ASSUME PubAssumption == /\ Pub \in [Ctx -> SUBSET [msg : Nat, para : Nat]]
                        /\ LinkTick \in [msg : Nat, para : Nat]
                        /\ ZeroMsg \in Message

VARIABLES msgList, iMsgPush, iMsgPull, nMsg,
          pc,           \* where each context is
          arg,          \* the pair each context is publishing
          reg,          \* the index or count each context has loaded
          out,          \* processMsg's locals msg and para
          delivered,    \* the pair processMsg last switched on
          raced         \* history: a handler published where it must not

ring == <<msgList, iMsgPush, iMsgPull, nMsg>>
record == <<out, delivered, raced>>
vars == <<msgList, iMsgPush, iMsgPull, nMsg, pc, arg, reg, out, delivered,
          raced>>

\* initMsgInterface, called before the first interrupt is enabled.
Init == /\ msgList = [i \in Slot |-> ZeroMsg]
        /\ iMsgPush = 0 /\ iMsgPull = 0 /\ nMsg = 0
        /\ pc = [c \in Ctx |-> "idle"]
        /\ arg = [c \in Ctx |-> ZeroMsg]
        /\ reg = [c \in Ctx |-> 0]
        /\ out = ZeroMsg /\ delivered = ZeroMsg
        /\ raced = FALSE
-----------------------------------------------------------------------------
\* u32 arithmetic of nMsg++ and nMsg--.
Inc(n) == IF n = U32 - 1 THEN 0 ELSE n + 1
Dec(n) == IF n = 0 THEN U32 - 1 ELSE n - 1

\* The core executes the most urgent context that has work.
Runs(c) == \A d \in Ctx : d > c => pc[d] = "idle"
At(c, p) == Runs(c) /\ pc[c] = p
Goto(c, p) == pc' = [pc EXCEPT ![c] = p]
Load(c, value) == reg' = [reg EXCEPT ![c] = value]

\* An interrupt handler starts and calls publishMsg(m.msg, m.para).
Interrupt(c, m) ==
    /\ c > 0 /\ At(c, "idle")
    /\ arg' = [arg EXCEPT ![c] = m]
    /\ Goto(c, "check")
    /\ UNCHANGED <<ring, reg, record>>

-----------------------------------------------------------------------------
\* publishMsg, executed by context c.

\* Back to the caller: an interrupt handler ends, main() goes on polling, and
\* the locals of the call are gone.
Return(c) == /\ Goto(c, "idle")
             /\ arg' = [arg EXCEPT ![c] = ZeroMsg]
             /\ Load(c, 0)

\* Line 30: the queue is full: return 1, which every caller ignores.
Refuse(c) == /\ At(c, "check") /\ ~(nMsg < N)
             /\ Return(c)
             /\ UNCHANGED <<ring, record>>

\* Contexts past the check of line 30 that have not yet stored the count.
Armed == PublishPoints \ {"check"}

\* Between the first load of iMsgPush and its store, and between load and
\* store of nMsg, a call relies on nobody publishing.
Window == {"putMsg", "slotPara", "putPara", "loadPush", "storePush",
           "storeCount", "storeDec"}

\* Where a handler that publishes does harm: inside such a window, or into the
\* last slots when calls it interrupted have passed the check but not counted.
Overlap == \/ \E d \in Ctx : pc[d] \in Window
           \/ LET open == {d \in Ctx : pc[d] \in Armed}
              IN open # {} /\ nMsg + Cardinality(open) >= N

\* Mutant: the check of line 30 is dropped.
AcceptAlways(c) == /\ At(c, "check")
                   /\ Goto(c, "slotMsg")
                   /\ raced' = (raced \/ Overlap)
                   /\ UNCHANGED <<ring, arg, reg, out, delivered>>

\* Mutant: line 30 tests nMsg <= MSG_MAX_LEN.
AcceptOneMore(c) == /\ At(c, "check") /\ nMsg <= N
                    /\ Goto(c, "slotMsg")
                    /\ raced' = (raced \/ Overlap)
                    /\ UNCHANGED <<ring, arg, reg, out, delivered>>

\* Line 30: there is room.
Accept(c) == /\ At(c, "check") /\ nMsg < N
             /\ Goto(c, "slotMsg")
             /\ raced' = (raced \/ Overlap)
             /\ UNCHANGED <<ring, arg, reg, out, delivered>>

\* Line 31, first half: load iMsgPush.
SlotMsg(c) == /\ At(c, "slotMsg")
              /\ Load(c, iMsgPush)
              /\ Goto(c, "putMsg")
              /\ UNCHANGED <<ring, arg, record>>

\* Line 31, second half: msgList[...].msg = msg.
PutMsg(c) == /\ At(c, "putMsg")
             /\ msgList' = [msgList EXCEPT ![reg[c]].msg = arg[c].msg]
             /\ Goto(c, "slotPara")
             /\ UNCHANGED <<iMsgPush, iMsgPull, nMsg, arg, reg, record>>

\* Line 32, first half: load iMsgPush again.
SlotPara(c) == /\ At(c, "slotPara")
               /\ Load(c, iMsgPush)
               /\ Goto(c, "putPara")
               /\ UNCHANGED <<ring, arg, record>>

\* Line 32, second half: msgList[...].para = para.
PutPara(c) == /\ At(c, "putPara")
              /\ msgList' = [msgList EXCEPT ![reg[c]].para = arg[c].para]
              /\ Goto(c, "loadPush")
              /\ UNCHANGED <<iMsgPush, iMsgPull, nMsg, arg, reg, record>>

\* Line 33: iMsgPush = (iMsgPush+1)%MSG_MAX_LEN, a load and a store.
LoadPush(c) == /\ At(c, "loadPush")
               /\ Load(c, iMsgPush)
               /\ Goto(c, "storePush")
               /\ UNCHANGED <<ring, arg, record>>

StorePush(c) == /\ At(c, "storePush")
                /\ iMsgPush' = (reg[c] + 1) % N
                /\ Goto(c, "loadCount")
                /\ UNCHANGED <<msgList, iMsgPull, nMsg, arg, reg, record>>

\* Line 34: nMsg++, a load and a store, then return 0.
LoadCount(c) == /\ At(c, "loadCount")
                /\ Load(c, nMsg)
                /\ Goto(c, "storeCount")
                /\ UNCHANGED <<ring, arg, record>>

StoreCount(c) == /\ At(c, "storeCount")
                 /\ nMsg' = Inc(reg[c])
                 /\ Return(c)
                 /\ UNCHANGED <<msgList, iMsgPush, iMsgPull, record>>

Publish(c) == \/ Refuse(c) \/ Accept(c)
              \/ SlotMsg(c) \/ PutMsg(c) \/ SlotPara(c) \/ PutPara(c)
              \/ LoadPush(c) \/ StorePush(c) \/ LoadCount(c) \/ StoreCount(c)
-----------------------------------------------------------------------------
\* getNextMsg, called by processMsg in main() and nowhere else.

\* main() calls processMsg, which calls getNextMsg.
Poll == /\ At(0, "idle")
        /\ Goto(0, "poll")
        /\ UNCHANGED <<ring, arg, reg, record>>

\* Line 51: nothing pending: return 1.
Empty == /\ At(0, "poll") /\ ~(nMsg > 0)
         /\ Goto(0, "idle")
         /\ UNCHANGED <<ring, arg, reg, record>>

\* Mutant: the check of line 51 is dropped.
PendingAlways == /\ At(0, "poll")
                 /\ Goto(0, "getMsg")
                 /\ UNCHANGED <<ring, arg, reg, record>>

\* Line 51: something is pending.
Pending == /\ At(0, "poll") /\ nMsg > 0
           /\ Goto(0, "getMsg")
           /\ UNCHANGED <<ring, arg, reg, record>>

\* Lines 52 and 53: only main() writes iMsgPull, so loading it and the
\* field it selects is one step.
GetMsg == /\ At(0, "getMsg")
          /\ out' = [out EXCEPT !.msg = msgList[iMsgPull].msg]
          /\ Goto(0, "getPara")
          /\ UNCHANGED <<ring, arg, reg, delivered, raced>>

GetPara == /\ At(0, "getPara")
           /\ out' = [out EXCEPT !.para = msgList[iMsgPull].para]
           /\ Goto(0, "incPull")
           /\ UNCHANGED <<ring, arg, reg, delivered, raced>>

\* Line 54: only main() reads or writes iMsgPull, so this is one step.
IncPull == /\ At(0, "incPull")
           /\ iMsgPull' = (iMsgPull + 1) % N
           /\ Goto(0, "loadDec")
           /\ UNCHANGED <<msgList, iMsgPush, nMsg, arg, reg, record>>

\* Line 55: nMsg--, a load and a store, then return 0.
LoadDec == /\ At(0, "loadDec")
           /\ Load(0, nMsg)
           /\ Goto(0, "storeDec")
           /\ UNCHANGED <<ring, arg, record>>

\* Mutant: nMsg-- is missing.
StoreDecMissing == /\ At(0, "storeDec")
                   /\ delivered' = out
                   /\ Goto(0, "handle")
                   /\ UNCHANGED <<ring, arg, reg, out, raced>>

StoreDec == /\ At(0, "storeDec")
            /\ nMsg' = Dec(reg[0])
            /\ delivered' = out
            /\ Goto(0, "handle")
            /\ UNCHANGED <<msgList, iMsgPush, iMsgPull, arg, reg, out, raced>>

\* The handler returns to the main loop without publishing.
Handled == /\ At(0, "handle")
           /\ Return(0)
           /\ UNCHANGED <<ring, record>>

\* onWorkTick finds the link newly broken and calls publishMsg.
ReportLink(m) == /\ At(0, "handle") /\ delivered = LinkTick
                 /\ arg' = [arg EXCEPT ![0] = m]
                 /\ Goto(0, "check")
                 /\ UNCHANGED <<ring, reg, record>>

Main == \/ Poll \/ Empty \/ Pending \/ GetMsg \/ GetPara \/ IncPull
        \/ LoadDec \/ StoreDec \/ Handled
        \/ \E m \in Pub[0] : ReportLink(m)
-----------------------------------------------------------------------------
Next == \/ \E c \in Ctx : Publish(c)
        \/ Main
        \/ \E c \in Ctx : \E m \in Pub[c] : Interrupt(c, m)

Spec == Init /\ [][Next]_vars

\* The core never stops: whatever context runs makes progress.  Interrupts
\* themselves are not promised.
FairSpec == Spec /\ WF_vars(Main \/ \E c \in Ctx : Publish(c))
-----------------------------------------------------------------------------
TypeOK == /\ msgList \in [Slot -> [msg : Code, para : Para]]
          /\ iMsgPush \in Slot /\ iMsgPull \in Slot
          /\ nMsg \in 0..(U32 - 1)
          /\ pc \in [Ctx -> Points]
          /\ \A c \in Ctx \ {0} : pc[c] \notin GetPoints \cup {"handle"}
          /\ arg \in [Ctx -> Message]
          /\ reg \in [Ctx -> 0..(U32 - 1)]
          /\ \A c \in Ctx : pc[c] \in {"putMsg", "putPara", "storePush"}
                                => reg[c] \in Slot
          /\ out \in [msg : Code, para : Para]
          /\ delivered \in [msg : Code, para : Para]
          /\ raced \in BOOLEAN

\* publishMsg's check on line 30 runs apart from the increment on line 34,
\* so nested handlers may each pass it: the count exceeds MSG_MAX_LEN, but
\* by no more than one for each level of interrupt nesting.
CountBound == nMsg <= N + Top

\* getNextMsg's decrement on line 55 never takes the count below zero,
\* whatever the handlers do between the check on line 51 and the store.
NoUnderflow == pc[0] = "storeDec" => reg[0] > 0

Quiet == \A c \in Ctx : pc[c] \in {"idle", "handle"}

\* getPendingMsgNum: while no call is in progress, the count is the distance
\* between the two indices, the number of slots published and not taken.
PendingExact == Quiet => nMsg % N = (iMsgPush - iMsgPull) % N

\* Why the bounds hold: a context that passed the check saw a count below
\* MSG_MAX_LEN, and only more urgent contexts, each armed at most once at a
\* time, can raise the count before it stores its own increment.  While
\* main() is past the check of line 51 only increments happen.
CountInv ==
    /\ nMsg <= N + Top
    /\ \A c \in Ctx : pc[c] \in Armed => nMsg <= N - 1 + (Top - c)
    /\ \A c \in Ctx : pc[c] = "storeCount" => reg[c] <= N - 1 + (Top - c)
    /\ pc[0] \in {"getMsg", "getPara", "incPull", "loadDec"} => nMsg > 0
    /\ pc[0] = "storeDec" => reg[0] > 0 /\ reg[0] <= N + Top

\* Once the interrupts cease, main() brings nMsg back to 0 and it stays there,
\* even if races have spoilt it; and if there was no race, no slot is left
\* published and not taken.
Drains == <>[](\A c \in Ctx : c > 0 => pc[c] = "idle")
              => <>[](nMsg = 0 /\ (raced \/ iMsgPush = iMsgPull))
-----------------------------------------------------------------------------
\* The abstract queue: the slots from the oldest one up to iMsgPush.  Those
\* published and not yet counted belong to it; between line 54 and the store
\* of line 55 the oldest slot is the one just before iMsgPull.
Uncounted == {c \in Ctx : pc[c] \in {"loadCount", "storeCount"}}
Held == nMsg + Cardinality(Uncounted)
Oldest == IF pc[0] \in {"loadDec", "storeDec"} THEN iMsgPull - 1 ELSE iMsgPull
Contents == [i \in 1..Held |-> msgList[(Oldest + i - 1) % N]]

Fifo == INSTANCE MsgFifo WITH Capacity <- N, queue <- Contents, got <- delivered

\* Until a handler publishes inside a window of a call it interrupted, or into
\* the last slots such calls have in view, publishMsg and getNextMsg are those
\* of a bounded first-in first-out queue, however the calls nest otherwise:
\* the store of iMsgPush appends the caller's own pair, whole, and the store
\* of nMsg-- removes the oldest.
Appended(c) == pc[c] = "storePush" /\ Fifo!Put(arg[c])
FifoUntilRaced ==
    /\ Fifo!Init
    /\ [][raced' \/ Fifo!Get \/ \E c \in Ctx : Appended(c)]_(Fifo!fifoVars)

\* So long, getPendingMsgNum counts what is in the queue.
PendingUntilRaced == raced \/ PendingExact
=============================================================================
