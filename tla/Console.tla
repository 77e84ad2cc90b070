------------------------------- MODULE Console -------------------------------
(***************************************************************************)
(* The console of HARDWARE/console.c: USART3_IRQHandler assembles lines    *)
(* ended by CR LF from single bytes and puts each into a ring of commands; *)
(* main() takes a command for each MSG_CONSOLE_COMMAND it receives.  The   *)
(* handler is an action: what may interrupt it touches none of its state.  *)
(* The handler may interrupt main() between any two accesses of cmdCnt.    *)
(***************************************************************************)
EXTENDS Integers, Sequences, FiniteSetsExt

CONSTANTS MaxCnt,       \* CMD_MAX_CNT: 8
          MaxSize,      \* COMMAND_MAX_SIZE: 20
          CR, LF,       \* 0x0d and 0x0a
          Char,         \* the bytes received, CR and LF among them
          MaxNotices,   \* the room the message queue has for the console
          MaxBytes      \* bound on the bytes received

ASSUME RingAssumption == MaxCnt \in Nat \ {0} /\ MaxSize \in Nat \ {0}
ASSUME CharAssumption == {CR, LF} \subseteq Char /\ CR # LF
ASSUME BoundAssumption == MaxNotices \in Nat \ {0} /\ MaxBytes \in Nat

VARIABLES cmds, iCmdRead, iCmdSave, cmdCnt,
          buf,          \* USART3_RX_BUF[0..count-1], the count of RX_STA
          cr,           \* bit 14 of USART3_RX_STA: CR received
          end,          \* bit 15: a line is finished and not yet stored
          pc, reg,      \* main() in onConsoleCommand, and its copy of cmdCnt
          notices,      \* MSG_CONSOLE_COMMAND messages in the queue
          seen,         \* history: the bytes received until end stays set
          recorded,     \* history: the commands put into the ring
          taken,        \* history: the commands getCommand handed out
          refused,      \* history: commands whose message was refused
          raced         \* history: cmdCnt++ fell inside a cmdCnt--

ring == <<cmds, iCmdRead, iCmdSave, cmdCnt>>
rx == <<buf, cr, end>>
main == <<pc, reg, taken>>
history == <<seen, recorded, refused, raced>>
vars == <<cmds, iCmdRead, iCmdSave, cmdCnt, buf, cr, end, pc, reg, notices,
          seen, recorded, taken, refused, raced>>

Slot == 0..(MaxCnt - 1)

Init == /\ cmds = [i \in Slot |-> <<>>]
        /\ iCmdRead = 0 /\ iCmdSave = 0 /\ cmdCnt = 0
        /\ buf = <<>> /\ cr = FALSE /\ end = FALSE
        /\ pc = "idle" /\ reg = 0 /\ notices = 0
        /\ seen = <<>> /\ recorded = <<>> /\ taken = <<>>
        /\ refused = 0 /\ raced = FALSE
-----------------------------------------------------------------------------
\* USART3_IRQHandler with the byte Res.
Receive(Res) == /\ ~end
                /\ Len(seen) < MaxBytes
                /\ seen' = Append(seen, Res)

\* Content: recorded while there is room, dropped without a trace after.
Content(Res) == /\ ~cr /\ Res # CR /\ Receive(Res)
                /\ buf' = IF Len(buf) < MaxSize THEN Append(buf, Res) ELSE buf
                /\ UNCHANGED <<ring, cr, end, main, notices, recorded, refused, raced>>

CarriageReturn == /\ ~cr /\ Receive(CR)
                  /\ cr' = TRUE
                  /\ UNCHANGED <<ring, buf, end, main, notices, recorded, refused, raced>>

\* Mutant: the text is kept when CR is not followed by LF.
StartOverKeeping(Res) ==
    /\ cr /\ Res # LF /\ Receive(Res)
    /\ cr' = FALSE
    /\ UNCHANGED <<ring, buf, end, main, notices, recorded, refused, raced>>

\* CR is not followed by LF: the line is dropped, the byte with it.
StartOver(Res) == /\ cr /\ Res # LF /\ Receive(Res)
                  /\ buf' = <<>> /\ cr' = FALSE
                  /\ UNCHANGED <<ring, end, main, notices, recorded, refused, raced>>

\* Mutant: the message is published only if the ring was empty.
NotifyFirst == IF cmdCnt = 0
               THEN notices < MaxNotices /\ notices' = notices + 1 /\ UNCHANGED refused
               ELSE UNCHANGED <<notices, refused>>

\* Line 131, publishMsg: the queue takes the message, or is full, which the
\* handler does not notice.
Notify == \/ notices < MaxNotices /\ notices' = notices + 1 /\ UNCHANGED refused
          \/ refused' = refused + 1 /\ UNCHANGED notices

\* Mutant: the check for room lets one command more through.
RecordOneMore == /\ cr /\ Receive(LF)
                 /\ cmdCnt <= MaxCnt
                 /\ cmds' = [cmds EXCEPT ![iCmdSave] = buf]
                 /\ iCmdSave' = (iCmdSave + 1) % MaxCnt
                 /\ cmdCnt' = cmdCnt + 1
                 /\ Notify
                 /\ buf' = <<>> /\ cr' = FALSE
                 /\ recorded' = Append(recorded, buf)
                 /\ raced' = (raced \/ pc = "store")
                 /\ UNCHANGED <<iCmdRead, end, main>>

\* Lines 124 to 132: the finished line goes into the ring.
Record == /\ cr /\ Receive(LF)
          /\ cmdCnt < MaxCnt
          /\ cmds' = [cmds EXCEPT ![iCmdSave] = buf]
          /\ iCmdSave' = (iCmdSave + 1) % MaxCnt
          /\ cmdCnt' = cmdCnt + 1
          /\ Notify
          /\ buf' = <<>> /\ cr' = FALSE
          /\ recorded' = Append(recorded, buf)
          /\ raced' = (raced \/ pc = "store")
          /\ UNCHANGED <<iCmdRead, end, main>>

\* Line 122 without line 132: the ring is full, the end flag stays set, and
\* from now on every byte is read from the USART and ignored.
GoDeaf == /\ cr /\ Receive(LF)
          /\ ~(cmdCnt < MaxCnt)
          /\ end' = TRUE
          /\ UNCHANGED <<ring, buf, cr, main, notices, recorded, refused, raced>>
-----------------------------------------------------------------------------
\* main(): getNextMsg brings a MSG_CONSOLE_COMMAND to onConsoleCommand.
OnConsoleCommand == /\ pc = "idle" /\ notices > 0
                    /\ notices' = notices - 1
                    /\ pc' = "num"
                    /\ UNCHANGED <<ring, rx, reg, taken, history>>

\* getCommandNum(), and again cmdCnt>0 in getCommand().
Waiting == /\ pc \in {"num", "check"} /\ cmdCnt > 0
           /\ pc' = IF pc = "num" THEN "check" ELSE "get"
           /\ UNCHANGED <<ring, rx, reg, taken, notices, history>>
NoneWaiting == /\ pc \in {"num", "check"} /\ ~(cmdCnt > 0)
               /\ pc' = "idle"
               /\ UNCHANGED <<ring, rx, reg, taken, notices, history>>

\* Mutant: getCommand does not advance.
TakeAgain == /\ pc = "get"
             /\ taken' = Append(taken, cmds[iCmdRead])
             /\ pc' = "load"
             /\ UNCHANGED <<ring, rx, reg, notices, history>>

\* Only main() uses iCmdRead: lines 102 and 103 are one step.
Take == /\ pc = "get"
        /\ taken' = Append(taken, cmds[iCmdRead])
        /\ iCmdRead' = (iCmdRead + 1) % MaxCnt
        /\ pc' = "load"
        /\ UNCHANGED <<cmds, iCmdSave, cmdCnt, rx, reg, notices, history>>

\* Line 104: cmdCnt--, a load and a store.
LoadCnt == /\ pc = "load"
           /\ reg' = cmdCnt
           /\ pc' = "store"
           /\ UNCHANGED <<ring, rx, taken, notices, history>>

\* Mutant: cmdCnt is not decreased.
StoreCntMissing == /\ pc = "store"
                   /\ reg' = 0
                   /\ pc' = "idle"
                   /\ UNCHANGED <<ring, rx, taken, notices, history>>

StoreCnt == /\ pc = "store"
            /\ cmdCnt' = reg - 1
            /\ reg' = 0
            /\ pc' = "idle"
            /\ UNCHANGED <<cmds, iCmdRead, iCmdSave, rx, taken, notices, history>>
-----------------------------------------------------------------------------
USART3_IRQHandler == \/ \E Res \in Char : Content(Res) \/ StartOver(Res)
                     \/ CarriageReturn \/ Record \/ GoDeaf
Main == \/ OnConsoleCommand \/ Waiting \/ NoneWaiting
        \/ Take \/ LoadCnt \/ StoreCnt

Next == USART3_IRQHandler \/ Main
Spec == Init /\ [][Next]_vars

\* The main loop goes on polling; nobody has to type.
FairSpec == Spec /\ WF_vars(Main)
-----------------------------------------------------------------------------
TypeOK == /\ cmds \in [Slot -> Seq(Char)]
          /\ iCmdRead \in Slot /\ iCmdSave \in Slot
          /\ cmdCnt \in Nat /\ reg \in Nat
          /\ buf \in Seq(Char) /\ Len(buf) <= MaxSize
          /\ cr \in BOOLEAN /\ end \in BOOLEAN
          /\ pc \in {"idle", "num", "check", "get", "load", "store"}
          /\ notices \in 0..MaxNotices

\* Whatever interrupts getCommand, cmdCnt stays within the ring and the
\* decrement of line 104 does not take the 16-bit counter below zero.
CountFits == /\ cmdCnt <= MaxCnt
             /\ pc \in {"get", "load"} => cmdCnt > 0
             /\ pc = "store" => reg > 0 /\ reg <= MaxCnt

\* As long as no byte completes a command inside the decrement of line 104,
\* getCommand hands out the commands in the order they were typed, each
\* once, none overwritten while it waits.
InOrder == ~raced => /\ Len(taken) <= Len(recorded)
                     /\ taken = SubSeq(recorded, 1, Len(taken))

\* A command waits for each message in the queue, and one more for each
\* message the queue refused: a refused message leaves a command behind that
\* nothing fetches until another is typed, and uses up a place for good.
Backlog == ~raced /\ pc = "idle" =>
               /\ cmdCnt = Len(recorded) - Len(taken)
               /\ cmdCnt = notices + refused

\* If every message is accepted and no increment is lost, main() fetches every
\* command that was recorded.
AllServed == []<>(raced \/ refused > 0 \/ taken = recorded)
-----------------------------------------------------------------------------
\* The lines in a byte string, defined on the string as a whole.  A CR counts
\* unless the CR just before it counts: that one takes it for the byte after.
Counts(s) == {i \in 1..Len(s) :
                 \E j \in 1..i : /\ (\A k \in j..i : s[k] = CR)
                                /\ (j = 1 \/ s[j - 1] # CR)
                                /\ (i - j) % 2 = 0}
\* A line begins after the byte that follows a CR that counts.
Begin(s, i) == 1 + Max({0} \cup {j + 1 : j \in {j \in Counts(s) : j < i}})
Ended(s) == {i \in Counts(s) : i < Len(s) /\ s[i + 1] = LF}
Cut(text) == IF Len(text) <= MaxSize THEN text ELSE SubSeq(text, 1, MaxSize)
Line(s, i) == Cut(SubSeq(s, Begin(s, i), i - 1))

\* The ring received exactly the lines typed, in order, each cut at
\* COMMAND_MAX_SIZE, up to the one that found it full.
RecordedAsTyped ==
    LET lines == Ended(seen) \ (IF end THEN {Len(seen) - 1} ELSE {})
    IN /\ Len(recorded) = Cardinality(lines)
       /\ \A i \in lines :
             recorded[Cardinality({j \in lines : j <= i})] = Line(seen, i)
=============================================================================
