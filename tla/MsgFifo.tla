------------------------------ MODULE MsgFifo ------------------------------
(***************************************************************************)
(* What SYSTEM/msg_interface.h promises to its callers: a bounded          *)
(* first-in first-out queue of (msg, para) pairs.  publishMsg either       *)
(* appends or refuses when the queue is full; getNextMsg hands out the     *)
(* oldest pair.                                                            *)
(***************************************************************************)
EXTENDS Naturals, Sequences

CONSTANTS Capacity,     \* MSG_MAX_LEN
          Message       \* the pairs callers publish

VARIABLES queue,        \* published and not yet handed out, oldest first
          got           \* the pair the last successful getNextMsg returned

fifoVars == <<queue, got>>

Init == queue = <<>> /\ got \in Message

Put(m) == /\ Len(queue) < Capacity
          /\ queue' = Append(queue, m)
          /\ UNCHANGED got

Get == /\ queue # <<>>
       /\ got' = Head(queue)
       /\ queue' = Tail(queue)

Next == Get \/ \E m \in Message : Put(m)

Spec == Init /\ [][Next]_fifoVars
=============================================================================
