---------------------------- MODULE MCUnpacking ----------------------------
(***************************************************************************)
(* The parser on byte strings cut from the protocol: heads, lengths at the *)
(* limits, whole messages and their parts, in every order.                 *)
(***************************************************************************)
EXTENDS Unpacking

ResetTail == <<162, 0, 89>>
ResetFrame == <<170, 170, 5, 0>> \o ResetTail
SendFrame == <<170, 170, 9, 0, 161, 0, 3, 2, 7, 8, 66>>
\* num says two bytes and the length leaves room for none.
TightFrame == <<170, 170, 7, 0, 161, 0, 3, 2, 83>>
\* A message of length 0 with content enough to leave the buffer.
EmptyFrame == <<170, 170, 0, 0>> \o [i \in 1..15 |-> 1]
Pieces == {<<170>>, <<170, 170>>, <<0>>, <<3, 0>>, <<4, 0>>, <<5, 0>>,
           <<15, 0>>, <<16, 0>>, <<0, 1>>, ResetTail, ResetFrame, SendFrame,
           TightFrame, EmptyFrame}

\* A complete set-config message: 105 bytes of COM_DEV_CONFIG and a check sum.
ConfigFrame == <<170, 170, 106, 0, 163, 0>> \o [i \in 1..101 |-> 0] \o <<243>>
ConfigPieces == {ConfigFrame, ResetFrame, <<170>>, <<1>>}
=============================================================================
