---------------------------- MODULE MCConfigForm ----------------------------
(***************************************************************************)
(* The structure in small: two addresses of two octets and a port as wide  *)
(* as a byte; integers of two bytes.  The forms: a complete one, one       *)
(* without each parameter, one with each parameter cut short.              *)
(***************************************************************************)
EXTENDS ConfigForm

MCCell == {"aa", "ff", "worn", "d", "0", "1", "x", "y", "z", "stack"}
MCDefault == [i \in 2..(Size - 1) |-> IF i = 2 THEN "ff" ELSE "d"]
AllFaults == {"crash", "erase", "program"}

Param(first, parts, gate, complaint) ==
    [first |-> first, width |-> 1, parts |-> parts, gate |-> gate,
     complaint |-> complaint]
MCParams == <<Param(2, 2, FALSE, 1),    \* ip_addr
              Param(4, 2, TRUE, 0),     \* ip_gate
              Param(6, 1, FALSE, 3)>>   \* listen_port

Small(byte) == <<byte, "0">>
Large(byte) == <<byte, "z">>
Full == <<<<Small("x"), Large("ff")>>, <<Large("y"), Small("x")>>, <<Large("y")>>>>
MCForms == {Full}
           \cup {[Full EXCEPT ![k] = Absent] : k \in 1..3}
           \cup {[Full EXCEPT ![k] = SubSeq(@, 1, Len(@) - 1)] : k \in 1..3}
           \cup {[Full EXCEPT ![1] = Absent, ![2] = SubSeq(@, 1, 1)]}
MCStacks == {[i \in Addr |-> "stack"]}
=============================================================================
