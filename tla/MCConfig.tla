------------------------------ MODULE MCConfig ------------------------------
(***************************************************************************)
(* A configuration of a header and a few bytes; one of the form's bodies   *)
(* holds a byte that equals erased flash, as a netmask does.               *)
(***************************************************************************)
EXTENDS Config

MCCell == {"aa", "ff", "worn", "d", "x", "y"}
MCDefault == [i \in 2..(Size - 1) |-> IF i = 2 THEN "ff" ELSE "d"]
MCBodies == {[i \in 2..(Size - 1) |-> "x"],
             [i \in 2..(Size - 1) |-> IF i = 3 THEN "ff" ELSE "y"]}
AllFaults == {"crash", "erase", "program"}
=============================================================================
