------------------------------- MODULE MCBoot -------------------------------
(***************************************************************************)
(* The allocator on a bank of nine blocks, used in two ways: by the start, *)
(* with regions of one or two blocks which together fit the bank or do     *)
(* not, and by callers that allocate and free in any order.                *)
(***************************************************************************)
EXTENDS Boot

\* A size of 0, of one and of two blocks, and one that no bank satisfies.
MCSizes == {0, 1, 3, 19}
MCChoices == [Name -> {1, 3}]

Callers == stage = "callers" /\ UNCHANGED bootVars

\* The callers have no use for the variables of the start.
CallersInit == /\ PoolInit
               /\ size = [n \in Name |-> 1]
               /\ ptr = [n \in Name |-> None]
               /\ stage = "callers" /\ todo = <<>> /\ cur = "none"

MCInit == Init \/ CallersInit
MCNext == Next \/ (Callers /\ PoolNext)

\* Both fair specifications ask for the loops, Boot's for the rest of the start.
MCSpec == MCInit /\ [][MCNext]_allVars /\ WF_allVars(Progress)

\* ComesUp, of the behaviours that are a start: if all six regions fit the bank
\* and the PHY stops failing, main() comes to its loop.
BoardUp == stage # "callers" => ComesUp
=============================================================================
