----------------------------- MODULE MCMainLoop -----------------------------
(***************************************************************************)
(* The two halves of main()'s loop share no variable, so a run explores    *)
(* each while the other rests.                                             *)
(***************************************************************************)
EXTENDS MainLoop, Periodic

VARIABLE half           \* the half that is explored

loopVars == <<mainVars, timeVars, half>>

Messaging(A) == half = "messages" /\ A /\ UNCHANGED <<timeVars, half>>
Timing(A) == half = "time" /\ A /\ UNCHANGED <<mainVars, half>>

LoopInit == MainInit /\ TimeInit /\ half \in {"messages", "time"}
LoopNext == Messaging(MainNext) \/ Timing(TimeNext)

\* The fairness of FairMainSpec.
LoopSpec == /\ LoopInit /\ [][LoopNext]_loopVars
            /\ WF_loopVars(Messaging(Main)) /\ WF_loopVars(Messaging(timerProcess))

\* The liveness properties of MainLoop where that half runs: every pair of
\* UARTs is polled for ever, and a lasting link loss ends in the pulse or was
\* refused by a full queue (USER/main.c:108, USER/msg_handlers.c:38).
PairsServed == half = "messages" => PairsPolled
LinkServed == half = "messages" => LinkLossServed

MCPeriod == [t \in Timers |-> IF t = "tcp" THEN 4 ELSE 7]
=============================================================================
