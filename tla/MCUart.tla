------------------------------- MODULE MCUart -------------------------------
(***************************************************************************)
(* The bytes of a UART and the timing of the bus share no variable, so a   *)
(* run explores each while the other rests.  One UART, which holds more    *)
(* than a report takes.                                                    *)
(***************************************************************************)
EXTENDS Fsmc, UartFsmc

VARIABLE aspect         \* what is explored

busVars == <<fsmcVars, uartVars, aspect>>

Timing(A) == aspect = "timing" /\ A /\ UNCHANGED <<uartVars, aspect>>
Bytes(A) == aspect = "bytes" /\ A /\ UNCHANGED <<fsmcVars, aspect>>

BusInit == FsmcInit /\ UartInit /\ aspect \in {"timing", "bytes"}
BusNext == Timing(FsmcNext) \/ Bytes(UartNext)

\* The fairness of FairFsmcSpec.
BusSpec == /\ BusInit /\ [][BusNext]_busVars
           /\ WF_busVars(Timing(Time)) /\ WF_busVars(Timing(Count("eth")))
           /\ WF_busVars(Timing(ResetHold \/ ResetHigh))
           /\ SF_busVars(Timing(LeaveIrq)) /\ SF_busVars(Timing(Count("main")))
=============================================================================
