------------------------------ MODULE MCEthDma ------------------------------
(***************************************************************************)
(* The two rings of the Ethernet driver share no variable, so that a       *)
(* behaviour of one beside every behaviour of the other shows nothing new: *)
(* a run explores each ring while the other rests.                         *)
(***************************************************************************)
EXTENDS EthRx, EthTx

VARIABLE ring           \* the ring that is explored

dmaVars == <<rxVars, txVars, ring>>

Reception(A) == ring = "rx" /\ A /\ UNCHANGED <<txVars, ring>>
Transmission(A) == ring = "tx" /\ A /\ UNCHANGED <<rxVars, ring>>

EthInit == RxInit /\ TxInit /\ ring \in {"rx", "tx"}
EthNext == Reception(RxNext) \/ Transmission(TxNext)

\* The fairness of FairRxSpec and of FairTxSpec.
EthSpec == /\ EthInit /\ [][EthNext]_dmaVars
           /\ WF_dmaVars(Reception(ETH_IRQHandler))
           /\ WF_dmaVars(Transmission(Transmit))
           /\ WF_dmaVars(Transmission(Suspend))
           /\ WF_dmaVars(Transmission(TxPacket("eth")))
           /\ WF_dmaVars(Transmission(LeaveIrq))
           /\ SF_dmaVars(Transmission(TxPacket("main")))
=============================================================================
