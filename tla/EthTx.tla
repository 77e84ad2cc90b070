-------------------------------- MODULE EthTx --------------------------------
(***************************************************************************)
(* Transmission in HARDWARE/lan8720.c and netif/ethernetif.c: lwIP calls   *)
(* low_level_output in main() and in ETH_IRQHandler, which interrupts      *)
(* main() anywhere.  DMATxDescToSet is a global that each statement of     *)
(* ETH_Tx_Packet reads again; a descriptor and its buffer are the DMA's    *)
(* while its OWN bit is set.                                               *)
(***************************************************************************)
EXTENDS Integers, Sequences, FiniteSets

CONSTANTS TxN,          \* ETH_TXBUFNB
          TxIds         \* frames to send are numbered 0 .. TxIds - 1 in turn

ASSUME TxAssumption == TxN \in Nat /\ TxN > 0 /\ TxIds \in Nat /\ TxIds > TxN

Ctx == {"main", "eth"}

VARIABLES txOwn,        \* [0 .. TxN-1 -> BOOLEAN]: the OWN bits
          txBuf,        \* the frame each buffer holds
          DMATxDescToSet,
          txDma,        \* the DMA's current descriptor
          TBUS,         \* the DMA found no frame and waits for a poll demand
          inIrq,        \* ETH_IRQHandler is running
          tx,           \* where low_level_output stands in each context
          buffer,       \* its local: the descriptor whose buffer it fills
          out,          \* its argument
          sending,      \* the number of the next frame to send
          due,          \* history: frames handed over and not yet sent
          nested,       \* history: an output interrupted an output
          full          \* history: a frame was copied into the DMA's buffer
txVars == <<txOwn, txBuf, DMATxDescToSet, txDma, TBUS, inIrq, tx, buffer, out,
            sending, due, nested, full>>

\* Buffer2NextDescAddr: the last descriptor is chained to the first.
TxDesc == 0..(TxN - 1)
Following(d) == IF d = TxN - 1 THEN 0 ELSE d + 1

\* ETH_DMATxDescChainInit.
TxInit == /\ txOwn = [d \in TxDesc |-> FALSE]
          /\ txBuf = [d \in TxDesc |-> 0]
          /\ DMATxDescToSet = 0 /\ txDma = 0 /\ TBUS = FALSE
          /\ inIrq = FALSE
          /\ tx = [c \in Ctx |-> "idle"]
          /\ buffer = [c \in Ctx |-> 0] /\ out = [c \in Ctx |-> 0]
          /\ sending = 0 /\ due = <<>> /\ nested = FALSE /\ full = FALSE
-----------------------------------------------------------------------------
EnterIrq == /\ ~inIrq /\ inIrq' = TRUE
            /\ UNCHANGED <<txOwn, txBuf, DMATxDescToSet, txDma, TBUS, tx, buffer,
                           out, sending, due, nested, full>>
LeaveIrq == /\ inIrq /\ tx["eth"] = "idle" /\ inIrq' = FALSE
            /\ UNCHANGED <<txOwn, txBuf, DMATxDescToSet, txDma, TBUS, tx, buffer,
                           out, sending, due, nested, full>>

Runs(c) == IF c = "main" THEN ~inIrq ELSE inIrq
Goto(c, point) == tx' = [tx EXCEPT ![c] = point]
\* The locals of a call that is over mean nothing.
Return(c) == /\ Goto(c, "idle")
             /\ buffer' = [buffer EXCEPT ![c] = 0]
             /\ out' = [out EXCEPT ![c] = 0]

\* The frames handed over are followed while outputs do not interfere.
Undisturbed == ~nested /\ ~full
Follow(seq) == due' = IF Undisturbed' THEN seq ELSE <<>>

\* Mutant: the frame goes into the buffer after the current one.
OutputAhead(c) ==
    /\ Runs(c) /\ tx[c] = "idle"
    /\ Goto(c, "copy")
    /\ buffer' = [buffer EXCEPT ![c] = Following(DMATxDescToSet)]
    /\ out' = [out EXCEPT ![c] = sending]
    /\ sending' = (sending + 1) % TxIds
    /\ nested' = (nested \/ (c = "eth" /\ tx["main"] # "idle"))
    /\ UNCHANGED <<txOwn, txBuf, DMATxDescToSet, txDma, TBUS, inIrq, full>>
    /\ Follow(due)

\* low_level_output, line 50: ETH_GetCurrentTxBuffer.
Output(c) == /\ Runs(c) /\ tx[c] = "idle"
             /\ Goto(c, "copy")
             /\ buffer' = [buffer EXCEPT ![c] = DMATxDescToSet]
             /\ out' = [out EXCEPT ![c] = sending]
             /\ sending' = (sending + 1) % TxIds
             /\ nested' = (nested \/ (c = "eth" /\ tx["main"] # "idle"))
             /\ UNCHANGED <<txOwn, txBuf, DMATxDescToSet, txDma, TBUS, inIrq, full>>
             /\ Follow(due)

\* Lines 51 to 55, before anybody has looked at OWN.
CopyOut(c) == /\ Runs(c) /\ tx[c] = "copy"
              /\ txBuf' = [txBuf EXCEPT ![buffer[c]] = out[c]]
              /\ full' = (full \/ txOwn[buffer[c]])
              /\ Goto(c, "own?")
              /\ UNCHANGED <<txOwn, DMATxDescToSet, txDma, TBUS, inIrq, buffer,
                             out, sending, nested>>
              /\ Follow(due)

\* ETH_Tx_Packet, line 211: the DMA still owns the descriptor, ERR_MEM.
Busy(c) == /\ Runs(c) /\ tx[c] = "own?" /\ txOwn[DMATxDescToSet]
           /\ Return(c)
           /\ UNCHANGED <<txOwn, txBuf, DMATxDescToSet, txDma, TBUS, inIrq,
                          sending, due, nested, full>>
Free(c) == /\ Runs(c) /\ tx[c] = "own?" /\ ~txOwn[DMATxDescToSet]
           /\ Goto(c, "give")
           /\ UNCHANGED <<txOwn, txBuf, DMATxDescToSet, txDma, TBUS, inIrq,
                          buffer, out, sending, due, nested, full>>

\* Lines 212 to 214.
Give(c) == /\ Runs(c) /\ tx[c] = "give"
           /\ txOwn' = [txOwn EXCEPT ![DMATxDescToSet] = TRUE]
           /\ Goto(c, "demand")
           /\ UNCHANGED <<txBuf, DMATxDescToSet, txDma, TBUS, inIrq, buffer, out,
                          sending, nested, full>>
           /\ Follow(Append(due, out[c]))

\* Mutant: the poll demand is missing.
DemandNot(c) == /\ Runs(c) /\ tx[c] = "demand"
                /\ Goto(c, "advance")
                /\ UNCHANGED <<txOwn, txBuf, DMATxDescToSet, txDma, TBUS, inIrq,
                               buffer, out, sending, due, nested, full>>

\* Lines 215 to 219.
Demand(c) == /\ Runs(c) /\ tx[c] = "demand"
             /\ TBUS' = FALSE
             /\ Goto(c, "advance")
             /\ UNCHANGED <<txOwn, txBuf, DMATxDescToSet, txDma, inIrq, buffer,
                            out, sending, due, nested, full>>

\* Line 222.
Advance(c) == /\ Runs(c) /\ tx[c] = "advance"
              /\ DMATxDescToSet' = Following(DMATxDescToSet)
              /\ Return(c)
              /\ UNCHANGED <<txOwn, txBuf, txDma, TBUS, inIrq, sending, due,
                             nested, full>>

\* The DMA sends the frame of its current descriptor and moves on.
Transmit == /\ ~TBUS /\ txOwn[txDma]
            /\ txOwn' = [txOwn EXCEPT ![txDma] = FALSE]
            /\ txDma' = Following(txDma)
            /\ UNCHANGED <<txBuf, DMATxDescToSet, TBUS, inIrq, tx, buffer, out,
                           sending, nested, full>>
            /\ Follow(IF due = <<>> THEN due ELSE Tail(due))

\* It finds no frame and waits to be told of one: assumed of the hardware, OWN
\* is read and TBUS set in one step.
Suspend == /\ ~TBUS /\ ~txOwn[txDma]
           /\ TBUS' = TRUE
           /\ UNCHANGED <<txOwn, txBuf, DMATxDescToSet, txDma, inIrq, tx, buffer,
                          out, sending, due, nested, full>>
-----------------------------------------------------------------------------
TxPacket(c) == CopyOut(c) \/ Busy(c) \/ Free(c) \/ Give(c) \/ Demand(c) \/ Advance(c)

TxNext == \/ EnterIrq \/ LeaveIrq \/ Transmit \/ Suspend
          \/ \E c \in Ctx : Output(c) \/ TxPacket(c)

TxSpec == TxInit /\ [][TxNext]_txVars

\* The DMA and the handler never stop; interrupts leave main() some time.
FairTxSpec == /\ TxSpec
              /\ WF_txVars(Transmit) /\ WF_txVars(Suspend)
              /\ WF_txVars(TxPacket("eth")) /\ WF_txVars(LeaveIrq)
              /\ SF_txVars(TxPacket("main"))
-----------------------------------------------------------------------------
TxTypeOK == /\ txOwn \in [TxDesc -> BOOLEAN]
            /\ txBuf \in [TxDesc -> 0..(TxIds - 1)]
            /\ DMATxDescToSet \in TxDesc /\ txDma \in TxDesc
            /\ TBUS \in BOOLEAN /\ inIrq \in BOOLEAN
            /\ nested \in BOOLEAN /\ full \in BOOLEAN
            /\ tx \in [Ctx -> {"idle", "copy", "own?", "give", "demand", "advance"}]
            /\ buffer \in [Ctx -> TxDesc]
            /\ out \in [Ctx -> 0..(TxIds - 1)] /\ sending \in 0..(TxIds - 1)
            /\ due \in Seq(0..(TxIds - 1))

\* The DMA's own descriptors, from the one it sends next, hold the frames
\* low_level_output handed over, in order and intact - as long as no output of
\* the handler fell into one of main() and none was copied into a full ring
\* (ethernetif.c:50 takes the buffer before lan8720.c:211 looks at OWN).
ToSend == [i \in 1..Cardinality({d \in TxDesc : txOwn[d]})
                |-> txBuf[(txDma + i - 1) % TxN]]
TxAsGiven == Undisturbed => ToSend = due

\* A frame handed over is sent, though the DMA goes to sleep whenever it finds
\* none - unless nested outputs put driver and DMA out of step.
TxServed == \A d \in TxDesc : txOwn[d] ~> (~txOwn[d] \/ nested)
=============================================================================
