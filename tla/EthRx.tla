-------------------------------- MODULE EthRx --------------------------------
(***************************************************************************)
(* Reception in HARDWARE/lan8720.c and netif/ethernetif.c: a ring of       *)
(* descriptors shared with the Ethernet DMA.  A descriptor and its buffer  *)
(* are the DMA's while its OWN bit is set.  ETH_IRQHandler empties the     *)
(* ring and clears the pending bits; the DMA goes on storing meanwhile.    *)
(***************************************************************************)
EXTENDS Integers, FiniteSets

CONSTANTS RxN,          \* ETH_RXBUFNB
          RxIds,        \* frames are numbered 0 .. RxIds - 1 in turn
          LongFrames,   \* whether frames that need two buffers arrive
          MaxBurst      \* frames that arrive between the handler's last look
                        \* at the ring and its last store to DMASR

ASSUME RxAssumption == /\ RxN \in Nat /\ RxN > 1
                       /\ RxIds \in Nat /\ RxIds > RxN
                       /\ MaxBurst \in Nat /\ LongFrames \in BOOLEAN

NoFrame == -1

VARIABLES own,          \* [0 .. RxN-1 -> BOOLEAN]: the OWN bits, TRUE: the DMA's
          buf,          \* what each buffer holds: part of a frame, FS and LS
          DMARxDescToGet,
          dma,          \* the DMA's current descriptor
          arriving,     \* the number of the next frame
          half,         \* the DMA has stored the first part of a long frame
          R, NIS,       \* bits of DMASR; NIS raises the interrupt
          irq,          \* where ETH_IRQHandler stands
          frame,        \* the descriptor in hand
          p,            \* the frame lwIP is given, or NoFrame
          got,          \* history: the buffer last taken out of the ring
          burst,        \* history: frames stored since the handler's last look
          long          \* history: a long frame arrived
rxVars == <<own, buf, DMARxDescToGet, dma, arriving, half, R, NIS, irq, frame,
            p, got, burst, long>>

\* Buffer2NextDescAddr: the last descriptor is chained to the first.
RxDesc == 0..(RxN - 1)
After(d) == IF d = RxN - 1 THEN 0 ELSE d + 1

NextId(id) == IF id = RxIds - 1 THEN 0 ELSE id + 1

Segment(id, fs, ls) == [id |-> id, fs |-> fs, ls |-> ls]
Segments == [id : 0..(RxIds - 1), fs : BOOLEAN, ls : BOOLEAN]

\* ETH_DMARxDescChainInit.
RxInit == /\ own = [d \in RxDesc |-> TRUE]
          /\ buf = [d \in RxDesc |-> Segment(0, FALSE, FALSE)]
          /\ DMARxDescToGet = 0 /\ dma = 0
          /\ arriving = 0 /\ half = FALSE
          /\ R = FALSE /\ NIS = FALSE
          /\ irq = "off" /\ frame = 0 /\ p = NoFrame
          /\ got = Segment(0, FALSE, FALSE) /\ burst = 0 /\ long = FALSE
-----------------------------------------------------------------------------
\* The DMA.  A frame that finds no free descriptor is flushed, since DFRF is 0.

InWindow == irq \in {"clearR", "clearNIS"}
Store(fs, ls) ==
    /\ own[dma]
    /\ InWindow => burst < MaxBurst
    /\ own' = [own EXCEPT ![dma] = FALSE]
    /\ buf' = [buf EXCEPT ![dma] = Segment(arriving, fs, ls)]
    /\ dma' = After(dma)
    /\ half' = ~ls
    /\ burst' = IF InWindow THEN burst + 1 ELSE burst
    /\ UNCHANGED <<DMARxDescToGet, irq, frame, p, got>>

Complete == /\ R' = TRUE /\ NIS' = TRUE
            /\ arriving' = NextId(arriving)

StoreFrame == ~half /\ Store(TRUE, TRUE) /\ Complete /\ UNCHANGED long
StoreFirst == /\ LongFrames /\ ~half
              /\ Store(TRUE, FALSE) /\ long' = TRUE
              /\ UNCHANGED <<R, NIS, arriving>>
StoreLast == half /\ Store(FALSE, TRUE) /\ Complete /\ UNCHANGED long
Flush == ~own[dma] /\ UNCHANGED rxVars
-----------------------------------------------------------------------------
\* ETH_IRQHandler.

Ring == <<own, buf, dma, arriving, half, long>>

Enter == /\ irq = "off" /\ NIS
         /\ irq' = "check"
         /\ UNCHANGED <<Ring, DMARxDescToGet, R, NIS, frame, p, got, burst>>

\* ETH_GetRxPktSize: the buffer is the CPU's and ends a frame.
RxPktSize(d) == ~own[d] /\ buf[d].ls

Check == /\ irq = "check"
         /\ irq' = IF RxPktSize(DMARxDescToGet) THEN "take" ELSE "clearR"
         /\ burst' = 0
         /\ UNCHANGED <<Ring, DMARxDescToGet, R, NIS, frame, p, got>>

\* Mutants: the descriptor is given back before its frame is copied, and the
\* one after it is taken.
TakeReleasing == /\ irq = "take"
                 /\ frame' = DMARxDescToGet
                 /\ DMARxDescToGet' = After(DMARxDescToGet)
                 /\ own' = [own EXCEPT ![DMARxDescToGet] = TRUE]
                 /\ irq' = "copy"
                 /\ UNCHANGED <<buf, dma, arriving, half, long, R, NIS, p, got,
                                burst>>
TakeNext == /\ irq = "take"
            /\ frame' = After(DMARxDescToGet)
            /\ DMARxDescToGet' = After(DMARxDescToGet)
            /\ irq' = "copy"
            /\ UNCHANGED <<Ring, R, NIS, p, got, burst>>

\* ETH_Rx_Packet: the tests of line 190 hold for what passed the check.
Take == /\ irq = "take"
        /\ frame' = DMARxDescToGet
        /\ DMARxDescToGet' = After(DMARxDescToGet)
        /\ irq' = "copy"
        /\ UNCHANGED <<Ring, R, NIS, p, got, burst>>

\* low_level_input, lines 74 to 82: pbuf_alloc may find the pool empty.
Copy == /\ irq = "copy"
        /\ p' \in {NoFrame, buf[frame].id}
        /\ irq' = "release"
        /\ UNCHANGED <<Ring, DMARxDescToGet, R, NIS, frame, got, burst>>

\* Mutant: the descriptor is kept when pbuf_alloc fails.
ReleaseIfCopied == /\ irq = "release"
                   /\ own' = [own EXCEPT ![frame] = (p # NoFrame)]
                   /\ got' = buf[frame]
                   /\ irq' = "input"
                   /\ UNCHANGED <<buf, dma, arriving, half, long, DMARxDescToGet,
                                  R, NIS, frame, p, burst>>

\* Line 83.  The poll demand of lines 84 to 88 only hastens what the next
\* frame does by itself.
Release == /\ irq = "release"
           /\ own' = [own EXCEPT ![frame] = TRUE]
           /\ got' = buf[frame]
           /\ irq' = "input"
           /\ UNCHANGED <<buf, dma, arriving, half, long, DMARxDescToGet, R, NIS,
                          frame, p, burst>>

\* Mutant: one frame is taken for each interrupt.
InputOnce == /\ irq = "input"
             /\ irq' = "clearR"
             /\ UNCHANGED <<Ring, DMARxDescToGet, R, NIS, frame, p, got, burst>>

\* netif->input, lwIP's handling of the frame included: it touches none of
\* these variables.  Back to the loop of line 166.
Input == /\ irq = "input"
         /\ irq' = "check"
         /\ UNCHANGED <<Ring, DMARxDescToGet, R, NIS, frame, p, got, burst>>

ClearR == /\ irq = "clearR"
          /\ R' = FALSE
          /\ irq' = "clearNIS"
          /\ UNCHANGED <<Ring, DMARxDescToGet, NIS, frame, p, got, burst>>

\* Whether an R set meanwhile raises NIS again is left open.
ClearNIS == /\ irq = "clearNIS"
            /\ NIS' \in {FALSE, R}
            /\ irq' = "off"
            /\ UNCHANGED <<Ring, DMARxDescToGet, R, frame, p, got, burst>>
-----------------------------------------------------------------------------
ETH_IRQHandler == \/ Enter \/ Check \/ Take \/ Copy \/ Release
                  \/ Input \/ ClearR \/ ClearNIS

RxNext == \/ StoreFrame \/ StoreFirst \/ StoreLast \/ Flush
          \/ ETH_IRQHandler

RxSpec == RxInit /\ [][RxNext]_rxVars

\* The handler runs whenever it is called and never stops.
FairRxSpec == RxSpec /\ WF_rxVars(ETH_IRQHandler)
-----------------------------------------------------------------------------
RxTypeOK == /\ own \in [RxDesc -> BOOLEAN] /\ buf \in [RxDesc -> Segments]
            /\ DMARxDescToGet \in RxDesc /\ dma \in RxDesc
            /\ arriving \in 0..(RxIds - 1)
            /\ half \in BOOLEAN /\ long \in BOOLEAN
            /\ R \in BOOLEAN /\ NIS \in BOOLEAN
            /\ irq \in {"off", "check", "take", "copy", "release", "input",
                       "clearR", "clearNIS"}
            /\ frame \in RxDesc
            /\ p \in 0..(RxIds - 1) \cup {NoFrame}
            /\ got \in Segments
            /\ burst \in 0..MaxBurst

\* The filled buffers from the one in hand on, in the order of the chain.
Waiting == {d \in RxDesc : ~own[d]}
Oldest == IF irq \in {"copy", "release"} THEN frame ELSE DMARxDescToGet
InRing == [i \in 1..Cardinality(Waiting) |-> buf[(Oldest + i - 1) % RxN]]

\* Reception is a bounded FIFO: every buffer the DMA fills is taken out of the
\* ring once, in the order of arrival, and not overwritten before.
RxQueue == INSTANCE MsgFifo WITH Capacity <- RxN, Message <- Segments,
                                 queue <- InRing, got <- got
RxFifo == RxQueue!Spec

\* lwIP is given the frame of the buffer taken out of the ring, whole, though
\* the DMA goes on storing while it is copied (ethernetif.c:79, :83).
Delivered == irq = "input" /\ p # NoFrame => got = Segment(p, TRUE, TRUE)

\* Between interrupts no frame waits in the ring unannounced, except those
\* that came after the handler's last look and before it cleared NIS
\* (lan8720.c:166 and :171); and the ring then still has room for the next
\* frame, which announces them.
RxWaits == irq = "off" /\ ~NIS /\ ~long =>
              Cardinality(Waiting) <= burst /\ own[dma]

\* Every frame in the ring when the interrupt is taken is taken out of it,
\* unless a frame over two buffers came: ETH_GetRxPktSize sees no end of
\* frame in its first buffer and reception stops for good.
RxServed == \A d \in RxDesc :
               (irq = "off" /\ NIS /\ ~own[d]) ~> (own[d] \/ long)
=============================================================================
