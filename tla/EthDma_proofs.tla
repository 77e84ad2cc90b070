---------------------------- MODULE EthDma_proofs ----------------------------
(***************************************************************************)
(* Proofs about the two descriptor rings, for every length of each: lwIP   *)
(* is given whole frames, each once and in the order they arrived, a frame *)
(* no later than the next arrival; and frames leave as low_level_output    *)
(* gave them, while it is not entered from the interrupt.                  *)
(***************************************************************************)
EXTENDS EthRx, EthTx, FiniteSetTheorems, SequenceTheorems, TLAPS

\* Steps along the chain from one descriptor to another.
Distance(a, d) == IF d >= a THEN d - a ELSE d - a + RxN
Before(d) == IF d = 0 THEN RxN - 1 ELSE d - 1

\* The filled buffers are the n from the oldest on; the DMA stands behind them.
Filled(n) == /\ n \in Nat /\ n <= RxN
             /\ n < RxN => Distance(Oldest, dma) = n
             /\ n = RxN => dma = Oldest
             /\ \A d \in RxDesc : own[d] <=> Distance(Oldest, d) >= n

\* The second part of a long frame lies behind its first part, which the
\* handler does not get past.
Second(d) == /\ ~own[Before(d)] /\ ~buf[Before(d)].ls
SecondsBehind == \A d \in RxDesc : ~own[d] /\ ~buf[d].fs => d # Oldest /\ Second(d)

InHand == irq \in {"copy", "release"}
HandInv == /\ irq = "take" => ~own[DMARxDescToGet] /\ buf[DMARxDescToGet].ls
           /\ InHand => /\ DMARxDescToGet = After(frame) /\ ~own[frame]
                        /\ buf[frame].ls /\ buf[frame].fs
           /\ irq = "release" /\ p # NoFrame => p = buf[frame].id

RingInv == /\ RxTypeOK
           /\ \E n \in Nat : Filled(n)
           /\ SecondsBehind
           /\ half => Second(dma)
           /\ HandInv
           /\ Delivered
-----------------------------------------------------------------------------
LEMMA ChainClosed ==
    ASSUME NEW d \in RxDesc
    PROVE  /\ After(d) \in RxDesc /\ Before(d) \in RxDesc
           /\ Before(After(d)) = d /\ After(Before(d)) = d /\ After(d) # d
  BY RxAssumption, SMT DEF RxDesc, After, Before

LEMMA NextIdCloses ==
    ASSUME NEW id \in 0..(RxIds - 1)
    PROVE  NextId(id) \in 0..(RxIds - 1)
  BY RxAssumption, SMT DEF NextId

LEMMA OldestInChain == RxTypeOK => Oldest \in RxDesc
  BY DEF RxTypeOK, Oldest

\* The ring with one buffer more, and with one less.
LEMMA OneMore ==
    ASSUME NEW o \in RxDesc, NEW m \in RxDesc, NEW n \in Nat, n < RxN,
           Distance(o, m) = n, NEW d \in RxDesc
    PROVE  /\ n + 1 < RxN => Distance(o, After(m)) = n + 1
           /\ n + 1 = RxN => After(m) = o
           /\ d # m => (Distance(o, d) >= n <=> Distance(o, d) >= n + 1)
  BY RxAssumption, SMT DEF RxDesc, Distance, After

LEMMA OneLess ==
    ASSUME NEW o \in RxDesc, NEW m \in RxDesc, NEW n \in Nat, n <= RxN, n > 0,
           n < RxN => Distance(o, m) = n, n = RxN => m = o, NEW d \in RxDesc
    PROVE  /\ Distance(After(o), m) = n - 1
           /\ d # o => (Distance(o, d) >= n <=> Distance(After(o), d) >= n - 1)
           /\ Distance(After(o), o) >= n - 1
  BY RxAssumption, SMT DEF RxDesc, Distance, After

LEMMA DistanceZero ==
    ASSUME NEW o \in RxDesc
    PROVE  Distance(o, o) = 0 /\ \A d \in RxDesc : Distance(o, d) \in Nat /\ Distance(o, d) < RxN
  BY RxAssumption, SMT DEF RxDesc, Distance
-----------------------------------------------------------------------------
LEMMA RingStart == RxInit => RingInv
  <1> SUFFICES ASSUME RxInit PROVE RingInv
    OBVIOUS
  <1> USE RxAssumption DEF RxInit
  <1>1. 0 \in RxDesc /\ 0 \in 0..(RxIds - 1)
    BY SMT DEF RxDesc
  <1>2. RxTypeOK
    <2>1. Segment(0, FALSE, FALSE) \in Segments
      BY <1>1 DEF Segment, Segments
    <2>2. burst \in 0..MaxBurst
      BY SMT
    <2> QED BY <1>1, <2>1, <2>2 DEF RxTypeOK
  <1>3. Filled(0)
    BY <1>1, DistanceZero, SMT DEF Filled, Oldest
  <1> QED BY <1>2, <1>3 DEF RingInv, SecondsBehind, HandInv, InHand, Delivered

\* What the DMA does to the ring when it stores a buffer.
LEMMA StoreKeeps ==
    ASSUME RingInv, NEW fs \in BOOLEAN, NEW ls \in BOOLEAN, Store(fs, ls),
           fs = ~half, long' \in BOOLEAN, R' \in BOOLEAN, NIS' \in BOOLEAN,
           arriving' \in 0..(RxIds - 1)
    PROVE  RingInv'
  <1> USE DEF Store
  <1>1. /\ own \in [RxDesc -> BOOLEAN] /\ buf \in [RxDesc -> Segments] /\ dma \in RxDesc
        /\ own[dma] /\ own' = [own EXCEPT ![dma] = FALSE]
        /\ buf' = [buf EXCEPT ![dma] = Segment(arriving, fs, ls)]
        /\ dma' = After(dma) /\ half' = ~ls
        /\ UNCHANGED <<DMARxDescToGet, irq, frame, p, got>>
        /\ Oldest \in RxDesc /\ Oldest' = Oldest
    BY OldestInChain DEF RingInv, RxTypeOK, Oldest
  <1>2. Segment(arriving, fs, ls) \in Segments
    BY DEF RingInv, RxTypeOK, Segment, Segments
  <1>3. RxTypeOK'
    <2>1. burst' \in 0..MaxBurst
      BY RxAssumption, SMT DEF RingInv, RxTypeOK
    <2> QED BY <1>1, <1>2, <2>1, ChainClosed DEF RingInv, RxTypeOK
  <1>4. \A d \in RxDesc : /\ d # dma => own'[d] = own[d] /\ buf'[d] = buf[d]
                          /\ d = dma => ~own'[d]
                          /\ own'[d] => own[d]
    BY <1>1
  <1>5. buf'[dma].fs = fs /\ buf'[dma].ls = ls
    BY <1>1 DEF Segment
  <1>6. \E n \in Nat : Filled(n)'
    <2>1. PICK n \in Nat : Filled(n)
      BY DEF RingInv
    <2>2. n < RxN /\ Distance(Oldest, dma) = n
      BY <1>1, <2>1, DistanceZero, RxAssumption, SMT DEF Filled
    <2>3. n + 1 \in Nat /\ n + 1 <= RxN
      BY <2>2, RxAssumption, SMT
    <2>4. \A d \in RxDesc : own'[d] <=> Distance(Oldest, d) >= n + 1
      <3> TAKE d \in RxDesc
      <3>1. CASE d = dma
        <4>1. ~own'[d]
          BY <1>4, <3>1
        <4>2. Distance(Oldest, d) = n
          BY <2>2, <3>1
        <4>3. ~(Distance(Oldest, d) >= n + 1)
          BY <4>2, SMT
        <4> QED BY <4>1, <4>3
      <3>2. CASE d # dma
        <4>1. own'[d] <=> own[d]
          BY <1>4, <3>2
        <4>2. own[d] <=> Distance(Oldest, d) >= n
          BY <2>1 DEF Filled
        <4>3. Distance(Oldest, d) >= n <=> Distance(Oldest, d) >= n + 1
          BY <1>1, <2>2, <3>2, OneMore
        <4> QED BY <4>1, <4>2, <4>3
      <3> QED BY <3>1, <3>2
    <2>5. Filled(n + 1)'
      BY <1>1, <2>2, <2>3, <2>4, OneMore DEF Filled, Distance
    <2> QED BY <2>3, <2>5
  <1>7. \A d \in RxDesc : Second(d) => Second(d)'
    BY <1>1, <1>4, ChainClosed DEF Second
  <1>8. SecondsBehind'
    <2> SUFFICES ASSUME NEW d \in RxDesc, ~own'[d], ~buf'[d].fs
                 PROVE  d # Oldest /\ Second(d)'
      BY <1>1 DEF SecondsBehind
    <2>1. CASE d = dma
      <3>1. half
        BY <1>5, <2>1
      <3>2. Second(dma)
        BY <3>1 DEF RingInv
      <3>3. dma # Oldest
        <4> SUFFICES ASSUME dma = Oldest PROVE FALSE
          OBVIOUS
        <4>1. PICK n \in Nat : Filled(n)
          BY DEF RingInv
        <4>2. n = 0
          BY <1>1, <4>1, DistanceZero, SMT DEF Filled
        <4>3. own[Before(dma)]
          BY <1>1, <4>1, <4>2, ChainClosed, DistanceZero, SMT DEF Filled
        <4> QED BY <3>2, <4>3 DEF Second
      <3> QED BY <1>1, <1>7, <2>1, <3>2, <3>3
    <2>2. CASE d # dma
      BY <1>4, <1>7, <2>2 DEF RingInv, SecondsBehind
    <2> QED BY <2>1, <2>2
  <1>9. half' => Second(dma)'
    <2> SUFFICES ASSUME half' PROVE Second(dma)'
      OBVIOUS
    <2>1. Before(dma') = dma
      BY <1>1, ChainClosed
    <2>2. ~own'[dma] /\ ~buf'[dma].ls
      BY <1>1, <1>4, <1>5
    <2> QED BY <2>1, <2>2 DEF Second, Before
  <1>10. HandInv'
    <2>1. frame \in RxDesc /\ DMARxDescToGet \in RxDesc
      BY DEF RingInv, RxTypeOK
    <2>2. \A d \in RxDesc : ~own[d] => ~own'[d] /\ buf'[d] = buf[d]
      BY <1>1, <1>4
    <2> QED BY <1>1, <2>1, <2>2 DEF RingInv, HandInv, InHand, After
  <1>11. Delivered'
    BY <1>1 DEF RingInv, Delivered
  <1> QED BY <1>3, <1>6, <1>8, <1>9, <1>10, <1>11 DEF RingInv

\* A step of the handler that leaves the ring and the oldest buffer alone.
LEMMA QuietKeeps ==
    ASSUME RingInv, UNCHANGED Ring, RxTypeOK', HandInv', Delivered', Oldest' = Oldest
    PROVE  RingInv'
  <1>1. \A n \in Nat : Filled(n) => Filled(n)'
    BY DEF Ring, Filled
  <1>2. SecondsBehind' /\ (half' => Second(dma)')
    BY DEF RingInv, SecondsBehind, Second, Ring
  <1> QED BY <1>1, <1>2 DEF RingInv

LEMMA ReleaseKeeps == RingInv /\ Release => RingInv'
  <1> SUFFICES ASSUME RingInv, Release PROVE RingInv'
    OBVIOUS
  <1> USE DEF Release
  <1>1. /\ own \in [RxDesc -> BOOLEAN] /\ buf \in [RxDesc -> Segments]
        /\ dma \in RxDesc /\ frame \in RxDesc
        /\ Oldest = frame /\ Oldest' = After(frame)
        /\ own' = [own EXCEPT ![frame] = TRUE] /\ buf' = buf /\ dma' = dma
        /\ ~own[frame] /\ buf[frame].ls /\ buf[frame].fs
        /\ p # NoFrame => p = buf[frame].id
    BY DEF RingInv, RxTypeOK, Oldest, HandInv, InHand
  <1>2. RxTypeOK'
    BY <1>1 DEF RingInv, RxTypeOK
  <1>3. \E n \in Nat : Filled(n)'
    <2>1. PICK n \in Nat : Filled(n)
      BY DEF RingInv
    <2>2. n > 0 /\ n <= RxN
      BY <1>1, <2>1, DistanceZero, SMT DEF Filled
    <2>3. n - 1 \in Nat /\ n - 1 < RxN
      BY <2>1, <2>2, RxAssumption, SMT
    <2>4. \A d \in RxDesc : own'[d] <=> Distance(After(frame), d) >= n - 1
      <3> TAKE d \in RxDesc
      <3>1. CASE d = frame
        BY <1>1, <2>1, <2>2, <3>1, OneLess DEF Filled
      <3>2. CASE d # frame
        <4>1. own'[d] <=> own[d]
          BY <1>1, <3>2
        <4>2. own[d] <=> Distance(frame, d) >= n
          BY <1>1, <2>1 DEF Filled
        <4>3. Distance(frame, d) >= n <=> Distance(After(frame), d) >= n - 1
          BY <1>1, <2>1, <2>2, <3>2, OneLess DEF Filled
        <4> QED BY <4>1, <4>2, <4>3
      <3> QED BY <3>1, <3>2
    <2>5. Distance(After(frame), dma) = n - 1
      BY <1>1, <2>1, <2>2, OneLess DEF Filled
    <2>6. n - 1 # RxN /\ n - 1 <= RxN
      BY <2>3, RxAssumption, SMT
    <2>7. Filled(n - 1)'
      BY <1>1, <2>3, <2>4, <2>5, <2>6 DEF Filled, Distance
    <2> QED BY <2>3, <2>7
  <1>4. \A d \in RxDesc : Second(d) => Second(d)'
    BY <1>1, ChainClosed DEF Second
  <1>5. SecondsBehind'
    <2> SUFFICES ASSUME NEW d \in RxDesc, ~own'[d], ~buf[d].fs
                 PROVE  d # After(frame) /\ Second(d)'
      BY <1>1 DEF SecondsBehind
    <2>1. ~own[d]
      BY <1>1
    <2>2. Second(d)
      BY <2>1 DEF RingInv, SecondsBehind
    <2>3. d # After(frame)
      BY <1>1, <2>2, ChainClosed DEF Second
    <2> QED BY <1>4, <2>2, <2>3
  <1>6. half' => Second(dma)'
    BY <1>1, <1>4 DEF RingInv, Second
  <1>7. HandInv'
    BY DEF HandInv, InHand
  <1>8. Delivered'
    <2>1. buf[frame] = Segment(buf[frame].id, TRUE, TRUE)
      <3>1. buf[frame] \in Segments
        BY <1>1
      <3>2. buf[frame].fs = TRUE /\ buf[frame].ls = TRUE
        BY <1>1, <3>1 DEF Segments
      <3> QED BY <3>1, <3>2 DEF Segments, Segment
    <2>2. got' = buf[frame] /\ p' = p
      OBVIOUS
    <2> QED BY <1>1, <2>1, <2>2 DEF Delivered, Segment
  <1> QED BY <1>2, <1>3, <1>5, <1>6, <1>7, <1>8 DEF RingInv

LEMMA TakeKeeps == RingInv /\ Take => RingInv'
  <1> SUFFICES ASSUME RingInv, Take PROVE RingInv'
    OBVIOUS
  <1> USE DEF Take
  <1>1. RxTypeOK'
    BY ChainClosed DEF RingInv, RxTypeOK, Ring
  <1>2. Oldest = DMARxDescToGet /\ Oldest' = Oldest
    BY DEF Oldest
  <1>3. /\ DMARxDescToGet \in RxDesc /\ ~own[DMARxDescToGet] /\ buf[DMARxDescToGet].ls
        /\ frame' = DMARxDescToGet /\ own' = own /\ buf' = buf
    BY DEF RingInv, RxTypeOK, HandInv, Ring
  <1>4. buf[DMARxDescToGet].fs
    BY <1>2, <1>3 DEF RingInv, SecondsBehind
  <1>5. HandInv'
    BY <1>3, <1>4 DEF HandInv, InHand, After
  <1> QED BY <1>1, <1>2, <1>5, QuietKeeps DEF Delivered

\* The steps of the handler that only look and move on.
LEMMA HandlerKeeps ==
    RingInv /\ (Enter \/ Check \/ Copy \/ Input \/ ClearR \/ ClearNIS) => RingInv'
  <1> SUFFICES ASSUME RingInv, Enter \/ Check \/ Copy \/ Input \/ ClearR \/ ClearNIS
               PROVE  RingInv'
    OBVIOUS
  <1>1. UNCHANGED Ring /\ UNCHANGED <<DMARxDescToGet, frame, got>>
    BY DEF Enter, Check, Copy, Input, ClearR, ClearNIS, Ring
  <1>2. Oldest' = Oldest
    BY <1>1 DEF Enter, Check, Copy, Input, ClearR, ClearNIS, Oldest
  <1>3. RxTypeOK'
    <2>1. 0 \in 0..MaxBurst
      BY RxAssumption, SMT
    <2>2. burst' \in 0..MaxBurst
      BY <2>1 DEF Enter, Check, Copy, Input, ClearR, ClearNIS, RingInv, RxTypeOK
    <2>3. p' \in 0..(RxIds - 1) \cup {NoFrame}
      <3>1. buf[frame].id \in 0..(RxIds - 1)
        <4>1. buf[frame] \in Segments
          BY DEF RingInv, RxTypeOK
        <4> QED BY <4>1 DEF Segments
      <3>2. p \in 0..(RxIds - 1) \cup {NoFrame}
        BY DEF RingInv, RxTypeOK
      <3>3. p' \in {p, NoFrame, buf[frame].id}
        BY DEF Enter, Check, Copy, Input, ClearR, ClearNIS
      <3> QED BY <3>1, <3>2, <3>3
    <2>4. irq' \in {"off", "check", "take", "copy", "release", "input", "clearR", "clearNIS"}
      BY DEF Enter, Check, Copy, Input, ClearR, ClearNIS
    <2>5. R' \in BOOLEAN /\ NIS' \in BOOLEAN
      BY DEF Enter, Check, Copy, Input, ClearR, ClearNIS, RingInv, RxTypeOK
    <2> QED BY <1>1, <2>2, <2>3, <2>4, <2>5 DEF RingInv, RxTypeOK, Ring
  <1>4. HandInv'
    <2>1. CASE Check
      <3>1. irq' = "take" => ~own[DMARxDescToGet] /\ buf[DMARxDescToGet].ls
        BY <2>1 DEF Check, RxPktSize
      <3>2. irq' \notin {"copy", "release"}
        BY <2>1 DEF Check
      <3> QED BY <1>1, <3>1, <3>2 DEF HandInv, InHand, Ring
    <2>2. CASE Copy
      BY <1>1, <2>2 DEF Copy, HandInv, InHand, Ring, RingInv, After
    <2>3. CASE Enter \/ Input \/ ClearR \/ ClearNIS
      BY <2>3 DEF Enter, Input, ClearR, ClearNIS, HandInv, InHand
    <2> QED BY <2>1, <2>2, <2>3
  <1>5. Delivered'
    BY DEF Enter, Check, Copy, Input, ClearR, ClearNIS, Delivered
  <1> QED BY <1>1, <1>2, <1>3, <1>4, <1>5, QuietKeeps
-----------------------------------------------------------------------------
LEMMA RingStep == RingInv /\ [RxNext]_rxVars => RingInv'
  <1> SUFFICES ASSUME RingInv, [RxNext]_rxVars PROVE RingInv'
    OBVIOUS
  <1>1. /\ half \in BOOLEAN /\ long \in BOOLEAN /\ R \in BOOLEAN /\ NIS \in BOOLEAN
        /\ arriving \in 0..(RxIds - 1) /\ NextId(arriving) \in 0..(RxIds - 1)
    BY NextIdCloses DEF RingInv, RxTypeOK
  <1>2. CASE StoreFrame
    BY <1>1, <1>2, StoreKeeps DEF StoreFrame, Complete
  <1>3. CASE StoreFirst
    BY <1>1, <1>3, StoreKeeps DEF StoreFirst
  <1>4. CASE StoreLast
    BY <1>1, <1>4, StoreKeeps DEF StoreLast, Complete
  <1>5. CASE ETH_IRQHandler
    BY <1>5, TakeKeeps, ReleaseKeeps, HandlerKeeps DEF ETH_IRQHandler
  <1>6. CASE UNCHANGED rxVars
    <2>1. UNCHANGED Ring /\ Oldest' = Oldest
      BY <1>6 DEF rxVars, Ring, Oldest
    <2>2. RxTypeOK' /\ HandInv' /\ Delivered'
      BY <1>6, ZenonT(30) DEF rxVars, RingInv, RxTypeOK, HandInv, InHand, Delivered, After
    <2> QED BY <2>1, <2>2, QuietKeeps
  <1>7. CASE Flush
    BY <1>6, <1>7 DEF Flush
  <1> QED BY <1>2, <1>3, <1>4, <1>5, <1>6, <1>7 DEF RxNext

\* The ring is sound in every state: the filled buffers are consecutive.
THEOREM RingSound == RxSpec => []RingInv
  BY RingStart, RingStep, PTL DEF RxSpec

\* Whatever the DMA stores while the handler copies, lwIP is given whole frames
\* as they arrived, for every length of the ring.
THEOREM FramesDelivered == RxSpec => []Delivered
  <1>1. RingInv => Delivered
    BY DEF RingInv
  <1> QED BY <1>1, RingSound, PTL
-----------------------------------------------------------------------------
(***************************************************************************)
(* The rings as queues: n consecutive descriptors of a chain of L, from o  *)
(* on, are n places.                                                       *)
(***************************************************************************)
Along(L, o, k) == (o + k) % L
Places(L, o, n) == {Along(L, o, i - 1) : i \in 1..n}
\* L buffers b, n of them filled from o on.
RingOf(b, L, o, n, S) == /\ L \in Nat \ {0} /\ o \in 0..(L - 1) /\ n \in 0..L
                         /\ b \in [0..(L - 1) -> S]
\* c is b but for what it holds at k.
Overwritten(b, c, L, k, s) == /\ c[k] = s
                              /\ \A i \in 0..(L - 1) : i # k => c[i] = b[i]
Held(b, L, o, n) == [i \in 1..n |-> b[Along(L, o, i - 1)]]

LEMMA AlongChain ==
    ASSUME NEW L \in Nat \ {0}, NEW o \in 0..(L - 1), NEW k \in 0..L
    PROVE  /\ Along(L, o, k) = IF o + k < L THEN o + k ELSE o + k - L
           /\ Along(L, o, k) \in 0..(L - 1)
  BY SMT DEF Along

LEMMA AlongDistinct ==
    ASSUME NEW L \in Nat \ {0}, NEW o \in 0..(L - 1), NEW j \in 0..L, NEW k \in 0..L,
           j < k, k < L
    PROVE  Along(L, o, j) # Along(L, o, k)
  BY SMT DEF Along

LEMMA AlongNext ==
    ASSUME NEW L \in Nat \ {0}, NEW o \in 0..(L - 1), NEW k \in 0..(L - 1)
    PROVE  Along(L, IF o = L - 1 THEN 0 ELSE o + 1, k) = Along(L, o, k + 1)
  BY SMT DEF Along

LEMMA ChainCount ==
    ASSUME NEW L \in Nat \ {0}, NEW o \in 0..(L - 1), NEW n \in 0..L
    PROVE  IsFiniteSet(Places(L, o, n)) /\ Cardinality(Places(L, o, n)) = n
  <1> DEFINE W == Places(L, o, n)
             f == [i \in 1..n |-> Along(L, o, i - 1)]
  <1>1. \A i, j \in 1..n : i < j => f[i] # f[j]
    <2> SUFFICES ASSUME NEW i \in 1..n, NEW j \in 1..n, i < j
                 PROVE  f[i] # f[j]
      OBVIOUS
    <2>1. i - 1 \in 0..L /\ j - 1 \in 0..L /\ i - 1 < j - 1 /\ j - 1 < L
      BY SMT
    <2> QED BY <2>1, AlongDistinct
  <1>2. \A i, j \in 1..n : f[i] = f[j] => i = j
    BY <1>1, SMT
  <1>3. f \in [1..n -> W] /\ \A w \in W : \E i \in 1..n : f[i] = w
    BY DEF Places
  <1>4. f \in Bijection(1..n, W)
    BY <1>2, <1>3 DEF Bijection, Injection, Surjection, IsInjective
  <1>5. ExistsBijection(1..n, W)
    BY <1>4 DEF ExistsBijection
  <1>6. n \in Nat
    BY SMT
  <1> QED BY <1>5, <1>6, FS_CountingElements, FS_NatBijection

\* What a ring holds from o on, one buffer more and one less.
LEMMA ChainAppend ==
    ASSUME NEW L, NEW o, NEW n, NEW S, NEW b, RingOf(b, L, o, n, S), n < L,
           NEW s \in S, NEW c,
           Overwritten(b, c, L, Along(L, o, n), s)
    PROVE  Held(c, L, o, n + 1) = Append(Held(b, L, o, n), s)
  <1> DEFINE q == [i \in 1..n |-> b[Along(L, o, i - 1)]]
             r == [i \in 1..(n + 1) |-> c[Along(L, o, i - 1)]]
  <1>0. L \in Nat \ {0} /\ o \in 0..(L - 1) /\ n \in 0..(L - 1)
    BY SMT DEF RingOf
  <1> b \in [0..(L - 1) -> S]
    BY DEF RingOf
  <1>1. n \in Nat /\ n \in 0..L
    BY <1>0, SMT
  <1>2. \A i \in 1..(n + 1) : i - 1 \in 0..L /\ Along(L, o, i - 1) \in 0..(L - 1)
    <2> TAKE i \in 1..(n + 1)
    <2>1. i - 1 \in 0..L
      BY <1>0, SMT
    <2> QED BY <1>0, <2>1, AlongChain
  <1>3. q \in Seq(S) /\ Len(q) = n
    <2>1. \A i \in 1..n : i \in 1..(n + 1)
      BY <1>0, SMT
    <2>2. q \in [1..n -> S]
      BY <1>2, <2>1
    <2> QED BY <1>1, <2>2
  <1>4. \A i \in 1..n : r[i] = q[i] /\ i \in 1..(n + 1)
    <2> TAKE i \in 1..n
    <2>1. i \in 1..(n + 1) /\ i - 1 \in 0..L /\ i - 1 < n /\ n < L
      BY <1>0, SMT
    <2>2. Along(L, o, i - 1) # Along(L, o, n)
      BY <1>0, <1>1, <2>1, AlongDistinct
    <2> QED BY <1>2, <2>1, <2>2 DEF Overwritten
  <1>5. r[n + 1] = s /\ n + 1 \in 1..(n + 1)
    <2>1. n + 1 \in 1..(n + 1) /\ (n + 1) - 1 = n
      BY <1>1, SMT
    <2> QED BY <1>1, <2>1 DEF Overwritten
  <1> HIDE DEF q
  <1>6. /\ Append(q, s) \in Seq(S) /\ Len(Append(q, s)) = n + 1
        /\ \A i \in 1..n : Append(q, s)[i] = q[i]
        /\ Append(q, s)[n + 1] = s
    BY <1>3, AppendProperties
  <1>7. Append(q, s) = [i \in 1..(n + 1) |-> Append(q, s)[i]]
    <2>1. Append(q, s) \in [1..(n + 1) -> S]
      BY <1>6, LenProperties
    <2> QED BY <2>1
  <1>8. \A i \in 1..(n + 1) : i \in 1..n \/ i = n + 1
    BY <1>1, SMT
  <1>9. \A i \in 1..(n + 1) : r[i] = Append(q, s)[i]
    BY <1>4, <1>5, <1>6, <1>8
  <1>10. r = Append(q, s)
    BY <1>7, <1>9
  <1> QED BY <1>10 DEF q, Held

LEMMA ChainTail ==
    ASSUME NEW L, NEW o, NEW n, NEW S, NEW b, RingOf(b, L, o, n, S), n > 0
    PROVE  /\ Held(b, L, o, n) # <<>> /\ Head(Held(b, L, o, n)) = b[o]
           /\ Held(b, L, IF o = L - 1 THEN 0 ELSE o + 1, n - 1)
                = Tail(Held(b, L, o, n))
  <1> DEFINE q == [i \in 1..n |-> b[Along(L, o, i - 1)]]
             a == IF o = L - 1 THEN 0 ELSE o + 1
  <1> b \in [0..(L - 1) -> S]
    BY DEF RingOf
  <1>0. L \in Nat \ {0} /\ o \in 0..(L - 1) /\ n \in 1..L
    BY SMT DEF RingOf
  <1>1. n \in Nat /\ n - 1 \in Nat /\ 1 \in 1..n
    BY <1>0, SMT
  <1>2. q \in Seq(S) /\ Len(q) = n
    <2>1. \A i \in 1..n : i - 1 \in 0..L
      BY <1>0, SMT
    <2>2. q \in [1..n -> S]
      BY <1>0, <2>1, AlongChain
    <2> QED BY <1>1, <2>2
  <1>3. q # <<>> /\ Head(q) = q[1] /\ Tail(q) = [i \in 1..(n - 1) |-> q[i + 1]]
    <2> HIDE DEF q
    <2>1. n > 0 /\ q \in Seq(S) /\ Len(q) = n
      BY <1>0, <1>2
    <2>2. q # <<>> /\ Head(q) = q[1]
      BY <2>1, SMT
    <2>3. /\ Tail(q) \in Seq(S) /\ Len(Tail(q)) = n - 1
          /\ \A i \in 1..(n - 1) : Tail(q)[i] = q[i + 1]
      <3>1. Len(q) = n /\ q \in Seq(S) /\ q # <<>>
        BY <2>1, <2>2
      <3> QED BY ONLY <3>1, HeadTailProperties
    <2>4. Tail(q) = [i \in 1..(n - 1) |-> q[i + 1]]
      <3> DEFINE t == Tail(q)
      <3>1. t = [i \in 1..(n - 1) |-> t[i]]
        BY <2>3, LenProperties
      <3> HIDE DEF t
      <3> QED BY ONLY <3>1, <2>3 DEF t
    <2> QED BY <2>2, <2>4
  <1>4. q[1] = b[o]
    <2>1. Along(L, o, 1 - 1) = o
      BY <1>0, SMT DEF Along
    <2> QED BY <1>1, <2>1
  <1>5. \A i \in 1..(n - 1) : b[Along(L, a, i - 1)] = q[i + 1]
    <2> TAKE i \in 1..(n - 1)
    <2>1. i - 1 \in 0..(L - 1) /\ i + 1 \in 1..n /\ (i - 1) + 1 = (i + 1) - 1
      BY <1>0, SMT
    <2>2. Along(L, a, i - 1) = Along(L, o, (i - 1) + 1)
      BY <1>0, <2>1, AlongNext
    <2> QED BY <2>1, <2>2
  <1> QED BY <1>3, <1>4, <1>5, ZenonT(30) DEF Held
-----------------------------------------------------------------------------
(***************************************************************************)
(* Reception is a bounded first-in first-out queue.                        *)
(***************************************************************************)

LEMMA RxAlong ==
    ASSUME NEW o \in RxDesc
    PROVE  /\ RxN \in Nat \ {0} /\ RxDesc = 0..(RxN - 1)
           /\ \A d \in RxDesc : /\ Distance(o, d) \in 0..(RxN - 1)
                                /\ Along(RxN, o, Distance(o, d)) = d
           /\ \A k \in 0..(RxN - 1) : /\ Along(RxN, o, k) \in RxDesc
                                      /\ Distance(o, Along(RxN, o, k)) = k
  <1>1. RxN \in Nat \ {0} /\ RxDesc = 0..(RxN - 1)
    BY RxAssumption, SMT DEF RxDesc
  <1>2. ASSUME NEW d \in RxDesc
        PROVE  Distance(o, d) \in 0..(RxN - 1) /\ Along(RxN, o, Distance(o, d)) = d
    BY <1>1, SMT DEF Distance, Along
  <1>3. ASSUME NEW k \in 0..(RxN - 1)
        PROVE  Along(RxN, o, k) \in RxDesc /\ Distance(o, Along(RxN, o, k)) = k
    <2>1. k \in 0..RxN
      BY <1>1, SMT
    <2>2. /\ Along(RxN, o, k) = IF o + k < RxN THEN o + k ELSE o + k - RxN
          /\ Along(RxN, o, k) \in 0..(RxN - 1)
      BY <1>1, <2>1, AlongChain
    <2> QED BY <1>1, <2>2, SMT DEF Distance
  <1> QED BY <1>1, <1>2, <1>3

\* The number of filled buffers, and what the queue holds.
LEMMA RingCount ==
    ASSUME RingInv, NEW n \in Nat, Filled(n)
    PROVE  /\ n \in 0..RxN /\ IsFiniteSet(Waiting) /\ Cardinality(Waiting) = n
           /\ InRing = Held(buf, RxN, Oldest, n)
  <1>1. Oldest \in RxDesc /\ own \in [RxDesc -> BOOLEAN]
    BY OldestInChain DEF RingInv, RxTypeOK
  <1>2. n \in 0..RxN
    BY RxAssumption, SMT DEF Filled
  <1>3. Waiting = Places(RxN, Oldest, n)
    <2>1. ASSUME NEW d \in RxDesc, ~own[d]
          PROVE  \E i \in 1..n : d = Along(RxN, Oldest, i - 1)
      <3>1. Distance(Oldest, d) \in 0..(RxN - 1) /\ Distance(Oldest, d) < n
        BY <1>1, <2>1, RxAlong, SMT DEF Filled
      <3>2. Distance(Oldest, d) + 1 \in 1..n /\ (Distance(Oldest, d) + 1) - 1 = Distance(Oldest, d)
        BY <3>1, SMT
      <3> QED BY <1>1, <3>2, RxAlong
    <2>2. ASSUME NEW i \in 1..n
          PROVE  Along(RxN, Oldest, i - 1) \in Waiting
      <3>1. i - 1 \in 0..(RxN - 1) /\ ~(i - 1 >= n)
        BY <1>2, RxAssumption, SMT
      <3>2. Along(RxN, Oldest, i - 1) \in RxDesc /\ Distance(Oldest, Along(RxN, Oldest, i - 1)) = i - 1
        BY <1>1, <3>1, RxAlong
      <3> QED BY <3>1, <3>2 DEF Filled, Waiting
    <2> QED BY <2>1, <2>2 DEF Waiting, Places
  <1>4. IsFiniteSet(Waiting) /\ Cardinality(Waiting) = n
    BY <1>1, <1>2, <1>3, RxAlong, ChainCount
  <1>5. InRing = Held(buf, RxN, Oldest, n)
    <2>1. Oldest \in Int
      BY <1>1, RxAssumption, SMT DEF RxDesc
    <2>2. \A i \in 1..n : (Oldest + i - 1) % RxN = Along(RxN, Oldest, i - 1)
      <3> TAKE i \in 1..n
      <3>1. Oldest + i - 1 = Oldest + (i - 1)
        BY <2>1, SMT
      <3> QED BY <3>1 DEF Along
    <2> QED BY <1>4, <2>2 DEF InRing, Held
  <1> QED BY <1>2, <1>4, <1>5

\* Storing a buffer appends it.
LEMMA StoreAppends ==
    ASSUME RingInv, NEW fs \in BOOLEAN, NEW ls \in BOOLEAN, Store(fs, ls)
    PROVE  /\ RxQueue!Put(Segment(arriving, fs, ls))
           /\ Segment(arriving, fs, ls) \in Segments
           /\ Cardinality(Waiting) \in Nat
           /\ Cardinality(Waiting') = Cardinality(Waiting) + 1
  <1> USE DEF Store
  <1>1. /\ own \in [RxDesc -> BOOLEAN] /\ buf \in [RxDesc -> Segments] /\ dma \in RxDesc
        /\ own[dma] /\ own' = [own EXCEPT ![dma] = FALSE]
        /\ buf' = [buf EXCEPT ![dma] = Segment(arriving, fs, ls)]
        /\ Oldest \in RxDesc /\ Oldest' = Oldest /\ got' = got
    BY OldestInChain DEF RingInv, RxTypeOK, Oldest
  <1>2. Segment(arriving, fs, ls) \in Segments
    BY DEF RingInv, RxTypeOK, Segment, Segments
  <1>3. PICK n \in Nat : Filled(n)
    BY DEF RingInv
  <1>4. /\ n \in 0..RxN /\ IsFiniteSet(Waiting) /\ Cardinality(Waiting) = n
        /\ InRing = Held(buf, RxN, Oldest, n)
    BY <1>3, RingCount
  <1>5. n < RxN /\ Distance(Oldest, dma) = n /\ n \in 0..(RxN - 1)
    BY <1>1, <1>3, DistanceZero, RxAssumption, SMT DEF Filled
  <1>6. dma = Along(RxN, Oldest, n)
    BY <1>1, <1>5, RxAlong
  <1>7. Waiting' = Waiting \cup {dma} /\ dma \notin Waiting
    BY <1>1 DEF Waiting
  <1>8. Cardinality(Waiting') = n + 1
    BY <1>4, <1>7, FS_AddElement
  <1>9. InRing' = Held(buf', RxN, Oldest, n + 1)
    <2>1. Oldest \in Int
      BY <1>1, RxAssumption, SMT DEF RxDesc
    <2>2. \A i \in 1..(n + 1) : (Oldest + i - 1) % RxN = Along(RxN, Oldest, i - 1)
      <3> TAKE i \in 1..(n + 1)
      <3>1. Oldest + i - 1 = Oldest + (i - 1)
        BY <2>1, SMT
      <3> QED BY <3>1 DEF Along
    <2>3. InRing' = [i \in 1..(n + 1) |-> buf'[(Oldest + i - 1) % RxN]]
      BY <1>1, <1>8 DEF InRing
    <2> QED BY <2>2, <2>3 DEF Held
  <1>10. InRing' = Append(InRing, Segment(arriving, fs, ls))
    <2>1. buf \in [0..(RxN - 1) -> Segments] /\ RxN \in Nat \ {0} /\ Oldest \in 0..(RxN - 1)
      BY <1>1, RxAlong
    <2>2. Overwritten(buf, buf', RxN, Along(RxN, Oldest, n), Segment(arriving, fs, ls))
      BY <1>1, <1>6, <2>1 DEF Overwritten
    <2>3. RingOf(buf, RxN, Oldest, n, Segments)
      BY <1>4, <2>1 DEF RingOf
    <2> HIDE DEF Store
    <2>4. Held(buf', RxN, Oldest, n + 1)
             = Append(Held(buf, RxN, Oldest, n), Segment(arriving, fs, ls))
      BY <1>2, <1>5, <2>2, <2>3, ChainAppend
    <2> QED BY <1>4, <1>9, <2>4
  <1>11. Len(InRing) < RxN
    <2>1. Len(InRing) = n
      BY <1>4 DEF Held
    <2> QED BY <1>5, <2>1
  <1> QED BY <1>1, <1>2, <1>4, <1>8, <1>10, <1>11 DEF RxQueue!Put

\* Giving a buffer back takes the oldest one out.
LEMMA ReleaseGets == RingInv /\ Release => RxQueue!Get
  <1> SUFFICES ASSUME RingInv, Release PROVE RxQueue!Get
    OBVIOUS
  <1>1. /\ own \in [RxDesc -> BOOLEAN] /\ buf \in [RxDesc -> Segments]
        /\ frame \in RxDesc /\ Oldest = frame /\ Oldest' = After(frame)
        /\ own' = [own EXCEPT ![frame] = TRUE] /\ buf' = buf
        /\ ~own[frame] /\ got' = buf[frame]
    BY DEF RingInv, RxTypeOK, Oldest, HandInv, InHand, Release
  <1>2. PICK n \in Nat : Filled(n)
    BY DEF RingInv
  <1>3. /\ n \in 0..RxN /\ IsFiniteSet(Waiting) /\ Cardinality(Waiting) = n
        /\ InRing = Held(buf, RxN, frame, n)
    BY <1>1, <1>2, RingCount
  <1>4. n \in 1..RxN
    BY <1>1, <1>2, <1>3, DistanceZero, SMT DEF Filled
  <1>5. Waiting' = Waiting \ {frame} /\ frame \in Waiting
    BY <1>1 DEF Waiting
  <1>6. Cardinality(Waiting') = n - 1
    BY <1>3, <1>5, FS_RemoveElement
  <1>7. InRing' = Held(buf, RxN, IF frame = RxN - 1 THEN 0 ELSE frame + 1, n - 1)
    <2>1. After(frame) \in Int
      BY <1>1, RxAssumption, SMT DEF RxDesc, After
    <2>2. \A i \in 1..(n - 1) : (After(frame) + i - 1) % RxN = Along(RxN, After(frame), i - 1)
      <3> TAKE i \in 1..(n - 1)
      <3>1. After(frame) + i - 1 = After(frame) + (i - 1)
        BY <2>1, SMT
      <3> QED BY <3>1 DEF Along
    <2>3. InRing' = [i \in 1..(n - 1) |-> buf[(After(frame) + i - 1) % RxN]]
      BY <1>1, <1>6 DEF InRing
    <2> QED BY <2>2, <2>3 DEF After, Held
  <1>8. RingOf(buf, RxN, frame, n, Segments) /\ n > 0
    BY <1>1, <1>3, <1>4, RxAlong, SMT DEF RingOf
  <1>9. InRing # <<>> /\ Head(InRing) = buf[frame] /\ InRing' = Tail(InRing)
    BY <1>3, <1>7, <1>8, ChainTail
  <1> QED BY <1>1, <1>9 DEF RxQueue!Get

\* The other steps leave the queue as it is.
LEMMA OthersLeave ==
    ASSUME RingInv, \/ Enter \/ Check \/ Take \/ Copy \/ Input \/ ClearR \/ ClearNIS
                    \/ UNCHANGED rxVars
    PROVE  InRing' = InRing /\ got' = got /\ Waiting' = Waiting
  <1>1. UNCHANGED Ring /\ got' = got
    BY DEF Enter, Check, Take, Copy, Input, ClearR, ClearNIS, Ring, rxVars
  <1>2. Oldest' = Oldest
    BY DEF Enter, Check, Take, Copy, Input, ClearR, ClearNIS, rxVars, Oldest
  <1>3. Waiting' = Waiting
    BY <1>1 DEF Waiting, Ring
  <1> QED BY <1>1, <1>2, <1>3 DEF InRing, Ring

LEMMA QueueStep == RingInv /\ [RxNext]_rxVars => [RxQueue!Next]_RxQueue!fifoVars
  <1> SUFFICES ASSUME RingInv, [RxNext]_rxVars PROVE [RxQueue!Next]_RxQueue!fifoVars
    OBVIOUS
  <1>1. ASSUME NEW fs \in BOOLEAN, NEW ls \in BOOLEAN, Store(fs, ls)
        PROVE  RxQueue!Next
    BY <1>1, StoreAppends DEF RxQueue!Next
  <1>2. CASE StoreFrame \/ StoreFirst \/ StoreLast
    BY <1>1, <1>2 DEF StoreFrame, StoreFirst, StoreLast
  <1>3. CASE Release
    BY <1>3, ReleaseGets DEF RxQueue!Next
  <1>4. CASE \/ Enter \/ Check \/ Take \/ Copy \/ Input \/ ClearR \/ ClearNIS
             \/ UNCHANGED rxVars
    BY <1>4, OthersLeave DEF RxQueue!fifoVars
  <1> QED BY <1>2, <1>3, <1>4 DEF RxNext, ETH_IRQHandler, Flush

LEMMA QueueStart == RxInit => RxQueue!Init
  <1> SUFFICES ASSUME RxInit PROVE RxQueue!Init
    OBVIOUS
  <1>1. Waiting = {}
    BY DEF RxInit, Waiting
  <1>2. Cardinality(Waiting) = 0
    BY <1>1, FS_EmptySet
  <1>3. InRing = <<>>
    BY <1>2 DEF InRing
  <1>4. got \in Segments
    BY RxAssumption, SMT DEF RxInit, Segment, Segments
  <1> QED BY <1>3, <1>4 DEF RxQueue!Init

\* Every buffer the DMA fills is taken out of the ring once, in the order of
\* arrival, and never overwritten before, for every length of the ring and
\* whether or not frames over two buffers come.
THEOREM ReceptionIsFifo == RxSpec => RxFifo
  BY QueueStart, QueueStep, RingSound, PTL DEF RxSpec, RxFifo, RxQueue!Spec
-----------------------------------------------------------------------------
(***************************************************************************)
(* What waits in the ring between interrupts.                              *)
(***************************************************************************)

\* As long as no long frame came, every filled buffer ends a frame, so that
\* the handler leaves its loop with an empty ring; what is stored from then
\* until it clears NIS is counted by burst.
WaitInv == ~long =>
    /\ ~half
    /\ \A d \in RxDesc : ~own[d] => buf[d].ls
    /\ InWindow => Cardinality(Waiting) <= burst
    /\ irq = "off" /\ ~NIS => Cardinality(Waiting) <= burst

LEMMA WaitStart == RxInit => WaitInv
  <1> SUFFICES ASSUME RxInit PROVE WaitInv
    OBVIOUS
  <1>1. Waiting = {}
    BY DEF RxInit, Waiting
  <1>2. Cardinality(Waiting) = 0
    BY <1>1, FS_EmptySet
  <1> QED BY <1>2, SMT DEF RxInit, WaitInv, InWindow

LEMMA WaitStore ==
    ASSUME RingInv, WaitInv, NEW fs \in BOOLEAN, NEW ls \in BOOLEAN, Store(fs, ls),
           ~long' => ~long /\ ls /\ (irq = "off" => NIS')
    PROVE  WaitInv'
  <1> SUFFICES ASSUME ~long' PROVE WaitInv'
    BY DEF WaitInv
  <1>1. /\ own \in [RxDesc -> BOOLEAN] /\ buf \in [RxDesc -> Segments] /\ dma \in RxDesc
        /\ own' = [own EXCEPT ![dma] = FALSE]
        /\ buf' = [buf EXCEPT ![dma] = Segment(arriving, fs, ls)]
        /\ irq' = irq /\ half' = ~ls /\ burst \in Nat
        /\ InWindow => burst' = burst + 1
    <2>1. burst \in Nat
      BY RxAssumption, SMT DEF RingInv, RxTypeOK
    <2> QED BY <2>1 DEF RingInv, RxTypeOK, Store
  <1>2. Cardinality(Waiting) \in Nat /\ Cardinality(Waiting') = Cardinality(Waiting) + 1
    BY StoreAppends
  <1>3. ls /\ ~long /\ (irq = "off" => NIS')
    OBVIOUS
  <1>4. \A d \in RxDesc : ~own'[d] => buf'[d].ls
    <2> TAKE d \in RxDesc
    <2>1. CASE d = dma
      BY <1>1, <1>3, <2>1 DEF Segment
    <2>2. CASE d # dma
      BY <1>1, <1>3, <2>2 DEF WaitInv
    <2> QED BY <2>1, <2>2
  <1>5. InWindow' => Cardinality(Waiting') <= burst'
    <2> SUFFICES ASSUME InWindow' PROVE Cardinality(Waiting') <= burst'
      OBVIOUS
    <2>1. InWindow
      BY <1>1 DEF InWindow
    <2>2. Cardinality(Waiting) <= burst /\ burst' = burst + 1
      BY <1>1, <1>3, <2>1 DEF WaitInv
    <2> QED BY <1>1, <1>2, <2>2, SMT
  <1>6. ~half'
    BY <1>1, <1>3
  <1>7. ~(irq' = "off" /\ ~NIS')
    BY <1>1, <1>3
  <1> QED BY <1>4, <1>5, <1>6, <1>7 DEF WaitInv

\* The handler's last look finds the ring empty.
LEMMA LastLook ==
    ASSUME RingInv, WaitInv, ~long, irq = "check", ~RxPktSize(DMARxDescToGet)
    PROVE  Cardinality(Waiting) = 0
  <1>1. Oldest = DMARxDescToGet /\ Oldest \in RxDesc
    BY OldestInChain DEF Oldest, RingInv
  <1>2. own[Oldest]
    BY <1>1 DEF RxPktSize, WaitInv
  <1>3. PICK n \in Nat : Filled(n)
    BY DEF RingInv
  <1>4. n = 0
    BY <1>1, <1>2, <1>3, DistanceZero, SMT DEF Filled
  <1> QED BY <1>3, <1>4, RingCount

LEMMA WaitStep == RingInv /\ WaitInv /\ [RxNext]_rxVars => WaitInv'
  <1> SUFFICES ASSUME RingInv, WaitInv, [RxNext]_rxVars PROVE WaitInv'
    OBVIOUS
  <1>1. CASE StoreFrame
    <2>1. Store(TRUE, TRUE) /\ long' = long /\ NIS' = TRUE
      BY <1>1 DEF StoreFrame, Complete
    <2> QED BY <2>1, WaitStore
  <1>2. CASE StoreFirst
    BY <1>2 DEF StoreFirst, WaitInv
  <1>3. CASE StoreLast
    <2>1. Store(FALSE, TRUE) /\ long' = long /\ NIS' = TRUE
      BY <1>3 DEF StoreLast, Complete
    <2> QED BY <2>1, WaitStore
  <1>4. CASE Check
    <2>1. UNCHANGED Ring /\ burst' = 0 /\ Waiting' = Waiting
          /\ irq' = IF RxPktSize(DMARxDescToGet) THEN "take" ELSE "clearR"
      BY <1>4, OthersLeave DEF Check
    <2>2. CASE RxPktSize(DMARxDescToGet)
      BY <2>1, <2>2 DEF WaitInv, InWindow, Ring
    <2>3. CASE ~RxPktSize(DMARxDescToGet)
      <3>1. ~long => Cardinality(Waiting) = 0
        BY <1>4, <2>3, LastLook DEF Check
      <3>2. ~long => Cardinality(Waiting') <= burst'
        BY <2>1, <3>1, SMT
      <3> QED BY <2>1, <2>3, <3>2 DEF WaitInv, InWindow, Ring
    <2> QED BY <2>2, <2>3
  <1>5. CASE Release
    <2>1. /\ irq' = "input" /\ long' = long /\ half' = half /\ buf' = buf
          /\ own \in [RxDesc -> BOOLEAN] /\ own' = [own EXCEPT ![frame] = TRUE]
      BY <1>5 DEF Release, RingInv, RxTypeOK
    <2> QED BY <2>1 DEF WaitInv, InWindow
  <1>6. CASE ClearR \/ ClearNIS
    <2>1. UNCHANGED Ring /\ burst' = burst /\ Waiting' = Waiting /\ InWindow
      BY <1>6, OthersLeave DEF ClearR, ClearNIS, InWindow
    <2> QED BY <2>1 DEF WaitInv, Ring
  <1>7. CASE Enter \/ Take \/ Copy \/ Input
    <2>1. UNCHANGED Ring /\ irq' \notin {"off", "clearR", "clearNIS"}
      BY <1>7 DEF Enter, Take, Copy, Input
    <2> QED BY <2>1 DEF WaitInv, InWindow, Ring
  <1>8. CASE UNCHANGED rxVars
    BY <1>8 DEF rxVars, WaitInv, InWindow, Waiting
  <1>9. CASE Flush
    BY <1>8, <1>9 DEF Flush
  <1> QED BY <1>1, <1>2, <1>3, <1>4, <1>5, <1>6, <1>7, <1>8, <1>9
          DEF RxNext, ETH_IRQHandler

\* Between interrupts no frame waits unannounced but the few that came after
\* the handler's last look, and there is room for the frame that announces
\* them - provided that fewer frames come between that look and the clearing
\* of NIS than the ring has buffers.
THEOREM NoFrameForgotten ==
    ASSUME MaxBurst < RxN
    PROVE  RxSpec => []RxWaits
  <1>1. RingInv /\ WaitInv => RxWaits
    <2> SUFFICES ASSUME RingInv, WaitInv, irq = "off", ~NIS, ~long
                 PROVE  Cardinality(Waiting) <= burst /\ own[dma]
      BY DEF RxWaits
    <2>1. Cardinality(Waiting) <= burst
      BY DEF WaitInv
    <2>2. PICK n \in Nat : Filled(n)
      BY DEF RingInv
    <2>3. n < RxN
      <3>1. burst <= MaxBurst /\ burst \in Nat
        BY RxAssumption, SMT DEF RingInv, RxTypeOK
      <3> QED BY <2>1, <2>2, <3>1, RingCount, RxAssumption, SMT
    <2>4. own[dma]
      BY <2>2, <2>3, SMT DEF Filled, RingInv, RxTypeOK
    <2> QED BY <2>1, <2>4
  <1> QED BY <1>1, WaitStart, WaitStep, RingSound, PTL DEF RxSpec
-----------------------------------------------------------------------------
(***************************************************************************)
(* Transmission: the DMA is handed the frames in order and intact as long  *)
(* as outputs do not interfere.                                            *)
(***************************************************************************)

LEMMA PlacesMore ==
    ASSUME NEW L \in Nat \ {0}, NEW o \in 0..(L - 1), NEW n \in 0..(L - 1)
    PROVE  Places(L, o, n + 1) = Places(L, o, n) \cup {Along(L, o, n)}
  <1>1. \A i \in 1..(n + 1) : i \in 1..n \/ i = n + 1
    BY SMT
  <1>2. n + 1 \in 1..(n + 1) /\ (n + 1) - 1 = n /\ \A i \in 1..n : i \in 1..(n + 1)
    BY SMT
  <1> QED BY <1>1, <1>2 DEF Places

LEMMA PlacesLess ==
    ASSUME NEW L \in Nat \ {0}, NEW o \in 0..(L - 1), NEW n \in 1..L
    PROVE  Places(L, IF o = L - 1 THEN 0 ELSE o + 1, n - 1) = Places(L, o, n) \ {o}
  <1> DEFINE a == IF o = L - 1 THEN 0 ELSE o + 1
  <1>1. ASSUME NEW i \in 1..(n - 1)
        PROVE  Along(L, a, i - 1) \in Places(L, o, n) \ {o}
    <2>1. i - 1 \in 0..(L - 1) /\ i + 1 \in 1..n /\ (i - 1) + 1 = (i + 1) - 1
          /\ 0 \in 0..L /\ i \in 0..L /\ 0 < i /\ i < L /\ (i - 1) + 1 = i
      BY SMT
    <2>2. Along(L, a, i - 1) = Along(L, o, (i - 1) + 1)
      BY <2>1, AlongNext
    <2>3. Along(L, o, i) # Along(L, o, 0) /\ Along(L, o, 0) = o
      BY <2>1, AlongDistinct, AlongChain, SMT
    <2> QED BY <2>1, <2>2, <2>3 DEF Places
  <1>2. ASSUME NEW i \in 1..n, Along(L, o, i - 1) # o
        PROVE  Along(L, o, i - 1) \in Places(L, a, n - 1)
    <2>1. i # 1
      <3>1. Along(L, o, 1 - 1) = o
        BY SMT DEF Along
      <3> QED BY <1>2, <3>1
    <2>2. i - 1 \in 1..(n - 1) /\ (i - 1) - 1 \in 0..(L - 1) /\ ((i - 1) - 1) + 1 = i - 1
      BY <2>1, SMT
    <2>3. Along(L, a, (i - 1) - 1) = Along(L, o, ((i - 1) - 1) + 1)
      BY <2>2, AlongNext
    <2> QED BY <2>2, <2>3 DEF Places
  <1> QED BY <1>1, <1>2 DEF Places

LEMMA FollowingInChain ==
    ASSUME NEW d \in TxDesc
    PROVE  /\ TxN \in Nat \ {0} /\ TxDesc = 0..(TxN - 1)
           /\ Following(d) \in TxDesc
           /\ Following(d) = IF d = TxN - 1 THEN 0 ELSE d + 1
  BY TxAssumption, SMT DEF TxDesc, Following
-----------------------------------------------------------------------------
LEMMA TxTypeInit == TxInit => TxTypeOK
  <1> SUFFICES ASSUME TxInit PROVE TxTypeOK
    OBVIOUS
  <1>1. 0 \in TxDesc /\ 0 \in 0..(TxIds - 1)
    BY TxAssumption, SMT DEF TxDesc
  <1>2. due \in Seq(0..(TxIds - 1))
    BY DEF TxInit
  <1> QED BY <1>1, <1>2 DEF TxInit, TxTypeOK

LEMMA FollowType ==
    ASSUME NEW s \in Seq(0..(TxIds - 1)), Follow(s)
    PROVE  due' \in Seq(0..(TxIds - 1))
  BY EmptySeq DEF Follow, Undisturbed

LEMMA TxTypeStep == TxTypeOK /\ [TxNext]_txVars => TxTypeOK'
  <1> SUFFICES ASSUME TxTypeOK, [TxNext]_txVars PROVE TxTypeOK'
    OBVIOUS
  <1> USE DEF Goto, Return
  <1>1. CASE EnterIrq \/ LeaveIrq \/ Suspend
    BY <1>1 DEF EnterIrq, LeaveIrq, Suspend, TxTypeOK
  <1>2. CASE Transmit
    <2>1. Following(txDma) \in TxDesc
      BY FollowingInChain DEF TxTypeOK
    <2>2. (IF due = <<>> THEN due ELSE Tail(due)) \in Seq(0..(TxIds - 1))
      BY HeadTailProperties DEF TxTypeOK
    <2>3. due' \in Seq(0..(TxIds - 1))
      BY <1>2, <2>2, FollowType DEF Transmit
    <2> QED BY <1>2, <2>1, <2>3 DEF Transmit, TxTypeOK
  <1>3. ASSUME NEW c \in Ctx, Output(c)
        PROVE  TxTypeOK'
    <2>1. sending' \in 0..(TxIds - 1)
      BY <1>3, TxAssumption, SMT DEF Output, TxTypeOK
    <2>2. due' \in Seq(0..(TxIds - 1))
      BY <1>3, FollowType DEF Output, TxTypeOK
    <2>3. nested' \in BOOLEAN
      BY <1>3, Zenon DEF Output, TxTypeOK
    <2> QED BY <1>3, <2>1, <2>2, <2>3 DEF Output, TxTypeOK
  <1>4. ASSUME NEW c \in Ctx, CopyOut(c)
        PROVE  TxTypeOK'
    <2>1. due' \in Seq(0..(TxIds - 1))
      BY <1>4, FollowType DEF CopyOut, TxTypeOK
    <2>2. full' \in BOOLEAN
      BY <1>4 DEF CopyOut, TxTypeOK
    <2> QED BY <1>4, <2>1, <2>2 DEF CopyOut, TxTypeOK
  <1>5. ASSUME NEW c \in Ctx, Busy(c) \/ Free(c) \/ Demand(c)
        PROVE  TxTypeOK'
    <2>1. 0 \in TxDesc /\ 0 \in 0..(TxIds - 1)
      BY TxAssumption, SMT DEF TxDesc
    <2> QED BY <1>5, <2>1, ZenonT(30) DEF Busy, Free, Demand, TxTypeOK
  <1>6. ASSUME NEW c \in Ctx, Give(c)
        PROVE  TxTypeOK'
    <2>1. Append(due, out[c]) \in Seq(0..(TxIds - 1))
      BY AppendProperties DEF TxTypeOK
    <2>2. due' \in Seq(0..(TxIds - 1))
      BY <1>6, <2>1, FollowType DEF Give
    <2> QED BY <1>6, <2>2 DEF Give, TxTypeOK
  <1>7. ASSUME NEW c \in Ctx, Advance(c)
        PROVE  TxTypeOK'
    <2>1. 0 \in TxDesc /\ 0 \in 0..(TxIds - 1)
      BY TxAssumption, SMT DEF TxDesc
    <2>2. Following(DMATxDescToSet) \in TxDesc
      BY FollowingInChain DEF TxTypeOK
    <2> QED BY <1>7, <2>1, <2>2 DEF Advance, TxTypeOK
  <1>8. CASE UNCHANGED txVars
    BY <1>8 DEF txVars, TxTypeOK
  <1> QED BY <1>1, <1>2, <1>3, <1>4, <1>5, <1>6, <1>7, <1>8 DEF TxNext, TxPacket

\* Every field of the transmit path stays in its range.
THEOREM TxTypeCorrect == TxSpec => []TxTypeOK
  BY TxTypeInit, TxTypeStep, PTL DEF TxSpec
-----------------------------------------------------------------------------
Owned == {d \in TxDesc : txOwn[d]}

\* The descriptor the next frame goes to: between giving a descriptor away
\* and moving on, DMATxDescToSet is one behind.
Given == \E c \in Ctx : tx[c] \in {"demand", "advance"}
NextSet == IF Given THEN Following(DMATxDescToSet) ELSE DMATxDescToSet

\* The DMA's descriptors are n in a row, they hold the frames due, and the
\* next frame goes behind them.
Pending(n) == /\ n \in 0..TxN
              /\ Owned = Places(TxN, txDma, n)
              /\ due = Held(txBuf, TxN, txDma, n)
              /\ NextSet = Along(TxN, txDma, n)

\* What the output under way has done.
OutputInv(c) ==
    /\ tx[c] = "copy" => buffer[c] = DMATxDescToSet
    /\ tx[c] \in {"own?", "give"} => /\ ~txOwn[DMATxDescToSet]
                                     /\ txBuf[DMATxDescToSet] = out[c]

TxInv == /\ ~inIrq => tx["eth"] = "idle"
         /\ Undisturbed => /\ tx["eth"] = "idle" \/ tx["main"] = "idle"
                           /\ \E n \in 0..TxN : Pending(n)
                           /\ \A c \in Ctx : OutputInv(c)

LEMMA PendingToSend ==
    ASSUME TxTypeOK, NEW n, Pending(n)
    PROVE  ToSend = due
  <1>1. n \in 0..TxN /\ TxN \in Nat \ {0} /\ txDma \in 0..(TxN - 1)
    BY FollowingInChain DEF Pending, TxTypeOK
  <1>2. Cardinality(Owned) = n
    BY <1>1, ChainCount DEF Pending
  <1>3. ToSend = [i \in 1..n |-> txBuf[(txDma + i - 1) % TxN]]
    BY <1>2 DEF ToSend, Owned
  <1>4. \A i \in 1..n : (txDma + i - 1) % TxN = Along(TxN, txDma, i - 1)
    <2> TAKE i \in 1..n
    <2>1. txDma + i - 1 = txDma + (i - 1)
      BY <1>1, SMT
    <2> QED BY <2>1 DEF Along
  <1> QED BY <1>3, <1>4 DEF Pending, Held

LEMMA TxInvInit == TxInit => TxInv
  <1> SUFFICES ASSUME TxInit PROVE TxInv
    OBVIOUS
  <1>1. \A c \in Ctx : tx[c] = "idle"
    BY DEF TxInit
  <1>2. 0 \in 0..TxN /\ 0 \in 0..(TxN - 1) /\ TxN \in Nat \ {0}
    BY TxAssumption, SMT
  <1>3. Owned = {} /\ Places(TxN, txDma, 0) = {}
    BY SMT DEF TxInit, Owned, Places
  <1>4. due = <<>> /\ Held(txBuf, TxN, txDma, 0) = <<>>
    BY DEF TxInit, Held
  <1>5. NextSet = 0 /\ Along(TxN, txDma, 0) = 0
    BY <1>1, <1>2, SMT DEF TxInit, NextSet, Given, Along
  <1>6. Pending(0)
    BY <1>2, <1>3, <1>4, <1>5 DEF Pending
  <1> QED BY <1>1, <1>2, <1>6 DEF TxInv, OutputInv, Ctx

\* The context that runs is the only one in low_level_output.
LEMMA OtherIdle ==
    ASSUME TxTypeOK, TxInv, Undisturbed, NEW c \in Ctx, Runs(c), tx[c] # "idle"
    PROVE  \A d \in Ctx : d # c => tx[d] = "idle"
  BY DEF TxInv, Runs, Ctx

\* Steps that give, take and write no descriptor.
LEMMA TxQuiet ==
    ASSUME TxTypeOK, TxInv, UNCHANGED <<txOwn, txBuf, txDma>>, NextSet' = NextSet,
           Undisturbed' => Undisturbed /\ due' = due,
           ~inIrq' => tx'["eth"] = "idle",
           Undisturbed' => tx'["eth"] = "idle" \/ tx'["main"] = "idle",
           Undisturbed' => \A c \in Ctx : OutputInv(c)'
    PROVE  TxInv'
  <1>1. Undisturbed' => \E n \in 0..TxN : Pending(n)'
    <2> SUFFICES ASSUME Undisturbed' PROVE \E n \in 0..TxN : Pending(n)'
      OBVIOUS
    <2>1. PICK n \in 0..TxN : Pending(n)
      BY DEF TxInv
    <2>2. Pending(n)'
      BY <2>1 DEF Pending, Owned
    <2> QED BY <2>2
  <1> QED BY <1>1 DEF TxInv

LEMMA OutputKeeps ==
    ASSUME TxTypeOK, TxInv, NEW c \in Ctx, Output(c)
    PROVE  TxInv'
  <1>1. /\ UNCHANGED <<txOwn, txBuf, txDma, DMATxDescToSet, inIrq>>
        /\ Runs(c) /\ tx[c] = "idle" /\ tx' = [tx EXCEPT ![c] = "copy"]
        /\ buffer' = [buffer EXCEPT ![c] = DMATxDescToSet]
        /\ tx'[c] = "copy" /\ buffer'[c] = DMATxDescToSet
        /\ \A d \in Ctx : d # c => tx'[d] = tx[d]
    BY DEF Output, Goto, TxTypeOK
  <1>2. ~inIrq' => tx'["eth"] = "idle"
    BY <1>1 DEF TxInv, Runs, Ctx
  <1>3. Undisturbed' => Undisturbed /\ due' = due /\ ~(c = "eth" /\ tx["main"] # "idle")
    BY DEF Output, Undisturbed, Follow
  <1>4. NextSet' = NextSet
    BY <1>1 DEF NextSet, Given
  <1>5. ASSUME Undisturbed'
        PROVE  \A d \in Ctx : d # c => tx'[d] = "idle"
    BY <1>1, <1>3, <1>5 DEF TxInv, Runs, Ctx
  <1>6. Undisturbed' => tx'["eth"] = "idle" \/ tx'["main"] = "idle"
    BY <1>5 DEF Ctx
  <1>7. Undisturbed' => \A d \in Ctx : OutputInv(d)'
    BY <1>1, <1>5 DEF OutputInv
  <1> QED BY <1>1, <1>2, <1>3, <1>4, <1>6, <1>7, TxQuiet

LEMMA CopyOutKeeps ==
    ASSUME TxTypeOK, TxInv, NEW c \in Ctx, CopyOut(c)
    PROVE  TxInv'
  <1>1. /\ UNCHANGED <<txOwn, txDma, DMATxDescToSet, inIrq, out, nested>>
        /\ Runs(c) /\ tx[c] = "copy"
        /\ tx'[c] = "own?" /\ \A d \in Ctx : d # c => tx'[d] = tx[d]
        /\ txBuf' = [txBuf EXCEPT ![buffer[c]] = out[c]]
        /\ txBuf \in [TxDesc -> 0..(TxIds - 1)] /\ DMATxDescToSet \in TxDesc
    BY DEF CopyOut, Goto, TxTypeOK
  <1>2. ~inIrq' => tx'["eth"] = "idle"
    BY <1>1 DEF TxInv, Runs, Ctx
  <1>3. Undisturbed' => Undisturbed /\ due' = due /\ ~txOwn[buffer[c]]
    BY DEF CopyOut, Undisturbed, Follow
  <1> SUFFICES ASSUME Undisturbed'
               PROVE  /\ tx'["eth"] = "idle" \/ tx'["main"] = "idle"
                      /\ \E n \in 0..TxN : Pending(n)'
                      /\ \A d \in Ctx : OutputInv(d)'
    BY <1>2 DEF TxInv
  <1>4. \A d \in Ctx : d # c => tx[d] = "idle" /\ tx'[d] = "idle"
    BY <1>1, <1>3, OtherIdle
  <1>5. buffer[c] = DMATxDescToSet /\ ~txOwn[DMATxDescToSet]
    BY <1>1, <1>3 DEF TxInv, OutputInv
  <1>6. \A d \in Ctx : OutputInv(d)'
    BY <1>1, <1>4, <1>5 DEF OutputInv
  <1>7. PICK n \in 0..TxN : Pending(n)
    BY <1>3 DEF TxInv
  <1>8. \A i \in 1..n : txBuf'[Along(TxN, txDma, i - 1)] = txBuf[Along(TxN, txDma, i - 1)]
    <2> TAKE i \in 1..n
    <2>1. Along(TxN, txDma, i - 1) \in Owned
      BY <1>7 DEF Pending, Places
    <2>2. Along(TxN, txDma, i - 1) \in TxDesc /\ Along(TxN, txDma, i - 1) # DMATxDescToSet
      BY <2>1, <1>5 DEF Owned
    <2> QED BY <1>1, <1>5, <2>2
  <1>9. Held(txBuf', TxN, txDma, n) = Held(txBuf, TxN, txDma, n)
    BY <1>8 DEF Held
  <1>10. NextSet' = NextSet
    BY <1>1, <1>4 DEF NextSet, Given
  <1>11. Pending(n)'
    BY <1>1, <1>3, <1>7, <1>9, <1>10 DEF Pending, Owned
  <1>12. tx'["eth"] = "idle" \/ tx'["main"] = "idle"
    BY <1>4 DEF Ctx
  <1> QED BY <1>6, <1>7, <1>11, <1>12

LEMMA GiveKeeps ==
    ASSUME TxTypeOK, TxInv, NEW c \in Ctx, Give(c)
    PROVE  TxInv'
  <1>1. /\ UNCHANGED <<txBuf, txDma, DMATxDescToSet, inIrq, nested, full>>
        /\ Runs(c) /\ tx[c] = "give"
        /\ tx'[c] = "demand" /\ \A d \in Ctx : d # c => tx'[d] = tx[d]
        /\ txOwn' = [txOwn EXCEPT ![DMATxDescToSet] = TRUE]
        /\ txOwn \in [TxDesc -> BOOLEAN] /\ DMATxDescToSet \in TxDesc
        /\ txBuf \in [TxDesc -> 0..(TxIds - 1)] /\ out[c] \in 0..(TxIds - 1)
    BY DEF Give, Goto, TxTypeOK
  <1>2. ~inIrq' => tx'["eth"] = "idle"
    BY <1>1 DEF TxInv, Runs, Ctx
  <1>3. Undisturbed' => Undisturbed /\ due' = Append(due, out[c])
    BY DEF Give, Undisturbed, Follow
  <1> SUFFICES ASSUME Undisturbed'
               PROVE  /\ tx'["eth"] = "idle" \/ tx'["main"] = "idle"
                      /\ \E n \in 0..TxN : Pending(n)'
                      /\ \A d \in Ctx : OutputInv(d)'
    BY <1>2 DEF TxInv
  <1>4. \A d \in Ctx : d # c => tx[d] = "idle" /\ tx'[d] = "idle"
    BY <1>1, <1>3, OtherIdle
  <1>5. ~txOwn[DMATxDescToSet] /\ txBuf[DMATxDescToSet] = out[c]
    BY <1>1, <1>3 DEF TxInv, OutputInv
  <1>6. \A d \in Ctx : OutputInv(d)'
    BY <1>1, <1>4 DEF OutputInv
  <1>7. PICK n \in 0..TxN : Pending(n)
    BY <1>3 DEF TxInv
  <1>8. ~Given /\ Given' /\ DMATxDescToSet = Along(TxN, txDma, n)
    <2>1. ~Given /\ Given'
      BY <1>1, <1>4 DEF Given
    <2> QED BY <1>7, <2>1 DEF NextSet, Pending
  <1>9. TxN \in Nat \ {0} /\ TxDesc = 0..(TxN - 1) /\ txDma \in 0..(TxN - 1)
    BY FollowingInChain DEF TxTypeOK
  <1>10. n # TxN
    <2> SUFFICES ASSUME n = TxN PROVE FALSE
      OBVIOUS
    <2>1. Along(TxN, txDma, n) = Along(TxN, txDma, 1 - 1) /\ 1 \in 1..n
      BY <1>9, SMT DEF Along
    <2>2. DMATxDescToSet \in Owned
      BY <1>7, <1>8, <2>1 DEF Pending, Places
    <2> QED BY <1>5, <2>2 DEF Owned
  <1>11. n \in 0..(TxN - 1) /\ n + 1 \in 0..TxN
    BY <1>9, <1>10, SMT
  <1>12. Owned' = Places(TxN, txDma, n + 1)
    <2>1. Owned' = Owned \cup {DMATxDescToSet}
      BY <1>1 DEF Owned
    <2>2. Places(TxN, txDma, n + 1) = Places(TxN, txDma, n) \cup {Along(TxN, txDma, n)}
      BY <1>9, <1>11, PlacesMore
    <2> QED BY <1>7, <1>8, <2>1, <2>2 DEF Pending
  <1>13. due' = Held(txBuf, TxN, txDma, n + 1)
    <2> DEFINE S == 0..(TxIds - 1)
               f == out[c]
               k == Along(TxN, txDma, n)
    <2>1. n < TxN
      BY <1>9, <1>11, SMT
    <2>2. RingOf(txBuf, TxN, txDma, n, S)
      BY <1>1, <1>9 DEF RingOf
    <2>3. Overwritten(txBuf, txBuf, TxN, k, f)
      BY <1>5, <1>8 DEF Overwritten
    <2>4. f \in S
      BY <1>1
    <2> HIDE DEF S, f
    <2>5. Held(txBuf, TxN, txDma, n + 1) = Append(Held(txBuf, TxN, txDma, n), f)
      BY ONLY <2>1, <2>2, <2>3, <2>4, ChainAppend
    <2> QED BY <1>3, <1>7, <2>5 DEF Pending, f
  <1>14. NextSet' = Along(TxN, txDma, n + 1)
    <2>1. NextSet' = Following(DMATxDescToSet)
      BY <1>1, <1>8 DEF NextSet
    <2>2. Following(Along(TxN, txDma, n)) = Along(TxN, txDma, n + 1)
      BY <1>9, <1>11, SMT DEF Following, Along
    <2> QED BY <1>8, <2>1, <2>2
  <1>15. Pending(n + 1)'
    BY <1>1, <1>11, <1>12, <1>13, <1>14 DEF Pending
  <1>16. tx'["eth"] = "idle" \/ tx'["main"] = "idle"
    BY <1>4 DEF Ctx
  <1> QED BY <1>6, <1>11, <1>15, <1>16

LEMMA TransmitKeeps ==
    ASSUME TxTypeOK, TxInv, Transmit
    PROVE  TxInv'
  <1>1. /\ UNCHANGED <<txBuf, DMATxDescToSet, inIrq, tx, buffer, out, nested, full>>
        /\ txOwn[txDma] /\ txDma \in TxDesc
        /\ txOwn' = [txOwn EXCEPT ![txDma] = FALSE]
        /\ txDma' = Following(txDma)
        /\ txOwn \in [TxDesc -> BOOLEAN] /\ DMATxDescToSet \in TxDesc
        /\ txBuf \in [TxDesc -> 0..(TxIds - 1)]
    BY DEF Transmit, TxTypeOK
  <1>2. /\ ~inIrq' => tx'["eth"] = "idle"
        /\ Undisturbed' = Undisturbed
        /\ Undisturbed' => due' = IF due = <<>> THEN due ELSE Tail(due)
    BY DEF Transmit, Undisturbed, Follow, TxInv
  <1> SUFFICES ASSUME Undisturbed'
               PROVE  /\ tx'["eth"] = "idle" \/ tx'["main"] = "idle"
                      /\ \E n \in 0..TxN : Pending(n)'
                      /\ \A d \in Ctx : OutputInv(d)'
    BY <1>2 DEF TxInv
  <1>3. \A d \in Ctx : OutputInv(d)'
    BY <1>1, <1>2 DEF OutputInv, TxInv
  <1>4. PICK n \in 0..TxN : Pending(n)
    BY <1>2 DEF TxInv
  <1>5. /\ TxN \in Nat \ {0} /\ TxDesc = 0..(TxN - 1) /\ txDma \in 0..(TxN - 1)
        /\ Following(txDma) = IF txDma = TxN - 1 THEN 0 ELSE txDma + 1
    BY FollowingInChain DEF TxTypeOK
  <1>6. n \in 1..TxN /\ n - 1 \in 0..TxN /\ n - 1 \in 0..(TxN - 1)
    <2>1. txDma \in Places(TxN, txDma, n)
      BY <1>1, <1>4 DEF Owned, Pending
    <2>2. n # 0
      BY <2>1, SMT DEF Places
    <2> QED BY <1>5, <2>2, SMT
  <1>7. Owned' = Places(TxN, Following(txDma), n - 1)
    <2>1. Owned' = Owned \ {txDma}
      BY <1>1 DEF Owned
    <2>2. Places(TxN, Following(txDma), n - 1) = Places(TxN, txDma, n) \ {txDma}
      BY <1>5, <1>6, PlacesLess
    <2> QED BY <1>4, <2>1, <2>2 DEF Pending
  <1>8. due' = Held(txBuf, TxN, Following(txDma), n - 1)
    <2>1. RingOf(txBuf, TxN, txDma, n, 0..(TxIds - 1)) /\ n > 0
      BY <1>1, <1>5, <1>6, SMT DEF RingOf
    <2>2. /\ Held(txBuf, TxN, txDma, n) # <<>>
          /\ Held(txBuf, TxN, Following(txDma), n - 1) = Tail(Held(txBuf, TxN, txDma, n))
      BY <1>5, <1>6, <2>1, ChainTail
    <2> QED BY <1>2, <1>4, <2>2 DEF Pending
  <1>9. NextSet' = Along(TxN, Following(txDma), n - 1)
    <2>1. NextSet' = NextSet
      BY <1>1 DEF NextSet, Given
    <2>2. Along(TxN, Following(txDma), n - 1) = Along(TxN, txDma, (n - 1) + 1)
      BY <1>5, <1>6, AlongNext
    <2>3. (n - 1) + 1 = n
      BY SMT
    <2> QED BY <1>4, <2>1, <2>2, <2>3 DEF Pending
  <1>10. Pending(n - 1)'
    BY <1>1, <1>6, <1>7, <1>8, <1>9 DEF Pending
  <1>11. tx'["eth"] = "idle" \/ tx'["main"] = "idle"
    BY <1>1, <1>2 DEF TxInv
  <1> QED BY <1>3, <1>6, <1>10, <1>11

\* Advance makes up for the descriptor that was given.
LEMMA AdvanceKeeps ==
    ASSUME TxTypeOK, TxInv, NEW c \in Ctx, Advance(c)
    PROVE  TxInv'
  <1>1. /\ UNCHANGED <<txOwn, txBuf, txDma, inIrq, due, nested, full>>
        /\ Runs(c) /\ tx[c] = "advance"
        /\ DMATxDescToSet' = Following(DMATxDescToSet)
        /\ tx'[c] = "idle" /\ \A d \in Ctx : d # c => tx'[d] = tx[d]
    BY DEF Advance, Return, Goto, TxTypeOK
  <1>2. ~inIrq' => tx'["eth"] = "idle"
    <2>1. "eth" \in Ctx
      BY DEF Ctx
    <2> QED BY <1>1, <2>1 DEF TxInv
  <1>3. Undisturbed' = Undisturbed
    BY <1>1 DEF Undisturbed
  <1>4. CASE Undisturbed
    <2>1. \A d \in Ctx : tx'[d] = "idle"
      BY <1>1, <1>4, OtherIdle
    <2>2. NextSet' = NextSet
      BY <1>1, <2>1 DEF NextSet, Given
    <2>3. \A d \in Ctx : OutputInv(d)'
      BY <2>1 DEF OutputInv
    <2> QED BY <1>1, <1>2, <1>4, <2>1, <2>2, <2>3, TxQuiet DEF Ctx
  <1>5. CASE ~Undisturbed
    BY <1>2, <1>3, <1>5 DEF TxInv
  <1> QED BY <1>4, <1>5

LEMMA RestKeeps ==
    ASSUME TxTypeOK, TxInv,
           \/ EnterIrq \/ LeaveIrq \/ Suspend \/ UNCHANGED txVars
           \/ \E c \in Ctx : Busy(c) \/ Free(c) \/ Demand(c)
    PROVE  TxInv'
  <1>1. CASE EnterIrq \/ LeaveIrq \/ Suspend \/ UNCHANGED txVars
    <2>1. /\ UNCHANGED <<txOwn, txBuf, DMATxDescToSet, txDma, tx, buffer, out, due,
                         nested, full>>
          /\ ~inIrq' => tx'["eth"] = "idle"
      BY <1>1 DEF EnterIrq, LeaveIrq, Suspend, txVars, TxInv
    <2>2. NextSet' = NextSet /\ Undisturbed' = Undisturbed
          /\ \A c \in Ctx : OutputInv(c)' <=> OutputInv(c)
      BY <2>1 DEF NextSet, Given, Undisturbed, OutputInv
    <2>3. /\ Undisturbed' => tx'["eth"] = "idle" \/ tx'["main"] = "idle"
          /\ Undisturbed' => \A c \in Ctx : OutputInv(c)'
      BY <2>1, <2>2 DEF TxInv
    <2> QED BY <2>1, <2>2, <2>3, TxQuiet
  <1>2. ASSUME NEW c \in Ctx, Busy(c) \/ Free(c) \/ Demand(c)
        PROVE  TxInv'
    <2>1. /\ UNCHANGED <<txOwn, txBuf, DMATxDescToSet, txDma, inIrq, due, nested, full>>
          /\ Runs(c) /\ tx[c] # "idle"
          /\ \A d \in Ctx : d # c => tx'[d] = tx[d]
      BY <1>2 DEF Busy, Free, Demand, Goto, Return, TxTypeOK
    <2>2. ~inIrq' => tx'["eth"] = "idle"
      BY <2>1 DEF TxInv, Runs, Ctx
    <2>3. Undisturbed' = Undisturbed
      BY <2>1 DEF Undisturbed
    <2>4. CASE ~Undisturbed
      BY <2>2, <2>3, <2>4 DEF TxInv
    <2>5. CASE Undisturbed
      <3>1. \A d \in Ctx : d # c => tx[d] = "idle" /\ tx'[d] = "idle"
        BY <2>1, <2>5, OtherIdle
      <3>2. OutputInv(c)
        BY <2>5 DEF TxInv
      <3>3. /\ tx'[c] \in {"demand", "advance"} <=> tx[c] \in {"demand", "advance"}
            /\ OutputInv(c)'
        BY <1>2, <2>1, <3>2 DEF Busy, Free, Demand, Goto, Return, TxTypeOK, OutputInv
      <3>4. NextSet' = NextSet
        BY <2>1, <3>1, <3>3 DEF NextSet, Given
      <3>5. \A d \in Ctx : OutputInv(d)'
        BY <3>1, <3>3 DEF OutputInv
      <3>6. tx'["eth"] = "idle" \/ tx'["main"] = "idle"
        BY <3>1 DEF Ctx
      <3> QED BY <2>1, <2>2, <2>5, <3>4, <3>5, <3>6, TxQuiet
    <2> QED BY <2>4, <2>5
  <1> QED BY <1>1, <1>2

LEMMA TxInvStep == TxTypeOK /\ TxInv /\ [TxNext]_txVars => TxInv'
  BY OutputKeeps, CopyOutKeeps, GiveKeeps, TransmitKeeps, AdvanceKeeps, RestKeeps
     DEF TxNext, TxPacket

\* As long as no output of the handler falls into one of main() and none finds
\* the ring full, the DMA's descriptors hold the frames handed over, in order
\* and intact, for every length of the ring.
THEOREM SentAsGiven == TxSpec => []TxAsGiven
  <1>1. TxTypeOK /\ TxInv => TxAsGiven
    BY PendingToSend DEF TxInv, TxAsGiven
  <1> QED BY <1>1, TxTypeCorrect, TxInvInit, TxInvStep, PTL DEF TxSpec
=============================================================================
