-------------------------- MODULE Unpacking_proofs --------------------------
(***************************************************************************)
(* Proofs about Unpacking and UdpInterface: the parser for every size of   *)
(* its buffer and every sequence of calls, alone and behind the receive    *)
(* callback, the callback for every chain of pbufs, and the messages       *)
(* handled against those of the whole stream.                              *)
(***************************************************************************)
EXTENDS UdpInterface, SequenceTheorems, WellFoundedInduction, TLAPS

\* What a turn of the loop reads.
LEMMA ReadByte ==
    ASSUME input \in Seq(Byte), seen \in Seq(Byte), NextByte
    PROVE  /\ ch \in Byte
           /\ input' \in Seq(Byte)
           /\ seen' \in Seq(Byte)
BY DEF NextByte, ch

LEMMA ByteRange == 0 \in Byte /\ \A b \in Byte : b \in Nat /\ b < 256
BY SMT DEF Byte

\* A value below 2^16 fits a u16.
LEMMA FitsU16 == \A n \in Nat : n < 65536 => n % 65536 = n
BY SMT

LEMMA ParserInit == Init => TypeOK /\ BufferInv
<1> SUFFICES ASSUME Init PROVE TypeOK /\ BufferInv
  OBVIOUS
<1>1. udp_buff \in [0..(BufSize - 1) -> Byte]
  BY ByteRange, SMT DEF Init
<1>2. input \in Seq(Byte) /\ seen \in Seq(Byte)
  BY DEF Init
<1> QED
  <2>1. TypeOK
    <3>1. step = 0 /\ udp_len = 0 /\ index_buff = 0
      BY DEF Init
    <3>2. overrun \in BOOLEAN
      BY Zenon DEF Init
    <3> QED
      BY BufAssumption, <1>1, <1>2, <3>1, <3>2, SMT DEF TypeOK
  <2>2. BufferInv
    BY SMT DEF Init, BufferInv
  <2> QED
    BY <2>1, <2>2

\* One byte, in each state of the parser.
LEMMA ParserUnpack ==
    ASSUME TypeOK, BufferInv, Unpack
    PROVE  TypeOK' /\ BufferInv'
<1> USE BufAssumption, WidthAssumption DEF TypeOK, BufferInv, Store
<1>1. CASE WaitHead1
  BY <1>1, ReadByte DEF WaitHead1
<1>2. CASE WaitHead2
  BY <1>2, ReadByte DEF WaitHead2
<1>3. CASE Len1
  <2>1. ch \in Byte /\ input' \in Seq(Byte) /\ seen' \in Seq(Byte)
    BY <1>3, ReadByte DEF Len1
  <2>2. ch \in Nat /\ ch < 256
    BY <2>1, ByteRange
  <2> QED
    BY <1>3, <2>1, <2>2, SMT DEF Len1, NextByte
<1>4. CASE Len2
  <2>1. ch \in Byte /\ input' \in Seq(Byte) /\ seen' \in Seq(Byte)
    BY <1>4, ReadByte DEF Len2
  <2>2. ch \in Nat /\ ch < 256
    BY <2>1, ByteRange
  <2>3. udp_len' = udp_len + 256 * ch /\ udp_len' \in Nat /\ udp_len' < 65536
    <3>1. udp_len < 256 /\ udp_len' = (udp_len + 256 * ch) % 65536
      BY <1>4, SMT DEF Len2
    <3>2. udp_len + 256 * ch \in Nat /\ udp_len + 256 * ch < 65536
      BY <2>2, <3>1, SMT
    <3> QED
      BY <3>1, <3>2, FitsU16
  <2>4. /\ udp_buff' \in [0..(BufSize - 1) -> Byte]
        /\ udp_buff'[0] = udp_len /\ udp_buff'[1] = ch
        /\ index_buff' = 2
    BY <1>4, <2>1, SMT DEF Len2
  <2>5. HeadLen(udp_buff') = udp_len'
    BY <2>3, <2>4, SMT DEF HeadLen
  <2> QED
    BY <1>4, <2>1, <2>3, <2>4, <2>5, SMT DEF Len2, NextByte, LastIndex
<1>5. CASE Content
  <2>1. ch \in Byte /\ input' \in Seq(Byte) /\ seen' \in Seq(Byte)
    BY <1>5, ReadByte DEF Content
  <2>2. udp_buff' \in [0..(BufSize - 1) -> Byte] /\ HeadLen(udp_buff') = udp_len
    BY <1>5, <2>1 DEF Content, HeadLen
  <2> QED
    BY <1>5, <2>1, <2>2 DEF Content, LastIndex
<1>6. CASE Short
  BY <1>6, ReadByte DEF Short
<1>7. CASE Overrun
  <2>1. udp_len = 0
    BY <1>7 DEF Overrun, LastIndex
  <2> QED
    BY <1>7, <2>1, ReadByte DEF Overrun, parser, LastIndex
<1>8. CASE CheckSum
  BY <1>8, ReadByte DEF CheckSum
<1> QED
  BY <1>1, <1>2, <1>3, <1>4, <1>5, <1>6, <1>7, <1>8 DEF Unpack

\* The type invariant and the place of the index hold for every input.
THEOREM ParserInvariant == Spec => [](TypeOK /\ BufferInv)
<1>1. TypeOK /\ BufferInv /\ [Next]_vars => TypeOK' /\ BufferInv'
  <2> SUFFICES ASSUME TypeOK, BufferInv, [Next]_vars
               PROVE  TypeOK' /\ BufferInv'
    OBVIOUS
  <2>1. CASE Unpack
    BY <2>1, ParserUnpack
  <2>2. CASE \E data \in Data : OnRecvData(data)
    BY <2>2, DataAssumption DEF OnRecvData, TypeOK, BufferInv, parser, LastIndex
  <2>3. CASE UNCHANGED vars
    BY <2>3 DEF vars, TypeOK, BufferInv, LastIndex
  <2> QED
    BY <2>1, <2>2, <2>3 DEF Next
<1> QED
  BY ParserInit, <1>1, PTL DEF Spec

\* unpacking() leaves udp_buff only for a message of announced length 0,
\* whatever bytes arrive and however they are cut into calls.
THEOREM OverrunNeedsZero == Spec => []OverrunOnlyByZero
<1>1. BufferInv => OverrunOnlyByZero
  BY DEF BufferInv, OverrunOnlyByZero
<1> QED
  BY ParserInvariant, <1>1, PTL

\* The check sum is computed over a message that lies in the buffer under
\* the length it announced.
THEOREM MessagesInPlace == Spec => []MessageInPlace
<1>1. TypeOK /\ BufferInv => MessageInPlace
  BY BufAssumption DEF TypeOK, BufferInv, MessageInPlace
<1> QED
  BY ParserInvariant, <1>1, PTL
-----------------------------------------------------------------------------
(***************************************************************************)
(* The messages given to handleProtocol.                                   *)
(***************************************************************************)
Send == [op : {"send"}, chl : Byte, data : Seq(Byte)]
Justified(m) ==
    m.calls # <<>> =>
        /\ Len(m.frame) >= HeadSize + 1
        /\ m.calls[1].op = "send" =>
               /\ HeadSize + 2 + Len(m.calls[1].data) < Len(m.frame)
               /\ m.calls[1].data = SubSeq(m.frame, HeadSize + 3,
                                           HeadSize + 2 + Len(m.calls[1].data))
Handovers ==
    {m \in [frame : Seq(Byte), calls : {<<>>} \cup {<<c>> : c \in Send \cup [op : {"reset"}]}] :
        Justified(m)}
HandledInv == handled \in Seq(Handovers)

LEMMA FrameIs ==
    ASSUME NEW b \in [0..(BufSize - 1) -> Byte], NEW len \in Nat, len < BufSize
    PROVE  /\ Frame(b, len) \in Seq(Byte) /\ Len(Frame(b, len)) = len
           /\ \A k \in 1..len : Frame(b, len)[k] = b[k - 1]
  <1> DEFINE f == Frame(b, len)
  <1>1. f = [i \in 1..len |-> b[i - 1]]
    BY DEF Frame
  <1>2. \A i \in 1..len : b[i - 1] \in Byte
    BY BufAssumption, SMT
  <1>3. f \in [1..len -> Byte] /\ \A k \in 1..len : f[k] = b[k - 1]
    BY <1>1, <1>2
  <1> HIDE DEF f
  <1>4. f \in Seq(Byte) /\ Len(f) = len
    BY <1>3, SMT
  <1> QED BY <1>3, <1>4 DEF f

\* sendUart's data lie in the message.
LEMMA SendJustified ==
    ASSUME NEW b \in [0..(BufSize - 1) -> Byte], NEW len \in Nat, len < BufSize,
           HeadLen(b) = len, DataFits(b),
           NEW m, m = [frame |-> Frame(b, len),
                       calls |-> <<[op |-> "send", chl |-> UartChl(b), data |-> UartData(b)]>>]
    PROVE  m \in Handovers
  <1> DEFINE f == Frame(b, len)
             n == Num(b)
             d == UartData(b)
  <1>1. f \in Seq(Byte) /\ Len(f) = len /\ \A k \in 1..len : f[k] = b[k - 1]
    BY ONLY b \in [0..(BufSize - 1) -> Byte], len \in Nat, len < BufSize, FrameIs
  <1>0. BufSize \in Nat /\ BufSize > 6
    BY BufAssumption
  <1> HIDE DEF f
  <1>2. UartChl(b) \in Byte /\ n \in Nat /\ n < 256
    BY <1>0, ByteRange, SMT DEF UartChl, Num
  <1>3. n + 7 <= len
    BY <1>2, SMT DEF DataFits, HeadSize
  <1>4. d = [i \in 1..n |-> b[5 + i]]
    BY DEF UartData
  <1> HIDE DEF n
  <1>5. \A i \in 1..n : /\ b[5 + i] \in Byte /\ i + 6 \in 1..len
                        /\ (i + 6) - 1 = 5 + i
    BY <1>0, <1>2, <1>3, SMT
  <1> HIDE DEF d
  <1>6. d \in [1..n -> Byte] /\ \A i \in 1..n : d[i] = f[i + 6]
    BY ONLY <1>1, <1>4, <1>5
  <1>7. d \in Seq(Byte) /\ Len(d) = n
    BY <1>2, <1>6, SMT
  <1>8. d = SubSeq(f, HeadSize + 3, HeadSize + 2 + Len(d)) /\ HeadSize + 2 + Len(d) < Len(f)
    <2>1. HeadSize + 3 = 7 /\ HeadSize + 2 + Len(d) = n + 6 /\ n + 6 < Len(f)
      BY <1>1, <1>2, <1>3, <1>7, SMT DEF HeadSize
    <2> DEFINE t == SubSeq(f, 7, n + 6)
    <2>2. /\ t \in Seq(Byte) /\ Len(t) = n
          /\ \A i \in 1..n : t[i] = f[7 + i - 1]
      <3> DEFINE hi == n + 6
      <3>1. /\ 7 \in Int /\ hi \in Int /\ 7..hi \subseteq 1..Len(f)
        BY <1>1, <1>2, <1>3, SMT
      <3>2. \A i \in 7..hi : f[i] \in Byte
        BY <1>1, <3>1, ElementOfSeq
      <3> HIDE DEF hi
      <3>3. LET u == SubSeq(f, 7, hi)
            IN /\ u \in Seq(Byte) /\ Len(u) = IF 7 <= hi THEN hi - 7 + 1 ELSE 0
               /\ \A i \in 1..(hi - 7 + 1) : u[i] = f[7 + i - 1]
        BY ONLY <3>1, <3>2, SubSeqProperties
      <3>4. /\ t \in Seq(Byte) /\ Len(t) = IF 7 <= hi THEN hi - 7 + 1 ELSE 0
            /\ \A i \in 1..(hi - 7 + 1) : t[i] = f[7 + i - 1]
        BY <3>3 DEF hi
      <3>5. hi - 7 + 1 = n /\ (7 <= hi \/ n = 0)
        BY <1>2, SMT DEF hi
      <3> HIDE DEF t
      <3> QED BY <3>4, <3>5, SMT
    <2> HIDE DEF t
    <2>3. \A i \in 1..n : 7 + i - 1 = i + 6
      BY <1>2, SMT
    <2>4. d = t
      BY <1>6, <1>7, <2>2, <2>3, SeqEqual
    <2> QED BY <2>1, <2>4 DEF t
  <1>9. Len(f) >= HeadSize + 1
    BY <1>1, <1>2, <1>3, SMT DEF HeadSize
  <1> DEFINE c == [op |-> "send", chl |-> UartChl(b), data |-> d]
  <1>10. m = [frame |-> f, calls |-> <<c>>]
    BY DEF f, d
  <1>11. c \in Send /\ c.op = "send" /\ c.data = d
    BY <1>2, <1>7 DEF Send
  <1> HIDE DEF c
  <1>12. m.frame = f /\ m.calls = <<c>> /\ m.calls[1] = c
    BY <1>10
  <1>13. Justified(m)
    BY <1>8, <1>9, <1>11, <1>12 DEF Justified
  <1> QED BY <1>1, <1>10, <1>11, <1>13 DEF Handovers

\* The fold over the four bytes of the shortest message, whatever the order it takes.
LEMMA SumOfFour ==
    ASSUME NEW b, DOMAIN b = 1..4, \A k \in 1..4 : b[k] \in Nat
    PROVE  SumFunction(b) = b[1] + b[2] + b[3] + b[4]
  <1> DEFINE S == 1..4
             pick(s) == CHOOSE x \in s : TRUE
             at(s, k) == IF k \in s THEN b[k] ELSE 0
             G == [s \in SUBSET S |-> at(s, 1) + at(s, 2) + at(s, 3) + at(s, 4)]
             Turn(g) == [s \in SUBSET S |-> IF s = {} THEN 0
                                            ELSE b[pick(s)] + g[s \ {pick(s)}]]
             iter == CHOOSE g : g = Turn(g)
  <1>1. \A s \in SUBSET S : s # {} => pick(s) \in s
    OBVIOUS
  <1>2. SumFunction(b) = iter[S]
    BY DEF SumFunction, SumFunctionOnSet, FoldFunctionOnSet, MapThenFoldSet
  <1>3. G = Turn(G)
    <2> SUFFICES ASSUME NEW s \in SUBSET S
                 PROVE  G[s] = IF s = {} THEN 0 ELSE b[pick(s)] + G[s \ {pick(s)}]
      BY Zenon
    <2>1. CASE s = {}
      BY <2>1, SMT
    <2>2. CASE s # {}
      <3> DEFINE p == pick(s)
                 t == s \ {p}
      <3>0. p \in s
        BY <1>1, <2>2
      <3>1. p \in s /\ p \in {1, 2, 3, 4} /\ t \in SUBSET S
        <4> HIDE DEF p
        <4> QED BY <3>0, SMT
      <3> HIDE DEF p
      <3>2. /\ G[s] = at(s, 1) + at(s, 2) + at(s, 3) + at(s, 4)
            /\ G[t] = at(t, 1) + at(t, 2) + at(t, 3) + at(t, 4)
        BY <3>1
      <3>3. G[s] = b[p] + G[t]
        <4>1. CASE p = 1
          BY <3>1, <3>2, <4>1, SMT
        <4>2. CASE p = 2
          BY <3>1, <3>2, <4>2, SMT
        <4>3. CASE p = 3
          BY <3>1, <3>2, <4>3, SMT
        <4>4. CASE p = 4
          BY <3>1, <3>2, <4>4, SMT
        <4> QED BY <3>1, <4>1, <4>2, <4>3, <4>4
      <3> QED BY <2>2, <3>3 DEF p
    <2> QED BY <2>1, <2>2
  <1>4. iter = Turn(iter)
    <2> HIDE DEF G, Turn
    <2> QED BY <1>3
  <1>5. ASSUME NEW s \in SUBSET S, s # {}
        PROVE  /\ pick(s) \in s
               /\ iter[s] = b[pick(s)] + iter[s \ {pick(s)}]
    <2> HIDE DEF iter
    <2>1. iter[s] = Turn(iter)[s]
      BY <1>4
    <2> QED BY <1>1, <1>5, <2>1
  <1>6. iter[{}] = 0
    <2> HIDE DEF iter
    <2>1. iter[{}] = Turn(iter)[{}] /\ {} \in SUBSET S
      BY <1>4
    <2> QED BY <2>1
  <1> HIDE DEF iter, pick
  <1> DEFINE x1 == pick(S)
             s1 == S \ {x1}
             x2 == pick(s1)
             s2 == s1 \ {x2}
             x3 == pick(s2)
             s3 == s2 \ {x3}
             x4 == pick(s3)
             s4 == s3 \ {x4}
  <1>7. x1 \in S /\ iter[S] = b[x1] + iter[s1]
    <2>1. S \in SUBSET S /\ S # {}
      BY SMT
    <2> QED BY <1>5, <2>1
  <1> HIDE DEF x1
  <1>8. s1 # {}
    BY <1>7, SMT
  <1>9. x2 \in s1 /\ iter[s1] = b[x2] + iter[s2]
    BY <1>5, <1>8
  <1> HIDE DEF x2
  <1>10. s2 # {}
    BY <1>7, <1>9, SMT
  <1>11. x3 \in s2 /\ iter[s2] = b[x3] + iter[s3]
    BY <1>5, <1>10
  <1> HIDE DEF x3
  <1>12. s3 # {}
    BY <1>7, <1>9, <1>11, SMT
  <1>13. x4 \in s3 /\ iter[s3] = b[x4] + iter[s4]
    BY <1>5, <1>12
  <1> HIDE DEF x4
  <1>14. s4 = {}
    BY <1>7, <1>9, <1>11, <1>13, SMT
  <1>15. iter[S] = b[x1] + (b[x2] + (b[x3] + (b[x4] + 0)))
    BY <1>6, <1>7, <1>9, <1>11, <1>13, <1>14
  <1>16. /\ x1 \in {1, 2, 3, 4} /\ x2 \in {1, 2, 3, 4} \ {x1}
         /\ x3 \in {1, 2, 3, 4} \ {x1, x2} /\ x4 \in {1, 2, 3, 4} \ {x1, x2, x3}
    BY <1>7, <1>9, <1>11, <1>13, SMT
  <1>17. b[1] \in Nat /\ b[2] \in Nat /\ b[3] \in Nat /\ b[4] \in Nat
    BY SMT
  <1>18. b[x1] + (b[x2] + (b[x3] + (b[x4] + 0))) = b[1] + b[2] + b[3] + b[4]
    BY ONLY <1>16, <1>17, SMTT(30)
  <1> QED BY <1>2, <1>15, <1>18

\* A message whose check sum is 0 and that names the reset is not the
\* shortest: of 4 0 162 0 the sum is 166.
LEMMA ResetLong ==
    ASSUME NEW b \in [0..(BufSize - 1) -> Byte], NEW len \in Nat, len > 3,
           HeadLen(b) = len, HeadCode(b) = CodeReset, Sums(Frame(b, len)) = 0
    PROVE  len >= HeadSize + 1
  <1>1. /\ \A k \in 0..3 : b[k] \in Byte
        /\ \A k \in 0..3 : b[k] \in Nat
    BY BufAssumption, ByteRange, SMT
  <1>2. b[0] \in Nat /\ b[1] \in Nat /\ b[2] \in Nat /\ b[3] \in Nat /\ b[0] < 256 /\ b[2] < 256
    BY <1>1, ByteRange, SMT
  <1>3. b[2] = 162 /\ b[3] = 0
    BY <1>2, SMT DEF HeadCode, CodeReset
  <1>4. CASE len = 4
    <2>1. b[0] = 4 /\ b[1] = 0
      BY <1>2, <1>4, SMT DEF HeadLen
    <2> DEFINE f == Frame(b, len)
    <2>2. f \in Seq(Byte) /\ Len(f) = 4 /\ \A k \in 1..4 : f[k] = b[k - 1]
      <3>1. len < BufSize
        BY <1>4, BufAssumption, SMT
      <3>2. f \in Seq(Byte) /\ Len(f) = len /\ \A k \in 1..len : f[k] = b[k - 1]
        BY <3>1, FrameIs
      <3> HIDE DEF f
      <3> QED BY <1>4, <3>2
    <2>3. DOMAIN f = 1..4 /\ f[1] = 4 /\ f[2] = 0 /\ f[3] = 162 /\ f[4] = 0
      <3>1. 1 - 1 = 0 /\ 2 - 1 = 1 /\ 3 - 1 = 2 /\ 4 - 1 = 3
        BY SMT
      <3>2. 1 \in 1..4 /\ 2 \in 1..4 /\ 3 \in 1..4 /\ 4 \in 1..4
        BY SMT
      <3>3. DOMAIN f = 1..4
        <4> HIDE DEF f
        <4> QED BY <2>2, LenProperties
      <3> HIDE DEF f
      <3>4. f[1] = b[0] /\ f[2] = b[1] /\ f[3] = b[2] /\ f[4] = b[3]
        BY <2>2, <3>1, <3>2
      <3> QED BY <1>3, <2>1, <3>3, <3>4
    <2> HIDE DEF f
    <2>4. \A k \in 1..4 : f[k] \in Nat
      <3>1. \A k \in 1..4 : k = 1 \/ k = 2 \/ k = 3 \/ k = 4
        BY SMT
      <3> QED BY <2>3, <3>1
    <2>5. SumFunction(f) = f[1] + f[2] + f[3] + f[4]
      BY <2>3, <2>4, SumOfFour
    <2>6. SumFunction(f) = 166
      BY <2>3, <2>5, SMT
    <2>7. Sums(Frame(b, len)) = 166 % 256
      BY <2>6 DEF Sums, f
    <2> QED BY <2>7, SMT
  <1> QED BY <1>4, SMT DEF HeadSize

LEMMA MessageJustified ==
    ASSUME NEW b \in [0..(BufSize - 1) -> Byte], NEW len \in Nat, len > 3, len < BufSize,
           HeadLen(b) = len, Sums(Frame(b, len)) = 0
    PROVE  [frame |-> Frame(b, len), calls |-> Command(b)] \in Handovers
  <1> DEFINE f == Frame(b, len)
             m == [frame |-> f, calls |-> Command(b)]
  <1>1. f \in Seq(Byte) /\ Len(f) = len
    BY FrameIs
  <1>2. CASE HeadCode(b) = CodeUart /\ DataFits(b)
    <2>1. Command(b) = <<[op |-> "send", chl |-> UartChl(b), data |-> UartData(b)]>>
      BY <1>2 DEF Command, CodeUart, CodeReset
    <2> QED BY <1>2, <2>1, SendJustified
  <1>3. CASE HeadCode(b) = CodeReset
    <2> DEFINE c == [op |-> "reset"]
    <2>1. Command(b) = <<c>>
      BY <1>3 DEF Command, CodeUart, CodeReset
    <2>2. len >= HeadSize + 1
      BY <1>3, ResetLong
    <2>3. c \in [op : {"reset"}] /\ c.op # "send"
      OBVIOUS
    <2> HIDE DEF c, f
    <2>4. m.frame = f /\ m.calls = <<c>> /\ m.calls[1] = c
      BY <2>1
    <2>5. Justified(m)
      BY <1>1, <2>2, <2>3, <2>4 DEF Justified
    <2> QED BY <1>1, <2>1, <2>3, <2>5 DEF Handovers, f
  <1>4. CASE ~(HeadCode(b) = CodeUart /\ DataFits(b)) /\ HeadCode(b) # CodeReset
    <2>1. Command(b) = <<>>
      BY <1>4 DEF Command
    <2> HIDE DEF f
    <2>2. Justified(m)
      BY <2>1 DEF Justified
    <2> QED BY <1>1, <2>1, <2>2 DEF Handovers, f
  <1> QED BY <1>2, <1>3, <1>4

\* Only the check sum's byte hands a message over.
LEMMA HandledUnpack ==
    ASSUME TypeOK, BufferInv, HandledInv, Unpack
    PROVE  HandledInv'
  <1>1. CASE CheckSum
    <2> DEFINE b == udp_buff'
    <2>1. /\ ch \in Byte /\ udp_buff \in [0..(BufSize - 1) -> Byte]
          /\ udp_len \in Nat /\ udp_len > 3 /\ udp_len < BufSize
          /\ index_buff = udp_len - 1 /\ HeadLen(udp_buff) = udp_len
          /\ b = [udp_buff EXCEPT ![index_buff] = ch]
      BY <1>1, ReadByte DEF CheckSum, Store, TypeOK, BufferInv
    <2>2. b \in [0..(BufSize - 1) -> Byte]
      BY <2>1
    <2>3. b[0] = udp_buff[0] /\ b[1] = udp_buff[1]
      <3>1. index_buff # 0 /\ index_buff # 1 /\ 0 \in 0..(BufSize - 1) /\ 1 \in 0..(BufSize - 1)
        BY <2>1, BufAssumption, SMT
      <3> QED BY <2>1, <3>1
    <2>4. HeadLen(b) = udp_len
      BY <2>1, <2>3 DEF HeadLen
    <2> DEFINE m == [frame |-> Frame(b, udp_len), calls |-> Command(b)]
    <2>5. Sums(Frame(b, udp_len)) = 0 => m \in Handovers
      BY <2>1, <2>2, <2>4, MessageJustified
    <2>6. handled' = handled \/ (Sums(Frame(b, udp_len)) = 0 /\ handled' = Append(handled, m))
      BY <1>1 DEF CheckSum
    <2> HIDE DEF m
    <2> QED BY <2>5, <2>6, AppendProperties DEF HandledInv
  <1>2. CASE ~CheckSum
    <2>1. handled' = handled
      BY <1>2 DEF Unpack, WaitHead1, WaitHead2, Len1, Len2, Content, Short, Overrun
    <2> QED BY <2>1 DEF HandledInv
  <1> QED BY <1>1, <1>2

LEMMA HandledGives == HandledInv => CallsFromContent
  <1> SUFFICES ASSUME HandledInv, NEW k \in 1..Len(handled)
               PROVE  Justified(handled[k])
    BY DEF CallsFromContent, Justified
  <1>1. handled[k] \in Handovers
    BY ElementOfSeq DEF HandledInv
  <1> QED BY <1>1 DEF Handovers

\* handleProtocol acts only on what lies inside a message, for every size of
\* the buffer and every stream of bytes, however it is cut into calls
\* (protocol_layer.c:82 and :133).
THEOREM ActsOnContent == Spec => []CallsFromContent
  <1>1. Init => HandledInv
    BY EmptySeq DEF Init, HandledInv
  <1>2. TypeOK /\ BufferInv /\ HandledInv /\ [Next]_vars => HandledInv'
    <2> SUFFICES ASSUME TypeOK, BufferInv, HandledInv, [Next]_vars PROVE HandledInv'
      OBVIOUS
    <2>1. CASE Unpack
      BY <2>1, HandledUnpack
    <2>2. CASE ~Unpack
      BY <2>2 DEF Next, OnRecvData, vars, HandledInv
    <2> QED BY <2>1, <2>2
  <1> QED BY <1>1, <1>2, HandledGives, ParserInvariant, PTL DEF Spec
-----------------------------------------------------------------------------
(***************************************************************************)
(* The chain of pbufs of a datagram and the bytes it carries.              *)
(***************************************************************************)
\* Induction over the numbers, for a property given as the set of them that have it.
LEMMA Induction ==
    ASSUME NEW P, 0 \in P, \A n \in Nat : n \in P => n + 1 \in P
    PROVE  \A n \in Nat : n \in P
  <1> DEFINE R == OpToRel(<, Nat)
             T == Nat \ P
  <1>1. IsWellFoundedOn(R, Nat)
    BY NatLessThanWellFounded
  <1>2. \A n \in Nat \ {0} : n - 1 \in Nat /\ (n - 1) + 1 = n /\ <<n - 1, n>> \in R
    BY SMT DEF OpToRel
  <1> HIDE DEF R
  <1>3. SUFFICES ASSUME T # {} PROVE FALSE
    OBVIOUS
  <1>4. T \subseteq Nat
    OBVIOUS
  <1>5. PICK x \in T : \A y \in T : ~(<<y, x>> \in R)
    <2> HIDE DEF T
    <2> QED BY <1>1, <1>3, <1>4, WFMin
  <1>6. x \in Nat \ {0}
    BY <1>5
  <1>7. x - 1 \in P
    BY <1>2, <1>5, <1>6
  <1>8. x \in P
    BY <1>2, <1>6, <1>7
  <1> QED BY <1>5, <1>8

\* FlattenSeq as the recursion over the parts of s that defines it.
Joined(s, g, n) == [k \in 1..n |-> IF k = 1 THEN s[k] ELSE g[k - 1] \o s[k]]
Joins(s) == CHOOSE g : g = Joined(s, g, Len(s))

LEMMA FlattenIs ==
    ASSUME NEW s
    PROVE  FlattenSeq(s) = IF Len(s) = 0 THEN s ELSE Joins(s)[Len(s)]
  BY DEF FlattenSeq, Joins, Joined

LEMMA JoinsExist ==
    ASSUME NEW s \in Seq(Seq(Byte))
    PROVE  Joins(s) = Joined(s, Joins(s), Len(s))
  <1> DEFINE P == {n \in Nat : \E g : g = Joined(s, g, n)}
  <1>1. 0 \in P
    <2>1. [k \in 1..0 |-> <<>>] = Joined(s, [k \in 1..0 |-> <<>>], 0)
      BY SMT DEF Joined
    <2> QED BY <2>1
  <1>2. ASSUME NEW n \in Nat, n \in P PROVE n + 1 \in P
    <2>1. PICK g : g = Joined(s, g, n)
      BY <1>2
    <2> DEFINE last == IF n = 0 THEN s[1] ELSE g[n] \o s[n + 1]
               h == [k \in 1..(n + 1) |-> IF k = n + 1 THEN last ELSE g[k]]
    <2>2. ASSUME NEW k \in 1..(n + 1)
          PROVE  h[k] = IF k = 1 THEN s[k] ELSE h[k - 1] \o s[k]
      <3>1. CASE k = n + 1 /\ n = 0
        BY <3>1, SMT
      <3>2. CASE k = n + 1 /\ n # 0
        <4>1. k # 1 /\ k - 1 = n /\ n \in 1..(n + 1) /\ n # n + 1
          BY <3>2, SMT
        <4>2. h[k] = last /\ h[n] = g[n]
          BY <3>2, <4>1
        <4> HIDE DEF h
        <4> QED BY <3>2, <4>1, <4>2
      <3>3. CASE k # n + 1
        <4>1. k \in 1..n /\ (k # 1 => k - 1 \in 1..n /\ k - 1 \in 1..(n + 1) /\ k - 1 # n + 1)
          BY <3>3, SMT
        <4>2. h[k] = g[k] /\ (k # 1 => h[k - 1] = g[k - 1])
          BY <3>3, <4>1
        <4>3. g[k] = IF k = 1 THEN s[k] ELSE g[k - 1] \o s[k]
          BY <2>1, <4>1 DEF Joined
        <4> HIDE DEF h
        <4> QED BY <4>2, <4>3
      <3> QED BY <3>1, <3>2, <3>3
    <2>3. h = [k \in 1..(n + 1) |-> h[k]]
      OBVIOUS
    <2> HIDE DEF h
    <2>4. h = Joined(s, h, n + 1)
      BY <2>2, <2>3 DEF Joined
    <2> QED BY <2>4
  <1> HIDE DEF P
  <1>3. Len(s) \in P
    <2>1. \A n \in Nat : n \in P
      BY <1>1, <1>2, Induction
    <2> QED BY <2>1, LenProperties
  <1> QED BY <1>3 DEF P, Joins

LEMMA JoinsAre ==
    ASSUME NEW s \in Seq(Seq(Byte)), NEW n \in 1..Len(s)
    PROVE  Joins(s)[n] = IF n = 1 THEN s[n] ELSE Joins(s)[n - 1] \o s[n]
  <1> DEFINE g == Joins(s)
  <1>1. g = Joined(s, g, Len(s))
    BY JoinsExist
  <1> HIDE DEF g
  <1>2. g[n] = IF n = 1 THEN s[n] ELSE g[n - 1] \o s[n]
    BY <1>1 DEF Joined
  <1> QED BY <1>2 DEF g

LEMMA JoinsTyped ==
    ASSUME NEW s \in Seq(Seq(Byte))
    PROVE  \A n \in 1..Len(s) : Joins(s)[n] \in Seq(Byte)
  <1> DEFINE P == {n \in Nat : n \in 1..Len(s) => Joins(s)[n] \in Seq(Byte)}
  <1>1. 0 \in P
    BY SMT
  <1>2. ASSUME NEW n \in Nat, n \in P PROVE n + 1 \in P
    <2> SUFFICES ASSUME n + 1 \in 1..Len(s) PROVE Joins(s)[n + 1] \in Seq(Byte)
      OBVIOUS
    <2>1. s[n + 1] \in Seq(Byte)
      BY ElementOfSeq
    <2>2. CASE n = 0
      BY <2>1, <2>2, JoinsAre, SMT
    <2>3. CASE n # 0
      <3>1. n \in 1..Len(s) /\ n + 1 # 1 /\ (n + 1) - 1 = n
        BY <2>3, LenProperties, SMT
      <3>2. Joins(s)[n] \in Seq(Byte)
        BY <1>2, <3>1
      <3>3. Joins(s)[n + 1] = Joins(s)[n] \o s[n + 1]
        BY <3>1, JoinsAre
      <3> QED BY <2>1, <3>2, <3>3, ConcatProperties
    <2> QED BY <2>2, <2>3
  <1> HIDE DEF P
  <1>3. \A n \in Nat : n \in P
    BY <1>1, <1>2, Induction
  <1>4. \A n \in 1..Len(s) : n \in Nat
    BY LenProperties, SMT
  <1> QED BY <1>3, <1>4 DEF P

LEMMA Associates == \A a, b, c \in Seq(Byte) : (a \o b) \o c = a \o (b \o c)
  BY ConcatAssociative

\* The first part comes first, before what the others hold.
LEMMA JoinsTail ==
    ASSUME NEW s \in Seq(Seq(Byte)), NEW t \in Seq(Seq(Byte)),
           Len(s) = Len(t) + 1, \A k \in 1..Len(t) : t[k] = s[k + 1]
    PROVE  \A n \in 1..Len(t) : Joins(s)[n + 1] = s[1] \o Joins(t)[n]
  <1> DEFINE P == {n \in Nat : n \in 1..Len(t) => Joins(s)[n + 1] = s[1] \o Joins(t)[n]}
  <1>0. Len(s) \in Nat /\ Len(t) \in Nat
    BY LenProperties
  <1>1. 0 \in P
    BY SMT
  <1>2. ASSUME NEW n \in Nat, n \in P PROVE n + 1 \in P
    <2> SUFFICES ASSUME n + 1 \in 1..Len(t)
                 PROVE  Joins(s)[(n + 1) + 1] = s[1] \o Joins(t)[n + 1]
      <3> DEFINE m == n + 1
      <3>1. m \in Nat
        OBVIOUS
      <3> HIDE DEF m
      <3>2. m \in P <=> (m \in 1..Len(t) => Joins(s)[m + 1] = s[1] \o Joins(t)[m])
        BY <3>1
      <3> QED BY <3>2 DEF m
    <2> DEFINE m == n + 1
    <2>1. /\ m \in 1..Len(t) /\ m + 1 \in 1..Len(s) /\ m + 1 # 1 /\ (m + 1) - 1 = m
          /\ m \in 1..Len(s) /\ 1 \in 1..Len(s)
      <3> DEFINE p == Len(s)
                 q == Len(t)
      <3>1. p \in Nat /\ q \in Nat /\ p = q + 1 /\ n \in Nat /\ n + 1 \in 1..q
        BY <1>0
      <3> HIDE DEF p, q
      <3>2. /\ n + 1 \in 1..q /\ (n + 1) + 1 \in 1..p /\ (n + 1) + 1 # 1
            /\ ((n + 1) + 1) - 1 = n + 1 /\ n + 1 \in 1..p /\ 1 \in 1..p
        BY ONLY <3>1, SMT
      <3> QED BY ONLY <3>2 DEF p, q
    <2>2. Joins(s)[m + 1] = Joins(s)[m] \o t[m]
      <3>1. Joins(s)[m + 1] = Joins(s)[(m + 1) - 1] \o s[m + 1]
        BY <2>1, JoinsAre
      <3> QED BY <2>1, <3>1
    <2>3. s[1] \in Seq(Byte) /\ t[m] \in Seq(Byte)
      BY <2>1, ElementOfSeq
    <2>4. CASE n = 0
      <3>1. m = 1
        BY <2>4, SMT
      <3>2. Joins(s)[m] = s[1] /\ Joins(t)[m] = t[m]
        BY <2>1, <3>1, JoinsAre
      <3> QED BY <2>2, <3>2
    <2>5. CASE n # 0
      <3>1. n \in 1..Len(t) /\ m # 1 /\ m - 1 = n
        BY <1>0, <2>5, SMT
      <3>2. Joins(s)[m] = s[1] \o Joins(t)[n]
        BY <1>2, <3>1
      <3>3. Joins(t)[m] = Joins(t)[n] \o t[m]
        <4>1. m \in 1..Len(t) /\ m # 1
          BY <2>1, <3>1
        <4> HIDE DEF m
        <4>2. Joins(t)[m] = Joins(t)[m - 1] \o t[m]
          BY <4>1, JoinsAre
        <4> QED BY <3>1, <4>2
      <3>4. Joins(t)[n] \in Seq(Byte)
        BY <3>1, JoinsTyped
      <3>5. (s[1] \o Joins(t)[n]) \o t[m] = s[1] \o (Joins(t)[n] \o t[m])
        <4> DEFINE a == s[1]
                   b == Joins(t)[n]
                   c == t[m]
        <4>1. a \in Seq(Byte) /\ b \in Seq(Byte) /\ c \in Seq(Byte)
          BY <2>3, <3>4
        <4> HIDE DEF a, b, c
        <4>2. (a \o b) \o c = a \o (b \o c)
          BY ONLY <4>1, Associates
        <4> QED BY <4>2 DEF a, b, c
      <3> QED BY <2>2, <3>2, <3>3, <3>5
    <2> QED BY <2>4, <2>5
  <1> HIDE DEF P
  <1>3. \A n \in Nat : n \in P
    BY <1>1, <1>2, Induction
  <1>4. \A n \in 1..Len(t) : n \in Nat
    BY <1>0, SMT
  <1> QED BY <1>3, <1>4 DEF P

LEMMA FlattenTyped == \A s \in Seq(Seq(Byte)) : FlattenSeq(s) \in Seq(Byte)
  <1> SUFFICES ASSUME NEW s \in Seq(Seq(Byte)) PROVE FlattenSeq(s) \in Seq(Byte)
    OBVIOUS
  <1>1. CASE Len(s) = 0
    <2>1. s = <<>>
      BY <1>1, EmptySeq
    <2> QED BY <1>1, <2>1, FlattenIs, EmptySeq
  <1>2. CASE Len(s) # 0
    <2>1. Len(s) \in 1..Len(s)
      BY <1>2, LenProperties, SMT
    <2> QED BY <1>2, <2>1, FlattenIs, JoinsTyped
  <1> QED BY <1>1, <1>2

\* The bytes of a chain are those of its first pbuf, then those of the rest.
LEMMA FlattenCons ==
    ASSUME NEW s \in Seq(Seq(Byte)), s # <<>>
    PROVE  FlattenSeq(s) = Head(s) \o FlattenSeq(Tail(s))
  <1> DEFINE t == Tail(s)
  <1>1. /\ t \in Seq(Seq(Byte)) /\ Len(t) = Len(s) - 1 /\ \A k \in 1..Len(t) : t[k] = s[k + 1]
        /\ Head(s) \in Seq(Byte) /\ Head(s) = s[1]
    BY HeadTailProperties
  <1>2. Len(s) \in Nat /\ Len(s) # 0 /\ Len(s) \in 1..Len(s)
    BY LenProperties, EmptySeq, SMT
  <1> HIDE DEF t
  <1>3. FlattenSeq(s) = Joins(s)[Len(s)]
    BY <1>2, FlattenIs
  <1>4. CASE Len(s) = 1
    <2>1. FlattenSeq(s) = s[1]
      BY <1>2, <1>3, <1>4, JoinsAre
    <2>2. t = <<>> /\ Len(t) = 0
      BY <1>1, <1>4, EmptySeq, SMT
    <2>3. FlattenSeq(t) = <<>>
      BY <2>2, FlattenIs
    <2> QED BY <1>1, <2>1, <2>3, ConcatEmptySeq DEF t
  <1>5. CASE Len(s) # 1
    <2>1. Len(t) \in 1..Len(t) /\ Len(t) # 0 /\ Len(t) + 1 = Len(s)
      BY <1>1, <1>2, <1>5, SMT
    <2>2. Joins(s)[Len(t) + 1] = s[1] \o Joins(t)[Len(t)]
      BY <1>1, <2>1, JoinsTail
    <2>3. FlattenSeq(t) = Joins(t)[Len(t)]
      BY <2>1, FlattenIs
    <2> QED BY <1>1, <1>3, <2>1, <2>2, <2>3 DEF t
  <1> QED BY <1>4, <1>5

-----------------------------------------------------------------------------
(***************************************************************************)
(* The receive callback.  What udp_recvbuf shows is the beginning of the   *)
(* datagram at hand, the chain holds the rest of it, and the handler is    *)
(* reading the end of what it was shown.                                   *)
(***************************************************************************)
Shown == [k \in 1..data_len |-> udp_recvbuf[k - 1]]

UdpTypeOK == /\ chain \in Seq(Seq(Byte)) /\ current \in Seq(Byte) /\ received \in Seq(Byte)
             /\ udp_recvbuf \in [0..(RxSize - 1) -> Byte]
             /\ data_len \in 0..RxSize
             /\ plain \in BOOLEAN

Prefix == /\ data_len <= Len(current)
          /\ \A k \in 1..data_len : udp_recvbuf[k - 1] = current[k]
Reading == /\ Len(input) <= data_len
           /\ \A k \in 1..Len(input) : input[k] = current[data_len - Len(input) + k]
DatagramInv == /\ UdpTypeOK /\ Prefix /\ Reading
               /\ chain # <<>> => current = Shown \o FlattenSeq(chain)

\* While every datagram is one pbuf that leaves room, what has arrived and is
\* not yet read is that pbuf or what the handler has not read of it.
Waiting == IF chain = <<>> THEN input ELSE current
PlainInv == plain => /\ received = seen \o Waiting
                     /\ chain # <<>> => /\ data_len = 0 /\ input = <<>> /\ Tail(chain) = <<>>
                                        /\ Len(current) < RxSize

LEMMA RxTyped == RxSize \in Nat /\ RxSize > 0
  BY RxAssumption, SMT

LEMMA ShownIs ==
    ASSUME UdpTypeOK
    PROVE  /\ Shown \in Seq(Byte) /\ Len(Shown) = data_len /\ data_len \in Nat
           /\ \A k \in 1..data_len : Shown[k] = udp_recvbuf[k - 1]
  <1> DEFINE s == Shown
  <1>1. /\ s = [k \in 1..data_len |-> udp_recvbuf[k - 1]] /\ data_len \in 0..RxSize
        /\ udp_recvbuf \in [0..(RxSize - 1) -> Byte]
    BY DEF Shown, UdpTypeOK
  <1>2. data_len \in Nat /\ \A k \in 1..data_len : udp_recvbuf[k - 1] \in Byte
    BY <1>1, RxTyped, SMT
  <1>3. s \in [1..data_len -> Byte] /\ \A k \in 1..data_len : s[k] = udp_recvbuf[k - 1]
    BY <1>1, <1>2
  <1> HIDE DEF s
  <1>4. s \in Seq(Byte) /\ Len(s) = data_len
    BY <1>2, <1>3, SMT
  <1> QED BY <1>2, <1>3, <1>4 DEF s

\* Reading a byte moves it from the front of the one sequence to the end of
\* the other.
LEMMA MoveOne ==
    ASSUME NEW s \in Seq(Byte), NEW t \in Seq(Byte), t # <<>>
    PROVE  Append(s, Head(t)) \o Tail(t) = s \o t
  BY SMT

LEMMA UnpackReads == Unpack => NextByte
  BY DEF Unpack, WaitHead1, WaitHead2, Len1, Len2, Content, Short, Overrun, CheckSum

LEMMA UdpUnpack ==
    ASSUME TypeOK, DatagramInv, PlainInv, Unpack, UNCHANGED udpVars
    PROVE  DatagramInv' /\ PlainInv'
  <1>1. /\ input \in Seq(Byte) /\ seen \in Seq(Byte) /\ input # <<>>
        /\ input' = Tail(input) /\ seen' = Append(seen, Head(input))
    BY UnpackReads DEF TypeOK, NextByte, ch
  <1>2. UNCHANGED <<chain, udp_recvbuf, data_len, current, received, plain>>
    BY DEF udpVars
  <1> DEFINE L == Len(input)
  <1>3. /\ L \in Nat /\ L > 0 /\ input' \in Seq(Byte) /\ Len(input') = L - 1
        /\ \A k \in 1..(L - 1) : input'[k] = input[k + 1]
    <2>1. L \in Nat /\ L # 0
      BY <1>1, LenProperties, EmptySeq
    <2>2. /\ Tail(input) \in Seq(Byte) /\ Len(Tail(input)) = L - 1
          /\ \A k \in 1..Len(Tail(input)) : Tail(input)[k] = input[k + 1]
      BY <1>1, HeadTailProperties
    <2> QED BY <1>1, <2>1, <2>2, SMT
  <1>4. data_len \in Nat /\ L <= data_len
        /\ \A k \in 1..L : input[k] = current[data_len - L + k]
    BY ShownIs DEF DatagramInv, Reading
  <1>5. Reading'
    <2>1. L - 1 <= data_len
      BY <1>3, <1>4, SMT
    <2>2. ASSUME NEW k \in 1..(L - 1)
          PROVE  input'[k] = current[data_len - (L - 1) + k]
      <3>1. k + 1 \in 1..L /\ data_len - L + (k + 1) = data_len - (L - 1) + k
        <4>1. L \in Nat /\ data_len \in Nat
          BY <1>3, <1>4
        <4> HIDE DEF L
        <4> QED BY ONLY <4>1, k \in 1..(L - 1), SMT
      <3> QED BY <1>3, <1>4, <3>1
    <2> QED BY <1>2, <1>3, <2>1, <2>2 DEF Reading
  <1>6. UdpTypeOK' /\ Prefix' /\ (chain # <<>> => current = Shown \o FlattenSeq(chain))'
    <2>1. Shown' = Shown
      BY <1>2 DEF Shown
    <2>2. UdpTypeOK' /\ Prefix'
      BY <1>2 DEF DatagramInv, UdpTypeOK, Prefix
    <2> QED BY <1>2, <2>1, <2>2 DEF DatagramInv
  <1>7. PlainInv'
    <2> SUFFICES ASSUME plain PROVE chain = <<>> /\ received = seen' \o input'
      BY <1>2 DEF PlainInv, Waiting
    <2>1. chain = <<>> /\ received = seen \o input
      BY <1>1 DEF PlainInv, Waiting
    <2> QED BY <1>1, <2>1, MoveOne
  <1> QED BY <1>5, <1>6, <1>7 DEF DatagramInv

LEMMA UdpArrive ==
    ASSUME TypeOK, DatagramInv, PlainInv, NEW pbufs \in Datagrams, Arrive(pbufs)
    PROVE  DatagramInv' /\ PlainInv'
  <1>1. /\ chain = <<>> /\ input = <<>> /\ chain' = pbufs /\ data_len' = 0
        /\ current' = FlattenSeq(pbufs) /\ received' = received \o current'
        /\ plain' = (plain /\ Len(pbufs) = 1 /\ Len(current') < RxSize)
        /\ udp_recvbuf' = udp_recvbuf /\ input' = input /\ seen' = seen
    BY DEF Arrive, vars
  <1>2. pbufs \in Seq(Seq(Byte))
    BY RxAssumption
  <1>3. current' \in Seq(Byte) /\ received' \in Seq(Byte) /\ Len(current') \in Nat
    <2>1. current' \in Seq(Byte)
      BY <1>1, <1>2, FlattenTyped
    <2>2. received \in Seq(Byte)
      BY DEF DatagramInv, UdpTypeOK
    <2> QED BY <1>1, <2>1, <2>2, ConcatProperties, LenProperties
  <1>4. plain' \in BOOLEAN
    BY <1>1, Zenon DEF DatagramInv, UdpTypeOK
  <1>5. 0 \in 0..RxSize
    BY RxTyped, SMT
  <1>6. UdpTypeOK'
    BY <1>1, <1>2, <1>3, <1>4, <1>5 DEF DatagramInv, UdpTypeOK
  <1>7. Prefix' /\ Reading'
    BY <1>1, <1>3, EmptySeq, SMT DEF Prefix, Reading
  <1>8. Shown' = <<>>
    <2>1. Shown' = [k \in 1..0 |-> udp_recvbuf[k - 1]]
      BY <1>1 DEF Shown
    <2> QED BY <2>1, SMT
  <1>9. current' = Shown' \o FlattenSeq(chain')
    BY <1>1, <1>3, <1>8, ConcatEmptySeq
  <1>10. PlainInv'
    <2> SUFFICES ASSUME plain'
                 PROVE  /\ received' = seen' \o Waiting'
                        /\ Tail(chain') = <<>> /\ Len(current') < RxSize
      BY <1>1 DEF PlainInv
    <2>1. plain /\ Len(pbufs) = 1 /\ Len(current') < RxSize
      BY <1>1, Zenon
    <2>2. pbufs # <<>>
      BY <2>1, EmptySeq
    <2>3. Tail(pbufs) = <<>>
      <3>1. Tail(pbufs) \in Seq(Seq(Byte)) /\ Len(Tail(pbufs)) = 0
        BY <1>2, <2>1, <2>2, HeadTailProperties, SMT
      <3> QED BY <3>1, EmptySeq
    <2>4. received = seen
      BY <1>1, <2>1, ConcatEmptySeq DEF PlainInv, Waiting, TypeOK
    <2>5. Waiting' = current'
      BY <1>1, <2>2 DEF Waiting
    <2> QED BY <1>1, <2>1, <2>3, <2>4, <2>5
  <1> QED BY <1>6, <1>7, <1>9, <1>10 DEF DatagramInv

\* One turn of the loop over the chain, up to the comparison with the size of
\* the buffer: what fits of the pbuf is shown behind what was shown before.
LEMMA Gathers ==
    ASSUME DatagramInv, chain # <<>>
    PROVE  /\ Head(chain) \in Seq(Byte) /\ Tail(chain) \in Seq(Seq(Byte))
           /\ current = Shown \o (Head(chain) \o FlattenSeq(Tail(chain)))
           /\ Fitting \in Nat /\ Fitting <= Len(Head(chain))
           /\ data_len + Fitting \in 0..RxSize
           /\ data_len + Fitting < RxSize => Fitting = Len(Head(chain))
           /\ data_len + Fitting >= RxSize => data_len + Len(Head(chain)) >= RxSize
           /\ data_len + Fitting <= Len(current)
           /\ Gathered \in [0..(RxSize - 1) -> Byte]
           /\ \A k \in 1..(data_len + Fitting) : Gathered[k - 1] = current[k]
  <1> DEFINE h == Head(chain)
             rest == FlattenSeq(Tail(chain))
             n == Fitting
             o == data_len
             c == current
             G == Gathered
             s == Shown
  <1>1. h \in Seq(Byte) /\ Tail(chain) \in Seq(Seq(Byte))
    BY HeadTailProperties DEF DatagramInv, UdpTypeOK
  <1>2. rest \in Seq(Byte)
    BY <1>1, FlattenTyped
  <1>3. c = s \o (h \o rest)
    BY FlattenCons DEF DatagramInv, UdpTypeOK
  <1>4. s \in Seq(Byte) /\ Len(s) = o /\ o \in Nat
    BY ShownIs DEF DatagramInv
  <1>5. /\ RxSize \in Nat /\ RxSize > 0 /\ o <= RxSize /\ o <= Len(c)
        /\ udp_recvbuf \in [0..(RxSize - 1) -> Byte]
        /\ \A k \in 1..o : udp_recvbuf[k - 1] = c[k]
    BY RxTyped DEF DatagramInv, UdpTypeOK, Prefix
  <1>6. Len(h) \in Nat /\ Len(rest) \in Nat
    BY <1>1, <1>2, LenProperties
  <1>7. n = IF Len(h) > RxSize - o THEN RxSize - o ELSE Len(h)
    BY DEF Fitting
  <1>8. G = [i \in 0..(RxSize - 1) |-> IF i \in o..(o + n - 1) THEN h[i - o + 1]
                                       ELSE udp_recvbuf[i]]
    BY DEF Gathered
  <1> HIDE DEF h, rest, n, o, c, G, s
  <1>9. /\ n \in Nat /\ n <= Len(h) /\ o + n \in 0..RxSize
        /\ o + n < RxSize => n = Len(h)
        /\ o + n >= RxSize => o + Len(h) >= RxSize
    BY <1>4, <1>5, <1>6, <1>7, SMT
  <1>10. /\ Len(c) = o + Len(h) + Len(rest)
         /\ \A k \in 1..Len(h) : c[o + k] = h[k]
    <2> DEFINE m == h \o rest
    <2>1. /\ m \in Seq(Byte) /\ Len(m) = Len(h) + Len(rest)
          /\ \A k \in 1..Len(h) : m[k] = h[k]
      BY <1>1, <1>2, SMT
    <2>2. c = s \o m
      BY <1>3
    <2> HIDE DEF m
    <2>3. Len(c) = o + Len(m) /\ \A k \in 1..Len(m) : c[o + k] = m[k]
      <3>1. /\ Len(s \o m) = Len(s) + Len(m)
            /\ \A i \in 1..(Len(s) + Len(m)) : (s \o m)[i] = IF i <= Len(s) THEN s[i] ELSE m[i - Len(s)]
        <4>1. s \in Seq(Byte) /\ m \in Seq(Byte)
          BY <1>4, <2>1
        <4> QED BY ONLY <4>1, ConcatProperties
      <3>2. Len(m) \in Nat
        BY <2>1, LenProperties
      <3>3. \A k \in 1..Len(m) : /\ o + k \in 1..(o + Len(m)) /\ ~(o + k <= o)
                                 /\ (o + k) - o = k
        BY <1>4, <3>2, SMT
      <3> QED BY <1>4, <2>2, <3>1, <3>3
    <2>4. \A k \in 1..Len(h) : k \in 1..Len(m)
      BY <1>6, <2>1, SMT
    <2>5. o + Len(m) = o + Len(h) + Len(rest)
      BY <1>4, <1>6, <2>1, SMT
    <2> QED BY <2>1, <2>3, <2>4, <2>5
  <1>11. o + n <= Len(c)
    BY <1>4, <1>6, <1>9, <1>10, SMT
  <1>12. G \in [0..(RxSize - 1) -> Byte]
    <2> SUFFICES ASSUME NEW i \in 0..(RxSize - 1)
                 PROVE  (IF i \in o..(o + n - 1) THEN h[i - o + 1] ELSE udp_recvbuf[i]) \in Byte
      BY <1>8
    <2>1. CASE i \in o..(o + n - 1)
      <3>1. i - o + 1 \in 1..Len(h)
        BY <1>4, <1>6, <1>9, <2>1, SMT
      <3> QED BY <1>1, <2>1, <3>1, ElementOfSeq
    <2> QED BY <1>5, <2>1
  <1>13. ASSUME NEW k \in 1..(o + n) PROVE G[k - 1] = c[k]
    <2>1. k - 1 \in 0..(RxSize - 1)
      BY <1>4, <1>5, <1>9, SMT
    <2>2. CASE k <= o
      <3>1. k \in 1..o /\ k - 1 \notin o..(o + n - 1)
        BY <1>4, <1>9, <2>2, SMT
      <3> QED BY <1>5, <1>8, <2>1, <3>1
    <2>3. CASE k > o
      <3>1. k - 1 \in o..(o + n - 1) /\ k - 1 - o + 1 = k - o /\ k - o \in 1..Len(h)
            /\ o + (k - o) = k
        BY <1>4, <1>6, <1>9, <2>3, SMT
      <3>2. c[o + (k - o)] = h[k - o]
        BY <1>10, <3>1
      <3> QED BY <1>8, <2>1, <3>1, <3>2
    <2> QED BY <1>4, <2>2, <2>3, SMT
  <1> QED BY <1>1, <1>3, <1>9, <1>11, <1>12, <1>13 DEF h, rest, n, o, c, G, s

\* What one visit tells of a datagram that came in one pbuf.
LEMMA PlainPbuf ==
    ASSUME DatagramInv, PlainInv, chain # <<>>, plain
    PROVE  /\ data_len = 0 /\ Tail(chain) = <<>> /\ current = Head(chain)
           /\ Len(current) < RxSize /\ received = seen \o current
  <1>1. /\ data_len = 0 /\ Tail(chain) = <<>> /\ Len(current) < RxSize
        /\ received = seen \o current
    BY DEF PlainInv, Waiting
  <1>2. Shown = <<>>
    BY <1>1, ShownIs, EmptySeq DEF DatagramInv
  <1>3. FlattenSeq(<<>>) = <<>>
    BY FlattenIs, EmptySeq
  <1>4. Head(chain) \in Seq(Byte) /\ current = <<>> \o (Head(chain) \o <<>>)
    BY <1>1, <1>2, <1>3, Gathers
  <1> QED BY <1>1, <1>4, ConcatEmptySeq

LEMMA UdpVisit ==
    ASSUME TypeOK, DatagramInv, PlainInv, Visit
    PROVE  DatagramInv' /\ PlainInv'
  <1> DEFINE n == data_len + Fitting
             h == Head(chain)
             t == Tail(chain)
  <1>1. /\ chain # <<>> /\ input = <<>> /\ udp_recvbuf' = Gathered
        /\ data_len' = n /\ n < RxSize /\ chain' = t
        /\ input' = Shown' /\ seen' = seen
        /\ UNCHANGED <<current, received, plain>>
    BY DEF Visit, OnRecvData, Shown
  <1>2. /\ h \in Seq(Byte) /\ t \in Seq(Seq(Byte))
        /\ current = Shown \o (h \o FlattenSeq(t))
        /\ n \in 0..RxSize /\ Fitting = Len(h) /\ n <= Len(current)
        /\ Gathered \in [0..(RxSize - 1) -> Byte]
        /\ \A k \in 1..n : Gathered[k - 1] = current[k]
    BY <1>1, Gathers
  <1>3. UdpTypeOK'
    BY <1>1, <1>2 DEF DatagramInv, UdpTypeOK
  <1>4. Prefix'
    BY <1>1, <1>2 DEF Prefix
  <1>5. /\ Shown' \in Seq(Byte) /\ Len(Shown') = n /\ n \in Nat
        /\ \A k \in 1..n : Shown'[k] = current[k]
    <2>1. (/\ Shown \in Seq(Byte) /\ Len(Shown) = data_len /\ data_len \in Nat
           /\ \A k \in 1..data_len : Shown[k] = udp_recvbuf[k - 1])'
      BY <1>3, ShownIs, PTL
    <2> QED BY <1>1, <1>2, <2>1
  <1>6. Reading'
    <2>1. Len(input') <= data_len'
      BY <1>1, <1>5, SMT
    <2>2. \A k \in 1..Len(input') : data_len' - Len(input') + k = k
      BY <1>1, <1>5, SMT
    <2> QED BY <1>1, <1>5, <2>1, <2>2 DEF Reading
  <1>7. current' = Shown' \o FlattenSeq(chain')
    <2> DEFINE s == Shown
               r == FlattenSeq(t)
               d == data_len
               c == current
               u == Shown'
    <2>1. /\ s \in Seq(Byte) /\ Len(s) = d /\ d \in Nat /\ r \in Seq(Byte)
          /\ c = s \o (h \o r) /\ h \in Seq(Byte)
      BY <1>2, ShownIs, FlattenTyped DEF DatagramInv
    <2>2. u \in Seq(Byte) /\ Len(u) = d + Len(h) /\ \A k \in 1..(d + Len(h)) : u[k] = c[k]
      BY <1>2, <1>5
    <2> HIDE DEF s, r, d, c, u, h
    <2>3. c = (s \o h) \o r
      BY <2>1, SMTT(30)
    <2> DEFINE v == s \o h
    <2>4. v \in Seq(Byte) /\ Len(v) = d + Len(h)
      BY <2>1, ConcatProperties
    <2>5. \A k \in 1..(d + Len(h)) : v[k] = c[k]
      <3> HIDE DEF v
      <3>1. \A k \in 1..Len(v) : (v \o r)[k] = v[k]
        BY <2>1, <2>4, SMT
      <3>2. c = v \o r
        BY <2>3 DEF v
      <3> QED BY <2>4, <3>1, <3>2
    <2> HIDE DEF v
    <2>6. u = v
      BY <2>2, <2>4, <2>5, SeqEqual
    <2>7. c = u \o r
      BY <2>3, <2>6 DEF v
    <2> QED BY <1>1, <2>7 DEF c, u, r
  <1>8. PlainInv'
    <2> SUFFICES ASSUME plain PROVE chain' = <<>> /\ received = seen \o input'
      BY <1>1 DEF PlainInv, Waiting
    <2>1. /\ data_len = 0 /\ t = <<>> /\ current = h /\ received = seen \o current
      BY <1>1, PlainPbuf
    <2>2. n = Len(h)
      BY <1>2, <2>1, LenProperties, SMT
    <2>3. input' = current
      <3> DEFINE u == Shown'
                 c == current
      <3>1. /\ u \in Seq(Byte) /\ c \in Seq(Byte) /\ Len(u) = Len(c)
            /\ \A k \in 1..Len(u) : u[k] = c[k]
        BY <1>2, <1>5, <2>1, <2>2
      <3> HIDE DEF u, c
      <3>2. u = c
        BY <3>1, SeqEqual
      <3> QED BY <1>1, <3>2 DEF u, c
    <2> QED BY <1>1, <2>1, <2>3
  <1> QED BY <1>3, <1>4, <1>6, <1>7, <1>8 DEF DatagramInv

LEMMA UdpFull ==
    ASSUME TypeOK, DatagramInv, PlainInv, BufferFull
    PROVE  DatagramInv' /\ PlainInv'
  <1> DEFINE n == data_len + Fitting
  <1>1. /\ chain # <<>> /\ input = <<>> /\ udp_recvbuf' = Gathered
        /\ data_len' = n /\ n >= RxSize /\ chain' = <<>>
        /\ input' = input /\ seen' = seen
        /\ UNCHANGED <<current, received, plain>>
    BY DEF BufferFull, vars
  <1>2. /\ n \in 0..RxSize /\ n <= Len(current) /\ data_len + Len(Head(chain)) >= RxSize
        /\ Gathered \in [0..(RxSize - 1) -> Byte] /\ Head(chain) \in Seq(Byte)
        /\ \A k \in 1..n : Gathered[k - 1] = current[k]
    BY <1>1, Gathers
  <1>3. UdpTypeOK'
    BY <1>1, <1>2, EmptySeq DEF DatagramInv, UdpTypeOK
  <1>4. Prefix'
    BY <1>1, <1>2 DEF Prefix
  <1>5. Reading'
    BY <1>1, <1>2, EmptySeq, SMT DEF Reading
  <1>6. ~plain
    <2> SUFFICES ASSUME plain PROVE FALSE
      OBVIOUS
    <2>1. data_len = 0 /\ current = Head(chain) /\ Len(current) < RxSize
      BY <1>1, PlainPbuf
    <2> QED BY <1>2, <2>1, LenProperties, RxTyped, SMT
  <1>7. PlainInv'
    BY <1>1, <1>6 DEF PlainInv
  <1> QED BY <1>1, <1>3, <1>4, <1>5, <1>7 DEF DatagramInv

\* A byte moves the parser as it does without the callback; what the callback
\* hands over are bytes.
LEMMA ParserBehind ==
    ASSUME TypeOK, BufferInv, HandledInv, DatagramInv, PlainInv, [UdpNext]_allVars
    PROVE  TypeOK' /\ BufferInv' /\ HandledInv'
  <1>1. CASE Unpack
    BY <1>1, ParserUnpack, HandledUnpack
  <1>2. CASE Visit
    <2>1. (DatagramInv /\ PlainInv)'
      BY <1>2, UdpVisit
    <2>2. Shown' \in Seq(Byte)
      <3>1. UdpTypeOK'
        BY <2>1 DEF DatagramInv
      <3>2. (/\ Shown \in Seq(Byte) /\ Len(Shown) = data_len /\ data_len \in Nat
             /\ \A k \in 1..data_len : Shown[k] = udp_recvbuf[k - 1])'
        BY <3>1, ShownIs, PTL
      <3> QED BY <3>2
    <2>3. input' = Shown' /\ UNCHANGED <<parser, overrun, handled, seen>>
      BY <1>2 DEF Visit, OnRecvData, Shown
    <2> QED BY <2>2, <2>3 DEF TypeOK, BufferInv, HandledInv, parser, LastIndex
  <1>3. CASE ~Unpack /\ ~Visit
    <2>1. UNCHANGED vars
      BY <1>3 DEF UdpNext, Arrive, BufferFull, allVars
    <2> QED BY <2>1 DEF vars, TypeOK, BufferInv, HandledInv, LastIndex
  <1> QED BY <1>1, <1>2, <1>3

LEMMA CallbackInit == UdpInit => /\ TypeOK /\ BufferInv /\ HandledInv
                                 /\ DatagramInv /\ PlainInv
  <1> SUFFICES ASSUME UdpInit
               PROVE  TypeOK /\ BufferInv /\ HandledInv /\ DatagramInv /\ PlainInv
    OBVIOUS
  <1>1. TypeOK /\ BufferInv /\ HandledInv
    BY ParserInit, EmptySeq DEF UdpInit, Init, HandledInv
  <1>2. /\ <<>> \in Seq(Byte) /\ <<>> \in Seq(Seq(Byte)) /\ Len(<<>>) = 0
        /\ <<>> \o <<>> = <<>>
    BY EmptySeq, ConcatEmptySeq
  <1>3. 0 \in 0..RxSize /\ udp_recvbuf \in [0..(RxSize - 1) -> Byte]
    BY RxTyped, ByteRange, SMT DEF UdpInit
  <1>4. UdpTypeOK
    BY <1>2, <1>3 DEF UdpInit, UdpTypeOK
  <1>5. Prefix /\ Reading
    BY <1>2, SMT DEF UdpInit, Init, Prefix, Reading
  <1>6. PlainInv
    BY <1>2 DEF UdpInit, Init, PlainInv, Waiting
  <1> QED BY <1>1, <1>4, <1>5, <1>6 DEF DatagramInv, UdpInit

\* The callback and the parser, for every size of the buffers and every chain
\* of pbufs: the inductive invariant of udp_interface.c:11 to :37 and
\* protocol_layer.c:82 to :186.
THEOREM CallbackInvariant ==
    UdpSpec => [](TypeOK /\ BufferInv /\ HandledInv /\ DatagramInv /\ PlainInv)
  <1> DEFINE Inv == TypeOK /\ BufferInv /\ HandledInv /\ DatagramInv /\ PlainInv
  <1>1. UdpInit => Inv
    BY CallbackInit
  <1>2. Inv /\ [UdpNext]_allVars => Inv'
    <2> SUFFICES ASSUME Inv, [UdpNext]_allVars PROVE DatagramInv' /\ PlainInv'
      BY ParserBehind
    <2>1. CASE Unpack /\ UNCHANGED udpVars
      BY <2>1, UdpUnpack
    <2>2. ASSUME NEW pbufs \in Datagrams, Arrive(pbufs) PROVE DatagramInv' /\ PlainInv'
      BY <2>2, UdpArrive
    <2>3. CASE Visit
      BY <2>3, UdpVisit
    <2>4. CASE BufferFull
      BY <2>4, UdpFull
    <2>5. CASE UNCHANGED allVars
      <3>1. UNCHANGED <<udpVars, input, seen>>
        BY <2>5 DEF allVars, vars
      <3>2. Shown' = Shown
        BY <3>1 DEF udpVars, Shown
      <3> QED BY <3>1, <3>2 DEF udpVars, DatagramInv, UdpTypeOK, Prefix, Reading, PlainInv, Waiting
    <2> QED BY <2>1, <2>2, <2>3, <2>4, <2>5 DEF UdpNext
  <1> QED BY <1>1, <1>2, PTL DEF UdpSpec

\* Behind the callback, too, the parser leaves udp_buff only for a message of
\* length 0 and acts only on what lies inside a message.
THEOREM ParserBehindCallback == UdpSpec => [](OverrunOnlyByZero /\ CallsFromContent)
  <1>1. BufferInv => OverrunOnlyByZero
    BY DEF BufferInv, OverrunOnlyByZero
  <1> QED BY CallbackInvariant, HandledGives, <1>1, PTL

\* The handler is only ever shown the beginning of the datagram at hand,
\* whatever the chain and whatever an earlier datagram left in udp_recvbuf
\* (udp_interface.c:19).
THEOREM ShowsThisDatagram == UdpSpec => []OnlyThisDatagram
  <1>1. TypeOK /\ DatagramInv => OnlyThisDatagram
    <2> SUFFICES ASSUME TypeOK, DatagramInv, input # <<>>
                 PROVE  /\ data_len <= Len(current)
                        /\ input = SubSeq(current, data_len - Len(input) + 1, data_len)
      BY DEF OnlyThisDatagram
    <2> DEFINE L == Len(input)
               first == data_len - L + 1
               t == SubSeq(current, first, data_len)
    <2>1. /\ input \in Seq(Byte) /\ L \in Nat /\ L # 0 /\ L <= data_len /\ data_len \in Nat
          /\ data_len <= Len(current) /\ current \in Seq(Byte) /\ Len(current) \in Nat
          /\ \A k \in 1..L : input[k] = current[data_len - L + k]
      BY EmptySeq, LenProperties, ShownIs DEF TypeOK, DatagramInv, Reading, Prefix, UdpTypeOK
    <2> HIDE DEF L
    <2>2. /\ first \in Int /\ data_len \in Int /\ first <= data_len /\ data_len - first + 1 = L
          /\ first..data_len \subseteq 1..Len(current)
          /\ \A k \in 1..L : first + k - 1 = data_len - L + k
      BY <2>1, SMT
    <2> HIDE DEF first
    <2>3. \A k \in first..data_len : current[k] \in Byte
      BY <2>1, <2>2, ElementOfSeq
    <2>4. LET u == SubSeq(current, first, data_len)
          IN /\ u \in Seq(Byte)
             /\ Len(u) = IF first <= data_len THEN data_len - first + 1 ELSE 0
             /\ \A k \in 1..(data_len - first + 1) : u[k] = current[first + k - 1]
      BY ONLY <2>2, <2>3, SubSeqProperties
    <2>5. t \in Seq(Byte) /\ Len(t) = L /\ \A k \in 1..L : t[k] = input[k]
      BY <2>1, <2>2, <2>4, SMTT(30)
    <2> HIDE DEF t
    <2>6. input = t
      BY <2>1, <2>5, SeqEqual DEF L
    <2> QED BY <2>1, <2>6 DEF t, first, L
  <1> QED BY CallbackInvariant, <1>1, PTL

\* As long as each datagram is one pbuf and leaves room in the buffer, the
\* parser reads every byte that arrived exactly once and in order
\* (udp_interface.c:25: the handler is called inside the loop over the chain).
THEOREM PlainBytesOnce == UdpSpec => []PlainOnce
  <1>1. TypeOK /\ DatagramInv /\ PlainInv => PlainOnce
    <2> SUFFICES ASSUME TypeOK, DatagramInv, PlainInv, plain, Idle PROVE seen = received
      BY DEF PlainOnce, EachByteOnce
    <2>1. received = seen \o <<>> /\ seen \in Seq(Byte)
      BY DEF PlainInv, Waiting, Idle, TypeOK
    <2> QED BY <2>1, ConcatEmptySeq
  <1> QED BY CallbackInvariant, <1>1, PTL
-----------------------------------------------------------------------------
(***************************************************************************)
(* The messages in the bytes received: what one more byte adds to them.    *)
(***************************************************************************)
\* The recursion of Parse over its stages.
First == [at |-> 1, found |-> <<>>]
Turn(s, p) == IF Settled(s, p.at)
              THEN [at |-> Body(s, p.at) + Span(LengthAt(s, Body(s, p.at))),
                    found |-> p.found \o MessageAt(s, Body(s, p.at))]
              ELSE p
Stages(s, g, n) == [k \in 0..n |-> IF k = 0 THEN First ELSE Turn(s, g[k - 1])]
Most(s) == Len(s) \div 4

LEMMA ParseIs ==
    ASSUME NEW s
    PROVE  Parse(s) = CHOOSE g : g = Stages(s, g, Most(s))
  BY DEF Parse, Stages, Turn, First, Most

LEMMA StagesExist ==
    ASSUME NEW s \in Seq(Byte)
    PROVE  Parse(s) = Stages(s, Parse(s), Most(s)) /\ Most(s) \in Nat
  <1> DEFINE P == {n \in Nat : \E g : g = Stages(s, g, n)}
  <1>1. 0 \in P
    <2> DEFINE h == [k \in 0..0 |-> First]
    <2>1. \A k \in 0..0 : k = 0
      BY SMT
    <2>2. h = Stages(s, h, 0)
      BY <2>1 DEF Stages
    <2> QED BY <2>2
  <1>2. ASSUME NEW n \in Nat, n \in P PROVE n + 1 \in P
    <2>1. PICK g : g = Stages(s, g, n)
      BY <1>2
    <2> DEFINE h == [k \in 0..(n + 1) |-> IF k = n + 1 THEN Turn(s, g[n]) ELSE g[k]]
    <2>2. ASSUME NEW k \in 0..(n + 1)
          PROVE  h[k] = IF k = 0 THEN First ELSE Turn(s, h[k - 1])
      <3>1. CASE k = n + 1
        <4>1. k # 0 /\ k - 1 = n /\ n \in 0..(n + 1) /\ n # n + 1
          BY <3>1, SMT
        <4>2. h[k] = Turn(s, g[n]) /\ h[n] = g[n]
          BY <3>1, <4>1
        <4> HIDE DEF h
        <4> QED BY <4>1, <4>2
      <3>2. CASE k # n + 1
        <4>1. k \in 0..n /\ (k # 0 => k - 1 \in 0..(n + 1) /\ k - 1 # n + 1)
          BY <3>2, SMT
        <4>2. h[k] = g[k] /\ (k # 0 => h[k - 1] = g[k - 1])
          BY <3>2, <4>1
        <4>3. g[k] = IF k = 0 THEN First ELSE Turn(s, g[k - 1])
          BY <2>1, <4>1 DEF Stages
        <4> HIDE DEF h
        <4> QED BY <4>2, <4>3
      <3> QED BY <3>1, <3>2
    <2>3. h = [k \in 0..(n + 1) |-> h[k]]
      OBVIOUS
    <2> HIDE DEF h
    <2>4. h = Stages(s, h, n + 1)
      BY <2>2, <2>3 DEF Stages
    <2> QED BY <2>4
  <1> HIDE DEF P
  <1>3. Most(s) \in Nat
    <2>1. Len(s) \in Nat
      BY LenProperties
    <2> QED BY <2>1, SMT DEF Most
  <1>4. Most(s) \in P
    <2>1. \A n \in Nat : n \in P
      BY <1>1, <1>2, Induction
    <2> QED BY <2>1, <1>3
  <1>5. \E g : g = Stages(s, g, Most(s))
    BY <1>4 DEF P
  <1> QED BY <1>3, <1>5, ParseIs

LEMMA ParseAt ==
    ASSUME NEW s \in Seq(Byte), NEW n \in 0..Most(s)
    PROVE  Parse(s)[n] = IF n = 0 THEN First ELSE Turn(s, Parse(s)[n - 1])
  <1> DEFINE g == Parse(s)
  <1>1. g = Stages(s, g, Most(s))
    BY StagesExist
  <1> HIDE DEF g
  <1>2. g[n] = IF n = 0 THEN First ELSE Turn(s, g[n - 1])
    BY <1>1 DEF Stages
  <1> QED BY <1>2 DEF g

\* The first of the heads.
LEMMA BodyIs ==
    ASSUME NEW s \in Seq(Byte), NEW a \in Nat, a >= 1, Heads(s, a) # {}
    PROVE  /\ Body(s, a) - 2 \in Heads(s, a)
           /\ \A j \in Heads(s, a) : Body(s, a) - 2 <= j
           /\ Body(s, a) \in Nat /\ Body(s, a) >= a + 2 /\ Body(s, a) <= Len(s) + 1
  <1> DEFINE R == OpToRel(<, Nat)
             d == Heads(s, a)
             i == CHOOSE i \in d : \A j \in d : i <= j
  <1>1. IsWellFoundedOn(R, Nat)
    BY NatLessThanWellFounded
  <1>2. Len(s) \in Nat /\ \A j \in d : j \in Nat /\ j >= a /\ j + 1 <= Len(s)
    <2>1. Len(s) \in Nat
      BY LenProperties
    <2>2. \A j \in d : j \in a..(Len(s) - 1)
      BY DEF Heads
    <2> HIDE DEF d
    <2> QED BY <2>1, <2>2, SMT
  <1>3. \A x, y \in Nat : x < y => <<x, y>> \in R
    BY DEF OpToRel
  <1> HIDE DEF R, d
  <1>4. d # {} /\ d \subseteq Nat
    BY <1>2 DEF d
  <1>5. PICK x \in d : \A y \in d : ~(<<y, x>> \in R)
    BY <1>1, <1>4, WFMin
  <1>6. \A y \in d : x <= y
    <2>1. \A y \in d : ~(y < x)
      BY <1>2, <1>3, <1>5
    <2> QED BY <1>2, <1>5, <2>1, SMT
  <1>7. i \in d /\ \A j \in d : i <= j
    BY <1>5, <1>6
  <1>8. Body(s, a) = 2 + i
    BY DEF Body, d
  <1> HIDE DEF i
  <1>9. Body(s, a) - 2 = i /\ Body(s, a) \in Nat /\ Body(s, a) >= a + 2 /\ Body(s, a) <= Len(s) + 1
    BY <1>2, <1>7, <1>8, SMT
  <1> QED BY <1>7, <1>9 DEF d

LEMMA BodyUnique ==
    ASSUME NEW s \in Seq(Byte), NEW a \in Nat, a >= 1,
           NEW i \in Heads(s, a), \A j \in Heads(s, a) : i <= j
    PROVE  Body(s, a) = i + 2
  <1>1. /\ Body(s, a) - 2 \in Heads(s, a)
        /\ \A j \in Heads(s, a) : Body(s, a) - 2 <= j
        /\ Body(s, a) \in Nat
    BY BodyIs
  <1>2. i <= Body(s, a) - 2 /\ Body(s, a) - 2 <= i
    BY <1>1
  <1>3. i \in Int
    BY SMT, LenProperties DEF Heads
  <1> QED BY <1>1, <1>2, <1>3, SMT

\* What one more byte does to a byte string and its heads from a on.
Extends(s, c, t, n) == /\ t \in Seq(Byte) /\ Len(t) = n + 1 /\ n \in Nat /\ n = Len(s)
                       /\ t[n + 1] = c /\ \A k \in 1..n : t[k] = s[k]

LEMMA ExtendsIs ==
    ASSUME NEW s \in Seq(Byte), NEW c \in Byte
    PROVE  Extends(s, c, Append(s, c), Len(s))
  BY AppendProperties, LenProperties DEF Extends

LEMMA HeadsAppend ==
    ASSUME NEW s \in Seq(Byte), NEW c \in Byte, NEW t, NEW n, Extends(s, c, t, n),
           NEW a \in Nat, a >= 1
    PROVE  Heads(t, a) = Heads(s, a) \cup
               (IF a <= n /\ s[n] = HeadByte /\ c = HeadByte THEN {n} ELSE {})
  <1>1. /\ t \in Seq(Byte) /\ Len(t) = n + 1 /\ n \in Nat /\ n = Len(s)
        /\ t[n + 1] = c /\ \A k \in 1..n : t[k] = s[k]
    BY DEF Extends
  <1>2. ASSUME NEW i, i \in Heads(t, a)
        PROVE  \/ i \in Heads(s, a)
               \/ a <= n /\ s[n] = HeadByte /\ c = HeadByte /\ i = n
    <2>1. i \in a..n /\ t[i] = HeadByte /\ t[i + 1] = HeadByte
      <3>1. (n + 1) - 1 = n
        BY <1>1, SMT
      <3> QED BY <1>1, <1>2, <3>1 DEF Heads
    <2>2. CASE i = n
      <3>1. a <= n /\ n \in 1..n
        BY <1>1, <2>1, <2>2, SMT
      <3> QED BY <1>1, <2>1, <2>2, <3>1
    <2>3. CASE i # n
      <3>1. i \in a..(n - 1) /\ i \in 1..n /\ i + 1 \in 1..n
        BY <1>1, <2>1, <2>3, SMT
      <3> QED BY <1>1, <2>1, <3>1 DEF Heads
    <2> QED BY <2>2, <2>3
  <1>3. ASSUME NEW i, i \in Heads(s, a) PROVE i \in Heads(t, a)
    <2>1. i \in a..(n - 1) /\ s[i] = HeadByte /\ s[i + 1] = HeadByte
      BY <1>1, <1>3 DEF Heads
    <2>2. i \in a..((n + 1) - 1) /\ i \in 1..n /\ i + 1 \in 1..n
      BY <1>1, <2>1, SMT
    <2> QED BY <1>1, <2>1, <2>2 DEF Heads
  <1>4. ASSUME a <= n, s[n] = HeadByte, c = HeadByte PROVE n \in Heads(t, a)
    <2>1. n \in a..((n + 1) - 1) /\ n \in 1..n
      BY <1>1, <1>4, SMT
    <2> QED BY <1>1, <1>4, <2>1 DEF Heads
  <1> QED BY <1>2, <1>3, <1>4

LEMMA BodyAppend ==
    ASSUME NEW s \in Seq(Byte), NEW c \in Byte, NEW t, NEW n, Extends(s, c, t, n),
           NEW a \in Nat, a >= 1, Heads(s, a) # {}
    PROVE  Heads(t, a) # {} /\ Body(t, a) = Body(s, a)
  <1> DEFINE i == Body(s, a) - 2
  <1>1. /\ i \in Heads(s, a) /\ \A j \in Heads(s, a) : i <= j
        /\ Body(s, a) \in Nat /\ Body(s, a) <= Len(s) + 1
    BY BodyIs
  <1>2. n \in Nat /\ n = Len(s) /\ t \in Seq(Byte)
    BY DEF Extends
  <1>3. \A j \in Heads(t, a) : j \in Heads(s, a) \/ j = n
    BY HeadsAppend
  <1>4. i <= n /\ i + 2 = Body(s, a)
    BY <1>1, <1>2, SMT
  <1> HIDE DEF i
  <1>5. i \in Heads(t, a)
    BY <1>1, HeadsAppend
  <1>6. \A j \in Heads(t, a) : i <= j
    BY <1>1, <1>3, <1>4
  <1>7. Body(t, a) = i + 2
    BY <1>2, <1>5, <1>6, BodyUnique
  <1> QED BY <1>4, <1>5, <1>7

LEMMA SliceIs ==
    ASSUME NEW s \in Seq(Byte), NEW b \in Nat, b >= 1, NEW len \in Nat, len >= 1,
           b + len <= Len(s) + 1
    PROVE  /\ SubSeq(s, b, b + len - 1) \in Seq(Byte)
           /\ Len(SubSeq(s, b, b + len - 1)) = len
           /\ \A k \in 1..len : SubSeq(s, b, b + len - 1)[k] = s[b + k - 1]
  <1> DEFINE e == b + len - 1
             u == SubSeq(s, b, e)
  <1>1. Len(s) \in Nat
    BY LenProperties
  <1>2. b \in 1..(Len(s) + 1) /\ e \in (b - 1)..Len(s) /\ b <= e /\ e - b + 1 = len
    BY <1>1, SMT
  <1>3. /\ u \in Seq(Byte) /\ Len(u) = IF b <= e THEN e - b + 1 ELSE 0
        /\ \A k \in 1..(e - b + 1) : u[k] = s[b + k - 1]
    <2> HIDE DEF e
    <2> QED BY <1>2, SubSeqProperties
  <1> HIDE DEF e
  <1> QED BY <1>2, <1>3 DEF e

\* A length and a message that have arrived stay what they are.
LEMMA LengthAppend ==
    ASSUME NEW s \in Seq(Byte), NEW c \in Byte, NEW t, NEW n, Extends(s, c, t, n),
           NEW b \in Nat, b >= 1, b < Len(s)
    PROVE  LengthAt(t, b) = LengthAt(s, b) /\ LengthAt(s, b) \in Nat
  <1>1. n \in Nat /\ n = Len(s) /\ \A k \in 1..n : t[k] = s[k]
    BY DEF Extends
  <1>2. b \in 1..n /\ b + 1 \in 1..n
    BY <1>1, SMT
  <1>3. s[b] \in Nat /\ s[b + 1] \in Nat
    <2>1. s[b] \in Byte /\ s[b + 1] \in Byte
      BY <1>1, <1>2, ElementOfSeq
    <2> QED BY <2>1, ByteRange
  <1> DEFINE x == s[b]
             y == s[b + 1]
  <1>4. x \in Nat /\ y \in Nat /\ t[b] = x /\ t[b + 1] = y
    BY <1>1, <1>2, <1>3
  <1>5. LengthAt(t, b) = x + 256 * y /\ LengthAt(s, b) = x + 256 * y
    BY <1>4 DEF LengthAt
  <1> HIDE DEF x, y
  <1> QED BY <1>4, <1>5, SMT

LEMMA MessageAppend ==
    ASSUME NEW s \in Seq(Byte), NEW c \in Byte, NEW t, NEW n, Extends(s, c, t, n),
           NEW b \in Nat, b >= 1, b < Len(s), b + Span(LengthAt(s, b)) <= Len(s) + 1
    PROVE  MessageAt(t, b) = MessageAt(s, b)
  <1> DEFINE len == LengthAt(s, b)
  <1>1. LengthAt(t, b) = len /\ len \in Nat
    BY LengthAppend
  <1>2. CASE len \notin HeadSize..(BufSize - 1)
    BY <1>1, <1>2 DEF MessageAt
  <1>3. CASE len \in HeadSize..(BufSize - 1)
    <2>1. /\ t \in Seq(Byte) /\ Len(t) = n + 1 /\ n \in Nat /\ n = Len(s)
          /\ \A k \in 1..n : t[k] = s[k]
      BY DEF Extends
    <2>2. len >= 1 /\ Span(len) = len
      <3> HIDE DEF len
      <3> QED BY <1>1, <1>3, BufAssumption, SMT DEF HeadSize, Span
    <2>3. b + len <= Len(s) + 1
      BY <2>2
    <2> DEFINE u == SubSeq(s, b, b + len - 1)
               v == SubSeq(t, b, b + len - 1)
    <2> HIDE DEF len
    <2>4. b + len <= Len(t) + 1 /\ \A k \in 1..len : b + k - 1 \in 1..n
      BY <1>1, <2>1, <2>2, <2>3, SMT
    <2>5. u \in Seq(Byte) /\ Len(u) = len /\ \A k \in 1..len : u[k] = s[b + k - 1]
      BY <1>1, <2>2, <2>3, SliceIs
    <2>6. v \in Seq(Byte) /\ Len(v) = len /\ \A k \in 1..len : v[k] = t[b + k - 1]
      BY <1>1, <2>1, <2>2, <2>4, SliceIs
    <2> HIDE DEF u, v
    <2>7. \A k \in 1..Len(u) : u[k] = v[k]
      BY <2>1, <2>4, <2>5, <2>6
    <2>8. u = v
      BY <2>5, <2>6, <2>7, SeqEqual
    <2>9. Whole(t, b) = Whole(s, b)
      BY <1>1, <2>8 DEF Whole, u, v, len
    <2> QED BY <1>1, <2>9 DEF MessageAt, len
  <1> QED BY <1>2, <1>3

\* What is settled is settled for good.
LEMMA TurnAppend ==
    ASSUME NEW s \in Seq(Byte), NEW c \in Byte, NEW t, NEW n, Extends(s, c, t, n),
           NEW p, p.at \in Nat, p.at >= 1, Settled(s, p.at)
    PROVE  Settled(t, p.at) /\ Turn(t, p) = Turn(s, p)
  <1> DEFINE a == p.at
             b == Body(s, a)
             len == LengthAt(s, b)
  <1>1. /\ Heads(s, a) # {} /\ b < Len(s) /\ len # 0
        /\ b + Span(len) <= Len(s) + 1
    BY DEF Settled
  <1>2. b \in Nat /\ b >= a + 2
    BY <1>1, BodyIs
  <1> HIDE DEF a
  <1>3. a \in Nat /\ a >= 1 /\ Settled(s, a)
    BY DEF a
  <1>4. Heads(t, a) # {} /\ Body(t, a) = b
    BY <1>1, <1>3, BodyAppend
  <1> HIDE DEF b
  <1>5. b >= 1
    BY <1>2, <1>3, SMT
  <1>6. LengthAt(t, b) = len /\ len \in Nat
    BY <1>1, <1>2, <1>5, LengthAppend
  <1>7. MessageAt(t, b) = MessageAt(s, b)
    BY <1>1, <1>2, <1>5, MessageAppend
  <1> HIDE DEF len
  <1>8. Len(t) = Len(s) + 1 /\ Len(s) \in Nat
    BY DEF Extends
  <1>9. Span(len) \in Nat
    BY <1>6, SMT DEF Span
  <1>10. b < Len(t) /\ b + Span(len) <= Len(t) + 1
    BY <1>1, <1>2, <1>8, <1>9, SMT
  <1>11. Settled(t, a)
    BY <1>1, <1>4, <1>6, <1>10 DEF Settled
  <1> QED BY <1>3, <1>4, <1>6, <1>7, <1>11 DEF Turn, a, b, len
-----------------------------------------------------------------------------
\* The parse of s has m heads behind it and goes on at a, with ms found.
Stands(s, m, a, ms) ==
    /\ m \in 0..Most(s) /\ a \in Nat /\ a >= 4 * m + 1 /\ a <= Len(s) + 1
    /\ Parse(s)[m] = [at |-> a, found |-> ms]
    /\ \A k \in 0..(m - 1) : /\ Parse(s)[k].at \in Nat /\ Parse(s)[k].at >= 1
                             /\ Settled(s, Parse(s)[k].at)

LEMMA StandsFirst == Stands(<<>>, 0, 1, <<>>)
  <1>1. <<>> \in Seq(Byte) /\ Len(<<>>) = 0
    OBVIOUS
  <1>2. Most(<<>>) = 0
    BY <1>1, SMT DEF Most
  <1>3. 0 \in 0..0 /\ 0..(0 - 1) = {}
    BY SMT
  <1>4. Parse(<<>>)[0] = [at |-> 1, found |-> <<>>]
    BY <1>1, <1>2, <1>3, ParseAt DEF First
  <1> QED BY <1>1, <1>2, <1>3, <1>4, SMT DEF Stands

LEMMA StandsKeep ==
    ASSUME NEW s \in Seq(Byte), NEW c \in Byte, NEW t, NEW n, Extends(s, c, t, n),
           NEW m, NEW a, NEW ms, Stands(s, m, a, ms)
    PROVE  Stands(t, m, a, ms)
  <1>1. Len(t) = Len(s) + 1 /\ Len(s) \in Nat /\ t \in Seq(Byte)
    BY DEF Extends
  <1>2. /\ m \in 0..Most(s) /\ a \in Nat /\ a >= 4 * m + 1 /\ a <= Len(s) + 1
        /\ Parse(s)[m] = [at |-> a, found |-> ms]
        /\ \A k \in 0..(m - 1) : /\ Parse(s)[k].at \in Nat /\ Parse(s)[k].at >= 1
                                 /\ Settled(s, Parse(s)[k].at)
    BY DEF Stands
  <1>3. m \in Nat /\ m \in 0..Most(t) /\ Most(s) \in Nat /\ Most(t) \in Nat
    <2>1. Most(s) \in Nat /\ Most(t) \in Nat
      BY <1>1, StagesExist
    <2> QED BY <1>1, <1>2, <2>1, SMT DEF Most
  <1> DEFINE P == {k \in Nat : k <= m => Parse(t)[k] = Parse(s)[k]}
  <1>4. 0 \in P
    <2>1. 0 \in 0..Most(s) /\ 0 \in 0..Most(t)
      BY <1>2, <1>3, SMT
    <2> QED BY <1>1, <2>1, ParseAt
  <1>5. ASSUME NEW k \in Nat, k \in P PROVE k + 1 \in P
    <2> SUFFICES ASSUME k + 1 <= m PROVE Parse(t)[k + 1] = Parse(s)[k + 1]
      OBVIOUS
    <2>1. /\ k <= m /\ k \in 0..(m - 1) /\ (k + 1) - 1 = k /\ k + 1 # 0
          /\ k + 1 \in 0..Most(s) /\ k + 1 \in 0..Most(t)
      BY <1>2, <1>3, SMT
    <2>2. Parse(t)[k] = Parse(s)[k]
      BY <1>5, <2>1
    <2>3. Parse(t)[k + 1] = Turn(t, Parse(s)[k])
      <3>1. Parse(t)[k + 1] = Turn(t, Parse(t)[(k + 1) - 1])
        BY <1>1, <2>1, ParseAt
      <3> QED BY <2>1, <2>2, <3>1
    <2>4. Parse(s)[k + 1] = Turn(s, Parse(s)[k])
      <3>1. Parse(s)[k + 1] = Turn(s, Parse(s)[(k + 1) - 1])
        BY <2>1, ParseAt
      <3> QED BY <2>1, <3>1
    <2>5. Turn(t, Parse(s)[k]) = Turn(s, Parse(s)[k])
      BY <1>2, <2>1, TurnAppend
    <2> QED BY <2>3, <2>4, <2>5
  <1> HIDE DEF P
  <1>6. \A k \in Nat : k \in P
    BY <1>4, <1>5, Induction
  <1>7. \A k \in 0..m : Parse(t)[k] = Parse(s)[k]
    <2>1. \A k \in 0..m : k \in Nat /\ k <= m
      BY <1>3, SMT
    <2> QED BY <1>6, <2>1 DEF P
  <1>8. m \in 0..m /\ \A k \in 0..(m - 1) : k \in 0..m
    BY <1>3, SMT
  <1>9. \A k \in 0..(m - 1) : /\ Parse(t)[k].at \in Nat /\ Parse(t)[k].at >= 1
                              /\ Settled(t, Parse(t)[k].at)
    <2> SUFFICES ASSUME NEW k \in 0..(m - 1)
                 PROVE  /\ Parse(t)[k].at \in Nat /\ Parse(t)[k].at >= 1
                        /\ Settled(t, Parse(t)[k].at)
      OBVIOUS
    <2> DEFINE p == Parse(s)[k]
    <2>1. Parse(t)[k] = p /\ p.at \in Nat /\ p.at >= 1 /\ Settled(s, p.at)
      BY <1>2, <1>7, <1>8
    <2> HIDE DEF p
    <2>2. Settled(t, p.at)
      BY <2>1, TurnAppend
    <2> QED BY <2>1, <2>2
  <1>10. a <= Len(t) + 1
    BY <1>1, <1>2, SMT
  <1> QED BY <1>2, <1>3, <1>7, <1>8, <1>9, <1>10 DEF Stands

\* A head that has settled is left behind.
LEMMA StandsTurn ==
    ASSUME NEW t \in Seq(Byte), NEW m, NEW a, NEW ms, Stands(t, m, a, ms),
           Settled(t, a), LengthAt(t, Body(t, a)) \in Nat
    PROVE  Stands(t, m + 1, Body(t, a) + Span(LengthAt(t, Body(t, a))),
                  ms \o MessageAt(t, Body(t, a)))
  <1> DEFINE b == Body(t, a)
             len == LengthAt(t, b)
             f == b + Span(len)
             fs == ms \o MessageAt(t, b)
  <1>1. /\ m \in 0..Most(t) /\ a \in Nat /\ a >= 4 * m + 1 /\ a <= Len(t) + 1
        /\ Parse(t)[m] = [at |-> a, found |-> ms]
        /\ \A k \in 0..(m - 1) : /\ Parse(t)[k].at \in Nat /\ Parse(t)[k].at >= 1
                                 /\ Settled(t, Parse(t)[k].at)
    BY DEF Stands
  <1>2. Len(t) \in Nat /\ Most(t) \in Nat
    BY LenProperties, StagesExist
  <1>3. m \in Nat /\ a >= 1
    BY <1>1, <1>2, SMT
  <1>4. Heads(t, a) # {} /\ b < Len(t) /\ len # 0 /\ f <= Len(t) + 1
    BY DEF Settled
  <1>5. b \in Nat /\ b >= a + 2
    BY <1>1, <1>3, <1>4, BodyIs
  <1>6. Span(len) \in Nat /\ Span(len) >= 2
    <2>1. len \in Nat
      OBVIOUS
    <2> HIDE DEF len
    <2> QED BY <2>1, SMT DEF Span, HeadSize
  <1> HIDE DEF b, len
  <1> DEFINE sp == Span(len)
  <1> HIDE DEF sp
  <1>7. f = b + sp /\ sp \in Nat /\ sp >= 2
    BY <1>6 DEF sp
  <1> HIDE DEF f
  <1>8. f \in Nat /\ f >= 4 * (m + 1) + 1 /\ f >= 1
    BY <1>1, <1>3, <1>5, <1>7, SMT
  <1>9. m + 1 \in 0..Most(t)
    <2>1. 4 * (m + 1) <= Len(t)
      BY <1>2, <1>3, <1>4, <1>8, SMT
    <2> QED BY <1>2, <1>3, <2>1, SMT DEF Most
  <1>10. Parse(t)[m + 1] = [at |-> f, found |-> fs]
    <2>1. (m + 1) - 1 = m /\ m + 1 # 0
      BY <1>3, SMT
    <2>2. Parse(t)[m + 1] = Turn(t, Parse(t)[(m + 1) - 1])
      BY <1>9, <2>1, ParseAt
    <2>3. Parse(t)[m + 1] = Turn(t, [at |-> a, found |-> ms])
      BY <1>1, <2>1, <2>2
    <2> QED BY <2>3 DEF Turn, f, b, len
  <1>11. \A k \in 0..((m + 1) - 1) : /\ Parse(t)[k].at \in Nat /\ Parse(t)[k].at >= 1
                                     /\ Settled(t, Parse(t)[k].at)
    <2> SUFFICES ASSUME NEW k \in 0..((m + 1) - 1)
                 PROVE  /\ Parse(t)[k].at \in Nat /\ Parse(t)[k].at >= 1
                        /\ Settled(t, Parse(t)[k].at)
      OBVIOUS
    <2>1. k \in 0..(m - 1) \/ k = m
      BY <1>3, SMT
    <2> QED BY <1>1, <1>3, <2>1
  <1>12. Stands(t, m + 1, f, fs)
    BY <1>4, <1>8, <1>9, <1>10, <1>11 DEF Stands
  <1> QED BY <1>12 DEF f, b, len

\* Where the parse stands still, it has found all messages.
LEMMA StandsEnd ==
    ASSUME NEW s \in Seq(Byte), NEW m, NEW a, NEW ms, Stands(s, m, a, ms), ~Settled(s, a)
    PROVE  Messages(s) = ms
  <1>1. m \in 0..Most(s) /\ Parse(s)[m] = [at |-> a, found |-> ms]
    BY DEF Stands
  <1>2. Most(s) \in Nat
    BY StagesExist
  <1> DEFINE p == [at |-> a, found |-> ms]
             P == {k \in Nat : m + k <= Most(s) => Parse(s)[m + k] = p}
  <1>3. m \in Nat /\ Turn(s, p) = p
    BY <1>1, <1>2, SMT DEF Turn
  <1>4. 0 \in P
    <2>1. m + 0 = m
      BY <1>3, SMT
    <2> QED BY <1>1, <2>1
  <1>5. ASSUME NEW k \in Nat, k \in P PROVE k + 1 \in P
    <2> SUFFICES ASSUME m + (k + 1) <= Most(s) PROVE Parse(s)[m + (k + 1)] = p
      OBVIOUS
    <2> DEFINE h == m + (k + 1)
    <2>1. h - 1 = m + k /\ m + k <= Most(s) /\ h \in 0..Most(s) /\ h # 0
      BY <1>2, <1>3, SMT
    <2>2. Parse(s)[m + k] = p
      BY <1>5, <2>1
    <2> HIDE DEF h, p
    <2>3. Parse(s)[h] = Turn(s, Parse(s)[h - 1])
      BY <2>1, ParseAt
    <2>4. Parse(s)[h] = p
      BY <1>3, <2>1, <2>2, <2>3
    <2> QED BY <2>4 DEF h
  <1> HIDE DEF P
  <1>6. \A k \in Nat : k \in P
    BY <1>4, <1>5, Induction
  <1>7. Most(s) - m \in Nat /\ m + (Most(s) - m) = Most(s) /\ Most(s) <= Most(s)
    BY <1>1, <1>2, <1>3, SMT
  <1>8. Parse(s)[Most(s)] = p
    BY <1>6, <1>7 DEF P
  <1> QED BY <1>8 DEF Messages, Most
-----------------------------------------------------------------------------
(***************************************************************************)
(* Where the parser stands in the bytes it has read.                       *)
(***************************************************************************)
\* What the buffer holds follows the head at b - 2.
Filled(b) == /\ Len(seen) = b - 1 + index_buff
             /\ \A k \in 0..(index_buff - 1) : udp_buff[k] = seen[b + k]

\* No head since a, half of one, one that announces no length, or one whose
\* message is under way.
Seeking(a) == Heads(seen, a) = {} /\ ~(a <= Len(seen) /\ seen[Len(seen)] = HeadByte)
Half(a) == Heads(seen, a) = {} /\ a <= Len(seen) /\ seen[Len(seen)] = HeadByte
Endless(a) == /\ Heads(seen, a) # {} /\ Body(seen, a) < Len(seen)
              /\ LengthAt(seen, Body(seen, a)) = 0
Under(a) == Heads(seen, a) # {} /\ Filled(Body(seen, a))

Where(a) == /\ step = 0 => Seeking(a)
            /\ step = 1 => Half(a)
            /\ step \in {2, 3, 5} => Under(a)
            /\ step = 4 => IF udp_len = 0 THEN Endless(a) ELSE Under(a)

Frames(h) == [k \in 1..Len(h) |-> h[k].frame]

ParseInv == \E m, a : Stands(seen, m, a, Frames(handled)) /\ Where(a)

\* What a turn of the loop does to the bytes read.
LEMMA Reads ==
    ASSUME TypeOK, NextByte
    PROVE  /\ ch \in Byte /\ seen \in Seq(Byte)
           /\ Extends(seen, ch, seen', Len(seen))
  <1>1. ch \in Byte /\ seen \in Seq(Byte) /\ seen' = Append(seen, ch)
    BY ReadByte DEF TypeOK, NextByte, ch
  <1> QED BY <1>1, ExtendsIs

\* The byte stored follows the bytes stored.
LEMMA FilledStore ==
    ASSUME TypeOK, NextByte, NEW a \in Nat, a >= 1, Under(a),
           Store, index_buff' = index_buff + 1
    PROVE  /\ Heads(seen', a) # {} /\ Body(seen', a) = Body(seen, a)
           /\ Filled(Body(seen, a))'
           /\ Body(seen, a) \in Nat /\ Body(seen, a) >= 1
           /\ Under(a)'
  <1> DEFINE b == Body(seen, a)
             n == Len(seen)
             i == index_buff
  <1>1. /\ ch \in Byte /\ seen \in Seq(Byte) /\ Extends(seen, ch, seen', n)
    BY Reads
  <1>2. /\ Len(seen') = n + 1 /\ n \in Nat /\ seen'[n + 1] = ch
        /\ \A k \in 1..n : seen'[k] = seen[k]
    BY <1>1 DEF Extends
  <1>3. Heads(seen, a) # {} /\ n = b - 1 + i /\ \A k \in 0..(i - 1) : udp_buff[k] = seen[b + k]
    BY DEF Under, Filled
  <1>4. b \in Nat /\ b >= a + 2
    BY <1>1, <1>3, BodyIs
  <1>5. Heads(seen', a) # {} /\ Body(seen', a) = b
    BY <1>1, <1>3, BodyAppend
  <1> HIDE DEF b
  <1>6. b >= 1
    BY <1>4, SMT
  <1>7. /\ i \in Nat /\ i < BufSize /\ udp_buff \in [0..(BufSize - 1) -> Byte]
        /\ udp_buff' = [udp_buff EXCEPT ![i] = ch] /\ index_buff' = i + 1
    BY DEF TypeOK, Store
  <1>8. ASSUME NEW k \in 0..i PROVE udp_buff'[k] = seen'[b + k]
    <2>1. CASE k = i
      <3>1. b + k = n + 1 /\ i \in 0..(BufSize - 1)
        BY <1>3, <1>4, <1>7, <2>1, BufAssumption, SMT
      <3> QED BY <1>2, <1>7, <2>1, <3>1
    <2>2. CASE k # i
      <3>1. k \in 0..(i - 1) /\ b + k \in 1..n /\ k \in 0..(BufSize - 1)
        BY <1>2, <1>3, <1>4, <1>6, <1>7, <2>2, BufAssumption, SMT
      <3> QED BY <1>2, <1>3, <1>7, <2>2, <3>1
    <2> QED BY <2>1, <2>2
  <1>9. Len(seen') = b - 1 + (i + 1) /\ (i + 1) - 1 = i
    BY <1>2, <1>3, <1>4, <1>7, SMT
  <1>10. /\ Len(seen') = b - 1 + index_buff'
         /\ \A k \in 0..(index_buff' - 1) : udp_buff'[k] = seen'[b + k]
    BY <1>7, <1>8, <1>9
  <1>11. Filled(Body(seen, a))'
    BY <1>5, <1>10 DEF Filled, b
  <1>12. Under(a)'
    BY <1>5, <1>11 DEF Under, b
  <1> QED BY <1>4, <1>5, <1>6, <1>11, <1>12 DEF b

\* The length in the buffer is the length in the bytes read.
LEMMA LengthFilled ==
    ASSUME TypeOK, NEW a \in Nat, a >= 1, Under(a), index_buff >= 2
    PROVE  /\ LengthAt(seen, Body(seen, a)) = HeadLen(udp_buff)
           /\ Body(seen, a) < Len(seen)
           /\ Body(seen, a) \in Nat /\ Body(seen, a) >= 1
  <1> DEFINE b == Body(seen, a)
             n == Len(seen)
             i == index_buff
  <1>1. seen \in Seq(Byte) /\ n \in Nat /\ i \in Nat
    BY LenProperties DEF TypeOK
  <1>2. Heads(seen, a) # {} /\ n = b - 1 + i /\ \A k \in 0..(i - 1) : udp_buff[k] = seen[b + k]
    BY DEF Under, Filled
  <1>3. b \in Nat /\ b >= a + 2
    BY <1>1, <1>2, BodyIs
  <1> HIDE DEF b
  <1>4. 0 \in 0..(i - 1) /\ 1 \in 0..(i - 1) /\ b + 0 = b /\ b < n /\ b >= 1
    BY <1>1, <1>2, <1>3, SMT
  <1>5. udp_buff[0] = seen[b] /\ udp_buff[1] = seen[b + 1]
    BY <1>2, <1>4
  <1> QED BY <1>3, <1>4, <1>5 DEF LengthAt, HeadLen, b

LEMMA FramesAppend ==
    ASSUME HandledInv, NEW x \in Handovers, NEW h, h = Append(handled, x)
    PROVE  Frames(h) = Frames(handled) \o <<x.frame>>
  <1> DEFINE n == Len(handled)
  <1>1. handled \in Seq(Handovers) /\ n \in Nat
    BY LenProperties DEF HandledInv
  <1>2. h \in Seq(Handovers) /\ Len(h) = n + 1 /\ h[n + 1] = x /\ \A k \in 1..n : h[k] = handled[k]
    BY <1>1, AppendProperties
  <1> HIDE DEF n
  <1> DEFINE f == Frames(handled)
             g == Frames(h)
             e == x.frame
  <1>3. f = [k \in 1..n |-> handled[k].frame] /\ g = [k \in 1..(n + 1) |-> h[k].frame]
    BY <1>2 DEF Frames, n
  <1>4. \A k \in 1..n : handled[k].frame \in Seq(Byte)
    <2>1. \A k \in 1..n : handled[k] \in Handovers
      BY <1>1, ElementOfSeq DEF n
    <2> QED BY <2>1 DEF Handovers
  <1>5. e \in Seq(Byte)
    BY DEF Handovers
  <1> HIDE DEF f, g, e
  <1>6. f \in Seq(Seq(Byte)) /\ Len(f) = n
    BY <1>1, <1>3, <1>4, SMT
  <1>7. \A k \in 1..(n + 1) : g[k] = IF k = n + 1 THEN e ELSE f[k]
    <2> SUFFICES ASSUME NEW k \in 1..(n + 1)
                 PROVE  g[k] = IF k = n + 1 THEN e ELSE f[k]
      OBVIOUS
    <2>1. CASE k = n + 1
      BY <1>2, <1>3, <2>1 DEF e
    <2>2. CASE k # n + 1
      <3>1. k \in 1..n
        BY <1>1, <2>2, SMT
      <3> QED BY <1>2, <1>3, <2>2, <3>1
    <2> QED BY <2>1, <2>2
  <1>8. g = Append(f, e)
    <2> DEFINE w == Append(f, e)
    <2>1. w \in Seq(Seq(Byte)) /\ Len(w) = n + 1 /\ w[n + 1] = e /\ \A k \in 1..n : w[k] = f[k]
      BY <1>5, <1>6, AppendProperties
    <2> HIDE DEF w
    <2>2. \A k \in 1..(n + 1) : w[k] = IF k = n + 1 THEN e ELSE f[k]
      <3>1. \A k \in 1..(n + 1) : k = n + 1 \/ k \in 1..n
        BY <1>1, SMT
      <3>2. n + 1 \notin 1..n
        BY <1>1, SMT
      <3> QED BY <2>1, <3>1, <3>2
    <2>3. w = [k \in 1..(n + 1) |-> w[k]]
      <3>1. w = [k \in 1..Len(w) |-> w[k]]
        BY <2>1, LenProperties
      <3> QED BY <2>1, <3>1
    <2>4. g = [k \in 1..(n + 1) |-> g[k]]
      BY <1>3
    <2>5. g = w
      BY <1>7, <2>2, <2>3, <2>4
    <2> QED BY <2>5 DEF w
  <1>9. f \o <<e>> = Append(f, e)
    BY <1>5, <1>6, SMT
  <1> QED BY <1>8, <1>9 DEF f, g, e

LEMMA FramesTyped == HandledInv => Frames(handled) \in Seq(Seq(Byte))
  <1> SUFFICES ASSUME HandledInv PROVE Frames(handled) \in Seq(Seq(Byte))
    OBVIOUS
  <1>1. handled \in Seq(Handovers) /\ Len(handled) \in Nat
    BY LenProperties DEF HandledInv
  <1>2. \A k \in 1..Len(handled) : handled[k].frame \in Seq(Byte)
    <2>1. \A k \in 1..Len(handled) : handled[k] \in Handovers
      BY <1>1, ElementOfSeq
    <2> QED BY <2>1 DEF Handovers
  <1> QED BY <1>1, <1>2, SMT DEF Frames

\* The byte read settles the head at hand: the parse goes on behind it.
LEMMA Passes ==
    ASSUME NEW m, NEW a, NEW ms, Stands(seen', m, a, ms), seen' \in Seq(Byte),
           Heads(seen', a) # {}, NEW b, b = Body(seen', a), b \in Nat, b < Len(seen'),
           NEW len \in Nat, len = LengthAt(seen', b), len # 0,
           b + Span(len) = Len(seen') + 1, step' = 0,
           Frames(handled') = ms \o MessageAt(seen', b)
    PROVE  ParseInv'
  <1> DEFINE t == seen'
             n == Len(t)
  <1>1. n \in Nat
    BY LenProperties
  <1>2. Settled(t, a)
    <2>1. n + 1 <= n + 1
      BY <1>1, SMT
    <2> QED BY <2>1 DEF Settled
  <1>3. Stands(t, m + 1, n + 1, Frames(handled'))
    <2>1. LengthAt(t, Body(t, a)) \in Nat
      OBVIOUS
    <2>2. Stands(t, m + 1, b + Span(len), ms \o MessageAt(t, b))
      BY <1>2, <2>1, StandsTurn
    <2> QED BY <2>2
  <1>4. Heads(t, n + 1) = {} /\ ~(n + 1 <= n)
    <2>1. (n + 1)..(n - 1) = {} /\ ~(n + 1 <= n)
      BY <1>1, SMT
    <2> QED BY <2>1 DEF Heads
  <1>5. PICK e : e = n + 1
    OBVIOUS
  <1>6. Where(e)'
    BY <1>4, <1>5 DEF Where, Seeking
  <1>7. Stands(seen', m + 1, e, Frames(handled)')
    BY <1>3, <1>5 DEF Frames
  <1> QED BY <1>6, <1>7 DEF ParseInv

\* A head that announces no length keeps the parser for good.
LEMMA EndlessAppend ==
    ASSUME NEW s \in Seq(Byte), NEW c \in Byte, NEW t, NEW n, Extends(s, c, t, n),
           NEW a \in Nat, a >= 1, Heads(s, a) # {}, Body(s, a) < Len(s),
           LengthAt(s, Body(s, a)) = 0
    PROVE  Heads(t, a) # {} /\ Body(t, a) < Len(t) /\ LengthAt(t, Body(t, a)) = 0
  <1>1. Heads(t, a) # {} /\ Body(t, a) = Body(s, a)
    BY BodyAppend
  <1> DEFINE b == Body(s, a)
  <1>2. b \in Nat /\ b >= a + 2
    BY BodyIs
  <1>3. b < Len(s) /\ LengthAt(s, b) = 0
    OBVIOUS
  <1> HIDE DEF b
  <1>4. b >= 1
    BY <1>2, SMT
  <1>5. LengthAt(t, b) = 0
    BY <1>2, <1>3, <1>4, LengthAppend
  <1>6. Len(t) = Len(s) + 1 /\ Len(s) \in Nat
    BY DEF Extends
  <1>7. b < Len(t)
    BY <1>2, <1>3, <1>6, SMT
  <1> QED BY <1>1, <1>5, <1>7 DEF b

\* One byte, in each state of the parser.
LEMMA ParseUnpack ==
    ASSUME TypeOK, BufferInv, HandledInv, ParseInv, Unpack
    PROVE  ParseInv'
  <1>1. PICK m, a : Stands(seen, m, a, Frames(handled)) /\ Where(a)
    BY DEF ParseInv
  <1> DEFINE n == Len(seen)
             t == seen'
             ms == Frames(handled)
  <1>2. NextByte
    BY UnpackReads
  <1>3. ch \in Byte /\ seen \in Seq(Byte) /\ Extends(seen, ch, t, n)
    BY <1>2, Reads
  <1>4. /\ t \in Seq(Byte) /\ Len(t) = n + 1 /\ n \in Nat /\ t[n + 1] = ch
        /\ \A k \in 1..n : t[k] = seen[k]
    BY <1>3 DEF Extends
  <1>5. Stands(t, m, a, ms)
    BY <1>1, <1>3, StandsKeep
  <1>6. a \in Nat /\ a >= 1 /\ a <= n + 1 /\ a <= Len(t)
    <2>1. Most(seen) \in Nat
      BY <1>3, StagesExist
    <2>2. m \in 0..Most(seen) /\ a \in Nat /\ a >= 4 * m + 1 /\ a <= n + 1
      BY <1>1 DEF Stands
    <2> QED BY <1>4, <2>1, <2>2, SMT
  <1>7. ms \in Seq(Seq(Byte)) /\ ms \o <<>> = ms
    <2>1. ms \in Seq(Seq(Byte))
      BY FramesTyped
    <2> HIDE DEF ms
    <2> QED BY <2>1, ConcatEmptySeq
  <1>8. Heads(t, a) = Heads(seen, a) \cup
            (IF a <= n /\ seen[n] = HeadByte /\ ch = HeadByte THEN {n} ELSE {})
    BY <1>3, <1>6, HeadsAppend
  <1>9. udp_len \in Nat /\ index_buff \in Nat /\ index_buff <= BufSize
    BY DEF TypeOK
  \* While no message ends, the parse stands where it stood.
  <1>10. ASSUME handled' = handled, Where(a)' PROVE ParseInv'
    <2>1. Stands(seen', m, a, Frames(handled)')
      BY <1>5, <1>10 DEF Frames
    <2> QED BY <1>10, <2>1 DEF ParseInv
  <1>11. CASE WaitHead1
    <2>1. /\ step = 0 /\ step' = (IF ch = HeadByte THEN 1 ELSE 0) /\ handled' = handled
      BY <1>11 DEF WaitHead1
    <2>2. Heads(t, a) = {}
      BY <1>1, <1>8, <2>1 DEF Where, Seeking
    <2>3. Where(a)'
      BY <1>4, <1>6, <2>1, <2>2 DEF Where, Seeking, Half
    <2> QED BY <1>10, <2>1, <2>3
  <1>12. CASE WaitHead2
    <2>1. /\ step = 1 /\ handled' = handled
          /\ \/ ch = HeadByte /\ step' = 2 /\ index_buff' = 0
             \/ ch # HeadByte /\ step' = 0
      BY <1>12 DEF WaitHead2
    <2>2. Heads(seen, a) = {} /\ a <= n /\ seen[n] = HeadByte
      BY <1>1, <2>1 DEF Where, Half
    <2>3. CASE ch = HeadByte
      <3>1. Heads(t, a) = {n} /\ step' = 2 /\ index_buff' = 0
        BY <1>8, <2>1, <2>2, <2>3
      <3>2. Body(t, a) = n + 2
        <4>1. n \in Heads(t, a) /\ \A j \in Heads(t, a) : n <= j
          BY <1>4, <3>1
        <4> QED BY <1>4, <1>6, <4>1, BodyUnique
      <3>3. Len(t) = (n + 2) - 1 + 0 /\ 0..(0 - 1) = {}
        BY <1>4, SMT
      <3>4. Filled(Body(seen, a))'
        BY <3>1, <3>2, <3>3 DEF Filled
      <3>5. Under(a)'
        BY <3>1, <3>4 DEF Under
      <3>6. Where(a)'
        BY <3>1, <3>5 DEF Where
      <3> QED BY <1>10, <2>1, <3>6
    <2>4. CASE ch # HeadByte
      <3>1. Heads(t, a) = {} /\ step' = 0
        BY <1>8, <2>1, <2>2, <2>4
      <3>2. Where(a)'
        BY <1>4, <2>4, <3>1 DEF Where, Seeking
      <3> QED BY <1>10, <2>1, <3>2
    <2> QED BY <2>3, <2>4
  <1>13. CASE Len1
    <2>1. /\ step = 2 /\ Store /\ index_buff' = index_buff + 1 /\ step' = 3 /\ handled' = handled
      BY <1>13 DEF Len1
    <2>2. Under(a)
      BY <1>1, <2>1 DEF Where
    <2>3. Under(a)'
      BY <1>2, <1>6, <2>1, <2>2, FilledStore
    <2>4. Where(a)'
      BY <2>1, <2>3 DEF Where
    <2> QED BY <1>10, <2>1, <2>4
  <1>14. CASE Len2
    <2>1. /\ step = 3 /\ Store /\ index_buff' = index_buff + 1 /\ handled' = handled
          /\ step' = IF udp_len' < BufSize THEN 4 ELSE 0
      BY <1>14 DEF Len2
    <2>2. Under(a)
      BY <1>1, <2>1 DEF Where
    <2>3. /\ Under(a)' /\ Heads(t, a) # {} /\ Body(t, a) = Body(seen, a)
          /\ Body(seen, a) \in Nat /\ Body(seen, a) >= 1
      BY <1>2, <1>6, <2>1, <2>2, FilledStore
    <2>4. TypeOK' /\ BufferInv'
      BY ParserUnpack
    <2>5. index_buff' = 2
      BY <2>1 DEF BufferInv
    <2>6. /\ LengthAt(t, Body(t, a)) = HeadLen(udp_buff)' /\ Body(t, a) < Len(t)
      <3>1. /\ Len(t) = Body(t, a) - 1 + 2
            /\ \A k \in 0..(2 - 1) : udp_buff'[k] = t[Body(t, a) + k]
        BY <2>3, <2>5 DEF Under, Filled
      <3> DEFINE b == Body(t, a)
      <3>2. b \in Nat
        BY <2>3
      <3> HIDE DEF b
      <3>3. 0 \in 0..(2 - 1) /\ 1 \in 0..(2 - 1) /\ b + 0 = b /\ b < b - 1 + 2
        BY <3>2, SMT
      <3>4. udp_buff'[0] = t[b] /\ udp_buff'[1] = t[b + 1]
        BY <3>1, <3>3 DEF b
      <3> QED BY <3>1, <3>3, <3>4 DEF LengthAt, HeadLen, b
    <2>7. HeadLen(udp_buff)' = udp_len' /\ udp_len' \in Nat
      <3>1. /\ ch \in Nat /\ ch < 256 /\ udp_len < 256 /\ udp_buff[0] = udp_len /\ index_buff = 1
            /\ udp_buff \in [0..(BufSize - 1) -> Byte]
            /\ udp_buff' = [udp_buff EXCEPT ![index_buff] = ch]
            /\ udp_len' = (udp_len + 256 * ch) % 65536
        BY <1>3, <1>14, <2>1, ByteRange DEF BufferInv, TypeOK, Len2, Store
      <3>2. 0 \in 0..(BufSize - 1) /\ 1 \in 0..(BufSize - 1)
        BY BufAssumption, SMT
      <3>3. udp_buff'[0] = udp_len /\ udp_buff'[1] = ch
        BY <3>1, <3>2
      <3>4. udp_len' = udp_len + 256 * ch /\ udp_len' \in Nat
        <4>1. udp_len + 256 * ch \in Nat /\ udp_len + 256 * ch < 65536
          BY <1>9, <3>1, SMT
        <4> QED BY <3>1, <4>1, FitsU16
      <3> QED BY <3>3, <3>4 DEF HeadLen
    <2>8. CASE udp_len' < BufSize
      <3>1. udp_len' = 0 => Endless(a)'
        BY <2>3, <2>6, <2>7 DEF Endless
      <3>2. Where(a)'
        BY <2>1, <2>3, <2>8, <3>1 DEF Where
      <3> QED BY <1>10, <2>1, <3>2
    <2>9. CASE ~(udp_len' < BufSize)
      <3> DEFINE b == Body(t, a)
                 len == udp_len'
      <3>1. step' = 0 /\ len \in Nat /\ len = LengthAt(t, b) /\ len >= BufSize
        BY <2>1, <2>6, <2>7, <2>9, BufAssumption
      <3>2. b \in Nat /\ b < Len(t) /\ Len(t) = b - 1 + 2
        BY <2>3, <2>5, <2>6 DEF Under, Filled
      <3> HIDE DEF b, len
      <3>3. len # 0 /\ Span(len) = 2 /\ b + Span(len) = Len(t) + 1 /\ len \notin HeadSize..(BufSize - 1)
        BY <1>4, <3>1, <3>2, BufAssumption, SMT DEF Span
      <3>4. MessageAt(t, b) = <<>>
        BY <3>1, <3>3 DEF MessageAt
      <3>5. Frames(handled') = ms \o MessageAt(t, b)
        BY <1>7, <2>1, <3>4
      <3>6. b = Body(t, a)
        BY DEF b
      <3> HIDE DEF ms, t
      <3> QED BY <1>4, <1>5, <2>3, <3>1, <3>2, <3>3, <3>5, <3>6, Passes DEF t
    <2> QED BY <2>8, <2>9
  <1>15. CASE Content
    <2>1. /\ step = 4 /\ index_buff < LastIndex /\ Store /\ index_buff' = index_buff + 1
          /\ step' = (IF index_buff' = LastIndex THEN 5 ELSE 4) /\ udp_len' = udp_len
          /\ handled' = handled
      BY <1>15 DEF Content
    <2>2. CASE udp_len = 0
      <3>1. Endless(a)
        BY <1>1, <2>1, <2>2 DEF Where
      <3>2. step' = 4
        <4>1. index_buff < BufSize /\ LastIndex = U32 - 1
          BY <2>1, <2>2 DEF Store, LastIndex
        <4>2. index_buff + 1 # U32 - 1
          BY <1>9, <4>1, BufAssumption, WidthAssumption, SMT
        <4> QED BY <2>1, <4>1, <4>2
      <3>3. Endless(a)'
        BY <1>3, <1>4, <1>6, <3>1, EndlessAppend DEF Endless
      <3>4. Where(a)'
        BY <2>1, <2>2, <3>2, <3>3 DEF Where
      <3> QED BY <1>10, <2>1, <3>4
    <2>3. CASE udp_len # 0
      <3>1. Under(a)
        BY <1>1, <2>1, <2>3 DEF Where
      <3>2. Under(a)'
        BY <1>2, <1>6, <2>1, <3>1, FilledStore
      <3>3. Where(a)'
        BY <2>1, <2>3, <3>2 DEF Where
      <3> QED BY <1>10, <2>1, <3>3
    <2> QED BY <2>2, <2>3
  <1>16. CASE Short
    <2>1. /\ step = 4 /\ ~(index_buff < LastIndex) /\ step' = 0 /\ handled' = handled
      BY <1>16 DEF Short
    <2>2. udp_len # 0 /\ udp_len < HeadSize /\ index_buff = 2 /\ HeadLen(udp_buff) = udp_len
      <3>1. /\ HeadLen(udp_buff) = udp_len /\ index_buff = 2
        BY <2>1 DEF BufferInv
      <3>2. LastIndex \in Int
        BY <1>9, WidthAssumption DEF LastIndex
      <3>3. udp_len # 0
        BY <2>1, <3>1, WidthAssumption, SMT DEF LastIndex
      <3>4. LastIndex = udp_len - 1
        BY <3>3 DEF LastIndex
      <3> QED BY <1>9, <2>1, <3>1, <3>3, <3>4, SMT DEF HeadSize
    <2>3. Under(a)
      BY <1>1, <2>1, <2>2 DEF Where
    <2> DEFINE b == Body(seen, a)
               len == udp_len
    <2>4. LengthAt(seen, b) = len /\ b < Len(seen) /\ b \in Nat /\ b >= 1
      BY <1>6, <2>2, <2>3, LengthFilled
    <2>5. Heads(t, a) # {} /\ Body(t, a) = b
      BY <1>3, <1>6, <2>3, BodyAppend DEF Under
    <2>6. Len(seen) = b - 1 + 2
      BY <2>2, <2>3 DEF Under, Filled
    <2> HIDE DEF b
    <2>7. LengthAt(t, b) = len
      BY <1>3, <2>4, LengthAppend
    <2>8. len \in Nat /\ len # 0 /\ len < HeadSize
      BY <1>9, <2>2
    <2> HIDE DEF len
    <2>9. Span(len) = 3 /\ b + Span(len) = Len(t) + 1 /\ len \notin HeadSize..(BufSize - 1)
          /\ b < Len(t)
      BY <1>4, <2>4, <2>6, <2>8, BufAssumption, SMT DEF Span, HeadSize
    <2>10. MessageAt(t, b) = <<>>
      BY <2>7, <2>9 DEF MessageAt
    <2>11. Frames(handled') = ms \o MessageAt(t, b)
      BY <1>7, <2>1, <2>10
    <2>12. /\ len = LengthAt(t, b) /\ b + Span(len) = Len(t) + 1 /\ b = Body(t, a)
           /\ b < Len(t) /\ b \in Nat /\ step' = 0 /\ t \in Seq(Byte)
      BY <1>4, <2>1, <2>4, <2>5, <2>7, <2>9
    <2> HIDE DEF ms, t
    <2> QED BY <1>5, <2>5, <2>8, <2>11, <2>12, Passes DEF t
  <1>17. CASE Overrun
    <2>1. /\ step = 4 /\ index_buff < LastIndex /\ index_buff >= BufSize
          /\ UNCHANGED <<step, udp_len, handled>>
      BY <1>17 DEF Overrun, parser
    <2>2. udp_len = 0
      BY <1>9, <2>1, BufAssumption, SMT DEF BufferInv, LastIndex
    <2>3. Endless(a)
      BY <1>1, <2>1, <2>2 DEF Where
    <2>4. Endless(a)'
      BY <1>3, <1>4, <1>6, <2>3, EndlessAppend DEF Endless
    <2>5. Where(a)'
      BY <2>1, <2>2, <2>4 DEF Where
    <2> QED BY <1>10, <2>1, <2>5
  <1>18. CASE CheckSum
    <2> DEFINE b == Body(seen, a)
               len == udp_len
               u == udp_buff'
               f == Frame(u, len)
               x == [frame |-> f, calls |-> Command(u)]
    <2>1. /\ step = 5 /\ Store /\ step' = 0
          /\ \/ Sums(f) = 0 /\ handled' = Append(handled, x)
             \/ Sums(f) # 0 /\ handled' = handled
      BY <1>18 DEF CheckSum
    <2>2. /\ len > 3 /\ len < BufSize /\ index_buff = len - 1 /\ HeadLen(udp_buff) = len
      BY <2>1 DEF BufferInv
    <2>3. Under(a) /\ index_buff >= 2
      BY <1>1, <1>9, <2>1, <2>2, SMT DEF Where
    <2>4. LengthAt(seen, b) = len /\ b < Len(seen) /\ b \in Nat /\ b >= 1
      BY <1>6, <2>2, <2>3, LengthFilled
    <2>5. Heads(t, a) # {} /\ Body(t, a) = b
      BY <1>3, <1>6, <2>3, BodyAppend DEF Under
    <2>6. Len(seen) = b - 1 + index_buff /\ \A k \in 0..(index_buff - 1) : udp_buff[k] = seen[b + k]
      BY <2>3 DEF Under, Filled
    <2>7. /\ u = [udp_buff EXCEPT ![index_buff] = ch] /\ udp_buff \in [0..(BufSize - 1) -> Byte]
          /\ u \in [0..(BufSize - 1) -> Byte]
      <3>1. u = [udp_buff EXCEPT ![index_buff] = ch]
        BY <2>1 DEF Store
      <3>2. udp_buff \in [0..(BufSize - 1) -> Byte]
        BY DEF TypeOK
      <3> HIDE DEF u
      <3> QED BY <1>3, <3>1, <3>2
    <2> HIDE DEF b
    <2>8. LengthAt(t, b) = len
      BY <1>3, <2>4, LengthAppend
    <2>9. /\ len \in Nat /\ len # 0 /\ len \in HeadSize..(BufSize - 1) /\ len >= 1
      BY <1>9, <2>2, BufAssumption, SMT DEF HeadSize
    <2>10. f \in Seq(Byte) /\ Len(f) = len /\ \A k \in 1..len : f[k] = u[k - 1]
      BY <2>2, <2>7, <2>9, FrameIs
    <2> HIDE DEF f, len
    <2>11. Span(len) = len /\ b + len = Len(t) + 1 /\ b < Len(t)
      BY <1>4, <2>2, <2>4, <2>6, <2>9, BufAssumption, SMT DEF Span, HeadSize
    <2>12. Whole(t, b) = f
      <3> DEFINE v == SubSeq(t, b, b + len - 1)
      <3>1. v \in Seq(Byte) /\ Len(v) = len /\ \A k \in 1..len : v[k] = t[b + k - 1]
        <4>1. b + len <= Len(t) + 1
          BY <1>4, <2>11, SMT
        <4>2. t \in Seq(Byte) /\ b \in Nat /\ b >= 1 /\ len \in Nat /\ len >= 1
          BY <1>4, <2>4, <2>9
        <4> HIDE DEF t
        <4> QED BY ONLY <4>1, <4>2, SliceIs
      <3> DEFINE i == index_buff
      <3>0. /\ len \in Nat /\ len >= 1 /\ len < BufSize /\ i = len - 1 /\ b \in Nat /\ b >= 1
            /\ n \in Nat /\ b + len = (n + 1) + 1 /\ BufSize \in Nat
        BY <1>4, <2>2, <2>4, <2>9, <2>11, BufAssumption DEF len
      <3>2. ASSUME NEW k \in 1..len PROVE v[k] = f[k]
        <4>1. CASE k = len
          <5>1. b + k - 1 = n + 1 /\ k - 1 = index_buff /\ index_buff \in 0..(BufSize - 1)
            <6> HIDE DEF n, b, i
            <6>1. b + k - 1 = n + 1 /\ k - 1 = i /\ i \in 0..(BufSize - 1)
              BY ONLY <3>0, <4>1, SMT
            <6> QED BY <6>1 DEF i
          <5>2. t[b + k - 1] = ch /\ u[k - 1] = ch
            BY <1>4, <2>7, <5>1
          <5> QED BY <2>10, <3>1, <5>2
        <4>2. CASE k # len
          <5>1. /\ k - 1 \in 0..(index_buff - 1) /\ k - 1 # index_buff /\ k - 1 \in 0..(BufSize - 1)
                /\ b + (k - 1) = b + k - 1 /\ b + k - 1 \in 1..n
            <6> HIDE DEF n, b, i
            <6>1. /\ k - 1 \in 0..(i - 1) /\ k - 1 # i /\ k - 1 \in 0..(BufSize - 1)
                  /\ b + (k - 1) = b + k - 1 /\ b + k - 1 \in 1..n
              BY ONLY <3>0, <4>2, k \in 1..len, SMT
            <6> QED BY <6>1 DEF i
          <5>2. t[b + k - 1] = seen[b + k - 1] /\ u[k - 1] = udp_buff[k - 1]
            BY <1>4, <2>7, <5>1
          <5>3. udp_buff[k - 1] = seen[b + (k - 1)]
            BY <2>6, <5>1
          <5> QED BY <2>10, <3>1, <5>1, <5>2, <5>3
        <4> QED BY <4>1, <4>2
      <3> HIDE DEF v
      <3>3. v = f
        BY <2>10, <3>1, <3>2, SeqEqual
      <3> QED BY <2>8, <3>3 DEF Whole, v
    <2>13. MessageAt(t, b) = IF Sums(f) = 0 THEN <<f>> ELSE <<>>
      BY <2>8, <2>9, <2>12 DEF MessageAt
    <2>14. Frames(handled') = ms \o MessageAt(t, b)
      <3>1. CASE Sums(f) = 0
        <4>1. u[0] = udp_buff[0] /\ u[1] = udp_buff[1]
          <5>1. index_buff # 0 /\ index_buff # 1 /\ 0 \in 0..(BufSize - 1) /\ 1 \in 0..(BufSize - 1)
            BY <2>2, <2>3, <1>9, BufAssumption, SMT
          <5> QED BY <2>7, <5>1
        <4>2. HeadLen(u) = udp_len
          BY <2>2, <4>1 DEF HeadLen, len
        <4>3. x \in Handovers
          BY <2>2, <2>7, <2>9, <3>1, <4>2, MessageJustified DEF f, len
        <4>4. handled' = Append(handled, x) /\ x.frame = f
          BY <2>1, <3>1
        <4> HIDE DEF x
        <4>5. Frames(handled') = Frames(handled) \o <<x.frame>>
          BY <4>3, <4>4, FramesAppend
        <4> QED BY <2>13, <3>1, <4>4, <4>5
      <3>2. CASE Sums(f) # 0
        BY <1>7, <2>1, <2>13, <3>2
      <3> QED BY <3>1, <3>2
    <2>15. len = LengthAt(t, b) /\ b + Span(len) = Len(t) + 1 /\ b = Body(t, a)
      BY <2>5, <2>8, <2>11
    <2> HIDE DEF ms, t
    <2> QED BY <1>4, <1>5, <2>1, <2>4, <2>5, <2>9, <2>11, <2>14, <2>15, Passes DEF t
  <1> QED BY <1>11, <1>12, <1>13, <1>14, <1>15, <1>16, <1>17, <1>18 DEF Unpack

\* A parser that only reads on: nothing of ParseInv changes.
LEMMA ParseStays ==
    ASSUME ParseInv, UNCHANGED <<parser, handled, seen>>
    PROVE  ParseInv'
  <1>1. PICK m, a : Stands(seen, m, a, Frames(handled)) /\ Where(a)
    BY DEF ParseInv
  <1>2. Where(a)'
    BY <1>1 DEF Where, Seeking, Half, Endless, Under, Filled, parser
  <1>3. Stands(seen', m, a, Frames(handled)')
    BY <1>1 DEF Frames
  <1> QED BY <1>2, <1>3 DEF ParseInv

\* Where the parser stands, no head has settled: all messages are found.
LEMMA ParseGives ==
    ASSUME TypeOK, BufferInv, ParseInv
    PROVE  ParsedAsWhole
  <1>1. PICK m, a : Stands(seen, m, a, Frames(handled)) /\ Where(a)
    BY DEF ParseInv
  <1>2. seen \in Seq(Byte) /\ Len(seen) \in Nat /\ index_buff \in Nat /\ udp_len \in Nat
        /\ step \in 0..5
    BY LenProperties DEF TypeOK
  <1>3. a \in Nat /\ a >= 1
    <2>1. Most(seen) \in Nat
      BY <1>2, StagesExist
    <2>2. m \in 0..Most(seen) /\ a \in Nat /\ a >= 4 * m + 1
      BY <1>1 DEF Stands
    <2> QED BY <2>1, <2>2, SMT
  <1>4. ~Settled(seen, a)
    <2> SUFFICES ASSUME Settled(seen, a) PROVE FALSE
      OBVIOUS
    <2> DEFINE b == Body(seen, a)
               len == LengthAt(seen, b)
    <2>1. Heads(seen, a) # {} /\ b < Len(seen) /\ len # 0 /\ b + Span(len) <= Len(seen) + 1
      BY DEF Settled
    <2>2. b \in Nat
      BY <1>2, <1>3, <2>1, BodyIs
    <2>3. step \in {2, 3, 4, 5} /\ Under(a) /\ ~(step = 4 /\ udp_len = 0)
      BY <1>1, <1>2, <2>1 DEF Where, Seeking, Half, Endless
    <2>4. Len(seen) = b - 1 + index_buff
      BY <2>3 DEF Under, Filled
    <2> HIDE DEF b
    <2>5. index_buff >= 2
      BY <1>2, <2>1, <2>2, <2>4, SMT
    <2>6. step \in {4, 5}
      BY <2>3, <2>5, SMT DEF BufferInv
    <2>7. len = udp_len
      BY <1>3, <2>3, <2>5, <2>6, LengthFilled DEF BufferInv, b
    <2>8. /\ udp_len < BufSize /\ udp_len # 0
          /\ index_buff = 2 \/ index_buff < udp_len
      BY <1>2, <2>1, <2>6, <2>7, SMT DEF BufferInv, LastIndex
    <2> DEFINE sp == Span(udp_len)
    <2>9. sp \in Nat /\ index_buff < sp
      BY <1>2, <2>8, BufAssumption, SMT DEF Span, HeadSize
    <2> HIDE DEF sp
    <2>10. b + sp <= Len(seen) + 1
      BY <2>1, <2>7 DEF sp
    <2> QED BY <1>2, <2>2, <2>4, <2>9, <2>10, SMT
  <1>5. Messages(seen) = Frames(handled)
    BY <1>1, <1>2, <1>4, StandsEnd
  <1> QED BY <1>5 DEF ParsedAsWhole, Frames

LEMMA ParseInit == Init => HandledInv /\ ParseInv
  <1> SUFFICES ASSUME Init PROVE HandledInv /\ ParseInv
    OBVIOUS
  <1>1. HandledInv
    BY EmptySeq DEF Init, HandledInv
  <1>2. Len(<<>>) = 0
    BY EmptySeq
  <1>3. Frames(handled) = <<>>
    <2>1. handled = <<>> /\ 1..0 = {}
      BY SMT DEF Init
    <2>2. Frames(handled) = [k \in 1..0 |-> handled[k].frame]
      BY <1>2, <2>1 DEF Frames
    <2>3. \A k \in 1..0 : handled[k].frame \in Byte
      BY <2>1
    <2> DEFINE f == Frames(handled)
    <2>4. f \in [1..0 -> Byte]
      BY <2>2, <2>3
    <2> HIDE DEF f
    <2>5. f \in Seq(Byte) /\ Len(f) = 0
      BY <2>4, SMT
    <2> QED BY <2>5, EmptySeq DEF f
  <1>4. Stands(seen, 0, 1, Frames(handled))
    BY <1>3, StandsFirst DEF Init
  <1>5. Where(1)
    <2>1. seen = <<>> /\ step = 0 /\ 1..(0 - 1) = {} /\ ~(1 <= 0)
      BY SMT DEF Init
    <2>2. Seeking(1)
      BY <1>2, <2>1 DEF Seeking, Heads
    <2> QED BY <2>1, <2>2, SMT DEF Where
  <1> QED BY <1>1, <1>4, <1>5 DEF ParseInv

\* For every size of the buffer and every stream of bytes, however it is cut
\* into calls of onRecvData, handleProtocol is given exactly the messages of
\* the whole stream, in order and each once (protocol_layer.c:82 to :186).
THEOREM MessagesAreWhole == Spec => []ParsedAsWhole
  <1> DEFINE Inv == HandledInv /\ ParseInv
  <1>1. Init => Inv
    BY ParseInit
  <1>2. TypeOK /\ BufferInv /\ Inv /\ [Next]_vars => Inv'
    <2> SUFFICES ASSUME TypeOK, BufferInv, Inv, [Next]_vars PROVE Inv'
      OBVIOUS
    <2>1. CASE Unpack
      BY <2>1, HandledUnpack, ParseUnpack
    <2>2. CASE ~Unpack
      <3>1. UNCHANGED <<parser, handled, seen>>
        BY <2>2 DEF Next, OnRecvData, vars, parser
      <3> QED BY <3>1, ParseStays DEF HandledInv
    <2> QED BY <2>1, <2>2
  <1>3. TypeOK /\ BufferInv /\ Inv => ParsedAsWhole
    BY ParseGives
  <1> QED BY <1>1, <1>2, <1>3, ParserInvariant, PTL DEF Spec

\* Behind the receive callback, too: whatever the chains of pbufs, the
\* messages acted upon are those of the bytes the callback has shown
\* (udp_interface.c:25).
THEOREM MessagesBehindCallback == UdpSpec => []ParsedAsWhole
  <1> DEFINE Behind == TypeOK /\ BufferInv /\ HandledInv
  <1>1. UdpInit => ParseInv
    BY ParseInit DEF UdpInit
  <1>2. Behind /\ ParseInv /\ [UdpNext]_allVars => ParseInv'
    <2> SUFFICES ASSUME Behind, ParseInv, [UdpNext]_allVars PROVE ParseInv'
      OBVIOUS
    <2>1. CASE Unpack
      BY <2>1, ParseUnpack
    <2>2. CASE ~Unpack
      <3>1. UNCHANGED <<parser, handled, seen>>
        BY <2>2 DEF UdpNext, Arrive, Visit, BufferFull, OnRecvData, allVars, vars, parser
      <3> QED BY <3>1, ParseStays
    <2> QED BY <2>1, <2>2
  <1>3. Behind /\ ParseInv => ParsedAsWhole
    BY ParseGives
  <1> QED BY <1>1, <1>2, <1>3, CallbackInvariant, PTL DEF UdpSpec
=============================================================================
