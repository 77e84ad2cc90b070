--------------------------- MODULE Config_proofs ---------------------------
(***************************************************************************)
(* The configuration in flash for every size, every configuration and      *)
(* every combination of faults; and the page that changes it, for every    *)
(* packed structure, every form and whatever lies on the stack.            *)
(***************************************************************************)
EXTENDS ConfigForm, SequenceTheorems, WellFoundedInduction, TLAPS

LEMMA Images == /\ Blank \in Image /\ Default \in Image
                /\ \A body \in Bodies : WithHeader(body) \in Image
BY SizeAssumption, CellAssumption, BodyAssumption
   DEF Blank, Default, WithHeader, Image, Addr, BodyAddr

LEMMA Headers == /\ Default[0] = HeadByte /\ Default[1] = HeadByte
                 /\ \A body \in Bodies : /\ WithHeader(body)[0] = HeadByte
                                         /\ WithHeader(body)[1] = HeadByte
<1>1. 0 \in Addr /\ 1 \in Addr
  BY SizeAssumption DEF Addr
<1>2. ASSUME NEW body
      PROVE  WithHeader(body)[0] = HeadByte /\ WithHeader(body)[1] = HeadByte
  BY <1>1 DEF WithHeader
<1> QED
  BY <1>2 DEF Default

LEMMA FlashInit == Init => TypeOK /\ FlashInv
<1> SUFFICES ASSUME Init PROVE TypeOK /\ FlashInv
  OBVIOUS
<1>1. 0 \in Addr
  BY SizeAssumption DEF Addr
<1>2. complete \in BOOLEAN /\ ~complete
  BY Zenon DEF Init
<1>3. NoMixture
  BY DEF Init, NoMixture, Blank
<1> QED
  BY Images, <1>1, <1>2, <1>3 DEF Init, TypeOK, FlashInv

\* The three ways into writeFlash leave the sector alone.
LEMMA FlashWrite ==
    ASSUME TypeOK, FlashInv, NEW cfg \in Image,
           cfg[0] = HeadByte, cfg[1] = HeadByte,
           Write(cfg), complete' = FALSE, UNCHANGED <<flash, written>>
    PROVE  TypeOK' /\ FlashInv'
<1>1. 0 \in Addr
  BY SizeAssumption DEF Addr
<1>2. complete' \in BOOLEAN /\ ~complete'
  BY Zenon
<1>3. NoMixture'
  BY DEF FlashInv, NoMixture
<1> QED
  BY <1>1, <1>2, <1>3 DEF Write, TypeOK, FlashInv

LEMMA FlashBoot ==
    ASSUME TypeOK, FlashInv, Boot
    PROVE  TypeOK' /\ FlashInv'
<1>1. CASE Load
  BY <1>1 DEF Load, HeaderValid, TypeOK, FlashInv, NoMixture
<1>2. CASE FirstBoot
  BY <1>2, Images, Headers, FlashWrite DEF FirstBoot
<1> QED
  BY <1>1, <1>2 DEF Boot

LEMMA FlashProgram ==
    ASSUME TypeOK, FlashInv, ProgramByte
    PROVE  TypeOK' /\ FlashInv'
<1> USE SizeAssumption DEF TypeOK, FlashInv
<1>1. /\ pc = "program" /\ written = s_cfg /\ written' = s_cfg
      /\ s_cfg' = s_cfg /\ faddr \in Addr
      /\ \A i \in Addr : flash[i] = IF i < faddr THEN s_cfg[i] ELSE Erased
  BY DEF ProgramByte
<1>2. Programmed = s_cfg[faddr]
  BY <1>1 DEF Programmed, Addr
<1>3. flash' = [flash EXCEPT ![faddr] = s_cfg[faddr]]
  BY <1>2 DEF ProgramByte
<1>4. /\ flash' \in Image
      /\ \A i \in Addr : flash'[i] = IF i < faddr + 1 THEN s_cfg[i] ELSE Erased
  BY <1>1, <1>3 DEF Image, Addr
<1>5. NoMixture'
  BY <1>1, <1>4 DEF NoMixture
<1>6. CASE LastByte
  <2>1. \A i \in Addr : flash'[i] = s_cfg[i]
    BY <1>4, <1>6 DEF LastByte, Addr
  <2>2. flash' = s_cfg
    BY <1>4, <2>1 DEF Image
  <2> QED
    BY <1>1, <1>4, <1>5, <1>6, <2>2 DEF ProgramByte, Addr
<1>7. CASE ~LastByte
  BY <1>1, <1>4, <1>5, <1>7 DEF ProgramByte, LastByte, Addr
<1> QED
  BY <1>6, <1>7

LEMMA PartlyErasedFits ==
    ASSUME TypeOK, NoMixture, NEW bytes \in SUBSET Addr
    PROVE  /\ PartlyErased(bytes) \in Image
           /\ \A i \in Addr : PartlyErased(bytes)[i] \in {Erased, written[i]}
BY CellAssumption DEF PartlyErased, TypeOK, NoMixture, Image

LEMMA FlashWriting ==
    ASSUME TypeOK, FlashInv, WriteFlash
    PROVE  TypeOK' /\ FlashInv'
<1>1. CASE ScanBlank
  <2>1. \A i \in Addr : flash[i] = Erased
    BY <1>1 DEF ScanBlank, Blank
  <2>2. NoMixture'
    BY <1>1, <2>1 DEF ScanBlank, NoMixture
  <2>3. ~complete /\ faddr = 0
    BY <1>1 DEF ScanBlank, FlashInv
  <2> QED
    BY <1>1, <2>1, <2>2, <2>3 DEF ScanBlank, TypeOK, FlashInv, Addr
<1>2. CASE ScanDirty
  BY <1>2 DEF ScanDirty, TypeOK, FlashInv, NoMixture
<1>3. CASE EraseDone
  BY <1>3, Images DEF EraseDone, TypeOK, FlashInv, NoMixture, Blank
<1>4. CASE ProgramByte
  BY <1>4, FlashProgram
<1>5. CASE ProgramFails
  BY <1>5 DEF ProgramFails, TypeOK, FlashInv, NoMixture
<1>6. CASE \E bytes \in SUBSET Addr : EraseFails(bytes)
  BY <1>6, PartlyErasedFits DEF EraseFails, TypeOK, FlashInv, NoMixture
<1> QED
  BY <1>1, <1>2, <1>3, <1>4, <1>5, <1>6 DEF WriteFlash

\* Losing power, in the middle of an erase too.
LEMMA FlashPower ==
    ASSUME TypeOK, FlashInv,
           Reboot \/ Crash \/ \E bytes \in SUBSET Addr : CrashErasing(bytes)
    PROVE  TypeOK' /\ FlashInv'
<1> USE SizeAssumption, Images DEF PowerOff, TypeOK, FlashInv, NoMixture
<1>1. CASE Reboot
  BY <1>1 DEF Reboot, Addr
<1>2. CASE Crash
  BY <1>2 DEF Crash, Addr
<1>3. CASE \E bytes \in SUBSET Addr : CrashErasing(bytes)
  <2>1. PICK bytes \in SUBSET Addr : CrashErasing(bytes)
    BY <1>3
  <2>2. ~complete
    BY <2>1 DEF CrashErasing
  <2> QED
    BY <2>1, <2>2, PartlyErasedFits DEF CrashErasing, Addr
<1> QED
  BY <1>1, <1>2, <1>3

\* The strengthened invariant of the sector, under every fault.
THEOREM FlashInvariant == Spec => [](TypeOK /\ FlashInv)
<1>1. TypeOK /\ FlashInv /\ [Next]_vars => TypeOK' /\ FlashInv'
  <2> SUFFICES ASSUME TypeOK, FlashInv, [Next]_vars
               PROVE  TypeOK' /\ FlashInv'
    OBVIOUS
  <2>1. CASE Boot
    BY <2>1, FlashBoot
  <2>2. CASE WriteFlash
    BY <2>2, FlashWriting
  <2>3. CASE ResetButton
    BY <2>3, Images, Headers, FlashWrite DEF ResetButton
  <2>4. CASE \E body \in Bodies : SetConfig(body)
    BY <2>4, Images, Headers, FlashWrite DEF SetConfig
  <2>5. CASE Reboot \/ Crash \/ \E bytes \in SUBSET Addr : CrashErasing(bytes)
    BY <2>5, FlashPower
  <2>6. CASE UNCHANGED vars
    BY <2>6 DEF vars, TypeOK, FlashInv, NoMixture
  <2> QED
    BY <2>1, <2>2, <2>3, <2>4, <2>5, <2>6 DEF Next
<1> QED
  BY FlashInit, <1>1, PTL DEF Spec

\* However writes are cut short, the sector never mixes two configurations.
THEOREM NeverMixes == Spec => []NoMixture
<1>1. FlashInv => NoMixture
  BY DEF FlashInv
<1> QED
  BY FlashInvariant, <1>1, PTL

\* A configuration written to its last byte is the one later boots find.
THEOREM WritesAreDurable == Spec => []Durable
<1>1. FlashInv => Durable
  BY DEF FlashInv, Durable
<1> QED
  BY FlashInvariant, <1>1, PTL

\* The configuration in use always carries the header.
THEOREM AlwaysHeaded == Spec => []HeaderInUse
<1>1. FlashInv => HeaderInUse
  BY DEF FlashInv, HeaderInUse
<1> QED
  BY FlashInvariant, <1>1, PTL
-----------------------------------------------------------------------------
(***************************************************************************)
(* The form: where its parameters lie.                                     *)
(***************************************************************************)
\* Induction over the numbers, for a property given as the set of them that have it.
LEMMA Induction ==
    ASSUME NEW P, 0 \in P, \A n \in Nat : n \in P => n + 1 \in P
    PROVE  \A n \in Nat : n \in P
  <1> DEFINE R == OpToRel(<, Nat)
             T == Nat \ P
  <1>1. IsWellFoundedOn(R, Nat)
    BY NatLessThanWellFounded
  <1>2. \A n \in Nat \ {0} : n - 1 \in Nat /\ (n - 1) + 1 = n /\ <<n - 1, n>> \in R
    BY SMT DEF OpToRel
  <1> HIDE DEF R
  <1>3. SUFFICES ASSUME T # {} PROVE FALSE
    OBVIOUS
  <1>4. T \subseteq Nat
    OBVIOUS
  <1>5. PICK x \in T : \A y \in T : ~(<<y, x>> \in R)
    <2> HIDE DEF T
    <2> QED BY <1>1, <1>3, <1>4, WFMin
  <1>6. x \in Nat \ {0}
    BY <1>5
  <1>7. x - 1 \in P
    BY <1>2, <1>5, <1>6
  <1>8. x \in P
    BY <1>2, <1>6, <1>7
  <1> QED BY <1>5, <1>8

LEMMA ParamTyped ==
    ASSUME NEW k \in DOMAIN Params
    PROVE  /\ Len(Params) \in Nat /\ DOMAIN Params = 1..Len(Params) /\ k \in 1..Len(Params)
           /\ Params[k].first \in Int /\ Params[k].first >= 2
           /\ Params[k].width \in Nat /\ 1 <= Params[k].width /\ Params[k].width <= IntBytes
           /\ Params[k].parts \in Nat /\ 1 <= Params[k].parts
           /\ Params[k].gate \in BOOLEAN
           /\ Params[k].complaint \in 0..8
  <1> DEFINE R == [first : BodyAddr, width : 1..IntBytes, parts : Nat \ {0},
                   gate : BOOLEAN, complaint : 0..(Saved - 1)]
  <1>1. Params \in Seq(R)
    BY ParamAssumption
  <1>2. Params[k] \in R
    <2> HIDE DEF R
    <2> QED BY <1>1, ElementOfSeq, LenProperties
  <1>3. IntBytes \in Nat /\ Size \in Nat
    BY ParamAssumption, SizeAssumption
  <1>4. Len(Params) \in Nat /\ DOMAIN Params = 1..Len(Params)
    BY <1>1, LenProperties
  <1> QED BY <1>2, <1>3, <1>4, SMT DEF BodyAddr, Saved

\* The numbers of a parameter follow one another and end at its End.
LEMMA Places ==
    ASSUME NEW k \in DOMAIN Params, NEW n \in 1..Params[k].parts
    PROVE  /\ Place(k, n) \in Int /\ End(k) \in Int
           /\ Params[k].first <= Place(k, n)
           /\ Place(k, n) + Params[k].width <= End(k)
           /\ \A m \in 1..Params[k].parts : m < n => Place(k, m) + Params[k].width <= Place(k, n)
  <1> DEFINE f == Params[k].first
             w == Params[k].width
             p == Params[k].parts
  <1>1. f \in Int /\ w \in Nat /\ p \in Nat /\ w >= 1 /\ n \in Nat /\ n >= 1 /\ n <= p
    BY ParamTyped
  <1> HIDE DEF f, w, p
  <1>2. \A a, b \in Nat : a <= b => a * w <= b * w
    BY <1>1, SMT
  <1>3. (n - 1) * w \in Nat /\ p * w \in Nat /\ (n - 1) * w + w = n * w /\ n * w <= p * w
    <2>1. n - 1 \in Nat /\ (n - 1) * w + w = n * w
      BY <1>1, SMT
    <2>2. \A a \in Nat : a * w \in Nat
      BY <1>1, SMT
    <2> QED BY <1>1, <1>2, <2>1, <2>2
  <1>4. ASSUME NEW m \in 1..p, m < n
        PROVE  f + (m - 1) * w + w <= f + (n - 1) * w
    <2>1. m \in Nat /\ n - 1 \in Nat /\ m <= n - 1
      BY <1>1, <1>4, SMT
    <2>2. m * w <= (n - 1) * w /\ m * w \in Int /\ (m - 1) * w + w = m * w /\ (m - 1) * w \in Int
      BY <1>1, <1>2, <2>1, SMT
    <2> QED BY <1>1, <1>3, <2>2, SMT
  <1>5. Place(k, n) = f + (n - 1) * w /\ End(k) = f + p * w
    BY DEF Place, End, f, w, p
  <1>6. \A m : Place(k, m) = f + (m - 1) * w
    BY DEF Place, f, w
  <1>7. /\ f + (n - 1) * w \in Int /\ f + p * w \in Int
        /\ f <= f + (n - 1) * w
        /\ f + (n - 1) * w + w <= f + p * w
    BY <1>1, <1>3, SMT
  <1> QED BY <1>4, <1>5, <1>6, <1>7 DEF f, w, p

-----------------------------------------------------------------------------
(***************************************************************************)
(* sscanf: what it stores, byte by byte.                                   *)
(***************************************************************************)
LEMMA NumberTyped ==
    ASSUME NEW number \in Number, NEW b \in 1..IntBytes
    PROVE  number[b] \in Cell
  BY DEF Number

LEMMA StoreIs ==
    ASSUME NEW n_cfg \in Image, NEW at \in Int, NEW number \in Number
    PROVE  /\ Store(n_cfg, at, number) \in Image
           /\ \A i \in Addr : i < at => Store(n_cfg, at, number)[i] = n_cfg[i]
           /\ \A b \in 1..IntBytes : at + b - 1 \in Addr =>
                 Store(n_cfg, at, number)[at + b - 1] = number[b]
  <1>0. IntBytes \in Nat /\ \A i \in Addr : i \in Int
    BY ParamAssumption, SizeAssumption DEF Addr
  <1>1. ASSUME NEW i \in Addr, i \in at..(at + IntBytes - 1)
        PROVE  number[i - at + 1] \in Cell
    <2>1. i - at + 1 \in 1..IntBytes
      BY <1>0, <1>1, SMT
    <2> QED BY <2>1, NumberTyped
  <1>2. Store(n_cfg, at, number) \in Image
    BY <1>1 DEF Store, Image
  <1>3. ASSUME NEW i \in Addr, i < at PROVE i \notin at..(at + IntBytes - 1)
    BY <1>0, <1>3, SMT
  <1>4. ASSUME NEW b \in 1..IntBytes
        PROVE  at + b - 1 \in at..(at + IntBytes - 1) /\ (at + b - 1) - at + 1 = b
    BY <1>0, SMT
  <1> QED BY <1>2, <1>3, <1>4 DEF Store

\* Convert goes from number to number.
LEMMA ConvertIs ==
    ASSUME NEW n_cfg, NEW k, NEW numbers, Len(numbers) \in Nat
    PROVE  \E c : /\ c[0] = n_cfg /\ Convert(n_cfg, k, numbers) = c[Len(numbers)]
                  /\ \A n \in 1..Len(numbers) :
                        c[n] = Store(c[n - 1], Place(k, n), numbers[n])
  <1> DEFINE From(c, m) == [n \in 0..m |-> IF n = 0 THEN n_cfg
                                           ELSE Store(c[n - 1], Place(k, n), numbers[n])]
             P == {m \in Nat : \E c : c = From(c, m)}
             cfg == CHOOSE c : c = From(c, Len(numbers))
  <1>1. 0 \in P
    <2> DEFINE c == [n \in 0..0 |-> n_cfg]
    <2>1. c = From(c, 0)
      BY SMT
    <2> QED BY <2>1
  <1>2. ASSUME NEW m \in Nat, m \in P PROVE m + 1 \in P
    <2>1. PICK c : c = From(c, m)
      BY <1>2
    <2> DEFINE d == [n \in 0..(m + 1) |-> IF n = m + 1 THEN Store(c[m], Place(k, n), numbers[n])
                                          ELSE c[n]]
    <2>2. ASSUME NEW n \in 0..(m + 1)
          PROVE  d[n] = IF n = 0 THEN n_cfg ELSE Store(d[n - 1], Place(k, n), numbers[n])
      <3>1. CASE n = m + 1
        <4>1. n # 0 /\ n - 1 = m /\ m \in 0..(m + 1) /\ m # m + 1
          BY <3>1, SMT
        <4>2. d[n] = Store(c[m], Place(k, n), numbers[n]) /\ d[m] = c[m]
          BY <3>1, <4>1
        <4> HIDE DEF d
        <4> QED BY <4>1, <4>2
      <3>2. CASE n # m + 1
        <4>1. n \in 0..m /\ (n # 0 => n - 1 \in 0..(m + 1) /\ n - 1 # m + 1)
          BY <3>2, SMT
        <4>2. d[n] = c[n] /\ (n # 0 => d[n - 1] = c[n - 1])
          BY <3>2, <4>1
        <4>3. c[n] = From(c, m)[n]
          BY <2>1
        <4>4. c[n] = IF n = 0 THEN n_cfg ELSE Store(c[n - 1], Place(k, n), numbers[n])
          BY <4>1, <4>3
        <4> HIDE DEF d
        <4> QED BY <4>2, <4>4
      <3> QED BY <3>1, <3>2
    <2>3. d = [n \in 0..(m + 1) |-> d[n]]
      OBVIOUS
    <2> HIDE DEF d
    <2>4. d = From(d, m + 1)
      BY <2>2, <2>3
    <2> QED BY <2>4
  <1> HIDE DEF P
  <1>3. Len(numbers) \in P
    BY <1>1, <1>2, Induction
  <1>4. \E c : c = From(c, Len(numbers))
    BY <1>3 DEF P
  <1>5. cfg = From(cfg, Len(numbers))
    BY <1>4
  <1>6. Convert(n_cfg, k, numbers) = cfg[Len(numbers)]
    BY DEF Convert
  <1> HIDE DEF cfg
  <1>7. cfg[0] = n_cfg
    <2>1. 0 \in 0..Len(numbers)
      BY SMT
    <2> QED BY <1>5, <2>1
  <1>8. ASSUME NEW n \in 1..Len(numbers)
        PROVE  cfg[n] = Store(cfg[n - 1], Place(k, n), numbers[n])
    <2>1. n \in 0..Len(numbers) /\ n # 0
      BY SMT
    <2> QED BY <1>5, <2>1
  <1> QED BY <1>6, <1>7, <1>8

LEMMA FieldInside ==
    ASSUME NEW k \in DOMAIN Params, NEW n \in 1..Params[k].parts, NEW b \in 1..Params[k].width
    PROVE  /\ Place(k, n) + b - 1 \in BodyAddr /\ Place(k, n) + b - 1 \in Addr
           /\ Params[k].first <= Place(k, n) + b - 1 /\ Place(k, n) + b - 1 < End(k)
           /\ b \in 1..IntBytes
  <1>1. /\ Place(k, n) \in Int /\ End(k) \in Int /\ Params[k].first <= Place(k, n)
        /\ Place(k, n) + Params[k].width <= End(k)
    BY Places
  <1>2. /\ Params[k].first \in Int /\ Params[k].first >= 2
        /\ Params[k].width \in Nat /\ Params[k].width <= IntBytes
    BY ParamTyped
  <1>3. End(k) <= Size /\ IntBytes \in Nat /\ Size \in Nat
    BY ParamAssumption, SizeAssumption
  <1> QED BY <1>1, <1>2, <1>3, SMT DEF BodyAddr, Addr

\* Though an int is stored for each, the numbers of a parameter come to lie as
\* they should, and nothing below them changes.
LEMMA Converted ==
    ASSUME NEW n_cfg \in Image, NEW k \in DOMAIN Params, NEW numbers \in Seq(Number),
           Len(numbers) <= Params[k].parts
    PROVE  /\ Convert(n_cfg, k, numbers) \in Image
           /\ \A i \in Addr : i < Params[k].first => Convert(n_cfg, k, numbers)[i] = n_cfg[i]
           /\ \A n \in 1..Len(numbers), b \in 1..Params[k].width :
                 Convert(n_cfg, k, numbers)[Place(k, n) + b - 1] = numbers[n][b]
  <1> DEFINE f == Params[k].first
             w == Params[k].width
             p == Params[k].parts
             l == Len(numbers)
  <1>0. /\ f \in Int /\ w \in Nat /\ p \in Nat /\ l \in Nat /\ l <= p
        /\ \A i \in Addr : i \in Int
    BY ParamTyped, LenProperties, SizeAssumption DEF Addr
  <1>1. PICK c : /\ c[0] = n_cfg /\ Convert(n_cfg, k, numbers) = c[l]
                 /\ \A n \in 1..l : c[n] = Store(c[n - 1], Place(k, n), numbers[n])
    BY <1>0, ConvertIs
  <1> DEFINE Right(m) == /\ c[m] \in Image
                         /\ \A i \in Addr : i < f => c[m][i] = n_cfg[i]
                         /\ \A n \in 1..m, b \in 1..w : c[m][Place(k, n) + b - 1] = numbers[n][b]
             P == {m \in Nat : m <= l => Right(m)}
  <1>2. 0 \in P
    <2>1. \A n \in 1..0 : FALSE
      BY SMT
    <2> QED BY <1>1, <2>1
  <1>3. ASSUME NEW m \in Nat, m \in P PROVE m + 1 \in P
    <2> SUFFICES ASSUME m + 1 <= l PROVE Right(m + 1)
      OBVIOUS
    <2> DEFINE q == m + 1
               at == Place(k, q)
    <2>1. m <= l /\ q \in 1..l /\ q \in 1..p /\ q - 1 = m
          /\ \A n \in 1..q : n = q \/ (n \in 1..m /\ n \in 1..p /\ n < q)
      BY <1>0, SMT
    <2>2. Right(m)
      BY <1>3, <2>1
    <2>3. at \in Int /\ f <= at /\ \A n \in 1..p : n < q => Place(k, n) + w <= at /\ Place(k, n) \in Int
      BY <2>1, Places
    <2>4. numbers[q] \in Number
      BY <2>1, ElementOfSeq
    <2>5. c[q] = Store(c[m], at, numbers[q])
      BY <1>1, <2>1
    <2>6. /\ c[q] \in Image
          /\ \A i \in Addr : i < at => c[q][i] = c[m][i]
          /\ \A b \in 1..IntBytes : at + b - 1 \in Addr => c[q][at + b - 1] = numbers[q][b]
      BY <2>2, <2>3, <2>4, <2>5, StoreIs
    <2> HIDE DEF q
    <2>7. \A i \in Addr : i < f => c[q][i] = n_cfg[i]
      <3>1. \A i \in Addr : i < f => i < at
        BY <1>0, <2>3, SMT
      <3> QED BY <2>2, <2>6, <3>1
    <2>8. ASSUME NEW n \in 1..q, NEW b \in 1..w
          PROVE  c[q][Place(k, n) + b - 1] = numbers[n][b]
      <3>1. CASE n = q
        <4>1. at + b - 1 \in Addr /\ b \in 1..IntBytes
          BY <2>1, FieldInside
        <4> QED BY <2>6, <3>1, <4>1
      <3>2. CASE n # q
        <4>1. n \in 1..m /\ n \in 1..p /\ n < q
          BY <2>1, <3>2
        <4>2. Place(k, n) + b - 1 \in Addr
          BY <4>1, FieldInside
        <4>3. Place(k, n) + w <= at /\ Place(k, n) \in Int
          BY <2>3, <4>1
        <4>4. Place(k, n) + b - 1 < at
          BY <1>0, <2>3, <4>3, SMT
        <4>5. c[m][Place(k, n) + b - 1] = numbers[n][b]
          BY <2>2, <4>1
        <4> QED BY <2>6, <4>2, <4>4, <4>5
      <3> QED BY <3>1, <3>2
    <2> QED BY <2>6, <2>7, <2>8 DEF q
  <1> HIDE DEF P
  <1>4. l \in P
    BY <1>0, <1>2, <1>3, Induction
  <1>5. Right(l)
    BY <1>0, <1>4 DEF P
  <1> QED BY <1>1, <1>5

\* The gateway's address is one of single bytes, behind the local one.
LEMMA GateIs ==
    ASSUME NEW k \in DOMAIN Params, Params[k].gate
    PROVE  /\ k > 1 /\ 1 \in DOMAIN Params
           /\ Params[k].width = 1 /\ Params[1].width = 1 /\ Params[1].parts = Params[k].parts
           /\ End(1) <= Params[k].first
           /\ \A n : Place(k, n) = Params[k].first + (n - 1) * 1
           /\ \A n : Place(1, n) = Params[1].first + (n - 1) * 1
  <1>1. k > 1 /\ \A j \in {1, k} : Params[j].width = 1 /\ Params[j].parts = Params[k].parts
    BY GateAssumption
  <1>2. 1 \in DOMAIN Params /\ 1 \in 1..(k - 1)
    BY <1>1, ParamTyped, SMT
  <1>3. End(1) <= Params[k].first
    BY <1>2, ParamAssumption
  <1> QED BY <1>1, <1>2, <1>3 DEF Place

LEMMA FallbackIs ==
    ASSUME NEW n_cfg \in Image, NEW k \in DOMAIN Params, Params[k].gate
    PROVE  /\ Fallback(n_cfg, k) \in Image
           /\ \A i \in Addr : i < Params[k].first => Fallback(n_cfg, k)[i] = n_cfg[i]
           /\ \A n \in 1..Params[k].parts :
                 Fallback(n_cfg, k)[Place(k, n)] =
                    IF n = Params[k].parts THEN One ELSE Fallback(n_cfg, k)[Place(1, n)]
  <1> DEFINE f == Params[k].first
             g == Params[1].first
             p == Params[k].parts
             d == Fallback(n_cfg, k)
  <1>1. /\ f \in Int /\ p \in Nat /\ p >= 1 /\ g \in Int /\ g >= 2
        /\ \A n : Place(k, n) = f + (n - 1) * 1
        /\ \A n : Place(1, n) = g + (n - 1) * 1
        /\ Params[1].parts = p /\ 1 \in DOMAIN Params
    BY GateIs, ParamTyped
  <1>2. End(1) <= f /\ End(k) <= Size /\ Size \in Nat /\ One \in Cell
    BY GateIs, ParamAssumption, SizeAssumption, FormAssumption
  <1>3. ASSUME NEW n \in 1..p
        PROVE  /\ Place(k, n) \in Addr /\ Place(1, n) \in Addr /\ Place(1, n) < f
               /\ Place(k, n) = Place(k, p) <=> n = p
               /\ Place(k, n) \in Place(k, 1)..Place(k, p)
               /\ Place(k, n) - f + g = Place(1, n)
    <2>1. /\ 1 \in 1..Params[k].width /\ 1 \in 1..Params[1].width /\ n \in 1..Params[1].parts
      BY <1>1, GateIs, SMT
    <2>2. /\ Place(k, n) + 1 - 1 \in Addr
          /\ Place(1, n) + 1 - 1 \in Addr /\ Place(1, n) + 1 - 1 < End(1)
      BY <1>1, <2>1, FieldInside
    <2>3. End(1) \in Int
      BY <1>1, <2>1, Places
    <2>4. /\ Place(k, n) = f + (n - 1) /\ Place(1, n) = g + (n - 1)
          /\ Place(k, p) = f + (p - 1) /\ Place(k, 1) = f
      BY <1>1, SMT
    <2> HIDE DEF f, g, p
    <2> QED BY <1>1, <1>2, <2>2, <2>3, <2>4, SMT
  <1>4. \A i \in Addr : d[i] = IF i = Place(k, p) THEN One
                              ELSE IF i \in Place(k, 1)..Place(k, p) THEN n_cfg[i - f + g]
                              ELSE n_cfg[i]
    BY DEF Fallback
  <1>5. ASSUME NEW i \in Addr, i < f
        PROVE  i # Place(k, p) /\ i \notin Place(k, 1)..Place(k, p)
    <2>1. Place(k, p) = f + (p - 1) /\ Place(k, 1) = f /\ i \in Int
      BY <1>1, SizeAssumption, SMT DEF Addr
    <2> QED BY <1>1, <1>5, <2>1, SMT
  <1>6. ASSUME NEW i \in Addr, i \in Place(k, 1)..Place(k, p)
        PROVE  n_cfg[i - f + g] \in Cell
    <2> DEFINE n == i - f + 1
    <2>1. n \in 1..p /\ i - f + g = g + (n - 1) * 1
      <3>1. Place(k, p) = f + (p - 1) /\ Place(k, 1) = f /\ i \in Int
        BY <1>1, SizeAssumption, SMT DEF Addr
      <3> QED BY <1>1, <1>6, <3>1, SMT
    <2> HIDE DEF n
    <2>2. Place(1, n) \in Addr /\ i - f + g = Place(1, n)
      BY <1>1, <1>3, <2>1
    <2> QED BY <2>2 DEF Image
  <1>7. d \in Image
    BY <1>2, <1>6 DEF Fallback, Image
  <1> HIDE DEF d, f, g, p
  <1>8. \A i \in Addr : i < f => d[i] = n_cfg[i]
    BY <1>4, <1>5
  <1>9. ASSUME NEW n \in 1..p
        PROVE  d[Place(k, n)] = IF n = p THEN One ELSE d[Place(1, n)]
    <2>1. d[Place(1, n)] = n_cfg[Place(1, n)]
      BY <1>3, <1>8
    <2> QED BY <1>3, <1>4, <2>1
  <1> QED BY <1>7, <1>8, <1>9 DEF d, f, p
-----------------------------------------------------------------------------
(***************************************************************************)
(* Config_Handler: block by block.                                         *)
(***************************************************************************)
Result == [cfg : Image, status : 0..9]

\* What a parameter left in the structure stays while only bytes behind it change.
LEMMA FollowsKeeps ==
    ASSUME NEW c \in Image, NEW d \in Image, NEW form, NEW k \in DOMAIN Params,
           \A i \in Addr : i < End(k) => d[i] = c[i],
           Follows(c, form, k), Params[k].gate \/ ~Broken(form, k)
    PROVE  Follows(d, form, k)
  <1>1. \A n \in 1..Params[k].parts, b \in 1..Params[k].width :
           d[Place(k, n) + b - 1] = c[Place(k, n) + b - 1]
    BY FieldInside
  <1>2. ASSUME Params[k].gate, NEW n \in 1..Params[k].parts
        PROVE  d[Place(k, n)] = c[Place(k, n)] /\ d[Place(1, n)] = c[Place(1, n)]
    <2>1. /\ 1 \in 1..Params[k].width /\ 1 \in 1..Params[1].width /\ n \in 1..Params[1].parts
          /\ 1 \in DOMAIN Params /\ End(1) <= Params[k].first
      BY <1>2, GateIs, SMT
    <2>2. /\ Place(k, n) + 1 - 1 \in Addr /\ Place(k, n) + 1 - 1 < End(k)
          /\ Params[k].first <= Place(k, n) + 1 - 1
          /\ Place(1, n) + 1 - 1 \in Addr /\ Place(1, n) + 1 - 1 < End(1)
      BY <2>1, FieldInside
    <2>3. Place(k, n) \in Int /\ Place(1, n) \in Int /\ End(k) \in Int /\ End(1) \in Int
          /\ Params[k].first \in Int
      BY <2>1, Places, ParamTyped
    <2>4. /\ Place(k, n) \in Addr /\ Place(k, n) < End(k)
          /\ Place(1, n) \in Addr /\ Place(1, n) < End(k)
      BY <2>1, <2>2, <2>3, SMT
    <2> QED BY <2>4
  <1> QED BY <1>1, <1>2 DEF Follows

\* One block: what it does to the structure and to the status line.
LEMMA BlockIs ==
    ASSUME NEW form \in Forms, NEW k \in DOMAIN Params, NEW parse \in Result,
           NEW r, r = Block(parse, form, k)
    PROVE  /\ r \in Result
           /\ \A i \in Addr : i < Params[k].first => r.cfg[i] = parse.cfg[i]
           /\ parse.status # Saved => r = parse
           /\ parse.status = Saved =>
                 IF Fatal(form, k) THEN r.status = Params[k].complaint
                 ELSE r.status = Saved /\ Follows(r.cfg, form, k)
  <1>0. parse.cfg \in Image /\ parse.status \in 0..9 /\ Params[k].complaint \in 0..8
        /\ Params[k].gate \in BOOLEAN
    BY ParamTyped DEF Result
  <1>1. CASE parse.status # Saved
    <2>1. r = parse
      BY <1>1 DEF Block
    <2> QED BY <1>1, <2>1
  <1>2. CASE parse.status = Saved /\ form[k] = Absent
    <2>1. r = parse
      BY <1>2 DEF Block
    <2> QED BY <1>2, <2>1 DEF Follows, Fatal, Broken, Complete
  <1>3. CASE parse.status = Saved /\ form[k] # Absent
    <2> DEFINE numbers == form[k]
               c == Convert(parse.cfg, k, numbers)
               p == Params[k].parts
    <2>1. numbers \in Seq(Number) /\ Len(numbers) <= p /\ Len(numbers) \in Nat /\ p \in Nat
      BY <1>3, FormAssumption, LenProperties, ParamTyped
    <2>2. /\ c \in Image
          /\ \A i \in Addr : i < Params[k].first => c[i] = parse.cfg[i]
          /\ \A n \in 1..Len(numbers), b \in 1..Params[k].width :
                c[Place(k, n) + b - 1] = numbers[n][b]
      BY <1>0, <2>1, Converted
    <2>3. r = Parse(parse, k, numbers)
      BY <1>3 DEF Block
    <2> HIDE DEF c
    <2>4. CASE Len(numbers) = p
      <3>1. r = [parse EXCEPT !.cfg = c]
        BY <2>3, <2>4 DEF Parse, c
      <3>2. r \in Result /\ r.cfg = c /\ r.status = Saved
        BY <1>0, <1>3, <2>2, <3>1 DEF Result
      <3>3. Complete(form, k) /\ ~Broken(form, k) /\ ~Fatal(form, k)
        BY <1>3, <2>4 DEF Complete, Broken, Fatal
      <3>4. Follows(c, form, k)
        BY <2>2, <2>4, <3>3 DEF Follows
      <3> QED BY <1>3, <2>2, <3>2, <3>3, <3>4
    <2>5. CASE Len(numbers) < p
      <3>0. Broken(form, k) /\ ~Complete(form, k) /\ Len(numbers) # p
        BY <1>3, <2>1, <2>5, SMT DEF Broken, Complete
      <3>1. CASE Params[k].gate
        <4> DEFINE d == Fallback(c, k)
        <4>1. /\ d \in Image
              /\ \A i \in Addr : i < Params[k].first => d[i] = c[i]
              /\ \A n \in 1..p : d[Place(k, n)] = IF n = p THEN One ELSE d[Place(1, n)]
          BY <2>2, <3>1, FallbackIs
        <4>2. r = [parse EXCEPT !.cfg = d]
          BY <2>3, <2>5, <3>0, <3>1 DEF Parse, c
        <4> HIDE DEF d
        <4>3. r \in Result /\ r.cfg = d /\ r.status = Saved
          BY <1>0, <1>3, <4>1, <4>2 DEF Result
        <4>4. Follows(d, form, k) /\ ~Fatal(form, k)
          BY <3>0, <3>1, <4>1 DEF Follows, Fatal
        <4> QED BY <1>3, <2>2, <4>1, <4>3, <4>4
      <3>2. CASE ~Params[k].gate
        <4>1. r = [cfg |-> c, status |-> Params[k].complaint]
          BY <2>3, <2>5, <3>0, <3>2 DEF Parse, c
        <4>2. r \in Result /\ r.cfg = c /\ r.status = Params[k].complaint
          BY <1>0, <2>2, <4>1 DEF Result
        <4> QED BY <1>3, <2>2, <3>0, <3>2, <4>2 DEF Fatal
      <3> QED BY <1>0, <3>1, <3>2
    <2> QED BY <2>1, <2>4, <2>5, SMT
  <1> QED BY <1>1, <1>2, <1>3

LEMMA ParsedIs ==
    ASSUME NEW form, NEW stack, Len(Params) \in Nat
    PROVE  \E c : /\ c[0] = [cfg |-> stack, status |-> Saved]
                  /\ Parsed(form, stack) = c[Len(Params)]
                  /\ \A n \in 1..Len(Params) : c[n] = Block(c[n - 1], form, Order[n])
  <1> DEFINE s == [cfg |-> stack, status |-> Saved]
             From(c, m) == [n \in 0..m |-> IF n = 0 THEN s ELSE Block(c[n - 1], form, Order[n])]
             P == {m \in Nat : \E c : c = From(c, m)}
             parse == CHOOSE c : c = From(c, Len(Params))
  <1>1. 0 \in P
    <2> DEFINE c == [n \in 0..0 |-> s]
    <2>1. c = From(c, 0)
      BY SMT
    <2> QED BY <2>1
  <1>2. ASSUME NEW m \in Nat, m \in P PROVE m + 1 \in P
    <2>1. PICK c : c = From(c, m)
      BY <1>2
    <2> DEFINE d == [n \in 0..(m + 1) |-> IF n = m + 1 THEN Block(c[m], form, Order[n]) ELSE c[n]]
    <2> HIDE DEF s
    <2>2. ASSUME NEW n \in 0..(m + 1)
          PROVE  d[n] = IF n = 0 THEN s ELSE Block(d[n - 1], form, Order[n])
      <3>1. CASE n = m + 1
        <4>1. n # 0 /\ n - 1 = m /\ m \in 0..(m + 1) /\ m # m + 1
          BY <3>1, SMT
        <4>2. d[n] = Block(c[m], form, Order[n]) /\ d[m] = c[m]
          BY <3>1, <4>1
        <4> HIDE DEF d
        <4> QED BY <4>1, <4>2
      <3>2. CASE n # m + 1
        <4>1. n \in 0..m /\ (n # 0 => n - 1 \in 0..(m + 1) /\ n - 1 # m + 1)
          BY <3>2, SMT
        <4>2. d[n] = c[n] /\ (n # 0 => d[n - 1] = c[n - 1])
          BY <3>2, <4>1
        <4>3. c[n] = From(c, m)[n]
          BY <2>1
        <4>4. c[n] = IF n = 0 THEN s ELSE Block(c[n - 1], form, Order[n])
          BY <4>1, <4>3
        <4> HIDE DEF d
        <4> QED BY <4>2, <4>4
      <3> QED BY <3>1, <3>2
    <2>3. d = [n \in 0..(m + 1) |-> d[n]]
      OBVIOUS
    <2> HIDE DEF d
    <2>4. d = From(d, m + 1)
      BY <2>2, <2>3
    <2> QED BY <2>4
  <1> HIDE DEF P
  <1>3. Len(Params) \in P
    BY <1>1, <1>2, Induction
  <1>4. \E c : c = From(c, Len(Params))
    BY <1>3 DEF P
  <1>5. parse = From(parse, Len(Params))
    BY <1>4
  <1>6. Parsed(form, stack) = parse[Len(Params)]
    BY DEF Parsed
  <1> HIDE DEF parse, s
  <1>7. parse[0] = s
    <2>1. 0 \in 0..Len(Params)
      BY SMT
    <2> QED BY <1>5, <2>1
  <1>8. ASSUME NEW n \in 1..Len(Params)
        PROVE  parse[n] = Block(parse[n - 1], form, Order[n])
    <2>1. n \in 0..Len(Params) /\ n # 0
      BY SMT
    <2> QED BY <1>5, <2>1
  <1> QED BY <1>6, <1>7, <1>8 DEF s

\* What the parsing of a form ends with.
LEMMA ParsedFollows ==
    ASSUME NEW form \in Forms, NEW stack \in Stacks, NEW r, r = Parsed(form, stack)
    PROVE  /\ r \in Result
           /\ r.status = Saved =>
                 \A k \in DOMAIN Params : ~Fatal(form, k) /\ Follows(r.cfg, form, k)
           /\ r.status # Saved =>
                 \E k \in DOMAIN Params : /\ Fatal(form, k) /\ r.status = Params[k].complaint
                                         /\ \A j \in 1..(k - 1) : ~Fatal(form, j)
  <1>0. Len(Params) \in Nat /\ DOMAIN Params = 1..Len(Params)
    <2> DEFINE R == [first : BodyAddr, width : 1..IntBytes, parts : Nat \ {0},
                     gate : BOOLEAN, complaint : 0..(Saved - 1)]
    <2>1. Params \in Seq(R)
      BY ParamAssumption
    <2> HIDE DEF R
    <2> QED BY <2>1, LenProperties
  <1> DEFINE l == Len(Params)
  <1>1. PICK c : /\ c[0] = [cfg |-> stack, status |-> Saved] /\ r = c[l]
                 /\ \A n \in 1..l : c[n] = Block(c[n - 1], form, Order[n])
    BY <1>0, ParsedIs
  <1> DEFINE Good(m) ==
                /\ c[m] \in Result
                /\ c[m].status = Saved =>
                      \A k \in 1..m : ~Fatal(form, k) /\ Follows(c[m].cfg, form, k)
                /\ c[m].status # Saved =>
                      \E k \in 1..m : /\ Fatal(form, k) /\ c[m].status = Params[k].complaint
                                      /\ \A j \in 1..(k - 1) : ~Fatal(form, j)
             P == {m \in Nat : m <= l => Good(m)}
  <1>2. 0 \in P
    <2>1. \A n \in 1..0 : FALSE
      BY SMT
    <2>2. c[0] \in Result /\ c[0].status = Saved
      BY <1>1, FormAssumption DEF Result, Saved
    <2> QED BY <2>1, <2>2
  <1>3. ASSUME NEW m \in Nat, m \in P PROVE m + 1 \in P
    <2> SUFFICES ASSUME m + 1 <= l PROVE Good(m + 1)
      OBVIOUS
    <2> DEFINE q == m + 1
    <2>1. /\ m <= l /\ q \in 1..l /\ q - 1 = m
          /\ \A k \in 1..q : k = q \/ (k \in 1..m /\ k \in 1..l /\ k \in 1..(q - 1))
          /\ \A k \in 1..(q - 1) : k \in 1..m
          /\ \A k \in 1..m : k \in 1..q
      BY <1>0, SMT
    <2>2. Good(m)
      BY <1>3, <2>1
    <2> HIDE DEF q
    <2>3. q \in DOMAIN Params /\ Order[q] = q
      BY <1>0, <2>1 DEF Order
    <2>4. c[q] = Block(c[m], form, q)
      BY <1>1, <2>1, <2>3
    <2>5. /\ c[q] \in Result
          /\ \A i \in Addr : i < Params[q].first => c[q].cfg[i] = c[m].cfg[i]
          /\ c[m].status # Saved => c[q] = c[m]
          /\ c[m].status = Saved =>
                IF Fatal(form, q) THEN c[q].status = Params[q].complaint
                ELSE c[q].status = Saved /\ Follows(c[q].cfg, form, q)
      BY <2>2, <2>3, <2>4, BlockIs
    <2>6. CASE c[m].status # Saved
      <3>1. c[q] = c[m]
        BY <2>5, <2>6
      <3> QED BY <2>1, <2>2, <2>6, <3>1 DEF q
    <2>7. CASE c[m].status = Saved /\ Fatal(form, q)
      <3>0. Params[q].complaint \in 0..8
        BY <2>3, ParamTyped
      <3>1. c[q].status = Params[q].complaint /\ Params[q].complaint # Saved
        <4>1. Params[q].complaint # Saved
          BY <3>0, SMT DEF Saved
        <4>2. c[q].status = Params[q].complaint
          BY <2>5, <2>7
        <4> QED BY <4>1, <4>2
      <3>2. \A j \in 1..(q - 1) : ~Fatal(form, j)
        BY <2>1, <2>2, <2>7
      <3>3. q \in 1..q
        BY <2>1, SMT
      <3> QED BY <2>5, <2>7, <3>1, <3>2, <3>3 DEF q
    <2>8. CASE c[m].status = Saved /\ ~Fatal(form, q)
      <3>1. c[q].status = Saved /\ Follows(c[q].cfg, form, q)
        BY <2>5, <2>8
      <3>2. ASSUME NEW k \in 1..q
            PROVE  ~Fatal(form, k) /\ Follows(c[q].cfg, form, k)
        <4>1. CASE k = q
          BY <2>8, <3>1, <4>1
        <4>2. CASE k # q
          <5>1. k \in 1..m /\ k \in DOMAIN Params /\ k \in 1..(q - 1)
            BY <1>0, <2>1, <4>2
          <5>2. ~Fatal(form, k) /\ Follows(c[m].cfg, form, k)
            BY <2>2, <2>8, <5>1
          <5>3. End(k) <= Params[q].first
            BY <2>3, <5>1, ParamAssumption
          <5>4. End(k) \in Int /\ Params[q].first \in Int /\ \A i \in Addr : i \in Int
            <6>1. 1 \in 1..Params[k].parts
              BY <5>1, ParamTyped, SMT
            <6> QED BY <2>3, <5>1, <6>1, Places, ParamTyped, SizeAssumption DEF Addr
          <5>5. \A i \in Addr : i < End(k) => i < Params[q].first
            BY <5>3, <5>4, SMT
          <5>6. \A i \in Addr : i < End(k) => c[q].cfg[i] = c[m].cfg[i]
            BY <2>5, <5>5
          <5>7. c[q].cfg \in Image /\ c[m].cfg \in Image
            BY <2>2, <2>5 DEF Result
          <5>8. Params[k].gate \/ ~Broken(form, k)
            BY <5>1, <5>2, ParamTyped DEF Fatal
          <5>9. Follows(c[q].cfg, form, k)
            BY <5>1, <5>2, <5>6, <5>7, <5>8, FollowsKeeps
          <5> QED BY <5>2, <5>9
        <4> QED BY <4>1, <4>2
      <3> QED BY <2>5, <3>1, <3>2 DEF q
    <2> QED BY <2>6, <2>7, <2>8
  <1> HIDE DEF P
  <1>4. \A m \in Nat : m \in P
    BY <1>2, <1>3, Induction
  <1>5. Good(l)
    <2>1. l \in Nat /\ l <= l
      BY <1>0, SMT
    <2>2. l \in P
      BY <1>4, <2>1
    <2> QED BY <2>1, <2>2 DEF P
  <1> QED BY <1>0, <1>1, <1>5

\* The structure handed to setConfig: the header is written, the rest is kept.
LEMMA HandlerIs ==
    ASSUME NEW form \in Forms, NEW stack \in Stacks, Config_Handler(form, stack)
    PROVE  LET r == Parsed(form, stack)
           IN /\ r \in Result /\ status_index' = r.status
              /\ r.status = Saved =>
                    /\ SetConfig([i \in BodyAddr |-> r.cfg[i]])
                    /\ \A i \in BodyAddr : s_cfg'[i] = r.cfg[i]
              /\ r.status # Saved => UNCHANGED vars
  <1> DEFINE r == Parsed(form, stack)
  <1>1. r \in Result
    BY ParsedFollows
  <1>2. Outcome[form][stack] = r
    BY DEF Outcome
  <1> HIDE DEF r
  <1>3. /\ status_index' = r.status
        /\ IF r.status = Saved THEN SetConfig([i \in BodyAddr |-> r.cfg[i]]) ELSE UNCHANGED vars
    BY <1>2 DEF Config_Handler
  <1>4. ASSUME r.status = Saved, NEW i \in BodyAddr PROVE s_cfg'[i] = r.cfg[i]
    <2> DEFINE body == [j \in BodyAddr |-> r.cfg[j]]
    <2>1. s_cfg' = WithHeader(body)
      BY <1>3, <1>4 DEF SetConfig, Write
    <2>2. i \in Addr /\ ~(i < 2)
      BY SizeAssumption, SMT DEF BodyAddr, Addr
    <2>3. body[i] = r.cfg[i]
      OBVIOUS
    <2> HIDE DEF body
    <2> QED BY <2>1, <2>2, <2>3 DEF WithHeader
  <1> QED BY <1>1, <1>3, <1>4 DEF r

\* Follows looks at the bytes behind the header only.
LEMMA FollowsInBody ==
    ASSUME NEW c \in Image, NEW d, NEW form, NEW k \in DOMAIN Params,
           \A i \in BodyAddr : d[i] = c[i],
           Follows(c, form, k), Params[k].gate \/ ~Broken(form, k)
    PROVE  Follows(d, form, k)
  <1>1. \A n \in 1..Params[k].parts, b \in 1..Params[k].width :
           d[Place(k, n) + b - 1] = c[Place(k, n) + b - 1]
    BY FieldInside
  <1>2. ASSUME Params[k].gate, NEW n \in 1..Params[k].parts
        PROVE  d[Place(k, n)] = c[Place(k, n)] /\ d[Place(1, n)] = c[Place(1, n)]
    <2>1. /\ 1 \in 1..Params[k].width /\ 1 \in 1..Params[1].width /\ n \in 1..Params[1].parts
          /\ 1 \in DOMAIN Params
      BY <1>2, GateIs, SMT
    <2>2. Place(k, n) + 1 - 1 \in BodyAddr /\ Place(1, n) + 1 - 1 \in BodyAddr
      BY <2>1, FieldInside
    <2>3. Place(k, n) \in Int /\ Place(1, n) \in Int
      BY <2>1, Places
    <2>4. Place(k, n) + 1 - 1 = Place(k, n) /\ Place(1, n) + 1 - 1 = Place(1, n)
      BY <2>3, SMT
    <2> QED BY <2>2, <2>4
  <1> QED BY <1>1, <1>2 DEF Follows

\* A form that is accepted is saved as submitted, a form that is refused
\* changes nothing: for every packed structure and whatever the stack held.
THEOREM FormsAreHonoured == FormSpec => FormHonoured
  <1>1. ASSUME NEW form \in Forms, NEW stack \in Stacks, Config_Handler(form, stack)
        PROVE  Honoured(form) \/ Refused(form)
    <2> DEFINE r == Parsed(form, stack)
    <2>1. /\ r \in Result /\ status_index' = r.status
          /\ r.status = Saved =>
                /\ SetConfig([i \in BodyAddr |-> r.cfg[i]])
                /\ \A i \in BodyAddr : s_cfg'[i] = r.cfg[i]
          /\ r.status # Saved => UNCHANGED vars
      BY <1>1, HandlerIs
    <2>2. /\ r.status = Saved =>
                \A k \in DOMAIN Params : ~Fatal(form, k) /\ Follows(r.cfg, form, k)
          /\ r.status # Saved =>
                \E k \in DOMAIN Params : /\ Fatal(form, k) /\ r.status = Params[k].complaint
                                        /\ \A j \in 1..(k - 1) : ~Fatal(form, j)
      BY ParsedFollows
    <2> HIDE DEF r
    <2>3. CASE r.status = Saved
      <3>1. pc' = "scan"
        BY <2>1, <2>3 DEF SetConfig, Write
      <3>2. ASSUME NEW k \in DOMAIN Params
            PROVE  ~Fatal(form, k) /\ Follows(s_cfg', form, k)
        <4>1. r.cfg \in Image
          BY <2>1 DEF Result
        <4>2. ~Fatal(form, k) /\ Follows(r.cfg, form, k)
          BY <2>2, <2>3
        <4>3. Params[k].gate \/ ~Broken(form, k)
          BY <4>2, ParamTyped DEF Fatal
        <4>4. \A i \in BodyAddr : s_cfg'[i] = r.cfg[i]
          BY <2>1, <2>3
        <4> DEFINE d == s_cfg'
        <4>5. \A i \in BodyAddr : d[i] = r.cfg[i]
          BY <4>4
        <4> HIDE DEF d
        <4>6. Follows(d, form, k)
          BY <4>1, <4>2, <4>3, <4>5, FollowsInBody
        <4> QED BY <4>2, <4>6 DEF d
      <3> QED BY <3>1, <3>2 DEF Honoured
    <2>4. CASE r.status # Saved
      <3>1. PICK k \in DOMAIN Params : /\ Fatal(form, k) /\ r.status = Params[k].complaint
                                      /\ \A j \in 1..(k - 1) : ~Fatal(form, j)
        BY <2>2, <2>4
      <3> QED BY <2>1, <2>4, <3>1 DEF Refused
    <2> QED BY <2>3, <2>4
  <1>2. [pc = "run" /\ pc' # "off" /\ status_index' # Rebooting =>
            \A form \in Forms, stack \in Stacks :
               Config_Handler(form, stack) => Honoured(form) \/ Refused(form)]_formVars
    BY <1>1
  <1> QED BY <1>2, PTL DEF FormHonoured

\* The sector's invariant holds with the real page as the one who saves.
THEOREM FormFlashInvariant == FormSpec => [](TypeOK /\ FlashInv)
  <1>1. FormInit => TypeOK /\ FlashInv
    BY FlashInit DEF FormInit
  <1>2. ASSUME TypeOK, FlashInv, [FormNext]_formVars PROVE TypeOK' /\ FlashInv'
    <2>1. CASE Stay
      <3>1. CASE Boot
        BY <1>2, <3>1, FlashBoot
      <3>2. CASE WriteFlash
        BY <1>2, <3>2, FlashWriting
      <3>3. CASE ResetButton
        BY <1>2, <3>3, Images, Headers, FlashWrite DEF ResetButton
      <3> QED BY <2>1, <3>1, <3>2, <3>3 DEF Stay
    <2>2. CASE Lose
      BY <1>2, <2>2, FlashPower DEF Lose
    <2>3. ASSUME UNCHANGED vars PROVE TypeOK' /\ FlashInv'
      BY <1>2, <2>3 DEF vars, TypeOK, FlashInv, NoMixture
    <2>4. ASSUME NEW form \in Forms, NEW stack \in Stacks, Config_Handler(form, stack)
          PROVE  TypeOK' /\ FlashInv'
      <3> DEFINE r == Parsed(form, stack)
                 body == [i \in BodyAddr |-> r.cfg[i]]
      <3>1. /\ r \in Result
            /\ r.status = Saved => SetConfig(body)
            /\ r.status # Saved => UNCHANGED vars
        BY <2>4, HandlerIs
      <3> HIDE DEF r
      <3>2. CASE r.status = Saved
        <4>1. body \in [BodyAddr -> Cell]
          <5>1. r.cfg \in Image /\ \A i \in BodyAddr : i \in Addr
            BY <3>1, SizeAssumption, SMT DEF Result, BodyAddr, Addr
          <5> QED BY <5>1 DEF Image
        <4>2. WithHeader(body) \in Image
          <5>1. \A i \in Addr : ~(i < 2) => i \in BodyAddr
            BY SizeAssumption, SMT DEF BodyAddr, Addr
          <5> HIDE DEF body
          <5> QED BY <4>1, <5>1, CellAssumption DEF WithHeader, Image
        <4> HIDE DEF body
        <4>3. WithHeader(body)[0] = HeadByte /\ WithHeader(body)[1] = HeadByte
          <5>1. 0 \in Addr /\ 1 \in Addr
            BY SizeAssumption, SMT DEF Addr
          <5> QED BY <5>1, SMT DEF WithHeader
        <4>4. Write(WithHeader(body)) /\ complete' = FALSE /\ UNCHANGED <<flash, written>>
          BY <3>1, <3>2 DEF SetConfig
        <4> QED BY <1>2, <4>2, <4>3, <4>4, FlashWrite
      <3> QED BY <2>3, <3>1, <3>2
    <2>5. CASE Reboot_Handler
      BY <2>3, <2>5 DEF Reboot_Handler
    <2>6. CASE UNCHANGED formVars
      BY <2>3, <2>6 DEF formVars
    <2> QED BY <1>2, <2>1, <2>2, <2>4, <2>5, <2>6 DEF FormNext
  <1> QED BY <1>1, <1>2, PTL DEF FormSpec

\* Whatever forms are submitted and whatever fails, the sector never mixes two
\* configurations, and one that was written whole is the one later boots find.
THEOREM FormsKeepFlash == FormSpec => [](NoMixture /\ Durable)
  <1>1. FlashInv => NoMixture /\ Durable
    BY DEF FlashInv, Durable
  <1> QED BY FormFlashInvariant, <1>1, PTL
=============================================================================
