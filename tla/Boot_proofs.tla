----------------------------- MODULE Boot_proofs -----------------------------
(***************************************************************************)
(* The allocator of malloc.c for every bank, block size and sequence of    *)
(* allocations and frees: regions are disjoint, the map is exact, and the  *)
(* search finds the highest gap or proves that there is none.  The start   *)
(* of main.c, which calls it, for all sizes of its regions: what a failed  *)
(* attempt took is given back, and what a successful one took is whole.    *)
(***************************************************************************)
EXTENDS Boot, SequenceTheorems, TLAPS

In(b, r) == r.at <= b /\ b < r.at + r.n

\* The regions lie in the bank, apart from each other.
Apart == /\ \A r \in live : r.at + r.n <= Blocks
         /\ \A r, s \in live : r # s => r.at + r.n <= s.at \/ s.at + s.n <= r.at

\* The map, on the regions that are neither being marked nor cleared.
Marks(R) == \A r \in R : \A b \in Block : In(b, r) => memmap[b] = r.n
Covered(b, R) == \E r \in R : In(b, r)

IdleInv == /\ Marks(live)
           /\ \A b \in Block : memmap[b] # 0 => Covered(b, live)

\* The run that ends above offset is free, begins at the end of the bank or
\* below a used block, and no gap above offset is large enough.
SearchInv == /\ nmemb >= 1 /\ cmemb < nmemb /\ i = 0
             /\ offset + cmemb < Blocks
             /\ \A b \in Block : offset < b /\ b <= offset + cmemb => memmap[b] = 0
             /\ offset + cmemb + 1 < Blocks => memmap[offset + cmemb + 1] # 0
             /\ \A b \in Block : b > offset => ~FreeFrom(b, nmemb)

MarkInv == /\ nmemb >= 1 /\ offset >= 0 /\ offset + nmemb <= Blocks /\ i <= nmemb
           /\ Marks(live)
           /\ \A r \in live : r.at + r.n <= offset \/ offset + nmemb <= r.at
           /\ \A b \in Block : offset <= b /\ b < offset + i => memmap[b] = nmemb
           /\ \A b \in Block : memmap[b] # 0 =>
                  Covered(b, live) \/ (offset <= b /\ b < offset + i)
           /\ i = 0 => \A b \in Block : b > offset => ~FreeFrom(b, nmemb)

Freed == [at |-> offset, n |-> nmemb]
ClearInv == /\ Freed \in live /\ i <= nmemb
            /\ Marks(live \ {Freed})
            /\ \A b \in Block : memmap[b] # 0 =>
                   Covered(b, live \ {Freed}) \/ (offset + i <= b /\ b < offset + nmemb)

PoolInv == /\ PoolTypeOK /\ Apart
           /\ mode \in {"idle", "search"} => IdleInv
           /\ mode = "search" => SearchInv
           /\ mode = "mark" => MarkInv
           /\ mode = "clear" => ClearInv

USE BlocksAssumption, BlockSizeAssumption, WidthAssumption

-----------------------------------------------------------------------------
\* The fields of a region are numbers.
LEMMA LiveTyped ==
    ASSUME PoolTypeOK, NEW r \in live
    PROVE  r.at \in Int /\ r.n \in Int /\ r.at >= 0 /\ r.at < Blocks /\ r.n >= 1
  BY SMT DEF PoolTypeOK, Block

\* A request of at least one byte takes at least one block, and the u16 count
\* does not wrap.
LEMMA BlocksForPositive ==
    ASSUME NEW bytes \in Sizes, bytes # 0
    PROVE  BlocksFor(bytes) \in 1..(U16 - 1)
<1> DEFINE q == bytes \div BlockSize
           r == bytes % BlockSize
<1>1. bytes \in Nat /\ q < U16 - 1
  BY SizesAssumption
<1>2. q \in Nat /\ r \in Nat /\ bytes = BlockSize * q + r
  BY <1>1, SMT
<1> HIDE DEF q, r
<1>3. q = 0 => r # 0
  BY <1>2, <1>1, SMT
<1>4. BlocksFor(bytes) = (q + IF r # 0 THEN 1 ELSE 0) % U16
  BY DEF BlocksFor, q, r
<1> DEFINE k == q + IF r # 0 THEN 1 ELSE 0
<1>5. k \in Nat /\ k >= 1 /\ k < U16
  BY <1>1, <1>2, <1>3, SMT
<1> HIDE DEF k
<1>6. k % U16 = k
  BY <1>5, SMT
<1> QED
  BY <1>4, <1>5, <1>6, SMT DEF k

\* The empty pool satisfies the invariant.
LEMMA InitPool == PoolInit => PoolInv
  BY SMT DEF PoolInit, PoolInv, PoolTypeOK, Apart, IdleInv, Marks, Covered, Block, None

\* Each step preserves the invariant, whichever loop is being executed.
LEMMA NextPool == PoolInv /\ [PoolNext]_poolVars => PoolInv'
<1> SUFFICES ASSUME PoolInv, [PoolNext]_poolVars PROVE PoolInv'
  OBVIOUS
<1>1. ASSUME NEW bytes \in Sizes, Malloc(bytes) PROVE PoolInv'
  <2>1. CASE bytes = 0
    BY <1>1, <2>1, SMTT(30) DEF PoolInv, PoolTypeOK, Apart, IdleInv, SearchInv, MarkInv, ClearInv,
       Marks, Covered, In, Block, None, Malloc, locals, Freed, FreeFrom
  <2>2. CASE bytes # 0
    <3>1. nmemb' \in 1..(U16 - 1) /\ cmemb' = 0 /\ offset' = Blocks - 1 /\ i' = 0
          /\ mode = "idle" /\ mode' = "search" /\ UNCHANGED <<result, memmap, live>>
      BY <1>1, <2>2, BlocksForPositive DEF Malloc
    <3> QED
      BY <3>1, SMT DEF PoolInv, PoolTypeOK, Apart, IdleInv, SearchInv, Marks, Covered, In, Block, None
  <2> QED
    BY <2>1, <2>2
<1>2. ASSUME Search PROVE PoolInv'
  <2>1. mode = "search" /\ offset >= 0 /\ cmemb' = Run /\ IdleInv /\ SearchInv
        /\ UNCHANGED <<memmap, nmemb, i, result, live>>
    BY <1>2 DEF Search, PoolInv
  <2>2. PoolTypeOK /\ Apart /\ Apart' /\ IdleInv' /\ offset \in Block
    BY <2>1, SMT DEF PoolInv, Apart, IdleInv, Marks, Covered, PoolTypeOK, Block, In
  <2>3. Run <= nmemb /\ Run \in 0..Blocks /\ offset + Run <= Blocks
        /\ \A b \in Block : offset <= b /\ b < offset + Run => memmap[b] = 0
    BY <2>1, <2>2, SMT DEF SearchInv, Run, PoolTypeOK, Block
  <2>4. CASE cmemb' = nmemb /\ mode' = "mark" /\ UNCHANGED offset
    <3>1. PoolTypeOK'
      BY <2>1, <2>2, <2>3, <2>4, SMT DEF PoolTypeOK, Block
    <3>2. Marks(live)' /\ \A b \in Block : memmap'[b] # 0 => Covered(b, live)'
      BY <2>2, SMT DEF IdleInv
    <3>3. \A r \in live : r.at + r.n <= offset \/ offset + nmemb <= r.at
      <4> SUFFICES ASSUME NEW r \in live PROVE r.at + r.n <= offset \/ offset + nmemb <= r.at
        OBVIOUS
      <4>1. /\ r.at \in Block /\ r.n \in 1..Blocks
            /\ In(r.at, r) /\ memmap[r.at] = r.n
            /\ In(offset, r) => memmap[offset] = r.n
        BY <2>1, <2>2, SMTT(30) DEF PoolTypeOK, IdleInv, Marks, In, Block
      <4> QED
        <5>1. r.n # 0 /\ Run = nmemb /\ nmemb >= 1 /\ nmemb \in Int /\ offset \in Int
          BY <4>1, <2>1, <2>2, <2>4, SMT DEF SearchInv, PoolTypeOK, Block
        <5>2. memmap[offset] = 0 /\ ~In(offset, r)
          BY <4>1, <5>1, <2>2, <2>3, SMT
        <5>3. ~(offset <= r.at /\ r.at < offset + nmemb)
          BY <4>1, <5>1, <2>3, SMT
        <5> QED
          BY <5>1, <5>2, <5>3, <2>2, LiveTyped, SMT DEF In
    <3>4. \A b \in Block : b > offset => ~FreeFrom(b, nmemb)'
      BY <2>1, SMT DEF SearchInv, FreeFrom
    <3>5. MarkInv'
      BY <2>1, <2>2, <2>3, <2>4, <3>2, <3>3, <3>4, SMT DEF SearchInv, MarkInv, PoolTypeOK, Block
    <3> QED
      BY <2>2, <2>4, <3>1, <3>5 DEF PoolInv
  <2>5. CASE cmemb' # nmemb /\ offset' = offset - 1 /\ UNCHANGED mode
    <3>1. PoolTypeOK'
      BY <2>1, <2>2, <2>3, <2>5, SMT DEF PoolTypeOK, Block
    <3>2. offset + Run < Blocks => memmap[offset + Run] # 0
      BY <2>1, <2>2, SMT DEF SearchInv, Run, PoolTypeOK, Block
    <3>3. ~FreeFrom(offset, nmemb)
      BY <2>1, <2>2, <2>3, <2>5, <3>2, SMT DEF FreeFrom, Run, PoolTypeOK, Block, SearchInv
    <3>4. \A b \in Block : b > offset - 1 => ~FreeFrom(b, nmemb)'
      BY <2>1, <2>2, <3>3, SMT DEF SearchInv, FreeFrom, Block
    <3>5. SearchInv'
      BY <2>1, <2>2, <2>3, <2>5, <3>2, <3>4, SMT DEF SearchInv, PoolTypeOK, Block
    <3> QED
      BY <2>1, <2>2, <2>5, <3>1, <3>5 DEF PoolInv
  <2> QED
    BY <1>2, <2>4, <2>5 DEF Search
<1>3. ASSUME NotFound PROVE PoolInv'
  BY <1>3, SMT DEF NotFound, PoolInv, PoolTypeOK, Apart, IdleInv, Marks, Covered, In, None, locals
<1>4. ASSUME Mark PROVE PoolInv'
  <2>1. /\ mode = "mark" /\ mode' = "mark" /\ i < nmemb /\ i' = i + 1
        /\ memmap' = [memmap EXCEPT ![offset + i] = nmemb]
        /\ UNCHANGED <<nmemb, cmemb, offset, result, live>>
        /\ PoolTypeOK /\ Apart /\ MarkInv
    BY <1>4 DEF Mark, PoolInv
  <2>2. offset + i \in Block
    BY <2>1, SMT DEF MarkInv, PoolTypeOK, Block
  <2>3. PoolTypeOK' /\ Apart'
    BY <2>1, <2>2, SMT DEF MarkInv, PoolTypeOK, Apart, Block
  <2>4. \A r \in live : ~In(offset + i, r)
    <3>1. offset \in Int /\ nmemb \in Int /\ i \in Int /\ i >= 0
          /\ \A r \in live : r.at + r.n <= offset \/ offset + nmemb <= r.at
      BY <2>1, SMT DEF MarkInv, PoolTypeOK, Block
    <3> QED
      BY <2>1, <3>1, LiveTyped, SMT DEF In
  <2>5. Marks(live)'
    BY <2>1, <2>2, <2>4, SMT DEF MarkInv, Marks, In, PoolTypeOK
  <2>6. \A b \in Block : memmap'[b] # 0 =>
            Covered(b, live)' \/ (offset <= b /\ b < offset + i')
    BY <2>1, <2>2, SMT DEF MarkInv, Covered, In, PoolTypeOK, Block
  <2>7. \A b \in Block : offset <= b /\ b < offset + i' => memmap'[b] = nmemb
    BY <2>1, <2>2, SMT DEF MarkInv, PoolTypeOK, Block
  <2>8. MarkInv'
    BY <2>1, <2>5, <2>6, <2>7, SMT DEF MarkInv, PoolTypeOK
  <2> QED
    BY <2>1, <2>3, <2>8 DEF PoolInv
<1>5. ASSUME Marked PROVE PoolInv'
  <2>1. /\ mode = "mark" /\ mode' = "idle" /\ ~(i < nmemb) /\ result' = offset
        /\ live' = live \cup {Freed}
        /\ UNCHANGED <<memmap, nmemb, cmemb, offset, i>>
        /\ PoolTypeOK /\ Apart /\ MarkInv
    BY <1>5 DEF Marked, PoolInv, locals, Freed
  <2>2. PoolTypeOK' /\ Apart'
    BY <2>1, SMTT(30) DEF MarkInv, PoolTypeOK, Apart, Block, Freed
  <2>3. IdleInv'
    <3>1. Freed.at = offset /\ Freed.n = nmemb /\ i = nmemb
      BY <2>1, SMT DEF Freed, MarkInv, PoolTypeOK
    <3>2. \A b \in Block : In(b, Freed) <=> offset <= b /\ b < offset + i
      BY <3>1 DEF In
    <3>3. \A r \in live' : \A b \in Block : In(b, r) => memmap[b] = r.n
      BY <2>1, <3>1, <3>2 DEF MarkInv, Marks
    <3>4. \A b \in Block : memmap[b] # 0 => \E r \in live' : In(b, r)
      BY <2>1, <3>2 DEF MarkInv, Covered
    <3> QED
      BY <2>1, <3>3, <3>4 DEF IdleInv, Marks, Covered
  <2> QED
    BY <2>1, <2>2, <2>3 DEF PoolInv
<1>6. ASSUME NEW s \in live, Free(s.at) PROVE PoolInv'
  <2>1. s \in [at : Block, n : 1..Blocks] /\ s.at # None
        /\ PoolTypeOK /\ Apart /\ mode = "idle" /\ IdleInv
    BY <1>6, SMT DEF Free, PoolInv, PoolTypeOK, None, Block
  <2>2. /\ offset' = s.at /\ nmemb' = memmap[s.at] /\ i' = 0 /\ mode' = "clear"
        /\ UNCHANGED <<cmemb, memmap, result, live>>
    BY <1>6, <2>1 DEF Free
  <2>3. memmap[s.at] = s.n
    BY <2>1, SMT DEF IdleInv, Marks, In, Block
  <2>4. Freed' = s
    BY <2>1, <2>2, <2>3, SMT DEF Freed
  <2>5. PoolTypeOK' /\ Apart'
    BY <2>1, <2>2, SMT DEF PoolTypeOK, Apart, Block
  <2>6. ClearInv'
    BY <2>1, <2>2, <2>3, <2>4, SMT DEF ClearInv, IdleInv, Marks, Covered, In, Block
  <2> QED
    BY <2>2, <2>5, <2>6 DEF PoolInv
<1>7. ASSUME Clear PROVE PoolInv'
  <2>1. /\ mode = "clear" /\ mode' = "clear" /\ i < nmemb /\ i' = i + 1
        /\ memmap' = [memmap EXCEPT ![offset + i] = 0]
        /\ UNCHANGED <<nmemb, cmemb, offset, result, live>> /\ Freed' = Freed
        /\ PoolTypeOK /\ Apart /\ ClearInv
    BY <1>7 DEF Clear, PoolInv, Freed
  <2>2. offset + nmemb <= Blocks /\ offset >= 0 /\ offset + i \in Block
    <3>1. Freed \in live /\ Freed.at = offset /\ Freed.n = nmemb
      BY <2>1 DEF ClearInv, Freed
    <3>2. Freed.at + Freed.n <= Blocks
      BY <2>1, <3>1 DEF Apart
    <3>3. offset \in Int /\ offset >= 0 /\ nmemb \in Int /\ i \in Int /\ i >= 0
      BY <2>1, <3>1, LiveTyped, SMT DEF PoolTypeOK
    <3> QED
      BY <2>1, <3>1, <3>2, <3>3, SMT DEF Block
  <2>3. PoolTypeOK' /\ Apart'
    BY <2>1, <2>2, SMT DEF PoolTypeOK, Apart, Block
  <2>4. \A r \in live \ {Freed} : ~In(offset + i, r)
    <3>1. Freed \in live /\ Freed.at = offset /\ Freed.n = nmemb /\ i >= 0 /\ i \in Int
      BY <2>1, SMT DEF ClearInv, Freed, PoolTypeOK
    <3>2. \A r \in live \ {Freed} : r.at + r.n <= offset \/ offset + nmemb <= r.at
      BY <2>1, <3>1 DEF Apart
    <3> QED
      BY <2>1, <2>2, <3>1, <3>2, LiveTyped, SMT DEF In
  <2>5. Marks(live \ {Freed})'
    BY <2>1, <2>2, <2>4, SMT DEF ClearInv, Marks, In, PoolTypeOK
  <2>6. \A b \in Block : memmap'[b] # 0 =>
            Covered(b, live \ {Freed})' \/ (offset + i' <= b /\ b < offset + nmemb)
    BY <2>1, <2>2, SMT DEF ClearInv, Covered, In, PoolTypeOK, Block
  <2>7. ClearInv'
    BY <2>1, <2>5, <2>6, SMT DEF ClearInv, PoolTypeOK
  <2> QED
    BY <2>1, <2>3, <2>7 DEF PoolInv
<1>8. ASSUME Cleared PROVE PoolInv'
  <2>1. /\ mode = "clear" /\ mode' = "idle" /\ ~(i < nmemb)
        /\ live' = {r \in live : r.at # offset}
        /\ UNCHANGED <<memmap, nmemb, cmemb, offset, i, result>>
        /\ PoolTypeOK /\ Apart /\ ClearInv
    BY <1>8 DEF Cleared, PoolInv, locals
  <2>2. live' = live \ {Freed}
    <3>1. Freed \in live /\ Freed.at = offset
      BY <2>1 DEF ClearInv, Freed
    <3>2. \A r \in live \ {Freed} : r.at # offset
      <4> SUFFICES ASSUME NEW r \in live \ {Freed} PROVE r.at # Freed.at
        BY <3>1
      <4>1. r.at + r.n <= Freed.at \/ Freed.at + Freed.n <= r.at
        BY <2>1, <3>1 DEF Apart
      <4> QED
        BY <2>1, <3>1, <4>1, LiveTyped, SMT
    <3> QED
      BY <2>1, <3>1, <3>2
  <2>3. PoolTypeOK' /\ Apart'
    BY <2>1, SMT DEF PoolTypeOK, Apart
  <2>4. IdleInv'
    BY <2>1, <2>2, SMT DEF ClearInv, IdleInv, Marks, Covered, PoolTypeOK, Block
  <2> QED
    BY <2>1, <2>3, <2>4 DEF PoolInv
<1>9. ASSUME UNCHANGED poolVars PROVE PoolInv'
  BY <1>9 DEF poolVars, PoolInv, PoolTypeOK, Apart, IdleInv, SearchInv, MarkInv, ClearInv,
     Marks, Covered, In, Freed, FreeFrom
<1> QED
  BY <1>1, <1>2, <1>3, <1>4, <1>5, <1>6, <1>7, <1>8, <1>9 DEF PoolNext, Loops

\* The invariant holds throughout.
THEOREM PoolInvariant == PoolSpec => []PoolInv
  BY InitPool, NextPool, PTL DEF PoolSpec
-----------------------------------------------------------------------------
\* However allocations and frees follow each other in a bank of any size, no
\* block belongs to two regions and no region leaves the bank.
THEOREM RegionsDisjoint == PoolSpec => []Disjoint
<1>1. PoolInv => Disjoint
  <2> SUFFICES ASSUME PoolInv PROVE Disjoint
    OBVIOUS
  <2>1. PoolTypeOK /\ Apart
    BY DEF PoolInv
  <2>2. \A r \in live : Region(r) \subseteq Block
    BY <2>1, LiveTyped, SMT DEF Apart, Region, Block
  <2>3. ASSUME NEW r \in live, NEW s \in live, r # s PROVE Region(r) \cap Region(s) = {}
    <3>1. r.at + r.n <= s.at \/ s.at + s.n <= r.at
      BY <2>1, <2>3 DEF Apart
    <3>2. r.at \in Int /\ r.n \in Int /\ s.at \in Int /\ s.n \in Int
      BY <2>1, LiveTyped
    <3> QED
      BY <3>1, <3>2, SMT DEF Region
  <2> QED
    BY <2>2, <2>3 DEF Disjoint
<1> QED
  BY <1>1, PoolInvariant, PTL

\* Between calls the map holds the size of the region at each of its blocks and
\* 0 elsewhere, so that mymem_free clears exactly what was allocated.
THEOREM MapIsExact == PoolSpec => []MapExact
<1>1. PoolInv => MapExact
  <2> SUFFICES ASSUME PoolInv, mode = "idle" PROVE MapExact
    BY DEF MapExact
  <2>1. \A r \in live : \A b \in Region(r) : b \in Block /\ In(b, r)
    BY SMT DEF PoolInv, PoolTypeOK, Apart, Region, In, Block
  <2>2. \A r \in live : \A b \in Block : In(b, r) => b \in Region(r)
    BY SMT DEF PoolInv, PoolTypeOK, Region, In, Block
  <2> QED
    BY <2>1, <2>2 DEF PoolInv, IdleInv, Marks, Covered, MapExact
<1> QED
  BY <1>1, PoolInvariant, PTL

\* mymem_malloc gives up only if no gap is large enough, and otherwise takes
\* the highest one.
THEOREM SearchFindsHighest == PoolSpec => []HighestFit
<1>1. PoolInv => HighestFit
  <2>1. ASSUME PoolInv, mode = "search", offset < 0
        PROVE  \A b \in Block : ~FreeFrom(b, nmemb)
    BY <2>1, SMT DEF PoolInv, PoolTypeOK, SearchInv, Block
  <2>2. ASSUME PoolInv, mode = "mark", i = 0
        PROVE  FreeFrom(offset, nmemb) /\ \A b \in Block : b > offset => ~FreeFrom(b, nmemb)
    <3>1. MarkInv /\ PoolTypeOK
      BY <2>2 DEF PoolInv
    <3>2. ASSUME NEW k \in offset..(offset + nmemb - 1) PROVE memmap[k] = 0
      <4>1. k \in Block /\ ~(offset <= k /\ k < offset + i)
            /\ offset <= k /\ k < offset + nmemb
        BY <2>2, <3>1, SMT DEF MarkInv, PoolTypeOK, Block
      <4>2. \A r \in live : ~In(k, r)
        <5>1. k \in Int /\ offset \in Int /\ nmemb \in Int
          BY <3>1, SMT DEF PoolTypeOK
        <5>2. \A r \in live : r.at + r.n <= offset \/ offset + nmemb <= r.at
          BY <3>1 DEF MarkInv
        <5> QED
          BY <3>1, <4>1, <5>1, <5>2, LiveTyped, SMT DEF In
      <4> QED
        BY <3>1, <4>1, <4>2 DEF MarkInv, Covered
    <3> QED
      BY <2>2, <3>1, <3>2 DEF MarkInv, FreeFrom
  <2> QED
    BY <2>1, <2>2 DEF HighestFit
<1> QED
  BY <1>1, PoolInvariant, PTL
-----------------------------------------------------------------------------
(***************************************************************************)
(* The start.  Each region handed out belongs to one of the pointers, or   *)
(* is the result about to be stored, or is being cleared; and as every     *)
(* attempt begins with an empty bank and only takes, the regions are piled *)
(* up from the end of the bank downwards.                                  *)
(***************************************************************************)
Eth == {"DMARxDscrTab", "DMATxDscrTab", "Rx_Buff", "Tx_Buff"}
Lwip == {"memp_memory", "ram_heap"}

Taking == {"ETH_Mem_Malloc", "lwip_comm_mem_malloc", "initProtocolLayer"}
Giving == {"lwip_comm_mem_free", "ETH_Mem_Free"}
Stage == Taking \cup Giving \cup {"LAN8720_Init", "delay_ms", "main"}

\* The pointers a function allocates or frees, and those it leaves alone
\* which have their region.
Handled(s) ==
    {n \in Name : \/ s \in {"ETH_Mem_Malloc", "ETH_Mem_Free"} /\ n \in Eth
                  \/ s \in {"lwip_comm_mem_malloc", "lwip_comm_mem_free"} /\ n \in Lwip
                  \/ s = "initProtocolLayer" /\ n = "report_buff"}
Kept(s) ==
    {n \in Name : \/ /\ s \in {"lwip_comm_mem_malloc", "LAN8720_Init", "lwip_comm_mem_free",
                               "initProtocolLayer", "main"}
                     /\ n \in Eth
                  \/ s \in {"LAN8720_Init", "initProtocolLayer", "main"} /\ n \in Lwip
                  \/ s = "main" /\ n = "report_buff"}

Rest(s) == {s[k] : k \in 1..Len(s)}
NoRepeat(s) == \A j, k \in 1..Len(s) : s[j] = s[k] => j = k

\* The pointers whose value counts: the others are stale or not yet set.
Owners == Kept(stage) \cup
          IF stage \in Giving THEN Rest(todo)
          ELSE Handled(stage) \ (Rest(todo) \cup {cur})

Stored(n) == [at |-> ptr[n], n |-> BlocksFor(size[n])]
Returned == [at |-> result, n |-> BlocksFor(size[cur])]
Storing == mode = "idle" /\ cur # "none" /\ result # None

BootTypeOK ==
    /\ size \in [Name -> Sizes \ {0}]
    /\ ptr \in [Name -> -1..(Blocks - 1)]
    /\ stage \in Stage
    /\ todo \in Seq(Name) /\ NoRepeat(todo) /\ Rest(todo) \subseteq Handled(stage)
    /\ cur \in Name \cup {"none"}

\* Which loop runs in which function, and which pointers are set there.
Control ==
    /\ mode \in {"search", "mark"} => cur # "none" /\ nmemb = BlocksFor(size[cur])
    /\ mode = "clear" => stage \in Giving
    /\ cur # "none" => stage \in Taking /\ cur \in Handled(stage) \ Rest(todo)
    /\ stage \in {"lwip_comm_mem_malloc", "LAN8720_Init", "initProtocolLayer", "main"} =>
           \A n \in Kept(stage) \ {"report_buff"} : ptr[n] # None
    /\ stage \notin {"initProtocolLayer", "main"} => ptr["report_buff"] = None

Owned == /\ \A n \in Owners : ptr[n] # None => Stored(n) \in live
         /\ \A n, m \in Owners : n # m /\ ptr[n] # None => ptr[n] # ptr[m]
         /\ \A r \in live : \/ mode = "clear" /\ r = Freed
                            \/ Storing /\ r = Returned
                            \/ \E n \in Owners : ptr[n] # None /\ r = Stored(n)
         /\ mode = "clear" => \A n \in Owners : ptr[n] # offset
         /\ Storing => /\ Returned \in live
                       /\ \A n \in Owners : ptr[n] # None => result + Returned.n <= ptr[n]

Piled == /\ stage \notin Giving =>
                \A r \in live : \A b \in Block : b >= r.at => Covered(b, live)
         /\ mode = "mark" =>
                /\ \A r \in live : offset + nmemb <= r.at
                /\ offset + nmemb < Blocks => Covered(offset + nmemb, live)
         /\ "report_buff" \in Owners /\ ptr["report_buff"] # None =>
                ptr["report_buff"] + Stored("report_buff").n <= ptr["memp_memory"]

BootInv == BootTypeOK /\ Control /\ Owned /\ Piled
-----------------------------------------------------------------------------
\* The lists of pointers name each one once.
LEMMA Lists ==
    /\ EthNames \in Seq(Name) /\ NoRepeat(EthNames) /\ Rest(EthNames) = Eth
    /\ LwipNames \in Seq(Name) /\ NoRepeat(LwipNames) /\ Rest(LwipNames) = Lwip
    /\ <<"report_buff">> \in Seq(Name) /\ NoRepeat(<<"report_buff">>)
    /\ Rest(<<"report_buff">>) = {"report_buff"}
    /\ <<>> \in Seq(Name) /\ NoRepeat(<<>>) /\ Rest(<<>>) = {}
  <1>1. EthNames \in Seq(Name) /\ Len(EthNames) = 4
        /\ EthNames[1] = "DMARxDscrTab" /\ EthNames[2] = "DMATxDscrTab"
        /\ EthNames[3] = "Rx_Buff" /\ EthNames[4] = "Tx_Buff"
    BY DEF EthNames, Name
  <1>2. NoRepeat(EthNames) /\ Rest(EthNames) = Eth
    <2>1. 1..4 = {1, 2, 3, 4}
      BY SMT
    <2>2. \A k \in 1..4 : k = 1 \/ k = 2 \/ k = 3 \/ k = 4
      BY <2>1
    <2>3. Rest(EthNames) = Eth
      BY <1>1, <2>1 DEF Rest, Eth
    <2>4. NoRepeat(EthNames)
      BY <1>1, <2>2 DEF NoRepeat
    <2> QED BY <2>3, <2>4
  <1>3. LwipNames \in Seq(Name) /\ Len(LwipNames) = 2
        /\ LwipNames[1] = "memp_memory" /\ LwipNames[2] = "ram_heap"
    BY DEF LwipNames, Name
  <1>4. NoRepeat(LwipNames) /\ Rest(LwipNames) = Lwip
    <2>1. 1..2 = {1, 2}
      BY SMT
    <2> QED BY <1>3, <2>1 DEF NoRepeat, Rest, Lwip
  <1>5. <<"report_buff">> \in Seq(Name) /\ NoRepeat(<<"report_buff">>)
        /\ Rest(<<"report_buff">>) = {"report_buff"}
    <2>1. 1..1 = {1}
      BY SMT
    <2>2. <<"report_buff">> \in Seq(Name) /\ Len(<<"report_buff">>) = 1
          /\ <<"report_buff">>[1] = "report_buff"
      BY DEF Name
    <2> QED BY <2>1, <2>2 DEF NoRepeat, Rest
  <1>6. <<>> \in Seq(Name) /\ NoRepeat(<<>>) /\ Rest(<<>>) = {}
    <2>1. 1..0 = {} /\ Len(<<>>) = 0
      BY SMT
    <2> QED BY <2>1 DEF NoRepeat, Rest
  <1> QED BY <1>1, <1>2, <1>3, <1>4, <1>5, <1>6

\* The next pointer is taken off the list.
LEMMA NextName ==
    ASSUME NEW s \in Seq(Name), NoRepeat(s), s # <<>>
    PROVE  /\ Head(s) \in Rest(s) /\ Head(s) \in Name
           /\ Tail(s) \in Seq(Name) /\ NoRepeat(Tail(s))
           /\ Rest(Tail(s)) = Rest(s) \ {Head(s)}
  <1>1. /\ Len(s) \in Nat /\ Len(s) >= 1 /\ Head(s) = s[1] /\ s[1] \in Name
        /\ Tail(s) \in Seq(Name) /\ Len(Tail(s)) = Len(s) - 1
        /\ \A k \in 1..(Len(s) - 1) : Tail(s)[k] = s[k + 1]
    BY HeadTailProperties, SMT
  <1>2. 1 \in 1..Len(s)
    BY <1>1, SMT
  <1>3. NoRepeat(Tail(s))
    <2> SUFFICES ASSUME NEW j \in 1..(Len(s) - 1), NEW k \in 1..(Len(s) - 1),
                        s[j + 1] = s[k + 1]
                 PROVE  j = k
      BY <1>1 DEF NoRepeat
    <2>1. j + 1 \in 1..Len(s) /\ k + 1 \in 1..Len(s)
      BY <1>1, SMT
    <2>2. j + 1 = k + 1
      BY <2>1 DEF NoRepeat
    <2> QED BY <2>2, SMT
  <1>4. \A n \in Rest(Tail(s)) : n \in Rest(s) /\ n # Head(s)
    <2> SUFFICES ASSUME NEW k \in 1..(Len(s) - 1)
                 PROVE  s[k + 1] \in Rest(s) /\ s[k + 1] # s[1]
      BY <1>1 DEF Rest
    <2>1. k + 1 \in 1..Len(s) /\ k + 1 # 1
      BY <1>1, SMT
    <2> QED BY <1>2, <2>1 DEF NoRepeat, Rest
  <1>5. \A n \in Rest(s) : n # Head(s) => n \in Rest(Tail(s))
    <2> SUFFICES ASSUME NEW k \in 1..Len(s), k # 1
                 PROVE  s[k] \in Rest(Tail(s))
      BY <1>1 DEF Rest
    <2>1. k - 1 \in 1..(Len(s) - 1) /\ (k - 1) + 1 = k
      BY <1>1, SMT
    <2>2. Tail(s)[k - 1] = s[k]
      BY <1>1, <2>1
    <2> QED BY <1>1, <2>1, <2>2 DEF Rest
  <1> QED BY <1>1, <1>2, <1>3, <1>4, <1>5 DEF Rest

\* A region is as large as was asked.
LEMMA LargeEnough ==
    ASSUME NEW bytes \in Sizes
    PROVE  BlocksFor(bytes) * BlockSize >= bytes
  <1> DEFINE q == bytes \div BlockSize
             r == bytes % BlockSize
             k == q + IF r # 0 THEN 1 ELSE 0
  <1>1. bytes \in Nat /\ q < U16 - 1
    BY SizesAssumption
  <1>2. q \in Nat /\ r \in Nat /\ r < BlockSize /\ bytes = BlockSize * q + r
    BY <1>1, SMT
  <1>3. BlocksFor(bytes) = k % U16
    BY DEF BlocksFor
  <1> HIDE DEF q, r
  <1>4. k \in Nat /\ k < U16
    BY <1>1, <1>2, SMT
  <1>5. k % U16 = k
    <2> HIDE DEF k
    <2> QED BY <1>4, SMT
  <1>6. k * BlockSize >= bytes
    <2>1. CASE r = 0
      <3>1. k = q
        BY <1>2, <2>1
      <3> QED BY <1>2, <2>1, <3>1, SMT
    <2>2. CASE r # 0
      <3>1. k = q + 1
        BY <2>2
      <3>2. k * BlockSize = BlockSize * q + BlockSize
        BY <1>2, <3>1, SMT
      <3> QED BY <1>2, <3>2, SMT
    <2> QED BY <2>1, <2>2
  <1> QED BY <1>3, <1>5, <1>6
-----------------------------------------------------------------------------
\* The first attempt begins with nothing taken.
LEMMA BootInit == Init => BootInv
  <1> SUFFICES ASSUME Init PROVE BootInv
    OBVIOUS
  <1>1. /\ mode = "idle" /\ live = {} /\ size \in SizeChoices
        /\ ptr = [n \in Name |-> None]
        /\ stage = "ETH_Mem_Malloc" /\ todo = EthNames /\ cur = "none"
    BY DEF Init, PoolInit
  <1>2. Rest(todo) = Eth /\ Handled(stage) = Eth /\ Kept(stage) = {}
    BY <1>1, Lists DEF Handled, Kept, Eth, Lwip, Name
  <1>3. Owners = {}
    BY <1>1, <1>2 DEF Owners, Giving
  <1>4. BootTypeOK
    <2>1. None \in -1..(Blocks - 1)
      BY SMT DEF None
    <2> QED BY <1>1, <1>2, <2>1, Lists, ChoicesAssumption DEF BootTypeOK, Stage, Taking
  <1>5. Control
    BY <1>1 DEF Control, Name
  <1> QED BY <1>1, <1>3, <1>4, <1>5 DEF BootInv, Owned, Piled, Storing

\* What the start does to the pool are calls any caller may make: it frees
\* what it was given and has not yet freed.
LEMMA CallsOfPool ==
    ASSUME PoolInv, BootInv, [Next]_allVars
    PROVE  [PoolNext]_poolVars
  <1>1. CASE Loops
    BY <1>1 DEF PoolNext
  <1>2. CASE Allocate
    <2>1. Head(todo) \in Name /\ size \in [Name -> Sizes \ {0}]
      BY <1>2, NextName DEF Allocate, BootInv, BootTypeOK
    <2>2. size[Head(todo)] \in Sizes
      BY <2>1
    <2> QED BY <1>2, <2>2 DEF Allocate, PoolNext
  <1>3. CASE Release
    <2>1. Head(todo) \in Rest(todo)
      BY <1>3, NextName DEF Release, BootInv, BootTypeOK
    <2>2. Head(todo) \in Owners
      BY <1>3, <2>1 DEF Release, Owners, Giving
    <2>3. CASE ptr[Head(todo)] = None
      BY <1>3, <2>3 DEF Release, Free, poolVars, locals
    <2>4. CASE ptr[Head(todo)] # None
      <3>1. Stored(Head(todo)) \in live /\ Stored(Head(todo)).at = ptr[Head(todo)]
        BY <2>2, <2>4 DEF BootInv, Owned, Stored
      <3> QED BY <1>3, <3>1 DEF Release, PoolNext
    <2> QED BY <2>3, <2>4
  <1>4. CASE UNCHANGED poolVars
    BY <1>4
  <1> QED BY <1>1, <1>2, <1>3, <1>4 DEF Next, Progress, allVars, Allocated, EthChecked,
             LwipChecked, PhyWorks, PhyFails, LwipFreed, Failure, Retry, Started

\* Going from one function to another takes and gives back nothing.
LEMMA StageKeeps ==
    ASSUME BootInv, UNCHANGED <<poolVars, size, ptr, cur>>,
           mode = "idle", cur = "none",
           BootTypeOK', Control', Owners' = Owners,
           stage' \notin Giving => stage \notin Giving \/ live = {}
    PROVE  BootInv'
  <1>1. UNCHANGED <<memmap, mode, nmemb, cmemb, offset, i, result, live>>
    BY DEF poolVars
  <1>2. ~Storing /\ ~Storing'
    BY <1>1 DEF Storing
  <1>3. Owned'
    BY <1>1, <1>2 DEF BootInv, Owned, Stored
  <1>4. Piled'
    BY <1>1 DEF BootInv, Piled, Stored, Covered, In
  <1> QED BY <1>3, <1>4 DEF BootInv

LEMMA StagesKeep ==
    ASSUME PoolInv, BootInv,
           \/ EthChecked \/ LwipChecked \/ PhyWorks \/ PhyFails \/ LwipFreed
           \/ Failure \/ Retry \/ Started
    PROVE  BootInv'
  <1> USE DEF Ready, Goto
  <1>1. /\ UNCHANGED <<poolVars, size, ptr, cur>> /\ mode = "idle" /\ cur = "none"
        /\ mode' = "idle"
    BY DEF EthChecked, LwipChecked, PhyWorks, PhyFails, LwipFreed, Failure, Retry, Started,
           poolVars
  <1>2. Rest(<<>>) = {} /\ Rest(EthNames) = Eth /\ Rest(LwipNames) = Lwip /\ EthFreed = EthNames
    BY Lists DEF EthFreed, EthNames
  <1>3. ASSUME /\ stage' \in Stage /\ todo' \in Seq(Name) /\ NoRepeat(todo')
               /\ Rest(todo') \subseteq Handled(stage')
        PROVE  BootTypeOK'
    BY <1>1, <1>3 DEF BootInv, BootTypeOK
  <1>4. ASSUME /\ stage' \in {"lwip_comm_mem_malloc", "LAN8720_Init", "initProtocolLayer", "main"} =>
                      \A n \in Kept(stage') \ {"report_buff"} : ptr[n] # None
               /\ stage' \notin {"initProtocolLayer", "main"} => ptr["report_buff"] = None
        PROVE  Control'
    BY <1>1, <1>4 DEF Control
  <1>5. CASE EthChecked
    <2>1. stage = "ETH_Mem_Malloc" /\ todo = <<>> /\ ptr["report_buff"] = None
      BY <1>5 DEF EthChecked, BootInv, Control
    <2>2. Kept(stage) = {} /\ Handled(stage) = Eth /\ Owners = Eth
      BY <1>1, <1>2, <2>1 DEF Kept, Handled, Owners, Eth, Lwip, Name, Giving
    <2>3. CASE stage' = "ETH_Mem_Free" /\ todo' = EthFreed
      <3>1. Kept(stage') = {} /\ Handled(stage') = Eth
        BY <2>3 DEF Kept, Handled, Eth, Lwip, Name
      <3>2. Owners' = Eth
        BY <1>2, <2>3, <3>1 DEF Owners, Giving
      <3>3. BootTypeOK' /\ Control'
        BY <1>2, <1>3, <1>4, <2>1, <2>3, <3>1, Lists DEF Stage, Giving
      <3> QED BY <1>1, <2>1, <2>2, <2>3, <3>2, <3>3, StageKeeps DEF Giving
    <2>4. CASE /\ ~Failed(EthNames)
               /\ stage' = "lwip_comm_mem_malloc" /\ todo' = LwipNames
      <3>1. Kept(stage') = Eth /\ Handled(stage') = Lwip
        BY <2>4 DEF Kept, Handled, Eth, Lwip, Name
      <3>2. Owners' = Eth
        BY <1>1, <1>2, <2>4, <3>1 DEF Owners, Giving
      <3>3. \A n \in Eth : ptr[n] # None
        <4>1. \A k \in 1..Len(EthNames) : k \in DOMAIN EthNames
          BY Lists
        <4> QED BY <1>2, <2>4, <4>1 DEF Failed, Rest
      <3>4. BootTypeOK' /\ Control'
        BY <1>2, <1>3, <1>4, <2>1, <2>4, <3>1, <3>3, Lists DEF Stage, Taking
      <3> QED BY <1>1, <2>1, <2>2, <2>4, <3>2, <3>4, StageKeeps DEF Giving
    <2> QED BY <1>5, <2>3, <2>4 DEF EthChecked
  <1>6. CASE LwipChecked
    <2>1. /\ stage = "lwip_comm_mem_malloc" /\ todo = <<>> /\ ptr["report_buff"] = None
          /\ \A n \in Kept(stage) \ {"report_buff"} : ptr[n] # None
      BY <1>6 DEF LwipChecked, BootInv, Control
    <2>2. Kept(stage) = Eth /\ Handled(stage) = Lwip /\ "report_buff" \notin Eth
      BY <2>1 DEF Kept, Handled, Eth, Lwip, Name
    <2>3. Owners = Eth \cup Lwip
      BY <1>1, <1>2, <2>1, <2>2 DEF Owners, Lwip, Giving
    <2>4. CASE stage' = "lwip_comm_mem_free" /\ todo' = LwipNames
      <3>1. Kept(stage') = Eth /\ Handled(stage') = Lwip
        BY <2>4 DEF Kept, Handled, Eth, Lwip, Name
      <3>2. Owners' = Eth \cup Lwip
        BY <1>2, <2>4, <3>1 DEF Owners, Giving
      <3>3. BootTypeOK' /\ Control'
        BY <1>3, <1>4, <1>2, <2>1, <2>4, <3>1, Lists DEF Stage, Giving
      <3> QED BY <1>1, <2>1, <2>3, <2>4, <3>2, <3>3, StageKeeps DEF Giving
    <2>5. CASE ~Failed(LwipNames) /\ stage' = "LAN8720_Init" /\ todo' = <<>>
      <3>1. Kept(stage') = Eth \cup Lwip /\ Handled(stage') = {}
        BY <2>5 DEF Kept, Handled, Eth, Lwip, Name
      <3>2. Owners' = Eth \cup Lwip
        BY <1>1, <1>2, <2>5, <3>1 DEF Owners, Giving
      <3>3. \A n \in Lwip : ptr[n] # None
        <4>1. \A k \in 1..Len(LwipNames) : k \in DOMAIN LwipNames
          BY Lists
        <4> QED BY <1>2, <2>5, <4>1 DEF Failed, Rest
      <3>4. \A n \in Kept(stage') : ptr[n] # None
        BY <2>1, <2>2, <3>1, <3>3
      <3>5. BootTypeOK' /\ Control'
        BY <1>3, <1>4, <1>2, <2>1, <2>5, <3>1, <3>4, Lists DEF Stage
      <3> QED BY <1>1, <2>1, <2>3, <2>5, <3>2, <3>5, StageKeeps DEF Giving
    <2> QED BY <1>6, <2>4, <2>5 DEF LwipChecked
  <1>7. CASE PhyWorks \/ PhyFails
    <2>1. /\ stage = "LAN8720_Init" /\ ptr["report_buff"] = None
          /\ \A n \in Kept(stage) \ {"report_buff"} : ptr[n] # None
      BY <1>7 DEF PhyWorks, PhyFails, BootInv, Control
    <2>2. Kept(stage) = Eth \cup Lwip /\ Handled(stage) = {} /\ "report_buff" \notin Eth \cup Lwip
      BY <2>1 DEF Kept, Handled, Eth, Lwip, Name
    <2>3. Owners = Eth \cup Lwip
      BY <1>1, <2>1, <2>2 DEF Owners, Giving
    <2>4. CASE stage' = "lwip_comm_mem_free" /\ todo' = LwipNames
      <3>1. Kept(stage') = Eth /\ Handled(stage') = Lwip
        BY <2>4 DEF Kept, Handled, Eth, Lwip, Name
      <3>2. Owners' = Eth \cup Lwip
        BY <1>2, <2>4, <3>1 DEF Owners, Giving
      <3>3. BootTypeOK' /\ Control'
        BY <1>3, <1>4, <1>2, <2>1, <2>4, <3>1, Lists DEF Stage, Giving
      <3> QED BY <1>1, <2>1, <2>3, <2>4, <3>2, <3>3, StageKeeps DEF Giving
    <2>5. CASE stage' = "initProtocolLayer" /\ todo' = <<"report_buff">>
      <3>1. Kept(stage') = Eth \cup Lwip /\ Handled(stage') = {"report_buff"}
        BY <2>5 DEF Kept, Handled, Eth, Lwip, Name
      <3>2. Owners' = Eth \cup Lwip
        BY <1>1, <2>5, <3>1, Lists DEF Owners, Giving
      <3>3. BootTypeOK' /\ Control'
        BY <1>3, <1>4, <1>2, <2>1, <2>2, <2>5, <3>1, Lists DEF Stage, Taking
      <3> QED BY <1>1, <2>1, <2>3, <2>5, <3>2, <3>3, StageKeeps DEF Giving
    <2> QED BY <1>7, <2>1, <2>4, <2>5 DEF PhyWorks, PhyFails
  <1>8. CASE LwipFreed
    <2>1. stage = "lwip_comm_mem_free" /\ todo = <<>> /\ ptr["report_buff"] = None
          /\ stage' = "ETH_Mem_Free" /\ todo' = EthFreed
      BY <1>8 DEF LwipFreed, BootInv, Control
    <2>2. Kept(stage) = Eth /\ Kept(stage') = {} /\ Handled(stage') = Eth
      BY <2>1 DEF Kept, Handled, Eth, Lwip, Name
    <2>3. Owners = Eth /\ Owners' = Eth
      BY <1>2, <2>1, <2>2 DEF Owners, Giving
    <2>4. BootTypeOK' /\ Control'
      BY <1>2, <1>3, <1>4, <2>1, <2>2, Lists DEF Stage, Giving
    <2> QED BY <1>1, <2>1, <2>3, <2>4, StageKeeps DEF Giving
  <1>9. CASE Failure
    <2>1. stage = "ETH_Mem_Free" /\ todo = <<>> /\ ptr["report_buff"] = None
          /\ stage' = "delay_ms" /\ todo' = <<>>
      BY <1>9 DEF Failure, BootInv, Control
    <2>2. Kept(stage) = {} /\ Kept(stage') = {} /\ Handled(stage') = {}
      BY <2>1 DEF Kept, Handled, Eth, Lwip, Name
    <2>3. Owners = {} /\ Owners' = {}
      BY <1>2, <2>1, <2>2 DEF Owners, Giving
    <2>4. BootTypeOK' /\ Control'
      BY <1>2, <1>3, <1>4, <2>1, <2>2, Lists DEF Stage
    <2>5. live = {}
      BY <1>1, <2>3 DEF BootInv, Owned, Storing
    <2> QED BY <1>1, <2>1, <2>3, <2>4, <2>5, StageKeeps
  <1>10. CASE Retry
    <2>1. stage = "delay_ms" /\ ptr["report_buff"] = None
          /\ stage' = "ETH_Mem_Malloc" /\ todo' = EthNames
      BY <1>10 DEF Retry, BootInv, Control
    <2>2. Kept(stage) = {} /\ Kept(stage') = {} /\ Handled(stage) = {} /\ Handled(stage') = Eth
      BY <2>1 DEF Kept, Handled, Eth, Lwip, Name
    <2>3. Owners = {} /\ Owners' = {}
      BY <1>2, <2>1, <2>2 DEF Owners, Giving
    <2>4. BootTypeOK' /\ Control'
      BY <1>2, <1>3, <1>4, <2>1, <2>2, Lists DEF Stage, Taking
    <2> QED BY <1>1, <2>1, <2>3, <2>4, StageKeeps DEF Giving
  <1>11. CASE Started
    <2>1. /\ stage = "initProtocolLayer" /\ todo = <<>> /\ stage' = "main" /\ todo' = <<>>
          /\ \A n \in Kept(stage) \ {"report_buff"} : ptr[n] # None
      BY <1>11 DEF Started, BootInv, Control
    <2>2. /\ Kept(stage) = Eth \cup Lwip /\ Kept(stage') = Eth \cup Lwip \cup {"report_buff"}
          /\ Handled(stage) = {"report_buff"} /\ Handled(stage') = {}
      BY <2>1 DEF Kept, Handled, Eth, Lwip, Name
    <2>3. Owners = Eth \cup Lwip \cup {"report_buff"} /\ Owners' = Eth \cup Lwip \cup {"report_buff"}
      BY <1>1, <1>2, <2>1, <2>2 DEF Owners, Giving
    <2>4. \A n \in Kept(stage') \ {"report_buff"} : ptr[n] # None
      BY <2>1, <2>2 DEF Eth, Lwip
    <2>5. BootTypeOK' /\ Control'
      BY <1>2, <1>3, <1>4, <2>1, <2>2, <2>4, Lists DEF Stage
    <2> QED BY <1>1, <2>1, <2>3, <2>5, StageKeeps DEF Giving
  <1> QED BY <1>5, <1>6, <1>7, <1>8, <1>9, <1>10, <1>11
-----------------------------------------------------------------------------
\* A call of the allocator starts its search.
LEMMA AllocateKeeps ==
    ASSUME PoolInv, BootInv, Allocate
    PROVE  BootInv'
  <1> DEFINE h == Head(todo)
  <1>1. /\ stage \in Taking /\ mode = "idle" /\ cur = "none" /\ todo # <<>>
        /\ cur' = h /\ todo' = Tail(todo)
        /\ UNCHANGED <<size, ptr, stage, memmap, live>>
        /\ Malloc(size[h])
    BY DEF Allocate, Ready, Malloc, Taking
  <1>2. /\ h \in Rest(todo) /\ h \in Name /\ h \in Handled(stage)
        /\ Tail(todo) \in Seq(Name) /\ NoRepeat(Tail(todo))
        /\ Rest(Tail(todo)) = Rest(todo) \ {h} /\ h # "none"
        /\ Rest(todo) \subseteq Handled(stage)
    BY <1>1, NextName DEF BootInv, BootTypeOK, Handled, Name
  <1>3. size[h] # 0
    BY <1>2 DEF BootInv, BootTypeOK
  <1>4. mode' = "search" /\ nmemb' = BlocksFor(size[h])
    BY <1>1, <1>3 DEF Malloc
  <1>5. Owners' = Owners /\ ~Storing /\ ~Storing'
    <2>1. stage \notin Giving
      BY <1>1 DEF Taking, Giving
    <2> QED BY <1>1, <1>2, <1>4, <2>1 DEF Owners, Storing, Handled, Name
  <1>6. BootTypeOK'
    BY <1>1, <1>2 DEF BootInv, BootTypeOK
  <1>7. Control'
    BY <1>1, <1>2, <1>4 DEF BootInv, Control
  <1>8. Owned'
    BY <1>1, <1>4, <1>5 DEF BootInv, Owned, Stored
  <1>9. Piled'
    BY <1>1, <1>4, <1>5 DEF BootInv, Piled, Stored, Covered, In
  <1> QED BY <1>6, <1>7, <1>8, <1>9 DEF BootInv

\* The result is stored.
LEMMA AllocatedKeeps ==
    ASSUME PoolInv, BootInv, Allocated
    PROVE  BootInv'
  <1>1. /\ mode = "idle" /\ cur # "none" /\ cur' = "none"
        /\ ptr' = [ptr EXCEPT ![cur] = result]
        /\ UNCHANGED <<memmap, mode, nmemb, cmemb, offset, i, result, live, size, stage, todo>>
    BY DEF Allocated, poolVars
  <1>2. /\ cur \in Name /\ ptr \in [Name -> -1..(Blocks - 1)] /\ result \in -1..(Blocks - 1)
        /\ stage \in Taking /\ stage \notin Giving
        /\ cur \in Handled(stage) /\ cur \notin Rest(todo)
        /\ "none" \notin Name
    BY <1>1 DEF BootInv, BootTypeOK, Control, PoolInv, PoolTypeOK, Taking, Giving, Name
  <1>3. ptr'[cur] = result /\ \A n \in Name : n # cur => ptr'[n] = ptr[n]
    BY <1>1, <1>2
  <1>4. /\ cur \notin Kept(stage)
        /\ stage # "initProtocolLayer" => cur # "report_buff"
        /\ stage = "initProtocolLayer" => cur = "report_buff"
        /\ \A n \in Handled(stage) : n # "none"
    BY <1>2 DEF Handled, Kept, Eth, Lwip, Taking, Name
  <1>5. Owners \subseteq Name /\ cur \notin Owners /\ Owners' = Owners \cup {cur}
    BY <1>1, <1>2, <1>4 DEF Owners, Kept, Handled
  <1>6. BootTypeOK'
    BY <1>1, <1>2 DEF BootInv, BootTypeOK
  <1>7. Control'
    <2>1. Kept(stage) \subseteq Name
      BY DEF Kept
    <2>2. stage \notin {"initProtocolLayer", "main"} => ptr'["report_buff"] = None
      BY <1>3, <1>4 DEF BootInv, Control, Name
    <2>3. \A n \in Kept(stage) : ptr'[n] = ptr[n]
      BY <1>3, <1>4, <2>1
    <2> QED BY <1>1, <2>2, <2>3 DEF BootInv, Control
  <1>8. ~Storing' /\ mode # "clear" /\ mode' # "clear" /\ mode' # "mark"
    BY <1>1 DEF Storing
  <1>9. \A n \in Owners : ptr'[n] = ptr[n] /\ Stored(n)' = Stored(n)
    BY <1>1, <1>3, <1>5 DEF Stored
  <1>10. /\ result # None => Storing
         /\ \A n \in Name : n = cur => Stored(n)' = Returned
    BY <1>1, <1>3 DEF Stored, Returned, Storing
  <1>11. result # None => \A n \in Owners : ptr[n] # result
    <2> SUFFICES ASSUME result # None, NEW n \in Owners, ptr[n] = result PROVE FALSE
      OBVIOUS
    <2>1. Returned \in live /\ Returned.at = result /\ result + Returned.n <= result
      BY <1>10 DEF BootInv, Owned, Returned
    <2> QED BY <1>2, <2>1, LiveTyped, SMT DEF PoolInv
  <1>12. Owned'
    <2>1. \A n \in Owners' : ptr'[n] # None => Stored(n)' \in live'
      <3>1. \A n \in Owners : ptr'[n] # None => Stored(n)' \in live
        BY <1>9 DEF BootInv, Owned
      <3>2. \A n \in Name : n = cur /\ ptr'[n] # None => Stored(n)' \in live
        BY <1>3, <1>10 DEF BootInv, Owned
      <3> QED BY <1>1, <1>2, <1>5, <3>1, <3>2
    <2>2. \A n, m \in Owners' : n # m /\ ptr'[n] # None => ptr'[n] # ptr'[m]
      BY <1>3, <1>5, <1>9, <1>11 DEF BootInv, Owned
    <2>3. \A r \in live' : \E n \in Owners' : ptr'[n] # None /\ r = Stored(n)'
      <3> SUFFICES ASSUME NEW r \in live
                   PROVE  \E n \in Owners' : ptr'[n] # None /\ r = Stored(n)'
        BY <1>1
      <3>1. CASE Storing /\ r = Returned
        <4>1. ptr'[cur] # None
          BY <1>3, <3>1 DEF Storing
        <4>2. \A n \in Name : n = cur => r = Stored(n)' /\ n \in Owners' /\ ptr'[n] # None
          BY <1>5, <1>10, <3>1, <4>1
        <4> QED BY <1>2, <4>2
      <3>2. CASE \E n \in Owners : ptr[n] # None /\ r = Stored(n)
        BY <1>5, <1>9, <3>2
      <3> QED BY <1>8, <3>1, <3>2 DEF BootInv, Owned
    <2> QED BY <1>8, <2>1, <2>2, <2>3 DEF Owned
  <1>13. Piled'
    <2>1. \A r \in live' : \A b \in Block : b >= r.at => Covered(b, live)'
      BY <1>1, <1>2 DEF BootInv, Piled, Covered, In
    <2>2. "report_buff" \in Owners' /\ ptr'["report_buff"] # None =>
              ptr'["report_buff"] + (Stored("report_buff").n)' <= ptr'["memp_memory"]
      <3>1. CASE cur = "report_buff"
        <4>1. stage = "initProtocolLayer"
          BY <1>4, <3>1
        <4>2. "memp_memory" \in Kept(stage) /\ "memp_memory" # "report_buff"
          BY <4>1 DEF Kept, Lwip, Name
        <4>3. "memp_memory" \in Owners /\ ptr["memp_memory"] # None
          BY <4>1, <4>2 DEF Owners, BootInv, Control
        <4>4. result # None => result + Returned.n <= ptr["memp_memory"]
          BY <1>10, <4>3 DEF BootInv, Owned
        <4>5. ptr'["report_buff"] = result /\ (Stored("report_buff").n)' = Returned.n
          BY <1>2, <1>3, <1>10, <3>1
        <4>6. ptr'["memp_memory"] = ptr["memp_memory"]
          BY <1>9, <4>3
        <4> QED BY <4>4, <4>5, <4>6
      <3>2. CASE cur # "report_buff"
        <4>1. stage # "initProtocolLayer"
          BY <1>4, <3>2
        <4>2. "report_buff" \notin Owners'
          BY <1>2, <1>5, <3>2, <4>1 DEF Owners, Kept, Handled, Eth, Lwip, Taking
        <4> QED BY <4>2
      <3> QED BY <3>1, <3>2
    <2> QED BY <1>2, <1>1, <1>8, <2>1, <2>2 DEF Piled
  <1> QED BY <1>6, <1>7, <1>12, <1>13 DEF BootInv

\* A region is about to be cleared: its pointer no longer counts.
LEMMA ReleaseKeeps ==
    ASSUME PoolInv, BootInv, Release
    PROVE  BootInv'
  <1> DEFINE h == Head(todo)
  <1>1. /\ stage \in Giving /\ mode = "idle" /\ cur = "none" /\ todo # <<>>
        /\ todo' = Tail(todo) /\ UNCHANGED <<size, ptr, stage, cur, memmap, live, result>>
        /\ Free(ptr[h])
    BY DEF Release, Ready, Free, Giving
  <1>2. /\ h \in Rest(todo) /\ h \in Name /\ h \in Handled(stage)
        /\ Tail(todo) \in Seq(Name) /\ NoRepeat(Tail(todo))
        /\ Rest(Tail(todo)) = Rest(todo) \ {h}
        /\ Rest(todo) \subseteq Handled(stage)
    BY <1>1, NextName DEF BootInv, BootTypeOK
  <1>3. h \notin Kept(stage) /\ "report_buff" \notin Owners
    BY <1>1, <1>2 DEF Kept, Handled, Eth, Lwip, Giving, Owners
  <1>4. Owners' = Owners \ {h} /\ h \in Owners
    BY <1>1, <1>2, <1>3 DEF Owners
  <1>5. ~Storing /\ ~Storing'
    BY <1>1 DEF Storing
  <1>6. BootTypeOK'
    BY <1>1, <1>2 DEF BootInv, BootTypeOK
  <1>7. Piled'
    <2>1. mode' # "mark"
      BY <1>1 DEF Free
    <2> QED BY <1>1, <1>3, <1>4, <2>1 DEF Piled
  <1>8. CASE ptr[h] = None
    <2>1. mode' = mode
      BY <1>1, <1>8 DEF Free
    <2>2. Control'
      BY <1>1, <2>1 DEF BootInv, Control
    <2>3. Owned'
      BY <1>1, <1>4, <1>5, <1>8, <2>1 DEF BootInv, Owned, Stored
    <2> QED BY <1>6, <1>7, <2>2, <2>3 DEF BootInv
  <1>9. CASE ptr[h] # None
    <2>1. mode' = "clear" /\ offset' = ptr[h] /\ nmemb' = memmap[ptr[h]]
      BY <1>1, <1>9 DEF Free
    <2>2. Control'
      BY <1>1, <2>1 DEF BootInv, Control
    <2>3. Freed' = Stored(h)
      <3>1. Stored(h) \in live
        BY <1>4, <1>9 DEF BootInv, Owned
      <3>2. In(Stored(h).at, Stored(h)) /\ Stored(h).at \in Block
        BY <3>1, LiveTyped, SMT DEF PoolInv, In, Block
      <3>3. memmap[Stored(h).at] = Stored(h).n
        BY <1>1, <3>1, <3>2 DEF PoolInv, IdleInv, Marks
      <3> QED BY <2>1, <3>3 DEF Freed, Stored
    <2>4. Owned'
      BY <1>1, <1>4, <1>5, <1>9, <2>1, <2>3 DEF BootInv, Owned, Stored
    <2> QED BY <1>6, <1>7, <2>2, <2>4 DEF BootInv
  <1> QED BY <1>8, <1>9

\* The run found is the one below all regions.
LEMMA FoundBelow ==
    ASSUME PoolInv, BootInv, Search, mode' = "mark"
    PROVE  /\ \A r \in live : offset + nmemb <= r.at
           /\ offset + nmemb < Blocks => Covered(offset + nmemb, live)
  <1>1. /\ mode = "search" /\ offset >= 0 /\ Run = nmemb /\ IdleInv /\ SearchInv /\ PoolTypeOK
        /\ Apart
    BY DEF Search, PoolInv
  <1>2. cur # "none" /\ stage \notin Giving
    BY <1>1 DEF BootInv, Control, Taking, Giving
  <1>3. \A r \in live : \A b \in Block : b >= r.at => memmap[b] # 0
    <2> SUFFICES ASSUME NEW r \in live, NEW b \in Block, b >= r.at PROVE memmap[b] # 0
      OBVIOUS
    <2>1. PICK s \in live : In(b, s)
      BY <1>2 DEF BootInv, Piled, Covered
    <2>2. memmap[b] = s.n
      BY <1>1, <2>1 DEF IdleInv, Marks
    <2> QED BY <1>1, <2>2, LiveTyped, SMT
  <1>4. /\ offset \in Block /\ nmemb \in Nat /\ nmemb >= 1 /\ cmemb \in Nat
        /\ memmap[offset] = 0 /\ nmemb = cmemb + 1
    BY <1>1, SMT DEF Run, SearchInv, PoolTypeOK, Block
  <1>5. offset + nmemb - 1 \in Block /\ memmap[offset + nmemb - 1] = 0
    BY <1>1, <1>4, SMT DEF SearchInv, PoolTypeOK, Block
  <1>6. \A r \in live : offset + nmemb <= r.at
    <2> SUFFICES ASSUME NEW r \in live, ~(offset + nmemb <= r.at) PROVE FALSE
      OBVIOUS
    <2>1. offset + nmemb - 1 >= r.at
      BY <1>1, <1>4, LiveTyped, SMT DEF Block
    <2> QED BY <1>3, <1>5, <2>1
  <1>7. ASSUME offset + nmemb < Blocks
        PROVE  Covered(offset + nmemb, live)
    <2>1. offset + nmemb \in Block /\ memmap[offset + nmemb] # 0
      BY <1>1, <1>4, <1>7, SMT DEF SearchInv, Block
    <2> QED BY <1>1, <2>1 DEF IdleInv
  <1> QED BY <1>6, <1>7

\* The loops of the allocator.
LEMMA LoopsKeep ==
    ASSUME PoolInv, BootInv, Loops, UNCHANGED bootVars
    PROVE  BootInv'
  <1>1. UNCHANGED <<size, ptr, stage, todo, cur>> /\ Owners' = Owners
        /\ \A n \in Name : Stored(n)' = Stored(n)
    BY DEF bootVars, Owners, Stored
  <1>2. BootTypeOK'
    BY <1>1 DEF BootInv, BootTypeOK
  <1>3. Owners \subseteq Name /\ "report_buff" \in Name /\ "memp_memory" \in Name
    BY DEF Owners, Kept, Handled, BootInv, BootTypeOK, Name
  <1>4. CASE Search
    <2>1. /\ mode = "search" /\ mode' \in {"search", "mark"}
          /\ UNCHANGED <<memmap, nmemb, live>>
          /\ mode' = "mark" => offset' = offset
      BY <1>4 DEF Search
    <2>2. ~Storing /\ ~Storing'
      BY <2>1 DEF Storing
    <2>3. Control'
      BY <1>1, <2>1 DEF BootInv, Control
    <2>4. Owned'
      BY <1>1, <1>3, <2>1, <2>2 DEF BootInv, Owned
    <2>5. mode' = "mark" => /\ \A r \in live : offset + nmemb <= r.at
                            /\ offset + nmemb < Blocks => Covered(offset + nmemb, live)
      BY <1>4, FoundBelow
    <2>6. Piled'
      BY <1>1, <1>3, <2>1, <2>5 DEF BootInv, Piled, Covered, In
    <2> QED BY <1>2, <2>3, <2>4, <2>6 DEF BootInv
  <1>5. CASE NotFound
    <2>1. /\ mode = "search" /\ mode' = "idle" /\ result' = None
          /\ UNCHANGED <<memmap, nmemb, offset, live>>
      BY <1>5 DEF NotFound, locals
    <2>2. ~Storing /\ ~Storing'
      BY <2>1 DEF Storing
    <2>3. Control' /\ Owned' /\ Piled'
      BY <1>1, <1>3, <2>1, <2>2 DEF BootInv, Control, Owned, Piled, Covered, In
    <2> QED BY <1>2, <2>3 DEF BootInv
  <1>6. CASE Mark \/ Clear
    <2>1. UNCHANGED <<mode, nmemb, offset, result, live>> /\ mode \in {"mark", "clear"}
      BY <1>6 DEF Mark, Clear
    <2>2. ~Storing /\ ~Storing' /\ Freed' = Freed
      BY <2>1 DEF Storing, Freed
    <2>3. Control' /\ Owned' /\ Piled'
      BY <1>1, <1>3, <2>1, <2>2 DEF BootInv, Control, Owned, Piled, Covered, In
    <2> QED BY <1>2, <2>3 DEF BootInv
  <1>7. CASE Marked
    <2>1. /\ mode = "mark" /\ mode' = "idle" /\ result' = offset
          /\ live' = live \cup {Freed} /\ UNCHANGED <<memmap, nmemb, offset>>
      BY <1>7 DEF Marked, locals, Freed
    <2>2. /\ cur # "none" /\ nmemb = BlocksFor(size[cur]) /\ stage \notin Giving
          /\ Returned' = Freed
      BY <1>1, <2>1 DEF BootInv, Control, Taking, Giving, Returned, Freed
    <2>3. /\ \A r \in live : offset + nmemb <= r.at
          /\ offset + nmemb < Blocks => Covered(offset + nmemb, live)
          /\ offset \in Int /\ nmemb \in Int /\ nmemb >= 1 /\ offset >= 0
          /\ PoolTypeOK
      BY <2>1, SMT DEF BootInv, Piled, PoolInv, MarkInv, PoolTypeOK
    <2>4. Control'
      BY <1>1, <2>1 DEF BootInv, Control
    <2>5. ~Storing /\ mode # "clear" /\ mode' # "clear" /\ (Storing' => Returned' = Freed)
      BY <2>1, <2>2 DEF Storing
    <2>6. \A n \in Owners : ptr[n] # None => offset + nmemb <= ptr[n]
      BY <1>3, <2>3 DEF BootInv, Owned, Stored
    <2>7. Storing'
      BY <1>1, <2>1, <2>2, <2>3, SMT DEF Storing, None
    <2>8. Owned'
      <3>1. Freed.n = nmemb /\ Freed \in live'
        BY <2>1 DEF Freed
      <3> QED BY <1>1, <1>3, <2>1, <2>2, <2>5, <2>6, <2>7, <3>1 DEF BootInv, Owned
    <2>9. \A r \in live' : \A b \in Block : b >= r.at => Covered(b, live)'
      <3> SUFFICES ASSUME NEW r \in live', NEW b \in Block, b >= r.at
                   PROVE  Covered(b, live')
        BY DEF Covered, In
      <3>1. \A c \in Int : Covered(c, live) => Covered(c, live')
        BY <2>1 DEF Covered
      <3>2. b \in Int /\ b >= offset /\ b < Blocks
        <4>1. CASE r = Freed
          BY <2>3, <4>1, SMT DEF Freed, Block
        <4>2. CASE r \in live
          <5>1. r.at \in Int /\ offset + nmemb <= r.at
            BY <2>3, <4>2, LiveTyped
          <5> QED BY <2>3, <5>1, SMT DEF Block
        <4> QED BY <2>1, <4>1, <4>2
      <3>3. CASE b < offset + nmemb
        <4>1. Freed \in live' /\ In(b, Freed)
          BY <2>1, <3>2, <3>3 DEF In, Freed
        <4> QED BY <4>1 DEF Covered
      <3>4. CASE ~(b < offset + nmemb)
        <4>1. offset + nmemb < Blocks /\ offset + nmemb <= b
          BY <2>3, <3>2, <3>4, SMT
        <4>2. PICK s \in live : In(offset + nmemb, s)
          BY <2>3, <4>1 DEF Covered
        <4>3. b >= s.at
          BY <2>3, <3>2, <4>1, <4>2, LiveTyped, SMT DEF In
        <4>4. Covered(b, live)
          BY <2>2, <4>2, <4>3 DEF BootInv, Piled
        <4> QED BY <3>1, <3>2, <4>4
      <3> QED BY <3>3, <3>4
    <2>10. Piled'
      BY <1>1, <1>3, <2>1, <2>9 DEF BootInv, Piled
    <2> QED BY <1>2, <2>4, <2>8, <2>10 DEF BootInv
  <1>8. CASE Cleared
    <2>1. /\ mode = "clear" /\ mode' = "idle" /\ live' = {r \in live : r.at # offset}
          /\ UNCHANGED <<memmap, nmemb, offset>>
      BY <1>8 DEF Cleared, locals
    <2>2. stage \in Giving /\ cur = "none"
      <3>1. stage \in Giving
        BY <2>1 DEF BootInv, Control
      <3> QED BY <3>1 DEF BootInv, Control, Taking, Giving
    <2>3. ~Storing /\ ~Storing' /\ Freed.at = offset
      BY <1>1, <2>1, <2>2 DEF Storing, Freed
    <2>4. Control'
      BY <1>1, <2>1 DEF BootInv, Control
    <2>5. Owned'
      BY <1>1, <1>3, <2>1, <2>3 DEF BootInv, Owned, Stored
    <2>6. Piled'
      BY <1>1, <1>3, <2>1, <2>2 DEF BootInv, Piled
    <2> QED BY <1>2, <2>4, <2>5, <2>6 DEF BootInv
  <1> QED BY <1>4, <1>5, <1>6, <1>7, <1>8 DEF Loops

THEOREM BootInvariant == Spec => [](PoolInv /\ BootInv)
  <1>1. Init => PoolInv /\ BootInv
    BY BootInit, InitPool DEF Init
  <1>2. PoolInv /\ BootInv /\ [Next]_allVars => (PoolInv /\ BootInv)'
    <2> SUFFICES ASSUME PoolInv, BootInv, [Next]_allVars PROVE PoolInv' /\ BootInv'
      OBVIOUS
    <2>1. PoolInv'
      BY CallsOfPool, NextPool
    <2>2. ASSUME UNCHANGED allVars PROVE BootInv'
      <3>1. UNCHANGED <<memmap, mode, nmemb, cmemb, offset, i, result, live,
                        size, ptr, stage, todo, cur>>
        BY <2>2 DEF allVars, poolVars, bootVars
      <3>2. Owners' = Owners /\ Storing' = Storing /\ Returned' = Returned /\ Freed' = Freed
        BY <3>1 DEF Owners, Storing, Returned, Freed
      <3>3. BootTypeOK' /\ Control'
        BY <3>1 DEF BootInv, BootTypeOK, Control
      <3>4. Owned' /\ Piled'
        BY <3>1, <3>2 DEF BootInv, Owned, Piled, Stored, Covered, In
      <3> QED BY <3>3, <3>4 DEF BootInv
    <2>3. BootInv'
      BY <2>2, LoopsKeep, AllocateKeeps, AllocatedKeeps, ReleaseKeeps, StagesKeep
         DEF Next, Progress
    <2> QED BY <2>1, <2>3
  <1> QED BY <1>1, <1>2, PTL DEF Spec
-----------------------------------------------------------------------------
\* Whatever fails in an attempt, and whatever sizes and bank the build has,
\* every region the attempt took is back when main() waits for the next one.
THEOREM RetriesAreClean == Spec => []CleanRetry
  <1>1. PoolInv /\ BootInv => CleanRetry
    <2> SUFFICES ASSUME PoolInv, BootInv, stage = "delay_ms"
                 PROVE  memmap = [b \in Block |-> 0]
      BY DEF CleanRetry
    <2>1. Rest(todo) = {} /\ Owners = {} /\ cur = "none"
      BY DEF BootInv, BootTypeOK, Control, Handled, Kept, Owners, Taking, Giving, Eth, Lwip, Name
    <2>2. mode = "idle"
      BY <2>1 DEF BootInv, Control, PoolInv, PoolTypeOK, Giving
    <2>3. live = {}
      BY <2>1, <2>2 DEF BootInv, Owned, Storing
    <2>4. \A b \in Block : memmap[b] = 0
      BY <2>2, <2>3 DEF PoolInv, IdleInv, Covered
    <2> QED BY <2>4 DEF PoolInv, PoolTypeOK
  <1> QED BY <1>1, BootInvariant, PTL

\* When main() enters its loop the pointers of lwIP and of the driver point to
\* regions as large as was asked, and no two pointers into the same one.
THEOREM WholeAtStart == Spec => []WholeWhenUp
  <1>1. PoolInv /\ BootInv => WholeWhenUp
    <2> SUFFICES ASSUME PoolInv, BootInv, stage = "main", NEW n \in Name \ {"report_buff"}
                 PROVE  \E r \in live : /\ r.at = ptr[n] /\ r.n * BlockSize >= size[n]
                                        /\ \A m \in Name \ {n} : ptr[m] \notin Region(r)
      BY DEF WholeWhenUp
    <2>1. Owners = Name /\ Kept(stage) = Name
      BY DEF Owners, Kept, Handled, Giving, Eth, Lwip, Name, BootInv, BootTypeOK
    <2>2. ptr[n] # None /\ Stored(n) \in live
      BY <2>1 DEF BootInv, Control, Owned
    <2>3. Stored(n).n * BlockSize >= size[n]
      BY LargeEnough DEF Stored, BootInv, BootTypeOK
    <2>4. ASSUME NEW m \in Name \ {n} PROVE ptr[m] \notin Region(Stored(n))
      <3>1. PoolTypeOK /\ Apart /\ Stored(n).at \in Int /\ Stored(n).at >= 0 /\ Stored(n).n \in Int
        BY <2>2, LiveTyped DEF PoolInv
      <3>2. CASE ptr[m] = None
        BY <3>1, <3>2, SMT DEF Region, None
      <3>3. CASE ptr[m] # None
        <4>1. Stored(m) \in live /\ Stored(m) # Stored(n) /\ Stored(m).at = ptr[m]
          BY <2>1, <2>2, <2>4, <3>3 DEF BootInv, Owned, Stored
        <4>2. \/ Stored(m).at + Stored(m).n <= Stored(n).at
              \/ Stored(n).at + Stored(n).n <= Stored(m).at
          BY <2>2, <3>1, <4>1 DEF Apart
        <4>3. Stored(m).at \in Int /\ Stored(m).n \in Int /\ Stored(m).n >= 1
          BY <3>1, <4>1, LiveTyped
        <4> QED BY <3>1, <4>1, <4>2, <4>3, SMT DEF Region
      <3> QED BY <3>2, <3>3
    <2> QED BY <2>2, <2>3, <2>4 DEF Stored
  <1> QED BY <1>1, BootInvariant, PTL

\* report_buff lies below memp_memory, whatever the sizes and however many
\* attempts failed: lwIP never writes a header in front of a report.
THEOREM ReportLiesBelow == Spec => []ReportBelowPools
  <1>1. PoolInv /\ BootInv => ReportBelowPools
    <2> SUFFICES ASSUME PoolInv, BootInv, stage = "main", ptr["report_buff"] # None,
                        NEW r \in live, r.at = ptr["report_buff"]
                 PROVE  r.at + r.n <= ptr["memp_memory"]
      BY DEF ReportBelowPools
    <2>1. "report_buff" \in Owners
      BY DEF Owners, Kept, Name
    <2>2. Stored("report_buff") \in live /\ Stored("report_buff").at = r.at
          /\ r.at + Stored("report_buff").n <= ptr["memp_memory"]
      BY <2>1 DEF BootInv, Owned, Piled, Stored
    <2>3. Stored("report_buff") = r
      <3> DEFINE s == Stored("report_buff")
      <3> HIDE DEF s
      <3>1. /\ r.at \in Int /\ r.n \in Int /\ r.n >= 1 /\ s.n \in Int /\ s.n >= 1
            /\ s.at = r.at
        BY <2>2, LiveTyped DEF PoolInv, s
      <3>2. s # r => r.at + r.n <= s.at \/ s.at + s.n <= r.at
        BY <2>2 DEF PoolInv, Apart, s
      <3> QED BY <3>1, <3>2, SMT DEF s
    <2> QED BY <2>2, <2>3
  <1> QED BY <1>1, BootInvariant, PTL
=============================================================================
