-------------------------------- MODULE Pool --------------------------------
(***************************************************************************)
(* The block allocator of SYSTEM/malloc.c on one memory bank.  mymem_malloc*)
(* searches for enough consecutive free blocks from the top of the bank    *)
(* and writes the size of the region into the map at each of its blocks;   *)
(* mymem_free clears as many blocks as the map says.  One action is one    *)
(* turn of a loop.  Offsets are in blocks, sizes in bytes.                 *)
(***************************************************************************)
EXTENDS Integers

CONSTANTS Blocks,       \* memtblsize: MEM1_MAX_SIZE/MEM1_BLOCK_SIZE
          BlockSize,    \* memblksize: 32
          U16,          \* 2^16: the map and the counts are u16
          Sizes         \* the sizes callers ask for

Block == 0..(Blocks - 1)
None == -1              \* 0XFFFFFFFF, and the NULL mymalloc makes of it

ASSUME BlocksAssumption == Blocks \in Nat \ {0}
ASSUME BlockSizeAssumption == BlockSize \in Nat \ {0}
ASSUME WidthAssumption == U16 \in Nat /\ U16 > Blocks
\* No caller asks for 2^16 blocks, which the u16 count would take for none.
ASSUME SizesAssumption ==
    Sizes \subseteq Nat /\ \A s \in Sizes : s \div BlockSize < U16 - 1

VARIABLES memmap,
          mode,         \* "idle", or the loop being executed: "search",
                        \* "mark" or "clear"
          nmemb, cmemb, offset, i,  \* the locals of the call
          result,       \* what the last mymem_malloc returned
          live          \* history: the regions handed out and not freed

locals == <<nmemb, cmemb, offset, i>>
poolVars == <<memmap, mode, nmemb, cmemb, offset, i, result, live>>

PoolInit == /\ memmap = [b \in Block |-> 0]
            /\ mode = "idle"
            /\ nmemb = 0 /\ cmemb = 0 /\ offset = 0 /\ i = 0
            /\ result = None /\ live = {}
-----------------------------------------------------------------------------
\* nmemb as mymem_malloc computes it.
BlocksFor(size) ==
    (size \div BlockSize + (IF size % BlockSize # 0 THEN 1 ELSE 0)) % U16

\* mymem_malloc is called.  A size of 0 fails at once.
Malloc(size) == /\ mode = "idle"
                /\ \/ /\ size = 0
                      /\ result' = None
                      /\ UNCHANGED <<mode, locals>>
                   \/ /\ size # 0
                      /\ nmemb' = BlocksFor(size)
                      /\ cmemb' = 0 /\ offset' = Blocks - 1 /\ i' = 0
                      /\ mode' = "search"
                      /\ UNCHANGED result
                /\ UNCHANGED <<memmap, live>>

\* Mutant: a used block does not break the run of free ones.
RunOverUsed == IF memmap[offset] = 0 THEN cmemb + 1 ELSE cmemb

\* The free blocks in a row that end with this one.
Run == IF memmap[offset] = 0 THEN cmemb + 1 ELSE 0

\* Line 97 onwards: one block of the search.
Search == /\ mode = "search" /\ offset >= 0
          /\ cmemb' = Run
          /\ \/ cmemb' = nmemb /\ mode' = "mark" /\ UNCHANGED offset
             \/ cmemb' # nmemb /\ offset' = offset - 1 /\ UNCHANGED mode
          /\ UNCHANGED <<memmap, nmemb, i, result, live>>

\* Line 110: no run of free blocks is long enough.
NotFound == /\ mode = "search" /\ offset < 0
            /\ result' = None
            /\ mode' = "idle"
            /\ UNCHANGED <<memmap, locals, live>>

\* Lines 103 to 107.
Mark == /\ mode = "mark" /\ i < nmemb
        /\ memmap' = [memmap EXCEPT ![offset + i] = nmemb]
        /\ i' = i + 1
        /\ UNCHANGED <<mode, nmemb, cmemb, offset, result, live>>
Marked == /\ mode = "mark" /\ ~(i < nmemb)
          /\ result' = offset
          /\ live' = live \cup {[at |-> offset, n |-> nmemb]}
          /\ mode' = "idle"
          /\ UNCHANGED <<memmap, locals>>

\* myfree is called with the address of a region; NULL returns at once.
Free(at) == /\ mode = "idle"
            /\ \/ at = None /\ UNCHANGED <<mode, locals>>
               \/ /\ at # None
                  /\ offset' = at /\ nmemb' = memmap[at] /\ i' = 0
                  /\ mode' = "clear"
                  /\ UNCHANGED cmemb
            /\ UNCHANGED <<memmap, result, live>>

\* Mutant: the last block of the region is not cleared.
ClearedEarly == /\ mode = "clear" /\ ~(i + 1 < nmemb)
                /\ live' = {r \in live : r.at # offset}
                /\ mode' = "idle"
                /\ UNCHANGED <<memmap, locals, result>>

\* Lines 129 to 133.
Clear == /\ mode = "clear" /\ i < nmemb
         /\ memmap' = [memmap EXCEPT ![offset + i] = 0]
         /\ i' = i + 1
         /\ UNCHANGED <<mode, nmemb, cmemb, offset, result, live>>
Cleared == /\ mode = "clear" /\ ~(i < nmemb)
           /\ live' = {r \in live : r.at # offset}
           /\ mode' = "idle"
           /\ UNCHANGED <<memmap, locals, result>>
-----------------------------------------------------------------------------
Loops == Search \/ NotFound \/ Mark \/ Marked \/ Clear \/ Cleared

\* Callers that free what they were given, once.
PoolNext == \/ Loops
            \/ \E size \in Sizes : Malloc(size)
            \/ \E r \in live : Free(r.at)

PoolSpec == PoolInit /\ [][PoolNext]_poolVars
-----------------------------------------------------------------------------
Region(r) == r.at..(r.at + r.n - 1)

PoolTypeOK ==
    /\ memmap \in [Block -> 0..(U16 - 1)]
    /\ mode \in {"idle", "search", "mark", "clear"}
    /\ nmemb \in 0..(U16 - 1) /\ cmemb \in 0..Blocks
    /\ offset \in -1..(Blocks - 1)
    /\ i \in 0..Blocks
    /\ result \in -1..(Blocks - 1)
    /\ live \subseteq [at : Block, n : 1..Blocks]

\* However allocations and frees follow each other, no block belongs to two
\* regions, and every region lies in the bank.
Disjoint == /\ \A r \in live : Region(r) \subseteq Block
            /\ \A r, s \in live : r # s => Region(r) \cap Region(s) = {}

\* Between calls the map says of each block what mymem_free will need: the
\* size of the region it is in, or 0 if it is in none: nothing leaks.
MapExact == mode = "idle" =>
    /\ \A r \in live : \A b \in Region(r) : memmap[b] = r.n
    /\ \A b \in Block : memmap[b] # 0 => \E r \in live : b \in Region(r)

FreeFrom(b, n) == b + n <= Blocks /\ \A k \in b..(b + n - 1) : memmap[k] = 0

\* mymem_malloc fails only if no gap is large enough, and otherwise takes
\* the highest place that is free.
HighestFit ==
    /\ mode = "search" /\ offset < 0 => \A b \in Block : ~FreeFrom(b, nmemb)
    /\ mode = "mark" /\ i = 0 => /\ FreeFrom(offset, nmemb)
                                 /\ \A b \in Block : b > offset => ~FreeFrom(b, nmemb)

=============================================================================
