-------------------------------- MODULE Boot --------------------------------
(***************************************************************************)
(* The start of USER/main.c as far as it takes memory: lwip_comm_init is   *)
(* tried until it succeeds, each attempt allocates six regions from the    *)
(* pool and gives them back when it fails, and initProtocolLayer allocates *)
(* the buffer of the reports.  Every allocation and free is a call of the  *)
(* allocator of module Pool; only main() makes them.                       *)
(***************************************************************************)
EXTENDS Pool, Sequences
LOCAL INSTANCE FiniteSetsExt

CONSTANT SizeChoices    \* the sizes in bytes the regions may have

Name == {"DMARxDscrTab", "DMATxDscrTab", "Rx_Buff", "Tx_Buff",
         "memp_memory", "ram_heap", "report_buff"}
ASSUME ChoicesAssumption == SizeChoices \subseteq [Name -> Sizes \ {0}]

VARIABLES size,         \* the sizes of this build
          ptr,          \* the pointer variables, in blocks from the base
          stage,        \* the function main() is in
          todo,         \* the pointers it has yet to allocate or free
          cur           \* the pointer that receives the pending result

bootVars == <<size, ptr, stage, todo, cur>>
allVars == <<poolVars, bootVars>>

\* What ETH_Mem_Malloc allocates, and lwip_comm_mem_malloc, in this order.
EthNames == <<"DMARxDscrTab", "DMATxDscrTab", "Rx_Buff", "Tx_Buff">>
LwipNames == <<"memp_memory", "ram_heap">>

\* Mutant: ETH_Mem_Free leaves a pointer out.
EthFreedMissing == <<"DMARxDscrTab", "DMATxDscrTab", "Rx_Buff">>

\* What ETH_Mem_Free frees, in this order; lwip_comm_mem_free: LwipNames.
EthFreed == <<"DMARxDscrTab", "DMATxDscrTab", "Rx_Buff", "Tx_Buff">>

\* Mutant: main() calls initProtocolLayer before lwip_comm_init.
InitReportFirst == /\ PoolInit
                   /\ size \in SizeChoices
                   /\ ptr = [n \in Name |-> None]
                   /\ stage = "ETH_Mem_Malloc" /\ todo = <<"report_buff">> \o EthNames
                   /\ cur = "none"

Init == /\ PoolInit
        /\ size \in SizeChoices
        /\ ptr = [n \in Name |-> None]
        /\ stage = "ETH_Mem_Malloc" /\ todo = EthNames /\ cur = "none"
-----------------------------------------------------------------------------
Ready(s) == stage = s /\ mode = "idle" /\ cur = "none"
Goto(s, names) == stage' = s /\ todo' = names

\* mymalloc is called for the next pointer, and returns.
Allocate == /\ stage \in {"ETH_Mem_Malloc", "lwip_comm_mem_malloc", "initProtocolLayer"}
            /\ Ready(stage) /\ todo # <<>>
            /\ Malloc(size[Head(todo)])
            /\ cur' = Head(todo) /\ todo' = Tail(todo)
            /\ UNCHANGED <<size, ptr, stage>>
Allocated == /\ mode = "idle" /\ cur # "none"
             /\ ptr' = [ptr EXCEPT ![cur] = result]
             /\ cur' = "none"
             /\ UNCHANGED <<poolVars, size, stage, todo>>

\* myfree is called for the next pointer; the pointer keeps its value.
Release == /\ stage \in {"lwip_comm_mem_free", "ETH_Mem_Free"}
           /\ Ready(stage) /\ todo # <<>>
           /\ Free(ptr[Head(todo)])
           /\ todo' = Tail(todo)
           /\ UNCHANGED <<size, ptr, stage, cur>>

\* Mutant: the check of the pointers uses && for ||.
FailedAll(names) == \A k \in DOMAIN names : ptr[names[k]] = None

Failed(names) == \E k \in DOMAIN names : ptr[names[k]] = None

\* All regions were tried; if one is missing all are given back.
EthChecked == /\ Ready("ETH_Mem_Malloc") /\ todo = <<>>
              /\ \/ Failed(EthNames) /\ Goto("ETH_Mem_Free", EthFreed)
                 \/ ~Failed(EthNames) /\ Goto("lwip_comm_mem_malloc", LwipNames)
              /\ UNCHANGED <<poolVars, size, ptr, cur>>
LwipChecked == /\ Ready("lwip_comm_mem_malloc") /\ todo = <<>>
               /\ \/ Failed(LwipNames) /\ Goto("lwip_comm_mem_free", LwipNames)
                  \/ ~Failed(LwipNames) /\ Goto("LAN8720_Init", <<>>)
               /\ UNCHANGED <<poolVars, size, ptr, cur>>

\* The PHY does not answer, or finds no link in time.
PhyFails == /\ Ready("LAN8720_Init")
            /\ Goto("lwip_comm_mem_free", LwipNames)
            /\ UNCHANGED <<poolVars, size, ptr, cur>>
\* initProtocolLayer allocates the report unless there is one.
PhyWorks == /\ Ready("LAN8720_Init")
            /\ Goto("initProtocolLayer",
                    IF ptr["report_buff"] = None THEN <<"report_buff">> ELSE <<>>)
            /\ UNCHANGED <<poolVars, size, ptr, cur>>

LwipFreed == /\ Ready("lwip_comm_mem_free") /\ todo = <<>>
             /\ Goto("ETH_Mem_Free", EthFreed)
             /\ UNCHANGED <<poolVars, size, ptr, cur>>

\* lwip_comm_init returns an error; main() waits and calls it again.
Failure == /\ Ready("ETH_Mem_Free") /\ todo = <<>>
           /\ Goto("delay_ms", <<>>)
           /\ UNCHANGED <<poolVars, size, ptr, cur>>
Retry == /\ Ready("delay_ms")
         /\ Goto("ETH_Mem_Malloc", EthNames)
         /\ UNCHANGED <<poolVars, size, ptr, cur>>

\* The main loop takes no memory from the pool.
Started == /\ Ready("initProtocolLayer") /\ todo = <<>>
           /\ Goto("main", <<>>)
           /\ UNCHANGED <<poolVars, size, ptr, cur>>
-----------------------------------------------------------------------------
Progress == \/ Loops /\ UNCHANGED bootVars
            \/ Allocate \/ Allocated \/ Release \/ EthChecked \/ LwipChecked
            \/ PhyWorks \/ LwipFreed \/ Failure \/ Retry \/ Started
Next == Progress \/ PhyFails

Spec == Init /\ [][Next]_allVars
FairSpec == Spec /\ WF_allVars(Progress)
-----------------------------------------------------------------------------
\* Every failed attempt gives back all it took, whatever failed in it.
CleanRetry == stage = "delay_ms" => memmap = [b \in Block |-> 0]

\* In the main loop the six regions of lwIP and of the driver are there, each
\* as large as was asked, and no two of the pointers share a block.
WholeWhenUp ==
    stage = "main" =>
        \A n \in Name \ {"report_buff"} :
            \E r \in live : /\ r.at = ptr[n] /\ r.n * BlockSize >= size[n]
                            /\ \A m \in Name \ {n} : ptr[m] \notin Region(r)

\* sendUdpDatagram points a pool pbuf at report_buff and lwIP then asks for
\* room for headers.  pbuf_header refuses, and lwIP chains a header instead of
\* writing in front of the report, because the payload lies below the pbuf:
\* report_buff is below memp_memory, however often the start was retried.
ReportBelowPools ==
    stage = "main" /\ ptr["report_buff"] # None =>
        \A r \in live : r.at = ptr["report_buff"] => r.at + r.n <= ptr["memp_memory"]

\* If all six fit the bank, the board is up once the PHY stops failing, however
\* many attempts failed before.
ComesUp ==
    LET Needed(n) == BlocksFor(size[n])
    IN  /\ MapThenSumSet(Needed, Name \ {"report_buff"}) <= Blocks
        /\ <>[][~PhyFails]_allVars
        => <>(stage = "main")
=============================================================================
