---------------------------- MODULE UdpInterface ----------------------------
(***************************************************************************)
(* The receive callback of HARDWARE/udp_interface.c on top of the parser:  *)
(* lwIP hands a datagram over as a chain of pbufs; udp_demo_recv gathers   *)
(* them in udp_recvbuf and calls the handler (onRecvData) inside the loop  *)
(* over the chain.  All of it runs in the ETH interrupt.                   *)
(***************************************************************************)
EXTENDS Unpacking, SequencesExt

CONSTANTS RxSize,       \* UDP_RX_BUFSIZE
          Datagrams,    \* the chains that may arrive: sequences of payloads
          MaxBytes      \* bound on the bytes of all datagrams

ASSUME RxAssumption == /\ RxSize \in Nat \ {0} /\ MaxBytes \in Nat
                       /\ Datagrams \subseteq Seq(Seq(Byte))

VARIABLES chain,        \* the pbufs from q on
          udp_recvbuf, data_len,
          current,      \* history: the bytes of the datagram at hand
          received,     \* history: the bytes of all datagrams, each once
          plain         \* history: every datagram so far was one pbuf,
                        \* shorter than the buffer

udpVars == <<chain, udp_recvbuf, data_len, current, received, plain>>
allVars == <<vars, udpVars>>

UdpInit == /\ Init
           /\ chain = <<>> /\ data_len = 0 /\ current = <<>> /\ received = <<>>
           /\ plain = TRUE
           /\ udp_recvbuf = [i \in 0..(RxSize - 1) |-> 0]

\* Mutant: data_len is not cleared on entry.
ArriveUncleared(pbufs) == /\ chain = <<>> /\ input = <<>> /\ ~overrun
                          /\ ncalls + Len(pbufs) <= MaxCalls
                          /\ chain' = pbufs
                          /\ current' = FlattenSeq(pbufs)
                          /\ received' = received \o current'
                          /\ Len(received') <= MaxBytes
                          /\ plain' = (plain /\ Len(pbufs) = 1 /\ Len(current') < RxSize)
                          /\ UNCHANGED <<vars, udp_recvbuf, data_len>>

\* lwIP calls udp_demo_recv.  The calls and the bytes are bounded.
Arrive(pbufs) == /\ chain = <<>> /\ input = <<>> /\ ~overrun
                 /\ ncalls + Len(pbufs) <= MaxCalls
                 /\ chain' = pbufs /\ data_len' = 0
                 /\ current' = FlattenSeq(pbufs)
                 /\ received' = received \o current'
                 /\ Len(received') <= MaxBytes
                 /\ plain' = (plain /\ Len(pbufs) = 1 /\ Len(current') < RxSize)
                 /\ UNCHANGED <<vars, udp_recvbuf>>

\* As much of the payload of q as the buffer still holds.
Fitting == LET room == RxSize - data_len
           IN  IF Len(Head(chain)) > room THEN room ELSE Len(Head(chain))
Gathered == [i \in 0..(RxSize - 1) |->
                IF i \in data_len..(data_len + Fitting - 1)
                THEN Head(chain)[i - data_len + 1] ELSE udp_recvbuf[i]]

\* Mutant: the handler is given one byte more than was gathered.
VisitOneMore == /\ chain # <<>> /\ input = <<>>
                /\ udp_recvbuf' = Gathered
                /\ data_len' = data_len + Fitting
                /\ data_len' < RxSize
                /\ OnRecvData([i \in 1..(data_len' + 1) |-> udp_recvbuf'[i - 1]])
                /\ chain' = Tail(chain)
                /\ UNCHANGED <<current, received, plain>>

\* One turn of the loop over the chain: copy, then call the handler on
\* everything gathered so far.
Visit == /\ chain # <<>> /\ input = <<>>
         /\ udp_recvbuf' = Gathered
         /\ data_len' = data_len + Fitting
         /\ data_len' < RxSize
         /\ OnRecvData([i \in 1..data_len' |-> udp_recvbuf'[i - 1]])
         /\ chain' = Tail(chain)
         /\ UNCHANGED <<current, received, plain>>

\* The buffer is full: leave the loop without calling the handler.
BufferFull == /\ chain # <<>> /\ input = <<>> /\ ~overrun
              /\ udp_recvbuf' = Gathered
              /\ data_len' = data_len + Fitting
              /\ data_len' >= RxSize
              /\ chain' = <<>>
              /\ UNCHANGED <<vars, current, received, plain>>

UdpNext == \/ Unpack /\ UNCHANGED udpVars
           \/ \E pbufs \in Datagrams : Arrive(pbufs)
           \/ Visit
           \/ BufferFull

UdpSpec == UdpInit /\ [][UdpNext]_allVars
-----------------------------------------------------------------------------
Idle == chain = <<>> /\ input = <<>> /\ ~overrun

\* Between datagrams the parser has read every byte that arrived exactly
\* once, in order: nothing is fed to it again and nothing is skipped.
EachByteOnce == Idle => seen = received

\* The same as long as every datagram came in one pbuf and left room in the
\* buffer: how messages are cut over datagrams makes no difference.
PlainOnce == plain => EachByteOnce

\* Whatever the chain, the handler is only ever shown a prefix of the datagram
\* at hand: no byte an earlier datagram left in udp_recvbuf.
OnlyThisDatagram ==
    input # <<>> => /\ data_len <= Len(current)
                    /\ input = SubSeq(current, data_len - Len(input) + 1, data_len)
=============================================================================
