--------------------------- MODULE MCUdpInterface ---------------------------
(***************************************************************************)
(* The parser behind the receive callback: the pieces of MCUnpacking, each *)
(* a datagram of one pbuf; datagrams in several pbufs, as those longer     *)
(* than a pool buffer are; datagrams that fill udp_recvbuf.                *)
(***************************************************************************)
EXTENDS UdpInterface, MCUnpacking

NoData == {}

Single == {<<piece>> : piece \in Pieces \cup {<<>>}}
\* Several pbufs, all of which fit the buffer with room left.
Chained == {<<ResetFrame, SendFrame>>,
            <<SubSeq(SendFrame, 1, 5), SubSeq(SendFrame, 6, 11)>>}
\* Several pbufs, or one, that fill the buffer or are longer.
Full == {<<SendFrame, SendFrame, ResetFrame>>, <<SendFrame, SubSeq(SendFrame, 1, 9)>>,
         <<SendFrame \o SubSeq(SendFrame, 1, 9)>>, <<SendFrame \o SendFrame>>}
AnyChain == Single \cup Chained \cup Full
=============================================================================
