------------------------------ MODULE UartFsmc ------------------------------
(***************************************************************************)
(* What the UARTs behind the FSMC receive (HARDWARE/uart_fsmc.c) and how   *)
(* it is reported (USER/protocol_layer.c): main() reads a UART's count,    *)
(* then that many bytes into report_buff, and sends the report; a command  *)
(* in the ETH interrupt may reset the UARTs between any two reads.  The    *)
(* timing of the reads is in Fsmc.                                         *)
(***************************************************************************)
EXTENDS Integers, Sequences, SequencesExt

CONSTANTS Uarts,        \* UART_FSMC_NUM
          Depth,        \* bytes the FPGA keeps for a UART
          MaxData,      \* MAX_UART_DATA_SIZE
          Ids,          \* received bytes are numbered 0 .. Ids - 1 in turn
          Junk          \* what a read of an empty UART returns

\* Counts are bytes.
ASSUME UartAssumption == /\ Uarts \in Nat \ {0} /\ Depth \in 0..255 /\ MaxData \in 1..255
                         /\ Ids \in Nat /\ Ids > Depth /\ Junk \in Nat /\ Junk >= Ids

Channel == 0..(Uarts - 1)

VARIABLES fifo,         \* for each UART the bytes received and not yet read
          arriving,     \* for each UART the number of the next byte
          polling,      \* main() is in checkUartFsmc
          chl, pre_size, i,     \* its locals
          report_buff,
          datagram,     \* what this checkUartFsmc gave to udp_send
          expected,     \* history: for each UART the next byte to report
          erased        \* history: a reset fell into this poll
uartVars == <<fifo, arriving, polling, chl, pre_size, i, report_buff, datagram,
              expected, erased>>

\* report_buff: two bytes 0xaa, DEV_COM_UART_REPORT from byte 2, the check sum.
LenAt == 2
CodeAt == 4
ChlAt == 6
NumAt == 7
DataAt == 8
SizeofReport == 6 + MaxData
Len16(buff) == buff[LenAt] + 256 * buff[LenAt + 1]
WithLen(buff, n) == [buff EXCEPT ![LenAt] = n % 256, ![LenAt + 1] = n \div 256]

\* initProtocolLayer.
Prepared == [k \in 0..(SizeofReport + 2) |->
                CASE k \in {0, 1} -> 170 [] k = CodeAt -> 177 [] OTHER -> 0]

UartInit == /\ fifo = [u \in Channel |-> <<>>]
            /\ arriving = [u \in Channel |-> 0]
            /\ polling = FALSE /\ chl = 0 /\ pre_size = 0 /\ i = 0
            /\ report_buff = WithLen(Prepared, SizeofReport + 1)
            /\ datagram = <<>>
            /\ expected = [u \in Channel |-> 0] /\ erased = FALSE
-----------------------------------------------------------------------------
After(id, n) == (id + n) % Ids

\* A byte comes in; the FPGA drops what it has no room for.
Receive(u) == /\ Len(fifo[u]) < Depth
              /\ fifo' = [fifo EXCEPT ![u] = Append(@, arriving[u])]
              /\ arriving' = [arriving EXCEPT ![u] = After(@, 1)]
              /\ UNCHANGED <<polling, chl, pre_size, i, report_buff, datagram,
                             expected, erased>>

\* resetUartFsmc in the ETH interrupt: what the UARTs hold is gone.
Reset == /\ fifo' = [u \in Channel |-> <<>>]
         /\ erased' = polling
         /\ expected' = [u \in Channel |-> IF polling /\ u = chl THEN expected[u]
                                           ELSE arriving[u]]
         /\ UNCHANGED <<arriving, polling, chl, pre_size, i, report_buff, datagram>>

\* checkUartFsmc and receiveDataUartFsmc, up to the read of the count.
StartPoll(u) == /\ ~polling /\ polling' = TRUE /\ chl' = u
                /\ report_buff' = [report_buff EXCEPT ![ChlAt] = u]
                /\ pre_size' = Len(fifo[u]) /\ i' = 0 /\ erased' = FALSE
                /\ datagram' = <<>>
                /\ UNCHANGED <<fifo, arriving, expected>>

\* Mutant: one byte more than there was.
MoreLate == i < MaxData /\ i <= pre_size
More == i < MaxData /\ i < pre_size

ReadByte == /\ polling /\ More
            /\ report_buff' = [report_buff EXCEPT ![DataAt + i] =
                                 IF fifo[chl] = <<>> THEN Junk ELSE Head(fifo[chl])]
            /\ fifo' = [fifo EXCEPT ![chl] = IF @ = <<>> THEN @ ELSE Tail(@)]
            /\ i' = i + 1
            /\ UNCHANGED <<arriving, polling, chl, pre_size, datagram, expected, erased>>

\* Back in onWorkTick; the locals mean nothing there.
Return == /\ polling /\ ~More
          /\ polling' = FALSE /\ pre_size' = 0 /\ i' = 0 /\ erased' = FALSE
          /\ expected' = [expected EXCEPT ![chl] = After(arriving[chl], Ids - Len(fifo[chl]))]
          /\ UNCHANGED <<fifo, arriving, chl>>

NoData == i = 0 /\ Return /\ UNCHANGED <<report_buff, datagram>>

SumOf(buff, first, last) ==
    FoldLeft(+, 0, [k \in 1..(last - first + 1) |-> buff[first + k - 1]])

\* Mutant: the sum goes on over the byte it is stored in.
SummedFar(buff) == SumOf(buff, LenAt, Len16(buff) + 1)
Summed(buff) == SumOf(buff, LenAt, Len16(buff))

Filled == LET sized == WithLen([report_buff EXCEPT ![NumAt] = i],
                               SizeofReport + 1 - (MaxData - i))
          IN [sized EXCEPT ![Len16(sized) + 1] = (256 - (Summed(sized) % 256)) % 256]

\* checkUartFsmc, lines 50 to 58, and sendUdpDatagram: without a pbuf the bytes
\* are lost.
Report == /\ i > 0 /\ Return
          /\ report_buff' = Filled
          /\ datagram' \in {<<>>, [k \in 1..(Len16(report_buff') + 2) |-> report_buff'[k - 1]]}
-----------------------------------------------------------------------------
UartNext == \/ Reset \/ ReadByte \/ NoData \/ Report
            \/ \E u \in Channel : Receive(u) \/ StartPoll(u)

UartSpec == UartInit /\ [][UartNext]_uartVars
-----------------------------------------------------------------------------
Stream(id, n) == [k \in 1..n |-> After(id, k - 1)]
InHand(u) == IF polling /\ u = chl THEN [k \in 1..i |-> report_buff[DataAt + k - 1]]
             ELSE <<>>

\* The bytes of a UART are reported in the order of their arrival, each once
\* and none invented, unless a reset falls between the read of the count and
\* the last byte (uart_fsmc.c:102): what the poll has in hand and what the
\* UART still holds are the bytes that follow those reported before.
BytesInOrder ==
    \A u \in Channel :
       ~(erased /\ u = chl) => LET held == InHand(u) \o fifo[u]
                               IN held = Stream(expected[u], Len(held))

\* What a peer expects of a message (protocol.h:9 to :12): its length counts
\* head, content and check sum, the sum of all of them is 0, num counts the
\* data - though report_buff still holds longer reports sent before.
WellFormed(bytes) ==
    LET byte == [k \in 0..(Len(bytes) - 1) |-> bytes[k + 1]]
    IN /\ byte[0] = 170 /\ byte[1] = 170
       /\ Len16(byte) = Len(bytes) - 2
       /\ byte[CodeAt] + 256 * byte[CodeAt + 1] = 177
       /\ byte[ChlAt] \in Channel /\ byte[NumAt] = Len16(byte) - 7 /\ byte[NumAt] > 0
       /\ SumOf(byte, LenAt, Len(bytes) - 1) % 256 = 0
ReportWellFormed == datagram # <<>> => WellFormed(datagram)
=============================================================================
