----------------------------- MODULE Unpacking -----------------------------
(***************************************************************************)
(* The byte-stream parser of USER/protocol_layer.c: unpacking() finds the  *)
(* frames 0xaa 0xaa len code content cs in the data the UDP callback hands *)
(* over, keeps its state between calls, and handleProtocol() executes the  *)
(* commands.  The bytes of one call are processed in the ETH interrupt,    *)
(* which nothing that touches this state can interrupt: one action is one  *)
(* turn of the loop of unpacking().                                        *)
(***************************************************************************)
EXTENDS Integers, Sequences, Functions

CONSTANTS BufSize,      \* the size of udp_buff: 1024
          U32,          \* 2^32, the modulus of u32 arithmetic
          Data,         \* the byte strings a call of onRecvData may bring
          MaxCalls      \* bound on the calls of onRecvData

HeadByte == 170         \* 0xaa
CodeUart == 161         \* 0xA1
CodeReset == 162        \* 0xA2
Byte == {b \in Nat : b < 256}

HeadSize == 4           \* sizeof(MESSAGE_HEAD)

ASSUME BufAssumption == BufSize \in Nat /\ BufSize > 6 /\ BufSize < 65536
ASSUME WidthAssumption == U32 \in Nat /\ U32 > 65536
ASSUME DataAssumption == Data \subseteq Seq(Byte) /\ MaxCalls \in Nat

VARIABLES udp_buff, step, udp_len, index_buff,
          input,        \* ptr[i..size-1]: what the call has not yet read
          overrun,      \* a byte was written past the end of udp_buff
          handled,      \* the messages given to handleProtocol and the calls
                        \* it made for each, oldest first
          seen,         \* history: every byte read so far
          ncalls        \* the number of calls so far

parser == <<udp_buff, step, udp_len, index_buff>>
vars == <<udp_buff, step, udp_len, index_buff, input, overrun, handled, seen,
          ncalls>>

Init == /\ udp_buff = [i \in 0..(BufSize - 1) |-> 0]
        /\ step = 0 /\ udp_len = 0 /\ index_buff = 0
        /\ input = <<>> /\ overrun = FALSE
        /\ handled = <<>> /\ seen = <<>> /\ ncalls = 0
-----------------------------------------------------------------------------
\* The UDP callback calls onRecvData, which calls unpacking.
OnRecvData(data) == /\ input = <<>> /\ ~overrun
                    /\ ncalls < MaxCalls /\ ncalls' = ncalls + 1
                    /\ input' = data
                    /\ UNCHANGED <<parser, overrun, handled, seen>>

\* ch = ptr[i]; i++.
NextByte == /\ input # <<>> /\ ~overrun
            /\ input' = Tail(input)
            /\ seen' = Append(seen, Head(input))
            /\ UNCHANGED ncalls
ch == Head(input)

\* udp_buff[index_buff] = ch, inside the buffer.
Store == /\ index_buff < BufSize
         /\ udp_buff' = [udp_buff EXCEPT ![index_buff] = ch]
         /\ UNCHANGED overrun

WaitHead1 == /\ step = 0 /\ NextByte
             /\ step' = IF ch = HeadByte THEN 1 ELSE 0
             /\ UNCHANGED <<udp_buff, udp_len, index_buff, overrun, handled>>

WaitHead2 == /\ step = 1 /\ NextByte
             /\ \/ ch = HeadByte /\ step' = 2 /\ index_buff' = 0
                \/ ch # HeadByte /\ step' = 0 /\ UNCHANGED index_buff
             /\ UNCHANGED <<udp_buff, udp_len, overrun, handled>>

Len1 == /\ step = 2 /\ NextByte /\ Store
        /\ udp_len' = ch
        /\ index_buff' = index_buff + 1
        /\ step' = 3
        /\ UNCHANGED handled

\* Mutant: the length is not checked.
Len2Unchecked == /\ step = 3 /\ NextByte /\ Store
                 /\ udp_len' = (udp_len + 256 * ch) % 65536
                 /\ index_buff' = index_buff + 1
                 /\ step' = 4
                 /\ UNCHANGED handled

Len2 == /\ step = 3 /\ NextByte /\ Store
        /\ udp_len' = (udp_len + 256 * ch) % 65536
        /\ index_buff' = index_buff + 1
        /\ step' = IF udp_len' < BufSize THEN 4 ELSE 0
        /\ UNCHANGED handled

\* udp_len-1 as the comparison with the unsigned index_buff sees it.
LastIndex == IF udp_len = 0 THEN U32 - 1 ELSE udp_len - 1

Content == /\ step = 4 /\ index_buff < LastIndex
           /\ NextByte /\ Store
           /\ index_buff' = index_buff + 1
           /\ step' = IF index_buff' = LastIndex THEN 5 ELSE 4
           /\ UNCHANGED <<udp_len, handled>>

\* A length of 1, 2 or 3: the two length bytes already fill the message.
Short == /\ step = 4 /\ ~(index_buff < LastIndex)
         /\ NextByte
         /\ step' = 0
         /\ UNCHANGED <<udp_buff, udp_len, index_buff, overrun, handled>>

\* A length of 0 has no last index: the bytes that follow run out of the
\* buffer.  What memory they hit is not modelled, so the behaviour ends.
Overrun == /\ step = 4 /\ index_buff < LastIndex /\ index_buff >= BufSize
           /\ NextByte
           /\ overrun' = TRUE
           /\ UNCHANGED <<parser, handled>>
-----------------------------------------------------------------------------
\* The message in a buffer b: head.len, head.code, uart_chl, num and data.
HeadLen(b) == b[0] + 256 * b[1]
HeadCode(b) == b[2] + 256 * b[3]
UartChl(b) == b[4]
Num(b) == b[5]
UartData(b) == [i \in 1..Num(b) |-> b[5 + i]]

\* sendUart's check that the data lies inside the message.
\* Mutant: the size check leaves out the check sum and the head.
DataFitsLoose(b) == HeadLen(b) >= Num(b) + 2
DataFits(b) == HeadLen(b) >= Num(b) + 2 + HeadSize + 1

\* handleProtocol and sendUart: the calls they make.
Command(b) ==
    CASE HeadCode(b) = CodeUart /\ DataFits(b) ->
            <<[op |-> "send", chl |-> UartChl(b), data |-> UartData(b)]>>
      [] HeadCode(b) = CodeReset -> <<[op |-> "reset"]>>
      [] OTHER -> <<>>

\* The check sum is over the udp_len bytes of the message, in u8 arithmetic.
Frame(b, len) == [i \in 1..len |-> b[i - 1]]
Sums(f) == SumFunction(f) % 256

\* Mutant: the check sum is not tested.
CheckSumIgnored == /\ step = 5 /\ NextByte /\ Store
                   /\ handled' = Append(handled,
                                        [frame |-> Frame(udp_buff', udp_len),
                                         calls |-> Command(udp_buff')])
                   /\ index_buff' = udp_len
                   /\ step' = 0
                   /\ UNCHANGED udp_len

CheckSum == /\ step = 5 /\ NextByte /\ Store
            /\ \/ /\ Sums(Frame(udp_buff', udp_len)) = 0
                  /\ handled' = Append(handled,
                                       [frame |-> Frame(udp_buff', udp_len),
                                        calls |-> Command(udp_buff')])
               \/ Sums(Frame(udp_buff', udp_len)) # 0 /\ UNCHANGED handled
            /\ index_buff' = udp_len
            /\ step' = 0
            /\ UNCHANGED udp_len
-----------------------------------------------------------------------------
Unpack == \/ WaitHead1 \/ WaitHead2 \/ Len1 \/ Len2 \/ Content \/ Short
          \/ Overrun \/ CheckSum
Next == Unpack \/ \E data \in Data : OnRecvData(data)

Spec == Init /\ [][Next]_vars
-----------------------------------------------------------------------------
TypeOK == /\ udp_buff \in [0..(BufSize - 1) -> Byte]
          /\ step \in 0..5
          /\ udp_len \in Nat /\ udp_len < 65536
          /\ index_buff \in Nat /\ index_buff <= BufSize
          /\ input \in Seq(Byte) /\ seen \in Seq(Byte)
          /\ overrun \in BOOLEAN

\* Why the writes fit: where the index stands in each state of the parser,
\* and the length in the buffer.
BufferInv == /\ overrun => udp_len = 0
             /\ step = 2 => index_buff = 0
             /\ step = 3 => /\ index_buff = 1 /\ udp_len < 256
                            /\ udp_buff[0] = udp_len
             /\ step \in {4, 5} => HeadLen(udp_buff) = udp_len
             /\ step = 4 => /\ udp_len < BufSize
                            /\ index_buff >= 2
                            /\ index_buff = 2 \/ index_buff < LastIndex
             /\ step = 5 => /\ udp_len > 3 /\ udp_len < BufSize
                            /\ index_buff = udp_len - 1

\* Across any number of calls and any garbage, unpacking() writes past the
\* end of udp_buff only for a message that announces the length 0, the one
\* value the test udp_len<1024 lets through that names no last byte.
OverrunOnlyByZero == overrun => udp_len = 0

\* When the check sum is due the message lies in the buffer as announced:
\* its first two bytes are its length, and all but the last have arrived.
MessageInPlace == step = 5 => /\ HeadLen(udp_buff) = udp_len
                              /\ index_buff = udp_len - 1
                              /\ udp_len < BufSize

\* handleProtocol acts only on messages with a head and a check sum of their
\* own, and sendUart forwards only content bytes of that message, never the
\* check sum or bytes left in udp_buff by an earlier message.
CallsFromContent ==
    \A k \in 1..Len(handled) :
        LET f == handled[k].frame
            calls == handled[k].calls
        IN  calls # <<>> =>
                /\ Len(f) >= HeadSize + 1
                /\ calls[1].op = "send" =>
                       /\ HeadSize + 2 + Len(calls[1].data) < Len(f)
                       /\ calls[1].data = SubSeq(f, HeadSize + 3,
                                          HeadSize + 2 + Len(calls[1].data))
-----------------------------------------------------------------------------
\* The messages in a byte string, defined on the string as a whole.  What
\* follows a head that begins at a or later: its length, and the bytes it
\* keeps the parser from looking for the next head.
Heads(s, a) == {i \in a..(Len(s) - 1) : s[i] = HeadByte /\ s[i + 1] = HeadByte}
Body(s, a) == 2 + CHOOSE i \in Heads(s, a) : \A j \in Heads(s, a) : i <= j
LengthAt(s, b) == s[b] + 256 * s[b + 1]
Span(len) == IF len >= BufSize THEN 2 ELSE IF len < HeadSize THEN 3 ELSE len

\* It has arrived; a length of 0 never does.
Settled(s, a) == /\ Heads(s, a) # {}
                 /\ Body(s, a) < Len(s)
                 /\ LengthAt(s, Body(s, a)) # 0
                 /\ Body(s, a) + Span(LengthAt(s, Body(s, a))) <= Len(s) + 1

Whole(s, b) == SubSeq(s, b, b + LengthAt(s, b) - 1)
MessageAt(s, b) == IF /\ LengthAt(s, b) \in HeadSize..(BufSize - 1)
                      /\ Sums(Whole(s, b)) = 0
                   THEN <<Whole(s, b)>> ELSE <<>>

\* One head after the other, each at least four bytes behind the last.
Parse(s) == LET P[n \in 0..(Len(s) \div 4)] ==
                    IF n = 0 THEN [at |-> 1, found |-> <<>>]
                    ELSE LET p == P[n - 1]
                             b == Body(s, p.at)
                         IN IF Settled(s, p.at)
                            THEN [at |-> b + Span(LengthAt(s, b)),
                                  found |-> p.found \o MessageAt(s, b)]
                            ELSE p
            IN P
Messages(s) == Parse(s)[Len(s) \div 4].found

\* However the bytes are cut into calls, handleProtocol is given exactly the
\* messages of the whole byte string, in order, each once.
ParsedAsWhole == [k \in 1..Len(handled) |-> handled[k].frame] = Messages(seen)
=============================================================================
