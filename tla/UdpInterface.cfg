SPECIFICATION UdpSpec
CONSTANTS
    BufSize = 16
    U32 = 1000000
    Data <- NoData
    MaxCalls = 4
    RxSize = 20
    MaxBytes = 34
    Datagrams <- AnyChain
INVARIANTS OverrunOnlyByZero CallsFromContent
           ParsedAsWhole PlainOnce OnlyThisDatagram
CHECK_DEADLOCK FALSE
