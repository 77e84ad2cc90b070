# A verification of the serial-to-Ethernet converter

The repository is the firmware of an STM32F407 board that bridges UDP and
sixteen UARTs behind an FPGA on the FSMC bus.  There is no operating system:
`main()` polls a message queue and lwIP's timers, everything else runs in
interrupt handlers, lwIP's input path included.  The image is built without
optimisation (`USER/net_rs232.uvprojx:350`), with `NO_SYS` 1 and
`SYS_LIGHTWEIGHT_PROT` 0, and no code of the application masks interrupts.  So
the questions worth asking are about what happens when a handler runs between
two instructions of a less urgent context, when power fails between two bytes
of a flash write, when a queue is full, and when the bytes of a stream arrive
cut in an inconvenient way.

The modules are written in TLA+, checked with TLC on small instances, and the
inductive invariants are proved with TLAPS for every value of the constants.

## 1. The system

### Contexts

| context | priority (group 2) | runs | publishes |
|---|---|---|---|
| `main()` | thread mode | `initilize`, then `processMsg` and `lwip_periodic_handle` for ever | `MSG_LINK_DOWN` from `onWorkTick` |
| `USART3_IRQHandler` | 3 (`console.c:71`) | one console byte | `MSG_CONSOLE_COMMAND` |
| `TIM3_IRQHandler` | 1 (`timer.c:38`) | one work tick | `MSG_WORKTICK` |
| `EXTI9_5_IRQHandler` | 0 (`config.c:129`) | the reset button: default configuration | `MSG_CONFIG_APPLY` |
| `ETH_IRQHandler` | 0 (`lan8720.c:88`) | every received frame through lwIP: UDP callback, parser, web pages | `MSG_CONFIG_APPLY` through the reboot page |

EXTI9_5 and ETH have the same preemption priority and do not interrupt each
other; the others nest in the order of the table.

### Components

| component | state | operations | correct when |
|---|---|---|---|
| Message queue, `SYSTEM/msg_interface.c` | ring `msgList`, two indices, `nMsg` | `publishMsg`, `getNextMsg`, `getPendingMsgNum` | a bounded FIFO of (msg, para) pairs, from any context |
| Parser, `USER/protocol_layer.c` | `udp_buff`, `step`, `udp_len`, `index_buff` | `onRecvData`, `handleProtocol`, `sendUart` | finds the messages of the stream however it is cut; writes inside the buffer; forwards only content |
| UDP interface, `HARDWARE/udp_interface.c` | `udp_recvbuf`, the control block | receive callback, `sendUdpDatagram` | the parser sees each byte of each datagram once |
| Configuration, `HARDWARE/config.c` | flash sector 11, `s_cfg` | `prepareConfig`, `setConfig`, `defaultConfig`, the button | a save is durable, a boot never uses half a save |
| Console, `HARDWARE/console.c` | receive state, ring `cmds` | receive interrupt, `getCommandNum`, `getCommand` | lines arrive as typed, in order, and are all fetched |
| Main loop, `USER/main.c`, `USER/msg_handlers.c` | `link_status` | `processMsg`, `onWorkTick` | every link loss leads to a reboot pulse, the pulse is whole |
| Work timer, `USER/timer.c` | `cycle`, tick counter, `lwip_localtime` | `initTimer`, TIM3 handler | ticks 0 to 9 in turn, `cycle` interrupts apart |
| Memory pool, `SYSTEM/malloc.c` | block map | `mymalloc`, `myfree` | regions are disjoint, a failed start gives back all it took |
| lwIP glue, `HARDWARE/lwip_comm.c`, `ethernetif.c` | allocated regions, timers | `lwip_comm_init`, `lwip_periodic_handle` | retry until up; timers run at their periods |
| Ethernet driver, `HARDWARE/lan8720.c` | descriptor rings shared with the DMA | receive, transmit | frames are delivered and sent whole, in order, and none waits for ever |
| UARTs, `HARDWARE/uart_fsmc.c`, `fsmc.c` | FIFOs in the FPGA | send, poll, reset | bytes are reported in order, each once; accesses are a moment apart |
| Delay, `SYSTEM/delay.c` | SysTick | `delay_us`, `delay_ms`, `delay_moment` | a delay ends, and not before its time |
| Configuration page, `HTTP/httpd_cgi_ssi.c` | the form's structure, `status_index` | CGI and SSI handlers | what is submitted is what is saved |
| Watchdog, LEDs, httpd, lwIP, vendor libraries | | | not modelled, see section 7 |

### How they interact

* All contexts publish into the one message queue; only `main()` takes from it.
* `ETH_IRQHandler` -> lwIP -> `udp_demo_recv` -> `onRecvData` -> `unpacking` ->
  `handleProtocol` -> UARTs, all inside one interrupt.
* `main()` on ticks 0 to 7 -> `checkUartFsmc` -> `sendUdpDatagram` -> lwIP, in
  thread mode, while ETH may interrupt it.
* The web form (ETH interrupt) and the button (EXTI interrupt) -> `setConfig` or
  `defaultConfig` -> flash, then `MSG_CONFIG_APPLY` -> `main()` pulses the reset
  line.
* `main()` at start: pool -> configuration -> Ethernet and lwIP with retries.

## 2. Modules

| module | models | extends |
|---|---|---|
| `MsgFifo` | abstract: a bounded FIFO | |
| `MsgInterface` | the message queue under nested interrupts | |
| `MsgInterface_proofs` | bounds of the count; `MsgFifo` until a race | `MsgInterface` |
| `MCMsgInterface` | the pairs published, for TLC | `MsgInterface` |
| `Unpacking` | the parser and the dispatch of its messages; the messages in a byte string | |
| `Unpacking_proofs` | the parser alone and behind the callback, the messages of the whole stream | `UdpInterface` |
| `MCUnpacking` | byte strings, for TLC | `Unpacking` |
| `UdpInterface` | the receive callback composed with the parser | `Unpacking` |
| `MCUdpInterface` | datagrams, for TLC | `UdpInterface`, `MCUnpacking` |
| `Config` | the configuration store with faults | |
| `Config_proofs` | its safety under every fault, and the forms | `ConfigForm` |
| `MCConfig` | bytes and bodies, for TLC | `Config` |
| `Console` | the console, its interrupt and `main()`; the lines in a byte string | |
| `Console_proofs` | the bounds of its ring, the order of its commands, the lines as typed | `Console` |
| `MCConsole` | characters, for TLC | `Console` |
| `Pool` | the block allocator of `malloc.c`, loop turn by loop turn | |
| `Boot` | the start of `main()` composed with the allocator | `Pool` |
| `Boot_proofs` | the allocator, then the start and its retries | `Boot` |
| `MCBoot` | sizes, and arbitrary callers beside the start, for TLC | `Boot` |
| `MainLoop` | `processMsg`, `onWorkTick`, the tick interrupt and its start-up | |
| `Periodic` | lwIP's clock and `lwip_periodic_handle` | |
| `MainLoop_proofs` | timers are served on time, ticks come in turn | `MainLoop`, `Periodic` |
| `MCMainLoop` | both halves of `main()`'s loop, for TLC | `MainLoop`, `Periodic` |
| `ConfigForm` | the web pages that change the configuration | `Config` |
| `MCConfigForm` | a structure in small and its forms, for TLC | `ConfigForm` |
| `EthRx` | reception: the ring, the DMA, `ETH_IRQHandler` | |
| `EthTx` | transmission from `main()` and from the interrupt | |
| `EthDma_proofs` | reception as a FIFO, frames sent as given | `EthRx`, `EthTx` |
| `MCEthDma` | both rings, for TLC | `EthRx`, `EthTx` |
| `Delay` | the delay loops on the shared SysTick timer | |
| `Fsmc` | accesses of the bus, pulse and reset, by means of `Delay` | `Delay` |
| `UartFsmc` | the received bytes: poll, reset, report | |
| `Fsmc_proofs` | full delays, spaced accesses, the bytes reported | `Fsmc`, `UartFsmc` |
| `MCUart` | bytes and timing, for TLC | `Fsmc`, `UartFsmc` |

### MsgInterface

Variables `msgList`, `iMsgPush`, `iMsgPull`, `nMsg` are the C variables; `pc`,
`arg` and `reg` are each context's program point, argument and register.  A
context numbered `c` runs only while every `d > c` is idle (`Runs`), which is
preemption by priority on one core.  `Interrupt` starts a handler at any program
point; `Accept` to `StoreCount` are the loads and stores of `publishMsg`
(lines 30 to 35), `Poll` to `StoreDec` those of `getNextMsg`.  Each C statement
loads what it names and stores its result, as the unoptimised build does.
`ReportLink` is the one publication by `main()` itself.

`raced` is history, which no guard reads: set by `Accept` when a handler starts to
publish where it does harm (`Overlap`).  That is inside a `Window` of a call it
interrupted - between the first load of `iMsgPush` and its store, or between load
and store of `nMsg` - or into the last slots when such calls have passed the check
for room and not yet counted.  Handlers that interrupt a call anywhere else, or
find the queue full, are no race.  The abstract contents (`Contents`) count a
message from the store of `iMsgPush` on, so that calls may nest around the
increment of `nMsg`; `FifoUntilRaced` says that until the race these are the steps
of `MsgFifo`.  `Overlap` is as small as it can be: without any one of the seven
points of `Window`, or without the clause about the last slots, TLC finds
`FifoUntilRaced` or `PendingUntilRaced` violated.

### Unpacking and UdpInterface

One action is one turn of the loop of `unpacking()`: one action per case of its
`switch`, `Content`, `Short` and `Overrun` splitting case 4.  Bytes are numbers,
`udp_len` is the 16-bit value and `udp_len-1` is computed as the 32-bit unsigned
comparison sees it (`LastIndex`).  `CheckSum` ends a message with `Command`, the
calls `handleProtocol` and `sendUart` make for what is in the buffer.  A write
past `udp_buff` sets `overrun` and ends the behaviour: what memory lies behind is
not modelled.  `Messages` defines the messages of a byte string on the string as
a whole, by its heads and their lengths and without the parser's states.

`UdpInterface` adds the chain of pbufs: `Arrive` is lwIP's call, `Visit` one
turn of the loop over the chain - copy, then call the handler with everything
gathered so far -, `BufferFull` the exit when `udp_recvbuf` is full.  The actions
of the parser are those of `Unpacking`.

### Config

`flash` is the first `sizeof(SYS_CONFIG)` bytes of sector 11, with a handful of
byte values: header, erased, worn, and bytes that tell configurations apart.
`writeFlash` is `ScanBlank`, `ScanDirty`, `EraseDone` or `EraseFails`, then a
`ProgramByte` for each byte, header first, as the loop at line 92 does.
`prepareConfig` is `Load` or `FirstBoot`.  Faults come at any step: `Crash`
(power, or the reset line), `CrashErasing` and `EraseFails`, which leave any
subset of the bytes erased, and `ProgramFails`.  Programming a byte that is not
erased gives `Worn`, a value no configuration has: it stands for the bitwise AND.
`written` and `complete` are history.

### Console

`USART3_IRQHandler` is one action per path of the handler: `Content`,
`CarriageReturn`, `StartOver`, `Record`, `GoDeaf`.  The handler is one step since
the contexts that may interrupt it touch none of its variables; it falls between
any two accesses of `cmdCnt` by `main()` (`Waiting`, `Take`, `LoadCnt`,
`StoreCnt`).  The message queue appears as the number of console messages in it
(`notices`) and may refuse one at any time, since other publishers fill it.
`Counts`, `Ended` and `Line` define the lines in a byte string as a whole, without
the handler's state; `RecordedAsTyped` compares the ring with them.

### Pool and Boot

`Pool` follows `mymem_malloc` and `mymem_free` on one bank.  `memmap` is the C
array, `nmemb`, `cmemb`, `offset` and `i` are the locals of the call, `mode` says
which loop is being executed; `Search` is one turn of the loop at line 97, `Mark`
one of that at line 103, `Clear` one of that at line 129.  Offsets are in blocks.
`live` is history: the regions handed out and not yet freed.  `BlocksFor` keeps the
`u16` of `nmemb`; `cmemb` cannot reach its limit in a bank smaller than 2^16
blocks.  The environment frees only what it was given, once; that the firmware
does so is the subject of `Boot`.

`Boot` is `initilize` from line 57 on as far as it takes memory.  `stage` is the
function being executed, `todo` the pointers it has still to allocate or free, `ptr`
the pointer variables, which keep their values after `myfree` as in C.  Every
allocation and free is a `Malloc` or `Free` of `Pool` with all its loops.
`PhyFails` is `LAN8720_Init` returning 1, at any attempt.  `netif_add` cannot
fail here, since `ethernetif_init` returns `ERR_OK` on every path, so that the
return value 3 of `lwip_comm_init` is not modelled.

`MCBoot` explores two uses of one bank: the start, and callers that allocate and
free in any order.

### MainLoop and Periodic

`MainLoop` is `main()` after start-up with the queue taken as the abstract
`MsgFifo`; what the real queue does beyond it is the subject of `MsgInterface`.
`timerProcess` is the TIM3 handler, one step since the contexts that interrupt it
touch none of its variables; it may fall between any two stores of `initTimer`
(`EnableTimer`, `ResetCount`, `SetCycle`).  `TIM_TimeBaseInit` leaves an update
pending, so that the first interrupt may come at once, when `cycle` is still 0;
a division by zero gives 0 on this processor.  `Take` is `getNextMsg`, `Poll` the
phases of the UARTs, `Broken` and `Normal` the link phase, `Pulse` lines 95 to 101
of `main.c`.  `Others` publishes what the console and the web pages publish, `Plug`
moves the cable.  `loss` is history: what became of the report of a lost link.

`Periodic` is lwIP's clock, a `u32` of milliseconds that wraps around, and
`lwip_periodic_handle`: `Late` is the comparison, `Call` the assignment, which
reads the clock again.  `age` is history: the true time since each timer was
served.

### ConfigForm

`Config_Handler` is one action: it runs in the Ethernet interrupt, and the button,
the only other user of the store, has the same priority.  The structure lies on
the stack; `Stacks` is what it may hold.  `Parse` is one block of the handler:
`sscanf` stores an `int` for each number whatever the width of the field
(`Store`), so that each conversion overwrites what lies behind the field, to be
overwritten in turn by the fields after it.  The gateway has its own rule
(`Fallback`).  An accepted form goes on as `SetConfig` of `Config`.

### EthRx and EthTx

A descriptor has its OWN bit and its buffer; `dma` is the one the DMA will use
next.  In `EthRx` the actions from `Enter` to `ClearNIS` are those of
`ETH_IRQHandler`, `ETH_Rx_Packet`, `low_level_input` and `ethernetif_input`, and
`StoreFrame`, `StoreFirst`, `StoreLast` and `Flush` are the DMA, which goes on
storing at any moment.  A frame over two buffers is `StoreFirst` and `StoreLast`.
`Copy` may find the pbuf pool empty.

In `EthTx` `low_level_output` runs in `main()` and in the interrupt, which may fall
between any two statements of `main()`'s.  `DMATxDescToSet` is a global, and the
actions `Free`, `Give` and `Advance` read it again as the statements do.  `nested`
and `full` are history: whether an output interrupted an output, and whether a
frame was copied into a buffer the DMA still owned.

### Delay, Fsmc and UartFsmc

`Delay` has the registers of SysTick and one action per access of `delay_us`,
`delay_xms` and `delay_moment`, in `main()` and in the interrupt; `Tick` is the
timer, at any moment.  `Fsmc` adds what is done between the delays: an `Access` of
the bus begins a `delay_moment`; the interrupt sends (any number of accesses) or
resets (`ResetLow`, `ResetHold`, `ResetHigh`), `main()` polls, pulses and blinks.

`UartFsmc` follows the bytes: `StartPoll` reads a UART's count, `ReadByte` one byte
of it, `Report` fills in `report_buff` and hands it to `udp_send`; `Receive` is the
UART and `Reset` the command from the network, at any moment.  `expected` is
history: the byte that must be reported next.

## 3. Runs

| run | what it checks |
|---|---|
| `queue_code` | the queue as the code is: `main()` and two levels of nested handlers, two slots, interrupts anywhere. `CountBound` (`nMsg` exceeds `MSG_MAX_LEN` by at most the nesting depth), `NoUnderflow`, and `Drains`: once interrupts cease, `main()` brings `nMsg` back to 0 for good, whatever the races have done to it, and the indices meet unless there was a race |
| `queue_fifo` | the same code with all three levels of handlers and three slots: `FifoUntilRaced`, every step is one of `MsgFifo`, or none, up to the first race |
| `queue_count` | violation: `PendingExact` fails for the code as it is |
| `udp` | all streams of up to four calls of the handler, for datagrams of one to three pbufs made of heads, limit lengths, whole and cut messages, some as long as the buffer or longer. `ParsedAsWhole` compares the messages handled with a reference parser applied to the whole byte string; `CallsFromContent`, `OverrunOnlyByZero` of the parser; `PlainOnce`, `OnlyThisDatagram` of the callback |
| `udp_chain` | violation: `EachByteOnce` when a datagram comes in two pbufs that leave room in the buffer |
| `config_faults` | any number of boots, forms, button presses, reboots, power failures, refused erases and programs: `NoMixture`, `Durable`, `FormHonoured` (an accepted form sets exactly what was submitted though each conversion writes over the next fields, a refused one changes nothing), and `BackInService` under fairness |
| `config_torn` | violation: `NeverTorn` after a power failure in mid-write |
| `console` | every stream of nine bytes with `main()` interrupted anywhere and messages refused: `RecordedAsTyped`, `InOrder`, `Backlog`, `CountFits`, and `AllServed` under fairness |
| `boot` | every sequence of allocations and frees, and the start with every choice of region sizes and any number of PHY failures: `Disjoint`, `MapExact` of the allocator; `CleanRetry`, `WholeWhenUp`, `ReportBelowPools`, and `BoardUp` under fairness |
| `mainloop` | `TicksInTurn` (phases in turn, `cycle` interrupts apart, from the first tick on); under fairness `PairsServed` (every pair of UARTs is polled for ever) and `LinkServed` (a lasting link loss ends in the pulse or was refused by a full queue); `OnTime` and `NeverEarly` of lwIP's timers across wrap-around |
| `uart` | `DelayFull`, `Spaced`, `DelayEnds` (under fairness) of the shared timer and the bus; `BytesInOrder` and `ReportWellFormed` of what is reported |
| `ethdma` | reception: `RxFifo` (the ring refines `MsgFifo`), `Delivered`, `RxWaits`, `RxServed`; transmission: `TxAsGiven`, `TxServed`; the two liveness properties under fairness |

### What the violations show

1. **Lost counts in the message queue** (`queue_count`).  `nMsg++` and `nMsg--`
   are a load and a store; a handler between them is lost from the count.  The
   ring then holds a message more than `nMsg` says, for good: every later
   message is handed out one publication late.
2. **Bytes parsed twice** (`udp_chain`).  The handler is called inside the loop
   over the chain with everything gathered so far.  `PBUF_POOL_BUFSIZE` is 512:
   any larger datagram is a chain.  In the trace a message of 11 bytes comes as 5
   and 6: the parser is fed 16 bytes and finds no message.
3. **A torn configuration after a power failure** (`config_torn`).
   `prepareConfig` trusts two header bytes, which `writeFlash` programs first.

### What the passing runs allow

Several properties have an exception written into them.  Each is a behaviour of
the code, and the property fails in the model without it:

* `FifoUntilRaced`: nothing is claimed behind a race.  What is known there is
  that the count keeps its bounds (`CountBound`, `NoUnderflow`) and returns to 0.
* `Drains`: after an increment lost in a race, `nMsg` returns to 0 with a message
  still in the ring; it is handed out after the next publication.
* `PlainOnce`: datagrams in several pbufs, and those that fill `udp_recvbuf`, whose
  last part the parser never sees (`BufferFull`).
* `InOrder`, `Backlog`, `AllServed`: until an increment of `cmdCnt` falls into its
  decrement, which loses or doubles a command; `AllServed` also while no message
  was refused, since a refused one leaves its command waiting.
* `LinkServed`: a link loss is forgotten when the queue is full at the one moment
  it is published, because `link_status` is cleared first.
* `TicksInTurn`: until `initTimer` has stored `cycle` every interrupt may publish
  tick 0.
* `DelayFull`: a delay of `main()` ends early when the interrupt delays within it.
  `Spaced` says what survives: accesses stay a moment apart, and only the first
  access of an interrupt may follow one of `main()` at once; the reset pulse is
  whole because it is the interrupt's own.
* `BytesInOrder`: a reset between the read of the count and the last byte makes
  the poll report what an empty UART returns.
* `TxAsGiven`: an output nested in one of `main()`'s, or one copied into a full
  ring, replaces the contents of a frame handed over before.
* `TxServed`: nested outputs can advance `DMATxDescToSet` past a descriptor nobody
  gave to the DMA.  The driver is then one ahead of the DMA, which waits at a
  descriptor that is not its own while frames behind it stay where they are.
* `RxServed` and `RxWaits`: a frame over two buffers stops reception for good,
  since `ETH_GetRxPktSize` sees no end of frame in the first of them.
  `ETH_RX_BUF_SIZE` is `ETH_MAX_PACKET_SIZE`, so that it takes an oversized frame.
* `RxWaits`: a frame stored after the last look at the ring and before the pending
  bits are cleared is announced by the next frame only.
* `OverrunOnlyByZero`: a message of length 0 passes `udp_len<1024`.
* `RecordedAsTyped`: after a line that found the ring full (`GoDeaf`) the console
  ignores every byte until reset.  `Backlog` says how a ring gets full: each
  message the queue refuses leaves one command behind for good.

Noticed while modelling, and stated by no property: `protocol.h:19` lists a
message "set config" that `handleProtocol` does not know; after a lost increment
of `cmdCnt` `getCommandNum` denies a command that is there; the page says that the
configuration succeeded (`status_index` 9) when `writeFlash` gave up; fields a
form has no parameter for are saved as the stack held them.

`ReportBelowPools` deserves a word.  `sendUdpDatagram` takes a `PBUF_POOL` pbuf
and points its payload at `report_buff`.  lwIP then asks for room in front of the
payload; `pbuf_header` refuses because the payload lies below the pbuf, and
`udp_send` chains a separate header.  Were the report above the pbuf, lwIP would
write its headers in front of `report_buff`.  What keeps it below is only that
`main()` allocates it last, from the top down.

## 4. Bounds

* **Queue.** `N` is 2 or 3 for `MSG_MAX_LEN` 64: wrap-around, full and empty
  all occur within a few publications, and the proofs cover every `N`.  `Top` is
  3, the real nesting, in `queue_fifo` and `queue_count`, and 2 in `queue_code`,
  whose liveness property needs the smaller state space; the proofs cover every
  `Top`.  The tick handler publishes two kinds of tick in `queue_count` and the
  link tick alone in the others.  `queue_fifo` does not go on behind a race
  (`BeforeRace`), where `FifoUntilRaced` claims nothing.  `U32` is 16: any modulus
  above `N + Top + 1` behaves alike, as the proof shows.
* **Parser.** `BufSize` 16 for 1024: limit lengths 15 and 16, lengths 0 to 9 and
  256 occur among the pieces.  Four calls allow a message cut in three after
  garbage.  The proofs cover every buffer size and every stream.  Behaviours end
  at the bound on calls or at the overrun, hence `CHECK_DEADLOCK FALSE`; the
  parser itself waits for the next datagram.
* **UDP.** `RxSize` 20 with datagrams of 0 to 29 bytes: below, at and above the
  buffer; up to four calls of the handler and 34 bytes in all.  `udp_chain` has
  only chains of 11 and 18 bytes, below the buffer, so that what it finds is not
  the loss of a last part.
* **Config.** `config_torn` has five bytes: two of header, three of body.
  `config_faults` has seven: an address of two octets, the gateway and a port as
  wide as a byte, with integers of two bytes, so that every conversion runs over
  the field behind it, the last one over the end of the structure; a write can
  stop inside the header, between header and body and inside the body; one octet
  has the value of erased flash.  The forms: a complete one, one without each
  parameter, one with each parameter cut short, and a cut gateway without an
  address.  The number of boots and saves is not bounded.  The flash invariant is
  proved for every size.
* **Console.** A ring of two commands of one byte, nine bytes: four empty lines,
  or two lines and a line that overflows the buffer.  Two commands suffice to
  fill the ring, to wrap it and to lose an increment.  `CHECK_DEADLOCK FALSE`
  for the bound on bytes.
* **Pool and start.** Nine blocks of two bytes for 3200 of 32; callers ask for 0,
  1, 3 and 19 bytes: nothing, one block, two blocks, more than the bank; every
  pattern of regions and holes occurs.  In the start each of the seven regions has
  one or two blocks, so that all fit, some fit, and the report alone does not.
  `U16` is 16.  The number of attempts is not bounded.  The proofs of the allocator
  cover every bank.  `CHECK_DEADLOCK FALSE` because the start ends where the main
  loop begins.
* **Main loop.** Two pairs of UARTs for eight, `cycle` 2 or 4 interrupts, a queue
  of two messages, one interrupt per turn of the loop and two more in `blink()`:
  the queue overflows under `blink()` and under the other publishers, and ticks
  are refused.  `Turn < Unit` says that a turn takes less than a tenth of a second;
  with a slower loop every tick could find the queue full.  The clock wraps at 20
  with steps of 2 and periods 4 and 7: a few turns; proved for every value.
* **Ethernet.** Three receive buffers and two transmit buffers: rings that fill
  and wrap.  Frames are numbered modulo one more than fit the ring.  `MaxBurst`
  is 1: between the last look at the ring and the last store to `DMASR` the handler
  executes a few dozen instructions, well below a microsecond, and a frame of the
  least length takes 6.7 microseconds.  The proofs cover every ring and every
  `MaxBurst`.  That the transmit DMA reads OWN and, finding it clear, sets TBUS in
  one step (`Suspend`) is an assumption about the hardware: if the driver could give
  OWN and test TBUS (`lan8720.c:214`, `:215`) between the two, `TxServed` would fail
  for a frame that no later one follows.
* **Bus.** Delays of 1 and 6 ticks for 1 and 2100 (100 us at 21 MHz): within the
  long one several short ones fit.  The proofs cover every set of delays.
* **UARTs.** One UART, since they share nothing but the buffer that `StartPoll`
  fills afresh; three bytes in the FPGA and two in a report, so that a poll leaves
  bytes behind; bytes numbered modulo 4.  `Junk` is none of them.

`MCMainLoop`, `MCEthDma` and `MCUart` each hold two machines without a common
variable.  A run explores one while the other rests, as an interleaving of both
would show nothing a property can see.

## 5. Fairness

* `MsgInterface!FairSpec`: weak fairness of "the running context makes a step".
  The processor never stops; it is not assumed that interrupts arrive.
* `Config!FairSpec`: weak fairness of the boot code and of `writeFlash`: they are
  straight-line code that runs while there is power.  `BackInService` assumes in
  its own antecedent that power fails finitely often.
* `ConfigForm!FairFormSpec`: the same, beside the pages.
* `Boot!FairSpec`, `MCBoot!MCSpec`: weak fairness of the start, which is
  straight-line code with a retry, and of the allocator's loops.  The PHY may fail
  for ever; `BoardUp` assumes in its antecedent that it does not.
* `MainLoop!FairMainSpec`: weak fairness of `main()` and of the tick interrupt: the
  processor and TIM3 run.  `PairsServed` and `LinkServed` assume in their
  antecedent that the other publishers fall silent, the latter that the link stays
  down as well.
* `EthRx!FairRxSpec`: weak fairness of the handler.  Frames need not arrive.
* `EthTx!FairTxSpec`: weak fairness of the DMA and of the handler, which nothing
  interrupts; strong fairness of `main()`'s output, which makes progress between
  interrupts.
* `Fsmc!FairFsmcSpec`: weak fairness of the timer and of what the handler has
  begun; strong fairness of the handler's end and of `main()`'s delays, for the
  same reason.
* `Console!FairSpec`: weak fairness of `main()`'s polling.  Nobody has to type.

## 6. Proofs

| theorem | says |
|---|---|
| `MsgInterface_proofs!TypeCorrect` | indices and slots stay in range with interrupts anywhere |
| `MsgInterface_proofs!CountBounded` | `nMsg <= N + Top` |
| `MsgInterface_proofs!NeverUnderflows` | `nMsg--` never wraps |
| `MsgInterface_proofs!QueueIsFifoUntilRaced`, `CountExactUntilRaced` | interrupts anywhere: up to the first race the calls are those of `MsgFifo`, and the count is exact when the queue is quiet |
| `Unpacking_proofs!ParserInvariant` | `TypeOK` and `BufferInv` |
| `Unpacking_proofs!OverrunNeedsZero` | a write past `udp_buff` needs a message of length 0 |
| `Unpacking_proofs!MessagesInPlace` | at the check sum the message lies in the buffer as announced |
| `Unpacking_proofs!ActsOnContent` | only content bytes of the message at hand are forwarded, only messages with a head and a check sum acted upon |
| `Unpacking_proofs!CallbackInvariant`, `ParserBehindCallback` | the same of the parser as the receive callback calls it |
| `Unpacking_proofs!MessagesAreWhole`, `MessagesBehindCallback` | the messages handled are those of the whole stream, however it is cut |
| `Unpacking_proofs!ShowsThisDatagram`, `PlainBytesOnce` | what the callback shows the parser is of this datagram; without chains and full buffers each byte is seen once, in order |
| `Config_proofs!FlashInvariant`, `NeverMixes`, `WritesAreDurable`, `AlwaysHeaded` | the flash under every fault |
| `Config_proofs!FormsAreHonoured` | a form is saved as submitted or refused whole |
| `Config_proofs!FormFlashInvariant`, `FormsKeepFlash` | the flash with the page as the one who saves |
| `Console_proofs!CountAlwaysFits` | `cmdCnt` stays in its ring, its decrement never wraps |
| `Console_proofs!QueueInvariant`, `CommandsInOrder`, `BacklogCounted` | until an increment falls into a decrement: commands in order, each once, and as many waiting as messages queued and refused |
| `Console_proofs!LinesAsTyped` | the ring received the lines as typed, for every stream of bytes |
| `Boot_proofs!RegionsDisjoint`, `MapIsExact`, `SearchFindsHighest` | the allocator for every bank and every sequence of calls |
| `Boot_proofs!BootInvariant`, `RetriesAreClean`, `WholeAtStart`, `ReportLiesBelow` | the start: a failed attempt keeps nothing, and `main()` starts with every block it needs |
| `MainLoop_proofs!ServedOnTime`, `ServedNeverEarly` | lwIP's timers for every period, step, word size and length of the turn |
| `MainLoop_proofs!RoundCounted`, `TicksComeInTurn` | the rounds of work ticks for every number of UARTs and every query cycle |
| `EthDma_proofs!RingSound`, `FramesDelivered`, `ReceptionIsFifo` | reception implements a FIFO of whole frames, for every number of buffers |
| `EthDma_proofs!NoFrameForgotten` | between interrupts only frames that came after the last look wait |
| `EthDma_proofs!TxTypeCorrect`, `SentAsGiven` | frames are sent as they were given, while no output nests and the ring is not full |
| `Fsmc_proofs!DelaysAreFull`, `AccessesSpaced` | delays and accesses for every set of delays |
| `Fsmc_proofs!BytesInvariant`, `BytesReportedInOrder` | the bytes of a report are consecutive ones of its UART |
| `Fsmc_proofs!ReportsWellFormed` | every report is a message with a right length, head and check sum |

**The queue.**  `nMsg <= N + Top` is not inductive: a context between its check and
its increment may still add one.  `CountInv` adds that a context `c` that has
passed the check sees a count of at most `N - 1 + (Top - c)`: only the `Top - c`
contexts above it can have added to the count since, each at most once, because
while `c` is suspended each of them starts with its own check.  And between
`main()`'s check on line 51 and its store on line 55 the count only grows, so the
decrement starts from a positive value.

**The queue as a FIFO** is proved of the code as it is, without a hypothesis, up to
the first race.  `FifoInv` holds as long as `raced` is false: whoever interrupted
a call inside a window has not passed its own check (`Alone`); `nMsg` and the calls
that have passed the check and not counted (`Open`) fit the ring together, so that
each of them still has the room it saw; `iMsgPush` is the slot behind the held
messages (`Nth(Held)`), those not yet counted among them; what a call has loaded is
still so and what it has written is in the slot behind (`Writing`), and `main()` holds
the oldest pair (`Taking`).  A publication takes effect at the store of `iMsgPush` and
a removal at the store of `nMsg--`; every other step stutters, the store of `nMsg++`
included, which moves a message from `Uncounted` to the count.  `Overlap` is the
negation of what `Accept` needs to keep `Alone` and the room.  When no call is in
progress nothing is uncounted, and `iMsgPush = Nth(Held)` is `PendingExact`.

**The parser.**  `BufferInv` ties `index_buff` to `step`: 0 and 1 in the length
states, at least 2 in the content, `udp_len - 1` at the check sum, and the two
length bytes in the buffer are `udp_len`.  The step that could break it is
`Content`: it either stays below `LastIndex` or moves to the check sum exactly on
it.  That every message acted on has a check sum of its own needs one more fact,
`SumOfFour`: a message of four bytes has half of its code for a check sum, and a
reset of that length does not add up to 0.

**The messages of the stream** are defined head by head: `Parse` goes on behind the
bytes a head takes (`Span`: two if the length is refused, three if it leaves no
content, the message otherwise) as soon as they have arrived (`Settled`); a head of
length 0 never settles.  One more byte leaves what has settled as it was
(`StandsKeep`) and adds at most one head, whose message it ends (`StandsTurn`), and
when no head has settled the parse is finished (`StandsEnd`).  `ParseInv` says where
the parser stands: the parse of the bytes seen has found the messages handled
and goes on at a place `a`; from there on no head was read (`Seeking`), half of one
(`Half`), one of length 0 (`Endless`), or one of which `udp_buff` holds what has
arrived (`Under`).  Each turn of the loop either leaves the place and changes the
case, or ends the message (`Passes`).

**The callback.**  `DatagramInv` says that what is gathered is a prefix of the
datagram and what the parser still has to read is its end, `PlainInv` that what was
received is what was seen and what waits.  Both are about `FlattenSeq`, whose
recursion is unfolded once, in `FlattenCons`.

**The configuration.**  `FlashInv`: programming only ever starts on a blank
sector, everything below `faddr` is the working copy and everything above is
erased; so whatever stops the write leaves bytes of one configuration and erased
bytes.  `Durable` needs that `complete` is cleared before the sector is touched.

**The forms.**  Each number is stored as an `int` over a narrower field, so it
spoils what lies behind it.  `Converted`: as numbers and parameters are converted
in the order of the packed structure, nothing that was converted is behind a later
store (`Places`: each number ends before the next begins).  `ParsedFollows` carries
this from block to block, with the first parameter that cannot be read.  Assumed of
the structure: its fields do not overlap and come in order, none is wider than an
`int`, and the gateway has single bytes as the local address does.

**The console.**  The ring invariant is `TypeOK` and `CountFits`: the handler adds
only below `CMD_MAX_CNT`, and while `main()` is past its check the handler can
only add.  `QueueInv` adds, as long as no increment was lost: `iCmdSave` is
`iCmdRead` and as many places as commands are owed, the places between hold them,
and `cmdCnt` counts them and the one `main()` has in hand.

**The lines typed** are defined on the whole byte string: a CR counts if it is at an
odd place of its run of CRs, since the one before takes it for the byte that should
be LF.  `CountsIs` turns this into what one byte needs: a CR counts unless the byte
before it is one that counts.  From it follows what one more byte adds to the CRs
that count, the lines ended and the text under way (`CountsAppend`, `EndedAppend`,
`TextStep`).  `TypedInv` then says where in the definition the handler stands: until
it goes deaf, `cr` says whether the last byte counts and `buf` is the text under way
as far as it fits.

**The pool.**  `Disjoint` and `MapExact` hold between calls only because of what
holds within them, so `PoolInv` has a part for each loop.  During the search the
`cmemb` blocks above `offset` are free, the block after them is used or the bank
ends there, and no gap above is large enough: the last part makes the failure at
line 110 justified.  While marking, the region lies apart from all live ones and
the map is exact but for the marked prefix; while clearing, but for the suffix
not yet cleared.  That two intervals are disjoint follows from the map at their
first blocks: a free block is in no live region.

**The start.**  `BootInv` says of each stage which pointers are set (`Control`), that
every pointer that counts has its own live region and that no region is live
without one (`Owned`): so when the last pointer is freed the bank is empty, and a
retry begins as the first attempt did.  As every attempt begins with an empty bank
and only takes, regions are piled from its end downwards (`Piled`), which is where
the report buffer's place comes from.

**lwIP's timers.**  `AgeInv`: as long as the true age of a timer fits the word, the
difference in `u32` is that age; a timer found young in this turn is no older than
its period plus what the turn took; one that waits for this turn may be a whole
turn older.  Hence two turns, and hence the assumption that a period and two turns
fit the word.

**The ticks.**  `TickInv`: within a round `timer_cnt` is `tick * cycle + (since + 1)`,
the interrupts of the phases before and those of this one; it is 0 again after the
last.  `Division` reads the phase back from the count.

**Reception.**  `RingInv`: the buffers that are not the DMA's are consecutive in
the chain, from the one in hand to the DMA's current one.  A step of the DMA
extends this interval at its end, `Take` and `Release` shorten it at its
beginning; so the buffer in hand is never the one the DMA writes.  For `RxFifo` the
interval is read as a sequence (`Held`); `ChainTail` and its likes say what a step at
either end does to it.  `WaitInv` adds that the handler leaves its loop with an
empty ring unless a long frame came, so that what waits is counted by `burst`.
That the ring then has room for the next frame, which announces them, needs
`MaxBurst < RxN`: a hypothesis of `NoFrameForgotten` alone, as fewer than `RxN`
frames arrive in the few instructions between the last look and the clearing of NIS.

**Transmission.**  `TxInv` holds while no output of the interrupt falls into one of
`main()` and none is copied into a full ring, the two cases the run exhibits: the
descriptors from the DMA's to `DMATxDescToSet` are due, hold what was handed over
and are in the order in which it was.

**The bus.**  `TimerInv` ties the registers to the point a delay has reached
(`DelayInv`: while it waits, `VAL` is what is missing of it) for the interrupt
always and for `main()` until a delay of the interrupt fell into it (`cut`); both
are in a delay only after such a fall.  `SpaceInv` adds that as many ticks have
passed since the last access as of the delay behind it, and that after an access
of the interrupt a delay of `main()` under way counts as cut.  `Spaced` holds
although `main()`'s delay may be cut, because the interrupt that cut it delayed
after its own last access.

**The reports.**  `ByteInv` numbers the bytes of each UART round and round: the
FPGA's buffer continues what was read, what was read continues what was reported,
a reset in between starts anew.  `HeadInv` says which bytes of the report stay
between reports.  The check sum is a `FoldLeft`; `FoldAppend` is what one more byte
adds to it, `SumWithCheck` that the byte appended makes it 0.

**Recursion.**  The library's induction theorems take an operator as parameter,
which the installed provers cannot instantiate; `WFMin`, on which they rest, does
not.  `Induction` is derived from it for a property given as the set of numbers that
have it, and the functions and folds that the models define by recursion are shown
to exist, stage by stage, before anything is said about them (`SumsExist`,
`StagesExist`, `ConvertIs`, `ParsedIs`).

The assumptions are the named `ASSUME`s of each module, which TLC evaluates on
each run: sizes are positive, `U32` exceeds the counts, `Data` and `Bodies`
are strings of bytes, a period and two turns fit the clock, the short delay is no
longer than the long one, counts of the UARTs are bytes, the structure is packed.

Proved and in no run: the type invariants of the modules with proofs, `BufferInv`,
`MessageInPlace`, `PendingUntilRaced`, `FlashInv`, `HeaderInUse`, `HighestFit`.
Every safety property of a passing run is proved.  Only model-checked: all liveness (`Drains`, `BackInService`,
`AllServed`, `BoardUp`, `PairsServed`, `LinkServed`, `DelayEnds`, `RxServed`,
`TxServed`), which is beyond the prover.

## 7. Not modelled

* lwIP, httpd, ST's libraries and CMSIS, all but some 2700 of the repository's
  135 thousand lines, are third-party code taken over as they are.  lwIP appears as the
  environment that calls `udp_demo_recv` and `low_level_output` and may run out of
  pbufs.  With `SYS_LIGHTWEIGHT_PROT` 0 its free lists (`memp.c`) and control
  blocks are exposed to the nesting that `EthTx` shows for the driver; that part
  is not modelled.
* `wdg.c` has no caller; LEDs are outputs nothing reads.
* `testUart`, `updateConfig`, `myrealloc` and `mem_perused` have no caller.
* Register contents: the set-up of MAC, PHY, FSMC and UARTs, which is written once
  at start; the FPGA's transmit side, of which the code reads a count it does not
  use.
* The button during start-up, which rewrites the configuration `main()` is reading:
  it ends in a reboot.
* The text of the web pages.

## 8. Plan

No safety property is left to TLC alone.  Worth doing next: the refinement of a
FIFO by the console's ring, as long as no increment is lost, by the mapping
`QueueInv` suggests; and, for the liveness properties, the part that is a safety
property, such as the bound on the steps between a message and its removal.
