# A TLA+ model of the eBox framework

eBox is a C and C++ framework for Cortex-M microcontrollers. This directory
holds TLA+ modules of its concurrent core, the TLC configurations that check
them on small instances, and TLAPS proofs for every value of the constants:
the kernel, both halves of the Uart, the DDC link, the SPI bus, the step motor
and the internal flash. `PROJECT.json` maps every definition to its source
lines, lists the components, the hazards and the findings, and gives for every
property a plausible bug ("mutant") that breaks it.

To run, in this directory: `tlc -config EboxOs.cfg MCEboxOs` (likewise the
other runs of section 3), `tlapm EboxOsProofs.tla` (likewise the other modules
of section 4; each takes seconds to a few minutes).

## 1. The system

The Cortex-M3 port (`src/ebox/hardware/cortex-m3`) is the one modelled; the
other ports repeat it. One processor runs the application; interrupts preempt
it and each other by priority. Every component below is driven by three kinds
of actor: the application (or the tasks of `os/ebox_os`), interrupt handlers
(SysTick, PendSV, USART, timers), and the hardware that works beside the
processor (shift registers, DMA channels, timers, the line).

| component | state | operations | met by | hard behaviour |
|---|---|---|---|---|
| `ebox_os` kernel | `OSRdyTbl`, `OSPrioCur`, `TCB[]`, `OS_Tcb_CurP`, `OS_Tcb_HighRdyP`, `TIME_SW` | `os_time_delay`, `os_task_suspend`, `os_task_resume`, tick, PendSV, idle hook | tasks, SysTick callback, PendSV | the tick falls between a critical section and the assignments after it |
| Uart, transmit | `_tx_ptr`, head, tail, `TXEIE`, `DR` | `write`, `flush`, `availableForWrite`, `interrupt`, TXE handler | program, handlers, USART interrupt | ring drained from two sides; calls in handlers, or with interrupts masked |
| Uart, receive | `_rx_ptr`, head (or `CNDTR`), tail | `read`, `available`, `peek`, `begin`, `end`, RXNE handler | program, USART interrupt, DMA | overflow inside a `read`; reopening in DMA mode |
| DDC link | `ddc_id`, `list_send`, `list_wait_ack`, receiver state | `ddc_nonblocking`, `ddc_loop` | two boards, a lossy line, a byte interrupt | loss, retry under a new id, late replies, a pointer to a dead stack frame, junk taken for a head |
| byte fifo | `in`, `out`, buffer | put, get | byte interrupt and program | a put between the steps of a get; wrap of the counts; a size that is no power of two |
| tick and time | `milli_seconds`, callback table | `micros`, `millis`, `delay_ms`, `attachSystickCallBack` | program, SysTick | reads across a tick; wrap of 32 bits |
| SPI bus | `_busy`, `current_dev_num`, registers | `take`, `release`, `config` | tasks | test-and-set that is not atomic; a timeout nobody looks at |
| step motor | ramp (`srd`), compare channel, statics of `callback` | `move`, `callback`, the timers' handlers | program, timer interrupt, the channel's toggling | statics shared by all motors; a compare value that is never met; a match inside the callback; a handler that clears another channel's flag |
| internal flash | pages, controller | `write` | program, reset | reset between erase and program; odd lengths; an error that stays |
| lists, vector | nodes, cached node; capacity | add, remove, get; resize | one caller | stale cache and capacity |
| events | last value, flags | `EventVar::loop` | program, interrupt that writes the variable | the variable changes between four reads |
| I2C | bus lines | transactions | program, devices | errors overwritten |
| input capture | overflow counts | capture and overflow interrupts | timer | counts shared among channels |

How they interact: SysTick's handler (`mcu.cpp`) calls the kernel's tick
(`os_time_tick`) through `attachSystickCallBack`; the DDC link reads and writes
through the Uart, its receive interrupt fills a byte fifo that
`ddc_recv_process` empties in `ddc_loop`; `flush` asks the NVIC for the
priority it runs at; `take` waits with `delay_ms` and the timeout macros, which
read SysTick's count.

What makes each correct:

- kernel: nobody is lost, the highest ready task runs, stacks are never mixed,
  delays end, the idle task stays available;
- Uart, transmit: a FIFO queue of bytes whose calls return and whose bytes leave;
- Uart, receive: no byte lost without an overflow, one per overflow, in order,
  `available` honoured, a reopened port empty;
- DDC: a message that asks for a reply is not forgotten before the peer has it,
  is not queued twice, and a reply answers the frame it was made for; the
  receiver hands over the frames that were sent, in order, each at most once,
  and a frame read whole is never missed;
- fifo: bytes wait in cells of their own;
- time and SPI: one user of the bus, with its own settings; the timeout of
  `take` is neither cut short nor overrun; nobody leaves the bus taken;
- flash: bytes that were not to be written survive, bytes reported as written
  are stored; motor: the steps asked for, and a move that ends;
- lists, vector: the sequence operations they name; events: each change of the
  variable that persists is reported; I2C: an error is reported.

`PROJECT.json` lists the hazards at their lines, with the properties that
catch them or the reason none does.

## 2. Modules, and how they correspond to the code

`EboxOs` — `os/ebox_os` from `OSStart` on. Variables carry the source's names.
`regs` is the context in the processor's registers (which task, where it stands
in a kernel call, its locals); `StkAddr[t]` the context saved on a task's
stack. A kernel call is one step for its critical section (`DelayCritical`,
`SuspendCritical`, `ResumeCritical`) and one step each for the comparison with
`OSPrioCur`, every turn of the search loop, `OSPrioCur = i`,
`OS_Tcb_HighRdyP = &TCB[i]` and `OSCtxSw`, since interrupts are enabled there.
`Tick` (SysTick, masked) is one step, including that `os_time_sw` marks READY
`TCB[OSPrioCur]` and not the task whose delay ended (os.c:207). `PendSV_Handler`
is the assembly of `os_cpu_a.asm`. `IdleFirst`, `IdleCalibrated`,
`IdleMeasured` are the idle hook. `torn` is a history variable: a scheduling
tick has fallen into a window of a call. `OSPrioHighRdy` is never read and left
out.

`ByteQueue` — the abstract byte channel. `UartTx` — the transmit side, one step
per access to an index or to `CR1`: `write` (`WriteCall` .. `WriteEnable`),
`flush` (`FlushLoop`, `FlushTest`, `WaitTxe`), `tx_bufferx_one` (`TxOne`),
`availableForWrite`, `interrupt`, and `USART_IRQHandler` as one step (no client
preempts it). `UartTx` implements `ByteQueue` with
`queue <- UnderWay`: the data register, the byte in the hands of
`tx_bufferx_one`, and the ring from tail to head. The constants `HasIsr`,
`IsrPolls`, `IsrNests` say whether an interrupt handler is a client, whether
`flush` polls there, and whether the USART interrupt preempts it.

`UartRx` — the receive side; bytes are numbered as they arrive. `ArriveDr` and
`ArriveDma` are the line, `RxBufferOne` and `ClearRxne` the handler before and
after the user's callback, `ReadCall` .. `ReadStore` and `AvailCall`, `Avail`
the accesses of `read` and `available`, `End` and `Begin` the port, reopened in
the mode it had. The indices are not volatile: a later access may use a value
loaded before (`Loaded`). `displaced` is history: an RxDMA port has been opened
with tail off slot 0, where the channel starts.
The projects build at -O0, where each access loads again; the model allows both.

`AtLeastOnce` — the abstract reliable link. `Ddc` — two boards, each with the
two lists and the steps of `ddc_loop`. `SendFrame`, `SendReply`, `SendEnd` are
one turn each of `ddc_send_list`; `CheckDue`, `Count`, `Retry`, `CheckEnd` the
walk of `ddc_check_ack_list` over `list_wait_ack`, entry by entry, which also
reaches the entries its own retries append; `Dropped` is `list_delete_by_val`;
`RecvReply` and `RecvData` are `ddc_analyze_frame`. Payloads are model
values and frames whole: a frame with a bad CRC, or cut by a full fifo, is
lost (`Lose`). The reply that `ddc_analyze_frame` builds on its stack is a
pointer in `list_send`; when it is sent it shows the last reply made, or junk.
`Ddc` implements `AtLeastOnce` with `pending` the messages that wait for a
reply and `delivered` those whose callback ran.

`ByteFifo` — the arithmetic of `core/fifo.c`: counts that wrap, the cell of a
count by a mask, the room. `LossyLink` — the abstract line that `Ddc` is built
on: frames in order, at most once, nothing made up. `DdcRecv` — the receiver
below `Ddc`, byte by byte: the line (`LoseByte`), the interrupt that puts a byte
(`Put`, `PutFull`), the three steps of `ebox_fifo_get` (`GetLen`, `GetCopy`, and
the store of `out` at the head of `Parse`), and the `switch` of
`ddc_recv_process` (`InHead` .. `InCrc`). Frames are real bytes, so that a head
may show inside a payload. `whole`, `unread`, `crowded` and `calm` are history:
how far the current frame was read without a gap from `DDC_HEAD` on, which bytes
wait and how many had been lost when each arrived, whether more have waited than
have cells of their own, what was delivered as long as that had not happened,
and the first and the last byte read of the frame under way (`began`,
`latest`). `DdcRecv` implements `LossyLink` with `delivered <- calm`.

`SpiBus` — `take` and `release` of one bus by several tasks, one step per test,
store or poll, with the device number stored before the registers. Time passes
in units, `PerMs` to a millisecond; `milli_seconds` and `micros` wrap each at
its own width, as `mcu.cpp` computes them. A task that got EWAIT goes on to
transfer and release, as the drivers do. `overtaken` and `missed` are history:
`overtaken` says that a second task has come on the bus through one of the two
openings there are.

`StepMotor` — `move` (`MoveOne`, `MoveMore`) plans a ramp, `Match` is the timer
channel in hardware (compare flag, toggled pin). The compare interrupt is two
steps, so that a match can fall between them: `Serve` enters the handler and
writes the next compare value, `callback` does the rest and returns to the
handler, which clears a flag (`Returns`). Which one is `Clears`: every handler
clears its channel's own flag but that of TIM3, channel 1, which clears TIM2's
(ebox_it.cpp:140); the constants `Tim2Ch1` and `Tim3Ch1` name the motors on those
two channels. `counter` and `step_count` are shared by all motors. A ramp
matters by its step counts; the delays between steps are free choices of
`Delay`. `alone` is history: the motor whose undisturbed move the counts `asked`,
`done`, `toggles` and `lost` are about, the last the toggles that came inside the
callback and whose flag was cleared with it.

`IFlash` — `Flash::write` as built: `Look` at a page's part of the request,
`ErasePage`, `ProgramHalfWord` for each turn of `write_without_check`, with
`FLASH_ProgramHalfWord` of the vendored library (`Refused` when the status still
shows PGERR, `Programs`), the controller's own refusal (`Unerased`) and the
core's fault at an odd address, `PageEnds`. `Reset` may come between any two.
`torn`, `odd`, `before`, `result` are history.

The `MC...` modules only fix constants for TLC; `MCDdcRecv` also states, as an
assumption that TLC evaluates, what the refinement of `LossyLink` needs of the
frames (section 4).

## 3. Runs

| run | cfg | shows |
|---|---|---|
| os | `EboxOs.cfg` | in every interleaving: types, `IdleAlwaysReady`, `ContextIntact`, `LockedOnlyByIdle`, `WaitingTaskCounts`; while no tick has torn a call: nobody is lost, the runner is the one the kernel thinks, the highest task is dispatched; always: the tick repairs a stale choice (`SchedulerRealigns`) |
| os_lost | `EboxOs_lost.cfg` | finding: `NoTaskLost` fails |
| uart_tx | `UartTx.cfg` | the transmit side is a queue (`IsQueue`), no byte is stuck, `availableForWrite` is kept, calls return, bytes leave |
| uart_tx_isr | `UartTx_isr.cfg` | finding: a write inside a write is lost |
| uart_rx | `UartRx.cfg` | no loss without overflow, one per overflow, order, `available` kept, with the port closed and reopened in either mode (but for the ring that `begin` of RxDMA displaces) |
| uart_rx_overflow | `UartRx_overflow.cfg` | finding: two overflows inside one `read` forget the ring |
| ddc | `Ddc.cfg` | a message that asks for a reply is delivered before it stops waiting, and waits once |
| ddc_reply | `Ddc_reply.cfg` | finding: the second of two replies is sent twice |
| ddc_recv | `DdcRecv.cfg` | byte by byte: the bytes put last stay in cells of their own, no payload overruns, a frame read whole is delivered, and the receiver is a lossy link that makes nothing up, across the wrap of the counts |
| spi | `SpiBus.cfg` | one task on the bus, with its own settings, until one is overtaken; nobody leaves it busy; `take` gives up neither early nor late |
| motor | `StepMotor.cfg` | an undisturbed move counts the steps asked for, with one pulse more (toggles are not promised on TIM3, channel 1), and ends |
| flash | `IFlash.cfg` | other bytes survive writes and resets; what is reported as written is stored unless the programming error stands |

### What the findings say

- `os_lost`: `os_time_delay` ends its critical section (os.c:173) before it
  changes `OSPrioCur`. If another task's delay ends in between, os.c:207 makes
  the *delaying* task READY with its ready bit clear: no tick counts it down
  again, only `os_task_resume` could bring it back. The `Untorn` properties
  show that such windows are the only cause.
- `uart_tx_isr`: `write` computes the new head on entry and stores it later.
- `uart_rx_overflow`: `read` does the same with tail, which the handler moves
  on an overflow.
- `ddc_reply`: DDC queues the address of a local array.

### Seen while modelling, with no run of their own

In the models, and excepted or left open by a property:

- Kernel: a task preempted after the search dispatches, when it resumes, what
  was the highest task then. `UntornDispatchesHighest` excepts it and
  `SchedulerRealigns` states that the next tick repairs it.
- Uart, reopened in RxDMA: `end` clears `_rx_buffer_head` (ebox_uart.cpp:245), at
  which this mode never looks; `begin` restarts the channel at slot 0 of a fresh
  buffer with tail where it was. Unless that is slot 0, `available` counts and
  `read` returns bytes that never came, although the comments at lines 237 and
  244 say that `end` clears the received bytes (in RxIt it does).
  `NoLossWithoutOverflow` and `InOrder` except this (`displaced`), and TLC
  refutes both without the exception.
- Uart: where `flush` runs in a handler it may neither send
  by itself nor be preempted, and waits for ever (`HasIsr` with `IsrPolls`
  FALSE); in the SysTick callback `nvic_irq_get_priority` (nvic.cpp:198) reads
  the wrong register (`IsrPolls` and `IsrNests`).
- DDC: the receive fifo has 1280 cells but a mask made for powers of two, so
  that when more than 256 bytes wait they share cells (`crowded`); a payload
  length of 0 makes the parser write behind the payload (ddc.c:106); the walks
  at ddc.c:405 and ddc.c:463 read `next` of a node they have freed.
- SPI: the header says (ebox_mcu_spi.h:35-37) that a device needs control of the
  bus to read and write, that one which cannot get it waits for ever, and that a
  bus which is not released keeps the others waiting. The code differs twice.
  `take` tests `_busy` (ebox_mcu_spi.cpp:493) and stores it eleven lines later,
  so two tasks can both have control. And it waits 200 ms, then returns EWAIT,
  which no driver looks at (w25xxx.cpp:119): the task transfers on the holder's
  bus, and its release frees the bus under the holder. `OneUser` excepts what
  follows (`overtaken`); `TakeInTime` and `WaitsFullTimeout` are about the
  timeout as the code has it, not about the header's waiting for ever.
- SPI: when `micros` wraps behind the end of a `delay_ms`, `take` waits on for a
  whole round of `micros` (`missed`).
- Step motor: `move(1)` never moves and leaves `status` true
  (ebox_step_motor.cpp:94); each move makes one pulse more than steps; when
  `set_ccr` computes 0xffff (line 291) no match comes; a compare flag left over
  makes the first interrupt of a move come at once; a match while the callback
  runs toggles the pin and loses its interrupt, since the flag is cleared after
  the callback (ebox_it.cpp:181): a short delay then costs a round of the counter;
  two motors that move at once share `counter` and `step_count` (line 402);
  `last_accel_delay` keeps the value of an earlier move (line 463).
- Step motor on TIM3, channel 1 (PA6): the handler clears TIM2's flag after
  serving it (ebox_it.cpp:140). The motor's own flag stays up, the handler is
  entered again at once, and the move is counted to its end with hardly a
  toggle; an interrupt of a motor on TIM2, channel 1, is lost as well (`Clears`).
  `StepsAsAsked` promises the count there, and the toggles on the other channels.
- Flash: a reset between the erase and the rewriting costs the page's other
  bytes; some early returns leave the controller unlocked.
- Flash: half words are programmed whatever the number of bytes. After an odd
  length the byte behind the range is changed too (ebox_iflash.cpp:148 says other
  data stays; `OthersKept` excepts that byte); where it is not erased the half
  word is refused, and `write` returns its length all the same (line 145 says -1
  on an error). PGERR then stays set, and every later write to erased bytes
  stores nothing and reports success, until a reset. `StoredAsAsked` excepts the
  time while the error stands and says what it takes to raise it. The
  repository's own example writes 1 and 15 bytes.

Outside the models: `os_init` attaches the tick before it turns the scheduler
off (os.c:245); `SoftSpi::take` never counts its timeout; `micros` reads its
two halves at two instants (mcu.cpp:86); `ddc_id` wraps (ddc.c:240);
`Vector::reserve` does not store the capacity (vector.h:97); a read over I2C
goes on after a failed write of the register address (i2c.cpp:52); the timer
interrupts of `Timer` and `StepMotor` share one handler, that of the class
which registered last (ebox_it.cpp:44).

### Bounds, and why they are enough

- os: two user tasks and the idle task (`OS_TASKS = 2`): one to delay, one to
  expire and preempt it, idle to fall back to, so every pair of priorities and
  every window occurs. Delays up to 2 ticks: a count that has to pass through a
  value other than the one that wakes it. `DlyMod = 3` puts the 32-bit wrap
  one step behind, so that a wrapped count would show. `CalcTicks = 1`: only
  "less than" and "reached" matter. The proofs remove all four bounds.
- uart_tx: `Size = 3` gives a ring that is empty, partly full, full and
  wrapped; two byte values tell a swap or a repetition apart.
- uart_rx: `Size = 3`; seven arrivals fill, overflow and wrap the ring twice;
  `MaxNested = 1`: at most one run of the handler inside one `read`, the case in
  which the promise of the header holds (`uart_rx_overflow` lifts it to 2).
  Ports are opened in either mode and reopened any number of times.
- ddc: two messages with and one without a reply, so that there is traffic in both
  directions; `Timeout = 2` (20 in the code) for a count that is not reached at
  once, as it must be above 1 for the retried entry, which the same walk
  reaches again, not to be due at once; ids 0..3 per board, below the
  wrap of `uint16_t`, enough for both messages and their retries or replies;
  two frames on the line each way, so frames overtake no one but are lost and
  queued behind each other. The proofs remove all of these but the wrap of ids.
- ddc_recv: fifos of 8 bytes (a power of two) and 12 (not one; the mask keeps 4
  apart); the counts wrap at 16 (`Bits = 4`), and the 29 bytes of the two frames
  take them past it, with bytes waiting on both sides of the wrap and a `get`
  under way (the mutant of `FreshBytesKept` wraps one count early); payloads up
  to 8 bytes and a counter that wraps at 12; up to two bytes lost, from the
  first frame, so that the receiver enters the second one in the wrong state and
  has to find its way back. The frames' payloads hold the bytes of the head, alone and in
  a pair, at the end of a frame, and across payload and CRC. The proofs remove
  these bounds.
- spi: two tasks, one to overtake the other; three units to a millisecond, so
  that reads inside one differ; `milli_seconds` wraps at 8 and `micros` at 12
  units, at different instants; `Timeout = 2`; a task polls again within two
  units (`MaxLag`), less than a millisecond. The proofs remove these bounds; of
  `MaxLag` they assume that no clock goes round between two polls.
- motor: two motors, to disturb each other, one on TIM2, channel 1, the other on
  TIM3, channel 1; moves of 1 and 4 steps, acceleration and deceleration that
  are equal or differ by a factor of three either way, and a limit of one step,
  so that ramps are cut by the limit or never reach it; `Period = 2` and two
  delays, with sums that stay in range, wrap, and give the value that never
  matches.
- flash: two pages of four bytes, so that a write of six crosses from any
  address; lengths 1, 2, 4 and 6; three calls: one to leave an error or a torn
  page, one that meets it, one after it.

Deadlock is checked everywhere except with `StepMotor`: motors that are at
rest with `MaxCount` reached, or wait for a match that never comes, may all
stand still. In `DdcRecv` the end of all frames is a step of its own (`Done`).

### Fairness

- `EboxOs`: SysTick keeps firing (hardware), a pending PendSV is taken (lowest
  priority, so once no handler runs), and the processor executes the code
  in front of it: a task inside a kernel call, or the idle loop, goes on. A
  task in its own code is free never to call the kernel again.
- `UartTx`: the shift register empties, an enabled unmasked interrupt is
  served, a call in progress goes on. Whether a client makes a call, masks
  interrupts or disables TxIrq is never forced.
- `StepMotor`: a running counter meets a compare value in its range (`Match`),
  a pending enabled interrupt is served (`Serve`; it is set up with priority 0),
  and its callback returns (`callback`). `MoveEnds` asks nothing
  of a motor that another one's handler disturbs, so no handler has to be fair
  to another. Whether the program moves a motor is never forced.
- The others state none. In `UartRx` a reader may never read; in `Ddc` every
  reply may be lost or junk for ever, and a bounded number of ids stops the
  retries; in `DdcRecv` the line may stop; in `SpiBus` the question is how long
  `take` waits, not whether it ends, so `WaitsFullTimeout` and `TakeInTime` are
  safety properties of the time waited, with `MaxLag` in the place of fairness;
  `IFlash` is about calls cut by a reset.

## 4. Proofs

Everything below is proved for every value of the constants that satisfies the
named assumptions of the module (`ASSUME ...Assumption`), which TLC evaluates
in the runs. None of the invariants is inductive as it stands; each module
proves a stronger one.

`EboxOsProofs` — for every `OS_TASKS`, `MaxDelay`, `DlyMod > MaxDelay` and
`CalcTicks`, with ticks anywhere: `TypeCorrect`, `IdleStaysReady`,
`ContextsStayApart`, `LockIsIdles`, `SleepersCount`, and, until a tick tears a
call, `NobodyLost`, `RunnerReady` and the action property `HighestDispatched`.
`Base` adds what the unconditional ones rest on: only the idle task is ever
inside the idle hook (`CodeOfTask`), and `OSPrioCur` names the idle task only
when idle runs, a switch to it is pending, or the running call is about to
dispatch it (`IdleNamed`). Without `IdleNamed` a user task could reach
`os_time_delay` with `OSPrioCur` naming idle and take the idle bit off the
table. `Untorn` adds what holds until a tick tears a call: a task that is
switched out does not stand in a window (`Safe`), the running task agrees with
the kernel about itself and about what its search has seen so far
(`RunnerKnown`), and a pending switch leads to the highest ready task
(`SwitchKnown`). One lemma per action shows `Base` preserved, five more show
`Untorn` preserved for the groups of actions. The argument for `Untorn`: a tick
outside the windows finds the running task in its own code, in a comparison
that will fail, or behind its last assignment, so what it saves can do no harm
when restored.

`UartTxProofs` — `TypeCorrect` for any clients; with the main program as the
only client (`~HasIsr`; for a handler that writes see `uart_tx_isr`) `NoByteStuck`,
`RoomKept` and the refinement `ImplementsQueue` of `ByteQueue`, for every size.
The invariant says who may stand where (`Alone`), what a write under way has
reserved (`Writing`), that a byte in the ring has an enabled interrupt, or a
call that will enable it, behind it (`Enabled`), and what room was granted
(`Promised`).

`UartRxProofs` — for both modes, with the port reopened at will: `TypeCorrect`
and `AvailableKept`; `NothingLost`, until `begin` displaces the ring of RxDMA;
`OneLost` with at most one handler run inside a `read`; `ReadInOrder` under both
conditions. A closed port is at rest, and empty in RxIt (`Closed`); a promise of
`available` is covered by the ring until it overflows (`Calm`); inside a `read`,
tail is one step at most from what was loaded (`Near`); and the unread bytes lie
in the ring in the order of arrival, newer than the last one returned (`Order`).
An RxDMA port that is opened with tail at slot 0 starts with nothing to read,
which is what the last needs of `begin`.

`DdcProofs` — for every set of messages, `Timeout`, length of line and
number of ids: `TypeCorrect`, `NoDouble`, and the refinement
`ImplementsAtLeastOnce` of `AtLeastOnce`. `Linked` says what an id stands for:
a board draws it once, waits for one message under it and sends that message
under it, and a reply that carries it, made, queued or on the line, is a reply
to a message that was delivered. Junk replies break nothing, because they are
replies that were made for some other frame or fail the CRC. `Distinct` is
the retry's replacement of its own entry, and `Kept` the promise itself.

`SpiBusProofs` — `TypeCorrect`; `OneUserAtATime`, from `Orderly`: until a task
is overtaken one task at most is on the bus, what it has configured is what
the registers hold, and `_busy` is 1 while it uses them; `BusIsGivenBack`,
whatever overtakes what. And for every width of the two clocks and every
`Timeout`: `FullTimeout` (no EWAIT before the timeout) and `AnswersInTime` (an
answer within the timeout, a `delay_ms` and the lags of the polls, unless
`micros` wrapped past the end of a `delay_ms`). `TimeAssumption` says that the
timeout is shorter than the round of `milli_seconds` (200 of 2^32 in the code)
and that the clocks wrap together; `LagAssumption` that a task polls again
before either clock has gone round. `Elapsed` ties the end that `take` computed
to the time waited: it lies `delta` counts of `milli_seconds` back, round the
wrap, and the wait is `delta` milliseconds give or take the one that had begun.
`Prompt` bounds the wait at each stage of the loop, and inside a `delay_ms` says
what `micros` must show after `d` units (`Reached`).

`StepMotorProofs` — `TypeCorrect` and `StepsCounted` for any number of motors,
steps, rates and limits, and any motors on the two channels. The lemma
`DecelRange` shows for all numbers that `move` plans at least one decelerating
step and at most all but one; `Followed` then ties the steps counted to the
ramp (`Ramp`) and, where the handler clears its own flag, the toggles to the
interrupts (`InStep`): a flag that is up stands for the toggle after those that
were counted, and while the compare register waits for its first match and a
flag is up, the interrupts have caught up with the toggles. `Served` says that a
callback finds its interrupt enabled and its flag up. On TIM3, channel 1, the
theorem promises the count alone.

`IFlashProofs` — `TypeCorrect`, `OtherBytesKept` and `BytesStored` for every
even page size, number of pages, length, address and buffer, with a reset
anywhere. `BytesStored` has one exception, the standing programming error, and
shows that it takes an odd address or length since the last reset. The
invariant follows the request through its pages (`Request`), the merged page
through the loop (`Loop`), and what earlier pages have stored (`Stored`); as
long as the error does not stand, what is ahead of the loop is still erased
(`Written`).

`DdcRecvProofs` — for every fifo size (a power of two or not), every width of
the counts above it, every sequence of frames with payloads up to `MaxPayload`,
and every pattern of loss: `TypeCorrect`, `BytesKept`, `PayloadFits`, the action
property `WholeFrames`, and the refinement of `LossyLink` (`Refinement`).

- The mask is bit arithmetic (`ByteFifo`: `BitAnd`, with a width `Bits`), so the
  module starts with binary digits: the cell of a count lies below the size, and
  counts less than `Apart(size)` from each other (2 to the number of low ones in
  `size - 1`) have different cells (`CellRange`, `ApartIs`, `OwnCell`).
  `FifoInv` says that what waits is what lies between the counts and comes from
  the line, and that the byte a `get` has copied is the first of it until more
  wait than the mask keeps apart.
- `ParserInv` ties `counter` and the state to the number of bytes stored
  (`Stored`), which bounds every store but those after a length of 0.
- `Tracked` says where the receiver stands when it has read the first `i` bytes
  of a frame without a gap, the first of them in `DDC_HEAD`; with
  `DistinctAssumption` (frames differ on the line: `ddc_id` counts) the last
  byte can only hand over that frame.
- The refinement needs that bytes stay in the order of the line (`InOrder`: and
  that between two read one after the other no more are missing than the count
  of lost bytes has grown), that the frame under way lies behind what was handed
  over (`Begun`, `Newer`, `Passed`), and `Spelt`: whatever the receiver has
  stored that reads like the beginning of a frame was read at that frame's own
  place on the line, or at one of the places where a loss can make it appear.
  Payloads are free, so such places exist; a payload can even spell a whole
  frame, which no receiver could tell from a sent one. The theorem is therefore
  about frames of which no loss of `MaxLost` bytes makes up one to its end. It
  says so with a set `E` of places that is closed under one more byte read
  (`Unmistakable(E)`): where bytes can stand in for the third to the `i`-th
  byte of a frame, with how many lost in between. `MCDdcRecv` computes that set
  for its frames, whose payloads do hold heads, and TLC finds it to be one; for
  frames whose payloads hold nothing like another frame it is small. The CRC
  itself is not computed: it is taken to tell the frames sent from all else.

Only model-checked: liveness (`SchedulerRealigns`, `CallsReturn`, `BytesLeave`,
`MoveEnds`), which is out of the prover's reach. Every safety invariant and action
property that a passing run checks is also a theorem; that the frames of
`MCDdcRecv` are `Unmistakable` is evaluated by TLC, for these frames.

## 5. What is not modelled, and why

- Kernel: `os_init` up to `OSStart` and the creation of tasks at run time, the
  CPU-usage and stack reports (numbers shown to the user), kernel calls from
  interrupt handlers (the code has no provision for them).
- Uart: `begin` of the transmit side, `peek` (changes no state), the RXNE
  interrupt racing DMA for the data register in RxDMA (taken to be won by
  DMA), `begin` in another mode than before, framing. A TxIrq callback to the
  user has no effect on the ring and is left out.
- DDC: the heap: `ebox_malloc`, `ebox_free` and `ebox_cfun.h` are not in the
  repository. Freed blocks are taken to stay intact until the next allocation,
  which is what the loops at ddc.c:405 and ddc.c:463 rely on. The wrap of
  `ddc_id` is out of bounds, and the CRC is taken to tell frames apart.
  Transfers of several bytes through the fifo and `RingBuf` have no user
  outside the examples.
- Time: `attachSystickCallBack` and its table, `delay_us`, and the two halves
  of `micros`.
- SPI: transfers and DMA (register access), `SoftSpi`. Step motor: the values
  of delays and the direction, and a flag that waits for its handler longer than
  a round of the counter. Flash: the build with `FLASH_OVERRIDE = 0`,
  offsets outside the area, `read`.
- Lists, `Vector`, events, I2C and input capture: sequential, or small enough
  that what can go wrong follows from a few lines; `hazards` names the lines.
- Left out altogether: wrappers of single peripherals, drivers of single
  chips, text formatting, vendored libraries, and the ports that repeat the
  Cortex-M3 one (see `components`). They make up nearly all of the
  repository's lines.

## 6. What is left

In this order: `EboxOsBoot`, `os_init` .. `OSStart` with the tick already
attached; `UartTx` with a handler as client where the handler only flushes;
`SoftI2c`, `EventVar` and `InCapture`; lists and `Vector` as pure operators
against sequences. Each run asks a question of its own; the disagreements that
section 3 lists without a run are stated in the comments of the properties they
touch and excepted or left open there.
