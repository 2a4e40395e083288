# Keypad_CH: TLA+ specifications of the CANopen keypad firmware

The firmware drives a keypad with eight keys and RGB lights on a CH32V203
microcontroller. It is a CANopen slave, built on CANopenNode over FreeRTOS. This
directory specifies the parts of it where order, interruption, loss or restart
decide whether it is right, checks small instances with TLC and proves the safety
properties of every component model with TLAPS for all values of its constants.

1. [The system](#1-the-system)
2. [Modules and their code](#2-modules-and-their-code)
3. [Runs, and what they show](#3-runs-and-what-they-show)
4. [Bounds](#4-bounds)
5. [Fairness](#5-fairness)
6. [Proofs](#6-proofs)
7. [Disagreements between code and documentation](#7-disagreements-between-code-and-documentation)
8. [What is not modelled](#8-what-is-not-modelled)
9. [Plan](#9-plan)

To check a run: `tlc -config MCCanTx.cfg MCCanTx.tla`; to check proofs:
`tlapm CanTxProofs.tla`. `PROJECT.json` lists components, runs, the mutation of
the model that each property detects, the source lines of every definition, the
hazards and the theorems.

## 1. The system

One processor, five tasks and two of the FreeRTOS kernel, and the interrupts of the CAN controller.

| Component | Source (under `src/`) | State | Operations |
|---|---|---|---|
| Process task, priority 10 | `User/process.c` | `TempEvent`, `key_mask`, `data` | one key event per tick into 0x2000.01, `OD_requestTPDO`; write handlers of 0x2001..0x2005 |
| Mainline CANopen task, 7 | `User/CanOpenNode.c` (`vCanOpenProcess`), `CANopenNode/CANopen.c` (`CO_process`) | the EMCY, NMT, SDO and LSS objects | start-up, `CO_CANmodule_process`, `CO_NMT_process`, `CO_SDOserver_process`, `CO_EM_process`, reset |
| Periodic CANopen task, 5 | `User/CanOpenNode.c` (`vCanOpenPeriodicProcess`) | the RPDO and TPDO objects | `CO_process_RPDO`, `CO_process_TPDO` |
| Keyboard task, 5 | `User/keyboard_task.c` and a library in a submodule | `STATUS`, `COUNTERS`, a queue of 16 events | debounce, post makes and breaks |
| Default task, 3 | `User/system_init.c` | event group | starts the LED driver, feeds the watchdog while `RESTART_DISABLE` is set |
| Timer task of the kernel, 14 | `FreeRTOS/timers.c`, `event_groups.c` | queue of pended calls | clears `RESTART_DISABLE` after a bus-off |
| CAN driver | `CANopenNode/keypad/CO_driver_ST32F103.c`, `HAL/hal_can.c`, `Peripheral/src/ch32v20x_can.c` | `txArray`, `rxArray`, `CANtxCount`, `CANerrorStatus`, three mailboxes | `CO_CANsend`; transmit, receive and bus-off interrupts |
| Emergency producer | `301/CO_Emergency.c` | `errorStatusBits`, `fifo` and its pointers, `fifoOverflow`, error register | `CO_error`, `CO_EM_process`, object 0x1003 |
| NMT slave, heartbeat | `301/CO_NMT_Heartbeat.c` | operating state, `internalCommand`, heartbeat timer | `CO_NMT_receive`, `CO_NMT_process`, `OD_write_1017` |
| SDO server, object dictionary | `301/CO_SDOserver.c`, `301/CO_ODinterface.c` | `state`, `CANrxNew`, buffer, sizes, toggle bit, timeout | `CO_SDO_receive`, `CO_SDOserver_process` |
| PDO | `301/CO_PDO.c` | flags, timers, `receiveError` | `CO_PDO_receive`, `CO_RPDO_process`, `CO_TPDO_process`, `CO_TPDOsend` |
| Settings | `User/flash_data.c`, `HAL/hal_flash.c`, `User/process.c` | `SettingsREG`, one flash page | `vFDInit`, `vFDSetRegState`, `vFDWtiteReg`, the write handlers |
| LED driver | `User/led.c` | `LED_ON`, blinking, brightness, the SPI buffer | timer and DMA interrupts, setters called by the handlers of 0x2001 to 0x2003 |
| Kernel | `FreeRTOS/queue.c`, `tasks.c` | ready and delayed lists, pending ticks and tasks, tick counter; ring and lock of a queue | sends, receives and sends from interrupts, delays, the tick, suspension of the scheduler |

How they interact:

- The mainline and the periodic task hold one recursive mutex, `co_mutex`,
  around all their CANopen work. A critical section protects only
  `CO_CANsend`'s last lines and variables that may be mapped to a PDO.
- The process task takes no lock: it has the highest priority and writes
  0x2000 and the request flags of the TPDO between any two instructions of the
  CANopen tasks.
- The receive interrupt leaves RPDOs, NMT commands and SDO requests in slots of
  one message each; the tasks test and clear a slot at different moments.
- The transmit interrupt sends what found no mailbox; `CANtxCount` decides
  whether it looks.
- Write handlers that the SDO server calls erase and program the flash page.
- Retransmission is off: a destroyed frame is not repeated.
- The bus-off interrupt pends a call to the timer task, which clears an event
  bit; the default task then stops feeding the watchdog, which resets the node.
- The timer interrupt of the LED driver writes `LED_ON`, which the tasks set.

What is hard, per component, and what makes it right:

| Component | Hard | Right when |
|---|---|---|
| CAN driver | two clearings of RQCP, a count next to flags, three mailboxes that complete at any time | nothing accepted is lost; whoever waits is served |
| Keys to TPDO | a task that interrupts the sender anywhere, a bounded queue | no key sticks, the bus shows the keys in the end |
| Emergency | a ring buffer that overflows and reports its own overflow through itself | the last message on an error is true, overflow is told and ends |
| NMT | a slot tested and cleared apart, a heartbeat sent before the state changes | no command is lost, the heartbeat is the state |
| SDO server | an abort at any point, a timeout against a late answer, leftovers of an aborted transfer | values are whole, success is true, the server gets free |
| Settings | power failing inside erase and program | a write is all or nothing, the node starts again |
| RPDO data | the interrupt overwrites what is being copied | messages are applied whole, the last one stays |
| LED driver | blinking is done in the array the tasks set; a transfer the processor sleeps through | lamps are what 0x2001 says, frames go on |
| Tasks and locks | seven priorities, one mutex nobody checks for, a queue that refuses | the lock is sound, nobody starves, a bus-off restarts the node |
| Kernel | an interrupt between the test of a queue and the wait; ticks put off; a counter that wraps | nobody waits for what is there, waits last as long as asked for, messages come once and in order |

## 2. Modules and their code

Every component `X` below has the module `X`, an instance `MCX` for TLC with
one `.cfg` per question, and its theorems in `XProofs`; those about KeyTpdo and
NmtSlave are together in `TpdoNmtProofs`. Operators whose names end in `_Something` under a comment "Mutant"
are deliberately wrong variants; nothing in a specification uses them.

### CanTx: the transmit driver

A task that holds `co_mutex` fills a transmit object (`Fill`) and calls
`CO_CANsend`, which is `VerifyOverflow` and, in the critical section,
`SendLocked`. The transmit interrupt is `IsrBegin` (the test of RQCP and of
`CANtxCount`), one step per object of the scan (`IsrSend`, `IsrSkip`),
`IsrClearCount`, and `IsrEnd` (the second clearing of RQCP). `Complete(m)` is
the controller. Contents are version numbers, so that "newer" has a meaning;
`accepted` and `copied` are history variables. Which objects are polled before
they are refilled is a constant: emergency and SDO look at `bufferFull`,
heartbeat and TPDO do not.

`TransmitPromise` is what the owners of transmit objects rely on: contents handed
over are sent at once, or the object stays due until it is sent, once, with the
newest contents, and nothing else is sent. It is a safety promise: that a due
object is ever sent is not part of it, and not true of every object
(`cantx_stranded`). `CanTx` implements it
(`PromiseKept`): what is sent is what was copied to a mailbox, and due is every
object with `bufferFull` set. The other modules use the driver through
this promise: KeyTpdo, NmtSlave and SdoServer send in one step or leave the
message in the object, and Emergency waits while its object is due.

### KeyTpdo: from a key to the bus

`StartPass`, `KeyMake`, `KeyBreak`, `KeyUnchanged` are a pass of the keyboard
task; `KeyEvent` and `NoEvent` one iteration of the process task, atomic since
nothing preempts it; `TpdoReset`, `TpdoTrigger`, `TpdoRead`, `TpdoMark`,
`TpdoSend` the steps of `CO_TPDO_process` and `CO_TPDOsend` between which the
process task may come. `NmtChange` happens only when the periodic task does not
hold the mutex. The debouncing is not in the repository; its events are
alternating makes and breaks of each key.

### Emergency, and the abstract ErrorHistory

`CO_error` is an operator of its arguments and the state (the fifo, the bits,
the overflow flag), used by every action that reports: `RpdoProcess`
(`CO_RPDO_process`), `EmDriver` (`CO_CANmodule_process` and the error register
in `CO_EM_process`), `EmSend` and `EmReport` (a message sent, and the two reports of an overflow).
`NmtProcess` is the one consequence of the error register, the end of the
operational state. `ErrorHistory` says what object 0x1003 promises: the latest
changes, newest first, cleared by writing 0. `Emergency` implements it under
the mapping `history[i] = fifo[(fifoWrPtr - i) % FifoSize]`, the arithmetic of
`OD_read_1003`.

### NmtSlave

`Receive` is the interrupt; `ProcessHeartbeat`, `TestNone`/`TestCommand`,
`TakeCommand`, `ClearCommand`, `Verify` are `CO_NMT_process`, cut at each access
to the shared slot. `internalCommand` is not volatile and is read twice, so
`TakeCommand` may see the first or the second value. `SystemReset` is what
`vCanOpenProcess` does with a reset command.

### SdoServer

`Receive` is `CO_SDO_receive`. A call of `CO_SDOserver_process` is `Begin`
(flag and NMT state), `Lookup` (a new transfer: command, `OD_find`,
`OD_getSub`, attributes, `readFromOd`), `Test` and `Switch` (the state is
volatile and is read again for each), `Handle` with one operator per case,
`Timers` (flag cleared, timeout, full transmit object), `Transmit`, `Respond`,
and `Sent` for the downloads, whose state changes only after `CO_CANsend`. An
interrupt may come between any two of them. Data are parts of seven bytes and a
rest, identified by the transfer they came with, so that a mixture is visible.
The client is external: it keeps to the protocol, may give up at any time, and
frames are lost in both directions; other messages may hold all mailboxes, and
two answers in mailboxes leave in any order.

### RpdoData, LedDriver, and their composition Lights

`RpdoData` is the way from the receive interrupt to the mapped objects:
`Receive` is `CO_PDO_receive`; `StartPass`, `Discard`, `TestNew`, `TestOld`,
`Copy` (one object), `CopyEnd`, `EndPass` are `CO_process_RPDO` and
`CO_RPDO_process`, cut wherever the interrupt makes a difference. `Write` and
`NmtChange` are the mainline task between two passes. `owed` is a history
variable: what every object is to be.

`LedDriver` is `led.c`: one action per setter (`vSetBackLigthColor` in two, for
it makes all colours bright before it takes some away), `Tick` for the timer
interrupt, made of `Counters`, `Blend` and `Data`, and `LC` for the interrupt at
the end of a transfer. `Stall` is the one case in which a tick comes before
`LC`: the processor stands still while it erases the page it runs from. `blinked`
is a history variable. A byte is the set of its keys.

`Lights` composes the two: the write handlers of `process.c` make of every
object that is written a call of a setter (`Handle`). It instantiates `RpdoData`
for four RPDOs and checks its promise in the composition.

### Tasks

The tasks over the kernel. A step is one call of the kernel or the code between
two. `Schedule` is `vTaskSwitchContext`, `Block` a call that waits, `Tick` the
tick interrupt, with a timeout that expires or a turn among equals. `Lock` is
`xQueueTakeMutexRecursive` with `xQueueSemaphoreTake`: a task that waits lends
its priority (`Inherited`), and when it is woken it tries again and may find the
mutex taken. `Unlock` is `xQueueGiveMutexRecursive`, with the priority given
back. `Create` to `MainReset` are `vCanOpenProcess`, `PeriodicLock` to
`PeriodicProcess` are `vCanOpenPeriodicProcess`, `SetBits`, `WaitBits`, `Feed`
the default task; `BusOff` is the interrupt with `vRestartNode`, `TimerTask` the
end of the call it pends, `Watchdog` the reset. A mutex that does not exist yet,
or any other failed `configASSERT`, ends in `halted`.

### KernelQueue, and the abstract MessageQueue

What Tasks takes for granted of the kernel, one level down. `sched` holds what a
tick works on: the tick counter, the list and the wake-up time of each task.
`Begin...`, `TryReceive`, `TrySend`, `TryFails`, `Suspend`, `Lock`, `Test`,
`Place`, `Unlock`, `ResumeAll`, `OnceMore` and `GiveUp` are `xQueueReceive` and
`xQueueGenericSend` cut at the ends of their critical sections, where interrupts
may come; the timer task goes the same way through
`prvProcessTimerOrBlockTask` and `vQueueWaitForMessageRestricted`. `Delay` is
`vTaskDelay`, `Tick` the tick interrupt, `InterruptSend`
`xQueueGenericSendFromISR`. Lists are kept as the place of each task; among
tasks of one priority any may be first. `elapsed` counts the ticks a call has
waited, `got` is the message received last. `MessageQueue` is a bounded first-in
first-out queue; the ring implements it (`QueueKept`).

### FlashSettings

`ReadCode` and `Load` are `vFDInit`; `SetRegState` the accepting path and
`Refuse` the refusing path of the write handlers in `process.c`; `Erase` and
`ProgramHalf` the page write of `vFDWtiteReg`; `ProgramFault` a half-word the
flash refuses; `Respond` the rest of the handler and its answer; `Restart` comes
between any two of them. `before`, `after`, `answered`, `torn`, `fault` record
what a reader of the settings needs to know of the last write. An erased byte is
the opaque `ERASED`: what it reads depends on the part.

## 3. Runs, and what they show

| Run | Instance | Checks | Shows |
|---|---|---|---|
| `cantx` | 4 objects, 3 mailboxes | `TypeOK`, `AcceptedNotLost`, `NoLostWakeup`, `CountServed`, `PromiseKept` | an accepted message is in the controller or marked; a count never waits for an interrupt that cannot come, although RQCP is cleared twice; the count returns to zero; the driver implements `TransmitPromise` |
| `keytpdo` | 3 keys, queue of 3, event timer on | `QueueFits`, `OdFollowsKeys`, `OnlyRaceLoses`, `WireFollowsKeys` | the queue never overflows, no key sticks, one race alone leaves a change unreported, and with the event timer the bus follows in the end |
| `emergency` | 1 RPDO, fifo of 2 messages | `LastMessageTrue`, `OverflowReported`, `CriticalStops`, `HistoryRefined`, `AllTold` | through overflow, drain and wrap-around the last message on an error is true or was dropped; an overflow is told and ends; 0x1003 implements the abstract history |
| `nmt` | producer on and off, 0 to 2 units between calls | `HeartbeatTrue`, `OnlyRaceLosesCommand`, `ReportsState` | the heartbeat is the state at the last call, a command is lost in one window only, and every state the node stays in is told |
| `flash` | 8 writes, 5 of 8 half-words | `SettingsAtomic`, `BitrateNeverErased`, `HaltNeedsHarm`, `CopiesAgree` | writes are all or nothing unless the page was torn; the bit rate survives every restart; only harm leads to `Error_Handler`; page and object 0x2004 follow the registers |
| `sdo` | 10 kinds of transfer, 3 in a run | `TypeOK`, `WholeValues`, `PatientTrue`, `OnlyFullLosesCode`, `ServerFree` | for clients that wait, no variable mixes two transfers and success is true; an abort lacks its reason only after a full transmit object; whatever the client leaves behind, the server ends the transfer, and is idle again if its transmit object does not stay full for ever |
| `lights` | 2 colours, 1 key, 2 objects in RPDO 1 | `RpdoWhole`, `LedMeansObject`, `OwedDelivered`, `LampShown`, `BlinksForEver` | a message that comes while the one before is copied never leaves a mixture; 0x2001 means the lamps; what was asked for reaches objects and lamps; a lost frame does not stop the transfers; blinking goes on |
| `tasks` | the seven tasks, timer queue of 2 | `MutexSound`, `TasksServed`, `BusOffRestarts` | the mutex exists before it is asked for, its holder never waits, and only tasks of a waiting task's priority or above run meanwhile; both tasks of the stack get it for ever; a bus-off restarts the node |
| `kernel_queue` | timer task, a task that waits for messages and for room, one that delays and sends, an interrupt; queue of 2 | `TypeOK`, `NobodyLate`, `NobodyEarly`, `NoLostWakeup`, `ListsSound`, `QueueKept` | waits and delays last exactly as long as asked for, over the wrap of the counter, with ticks that come while the scheduler is suspended, and when a woken task finds its message gone and waits again; a message sent between the test and the wait is not slept over; the ring is a queue |
| `cantx_stranded`, `emergency_rpdo`, `flash_answer` | the firmware's four objects and three mailboxes; two RPDOs; as `flash` | one sentence of the documentation each | section 7 |

Each module has one type invariant, `TypeOK`. TLC checks three of them: CanTx's says that
the 16-bit count never leaves its range though the scan may decrement below what
was counted, SdoServer's that the timeout counter stops within one call of its
limit however long the transmit object stays full, and KernelQueue's that the
positions in the ring stay in it and that the lock never counts more messages
than there are. All of them are theorems (`TypeCorrect`), for all values of the
constants.

`WholeValues` and `PatientTrue` speak of clients that begin a transfer when no
answer to the one before is still to come, which is to say that they wait for
the server's timeout and its mailboxes after they have given up; they may give
up at any moment. Both are false of a client that does not wait (`hasty`):

- An answer to a segment carries only the toggle bit. A client that takes an
  answer to its aborted transfer for one of its own goes on to the segment
  after next, and the variable may end up with parts of two transfers; it takes
  three transfers and variables of at least two segments to get there.
- An abort makes the server idle but does not clear `CANrxNew`: a first request
  that waits in the slot is executed after the abort that should have ended it,
  the client's next request is dropped, and the answer it gets is the answer to
  the aborted one.

## 4. Bounds

| Constant | Value | Why it is enough |
|---|---|---|
| `TxSize`, `Mailboxes` | 4, 3 | the firmware's own: emergency, TPDO, SDO, heartbeat over three mailboxes |
| `MaxVersion` | 2 | an object may be refilled while its old contents wait; the proofs are for all values |
| `KeyCount`, `QueueLength`, `KeyboardPeriod` | 3 each (8, 16, 20) | the tightest instance the assumption allows: a pass may fill the queue |
| `EventTime` | 1 (0) | with the timer a change the race has swallowed is sent in the end, which is `WireFollowsKeys`; the safety properties are proved for every value, 0 included |
| `MaxNmtChanges` | 2 | out of operational and back |
| `FifoSize` | 3 (17) | the smallest that overflows with room for the two reports; wraps after three messages |
| `RpdoCount` | 1; 2 for the shared bit (4) | the second RPDO matters only for the shared error bit |
| `HbTimes`, `FirstHbTime`, `MaxElapsed` | {0, 2}, 3, 2 | off and on; the first heartbeat later than the next; calls that are on time and late |
| `Offered` | 8 writes | the bit rate, the node id, both bytes of a 16-bit register, the last half-word, values in and out of range |
| `MaxJobs`, `MaxHastyJobs` | 3, 2 | leftovers of a transfer meet the next two; of clients that do not wait, for whom only the last three properties say something, two transfers are enough |
| `MCJobs`, `MCDict` | 10, 3 objects | expedited and segmented, size told or not, too long, too short, refused, read only, absent; the text has 14 bytes as the longest of the dictionary |
| `Colours`, `Keys` | 2, 1 (3, 8) | a colour beside the one that blinks; keys do not act on each other but through the backlight, dark where any colour is on |
| `BlinkPeriod`, `MAX_BRIGTH`, `MAX_BRIGTH_COUNTER` | 0, 1, 1 (22500, 63, 63) | blinking changes at every tick, the brightness counter wraps after two: every tick meets every mixture of the two |
| `Sent`, `Written`, `MaxBurst` | on and off for two RPDOs; SDO for the rest; 1 | one message during a copy is the race; the copy of two objects can be mixed |
| `Priority`, `QueueLength` | the program's; 2 (4) | calls wait behind one another, and a third is refused |
| `TickMod`, `Delays`, waits | 4 (2^32), 0 to 2 | every wait and delay may be asked for at each of the four counts, with and without a wrap, and begun anew after one tick; 3 is `portMAX_DELAY` |
| `MaxPended` | 1 | a tick while the scheduler is suspended, due to wake a task or not, with the wrap or not |
| `QueueLength`, `TaskMessages`, `InterruptMessages` | 2, 1, 1 (4 and 16; any) | the ring wraps after two messages, fills, and the order of the two can be seen |
| `SDOtimeoutTime`, `InFlight` | 2, 2 | the timeout in the second idle call; two answers that can overtake each other |

Deadlock is checked but where the system may really stop: `CanTx` and
`SdoServer` stop when the bounded refills and transfers are used up.

## 5. Fairness

- **Transmit driver**: weak fairness of the interrupt (a requested interrupt
  runs to its end), of the mutex holder's call, and of the end of each
  transmission. The last needs retransmission off: an attempt ends when the bus
  is next idle, successful or not.
- **Keys**: weak fairness of the three tasks; the tick wakes two of them, the
  mainline the third, and none waits for another inside a step. A TPDO that
  the driver leaves in its object is handed over again at every event time, so
  `WireFollowsKeys` needs no promise of the transmit interrupt.
- **Emergency**: both tasks contend for `co_mutex`, so weak fairness does not do
  for the mainline task: it may find the mutex taken again and again. FreeRTOS
  hands a released mutex to the waiting task of the highest priority, which the
  mainline task is; this is strong fairness of its steps. Weak fairness of
  the periodic task and of `BufferSent`: a waiting emergency message gets a
  mailbox. The driver does not give that for every object (`cantx_stranded`), but
  it does for this one. SYNC and the NMT master have no transmit object, so the
  emergency producer's is the first (`CO_TX_IDX_EM_PROD` is 0); a scan begins
  with it, with a mailbox free, and is never over with it full; until then the
  count that its `CO_CANsend` has added stands. This is `FirstIsSent` of CanTx, proved for all numbers of objects and mailboxes as
  `FirstServed`. It does not carry over to any other object.
- **NMT**: weak fairness of the mainline task, which sleeps at most 10 ms. The
  heartbeat is repeated, so one that waits in its object is no loss either.
- **SDO**: weak fairness of the call, and of nothing else: neither of the bus nor
  of the transmit interrupt nor of the client, who may disappear. That a message
  which waits in the server's transmit object is ever sent cannot be assumed.
  The object comes behind those of the emergency producer and the TPDO: when one
  of them waits with it and a single mailbox is freed, the scan sends that one
  and clears `CANtxCount` (`CO_driver_ST32F103.c:410`), and no later interrupt
  looks until some `CO_CANsend` is refused a mailbox. This is the behaviour of
  `cantx_stranded`. Until then each call of `CO_SDOserver_process` ends at its
  line 1211, and after the timeout the state stays `ABORT`. `ServerFree`
  therefore has two parts. Without any assumption on the object, every transfer
  ends in `ABORT` or `IDLE`, since the timeout counts also while the object is
  full. If the object is empty again and again, the server is idle in the
  end; without this premise TLC finds the server that stays in `ABORT`. A call in which nothing was received takes time (`elapsed` is at
  least 1), as the mainline task sleeps between two calls.
- **Lights**: weak fairness of the two interrupts, of the steps of a pass and of
  the setter of the colour; strong fairness of the start of a pass, which
  competes with the mainline task for the mutex (`TasksServed` is why it gets
  it). `OwedDelivered` bounds the messages during one pass by `MaxBurst`: the
  loop of `CO_RPDO_process` would never end on a bus faster than it.
- **Tasks**: every timeout expires and the watchdog resets the processor. No
  fairness is assumed of any task: the scheduler is the model's own. Instead
  `TasksServed` and `BusOffRestarts` have the premise `NotOverloaded`, that the
  idle task runs again and again. Without it a task of a higher
  priority that never sleeps starves the rest, which is true and says
  nothing about the locks.
- **Kernel**: no liveness is stated; `NobodyLate` bounds every wait that has a limit.
- **Settings**: no liveness is stated; a node whose power fails for ever does
  nothing.

## 6. Proofs

TLAPS proves invariants of all nine component models for every value of their
constants, from the named assumption of each module alone (which TLC evaluates
in the runs). Each `XProofs` has the same shape: an inductive invariant `IInv`,
`InitIInv`, one lemma or step per action, `Invariance == Spec => []IInv`, and
the theorems that follow from it.

- **CanTxProofs**. `AcceptedNotLost` is inductive only with `DataIsNewest`: no
  object is older than what was accepted or copied. `NoLostWakeup` needs
  `CountClearedAtEnd`: in the window in which the second clearing of RQCP can
  wipe out a request, nothing is counted. `LowestFullIsSent` needs
  `CompletedIsEmpty`. From the same invariant every step of the driver is a step
  of `TransmitPromise` or a stutter. Theorems: `TypeCorrect`, `MessagesNotLost`,
  `WakeupNotLost`, `ScanSends` (no scan of the interrupt is in vain),
  `FirstServed` (the count is never cleared while the first object is full, which
  is what `AllTold` of Emergency rests on), `Refinement`.
- **TpdoNmtProofs**, about KeyTpdo. `QueueBound`: between passes the queue and
  the ticks since the last one share the number of keys. `TpdoKnows`: what the
  periodic task's copy is worth at each of its steps. Two lemmas on `Tail` and
  `Append`. Theorems: `TypeCorrect`, `QueueNeverOverflows`, `ObjectFollowsKeys`,
  `RaceIsTheOnlyLoss`. The assumption is that the keys fit the queue and the
  period, which 8, 16 and 20 do. About NmtSlave, whose names begin with `nmt` or
  `Nmt` where both modules have one: `CommandKnown` and `CopyKnown`, what the two
  reads of the slot and the local copy of the state are at each step. Theorems:
  `NmtTypeCorrect`, `HeartbeatIsTrue`, `OnlyTheRaceLoses`, and the action property
  `ChangesHaveCause`.
- **EmergencyProofs**. `OverflowPhases`: the flag goes up on a full fifo, which
  stays full until the next message is sent, so both reports find room; this
  needs a fifo of at least two messages. `RegisterKnown` for the NMT state.
  `LastMessageIsTrue` counts the places of the messages from the one to be sent
  next, `Place`: a new message is behind all, a sent one was before all, and the
  remainder of a difference of two slots is one of two sums, so no division is
  left to the provers. `HistoryRefinement` counts back from `fifoWrPtr`: one new
  message moves every entry by one, and the time stamp that comes with the
  sending changes the slot and the entry alike. Theorems: `TypeCorrect`,
  `OverflowIsReported`, `CriticalErrorStops`, `LastMessageIsTrue`,
  `HistoryRefinement`.
- **FlashSettingsProofs**. `PageKnown`: during programming the page is the
  registers below the half-word and erased above. `PhaseKnown` and
  `ObjectKnown` relate the phase to the registers; `BitrateKnown`: without a
  fault, the code in the page vouches for the bit rate, since one half-word
  programs both. `Unharmed`: as long as no write was torn or failed, flash and
  registers are one of the two states a write may leave, and both can start
  the node. Theorems: `TypeCorrect`, `WritesAreAtomic`, `BitrateSurvives`,
  `HaltOnlyFromHarm`, `CopiesFollow`.
- **LightsProofs**. `RpdoWhole` is inductive only with `Owes`, which says of every
  RPDO what its objects owe to the message in the buffer: while it waits, the
  objects are to be what the message makes of them; while it is copied, the
  objects before `k` already are, and those after it are to become it unless a
  newer message waits. `LedMeansObject` is carried by the history of what
  blinked. Theorems: `TypeCorrect`, `MessagesApplyWhole`, `LampsFollowObject`.
- **TasksProofs**. `Running` says that the running task is ready and, until the
  mutex exists, that the mainline task is ready and the periodic one does not
  run; `Places` says where each task is when it holds the mutex. That the mutex
  exists when the periodic task asks for it follows from them: the mainline task
  has been ready and above the periodic one until then. The second half of
  `MutexSound` is that of priority inheritance: while a task waits for the mutex,
  no task below its priority runs but with that priority lent to it. It needs
  `TopRuns`, that no ready task is above the running one, which has one exception
  in the code: the bus-off interrupt makes the timer task ready without a switch.
  The places where the kernel leaves a switch out (the mutex is given to a task
  that is not above the giver, a semaphore is given to a lower task) are where it
  could break. Assumed are only the order of the two priorities of the stack
  and that the idle task is below all. Theorems: `TypeCorrect`, `LockIsSound`.
- **SdoServerProofs**. `ReasonKnown`: a server that is to send an abort knows the
  reason or has lost it to a full transmit object; with it, the messages in
  the transmit object and in the mailboxes are explained. Lemmas on
  `Append`, concatenation and `RemoveAt`. For the types, `TypeInv` says what each
  state of the server has to find: before a segment of a download the count is
  seven times the parts in the buffer and no more than the variable takes
  (`Filling`), before one of an upload a part is left (`Reading`), and so for the
  state read for the switch and for the answer, whatever the interrupt makes of
  it in between (`Modes`). For values and success, `Agreed` is what server and
  client have in common while every client waits. `Turn` is where the call in
  progress leads to: a case or an answer that has begun is not stopped by what
  the interrupt makes of the state. If the server still waits for a segment when
  the client's request for it is pending, it is the same one, with the toggle
  bit, the buffer and the offset that belong to it (`Sync`); a first request that
  is executed is the client's own (`SlotKnown`); and an answer under way is true
  and the only one (`Truths`, `Traffic`, `OneDue`). All of it speaks of the
  transfer the client is at, so that what an aborted one has left behind needs no
  description: whatever state it has left the server in, that is not a state
  whose next answer the client would take. Theorems: `AbortsKeepReason`,
  `TypeCorrect`, `ValuesAreWhole`, `SuccessIsTrue`.
- **KernelQueueProofs**. Five parts make the invariant. `Owned`: who has suspended
  the scheduler is the running task, the queue is locked by him, and what he has
  found out about it is true but for the messages that the lock has counted since.
  `Phases`: what the variables of a call are at each place in it. `ListsInv`: a
  task is on no list but the one that its own call has put it on. `TimeInv`: the
  tasks on the current list wake before the counter wraps, those on the other list
  after that and before it comes round (`ClockSound`); the ticks a sleeper has seen
  and those it has left (`Left`) are the ticks it asked for; and what a wait that
  was begun anew has left is what it had not yet seen (`Since`). Then `NoLostWakeup`
  is inductive because it counts: a task that is woken was not among those about to
  look, so one more message, or one more place, is matched by one more task
  (`WakeupsAdd`), or by the lock, and unlocking turns the lock's count into tasks
  (`UnlockStep`). A tick takes one from every `Left` (`TickedSound`), and n ticks
  that were pended do it n times: `StepByStep` is induction on the set of the
  counts that are reached, since the provers cannot instantiate the library's.
  Sums of two ticks and of three positions in the ring are compared case by case
  (`TickArithmetic`, `RingArithmetic`), so that no remainder is left to the provers.
  Theorems: `TypeCorrect`, `NoWakeupLost`, `NobodyIsLate`, `ListsAreSound`, the
  action property `NobodyIsEarly` and the refinement `QueueRefinement`, for any
  tasks, priorities, waiting times and messages, any length of the queue and any
  width of the counter. The bound of `Tick` (section 8) is part of the model.

Only model-checked: all liveness properties (`CountServed`, `WireFollowsKeys`,
`AllTold`, `ReportsState`, `ServerFree`, `OwedDelivered`, `LampShown`,
`BlinksForEver`, `TasksServed`, `BusOffRestarts`), for fairness is ENABLED and the prover
has no method for it. Every safety invariant of the passing runs is a theorem, and
so are the action property `NobodyEarly` and the refinements `PromiseKept`,
`HistoryRefined` and `QueueKept`.

Proving changed KernelQueue in two places. `NoLostWakeup` first said that *somebody* is about to
look; that is true but not inductive, for two messages need two receivers, and it
is now stated by number, which says more. And the choice of where a resumed call
goes on had two arms that both fitted a delay, which TLC reads from the top and
TLA+ leaves open; the arms are now disjoint.

## 7. Disagreements between code and documentation

Each is a run in which TLC finds a behaviour of the code that a comment or a
header of the repository excludes.

| Run | Property | The code | The text |
|---|---|---|---|
| `cantx_stranded` | `WaitingMessageSent` | `CO_driver_ST32F103.c:410`: the scan has no early exit, so `i == 0U` always holds and the count is cleared with objects still full; the next interrupt does not look | `CO_driver.h:287`: "Message will be then sent by CAN TX interrupt as soon as CAN module is freed" |
| `emergency_rpdo` | `RpdoErrorIndicated` | `CO_PDO.c:797`: all RPDOs report one error bit and one resets it for all | `CO_Emergency.h:608`: "True if error occurred or false if error resolved" |
| `flash_answer` | `SuccessIsOk` | `process.c:340`: the handler stores sub-indexes 1, 2, 5 and 6 and falls into the `else` of the test for 3 and 4 | `CO_ODinterface.h:301`: "ODR_OK in case of success" |

Seen and not given a run:

- `CO_TPDOsend` reads the object and then sets the flag of the request
  (`CO_PDO.c:1288`): an event in between is forgotten, although
  `CO_ODinterface.h:499` says "TPDO will be transmitted after this function call".
  `OnlyRaceLoses` shows that this is the only way a change goes unreported; with
  the event timer off, as in the object dictionary, it is sent with the next event.
- An NMT command that arrives between the test of the slot
  (`CO_NMT_Heartbeat.c:261`) and its clearing (281) is lost, although the header
  says it is "processed in CO_NMT_process()". `OnlyRaceLosesCommand` shows that
  this is the only way to lose one.
- `CO_driver_ST32F103.c:312` waits for counters nothing writes: the overflow flag
  of the driver, once set, stays until the next reset, and keeps the node out of
  the operational state.
- Blinking is done in `LED_ON` itself: when it ends in its dark half, the lamp stays
  dark although 0x2001 says on, until 0x2001 is written again.
- `vSetBackLigthColor` makes all colours bright before it takes some away: the
  backlight may be white for one period of the timer.
- `OD_writeBRIGTH` never stores 0x2003, and answers that a sub-index does not
  exist for what it has just set (`flash_answer` is about the same branch).
- `CO_CANmodule_init` enables the receive interrupt of the controller before it
  sets the callback the interrupt calls.
- The interrupt of the controller's error sources is not enabled by `ERRIE`, and
  automatic bus-off recovery is on: whether a bus-off ever calls
  `vRestartNode` depends on the part. `Tasks` says what follows when it does.
- When the controller does not answer `CO_CANsetNormalMode`, `CANnormal` stays
  false for ever: heartbeat and SDO go on and no PDO is processed.
- Heartbeat and TPDO refill a transmit object that still waits for a mailbox
  although `CO_driver.h:288` forbids it (the newer contents are sent,
  `AcceptedNotLost`).
- An SDO abort may leave with the code 0, "No abort" in `CO_SDOserver.h`
  (`OnlyFullLosesCode` says when).
- `CanOpenNode.c:153-160` speaks of a wake-up at reception that no callback gives.
- `vFDInit` loads 0x2005 from other registers than its handler writes.

## 8. What is not modelled

- **LSS slave**: compiled in, but its requests come with the identifier 0x7E5, and
  `CO_CANmodule_init` sets filters for 0, 0x180, 0x200 to 0x600 with the node id
  only. The controller never passes a request on, so the slave's state never
  changes.
- **Receive dispatch**: the search of `rxArray` reads what the start has written,
  and every identifier but those of the filters is dropped before it.
- **Time**: nothing is said of how long anything takes. In particular
  `OD_writeLed` prints to a serial port inside the loop of `CO_RPDO_process`, and a
  bus fast enough could keep the periodic task there, with the mutex; `MaxBurst`
  and `NotOverloaded` are the assumptions that it does not.
- **Kernel**: in `Tasks` a timeout expires at any moment, and its delays and waits
  are single steps; that they may be is what the run of `KernelQueue` is about.
  Of the kernel are left out: task notifications, software timers, queue sets,
  reset and deletion, which the program does not use, the heap, stack checks, and the
  context switch of the port. `Tick` is disabled where a task would be kept from
  the processor until the counter comes round during one of its calls (with 2^32,
  for 49 days). The program does not wait for room in a queue;
  `kernel_queue` has a task that does, since the code is one.
- **LED hardware**: the order of the bits on the SPI and the PWM of the output
  stage.
- **SDO**: block transfers, dynamic server parameters and the callback are not
  compiled in. Variables longer than the buffer do not exist in the dictionary,
  so partial reads and writes are excluded by `SdoServerAssumption`. The
  terminating zeros added to short strings are not parts.
- **Settings**: the erasure of the page and the programming of one half-word
  are atomic; what power failing inside one leaves depends on the part. The
  status of the erasure, which the code ignores, is not modelled. A remapped
  RPDO that wrote 0x2004 from the periodic task is left out: the default mapping
  has none.
- **The keyboard library** is a submodule; the **peripheral library** is
  vendored. That RQCP is cleared by writing 1, that a mailbox completes
  once per request, and that requesting a transmission clears RQCP and with it the
  interrupt request, is the reference manual's. The last matters when a mailbox
  completes and is taken again inside one critical section: an interrupt that
  came all the same could scan with no mailbox free.
- SYNC, TIME, heartbeat consumer, SDO client, LSS master, gateway, SRDO and
  trace are switched off in `CO_driver_target.h` or have no object in the
  dictionary.

## 9. Plan

Done: CanTx with TransmitPromise, KeyTpdo, Emergency with ErrorHistory, NmtSlave,
FlashSettings, SdoServer, RpdoData and LedDriver in Lights, Tasks, KernelQueue with
MessageQueue, and theorems about each.

Left, in order of worth:

1. Partial reads and writes of the object dictionary, should a variable longer
   than the SDO buffer be added to it.
2. `Tasks` with time: how long the mutex is held, and what that makes of the
   heartbeat.
