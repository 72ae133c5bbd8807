# TLA+ models of Linux_LAB

Linux_LAB is a collection of C programs written while learning Linux
programming: two multi-process labs with logic of their own (a sensor gateway
and a restaurant of producers and consumers), kernel modules and programs for
GPIOs, PWM programs, and a set of short exercises on processes, signals and
debuggers. This directory holds TLA+ models of the programs in which several
threads, processes, signals or drivers meet, the TLC configurations that check
them, and proofs that TLAPS checks. Paths below are relative to `src/`.

## Inventory

| Component | State | Operations | Interacts with |
|---|---|---|---|
| **Event log** `LAB_Server_Client/src/processing_FIFO.c`, loop of `server.c:83-93` | the FIFO, `log_sequence_number`, a 1 kB buffer, `log.txt` | `write_to_FIFO`, `write_to_LOG_file`, `sigterm_handle` | called by conn_mgr and data_mgr; ended by the gateway with SIGTERM |
| **conn_mgr** `src/socket_server.c` | `client_socket[10]`, `readfds`, the accepted fd, the read buffer | `select` round: accept, read, close, 7 s timeout | sensor nodes (TCP), the list (under `data_mutex`), semaphore to data_mgr, log, `running` |
| **data_mgr**, **stor_mgr**, main `server.c:37-180` | two semaphores, `data_mutex`, `running`, pending cancels | wait, lock, sort/average/mark, post; wait, lock, copy/remove; join, cancel, kill | each other over the list; main joins and cancels them; log process |
| **List of readings** `src/processing_linked_list.c` | nodes `(ID, TEMP, TIME, DELETE)` linked on the heap | insert, sort, average and mark, copy, remove, free | the three threads |
| **Sensor nodes** `client_1.c`, `client_2.c` | a connection | connect, send ten readings, close | conn_mgr |
| **Restaurant** `LAB_Producer_Consumer/main.c` | two trays of ten slots, three semaphores per tray, `interrupted` per process | the loops of two cooks and three guests, SIGINT handler, the parent's shutdown | six processes over shared memory and signals |
| **PWM programs** `LAB_PWM/led_brightness`, `mono_music`, `play_music/pwm_play_music` | PWM channel 0 in the kernel, a stdio buffer per open file | export, enable, period, duty cycle, unexport; SIGINT handler | one after the other over the channel, main with its signal handler |
| **GPIO character driver** `LAB_GPIO/GPIOs_device_driver/gpio.c` | one buffer of text, `gpio_list`, `gpio_count`, `size`, what is registered | init, exit, open, close, read, write | user space, gpiolib, other drivers of the same pins |
| **LED by ioremap** `LAB_GPIO/GPIO_iormap/led.c` | none of its own: registers of two GPIO banks | stores at load and unload | whoever else uses the banks |
| **sysfs driver** `LAB_GPIO/Blink_led_userspace/driver_gpio_sysfs` | two attributes, `_value`, `_direct`, two requested pins | init, exit, the show and store functions | the LED programs and shells that write to it |
| **LED programs** `Blink_led_userspace/program_user_control_led` | - | a menu: on, off, exit | sysfs driver |
| **Process and signal exercises** `LAB1/Ex3_Process`, `LAB2/Ex1`, `Ex4`-`Ex7` | handlers, masks, pending signals, a child, two threads | `fork`, `wait`, `signal`, `sigprocmask`, `kill`, `pthread_kill`, `sigpending` | the kernel, a child, anybody who sends a signal |
| WAV tools, library, file and debugger exercises, libsndfile | little, or not the repository's own | conversion of files, single calls | the shell |

Which behaviour is hard, and what makes each component correct:

* **Event log.** Both sides open and close the FIFO around every transfer, so
  who holds it open decides whether its content survives; threads are cancelled
  inside `write_to_FIFO`; SIGTERM can hit the log process between its read and
  its append. Correct: lines are neither reordered nor repeated,
  nothing is stuck in the FIFO behind a blocked `open`, a line that is read is
  appended, logging never hangs a thread.
* **Gateway.** Three threads pass over one list in turns nobody prescribes: data_mgr
  may run twice before stor_mgr does, stor_mgr removes what is marked in a
  second pass, conn_mgr inserts at any time between, and cancellation
  comes at any time after the timeout. Correct: the walk of data_mgr is over a
  list that stays as it was sorted, no reading is lost or stored twice, readings
  are stored in time order and after their average, no wake-up is lost, the
  program ends.
* **List.** The sort swaps contents and leaves the links, remove relinks and frees
  while it walks. Correct: no pointer to a freed node is used, no node is lost,
  and no reading loses its mark.
* **Restaurant.** Fifteen operations on six semaphores in six processes, guests
  and cooks posting in different orders, one guest with two timed waits, a child
  killed anywhere, forks that fail. Correct: one child per critical section,
  the semaphore values agree with the trays, nobody is stuck, SIGINT ends all.
* **PWM programs.** The channel outlives the programs and refuses what does not
  fit its state, nobody looks at the result of a write, and a signal comes between
  any two steps of a write. Correct: Ctrl-C leaves the channel off, no write
  of a period or duty cycle is refused, a note sounds with its own values.
* **GPIO drivers.** The character driver has one buffer for all writers without a
  lock and a table with a limit that is tested apart from its use; the ioremap module
  stores whole registers that gpiolib changes bit by bit; the sysfs driver sets two LEDs one after the other for
  any number of writers and frees its pins before its attributes. Correct, as far as the code
  goes: an order to one pin changes no other unless it comes between a load and a store of `led.c`, the table is not overrun and
  keeps what was set, writers that agree get what they want.
* **Exercises.** A signal or the end of the child comes between any two calls. Correct:
  each program shows what its readme explains.

Every hazard is listed with its line in `PROJECT.json`, with the properties
that would catch it going wrong.

## Modules

| Module | Models |
|---|---|
| `LogFifo` | the event log: writers, FIFO, log process |
| `EventLog` | what an event log promises, whatever carries the lines |
| `SensorList` | the functions of `processing_linked_list.c` as operators on sequences |
| `SensorGateway` | conn_mgr, data_mgr, stor_mgr, main, sensor nodes; uses `SensorList` |
| `ReadingStore` | what the gateway promises for the readings it has received |
| `NodeList` | `processing_linked_list.c` loop by loop, on linked nodes of a heap |
| `ReadingList` | the same functions in one step each, with the operators of `SensorList` |
| `ProducerConsumer` | the restaurant |
| `PwmPrograms` | the three PWM programs on one channel |
| `GpioBank` | gpiolib and the banks' registers, as the GPIO drivers use them |
| `GpioOrders` | beside the banks: what each pin was asked to show |
| `GpioDevice` | the character driver |
| `LedIoremap` | the ioremap module |
| `GpioBoard` | both on one board |
| `LedSysfs` | the sysfs driver, the LED programs and a shell; uses `GpioBank` |
| `SignalPrograms` | the eight exercises on processes and signals |
| `MC...` | constants for TLC; no behaviour of their own |
| `LogFifoProofs`, `SensorGatewayProofs`, `NodeListProofs`, `ProducerConsumerProofs`, `PwmProofs`, `GpioBoardProofs`, `LedSysfsProofs`, `SignalProofs` | theorems and proofs |

A definition under a comment that begins with `Wrong:` is not part of any
specification. It is the definition below it with a plausible mistake in it (a
lock left out, a post forgotten, a counter given back to the wrong tray).
Substituted for the correct one it must make a property fail; `mutants` in
`PROJECT.json` says which. So each property is known to depend on the code.

### LogFifo and EventLog

A line is a record of its thread, its number within the thread, what happened
and the sequence number printed. The actions `LoadSeq` and `StoreSeq` are
`log_sequence_number++` (two steps: nothing makes it atomic); `OpenFifo`,
`WriteFifo`, `CloseFifo` are `write_to_FIFO`; `LogOpen`, `LogRead`, `LogClose`,
`LogAppend` are `write_to_LOG_file`. `KeptBy` is the kernel's rule that a pipe
without an open descriptor is emptied; blocking opens and reads follow fifo(7).
A cancelled thread leaves its descriptor open (`CancelWriter`).
`handle_error` ends all threads (`WritersExit`), or the log process with what it has
read and not appended (`LogFails`: its open, read or fopen fails). `First` names conn_mgr,
whose line about a connection is written before anything comes over it that data_mgr could log.
Not modelled: bytes, a full pipe of 64 kB, `mkfifo`.

`EventLog` knows neither FIFO nor buffer: a line enters once or never, in its
thread's order; lines arrive in `log.txt` in the order they entered; on their way the oldest
or the newest of them may be lost, and nothing else. `LogFifo` implements it
(`ImplementsEventLog`) with the log process's buffer and the FIFO, in this order,
as what is on its way.

### SensorList, SensorGateway and ReadingStore

The list is a sequence from head to tail. `Sorted(list)` is the *set* of lists
that a sort by ID and TIME may return. `Group`, `HasWindow`, `WindowAt` and `Mark` are one round
of `averaged_temp_linked_list`, which marks only the *first* reading of a window
and does not look at `DELETE`; `Marked` and `Unmarked` are the copy and the
remove functions. TEMP and the text of the average are left out: no decision
depends on them.

conn_mgr is one action per stage of the `select` loop (`SelectAccept`,
`LogOpened`, `SelectData`, `Receive`, `SaveReading`, `PostReading`, `LogClosed`, `ScanEnds`,
`SelectTimeout`, `CloseAll`). `SaveReading` is one step for
lock, insert and unlock, since nobody can see the list between them; data_mgr's
critical section is split into sort, rounds and unlock because it logs, and
can be cancelled, inside it; stor_mgr's into copy and remove for the same
reason. `Parse` is what `sscanf("%d/%d/%d")` makes of several readings
that arrive in one `read`: the first one, its time run together with the ID of the
second. A full set of slots leaves the accepted connection with nobody to serve it.
`DataCancelled` and `StorCancelled` are deferred cancellation: it acts in
`sem_wait` and in the I/O calls, never in `pthread_mutex_lock`, and releases no
mutex. `HandleError` is the exit of the whole process when a call fails: `socket`, `bind`, `listen`,
`select`, `accept` and the FIFO's `open` and `write` in conn_mgr (`ConnFails`), the FIFO's in data_mgr (`DataFails`).
The log process is not told then; if stor_mgr is writing the data file, `exit` flushes what it has printed so far.

Left out: a `read` that fails (undefined behaviour on bytes, see the hazards), `EINTR` (the one handler that is
installed exits the process).

`ReadingStore` has no threads: readings are kept; the oldest reading of a sensor with a full
window may become due; all that is due moves to the data file at once; nothing else is given up until the process
ends (`End`), perhaps in the midst of such a move.
The gateway implements it (`ImplementsReadingStore`) where `fopen` of the data file succeeds,
with `Copy` as the move: what is in the file already and still in the list counts as stored, and removing it is no
step of the store. One property thus says that no reading is lost or stored twice,
that nothing is stored or removed before it was marked, and that only a full window's oldest is marked.

### NodeList and ReadingList

`NodeList` is the C file at the grain of one turn of a loop: `cell` is what is in each
node, `next` its pointer, `alloc` what malloc has returned and free has not taken back;
`temp`, `current`, `min`, `inner`, `prev` are the pointers of the functions. `Swap` exchanges the
contents of two nodes, as the code does field by field; `RemoveNode` relinks and frees. The callers in `server.c` make
the calls under `data_mutex` and in pairs, sort with average and copy with remove; so does the model.
`ReadingList` is each function in one step on a sequence, by the operators that
`SensorGateway` uses. `ImplementsReadingList` connects the two: what the gateway's model assumes of the list is what
the loops do. While a function rearranges the list the refinement shows it as it was
before (`given`), which is how other threads see it.

### ProducerConsumer

Each child has a program counter with one label per semaphore operation and two
for the scan and the access of the tray. `First` is where the `for` loops stop. `TimedOut` is `sem_timedwait` of
`consumer_Both` giving up; it is enabled only when no dish is counted, so it may
come at any such moment. SIGINT goes to the whole process group and each process's handler runs
on its own (`HandleSigint`); a child looks at the flag at the head of its loop; `Die` is the default
effect of the parent's SIGTERM. `Forked` lets forks fail: the pid is then `-1`, and `kill(-1)`
reaches all.

### PwmPrograms

`pwm0` is the channel as the kernel keeps it; `Written` is a write to one of its
files, with the checks of `pwm_apply_state` in Linux 5.4 (the kernel modules of
the repository are built for 5.4.209): no state without a period or with a duty
cycle longer than the period, and unexport forgets nothing. `step` and `i` say
what main writes next: the 52 notes of the melody and the 202 duty cycles of the
ramp are the real ones. A write is `OpenFile` (fopen and fprintf) and `CloseFile`;
a missing file ends the program (`CannotOpen`). `Interrupt` starts the handler
between any two of these steps, also while `mono_music` calls `sigint_handler` as a function,
and `End` flushes what main had in a buffer, or does not if the signal hit
`fclose` behind its write. Then the next program starts (`Start`) on the channel as it was left.

Left out: the time between two writes, the reading back in `PWM_status`, the text
printed. That printing in a signal handler is not async-signal-safe: a signal
inside `printf` can deadlock on the lock of `stdout`, which this model does not see.

### GpioBank, GpioOrders, GpioDevice, LedIoremap and GpioBoard

`GpioBank` is outside the repository: the registers `OE` and `DATAOUT` of the AM335x banks as
sets of pins, and gpiolib's calls, each of which changes one bit under a lock. `GpioDevice` is `gpio.c`.
`GPIOs_init` and `GPIOs_exit` are a sequence of steps with every failure that has a branch in the code;
`class_create` and `device_create` fail with an `ERR_PTR` that the code takes for success. A call of
`m_write` is `MWrite`, `Clear`, `Copy`, `Parse`, `Direct`, `Value`, `Check`, `Record`,
interleaved with the calls on other files: nothing in the driver is locked. A command
is what `sscanf` finds in the text, up to three words; what is not found is whatever
was on the stack (`Garbage`), as on a second write of a file, which is copied behind the first and parsed from the start.
`Check` loads `gpio_count` and `Record` uses the value that was loaded, as the object file in the repository does.

`LedIoremap` is `led.c`: each `|=` and `&=` is a `Load` and a `Store` of a whole register. `GpioBoard`
puts both on one board, with the pins of the LEDs requested by another driver. `GpioOrders`
is a ghost that no action reads: what the order that was carried out last says of each pin; of orders to one pin that
overlap nothing is asked any more. A store of `led.c` can undo what was done to other pins of its bank since the load:
`touched` is a ghost of just these pins, and the store gives up the orders to them and to no others. At unload `led.c`
clears every output of the bank that is high, and the orders to those are given up.

Left out: what happens after a failed init left its cdev behind (the code is gone from memory), text
longer than the buffer, `mdev.size` below an offset beyond what `MRead` says of it.

### LedSysfs

`gpio_sysfs_init` and `gpio_sysfs_exit` attribute by attribute and pin by pin, the store functions of both attributes
pin by pin, any number of writers, each with a list of writes still to be made. sysfs calls a store function
without a lock of the driver; removing an attribute waits for stores that are active. The shell
writes what the programs do not: text that is neither a direction nor a number. `last` is a ghost: the option a
program chose last, as long as nothing has superseded it.

### SignalPrograms

Each program is the list of the calls it makes, for the eight programs and the two threads of `Ex5`; a check carries
what the readme explains it prints. Under them is what signal(7) says of a process: signals pending for the process and for each thread,
masks, handlers, one pending instance of a standard signal and a queue of real-time ones; a task takes its signals
before its next call (`Step`). Others may send any signals to the process at any time (`SendFromOutside`), real-time ones too, and the child may end
at any time (`ChildEnds`). A signal of others has the value 0, one of the program's own `sigqueue` has the value the program gives it: `Ex7` may catch a third `SIGRTMIN`
that is not its own, and `SignalsAsExplained` says that its own two come in the order sent. Printing, sleeping and the limit on queued signals
(`RLIMIT_SIGPENDING`) are left out.

## Runs

| Run | Question | Result |
|---|---|---|
| `LogFifo` | two writers, one cancellable, both processes may fail, SIGTERM at any time (53,110 states) | all hold |
| `LogFifoLoss` | is every line logged? | no: `NoEventLost` |
| `Gateway` | two nodes competing for one slot, calls that fail and end the process, a failing `fopen` (969,696 states) | all hold |
| `GatewayStore` | one node, three readings, calls that fail: what is stored, when, and that it is, when the data file can be opened (47,465 states) | all hold |
| `GatewayShutdown` | does the program end after 7 s of silence? | no: `ShutdownCompletes` |
| `NodeList` | every sequence of calls on lists of up to four readings | all hold |
| `Trays` | five children, two slots | all hold |
| `TraysLive` | two failed forks, one slot, SIGINT at any time | all hold |
| `Pwm` | three PWM programs in any order, Ctrl-C at any moment | all hold |
| `GpioBoard` | two open files, three writes, the ioremap module, loading and unloading of both (2,492,573 states) | all hold |
| `LedSysfs` | two programs and a shell, the driver removed and loaded again at any time | all hold |
| `SignalPrograms` | eight programs, signals from others at any time, `SIGRTMIN` among them (34,781 states) | all hold |

The runs that end in a violation show disagreements between the code and what
its documents say; they are described under *Findings*.

### Properties that hold

* Log: `NoStrandedData`, `WriterOrder`, `ImplementsEventLog`, `NoLossWhileHeld` (an action property: only the last close
  and the end of the log process lose lines), `LogCallReturns`, `ReadIsLogged` (what the log process is about to read is appended, unless
  SIGTERM or `handle_error` ends it before: the loop never goes on without it).
* Gateway: `WalkIsStable` (the pointer data_mgr keeps while it logs still points to
  the group it looked at, in a sorted list), `QuietIsProcessed` (no lost wake-up), `ImplementsReadingStore`,
  `StoredInTimeOrder`, `AveragedBeforeStored`, `MarkedIsStored` (where the data file can be opened),
  `ShutdownOrStuck` (once conn_mgr has ended, the log process is ended unless data_mgr was cancelled or failed inside
  `write_to_FIFO`; that conn_mgr itself can fail before is under *Findings*).
* List: `MemorySafe` (no pointer outlives its node, none that is followed is NULL), `NothingLeaked`
  (what malloc returned is in the list), `ImplementsReadingList`, `CallsReturn`.
* Restaurant: `MutualExclusion`, `SlotsAccounted`, `DishesAccounted` (counts of semaphores,
  dishes and children between operations add up), `ScanStaysTrue` (no dish dropped, overwritten or
  taken twice), `InterruptEndsAll`, `CooksGoOn`.
* PWM: `InterruptSilences` (off after Ctrl-C, although a flushed buffer comes behind the
  handler), `WritesTakeEffect` (the kernel has no reason to refuse a
  period or duty cycle, whatever ran before), `NotesAreClean` (no note with a value of the
  one before), `InterruptEnds`. The other ends are not covered: `pwm_play_music`
  returns with the channel on, and Ctrl-C during the export may leave it exported.
* GPIO: `PinsAsAsked` (an order to a pin holds until the next one for it, whatever is ordered for others; excepted are
  orders to one pin that overlap, a pin that is changed between a load and the store of `led.c`, and the high outputs of the bank when `led.c` is unloaded),
  `ObeyedAreListed` (a pin set by a command that was written alone is on the list, also after later writes
  that overlap), `TypeOK` (with the table's bound: `gpio_count` never passes `MAX_GPIOS`),
  `AgreedOptionHolds` (programs that chose the same option last leave both LEDs and both attributes at it).
* Exercises: `SignalsAsExplained` (of the signals a program sends itself, whatever others send), `ChildIsReaped` (except as under *Findings*).

`ImplementsReadingStore` and `MarkedIsStored` are about a data file that can be opened (`AlwaysOpens`). Where `fopen`
fails, `copy_data_from_linked_list_to_data_file` prints a line and returns, and the readings are
removed unwritten (see *Findings*); the run `Gateway` includes that case.

`PinsAsAsked`, `ObeyedAreListed` and `AgreedOptionHolds` have conditions because without them they fail: writers that
overlap lose commands and entries, changes between a load and a store are undone, and LEDs end up different. That is what the code does, and *Findings* says so. What the properties
show is how far the effect of it reaches.

### Bounds, and why they are enough

| Bound | In the code | In the runs | Why |
|---|---|---|---|
| `Window` | 5 | 2 | the list decides by "fewer, exactly, more than a window"; two is the least where first, last and middle-of-run differ |
| `Messages` per node | 10 | 2-3 | three make two overlapping windows, so that a mark can be passed by |
| sensor nodes | 2 | 1-2 | two groups in the list; more nodes than slots |
| `MaxClients` | 10 | 1 | makes the table full with two nodes; rounds with several ready slots are covered by the proofs, which hold for any number |
| `MaxEvents` per writer | unbounded | 2-3 | a line on its way while the next is written, by both threads |
| `ReadMax` | 1023 bytes | 2 | fewer, exactly and more lines than one read takes |
| `MaxSaves`, `Node` | memory | 4, 4 | two groups of a full window, a group of four; nodes are freed and used again; `MemorySafe` is proved for any heap |
| `BufferSize` | 10 | 1-2 | a full tray, an empty one, and one in which the scan has a choice |
| `Menu` | 8 dishes a tray | 1-2 | the kind of a dish decides nothing |
| `Samples` | 16 bit | least, greatest, -1, one more | `SampleDuty` is monotonic; `SampleDutyFits` is proved for all |
| `SampleRate` | of the file | 44100 | the lemma holds up to 1 GHz; the melody and ramp are not bounded |
| failed forks | any | none, or two | `Forked` |
| `MAX_GPIOS` | 128 | 2 | a table with room, with one entry left for two writers, and full |
| `MaxWrites`, `File` | unbounded | 3, 2 | two writes that overlap and one more that does not; proved for any number |
| `Pin`, `Bank` | 128 pins, 4 banks | 3 in 2 banks | a LED with a neighbour in its bank, and one without |
| `Command`, `Garbage` | any text | 2, 3 | an output and an input, complete; values on the stack that lead into every branch |
| loads of `led.ko` | unbounded | 1 | its registers are as it left them |
| `Program` in `LedSysfs` | any | 2 | two that agree, and two that do not |
| `Outside` | any signal | `INT`, `USR1`, `CHLD`, `RTMIN` | those the programs handle or block, of both kinds; others kill a program at once; proved for any |
| `MaxOutside` | unbounded | 3 | three different signals in one run, or one of them three times |

`CHECK_DEADLOCK FALSE` is said where the system may stop: writers that have
produced their lines, a gateway in which all ended, a list that was freed, a restaurant after SIGINT, a driver with no writes
left, programs that left the menu or came to their end. `Trays` and `Pwm` check deadlock.

### Fairness

* Weak fairness of each thread and process: the kernel schedules whatever can
  run. In the gateway it is per thread, not per action. `SelectTimeout` is excluded (`ConnMgrServes`):
  seven seconds of silence are nobody's duty. Nor are sensor nodes, cancellation, a SIGTERM from
  outside or a SIGINT fair.
* Strong fairness only for the semaphore waits of the restaurant's children: each
  child sleeps for seconds between two waits, while a critical section lasts
  a few instructions, so a waiter that is passed over for ever is not a
  behaviour of the program. Even so a dish in a higher slot may never be taken (see *Findings*).
* Weak fairness of a turn of a loop in `NodeList`: a thread inside a function goes on; nobody has to call one.
* Weak fairness of the running PWM program (`Process`); nobody has to start one or press Ctrl-C.
* In `SignalPrograms`, weak fairness of each task's next call and next signal, and of the end of
  the one child that ends by itself.

## Proofs

TLC checks the instances above, the theorems hold for every value of the
constants that satisfies the named assumptions (`LogFifoAssumption`,
`WindowAssumption`, `GatewayAssumption`, `NodeListAssumption`, `ProducerConsumerAssumption`,
`ProgramsAssumption`, `PwmAssumption`, and on the board `LedsAreGpios`, `CommandsAreWords`, `GarbageIsThere`,
`NumbersAndWords`, `UsersAreDistinct`, for the exercises `OutsideAreSignals`, `MaxOutsideIsNat`); nothing
else is assumed, except the premises that two rows of the table name.

| Theorem | States |
|---|---|
| `LogFifoProofs!Typing`, `NothingStranded` | `TypeOK`; `NoStrandedData` with `HeldWhileFilled` |
| `LogFifoProofs!LogIsImplemented`, `LinesInOrder`, `NothingLostWhileHeld` | `ImplementsEventLog`; `WriterOrder`; `NoLossWhileHeld` |
| `SensorGatewayProofs!Invariance`, `Typing`, `WalkStays` | the inductive invariant; `TypeOK`; `WalkIsStable` |
| `SensorGatewayProofs!AveragedFirst`, `QuietMeansDone` | `AveragedBeforeStored`; `QuietIsProcessed` |
| `SensorGatewayProofs!StoredOldestFirst`, `StoreIsImplemented` | `StoredInTimeOrder`; `ImplementsReadingStore`, both under the premises below |
| `NodeListProofs!HeapIsSafe`, `NodeListTypesHold` | `MemorySafe`, with the types of the heap; `TypeOK` |
| `NodeListProofs!NothingLeakedHolds`, `ReadingListIsImplemented` | `NothingLeaked`; `ImplementsReadingList` |
| `NodeListProofs!TurnsRunOut` | each turn of a loop brings its call nearer to its end: the safety half of `CallsReturn` |
| `ProducerConsumerProofs!Typing`, `MutualExclusionHolds`, `SlotsAccountedHolds` | `TypeOK`; `MutualExclusion`; `SlotsAccounted` |
| `ProducerConsumerProofs!DishesHold`, `ScanStays` | `DishesAccounted`; `ScanStaysTrue` |
| `PwmProofs!InterruptSilencesHolds`, `TypesHold` | `InterruptSilences`, and that a channel that is on can be turned off; `TypeOK` |
| `PwmProofs!NotesAreCleanHolds`, `WritesTakeEffectHolds` | `NotesAreClean`; `WritesTakeEffect`, both under the premise below |
| `GpioBoardProofs!Typing`, `ObeyedStayListed`, `PinsShowWhatWasAsked` | `TypeOK`; `ObeyedAreListed`; `PinsAsAsked` |
| `LedSysfsProofs!LedTypesHold`, `AgreedOptionHoldsAlways` | `TypeOK`; `AgreedOptionHolds` |
| `SignalProofs!SignalTypes`, `SignalsExplained` | `TypeOK`; `SignalsAsExplained` |

**Log.** `TypeOK` alone is not inductive: `WriteFifo` appends `entry[w]`, which is
a line only because a thread past `StartLog` has one. `OwnLine` says so.
`NoStrandedData` needs that a FIFO nobody holds is empty, since `LogOpen` blocks exactly when no
writer holds it. For the refinement, `LatestLine` says that the line a thread is producing is its
latest, and `ChunkHeld` that the log process holds nothing outside its read and its append, so that buffer and FIFO
together are the way of the lines; then each step is a step of `EventLog` or a stutter (`StepImplements`), the end of the log
process by SIGTERM or by `handle_error` (`LogExit`) included. `LinesInOrder` is
proved of the abstract steps (`OrderIsKept`): the trail of all lines that entered only loses lines or grows by
one that is younger than its thread's others (`OlderThanPending`).

**Gateway.** The invariant is `IInv == TypeOK /\ ConnInv /\ MutexInv /\ WalkIsStable`.
`WalkIsStable` speaks of a stretch of several steps of data_mgr; `MutexInv` (who
has the mutex follows from the threads' places) keeps conn_mgr and stor_mgr
from touching the list meanwhile, and `ConnInv` (in the places where a slot is served, there is one) is
what `TypeOK` needs for `msg`. The facts on lists come first in the module: a sort returns a
list in order of the same type (`SortedType`), the position behind a group is the start of the
next (`GroupEnd`), a full window lies inside the list (`WindowInList`), a mark leaves
the order as it was (`MarkKeeps`), picking nodes of a list gives a list (`PickType`).
One lemma per thread shows that its steps keep the invariant.
`AveragedFirst` follows the marks through every sort, copy and removal (`AverageInv`).
`QuietMeansDone` needs to know where the wake-up is while there is work: a list
out of order has a count in the semaphore, a conn_mgr about to post, or a data_mgr
past its wait (`SortIsDue`); a marked reading has the same one stage later (`RemovalIsDue`).

The last two theorems have premises on what is outside the gateway: the sensor nodes have different
IDs (`NodesDiffer`, as `client_1.c` and `client_2.c` do), send at most ten readings (`FewMessages`, as they
do; the model counts times from 1, and with more than ten a time that `Parse` garbled could not be told from a
genuine one, as the code's seconds since 1970 always can),
and, for the refinement alone, the data file can be opened (`AlwaysOpens`).
`OrderInv` follows a time from the node that sent it (`NetInv`, `Came`: what is in memory was sent
before what is on its way) through `msg` (`MsgIsNew`) and the list (`Tidy`: no reading twice, marked ones
older than the others and in order) to the file (`FileOlder`, `FileInOrder`). Between copy and
remove, or for ever when stor_mgr is cancelled there, marked readings are in both (`Copied`); everywhere else list
and file are apart (`Apart`). `MovedInv` says that what is about to be removed is in the file. Then saving is
`Keep`, `LogAverage` is `MarkDue`, a copy is `StoreDue` (with as many new entries as keys, `KeyCount`), and sort,
removal and all other steps change nothing that `ReadingStore` sees (`StepImplements`). `HandleError` is its `End`: the
readings that `exit` flushes are some of those that are due.

**List.** That no freed node is reached needs the shape of the list: no node has two pointers
to it (`Unshared`), the pointers never lead back (`Acyclic`: there are ages that fall along them, which makes
it a first-order fact), `prev` is one behind `temp` while nodes are removed (`PrevFollows`), and a pointer of a function that has
returned is NULL (`Unused`). Then the node that `RemoveNode` frees is reached by nothing else, its own successor
included.

For everything that is about the list as a whole, `ListInv` adds a witness: a number `n` and a path `p` of
`n` different nodes that are all the allocated ones, from `head` along `next` to NULL (`IsPath`). There is only one such path, so
`Length` and `Linked` are its length and contents (`PathIsList`; a node is put in front, rewritten in place, or taken out of the
middle, and the path with it), and `NothingLeaked` is that `n` is the number of allocated nodes (`PathLength`; that memory is
finite, `IsFiniteSet(Node)`, is assumed for it). `LoopInv` says where on the path each loop is and what it has done:
while the list is sorted it is a permutation of what was given (`Reordered`, kept by a swap, so no mark is lost) and what
is before the loop's pointer is in place, by ID in the first pass (`IdsTo`) and by ID and TIME in the second (`OrderTo`), `min` being the
least seen so far; the count is over one group from its first reading (`GroupStart`, `InOneGroup`); what was copied or kept so far is the marked or
unmarked part of the first `k` readings (`Copied`, `Kept`). With that, the last turn of a loop is the step of `ReadingList` and all turns before
it are stutters (`NextRefines`). The loops need no induction over data: each turn extends its part by one reading. Where a fact about every prefix of a list is needed
all the same (the types of what was picked, `PickedTypes`), the shortest prefix without it gives the contradiction (`LeastExists`).

`TurnsRunOut` takes ages of the nodes from `Acyclic`. They stay good for the whole call, because only `RemoveNode` relinks and it
skips a node (`TurnKeepsAges`). `Nearer` compares, first to last, the loops still to come, how far `temp` is from the end,
`current`, and `inner`; that the outer pointer moves on when an inner loop ends needs `CurrentAhead`. What is not
proved is that a thread inside a call can always take a turn and does: TLC checks it, with `CallsReturn`.

**Restaurant.** `MutualExclusion` and `SlotsAccounted` are sums of cardinalities over all
children; the proofs turn them into sums of five 0/1 indicators, one per child
(`InvsAsCounts`), each step changes one indicator and one semaphore, and arithmetic does the
rest. `SlotsInv` is inductive given `TypeOK`, and so is `MutexInv`; that at most one child is
inside follows since a semaphore is never negative.
`DishesAccounted` and `ScanStaysTrue` need each other: a store adds a dish only if its slot is still free (`DishesKept`), and
a scan finds a slot because the counts of slots and dishes leave one for it (`ScanFinds`); between scan and access nobody else is
in the section (`AloneInSection`), so what was found stays (`ScanKept`).

**PWM.** `InterruptSilences` needs to know what the handler has achieved at each of its
writes (`TurnedOff`): the third leaves the channel off even when it is refused, because
the kernel refuses to turn a channel off only if it has no period, or too short a one, and
`ChanInv` says that such a channel is not on; the fourth gives it back, and nothing
flushed afterwards reaches a channel that is not exported (`UnexportedStaysOff`). `SampleDutyFits`
shows that no sample gives a duty cycle longer than the period.

For the other properties `Place` says where main can be in each program, `Numbers` that the channel's duty cycle fits its period, and `LeftOver` that only
the duty cycle of a sample survives its program: on a channel whose period main has not written yet it is no longer than `SamplePeriod`. `NotePeriod` and
`SoundsNote` give the note that should sound as a function of `i`, and `Achieved` what an uninterrupted main has certainly got from the kernel when it
comes to a step. The two theorems have a premise (`SamplesFit`), since `pwm_play_music` returns with its last duty cycle still set: one
sample takes no longer than the 100000 ns of `led_brightness` (a sample rate of 10 kHz or more) and than the shortest period of `mono_music` (about 2.1 kHz or more), where these
programs are run at all. It holds for the 44.1 kHz of the runs and of common files. Without it the kernel may refuse
the period of `led_brightness` (see *Findings*).

**Board.** `TypeInv` adds to the types that a write under way is counted (`Counted`), that a loaded
register belongs to the store that follows (`Loaded`), and that what was parsed has a pin (`Wished`). For the list, `AloneInv`
follows a command written alone through the buffer into the variables of `m_write` (`Alone`), and says
that what is owed lies below every entry that a writer is about to overwrite (`Kept`): a writer that is late lowers `gpio_count`, but never below what
was owed when it loaded it. For the pins, `PinInv` says for each pin how far the order has come that has it to itself;
the steps of others leave the pin alone (`Undisturbed`) or end the claim (`Unclaimed`).
That a store of `led.c` to a whole register leaves the other pins as they are is not assumed but follows from `Fresh`: what was loaded
of a pin is still what its register holds, unless the pin is in `touched`. A step of the character driver puts the pins it
changes there (`OthersTouch`), a load makes all of them fresh (`LedKeepsFresh`).

**sysfs LEDs.** An option is two stores of three steps each, and others may store between any two of them. `WriterInv` says which of its writes a
writer is at and that a number other than 0 and 1 (the shell's `"5"`) stores nothing. `EffectsLast` takes the six steps of an option one by one and says: *as long as all whose choice
counts chose it*, a step that each of them has behind it has its effect on the pins or attributes (`Effect`), whoever did it last; the steps of the others repeat it and
nobody undoes it. When all rest, all six are behind everyone, which is `AgreedOptionHolds`.

**Exercises.** What a program shows at a call depends on what it has arranged before, so the invariant is, for each program, what is so at each of its
calls (`Arranged`): which handlers and masks are set, and where the signals are that it sent to itself. A signal that was sent is pending or was caught,
and while the task blocks it, it is pending; `Kernel` and `Places` say what holds of all programs: the queues' types, that a standard signal is pending once, that a task is at
one of its calls, and that only the threads of Ex5 have signals of their own. Signals of others come at any time: they may add to a queue or take the place of a standard signal that is
already pending, never remove one (`EnqueueQueue`, `EnqueueRealtime`), and a delivery takes away what it records as caught (`DeliverIs`, `RemoveAtQueue`).
Of the two real-time signals that Ex7 sends itself (`Own`) the first sent is the first in the queue, whatever `SIGRTMIN` of others is before, between and behind
them, and a task takes the first of a number in the queue, so it is the first caught (`TakesRealtime`, `NoneCaught`, `OneCaught`, `TwoCaught`). `ChecksProperty` and
`CaughtProperty` then read off what is shown at a check and at the end. `MaxOutside` is a constant like others here: the theorems hold for any number of signals from others.

**Only model-checked.** Liveness: `LogCallReturns`, `ReadIsLogged`, `ShutdownOrStuck`, `MarkedIsStored`, `InterruptEndsAll`, `CooksGoOn`, `InterruptEnds`,
`CallsReturn`, `ChildIsReaped`. It needs fairness, and `ENABLED` under it, which is outside the prover's reach. Every other property of a
run that passes is a theorem. The two runs that end in a violation are counterexamples, for which TLC is enough.

## Findings

With a run that shows them:

1. **A logged line can be lost** (`LogFifoLoss`). A writer that closes the FIFO
   while the log process has it closed is the last holder, and the line is gone.
   This happens during the first second (`sleep(1)`, `server.c:86`), as in the run, where it is the first line of conn_mgr,
   and during every append.
2. **The shutdown can hang** (`GatewayShutdown`). `pthread_cancel(data_mgr)` may act in
   `write_to_FIFO` with `data_mutex` held; stor_mgr then waits for it for ever and
   main for stor_mgr. `ShutdownOrStuck` shows that, apart from a call that fails (14), it is the only way.

Without a run of their own, found while the code was modelled; the actions named do what the code does:

3. **Sequence numbers repeat.** `log_sequence_number++` is a data race
   between conn_mgr (`socket_server.c:101,133`) and data_mgr (`processing_linked_list.c:121,128,135`): `LoadSeq`, `StoreSeq`.
4. **A full window may not be averaged.** If data_mgr
   runs twice before stor_mgr, the second run averages the old window again (`server.c:146`).
5. **The gateway process never ends** (`server.c:80`): `while (1);` after the shutdown, `Spin`.
6. **A dish can be passed over for ever.** Cooks and guests both take the lowest slot (`Producer_Consumer/main.c:142`).
7. **The LED may stay dark.** `led_brightness` writes `enable` before `period`
   (`main.c:29-30`); on a channel without a period the kernel refuses it. The second start works.
8. **Music of a low sample rate outlasts its program.** `pwm_play_music` returns with its last duty cycle set (`main.c:106`); after a file of less than
   10 kHz it may be longer than the period `led_brightness` writes next (`led_brightness/main.c:30`), which the kernel then refuses.
9. **Writers of the character driver disturb each other**: one shared buffer (`gpio.c:91`), an unlocked
   `gpio_count` (`gpio.c:121`); a second write on one file parses an empty string (`gpio.c:95`); 4096 bytes of a
   buffer of 1024 are cleared (`gpio.c:91,183`); a read behind `size` has a negative length (`gpio.c:66`).
10. **Its init and exit do not undo what was done**: the cdev stays when kmalloc fails (`gpio.c:192`), failures of
   `class_create` and `device_create` are not seen (`gpio.c:169,176`), the device can be opened before its
   buffer is there, and exit frees pins of other drivers (`gpio.c:209`).
11. **sysfs driver**: two writers can leave the LEDs different (`bbb-sysfs.c:48`); pins are freed before the attributes
    are removed (`bbb-sysfs.c:148`); text that is no number turns the LEDs off while `_value` stays (`bbb-sysfs.c:43`);
    `check_buf` is not initialised (`bbb-sysfs.c:86`).
12. **ioremap module**: `|=` and `&=` undo what is changed in the bank between their load and their store (`led.c:22`); exit clears every output of the bank that is high (`led.c:35,38`); a failed second `ioremap` leaves the first (`led.c:19`).
13. **A child may stay a zombie**: `01_Safe_fork` calls `signal(SIGCHLD)` after `fork` (`main.c:31`); `ChildIsReaped` excepts that case.
14. **A call that fails ends the gateway without a word to the log process** (`processing_FIFO.c:8`): `exit` in `handle_error`, from `write_to_FIFO`, `select`, `accept`
    and the set-up of the socket, comes before the SIGTERM; the readings in the list are lost and the log process waits in `open` for ever: `HandleError`, `WritersExit`.
15. **A data file that cannot be opened loses readings** (`processing_linked_list.c:149`): the copy prints a line and returns, and what was
    marked is removed, which `explain_server.md:44` describes as written first: `CopyFails`.

## Not modelled, and why

* libsndfile 1.0.28 under `LAB_PWM/play_music`: third-party code, unchanged, and nine tenths of the lines under `src/`.
  The share of the source that the models stand for is therefore small; of the repository's own C programs that have state or
  interaction, all are modelled.
* WAV tools: conversion of a file through libsndfile, and the printing of a header. `pwm_play_music` is modelled, with the file's samples as a set.
* Library, file and debugger exercises: no state or interaction; some are wrong on purpose.
* Bytes and text: formats, buffer bounds, integer overflow of readings; hazards list where they bite.
* Failures of system calls that the code has no branch for, unless a property is about them.

## What could come next

1. The log and the gateway on one state, so that a cancelled data_mgr and the FIFO it holds open are one behaviour.
