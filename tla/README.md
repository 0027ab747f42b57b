# Verification of the Flsun T1 host and firmware software

This directory holds TLA+ models of the software of the Flsun T1 printer, the TLC
configurations that check them and the TLAPS proofs about them. The code is a fork of
Klipper (`src/t1-pro/klipper`: a Python/C host program *klippy* and the firmware of the
micro-controllers) and of Moonraker (`src/t1-pro/moonraker`: the API server in front of it).
Paths below are relative to these two directories; a bare `x.py` of the host is in `klippy/`
or `klippy/extras/`, one of the server in `moonraker/` or `moonraker/components/`.

Run `tlc -config X.cfg MCM.tla` for a run (`PROJECT.json` names the module of each) and
`tlapm M.tla` for a proof module. `PROJECT.json` also maps every definition to the lines it
models and lists mutants, findings, hazards and theorems.

Contents: 1 inventory, 2 how the models are built, 3 the models and their runs, 4 what is
proved, 5 findings, 6 what is not modelled, 7 plan.

## 1. Inventory

| Part | State | Operations | Hard behaviour |
|---|---|---|---|
| Serial link: `chelper/serialqueue.c`, `src/command.c`, `src/generic/serial_irq.c` | send and receive sequence numbers, unacknowledged blocks, timers, next expected number, receive and transmit buffers | build a block, retransmit, handle an acknowledgement, nak or response; find and dispatch a block | lost, damaged, repeated blocks; 4-bit numbers that wrap; timeout against late answer; full buffers |
| Print from SD card: `virtual_sdcard.py`, `print_stats.py` | file, position, read buffer, flags of the worker; state shown | SDCARD_*, M23–M26, `do_pause`, `do_resume`, `do_cancel`, `work_handler` | worker and commands interleave at every `reactor.pause` |
| `pause_resume.py`, macros of `printer.cfg` | `is_paused`, `sd_paused` | PAUSE, RESUME, CANCEL_PRINT, CLEAR_PAUSE, START_PRINT, END_PRINT | commands from a file, from clients and from sensors |
| Reactor and gcode mutex: `reactor.py`, `gcode.py` | timers, greenlets, holder and queue | callbacks, pause, lock, unlock, complete | two-step hand-over, timers changed during a pass |
| `power_loss_recover.py`, `save_variables.py` | variables in memory and on disk, queue, writing thread | SAVE_VARIABLE, RESUME_INTERRUPTED, F102 | power loss between two file operations, full queue, restart with a thread that still writes |
| `filament_switch_sensor.py`, `buttons.py`, `src/buttons.c` | debouncing thread and its lock; report buffer | sensor events; reports and acknowledgements | thread against reactor; lost reports, 8-bit counts |
| `locate_printing_gcode.py`, `exclude_object.py` | ring of executed lines; excluded objects, transform | rollback; EXCLUDE_OBJECT | records that wrap; skipped moves |
| `idle_timeout.py`, print time of `toolhead.py` | state of the print time, flush timer, idle timer | moves, flush, stall, timeout | timers against a greenlet that waits |
| klippy: `klippy.py`, `mcu.py`, `serialhdl.py`, `webhooks.py` | lifecycle state, sessions, API clients | connect, shutdown, restart, requests | retries, shutdown that is ignored |
| Motion: look-ahead and limits of `toolhead.py`, `gcode_move.py`, `printer_workmode.py`, `chelper/stepcompress.c`, `src/stepper.c` | queue of moves, coordinates, limits, step queues | moves, flush, modes, homing | lazily flushed queue, saved states and errors, wrapped clocks |
| Homing: `mcu.py` (MCU_endstop, MCU_trsync), `chelper/trdispatch.c`, `src/trsync.c`, `src/endstop.c` | trigger state per micro-controller, timeouts | home_start, home_wait, reports | micro-controllers that do not hear of each other |
| Heaters: `heaters.py`, `verify_heater.py`, `src/gpiocmds.c`, `src/adccmds.c` | queued outputs, maximum duration; error and goal of the check | new readings, targets, checks | host that dies, sensors that fail |
| Firmware scheduler: `src/sched.c` | timer list, stand-in, place of the last insertion | add, delete, dispatch | wrap-around of 32-bit clocks, changes of the head |
| Moonraker job queue and history: `job_queue.py`, `job_state.py`, `history.py` | queued jobs, queue state, timer, lock; record of the job, cache of the list | add, delete, jump, start, pause; events of prints and of Klipper | stale checks across `await`, timers that cannot be cancelled any more, restarts |
| Moonraker's connection: `klippy_connection.py` | state of the connection, requests in flight, subscriptions, cache | connect, initialize, requests, updates, close | a printer that fails while it is being initialized; replies and updates run in another order than they came |
| Rest of Moonraker: server, files, database, power, updates | sessions, files | API | mostly I/O |

How they interact. The touch screen and web pages talk to Moonraker, Moonraker to klippy
over a socket (`webhooks.py`); a gcode request takes the gcode mutex. `work_handler` takes
the same mutex for every line of the file, so clients and file alternate. Commands end in
blocks for the micro-controllers on the serial link. `print_stats` is what Moonraker's
`job_state` watches and `job_queue` and `history` react to. `save_variables` holds what the
next session needs to recover a print.

What makes each part correct is stated in section 3; `PROJECT.json` lists under "hazards"
where each can go wrong, with the properties that would show it.

## 2. How the models are built

One module per component, with a prefix of its own for variables and actions where several
components meet in one run. A step is what the code does between two points where something
else may run: between two pauses of a greenlet, two awaits of a task, two file operations or
two accesses of a thread, two interrupts of the firmware. Integers that wrap keep a modulus.

Components that share no state are checked together in the three group runs `Safety_all`,
`Faults_all` and `Liveness_all`: a variable `part` is chosen in the initial state, the
component of that name runs and all the others stay as they are, so the states of a run are
the sum and not the product of those of its components. Components that do interact are in
one module (the worker, the commands and the macros in `PrintJob`; the link, the host's and
the micro-controller's side, in `SerialLink`), or one is the assumption of the other:
`LinkContract`, which `SerialLink` implements, is what `Buttons`, `Homing` and `Heater`
assume of commands; `FifoLock`, which `Reactor` implements, is the mutex of `PrintJob`.

`CHECK_DEADLOCK FALSE` stands in runs whose bounded counters (saves, moves, faults, time)
run out, and in those where the deadlock of the first finding can occur. `SerialLink_*` and
`PrintJob_ui` are checked for deadlocks.

## 3. The models and their runs

### Serial link (`SerialLink`, `LinkContract`)

Variables are the fields of `struct serialqueue` and the static variables of `command.c`;
`to_mcu` is the line and `receive_buf`, `from_mcu` the `transmit_buf` and the line. A block
is its full number; guards only look at `Low(number)` wherever the code has the low bits.
`BuildAndSend`, `RetransmitTimeout`, `RetransmitNak`, `HandleMessage` (`HandleAck`,
`HandleData`) are the host; `McuAccept`, `McuNak`, `McuGarbage`, `McuRespond`, `McuReport`,
`McuDone` the micro-controller; `LoseBlock` and `LoseMessage` the line. The
micro-controller starts with any expected number, as after a restart of the host.

`LinkContract` has no wire: blocks are dispatched in order and reported as received only
after that, except before the two sides have agreed on a number. A message with contents that comes
before block 1 is acknowledged makes `wake_seq` wrap to 2^64 - 1 (`serialqueue.c:228`), and
`Notify` then reports every waiting block, as the code does: `NotifyAfterResponses` is an action
property that speaks of the time after.

| Run | Shows | Bounds |
|---|---|---|
| `SerialLink_wrap` | `InOrder`, `AckedDispatched`, `NothingInvalid`, `NotifyAfterResponses`, `NakRaisesLimit`, `ImplementsContract` | 3 numbers on the wire, window 2, 4 blocks, buffers of two: the numbers wrap and a late copy meets its successor |
| `SerialLink_live` | `RxFits`: first transmissions fit into the receive buffer; `EveryBlockAcked` | receive window of 2 blocks known to the host, a window of 3, 3 blocks, one message in the buffer |

Fairness of `FairSpec`: pollreactor runs expired timers and readable descriptors, the
scheduler runs `console_task`, and the line does not lose for ever the block that is
expected, every refused block, or every message that acknowledges more.

Simplifications: every block has one length; the ordering by clocks of `upcoming_queue` and
`ready_queue` is before the model; no durations.

### Print job (`PrintJob`, `PrintContract`)

A print from the SD card with the greenlets that touch it: the worker, one greenlet per
client, and END_PRINT macros (`ending`). `worker` says where `work_handler` waits; `owner` and
`waiting` are the gcode mutex and its queue; `cmd[c]` and `phase` the command of a client and
how far it is. `Request` queues a command; `Command` is the union of the commands' steps
(the macro's part, the wrapped command, the poll of `do_pause`, the end); `Work` the steps of
`work_handler`. What lines, reads, sensors and macros may do is the constant `Events`.

| Run | Shows |
|---|---|
| `PrintJob_ui` | commands of the user interfaces, file lines that pause, cancel or fail, a runout: `Recoverable`, `NoInternalError`, `PauseHolds`, `ImplementsContract`, `CommandsReturn`, no deadlock |
| `PrintJob_all` | all commands and events: `WorkerRight`, that is types, the mutex, and until an "exclude_object over" that the position tracks the file, the state shown is the worker's and the file stays open |
| `PrintJob_cancel_recovery` | violation of `CancelReturns` |

Bounds: two clients (so one can hold the mutex while another waits), files of two lines in
reads of two (so a buffer holds a line when the worker stops), one END_PRINT macro that still
runs in `PrintJob_all` and two in `PrintJob_ui`. Clients are symmetric.

Fairness: the reactor calls every greenlet whose time has come. It is strong for commands
and END_PRINT because the worker, which gives way for 0.1 s at a time while the mutex is
taken, disables their steps whenever it runs and does not undo what they wait for.

Simplifications: `pause_command_sent` equals `is_paused` in every state of this
configuration and has no variable; `recover_file_position` is the identity, as it is when no
object is excluded; the rollback after a runout is `Rollback`; what macros do after the
wrapped command changes nothing modelled; a shutdown from elsewhere, durations and filament
are left out; positions are lines, not bytes. The device runs CPython 3.7 (compiled files of
the repository), where the `TimeoutError` of `_read_data` is not the one that futures raise:
there a slow read is the event `read_error`; `slow_read` is what the code intends.

### Job queue (`JobQueue`)

`tasks` is the queue of the asyncio lock with its holder first, `at` where the holder
waits; a task gives way only where it awaits Klipper. `pause_queue` changes `qstate` and
the timer before it waits for the lock. `timers` holds calls of `_pop_job` that are
scheduled; one that is `due` has become a task and cannot be cancelled. `printer` is
Klipper's state, `seen` what `job_state` was told last (Klipper reports four times a
second, so short states are missed). "aborted" stands for Klipper's "error" and
"cancelled". `automatic_transition`, `load_on_startup` and a transition gcode are on, which
enables most; without them the queue does less.

Runs: `QueueRight` (types, a queue that loads has a load on its way, no job is printed
twice) in `Safety_all` with two jobs and two tasks or timers when another arrives, so that a
pop task, a start and a pause meet; `QueueGoesOn` (loading ends, the next job loads) in
`Liveness_all` with one job; `JobQueue_pause_start` shows a violation of `PausedQueueStays`.

### The run `Safety_all`

| Part | Module | What it is | Property and bounds |
|---|---|---|---|
| record of lines | `Rollback` | F109, the record as a ring, the snapshot at a runout and the search | `PrintedAgainRight`: a print goes on with the line where the extruder ran empty; 4 lines, a record of 3 that wraps, gravity on and off |
| reactor | `Reactor`, `FifoLock` | timers, nested passes, pauses, `ReactorMutex`, completions | `NobodyForgotten`, `ImplementsFifo`; two greenlets and a timer |
| look-ahead | `LookAhead` | `add_move`, lazy and full flush | `PlanPossible`: no move starts or ends faster than its neighbours and its length allow; 4 moves, two lengths, one of them smoothed, three junctions |
| work mode | `WorkMode` | PRINTER_WORKMODE, SET_VELOCITY_LIMIT, M204, F, M220, saved speeds, drivers that fail | `SpeedAsAsked`; 5 commands |
| coordinates | `GcodeMove` | moves, G92, modes, flow, offsets, saved states, errors | `ExtruderAgreed`; 6 commands |
| subscriptions | `Subscriptions` | `QueryStatusHelper`, Moonraker's cache and its listeners | `StatusRight`; two objects, two listeners |
| job queue | `JobQueue` | above | `QueueRight` |
| timers | `Timers` | `sched.c` and the interrupt of the hardware timer | `TimersRight`: ordered, none early, none missed; clocks of 20 values that wrap, two timers besides the two that are always there |
| steps | `StepQueue` | compression, batches, the move queue, the stepper, homing | `MotionRight`; two motors, one slot, three runs of steps, a clock that passes the wrap-around at 18 |
| objects | `ExcludeObject` | START, END, EXCLUDE, the transform, "over" | `OthersPrinted`; two objects, retraction, 11 places |

Moonraker goes on reading while what it has read waits to be run: an update is a callback of
the event loop, a reply wakes a task through `shield` and `wait_for`, which takes some turns of
the loop more. So a reply never runs before an update that was read before it, but an update
that was read after the reply may run before it (`RunLate`), and then the older values of the
reply overwrite those of the update; such objects stay stale until they change again or
somebody subscribes. The history variable `outdated` has exactly these, and `StatusRight` is
about all others; without the exception TLC finds a stale status (section 5).

`SpeedAsAsked` says of a move that extrudes that its speed is the last F times the factor, where
RESTORE_GCODE_STATE gives back the F of the saved state. Three sequences of commands break this in the
code, the model has them, and `asked.stale` excludes just what follows them until the next F: M220
while a travel is slowed down, a state that was saved while one was, and a state that is
restored with another factor or another `pre_speed` than it was saved with (section 5).

### The run `Faults_all`

| Part | Module | Faults | Property and bounds |
|---|---|---|---|
| saved variables | `SaveVariables` | power loss at every file operation, failing writes | `NothingLost`, `MemoryNewest`; two variables, three saves, a queue of two |
| buttons | `Buttons` | lost reports and acknowledgements | `ChangesTaken`; 7 changes, counts modulo 6, two reports at once |
| homing | `Homing` | late commands, lost reports | `HomingRight`; two micro-controllers, timeout of 2 ticks, 4 ticks of time |
| heater | `Heater` | dead host or cable, sensor out of range, lost reports | `HeaterSafe`; durations in proportion to the code's 3.75 s and 5 s |
| heater check | `HeaterCheck` | a heater that does anything | `VerdictRight`; temperatures to 10, lag of 2 checks |
| history | `History` | restarts of klippy and of Moonraker | `HistoryRight`, `ListComplete`; three prints, two stored, two periods |

Three saves are enough for one snapshot in the file, one being written and one queued. 7
changes pass the counts of the buttons more than once. 4 ticks are two timeouts of a homing
move. In `SaveVariables` a value is the number of the save that set it, so "older" is `<`;
after a power loss the directory may name the old or the new file and the content of an
inode that was not synced may be anything it went through, torn included. `Disconnect` and
`Start` are the restart of klippy in the same process: `SaveVariables_restart` shows that
then `NothingLost` is violated.

### The run `Liveness_all`

| Part | Property | Fairness and its reason |
|---|---|---|
| filament sensor (`Runout`) | `RunoutsHandled`: a runout that lasts leads to its event | the reactor comes to every callback although a handler that waits is in its way (strong), threads run (weak) |
| buttons | `ReportsArrive` | timer, tasks and threads run; a report that is sent again and again is not lost each time (strong) |
| print time (`PrintTime`) | `PrintTimeRight`: the flush and the stall happen, the idle timeout's state is "Printing" while moves are executed and "Idle" in the end | time passes; the reactor comes to its timers |
| session (`Session`) | `SessionRight`: a printer that is ready has its configuration and a live micro-controller, a dead one is found, klippy settles | the reactor and `main` go on |
| connection (`KlippyConn`) | `ConnectionRight`: what is ready was announced, requests are answered or refused, a closed connection is opened again | the event loop runs tasks and the reader; Klipper answers |
| job queue | `QueueGoesOn` | as above; the status is strongly fair because the printer may return to the state that was reported last |
| writing threads (`SaveVariables`) | `OldThreadsEnd` | the operating system runs threads |

The script of the idle timeout is the empty one of the printer's configuration
(`printer.cfg:392-397`), not the one of `idle_timeout.py:8-14` that turns heaters off: on this
printer heaters stay on, and nothing is claimed of them. The state matters because filament
sensors and G1 do nothing unless it is "Printing".

Two faults or losses, one request and one callback are the bounds that let a second event
meet the first unfinished one. `Runout_dead` and `Klippy_shutdown` use the same module with
one part each and show a violation.

## 4. What is proved

TLAPS checks these for every value of the constants that satisfies the `ASSUME`s of the
module; each listed theorem whose name is in brackets states a property that a run checks.
Every inductive invariant was checked by TLC first. None of the properties is inductive by
itself; what was added is named here, because it says why the code works.

**Serial link** (`SerialLinkProofs`: `BlocksInOrder`, `NothingDropped`, `NotifiedLast`,
`NeverInvalid`, `NaksAreBounded`, `LinkImplementsContract`, `FirstSendsFit`; `TypeCorrect`
and `AlwaysArmed` besides). Whether a message is taken for an answer depends on how old the
messages on the line can be. `IInv` adds that the numbers in both directions are ordered and
lie in a span less than the modulus around `receive_seq` and `mcu_seq`, so that equal low
bits mean equal numbers (`LowInjective`); this is where `Window < SeqMod` is needed. `NotifiedLast`
[`NotifyAfterResponses`] leaves out the steps before block 1 is acknowledged, where the wrapped
`wake_seq` breaks it, and is proved from `IInv` for each step of the host.
`FirstSendsFit` [`RxFits`]: first copies on the line that the micro-controller has not had
have different numbers from `mcu_seq` to `send_seq - 1` (`FirstOnce`, `FewOnTheWay`), and
the block that is dispatched is still counted by `last_ack_bytes` while the host does not
know that it is done (`RxInv`). A window of one block would not do: with nothing in flight
the host sends without a look at the window. `CapacityAssumption` excludes it, for a receive
buffer of 192 bytes holds three of the longest blocks.

**Saved variables** (`KlippyProofs`: `PowerLosesNothing`, `MemoryIsNewest`,
`TypeCorrect`), the first two for processes that are not restarted
(`"restart" \notin Faults`; `SaveVariables_restart` shows the opposite with one). `IInv` says
that there is one thread (`OneThread`), that what the directory names is synced and is not
what the thread writes (`OnMedium`), and that medium, file, the snapshot being written, the
queue and the memory are ordered by age (`Ordered`).

**History of jobs** (`MoonrakerProofs`: `HistoryIsRight`, `ListIsComplete`), with restarts of
either program. What Moonraker saw last of a print that Klipper still reports is no earlier
state of it than the durations say (`SeenInOrder`): a start that was not seen has the duration
0, which is less than that of the print that is recorded, so `_check_resumed` does not take it
for a resumption; and a job that was resumed is longer than when it was paused. From this the
print of the job under way is the one that ends (`StatusTrue`), and a print that gets a record
has none (`RecordedOnce`). The ids stay those of the records because the job under way is among
them unless it was deleted (`IdsInv`); a list is read by places, which hold while no old
job is removed (`ListInv`).

**Reactor** (`KlippyProofs`: `NobodyIsForgotten`, `MutexImplementsFifo`). `ReactorInv`
knows which timers a pass has still to visit (`PassedOver`) and that `_next_timer` is no
later than any of the others, that a greenlet waits in one place only, and that one who
waits for the mutex or a completion is woken by its holder or by nobody's fault. The
refinement maps the lock of `FifoLock` to the holder, or to the head of the queue while
`next_pending` says that it was chosen but has not run.

**Session and print time** (`KlippyProofs`), the parts of `SessionRight` and `PrintTimeRight`
that need no fairness. `ReadyIsConfigured` [`ReadyConfigured`]: from the moment in which the
configuration is sent or found equal until the next session the micro-controller has it or
none (`ConfigInv`). `ToolheadIsInTime` [`BufferNotEmpty`, `BufferBounded`, `WaitsForAll`,
`MovesArePrinting`]: in its main state the toolhead has its flush timer set, and when that is due
`Margin` is still buffered, the lesser of `Low` and of `Lead` with a move (`HostInv`); `Late`
must be less than that, which is what `PrintTimeAssumption` asks of the reactor. What is
buffered while no greenlet waits is at most `High + 1`, or was flushed by the timer, after
which the next move waits at once (`FreeBounded`). In its main state, in a drip move or with more than
`Lead` buffered, the idle timeout has been told (`Told`): the print time was moved ahead by
`_calc_print_time`, and its own timer leaves "Printing" only when nothing is buffered, which the
flush timer has noticed before (`RunOut`), and nobody has the mutex of gcode.

**Look-ahead** (`HostProofs`: `PlansArePossible` [`PlanPossible`]). A flush is a traversal from the last
move to the first, and what holds in it is shown in that order, by the least number for which
it does not hold (`Downward`). What the traversal knows (`Traversed`): the smoothed speed never
exceeds the reachable one, and delayed moves are the run that ends before the next move that
accelerates, each left as fast as the one behind it starts (`RunFrom`); when the peak comes
their speeds fit together (`DelayedPlan`), for where two moves can both decelerate smoothing
has not changed the speed of the junction (`JunctionKnown`). `PlannedFrom` has the speeds that
are decided and where the next move starts. The hard part is the seam between two flushes: a
move that left the queue ended with a speed that was computed from moves behind it, and more of
them come. `HeldBy` is why this holds: where a peak was found another one lies behind it
(`PeakAfter`), which no later move can take away because smoothed speeds only grow with the
queue (`HeldBelow`, `StartsFrom` kept by `FrontKept`), so every later traversal comes to the same
speed at the front (`HeldEnds`). The code asks for `peak_cruise_v2` before it counts a move as
flushed for this. Speeds are squared integers and `* .5` rounds down, where the code has
floating point: the theorem is about the order and the minima, not about rounding.

**Filament sensor** (`KlippyProofs`: `OneRunoutAtATime` [`CountsFromZero`, `OneRunout`]), the part
of `RunoutsHandled` that needs no fairness, for any number of threads and any count. As long as
SET_FILAMENT_SENSOR is not used, a runout is in one place: a callback that waits, the one
thread that debounces, or gcode that runs, and the sensor is disarmed meanwhile (`OneAtATime`).
The command breaks this, as it calls `RunoutHelper` past the debouncing.

**Record of lines** (`KlippyProofs`: `LackingIsPrintedAgain` [`PrintedAgainRight`]), for any
lines, sizes of the record and lengths. The record is the newest lines, each beginning where the
one before it ends (`Recorded`), through additions, overflows and F109. The search is followed
from the newest line to the oldest: when it has stopped, no older line lacked filament, as that
line ended before (`LackingFound`); without `gravity_min` only lines that lacked filament are
found (`OnlyLacking`); with it what has been added up is the distance to the end of the record
(`EnoughFound`). The last part is claimed, as in the run, for records without a change of height
and `gravity_min` at most `gravity_target`, all of it for records in which nothing is retracted.

**Print job** (`PrintJobProofs`: `WorkerIsRight`), from the mutex and its queue (`MutexInv`)
and `FlowInv`: what the buffer holds is what follows the position, a state that is shown as
"printing" belongs to a worker, and no command takes away the file of a worker that is
positioned in it. Four theorems hold under a condition each, and each condition is needed,
for the model without it has a counterexample:

| Theorem | Condition | Without it |
|---|---|---|
| `PausedPrintHolds` [`PauseHolds`] | no M24 | M24 resumes the file while `is_paused` stays set |
| `NoneIsClosed` [`NoInternalError`] | no `slow_read` | a worker that gives up a slow read ends, a CANCEL or RESET that waited for it closes None |
| `PrintImplementsContract` [`ImplementsContract`] | no M26 | M26 moves the position away from what was printed |
| `PrintIsRecoverable` [`Recoverable`] | no M24, no RESUME_INTERRUPTED | both start a worker without `was_interrupted` |

and all four without `over_line`, after which the worker goes on with a position that is not
the file's. The runs check the same properties with these commands left out; nothing is
claimed for files or clients that use them.

**Job queue** (`MoonrakerProofs`: `QueueIsRight`). `QueueInv` says who holds the lock at which
await, that each job is in one place (queued, being loaded, or brought by one task), and
that as many timers and tasks exist as the bounds allow (`Fits`).

**Connection to Klipper** (`MoonrakerProofs`: `EventsAreRight` [`ShutdownOnce`,
`ReadyThenTold`, `EventsInOrder`]), the part of `ConnectionRight` that needs no fairness. The
states of Klipper have an order in which one may follow another (`Leads`); the state Moonraker
knows, the updates on their way and Klipper's own follow each other in it (`KnownInOrder`), and
the place of the initialization says which events were told (`HeardInv`).

**Coordinates, work mode, subscriptions, excluded objects** (`HostProofs`). `ExtruderAgrees`: the difference of
`last_position` and `base_position` is what the program asked for times the flow, and a saved
state keeps this for what it restores. `SpeedIsAsAsked`: while a travel is slowed down,
`pre_speed` has the speed that was asked for, and every saved state that is not marked stale has
the speed of its F and its factor (`SavedInv`), so a state restored with the same factor asks
for what it had; limits are at most the 99999999 that stands for none. `StatusIsRight`: for every object the last
value on its way from Klipper, or the cache when there is none, is `last_query`, a request
under way covers all that is wanted when it is answered, and every listener has seen what
the cache has; the exception are the objects of which an update has passed a reply (`passed`,
then `outdated`), until the next update of them runs.
`OthersArePrinted` [`OthersPrinted`] is two arguments. For "over": an object whose end was
counted c times in a row has ended c - 1 layers while no object that is printed ended, so
whoever ended more than that was excluded (`CountInv`); with fewer than three layers, a
`StartDiff` of 1, this would say nothing of the others. For the pressure: when a region begins
the transform knows how far the filament was ever pushed (`CaughtInv`), which takes two moves
of the extruder after it was set up, thus `InitialMoves` of two or more; in the region the
retraction of the toolhead stays what it was (`RegionInv`), that of the file is known from
the first extrusion that was swallowed (`PeakInv`), and the first move after it makes them
equal (`MoveLeaves`).

**Devices** (`DeviceProofs`). `HeaterIsSafe`: every value that was sent reaches the pin before
the one before it runs out, which needs that a refresh after 3.75 s, reports that are lost
and the delay of an output fit into the 5 s after which the firmware shuts down
(`HeaterAssumption`); a dead host or an error leaves the pin off. `CheckIsRight`: a heater
that stays below its target without gaining for `CheckGainTime + 1` checks is found
(`StuckHeaterIsFound`), and one that heats is never faulted: the error it may still add up
while it comes nearer by one with each check is a sum of a quadratic form (`Quad`), which
never exceeds `MaxError`; `LagAssumption` bounds how long it may lag, 10 checks with the
values of `verify_heater.py`. `ButtonsAreTaken`: messages on their way start at bases that the
host has not passed by more than `MaxReports`, the acknowledgements on their way add up to
what the micro-controller has not taken off, and as twice `MaxReports` is less than the count's
modulus the host's expansion of a count is the count.

**Timers of the firmware** (`DeviceProofs`: `TimersAreRight` [`TimersRight`]), for any timers and
whatever is added, deleted and rescheduled meanwhile. Clocks only mean something as differences
from now (`OffAt`), so `TimerInv` speaks of those: along the list they never decrease and lie
between how late a timer can be and how far ahead one is asked for (`TimesOrdered`), which makes
`timer_is_before` a comparison of them (`BeforeIs`); the sentinel stays half a turn after
`periodic_timer`, so every insertion finds a later timer before the list's end; the stand-in
for a deleted head is only ever first; and the hardware is set neither later than the head, but
for what it defers, nor before it unless the head is the stand-in (`Armed`).
`TimersAssumption` asks that all these distances together are less than half a turn of the
clock; in the firmware they are below a second but for timers that the host asks for ahead of
their time, and half a turn of 32 bits is many seconds at the clocks of these chips (12 s at 180 MHz).

`SequenceLemmas` has what several of these proofs need of sequences without some of their
elements, and of sets of numbers in order (`Sorted` and `Remaining` of `SortedSets`).

**Homing** (`HomingProofs`: `HomingIsRight`, `OverrunIsBounded`), for any number of
micro-controllers. That nobody goes on for long after another has stopped (`OverrunIsBounded`,
whatever is late or lost) needs that no report, no status that the host keeps and no timeout
that is set or on its way says more of a micro-controller than that it went on until it
stopped (`ListenInv`). What `home_wait` is told (`AskInv`): there is one query or its answer, and
the last state before the acknowledgement has the reason for which this micro-controller
stopped; one that has stopped without a reason has told of its shutdown before it
acknowledges anything. This holds only when no reply to a query is lost (`Lossy = FALSE`, as in
the run): otherwise the reason of another state may be taken for it. `SampleInv` counts the
samples that matched.

Assumptions on constants are named `ASSUME`s of the component modules; TLC evaluates them in
every run. They are the relations between constants of the code that its correctness needs
(window and modulus, timeouts, buffer sizes), and otherwise only say what is a number.

Only model-checked: all liveness properties (fairness is beyond the prover) and `MotionRight`
(recursive operators). `PrintTimeRight`, `SessionRight`, `ConnectionRight` and `RunoutsHandled`
name liveness as well; what they say of safety is proved, under names of its own.

## 5. Findings

Each of these has a run whose counterexample shows it.

1. CANCEL_PRINT (or PAUSE) sent while a recovered print waits to run F102 never returns:
   the worker waits for the mutex, its holder waits for the worker (`virtual_sdcard.py:366`,
   run `PrintJob_cancel_recovery`). A failed read meets the same cycle in `:390`.
2. After a restart two threads share the temporary file, and saved variables may be lost
   (`save_variables.py:32`, `SaveVariables_restart`).
3. A pause of the job queue is overwritten by a start that awaits Klipper
   (`job_queue.py:215`, `JobQueue_pause_start`).
4. A runout in the moment between the arming of the sensor and the release of the lock leaves
   the sensor dead (`filament_switch_sensor.py:192`, `Runout_dead`).
5. A shutdown while Moonraker initializes the connection is not announced
   (`klippy_connection.py:388`, `Klippy_shutdown`).

Seen while modelling, without a run of their own:

- Print job. A cancel while the worker runs the gcode of an excluded last object makes it use a
  file that is None (`virtual_sdcard.py:441`); afterwards `pos` passes the end and the progress
  1.0 (`:436`). END_PRINT may still run when the next print is under way (`:474`).
- Serial link. `wake_seq` is unsigned (`serialqueue.c:228`): a message with contents before block
  1 is acknowledged reports every waiting command as sent.
- Saved variables. A value saved while the queue is full is not written until the next save
  (`save_variables.py:100`).
- Job queue. With `automatic_transition` off, starting a queue that cannot load leaves it paused
  (`job_queue.py:222`), where `docs/web_api.md:3308` says "ready".
- Excluded objects. A travel before START_OBJECT is swallowed when an object was excluded
  (`exclude_object.py:180`), `max_position_excluded` is stale, END without NAME fails in
  `None.upper()` (`:246`), "over" ends prints made object by object, and un-excluding does not
  take "over" back. The macro PAUSE ends the current object (`printer.cfg:449`), and
  `_CLEAN_EXCLUDE_OBJECT` has a wrong name (`:557`).
- Coordinates and speed. The calibration of sizes is applied twice after some transforms
  (`gcode_move.py:260`); M220 while a travel is slowed changes the slowed speed;
  RESTORE_GCODE_STATE gives back the speed but not the factor it was computed with
  (`gcode_move.py:388` is commented out) nor `pre_speed`, so what extrudes without F after SAVE,
  M220, RESTORE runs at the old factor's speed; M204 ignores the
  limits of the mode (`toolhead.py:676`); a driver that cannot be set ends the switch to silent
  mode halfway.
- Session. "ADC out of range" leaves the host ready (`klippy.py:249`); a shutdown after an error
  in the configuration ends before `rotate_logger` (`:252`); `_send_get_config` asks for a firmware
  restart without raising (`mcu.py:706`); the firmware restarts after every shutdown, whatever the
  message of `klippy.py:43` tells the user to do.
- Idle timeout. The arguments of `sync_print_time` are swapped (`idle_timeout.py:96`). The script of
  `printer.cfg:392-397` is empty, so heaters stay on when the printer is idle.
- Homing. A reply that is lost while a query is retried (`Lossy`) makes `home_wait` take the
  reason of a later state.
- History. Deleting the job under way, or a restart, leaves a record torn or "in_progress"; a list
  with `before` compares None with a number (`history.py:145`); a list is shifted by an eviction;
  two short prints between reports become one; `result` may be unbound (`job_state.py:34`).
- Subscriptions. An update that is read after a reply but run before it is overwritten by the
  older reply, and the status of its objects is stale until they change again.

## 6. What is not modelled

Kinematics, step generation below runs of constant interval, control loops of heaters and
calibration: real-number computations. Device drivers, boards, displays: register access.
Moonraker's transport, authorization, updates, integrations, database and files: I/O, events
of the kernel, other programs (in the files, `file_manager.py:2444` can loop without end
when a metadata request stays pending). `PROJECT.json` names each part with the reason, and
for the parts that are modelled what is left out of them.

## 7. Plan

Done: the models and runs of section 3 and the proofs of section 4.

Next: `MotionRight` in parts, once the compression of steps is written without recursive
operators.
