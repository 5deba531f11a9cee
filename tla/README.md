# Verification of the GWL terminal

The program under `src/PROTO` runs on a metering terminal.  It talks Q/GDW 376.1 to a
main station over TCP (as client and as server), RS-485 and infrared, records events in
SQLite, reports the important ones, counts its traffic, samples a meter and polls a
module that watches the current transformers (TA).  This directory holds TLA+ models of
it, the TLC configurations that check them, and proofs that TLAPS checks.

File names below are relative to `src/PROTO`; `Mrs` is `Mrs_fw_proto376_1.c`.

## 1. Inventory

### Threads

`main` (Server_com.c 1058-1172) loads parameters, creates the event queue, runs
`EventInit`, loads the traffic counters, creates the timer list and its first timer, and
starts the threads; then it initialises the TA module and accepts connections.

| thread | code | what it does |
|---|---|---|
| `client_worker` | Server_com.c 406-519 | connects to the station, logs in, heartbeats, reports events, handles frames |
| `serrver_worker`, one per accepted connection | 210-328 | the same on an accepted connection; also TA events, traffic, current |
| `RS485_Worker_I`, `RS485_Worker_II`, `IR_Worker` | 523-757 | log in (I only) and handle frames on a serial line |
| `local_worker` | 758-765 | `TimerTick` every 500 µs: all timer callbacks run here |
| `main` after start-up | 1133-1163 | `TaModuleInit`, then the accept loop |

There is one lock in the program, `sqlite_lock`, held from `DBopen` to `DBclose`, and one
`flock`, on the configuration file.  Everything else that the threads share is
unprotected.  The Makefile compiles with `-g` and no optimisation, so a statement like
`x++` is a load and a store.

### Components

| component | state | operations | interacts with | model |
|---|---|---|---|---|
| event queue (`queue.c`) | ring `data`, `front`, `rear`, `count` | `sequeue_input`, `sequeue_output` | every thread that handles frames or reports | `EventQueue`, `QueueThreads` |
| event store (`EventRecord.c`, `SQLite.c`) | tables ordinaryEvent/ImportanceEvent, ordinaryEC/importanceEC; `m_EC1`, `m_EC2`, `m_ErcNum` | `saveEventFile`, `EventInit`, `EventDataInit` | detectors and AFN handlers create events; F9 classifies them | `EventDb`, `EventStore` |
| event reporting (`EventRecord.c`, AFN 00) | `m_ErcReport`, `EventBuf`, `Seq`, the queue | `send_event`, `AFN_00H` | store, queue, connections | `EventReport` |
| traffic statistics (`EventRecord.c`, `file.c`) | `to_read_`, `comm_*_flow_`, `current_*`, the reported mark; Comm_flow.conf | `dealFlow`, `save_comm_flow`, `load_flow_without_lock`, `FlowDataInit` | `serrver_worker`, the timer thread | `FlowStat` |
| timer list (`ListTimer.c`, `list.c`, `LedApp.c`) | the list, its timers, `LedAppUt` | `add_timer`, `del_timer`, `TimerTick` | main, connections, AFN 04 F7, `local_worker` | `TimerList` |
| TA module and ESAM (`Ta_Module.c`, `GetTerminalESAMData.c`, `MESam*.c`) | `TaStatus`, `TA_RecvBuf`, the serial line, the SPI device | `TaModuleInit`, `TaModuleCallBack`, the requests | timers, `CheckTAEvent` of the connections | `TaMonitor`, `EsamCommands` |
| event detectors (`EventRecord.c`) | `TaStatusBack`, old parameters | `CheckTAEvent`, `CheckParaLostEvent`, `check_power_on` | store | `TaMonitor`, `Dispatcher`; power events not |
| connections (`Server_com.c`) | `login_ok`, `connfd`, descriptors | connect, log in, heartbeat, accept, close | everything | `Session` |
| parameters (`para.c`, `file.c`, `local_fun.c`) | `CiSysInfo`, configuration files, network settings | load, save, query, restore | AFN 01, 04, 0A; connections, timers | `ParamStore`, `ParamHandlers` |
| dispatcher (`Mrs`) | buffers of the request and its answer | `Protocl13761ParseData`, `AFN_05H`, `09H`, `0AH`, `0CH`, `0EH` | all | `Dispatcher` |
| file transfer (AFN 0F) | `updatabuffer`, offsets, `fileFlag` | `GDW376_1_AFN0FH_01H` | upgrade storage | `FileTransfer` |
| sampling (`AcSample.c`, `ProtocolD645.c`) | the connection to port 8100, the reading | `com_645_2007_*`, `BackStage_645_2007` | connections, `SaveACdatecurrent` | `Sampling` |
| AC sampling chip (`ATT7022E.c`, under `#if 0`) | readings, event bits, counters of seconds | `ATT7022E_ACSample_Event` | none in this commit | `AcEvents` |
| frame codec (`Mrs`, `Tools.c`) | none | check, checksum, Fn/Pn | dispatcher | as records in `Dispatcher` |
| archives (`archives.c`) | list, table | load, add, delete | AFN 04 F10, AFN 0A | not modelled |
| devices (`gpio.c`, `pwm.c`, `util.c`) | none of their own | I/O | | not modelled |

### What is hard, and what has to hold

* **Queue.** Threads interleave in the middle of `count++`; full and empty look alike.
  It must be a FIFO, its counter the number of elements.
* **Store.** One `m_ErcNum` entry per kind serves two tables; the test, the eviction, the
  insert and the increment are separate; F9 can change the class in between, power can
  fail between any two statements, any database call can fail unnoticed.  At most ten
  records of a kind, the oldest goes first, a success is stored, the counters cover the
  records.
* **Reporting.** The flag is persistent, the queue is not; rows are addressed by
  position; three globals are shared by the connections; confirmations come late, twice
  or never.  No report is lost, none is queued twice, each costs at most three frames.
* **Traffic.** Two threads deal with one counter; five values are saved one by one, each
  time by emptying and rewriting the file; days, months and the station's clock settings
  reload counters.  Bytes are neither lost nor counted twice, month and day are right,
  the limit is reported.
* **Timers.** One callback per tick, wall-clock deadlines, memory that is freed and
  reused.  Every timer fires, periodic ones stay, the LED has one.
* **TA module.** Its answers may come late or never on a line without addresses, a
  callback blocks the timer thread meanwhile, and other threads look at the status while
  it is cleared and rebuilt.  Only an authenticated module is polled, every answer is
  taken for its own request, what is recorded was measured.
* **Connections.** A descriptor is handed over through the address of a variable, numbers
  are reused, peers vanish, writes kill the process.  Every connection has its own thread
  and starts with a login; what is closed is released; the client comes back.
* **Parameters.** A file is emptied and rewritten by several threads and a power cut; texts
  are turned into values by position.  What was acknowledged is in the file, memory and
  network follow, a query returns what was set.
* **Dispatcher.** Each handler advances pointers and lengths by itself.  Answers are
  complete, in order, one per request, and true.
* **File transfer.** Pages fill in the middle of a segment.  What is stored is the file.
* **Sampling.** One descriptor, two threads, answers that come late.  A stored reading is
  recent, and nobody else's descriptor is touched.

`PROJECT.json` lists every hazard with its line and the properties that cover it.

## 2. Models

`MC*` modules hold the sets and bounds of the instances; each run is one `.cfg`.  Parts
that share a thread or a subject but no state are put side by side, each with its own
variables, by five modules that EXTEND one of them and INSTANCE the others:

| module | puts side by side | checked by | proofs |
|---|---|---|---|
| `QueueUsers` | `EventQueue`, `QueueThreads`, `AcEvents` | `MCEventQueue` | `EventQueueProofs` |
| `ConnectionWork` | `FlowStat`, `Sampling` | `MCFlowStat` | `FlowStatProofs`, `SamplingProofs` |
| `LocalWorker` | `TaMonitor`, `TimerList`, `EsamCommands` | `MCLocalWorker` | `LocalWorkerProofs` |
| `Parameters` | `ParamStore`, `ParamHandlers` | `MCParamStore` | `ParamStoreProofs` |
| `FrameHandlers` | `Dispatcher`, `FileTransfer` | `MCDispatcher` | `DispatcherProofs` |

In their runs the variable `which` says which of the parts moves; the others keep their
initial state.  `EventReport` EXTENDS `EventStore` and is checked by `MCEventReport`
(`MCEventStore` for the store alone), `Session` by `MCSession`.  Definitions named `X_something` next to `X`
are plausible faulty versions of `X`: they are used to confirm that the property of a run
fails when the code is broken that way.

### BoundedFifo, EventQueue, QueueThreads

`BoundedFifo` is the abstract queue: a sequence of at most `Capacity` elements; `Put`
and `Get` fail on a full or empty one.  `EventQueue` is `queue.c` as one thread sees it
(one action per outcome of each call) and implements it with `QUEUEMAXSIZE - 1` places
(`FifoSpec`).  `QueueThreads` splits the calls into guard, slot, index and counter, each
index and counter into load and store, for several threads.

### EventDb, EventStore

`EventDb` has the SQL statements as operators on sets of rows: rowids grow, the delete of
the "oldest" removes every row of the kind with the smallest time.  `EventStore` is
`saveEventFile` as a sequence of steps, one per database call, since that is where the
lock is released; `UpdateEC` takes two, a delete and an insert, with the lock held.  The
label of a thread's step is `saving[s].pc`:

    evict, recount   lines 200-249: delete the oldest, count again, until not full
    insert           the record, and m_EC1 or m_EC2 goes up (saveEvent)
    ec1 .. ec2_insert  the counter of the class is persisted, twice (saveEvent, saveEventFile)
    other            the kind is deleted from the other class
    count            m_ErcNum goes up, the call ends

The environment sets F9 (validity and class) and the clock, removes the file
(`EventDataInit`), fails calls, and cuts the power (`Restart`: `EventInit` recounts).
`m_EC1++` and `m_ErcNum++` are one step each.

### EventReport

Extends `EventStore` with channels that run `send_event` (fetch the flags; for each, fetch
the record into `EventBuf`, queue it, clear the flag; then take out each queued event,
send it, put it back until its third turn) and `AFN_00H` (walk the queue for the
confirmed number).  The queue is a sequence here, which `EventQueue` justifies.  The
zeroed event that a failed `sequeue_output` leaves is kept as such.

### FlowStat

A call is a sequence of tasks, each a step on shared memory or the file; `+=` is a load
and a store; a save is reading the file, emptying it, writing it.  Dates are day numbers.
`dealFlow` and `save_comm_flow(1)` are one list of tasks, run by each `serrver_worker`
and by `local_worker`; loading at start-up is a list that `main` runs first.  Nothing
increments `to_write_`, so written traffic is 0; its key is saved all the same.  The three
assignments of the date and the ones before the first use of the file are one step.

### TimerList

The list holds addresses; `due` is the time left until `out_time`.  `Fire` begins the
callback of the first expired timer, `Return` puts the timer behind the others or frees
it; between them the clock and the other threads go on.  `malloc` returns any free
address, also one just freed.  List operations are single steps, and a connection does
not restart the LED while a callback runs: with the unlocked list both are undefined.

### TaMonitor

`TaModuleInit` and `TaModuleCallBack` as the steps of `pc`: authenticate (two frames),
ask the status, check its MAC, ask the currents, each with its `tries`.  `line` holds
the requests whose answers are still to come, `buffer` what has arrived; `ComTaUart_Send`
throws the buffer away, but an answer that comes after its wait (`overdue`) is taken for
the next request's, as no function compares the two.  `foreign` remembers that this has
happened, `verified` that the ESAM accepted the certificate, `seen` what the module
reported since the callback began.  `CheckTAEvent` runs in other threads at any time.

### EsamCommands

The requests that collect a report in several exchanges with the ESAM, and the settings
of the module.  A report is a list of fields, each with the state of the chip it was read
in; `EsamChanges` may happen between two exchanges.  A buffer of the caller that a failing
call leaves half written keeps its fields.

### Session

`desc` maps descriptor numbers to connections, the kernel hands out the lowest free one;
`link` is what the two ends know of a connection (`waiting`, `up`, `fin`, `rst`, `gone`
after a first failing write).  `connfd` is the variable of `main` whose address each new
thread gets (`Create`, then `Begin` reads it whenever it likes).  A write on a connection
that is `gone` raises SIGPIPE and ends the process (`alive`).  `Server` and `Client` are the
loops of `serrver_worker` and `client_worker`, `Serial*` those of `RS485_Worker_I`, which
shares `login_ok`.

### ParamStore, ParamHandlers, ParamMessages

`ParamStore` is the order of things: a frame of AFN 04 with several units, each saved by
emptying (`Truncate`), locking, writing and flushing the file, then loaded into memory,
group by group; AFN 01 F4 copies the default file over it; two channels do this at once,
and the power fails.  Values are opaque.  `ParamHandlers` is the opposite: one command at a
time, but each handler's and loader's conversion of every group's fields into the texts of
the file and back, by position and key.  `ParamMessages` has the messages of the instance.

### Dispatcher, FileTransfer

`Dispatcher` is `Protocl13761ParseData` and the handlers behind it.  A request is a record
with its units (`Fn`, `Pn`, argument); an answer is a list of frames, each a kind, a
number, first and final flags, and the data of its units.  The handlers are described by
how they walk the units, what they leave in the answer when one fails, and how AFN 0E
splits rows into frames of `Limit` bytes of which `Room` fit.  The database, the clock and
`EventBuf` are shared with another channel and with `send_event`.  `FileTransfer` is
AFN 0F: segments are collected into a page, a full page is written and the rest of the
segment begins the next.

### Sampling

`com_645_2007_*` as steps on the descriptor table that the sampling connection shares with
the rest of the process: look at `FD`, open, connect, write, receive with a timeout,
close, forget.  Two threads may be in it at once; answers come late or never.  `began` is
the request count of the last success when a call started, so that a stored reading can
be compared with it.

### AcEvents, AcReadings

The detectors of `ATT7022E_ACSample_Event`, which a `#if 0` takes out of this build.  Per
phase and condition: the event bit, the state of the detector (`flag`), the seconds counted
by the timer interrupt, a u8.  `held` is how long the condition really lasted, `stale`
that a count went on while the checks of the detector were skipped.  `AcReadings` has the
readings of the instance.

## 3. Runs

| run | shows | bounds |
|---|---|---|
| `queue` | FIFO refinement and exact counter of the ring; two threads, every interleaving of loads and stores: the counter is exact if no two calls have overlapped; the sampling chip's bits change only after their time | 4 slots, so full, empty, and a wrap at every position; 3 for the threads, drift of the counter up to 3; a byte counts to 3 |
| `store_one` | one saver and everything else that can happen, any failure and any crash; until a named cause has occurred: counters persisted and covering the records, a success is stored, evictions take the oldest and only from a full kind | limits 2 and 3; 4 saves and one each of a class change, a clock setting, a restart, an erasure and a failing call |
| `store_own_kinds` | two savers with a kind each: at most `MAX_NUM_EACH_ERC` per class | 2 kinds, 4 saves, a class change, a restart, an erasure |
| `report_one` | every cleared flag leads to a frame, no record is queued twice, a confirmed event is not sent again; liveness: flagged records get queued, queued ones leave | 1 channel, 2 events for a queue of one, late, repeated and missing confirmations, a power failure |
| `report_two_channels` | three frames per event | 2 channels, a shared queue, two different seconds |
| `flow` | no byte lost or doubled, the day's and the month's traffic right, the months in the file cover its total; the limit is reported, once under one date; stored readings of the meter are recent | 3 days in 2 months, 2 receptions, limit 1, a power cut at any step together with a clock setting, or an initialisation; sampling: 2 threads, 2 descriptors, 3 calls, 1 fault |
| `local_worker` | one blink timer, periodic timers kept; every timer is called back or deleted; only a verified module is polled, answers are not confused, records are measured, a callback ends; reports of the ESAM are of one state | 3 addresses, limit 2 (so 3 timers), 2 connections, the clock set back once; 3 readings, 2 tries, 2 authentications, 2 changes; 2 ESAM states, random numbers and words |
| `session` | own thread and descriptor per connection, login first, closed connections released, the client comes back | 2 stations and the client's own, 3 descriptors, 2 drops; `Bounded` ends behaviours with more |
| `params` | what was acknowledged is in the file, memory agrees, the address reaches the network, queries return what was set | 2 channels, 2 values, 3 frames or resets, 1 power cut; `Bounded`: overlapping commands without a cut; all groups with the messages that differ for them, 3 commands |
| `dispatch` | frames numbered and complete, rows once and in order, every unit's data in its place, one final frame per request, what is said of the clock true; a stored file is the file | 40 requests on one channel, one on another; 5+1 rows, frames of 8 of which 7 fit; 16 numbers; pages of 3 bytes, files up to 7, 2 transfers |

The limits of the code (10 records, counter 80, 600 timers, 1024-byte pages) shrink to 2 or
3; what matters is that each is reached and gone past, which the runs do.  For the store,
the queue, the traffic, the timers, the TA module, the connections, the parameters, the
dispatcher, the file transfer and the sampling the proofs remove the bounds.  Two actors are
enough for the races found; the proofs are for any number.

Runs that end in a violation show where the code does not do what it says:

| run | property | what happens |
|---|---|---|
| `store_two_savers` | `ErcBound` | two threads saving one kind exceed the limit |
| `report_wire` | `ConfirmedNotQueued` | numbers above 15 never match their confirmation |

Two more disagreements are not runs of their own, since the conditions `Without` and
`Overlap` below are about them.  The report flag in the database is cleared before the
frame is sent: a power cut in between loses the report (`ReportKept` fails with
`Bound["restarts"] = 1` and without the premise of `NotLost`).  And two `dealFlow` that
overlap lose or double bytes (`TrafficConserved` fails with `Overlap = TRUE`).

### What the conditions in the properties are for

Many properties have a premise: `Without(causes)` in `EventStore`, `Never` and `torn` in
`FlowStat`, `overdue`, `overlapped`, `overtaken`, `mixed`, `stale`, `torn`, `dropped`,
`failed`, `inorder`.  Each says that something has not happened so far, and is there
because the code does not keep the property beyond it:

* `EcPersisted`, `EcCoversRecords` and restarts: the record, and the two statements of
  UpdateEC (SQLite.c:944, 947), are no transaction.  The counter falls behind the records,
  or is gone.
* `EcPersisted` and erasures or failures: the counters in memory are not written again.
* `SavedIsStored` and failures: the result of the insert is ignored (EventRecord.c:152,
  168), the record is counted and the call answers 0.  Erasures: the file goes in the
  middle of the save.
* `OldestGoes` and clock settings: "oldest" is the smallest time.  It also says nothing
  about how many go: records of the same second are deleted together (SQLite.c:334),
  where the comment above speaks of one.
* `GoesWhenFull` and class changes: one `m_ErcNum` entry counts for both classes.
* The store's counters stop at `EveMax`, 80, where EventRecord.c:17 says 255.
* `NotLost` and restarts: see above.  It is claimed for one channel and
  for saves that do not evict: an eviction between GetImportanceEvent(i) and
  UpdateEventRow(i) shifts the rows and another record's flag is cleared (EventRecord.c:869,
  900); two channels overwrite each other's `EventBuf` (line 879).
* `ConfirmedNotQueued` and restarts: numbers begin anew.  Its run gives a frame as many
  numbers as `Seq` has; with fewer it fails, as `report_wire` shows.
* The counter of the queue is exact until two calls overlap (`CountExactWithoutOverlap`);
  afterwards it may be wrong for good.
* `torn` in `FlowStat`, a power cut inside a call: the file is emptied before it is written
  (file.c:305), so all totals may be gone.  `MonthsCoverTotal` holds even then.
* `MonthsCoverTotal` and initialisations: `FlowDataInit` empties the file only, and the
  next save writes the total from memory, but of the months the current one only.
* `EventOncePerDay`, and no such property of a month: the mark is in memory and is reset
  at every change of the date (EventRecord.c:1216), where the comment above it says "a new
  month".
* `DayExact` holds only while the counters' date is the clock's: loading reads the clock
  twice, and with midnight in between the day's traffic is wrong until the next check.
* `OwnAnswers`, `RecordsAreMeasured` and `overdue`: an answer that comes after its wait is
  the first thing the next request finds.
* `OwnConnection`, `LoginFirst` and `overtaken`: the thread gets the address of `connfd`, and
  a second accept may come first (Server_com.c:1151).  Then two threads serve one
  connection and another has none.
* `ClientReturns` and a refused login: `client_worker` goes back to connect the connected
  socket, which fails for ever (Server_com.c:462).
* `ParamStore` and `mixed`, `torn`: the file is emptied when it is opened, before the lock
  is taken (file.c), so a second command or a power cut sees it empty.
* `QueriedIsSet` and `Carried`: see "Where the code differs" for the texts that move.
* `EventsWhole`, `torn`: `EventBuf` is shared by all threads that fetch rows.  `dropped`: a
  row that brings the frame past the buffer but not past the limit makes a frame that is
  never sent.
* `UnitsAnswered` and `Plain`: F89 falls through, F10 leaves its length out, a second unit of
  AFN 09 is written over the first, and AFN 0C reads past its list.
* `SamplesAreRecent` and `overlapped`: two calls share one descriptor; the one that closes it
  leaves the other with a number somebody else may have got.
* `StoredIsTheFile` and `inorder`: a repeated segment is stored twice.
* `ChangedAfterTime` and `stale`: the order detectors are skipped while all phases are lost,
  and their count goes on.

The flow run lets one call end before the next begins, except that the power may fail and
the date change inside one.  Initialisations are considered without power cuts and clock
settings, and the file is not torn twice; this bounds the run.

### Fairness

* `EventReport`: a connected channel's loop never stops, so each of its steps is weakly
  fair; `GetEventRow` is strongly fair since other threads may hold `sqlite_lock` each
  time it is tried, but every holder releases it; a saver that is in `saveEventFile`
  goes on.  Nothing is assumed of the station: frames may all be lost.
* `MCLocalWorker`: `local_worker` ticks for ever, callbacks return, the clock advances.  The
  station sets the clock back a bounded number of times.  A step of the TA exchange that
  can be taken is taken: every wait for the module has a timeout.  Nothing is assumed of the
  module.
* `Session`: each thread goes on, `accept` returns for a station that waits, and a station
  that `client_worker` dials takes or refuses the connection.
* `ParamStore`: a command in progress goes on, the timer of F7 fires.
* `Dispatcher`: a channel goes on with its request; no property of the runs needs it.

## 4. Proofs

`EventQueueProofs` (any ring size of at least 2, any events): the invariant `QueueInv`
says that the indices are in the ring, `count` is the distance between them, and the
slots between them hold events; `CountIsLength` alone is not inductive since it says
nothing of the slots.  From it follow `CounterExact`, `LiveSlotsFilled` and
`RingImplementsFifo`, a step simulation in which the sequence of elements between `front`
and `rear` is the abstract queue.

The same module on `QueueThreads` (any threads, any ring): `IndicesStayInRing` needs
`IndexInv`, that also the values threads have loaded are in the ring.
`ExactWithoutOverlap` needs `ExactInv`: while no calls have overlapped one thread at most
is inside, and its place and its register say how far the counter is from the distance.

And on `AcEvents` (any readings, thresholds, times, width of the counters and detectors
watched): `BitsChangeAfterTime`.  `DetectorInv` says that a detector has counted no more than
the seconds for which its condition has been seen (`held`, up to its time), unless it is
marked `stale` or its bit is cleared elsewhere (`OtherWayBack`); `ReadingInv` that what is
looked at is a reading.

`EventProofs` on the store: `StoreTypes` has no assumption but those on the constants.
`StoreInvariant`, `AtMostTenOfAKind` and `CountedBeforeSave` assume `OneThreadPerKind`
and `NoFailures` (`Bound["failures"] = 0`): without the first the run `store_two_savers`
exceeds the bound, and with failing calls the delete of the oldest may do nothing.  They
hold for any number of threads, kinds,
class changes, clock settings, erasures and restarts.  `ErcBound` is not inductive: a
save that has passed the test inserts without looking again.  `StoreInv` therefore says,
for each point of a save, how far `m_ErcNum` may be from each table: never behind between
saves, one behind for the class just inserted into before the count, and room for one
more at the insert.  The proof has a lemma that a saver leaves the other kinds alone
(`OthersUndisturbed`), one case per step of a save (`SaverKeepsStoreInv`), and one
for the environment.

It then proves the three properties of `store_one`, each by an invariant that only the
steps without its causes have to keep: a count of a cause never goes down
(`WithoutBefore`), so the cause has not occurred before either.  `SuccessIsStored`: from the
insert on the record is in its table (`StoredInv`).  `EvictionIsRight`: until the clock is
set, rowids and times grow together and a record about to be inserted is the latest of its
kind (`OrderInv`), so the smallest time has the smallest rowid; until F9 is set, the other
class has none of the kind and `m_ErcNum` is exact (`CountInv`), so a save that evicts
evicts from a full kind.  Both assume `OneThreadPerKind`.  `CountersAreSound` assumes one
thread that saves (`SingleSaver`): of two, the one that is slower in UpdateEC writes back
its older value.  `CountersCoverRecords` assumes nothing.

`EventProofs` on the reporting (any channels, records, saves and power failures):
`ThreeFramesAtMost` is `SendsBounded` for every number of channels.  It is not inductive,
since a frame that goes out says nothing of the event still queued for the same record.
Every event in the queue, and every one a channel has taken out, has a right to the frames
it has not used of its three; a right is a pair of a place (in the queue, or the channel)
and a number from `report_count` to 2, so the rights to frames with one record are a finite
set.  `BudgetInv`: the frames sent with a record and the rights left are together at most
three for each time it was queued.  `send_event` uses one right up, taking out and putting
back move rights from place to place, a full queue and a power failure only lose some, and
each step is proved by how it changes the two sets (`HandsMove`, `PutBackRights`).  The
assumption is that the channels are a finite set.

`QueuesOnce`, `ReportsOnce` and `ConfirmedLeave` (any kinds, savers, capacities and database
failures, store and reporting together) hold where the code keeps its promise:

* `OneConnection`: two overwrite each other's `EventBuf`, and reports are lost.
* `NothingGoes`, as long as it lasts: F9 was not changed, the file not erased, and no save
  evicts.  A record that goes between the fetch and the clearing of a flag moves the
  positions of the others.
* `NumbersFit`, as long as it lasts, for the last two: since the power came on `Seq` has
  not passed the four bits of a frame (`report_wire` is about what comes after).
  `QueuesOnce` does without it.

`RowsInv` is about `send_event`: while nothing goes, the rowids of a class are 1 to n
(`Numbered`), so position i is rowid i + 1, and the flag, the record in `EventBuf`, the
number in the queue and the row that `UpdateEventRow` changes are of the same record
(`ScanInv`); n is bounded by the saves that are not about to insert (`Accounted`).  A
record that waits has not been queued since the last power failure, except between
`Enqueue` and `UpdateEventRow` (`OnceInv`).  `EventsInv` is about the queue: a frame and an
event have the same number just when they are of the same record (`Alike`), no two queued
events share either (`Apart`), and an event in the hands of the channel always finds its
place in the queue again (`HandInv`).  What a confirmation has not taken out yet is still
ahead of it (`MatchInv`: its position and the turn together are at most the length), and a
flag that is cleared leaves its record sent or held (`ReachedInv`).  `EventsInv` lasts until
the first power failure, as the properties do.  All of it was checked as invariants of
`report_one`'s instance first, where `NothingGoes` and `NumbersFit` hold in every state.

`ParamStoreProofs` (any channels, frames, values and power failures) proves
`MemoryFollowsFile` and `ConfirmedStays`.  Both speak of the moment when no command is in
progress, and while one is, what is going to be the file is elsewhere: in the command's
buffer from the reading of the file to the `fclose`, or in the default file while AFN01 F4
copies it.  `ParamInv` says of that text what the properties say of the file.  `PhaseInv`
keeps each command at a place of its frame, `FileInv` one command at a time in the file and
the file complete or just being replaced, `MemInv` the memory equal to the text for every
group that no command is about to load, `BeliefInv` the text equal to what the station is
going to be told: the last unit taken for the group by the command that came to it last
(`Expected`).  These parts hold until two commands have been in the file together
(`mixed`), the last one also until the power has failed while the file was empty
(`torn`); neither is forgotten (`NotForgotten`).  What the properties rest on is the algebra
of the file: a group that is put is got back, and no other changes
(`PutGroupGets`), though `strstr` may find the line of a longer key (CS_F1_TRANSDELAYMAX)
first and the new line takes its place.  The assumption `ParamAssumption` says that frames
are sequences of data units that are not empty, and that the marks of the model (`None`,
`Default`) are no values.  Each action has a lemma for each part (`NextUnit_Type`,
`NextUnit_File`, `NextUnit_Belief`).

On `ParamHandlers`, the conversions (any numbers, names, addresses and phases, in any order
of commands, resets and restarts): `QueriesTellTheSet`, under `HandlerAssumption`, which
only says which fields a message has and of which kind they are.  For each group a lemma
(`F1_RoundTrip` ... `F153_RoundTrip`) follows the values from the handler through the texts
of its keys, at their positions, back through the loader; `Carried` names the values for
which this is not so.  `HandlerInv` puts them together: the file of every group that was
set loads as what was set, and what is in memory is what the file loads, also after a
restart (F91 is left out, F3 and F16 may be empty in memory).  Whether the memory alone agrees with `set` is not inductive, since a restart
reads it from the file again.

`LocalWorkerProofs` on `TaMonitor` (any retries, readings and phases): `VerifiedInv` says
which places of the exchange come only after the ESAM's acceptance; `LineInv` that without
an overdue answer the line holds at most the request just sent, the buffer at most its
answer; `MeasuredInv` that every short-circuit bit of `TaStatus` was seen since the
callback began.  On `EsamCommands` (any states, random numbers and words): `ReportsGenuine`.
A report is judged when it is returned, so `ReportInv` says for each exchange what the
buffer holds after it: the fields read so far, the certificate of the state that was read,
the caller's random number under the MAC.  On `TimerList` (any number of addresses, limit,
connections and clock settings): `OneBlinks` and `PeriodicStays`, from one invariant.
`TimerInv` says that the list holds allocated timers, each once, and one more than
`MAX_TIMER_NUM` at most, which is why putting a fired timer back is never refused; and
that a listed timer that blinks is the one `LedAppUt` names, which is not freed while it
is listed: `OneBlinkTimer` says nothing of `LedAppUt`, and the next connection deletes what
it points to.  `TimerAssumption` says that the bounds are numbers and that `NULL` is neither
an address nor a timer.

`FlowStatProofs` (any workers, days and months, limit, bounds): `NoByteLost`,
`CountersExact`, `MonthsAccount` and `LimitReported`, the four properties of the traffic.
They assume `FlowAssumption` (sorts of the constants) and `Overlap = FALSE`, that one call
ends before the next begins: two `dealFlow` that overlap do lose bytes, see above.  All
four speak of the time between calls or of the moment after a step of a save, and a call
is a list of some twenty tasks on shared memory and the file, so none is inductive.
`FlowInv` says, for the task a call has come to, which of its locals, of the counters and
of the keys of the file agree already; where a key is about to be written, the file is
that of the task before.  One part had to be found by the proof: the total read from the
file for a save may not exceed the total in memory once that was loaded.  `FlowInv` is itself an invariant
of the `flow` instance.  The sums (bytes over threads, over the dates of the
history, over the months of the file) change by one element with each step; the lemmas for
that (from `BySubsets` on) go by a smallest set without the property, since the
library's induction on finite sets takes an operator.

`SamplingProofs` (any threads, descriptors, calls and faults): `RecentInv` bounds every
request number in the connection and in the threads' buffers from below by the number of
successes before, for the descriptor in use; `OwnInv` says that without overlap at most one
thread is in a call, and that `FD` is then the sampling's own or closed.

`SessionProofs` (any stations, descriptors and faults): `TableInv` says that every open
descriptor belongs to one connection and to one holder, which is client_worker, one
thread, or the hand-over from `accept` to a thread; the lowest free number, which the kernel
gives out, is then nobody's.  `LoginInv` says that a connection served past the login has
begun with one.  Both hold until `accept` has overtaken a thread; they give
`EachOwnsItsConnection` and `LoginComesFirst`.

`DispatcherProofs` (any channels, requests, lists of units, records and limits) proves all
five properties of `dispatch` that are about `Dispatcher`, for every interleaving of the
channels' threads over `EventBuf` and the clock.  It assumes `DispatcherAssumption`: the
requests are the records the frame gives, and a unit of AFN 0E F1 to F3 has its two
numbers.  None of the five is inductive: each speaks of the finished answer.
`DispatcherInv` is, per channel, `PhaseInv` (where the thread is in its request and what it
has left behind there), `EventInv` (the frames of events sent so far are numbered and none
is marked last before the last), `CopyInv` (what has been sent and what is in the frame
buffer are together the first rows of those asked for, and `EventBuf` still holds them
unless it was torn), `ControlInv` (the clock was set exactly when an F31 taken did not
fail), `DataInv` (`ACKbuf` holds the pairs of the units that worked, and after the last
one that counts, the place is its length) and `AnswerInv` (the property itself, once the
thread is idle).  A step of another thread changes nothing of this but the mark `torn`
(`SameKeeps`), so each action is proved for its own channel.  The selection of rows
(`KeptTo`) and the joining of frames (`FlattenSeq`) are recursive functions; that they are
defined, and grow by one element at a time, is proved by induction over the numbers in
the form of a set that has 0 and with each number the next (`NatByInduction`), which the
library's theorem on well-founded relations gives without an operator parameter.

The same module on `FileTransfer` (any page size, any file, segments of any length that
fit a page, repeats, gaps, new transfers at any time): `FileIsStored`, under
`FileAssumption`.  `PagesHoldTheFile` speaks of a transfer that has ended; `FileInv` speaks
of one still in order: the full pages and the used part of the buffer are together the
bytes sent so far (`Held`), and their number is pages times page size plus offset.  Out of
order nothing is claimed, and no later segment brings a transfer back in order.  The step
is one lemma on sequences, `CollectedKeeps`: whether a segment ends in the page, fills it
or goes beyond it, the bytes held grow by just that segment.

Every safety invariant and every action property that a passing run checks is stated by a
theorem.  Only model-checked is liveness (`EveryTimerFires`, `CallBackEnds`,
`FlaggedIsQueued`, `HeldIsReleased`, `ClosedIsReleased`, `ClientReturns`,
`NetworkFollows`): fairness and `ENABLED` are not in the reach of the provers.  Nor is
induction through the library's theorems, which take an operator; where a proof needs it,
it is done with sets as above.

## 5. Where the code differs from what it says

Met while modelling; the models follow the code.

* **Parameters.**  F154 counts one text too many for its own check and is always refused.
  F7: an empty name or password is left out, so the later texts move up one key; one that
  fills its 20 bytes loses the last; the port goes into a key that is never saved.  F10
  answers with success and stores nothing.  F153 counts from an uninitialised index, moves
  its texts for a phase value of 2 and above, and loads the address from phase C's text.
  F91 drops the sides, keeps only the tens of degrees, adds the digits of the latitude to
  the longitude's, and its loader clears the main station.  F16 is not loaded at a start.
* **AFN 01.**  F1 does nothing; `if(ret = -1)` (Mrs:646) ends F2 and F3 after the files were
  emptied.  **AFN 0A.**  F8 is not answered, F89 falls through into the next case.
  **AFN 0C.**  F2 truncates the year.  **AFN 0E.**  F2, the ordinary events, finds none.
* **Frames.**  Handlers get the received bytes, not the frame found among them (Mrs:3950);
  the month of the heartbeat counts from 0.
* **AFN 0F.**  Answers go to descriptor 1; the checksum runs over a buffer cleared before;
  `END_FRAME` is 2 (Mrs_fw_proto376_1.h:1279) where 1309 documents 1; the head of file 4 is
  counted but not stored.
* **TA.**  `TaStatusBack` is never set, so a lasting short circuit is recorded at every check
  and a recovery never; `x&0X02 == 1` and its like are 0, so open circuit, series rectifier
  and bypass are never recorded; a short circuit of phase B is also recorded as one of the
  primary side; the bypass bit is never cleared; `GetCTModuleStatus` stores before it checks
  the MAC and has no return.
* **ESAM.**  A request for the MAC has a length of one byte where the other has two; an answer
  of a wrong length is a success with nothing in it; `GetTABaudrate` takes a refusal for
  a rate; `SetTABaudrate` sends the MAC of the last rate read; `GetTAModuleSecurityInfo`
  passes the size of a pointer and always fails.
* **Sampling.**  Pieces of an answer are all read to the head of the buffer; a frame that
  cannot be parsed leaves the connection open, so the late answer is the next call's; a
  frame of another length than 66 stores nothing but is a success; `ACdate.I` has three
  members and the loop writes four; currents are stored every 5 s, where 15 minutes are meant.
* **Chip.**  Phase C's recovery from a lost phase looks at phase B (ATT7022E.c:3473), the
  angle bit is set by one condition and cleared by another.
* **Serial lines.**  `rv = usDataLen` assigns in its test; `ComPort_Recv` returns nothing
  after a timeout and never the -2 on which the port would be opened again; `IR_Worker`
  compares an uninitialised value, `RS485_Worker_II` sets the port for ever if it fails.
* **Traffic.**  ERC 41 carries the time before the change; `check_power_on` reads
  `EventBuf[-1]`.

## 6. Not modelled

* `CreateEvent*`: encoders of event contents, layout.  Frame codec: search, checksum, bits of
  Fn and Pn; the models have records instead.  AFN 06 (authentication of the station):
  one exchange with the ESAM after the other, no state kept.
* `check_power_on`, `check_power_off` and the status file of `saveEventRecordStatus`:
  undefined reads (`EventBuf[-1]`) decide what they do.
* `archives.c`: `ReadArchFromDb` returns nothing on success, `ArchSearchData` nothing at
  all, and F10 never gets that far.  What callers do next is undefined.
* Registers, calibration and SPI of `ATT7022E.c`, not built; `sqlite3.h`; device files, PWM, GPIO.
* `RS485_Worker_II` and `IR_Worker`: they share only the frame handlers with the rest.
* `TAModuleKeyUpdate` and `GetTerminalEnableControlParam`: not called, and they write past
  their buffers (50 bytes for 61, 11 for 19).
* Rows beyond the 80 places of `m_ErcReport` (`ReportAssumption`); a 256-fold wrap of
  `m_ErcNum` (about 245 failing calls); the lazy creation of the lock (main makes the first
  call alone); failing writes of the traffic file; the races of the unlocked timer list,
  where any memory may be hit.
* With two connections a zeroed event can be queued and take a place until it has had its
  turns; no property is stated about that.
