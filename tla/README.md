# TLA+ models of imx8mp-building-blocks

Models of the concurrent, persistent and failure-prone parts of the building
blocks: the frame pools, the audio stream and its devices, the message bus, the
LED block, the A/B update and boot logic with the factory reset, the settings and
their snapshots, and the logs.  Every module is translated from the C code and the
boot script; a definition that models code has its lines in `PROJECT.json`.

## Inventory of the system

| Part | State it keeps | Operations | What is hard about it |
|---|---|---|---|
| frame pool, lock-free half (`libbb/bb_pool.c`) | refcount per frame, `write_idx`, `read_idx` | `sp_acquire`, `sp_commit`, `sp_dequeue`, `sp_release` | two threads, no lock; the index tests use stale loads; the indices are ints that only grow |
| frame pool, locked half (`libbb/bb_pool.c`) | refcount per frame, `mp_pending`, mutex, condition variable | `mp_acquire`, `mp_enqueue`, `mp_dequeue`, `mp_release`, `frame_ref/unref` | frames are marked ready before the lock is taken; the dequeue scans by slot; sharing a frame against a release that stores 0 |
| audio stream (`middleware/bb_audio_stream.c`, `libbb/bb_thread.c`) | `running`, `error`, two pools, three threads | `init`, `start`, `stop`, `destroy`, the three thread bodies | a shutdown sentinel through a queue that may be full, restart with leftovers, spawn failures, xruns |
| audio HAL (`hal/bb_hal_audio.c`) | descriptor, negotiated channels, rate, period and buffer | open, read, write, close | the negotiation with the ranges of two devices; what a ring must hold for the stream to start |
| bus daemon (`services/bb-busd.c`) | client array, subscription array, epoll registrations | accept, SUB/UNSUB/PUB/PING lines, client removal | indices stored in the kernel go stale when the array is compacted; limits; one slow client |
| bus client (`libbb/bb_bus.c`) | socket, one static line buffer | connect, publish, subscribe, ping, poll | partial reads, lost connection, a static buffer |
| block framework (`libbb/bb_block.c`) and LED block (`blocks/bb-led`) | `running`, `g_blink_active`, `g_blink_count`, the detached blink threads | start, main loop, on_cmd, stop | a command races the thread that an earlier command started |
| A/B update (`tools/bb-update`) and boot (`deploy/boot/boot.cmd`) | U-Boot environment, two root slots, the package file | create, verify, install, boot script, confirmation of a boot | a power cut between any two writes; an attempt counter; several scripts that share variables |
| recovery (`libbb/bb_recovery.c`, `deploy/boot/recovery-init`) | `recovery_mode`, snapshots | request, reimage, snapshot create/restore/delete, factory reset | partial failure; a factory reset that the power interrupts |
| persistence (`libbb/bb_persist.c`) | config file, machine id, boot log, update log | get, set, add, read | concurrent writers of one temporary file, power cuts, torn lines |
| log (`libbb/bb_log.c`) | destinations, size counter, log file, crash reports and the link to the latest | init, write, crash, close | the cut at the size limit, failing writes, fatal messages of several processes at once |
| json helpers (`libbb/bb_json.c`) | one static buffer | writer, `get_string`, `get_int` | sequential |
| other HAL (`hal/`) | one device descriptor each | open, read, write, close | error ladders over ioctls |
| tools (`tools/`) and boot-time services (`deploy/`) | none of their own | command lines | thin callers of the libraries |

How the parts interact: the audio stream's capture thread is the producer and
its codec thread the consumer of a lock-free pool; the codec thread is the
producer and the playback thread the consumer of a locked pool.  Blocks and
tools are clients of the bus daemon over a UNIX socket; the daemon copies every
published line to the subscribers.  `bb-update install` writes the other root
slot and hands over to `boot.cmd` through three U-Boot variables; a booted
system confirms itself by setting `boot_ok`; recovery is reached through
`recovery_mode` and through an exhausted slot.  The settings lie on a partition
that both slots and the recovery system share; snapshots of it lie on the
recovery partition.

What makes each part correct:

- pools: a frame has one owner at a time, arrives whole, once and (lock-free
  half) in order; the consumer is never left asleep over a pending frame.
- stream: no slot leaks on any error path, no step of `init` that fails leaves a
  resource open, `stop` returns and leaves no thread, audio flows while nothing
  has failed.
- audio devices: the rings are whole periods within the limits of the hardware,
  and the threshold at which playback starts can be reached.
- bus: whoever subscribed gets every publication of others and nobody else does;
  a departed client leaves nothing behind; every request is served.
- LED block: commands are handled whole and in order however reads cut them; a
  stopped blink thread ends; a signal ends the process.
- update and boot: some slot always boots, the running one among them, until it is
  overwritten on demand; an unconfirmed slot is tried a bounded number of times and
  not given up early; the board comes up as long as it does not stop at U-Boot's prompt,
  also out of a factory reset cut short.
- settings: what was set is what is read, also after a power cut and in the other
  slot; a restore that reports success restores.
- logs: a file's counter stands for its size; a power cut or a torn append costs a
  bounded number of entries; a completed crash report that has its second for itself
  stays whole, and the link leads to one.

## Modules

| Module | Models | Composes or refines | Run |
|---|---|---|---|
| `FrameQueue` | abstract: a bounded FIFO with frames kept by the consumer | | |
| `SpscPool` | `bb_pool_sp_*`, one step per atomic access | implements `FrameQueue` | `spsc_pool` |
| `SpscPoolProofs` | theorems about it | | |
| `FrameBag` | abstract: a bounded bag, each frame delivered at most once | | |
| `MpscPool` | `bb_pool_mp_*`, `bb_frame_ref/unref`, scans slot by slot | implements `FrameBag` | `mpsc_pool` |
| `MpscPoolProofs` | theorems about it | | |
| `AudioDevice` | negotiation of a device, results of its reads and writes | | |
| `AudioStream`, `MCAudioStream` | control, capture, codec and playback threads | extends `AudioDevice`, uses the abstractions of both pools | `audio_stream`, `stream_drain` |
| `AudioStreamProofs` | theorems about it | | |
| `BusDaemon`, `MCBusDaemon` | daemon, the sending side of its clients, the commands of `bb-cli` | | `bus_daemon`, `bus_stale_index` |
| `BusDaemonProofs` | theorems about it | | |
| `BusClient` | `bb_bus_poll` and its static buffer | | |
| `LedBlock`, `MCLedBlock` | block framework and LED block | extends `BusClient` | `led_block` |
| `LedBlockProofs` | theorems about the client and the block | | |
| `BootUpdate` | `boot.cmd`, the boot environment, the installer, factory reset and re-imaging of the slots, boot-ok, power | | `boot_update`, `boot_rollback` |
| `BootUpdateProofs` | theorems about it | | |
| `Package` | `bb_update_create`, `bb_update_verify` and the extraction | | `package` |
| `Persist` | `bb_persist_init`, `config_get`, `config_set`, the file system under them | | |
| `Recovery`, `MCRecovery` | snapshots, restore, factory reset, recovery-init, power | extends `Persist` | `settings` |
| `RecoveryProofs` | theorems about the settings, the snapshots and the restore | | |
| `BlockLog` | a block's log file, its cut, the crash reports of all threads, what of both is on the disk | | |
| `EntryLog` | boot log and update log, torn lines and their readers | | |
| `Logs`, `MCLogs` | both on one power supply | extends `BlockLog` and `EntryLog` | `logs` |
| `LogsProofs` | theorems about them | | |

How state and actions correspond to the code:

- **SpscPool.** `refcount`, `write_idx`, `read_idx` are the fields of the pool;
  `producer` and `consumer` hold a thread's program counter and the local copies
  of the indices it has loaded.  `Acquire`, `Dequeue` are cut at every
  atomic load, compare-and-swap and store; `Fill`, `Abandon` and `Commit` are
  what the capture thread does with an acquired frame.  Indices are ints of
  `IntMax` and wrap.  All atomics are sequentially consistent or acquire/release
  pairs with one writer each, so interleaving is enough.
- **MpscPool.** One step per slot of a scan; the mutex is held between steps only
  by the consumer, because a producer's critical section touches nothing that a
  step outside of it reads.  Waiting on the condition variable, signals and
  spurious wakeups are explicit.  `discipline` fixes how the users treat shared
  frames; with "release first" (which the API allows and which stores 0 over the
  reference of another user) most properties are lost, and `Sound` says so.
- **AudioStream.** A pool operation is one step; the lock-free pool is the queue
  `spq`, the locked pool `mpState`/`mpFrame` with the scan's order.  A frame is
  the session it was captured in and whether its size is 0, the shutdown signal.
  Each thread body is cut where it touches what others see.  `InitStream` opens the
  devices with what `AudioDevice` negotiates out of a request and two hardware
  ranges, and may fail at each step of the code's ladder.  `dropped` records that
  `stop` has stopped both devices by DROP, which nothing undoes: every read and
  write of a second session fails.
- **BusDaemon.** Connections are the clients' ends, with queues both ways; the
  daemon's tables are as in the code, with real descriptor numbers, since the code
  confuses descriptors and indices.  One `epoll_wait` returns a batch and
  handles it in any order.  `moved` and `Sound` record that `remove_client` has
  left a stale index in epoll.  A client in `Blocks` sends and leaves as it likes;
  any other is a command of `bb-cli` (`program`), which sends one line and leaves:
  `ping` after an answer, `pub` at once, `sub` when it is interrupted.  `bb-cli led`
  is `pub` with a fixed topic.
- **BusClient/LedBlock.** The stream of lines is cut into reads at any place; the
  main thread is the framework's loop with the LED's `on_cmd` in it; each `blink`
  command creates a detached thread.  The waits of 50 and 100 ms are modelled as
  no guarantee: blink threads sleep for times the command chooses.
- **BootUpdate.** `env` is the eMMC copy of the environment and `ram` U-Boot's;
  U-Boot's steps and the installer's steps end at their writes, so a power loss
  may come between any two writes.  A partition works, is broken, or is empty.  The
  factory reset runs in the recovery system: it writes both root slots from the
  recovery image, which may be missing, and then the environment variable by
  variable, testing no result.  `forced` records that somebody has asked for the
  running slot to be overwritten, by a package that names it or by a reset.
  A package may name any slot character (`c` stands for those but `=`, `a`, `b`), and
  mkfs and every write may leave the image as it was.
- **Package.** A byte is the part it belongs to and its place there.  The stdio
  stream and the shell write the same file at different offsets, and the header
  leaves its buffer at `fclose`.
- **Persist/Recovery.** Files are inodes under names; a step is one system call
  another process can notice.  A rename is atomic and reaches the disk at the
  next write-back.  `settings` is what the completed calls have set; `spoiled`
  records that a call returned 0 for a write that ran out of space, or wrote into
  the root slot because `/persist` was not mounted.
- **BlockLog.** A record has size 1 and is its number; `current_size` is the code's
  counter, which a failing write leaves ahead of the file, so that the cut can
  lengthen it with a hole (0).  A write under the mutex is one step.  A crash report
  is written outside of it, in four steps (open, text, unlink, link), by any
  number of threads of any number of blocks under names of one second.  Its text and
  the link may fail, as no result is looked at.  `disk` and `stored` are what the
  kernel has written back, for nothing is synced; a power cut leaves a log file as it
  was then, and of a report not yet stored the text or nothing.  `openings` counts the
  reports of a second and `spoiled` names the seconds in which one was not written.
- **EntryLog.** A file is a sequence of pieces, whole or torn and with or without
  newline.  An append on a full partition leaves a torn piece or none, and so may a
  power cut; `faults` counts both.  A reading is the reader's array, indexed by the pieces its
  lines start with.  There is a set of them, since a torn line may or may not pass for an entry.
  An entry is its number and its success, which the update log's reader never finds (`Shown`).

## Runs

| Run | Instance | Shows | Distinct states |
|---|---|---|---|
| `spsc_pool` | 3 frames, 7 commits, ints up to 15 | one owner, intact frames, the redundant test, refinement of `FrameQueue` | 2 thousand |
| `mpsc_pool` | 2 producers, 3 frames, 4 enqueued, all disciplines | one filler, exact `mp_pending`, no NULL from dequeue, no lost wakeup, progress, refinement of `FrameBag` | 141 thousand |
| `audio_stream` | 2 frames per pool, 2 starts, 1 xrun allowed, roomy and tight devices, two requests, with and without encoder, spawn failures | no leak of a slot or a resource, usable rings, stop terminates, audio flows or an error is raised | 220 thousand |
| `stream_drain` | one start, nothing fails | **violated**: pools are not drained by stop | |
| `bus_daemon` | 2 blocks and a command of `bb-cli` on a table of 2, 1 subscription entry, 2 messages, 2 leave | tables in step, nobody served or subscribed that did not ask, subscriptions and deliveries exact until an entry has moved, drain before close, PING answered | 1.1 million |
| `bus_stale_index` | 3 clients, one leaves | **violated**: a message is dispatched to the wrong client and blocks the daemon | |
| `boot_update` | boot_limit 3, any packages, 2 installations or factory resets, 1 power loss, recovery may fail | a slot boots and the running one is kept, attempts bounded both ways, the board comes up or stops at the prompt | 4.3 million |
| `boot_rollback` | one installation, no power loss | **violated**: a failed update of slot b goes to recovery although a works | |
| `package` | header of 3 bytes, archive of 4, no command fails | **violated**: a package that was created and verified cannot be extracted | |
| `led_block` | 2 commands out of 8 kinds, in 1 to 3 pieces, buffer of 2 | lines whole and in order, one late write, threads end, signal honoured | 234 thousand |
| `settings` | 1 namespace of 2 keys, setter, getter, 1 label, 2 sets, 2 power cuts | nothing lost or torn, no stale get, faithful restore | 1.1 million |
| `logs` | a block with a file of 2 records and 5 messages, one without, 3 threads with fatal messages in 2 seconds, 4 entries, readers of 3, 2 power cuts or torn appends | counter and file agree, reports whole and linked, a cut or a torn append costs one entry | 322 thousand |

Why the bounds suffice.  In `spsc_pool` 7 commits go more than twice around 3
slots, and an index is never more than N behind the other.  `mpsc_pool` needs two
producers to overtake each other in a scan and one slot more than producers.  In
`audio_stream` two slots distinguish full, partly full and empty, and two starts
show what one session leaves to the next; the limit on xruns (10 in the code)
is a number that is only compared, so 1 stands for it; the roomy device's ring holds
many periods, the tight one's a single period that does not divide its bytes, and
the two together do not match.  In `bus_daemon` both
tables overflow, an entry can be moved, and a descriptor reused.  `boot_update` has a
second installation after a failed first, a factory reset between two, and a power
loss anywhere; the rest is unbounded reboots.  In `led_block` two commands suffice for a command
to meet the threads of an earlier one, and three pieces exceed the buffer.  In
`settings` the second key shows lost lines and the second power cut hits the
recovery from the first.  In `logs` five records cut a file of two more than once,
with a failed write before, between and after; three threads
let two of one block and one of another meet in one second, and go on to a second one;
the second cut, or torn append, finds the piece the first has torn with an entry glued
to it; four entries are more than a reader takes.

`settings` looks no further than states in which `spoiled` has become true
(`Unspoiled` in `MCRecovery`): there the properties promise nothing.  It has one
writer, because with two writers in one namespace `SettingsKept` fails (they share
one temporary file); the API does not say that a namespace has one writer.  Keys
and values are interchangeable for every operation, so their permutations are a
symmetry; the run checks no liveness.

`logs` explores its three parts one at a time (`Apart` in `MCLogs`): the entries from
the states in which no block runs, nor has filed or reported anything, and the reports
while no block has a log file.  They share nothing but the power supply, and each
property is about one of the three.  A second report of the same second is followed up
in the first second only; the clock may be set back to it.  The two threads of the
block without a file are interchangeable.  The bound on faults does not count power
cuts before the first entry: the files and the reports see any number of them.

`CHECK_DEADLOCK FALSE` stands where the program may stop: the stream destroyed
or crashed, the daemon blocked in a system call, the block's process ended.

## Fairness

- `MpscPool`: the consumer's thread is scheduled (`WF(Consume)`).  Producers owe
  nothing.
- `AudioStream`: every thread that exists is scheduled and device calls return,
  with data or an error; weak fairness for each thread and for the control
  thread's spawning and joining.  Nobody has to call start or stop.
- `BusDaemon`: the single thread goes on unless a system call blocks it, and
  blocking is a disabled action.  Clients owe nothing.
- `LedBlock`: main and blink threads are scheduled and sleeps end.
- `BootUpdate`: U-Boot runs when there is power.  Nobody has to reset a board that has
  stopped at the prompt, so `ComesUp` says that a board which is switched off comes up,
  unless it stops at the prompt for good.  The service that confirms a boot owes nothing.

No strong fairness is used anywhere; `logs` and `settings` check no liveness.

## What is proved

All theorems hold for every value of the constants, subject to the stated
assumptions.

**SpscPoolProofs** (`TypeCorrect`, `SlotOwnership`, `IntactDelivery`,
`PoolIsFrameQueue`), for every number of frames, assuming
`NoWrap`: fewer commits than an int counts.  The inductive invariant adds to the properties what the
threads' local copies still say: a producer past its first load has the current
`write_idx`, and a consumer's copy is never ahead of it.  The refinement maps
the queue to the contents of the slots between the two indices.  `NoWrap` is needed, as
two theorems without it show, for any number of commits: `PoolWearsOut` (the pool
delivers no more than `IntMax` frames in its life) and `WrapStarves` (a consumer that
finds `write_idx` wrapped finds an empty pool for ever, over frames that wait for it).
They assume that the number of frames is an int itself.  An acquire past the wrap may
compute an index outside of `frames`; the model's producer ends there.

**MpscPoolProofs** (`TypeCorrect`, `ExclusiveFilling`, `PendingExact`,
`WakeupNotLost`, `PoolIsFrameBag`), for every finite set of producers and every
number of frames.  `NoLostWakeup` is inductive alone.  The others hold under
`Sound` and need: what the refcount says about a slot's owner, that the consumer
holds nothing while it dequeues, and that during a scan at slot `ci` some ready
slot is at `ci` or later.  Counting `mp_pending` against the ready slots is done
with the finite-set theorems.  For the refinement of `FrameBag` the invariant adds that
the frames of the ready slots are distinct and none of them was delivered (`Bagged`),
which holds because a frame's number is drawn when it is marked; every step leaves the
ready slots alone, adds one or takes one (`ReadyStep`).  A put finds room because the
slot it fills was not ready before.

**BootUpdateProofs** (`TypeCorrect`, `SomeSlotAlwaysBoots`, `AttemptsAreBounded`,
`NotGivenUpEarly`, `RequestKeepsOut`), for any number of installations, factory
resets and power losses.  The invariant says that the running slot is good and is
never the installer's target, that a factory reset runs only in the recovery system,
that U-Boot's copy of the environment differs from the eMMC's by the recovery request
alone, and that attempts used plus attempts left are `boot_limit` or one more in the
copy on the eMMC at every instant, except for a slot that inherited its count: of an
unconfirmed system `fw_setenv boot_slot` took effect and `boot_attempt` did not
(`inherited`; then they may be fewer).  The upper bound needs `boot_limit >= 2`, the lower one `boot_limit <= 3`,
the number the installer writes.  `RequestKeepsOut` has no run: it says that with
`recovery_mode` set the recovery system never comes up.

**AudioStreamProofs** (`TypeCorrect`, `NoSlotLost`, `NothingLeftOpen`,
`DevicesAlwaysUsable`), for pools of any size, any number of starts and any devices.
The invariant joins three parts.  `Holding` says, for each place the control thread
may be at, what is open and which threads are gone.  `Accounted` is `SlotsAccounted`
slot by slot; it needs `Holding`, for a thread is created only when its predecessor is
gone, and that one holds no slot.  The types need that a thread at its limit of xruns
is gone.  The scan of the locked pool finds a first slot because the intervals below
the slots are finite sets, which are well-founded by inclusion.  `DevicesUsable` is
inductive by itself: only `bb_audio_stream_init` opens devices.  What it needs is
arithmetic, that rounding the room down to whole periods loses less than one period,
and `DeviceAssumption`: a device has a channel, and no period of 0 frames.

**BusDaemonProofs** (`DaemonInvariant`, `TypeCorrect`, `TablesStayFaithful`,
`PublicationsReach`, `DrainedFirst`), for any connections, topics and patterns and any
limits of the two tables.  What the code intends holds until `remove_client` moves an
entry (`moved`); the theorems say which part survives it.  The invariant adds to the
properties: an open descriptor belongs to one connection, and one that waits for accept
has none (`Connected`); no index in use, however stale, leads to an entry of the array
that was never written (`Written`); each topic has one entry, and a wanted topic without
one found the table full (`Entries`); what was sent and fits one read has been
read before the lines are handled (`Drained`); and, until an entry has moved, the events
still to be handled are of different connections, which are all watched
(`EventsInStep`).  That no subscriber is turned away meanwhile is counted: a full set of
subscribers holds every client in the array, the sender among them.

**LedBlockProofs** (`LedInvariant`, `TypeCorrect`, `LinesInOrder`, `LateOnce`), for any
commands, any sizes of the reads, any buffer and any number of blink threads.  For the
client the invariant says that the lines handled are the first ones sent, and that they,
what is in the buffer and some rest make up all that was sent: so the first newline in
the buffer ends the next line, wherever reads cut it.  `FlattenSeq` is a recursive
function of the community modules; that it exists and is unique is proved by a least
counterexample.  For the block, the command carried out is the last line handled.
`OneLateWrite` needs where a thread is after its late write: asleep after it, or done, so
that its next test of `active` ends it.

**RecoveryProofs** (`TypeCorrect`, `SettingsInvariant`, `SettingsAlwaysKept`,
`GetsSurvive`, `RestoresAreFaithful`), for any namespaces, keys, slots and processes, any
number of calls and power cuts, and a partition that may fill at any time.  The types
need no more than that no two names lead to one inode, and that the inodes of the model
do not run out, which is counted: every call has two files open at most.  The others
assume `OneWriter`, that no two processes write one namespace: without it they are false,
and the API does not say it.  Their invariant says of the calls that a
temporary file belongs to the call that made it, that the file it copies is still the one in
place, and that a get's file is never written (`KInv`); until a call has
spoiled the files, that what a call is about to put in place is the settings with its own line
changed, and that the disk holds a state of whole calls, so that a power cut undoes
whole calls (`Kept`, `InPlace`); of the snapshots, that a whole archive holds of every
namespace what was set while it was taken, although namespaces are read one after the
other (`Archived`); and of a restore, which files are already in place (`Restored`).

**LogsProofs** (`TypeCorrect`, `SizeAlwaysTracked`, `ReportsAlwaysKept`,
`EntriesAlwaysKept`), for every
limit of the file and any number of blocks, threads, records, entries, failed writes, deaths
and power cuts.  The files' invariant adds that the counter is within the limit, that no
record is newer than the last one written, without which the next record would not be
in order, and that the same holds of what is on the disk, which a power cut brings back.
The reports' invariant adds that a report somebody works on, or the link leads to, has
been opened (`Known`); that a report opened once has a single writer, and no text before
this one has written it (`SoleWriter`), so that the text is its own; and that while the
link is gone some thread is about to make it (`Relinked`).  The types join these two with an
invariant of the boot and update logs: what a power cut leaves of a log is a log again.
`EntriesKept` speaks of what the readers make of a log, of any length and with an array
of any size.  Its invariant (`EntriesLast`) says that the pieces are in the order of the
additions, that those without a newline are no more than the power cuts and the torn
appends, and that an entry that was written in full and that no cut may have taken is a piece with a newline.  The readers are then counted against
it: an entry that was never added comes from a piece without a newline; an entry that is
missing although the array is not full was glued to one, a different one for each
(`GoodKept`); and a reader that has not filled its array has come to the end of the file
(`FirstOfAll`), for the first line it left out would have had room.

**Only model-checked**: all liveness (`PendingServed`, `StopTerminates`, `AudioFlows`,
`PingAnswered`, `ComesUp`, `BlinkersEnd`, `SignalHonoured`), which is out of the prover's
reach, and everything about `Package`.  Every invariant and every other action property that
a passing run checks is the statement of a theorem.

## Disagreements between code and documents

Shown by a run (see `findings` in `PROJECT.json`): `stream_drain`,
`bus_stale_index`, `boot_rollback`, `package`.  Met while modelling, without a run
of their own:

- pools: the int indices wrap after 2^31 commits (`WrapStarves` proves what follows); release stores 0 and
  forgets other references; the locked dequeue is in slot order.
- stream: a frame that fails to encode has size 0, which is the shutdown signal;
  spawn failures are positive and tested with `< 0`; the stream gives up at the
  11th xrun in a row, `README.md:152` says "10 consecutive xruns"; a stopped stream
  cannot be started again with sound, since DROP is not followed by PREPARE; a
  destroy after a failed init, or a second one, closes descriptor 0.
- audio devices: a device may be opened with other channels than were asked for,
  while the stream computes its sizes from the request; S24_LE counts as 3 bytes,
  ALSA's format of that name takes 4.
- bus: once an entry has moved, removing a client under a stale index decrements
  `num_clients` (`bb-busd.c:144`) below the connections that are open: more than
  MAX_CLIENTS are let in, and the list of a topic refuses some of them without a
  word (`bb-busd.c:95`); with the listener on descriptor 3, the first message of the client with index
  3 is taken for a connection and `accept` blocks the daemon (`PingReplied` shows it
  with four blocks, `MaxClients = 4` and `MaxLeaves = 0`); the client's buffer is smaller than the lines the daemon forwards; a
  client that has lost the bus spins, since poll's result is not tested;
  `bb_bus_ping` takes whatever comes first for its answer.
- LED: the 50 ms a blink command waits and the 100 ms of stop (`main.c:139`, "let
  blink thread finish") are shorter than `on_ms`; a late write undoes a solid or
  heartbeat; a failed init is ignored.
- update: an explicit slot may be the running one; the installer goes on after
  most failures; a new slot gets `boot_limit - 1` boots, and when only
  `fw_setenv boot_slot` took effect on an unconfirmed system, what the old slot had
  left, so that it may be given up untried (`docs/system-architecture.md:358` says
  "×3"); every slot character but `=` and `a` means b's partitions, also while b runs,
  and goes as it is into `boot_slot`, which U-Boot replaces by a.
- boot: with an empty boot partition the script just ends, and the board stays at
  U-Boot's prompt, although the other slot works (line 358 promises an automatic
  rollback); every reset counts as an attempt.  A recovery request (`recovery_mode=1`) boots slot a
  (`docs/system-architecture.md:403` says it triggers recovery mode): part 2 of the
  script names a slot "recovery" that part 3 replaces by a.  `RequestKeepsOut`
  proves it.
- settings: two setters of one namespace share a temporary file; `fclose` is not
  tested; nothing is synced; `/var/log/persist` is taken for `/persist`.
- recovery: the reason of a request is dropped; the factory reset ignores every
  failure and reports success, and its mkfs fails on the partition recovery-init has mounted; restore
  looks for the snapshot before it mounts the partition, returns 0 for an empty
  manifest, and has formatted before it finds an archive torn; snapshot creation
  fails once `/recovery` is mounted.
- logs: the cut of a file over its limit takes the newest records, the one just
  written first, and keeps the oldest half, while `bb_log.c:115` says "truncate from
  beginning"; a fatal message in a second that has its report already, of another
  block or of the same one, truncates that report; a report whose writing fails is
  linked all the same, and a symlink that fails leaves no link; a log that only
  goes to a file which cannot be opened drops every message, fatal ones included,
  without a report; the bits for the journal and for crashes do nothing; the
  number of crash reports is not limited to 32 (`docs/system-architecture.md:457`)
  and no code counts them.
- boot and update log: neither is circular or limited; the update log's success
  never reads back, since `bb_persist.c:196` writes it as a number and line 242 looks
  for a `t`; an entry that a full partition refuses is lost, or torn, and 0 is returned;
  after a
  power cut the next entry is glued to the torn one; the manufacturing accessors
  return data whose checksum was not verified.

## Plan

Done, in this order: the pools and their proofs, the stream, the daemon, boot and
installer and their proofs, client and LED block, settings and snapshots, update
packages, the audio devices and the error ladder of `bb_audio_stream_init`, the
logs, the factory reset in `BootUpdate` and in its proofs, and the proofs about the
stream, the logs, the daemon, its client, the LED block and the settings, the
refinement of `FrameBag`, the readers of the boot and update logs, and the life of the
lock-free pool.

Left, most important first:

1. bounded socket buffers, for the daemon that blocks on a slow subscriber (the
   sockets of `BusDaemon` have unbounded room);
2. the answer `bb_bus_ping` takes for its own.

## Not modelled

- The other HAL drivers (GPIO, display, LED below its sysfs files, ...) and the test
  programs: one thread opens one device, passes parameters to ioctl, read or write
  and closes it.  No state outlives a call and nothing interleaves; what can be wrong
  is the layout of a kernel structure, which a model would have to assume.
- The json helpers: formatting and searching of one string, stateless.
- The machine id, the manufacturing data, the version file and the status commands
  only read.
- The systemd units, and the program of the boot-ok service, which is not in the
  repository; `BootUpdate` models what the service does to the environment as
  external.
- Thread priorities and CPU affinities, the wording of messages, and times: a wait
  is a step that may come at any moment.
