# Verification of the DOBISS SX Evolution integration

TLA+ models of the Home Assistant integration `dobiss_sx_evolution`
(`src/custom_components/dobiss_sx_evolution/`), the TLC runs that check them and
the TLAPS proofs about them. Home Assistant, asyncio, python-can, pyserial and
the DOBISS Max200 are outside of the repository: they are modelled from how the
code uses them and marked external in `PROJECT.json`.

## 1. The system

One *config entry* stands for one Max200. It has *subentries*: modules (a
letter, a dimmable flag, up to twelve outputs, each a light, a switch or a
shutter that claims two numbers) and moods. At run time it owns a
`DobissCoordinator`, which owns a `DobissController`, which owns a CAN bus.

```
 config_flow.py --stores--> subentries --update listener--> __init__.py (reloads)
                                                                |
   light/switch/cover/scene <--snapshot-- coordinator.py <------+
        |   ^                                ^   debounce 50 ms
        |   +---- states cache ---- controller.py ---- executor threads ---- can.Bus
        +------------- writes -----------^   ^                                 |
                                             +---- read loop <---- frames -----+
```

| Component | State | Operations | What is hard | What makes it correct |
|---|---|---|---|---|
| Bus connection (`controller.py` `_open_bus`, `_read_loop`, `async_setup`, `async_shutdown`) | `_bus`, `_notifier`, `_reader`, the back-off, the repair flag, the read task | open, listen, notice a loss, back off, reopen, shut down | every blocking call is an executor job: the task that awaits it can be cancelled while its thread runs on; the repair issue outlives the controller | handles are closed, one bus at a time, frames from the bus in use, the repair issue follows the outage, it always recovers |
| State cache (`controller.py` writes, `_ingest_message`, `async_refresh_and_settle`) | `states`, `_frame_arrival`, `_refresh_lock` | writes, frames, dump requests, refreshes | the cache is written after an await; frames are lost while the link is down; two refreshes share one event | the cache ends up with the outputs' states; a refresh ends, and after the answer |
| Coordinator (`coordinator.py`) | `_debounce_unsub`, the last data and whether it succeeded, the record of clock syncs | coalesced notification, manual refresh, clock sync | timers restarted by every frame; refreshes that fail, or notify nobody; overlapping clock syncs | entities catch up with the cache and the bus; the record is of the last attempt that was not cancelled |
| Lights (`light.py`) | `_attr_brightness`, `_optimistic_can_value` | turn on, turn off, update | one notification is for all entities, also those with a write pending | the light shows the cache, and a level it asked for survives its echo |
| Switches, shutters, scenes (`switch.py`, `cover.py`, `scene.py`, `entity.py`) | none of their own | forward writes | availability is read when they are rendered | as the cache |
| Conversions (`protocol.py`, `const.py`) | none | bytes, levels, dates, addresses | three scales of levels, BCD, rounding | round trips |
| Module subentries (`config_flow.py`) | the entry's module subentries; the open dialogs | forms, change of type, import | several dialogs at once, downloads between reading and storing | a number has one owner, a letter one module |
| Mood subentries (`config_flow.py`) | the entry's mood subentries | form, import | as above | a mood number has one subentry |
| Entry (`__init__.py`) | `prev_conn`, `prev_modules`, platforms, registries | setup, two kinds of reload, unload, prune, services | listeners of several changes overlap, setup takes seconds | what runs is what is configured |
| Max200 clients (`serial_client.py`, `tcp_client.py`) | a port or a socket for the time of a command | clock, module list, names | time-outs, late answers, two users of one device | names belong to their records |
| Connection flows (`config_flow.py`) | each entry's unique id and data; the open dialogs | add, reauth, reconfigure: probe and store | the probe is awaited between the checks and the store, in dialogs side by side | a connection is set up once, an entry's id is the connection it uses |
| Diagnostics (`sensor.py`, `binary_sensor.py`, `diagnostics.py`) | none | views | notified by others only | they catch up with the coordinator |

`PROJECT.json` lists them with their status, and under `hazards` where each of
them can go wrong.

## 2. The modules

| Module | Models | Builds on |
|---|---|---|
| `BusLifecycle` | the bus connection: tasks `owner` (setup, shutdown) and `reader` (`_read_loop`) | implements `LinkSupervisor` |
| `LinkSupervisor` | what the connection promises: one retry per wait, waits that double up to a ceiling, the alarm there | - |
| `StateCache` | the cache next to the real outputs: writes, frames, dumps, refreshes, notification | implements `OutputMirror` |
| `OutputMirror` | what the cache promises: a right state stays right until its output changes, news of which follow or are made up for | - |
| `Coordinator` | what entities show between the cache, the bus, refreshes and clock syncs | - |
| `LightEntity` | one dimmable light: the level it shows | `Protocol` |
| `Protocol`, `ProtocolCheck` | the conversions, as operators, and a walk over every value that is converted | - |
| `SerialLink` | the serial client's commands: threads, the line, the Max200 | - |
| `ModuleConfig` | module subentries under any number of dialogs and imports | - |
| `MoodConfig` | the mood subentries next to them | extends and implements `ModuleConfig` |
| `ConnectionFlow` | the connections of entries under dialogs of all three sources | - |
| `EntryLifecycle` | setup, reload listener, unload of one entry | implements `ReloadService` |
| `ReloadService` | what an entry promises about its modules: reloads are served in turn, each start is for the modules of that moment | - |
| `...Proofs` | theorems | their module; `SubentryProofs` on `MoodConfig` |
| `MC...` | symmetries, function-valued constants and joint specifications for TLC | their module |

### How actions correspond to code

*A stretch of a task between two awaits is one action.* Home Assistant runs
callbacks and coroutines on one thread, so nothing interleaves within it. What
does interleave are other tasks, the executor's threads and the world outside.

`BusLifecycle`. `pc[t]` is the await that task `t` is suspended in, `job[t]` the
executor job it awaits. A job is queued, runs in a thread, has returned, and is
delivered to the task, so that a cancellation of the reader or of the setup
(`SetupCancelled`) can fall in any of these phases; a job whose thread
runs on after the cancellation is in `strays`. A shutdown takes steps of its own:
`Shutdown` requests the reader's cancellation and awaits it, `ReaderEnds` is the
CancelledError raised wherever the reader is suspended by then (in a job, which may
have gone on in its thread meanwhile, in its sleep, waiting for frames), and
`ReaderAwaited` goes on to the stop and the close. `handle[b]` is what python-can
has: a bus that is open or broken. Opening is `OpenBus`, `StaleBusClosed`,
`BusOpened` (`_open_bus` and `_setup_notifier`; their `_teardown_notifier` never
finds anything to stop, which `ReadsItsBus` states), the read loop is
`LivenessTimeout`, `FramesStopped`, `BackoffElapses`, `ReconnectFails`,
`Reconnected`. `NewController` is the retry
of a setup or a reload: the next controller of the same entry meets the repair
issue and the open handles of the last one. Frames are not modelled: that one
may come is the absence of `LivenessTimeout`. The constructor of `can.Notifier`
is taken not to raise; `ReadsItsBus` shows that the branch of `_read_frames` for
a missing reader is then dead code. A send on a bus that works is taken not to raise
either (`SendReturns`): socketcand writes to a connection, slcan to a serial port. `reconnect_count` is left out, it only grows.

`StateCache`. `real` are the outputs themselves. A write is a task that is
queued, whose frame is sent by a worker thread (`WriteReaches`, the Max200 obeys
and broadcasts) and which resumes later (`WriteApplies`: `_apply_local`). Frames
arrive in order (`Ingest`) and are lost when the link breaks; `Reconnect` asks
for a dump. A refresh goes through the steps of
`_refresh_and_settle_locked`; `arrival` and `fired` are its event. The dump
answer is one burst in any order of the outputs. `debounce` alternates between
two values so that a restarted timer is another timer.

`LightEntity`. `write[w]` is one service call; `Flush` and `SetUpdatedData` are
notifications, and `OtherUpdate` those that other outputs cause. A service call
may be cancelled (a script that is stopped), which `except Exception` does not
see. `async_turn_on` without a brightness is the one with level 255: both write
144, expect 90 and show 255. A light that is not dimmable never gets an
optimistic level and shows the cache by definition.

`Coordinator`. `shown` is what an entity last rendered: the cache, its
availability, the bus and the time of the last sync. It is rendered when the
timer elapses (`FlushState`), by a manual refresh that recovers or finds other
data (`Refresh`, `RefreshFails`; `always_update` is False), when platforms are
set up (`EntitiesAdded`) and by the reload listener (`ReloadPushes`); the loss of
the bus and the end of a sync render nothing. A service call reaches only an
entity that is available (`BeginWrite`). `sync[t]` is the attempt that a task
makes; its start stands for the time `async_sync_clock` takes before its await
and records after it. It ends having sent the time, having returned without (TCP
only), having raised, or cancelled (`CancelSync`), like a service call of
`LightEntity`, with no record at all.

`SerialLink`. Every command runs in a worker thread that opens the device for
itself; nothing keeps two of them apart (`Open`). `line` is what the Max200 has
sent, `buffer` the input buffer that both threads read and that a handshake
empties (`Drain`). The handshake is `WriteCommand`, then `ReadEcho`,
`EchoTimesOut` (which tries again, `SERIAL_HANDSHAKE_RETRIES` times) or
`Unplugged`; a clock command pays its bytes (`WriteTime`), a download asks for
records and reads them until their time-out (`WriteAddress`, `ReadRecord`), full,
cut or empty. A part may be lost, or arrive after the read that waited for it. A
record and a clock's bytes are two parts each.

`ModuleConfig`. A form that is checked and stored in one step is one action
(`AddPlain`, `AddShutter`, `RemoveOutput`, `EditModule`, ...); a change of type
spans steps (`PickOutput`, then `ChoosePlain`, or `ChooseShutter` and
`ChooseDown`), and an import two downloads (`BeginImport`, `ConfigArrives`,
`NamesArrive`), between which other dialogs store. Names are left out, letters
are model values. Of an import only what is stored before a collision counts:
`Stored` ends at the first letter that Home Assistant refuses.

`MoodConfig`. The form stores at once (`AddMood`); an import keeps the numbers it
read before its download (`BeginMoodImport`, `MoodNamesArrive`), and stops at the
first it would store that was added meanwhile (`StoredMoods`).

`ConnectionFlow`. A form opens (`BeginUser`, also by discovery; `BeginReauth`,
`BeginReconfigure`), a submission claims its connection if it is a new one
(`SubmitUser`: `async_set_unique_id` before the probe) or does not
(`SubmitChange`), and the end of the probe stores what it finds then
(`CreateEntry`, `FinishReauth`, `FinishReconfigure`). What Home Assistant does about an id that is taken
meanwhile depends on its version, and is left open: a new entry replaces the one
that has the id or is refused, a reauth that stores such an id succeeds or fails,
a reauth counts as a claim of its entry's id or does not (`MayBeRefused`).
`Reauthed` never changes the type of the entry.

`EntryLifecycle`. Home Assistant starts the update listener as a task for every
change; its first lines run at once (`BeginFullReload`, `BeginPlatformReload`)
and the rest after awaits. A change of the connection is `Reconfigure`: the connection
is no state of the module, and a listener that hears of it reloads fully. A full reload is `Lock`, `Unload`, `Opens` (or
`OpenFails`), `SetupForwards`, `Finish` under the entry's `setup_lock`; a
platform reload is `ListenerForwards`, `Forwarded`, `Refreshed`. Of Home
Assistant it models that unloading platforms that are down fails, that platforms
that are up are not set up again, and that a failed unload is final. The five
platforms are one, and a module with another dimmable flag is another module.
Discovery and the refresh hear any of the modules, or none; frames that come
later and render entities are `Coordinator`'s.

## 3. The runs

| Run | Shows | States |
|---|---|---|
| `bus_connection` | safety (`NoLeak`, `OneBusAtATime`, `ReadsItsBus`, `IssueGoneWhenHearing`, `StopBeforeClose`), liveness (`Recovers`, `LossIsReported`, `SetupEnds`, `ShutdownEnds`) and the refinement (`ImplementsSupervisor`, `KeepsSupervising`): two controllers, three handles, cancellations, of setups and by shutdowns, at all phases of all jobs | 449 000 |
| `cache_writes` | `DriftOnlyFromRaces` and the refinement `MirrorsOutputs`: the two outputs that one shutter move sets, two writers, wall switches, dumps, lost links | 1.4 million |
| `cache_refresh` | `WaiterIsSignalled`, `SettledMeansAnswered`, `ShownIsReal`, `ShownCatchesUp`, `RefreshEnds`: two refreshes, one writer, one output | 0.2 million |
| `light_shown` | `ShownMatchesCache`, `OwnEchoKeepsLevel`: two service calls, foreign frames, notifications of others; and for every input of the conversions `LevelSettles`, `OutputsRoundTrip`, `ClockReadsBack`, `RecordsDisjoint` | 0.44 million |
| `clock_sync` | `Coordinator`: `ShownIsCached`, `LastTryRecorded`, `CatchesUp`: one output, losses of the bus, refreshes, reloads; three clock syncs in two tasks, sent, not sent, failed or cancelled. `SerialLink`: `NamesBelong`, `OkMeansSet`, `CommandsEnd`: a clock command and a download on one device, lost and late answers | 0.31 million |
| `subentries` | `ClaimedOnceUnlessRevived`, `LettersUnique`, `ImportStoresNewMoods`: two modules, two outputs each, two dialogs, three moods, two mood imports | 93 000 |
| `connection_flows` | `SetUpOnce`, `IdNamesConnection`, `NoEntryReplaced`: two entries, two gateways, one adapter, three dialogs | 0.89 million |
| `entry_reloads` | `SettledIsSynced`, `SettledIsRendered`, `TasksEnd` and the refinement `ServesReloads`: three requests, three tasks | 0.44 million |

Bounds. *Handles* 3: a controller refers to at most one bus and one more is on its
way or being closed, the third belongs to another controller. *MaxLives* 2: the
repair issue and the strays of one controller meet the next; a third adds no new
neighbour. *Back-off* 1 to 60 as in the code: 1, 2, 4, ..., 32, 60, so the
ceiling is not a power of two. *Writers, Refreshers, Dialogs, Syncs, Threads* 2:
every property speaks of one task that another disturbs; *Flows* 3, so that a
reauth and a reconfigure of an entry meet a user who adds its connection.
*Entries* 2, *Gateways* 2 and one adapter: one entry takes what the other one has,
of its type or of the other. *MaxFrames* 2 for `cache_writes` and `light_shown`:
an old frame behind a new one is the shortest reordering with an update, and a
shutter's dump is a burst of two; 1 for `cache_refresh`, where one foreign frame
before, between and after those of the answers is what disturbs a refresh.
*Records* 2 and *Attempts* 2: the answer to one record that is read as the next
one's, and the echo of one attempt that is read by the next. *MaxLine* 2: a whole
record. *MaxAttempts* 3: two syncs that overlap and one after them.
*OutputsPerModule* 2 for `subentries`: a shutter takes a whole module, or a
change of type meets one other claim; `module_claimed_twice` has 3. *MaxRequests*
3: two overlapping reloads and a change during either. The light's levels are the
lowest (1, which would round to off) and a middle one; the foreign frames are off,
a value between two steps, a step, and a value beyond the echo scale. *Last* ends
the walk of the conversions, after every level, output, date byte and record.
What the proofs of section 4 cover does not depend on these bounds.

Three runs hold two models that share no variable and in which one of the two moves
(`ModulesOrMoods`, `LightOrWalk`, `CoordinatorOrLink`): the states are those of both
apart.

`CHECK_DEADLOCK FALSE` is set for `EntryLifecycle` only, whose requests are
bounded: when all of them are served nothing happens any more.

### Fairness

`BusLifecycle`: worker threads run and return (`make_bus` has its own time-outs),
a resolved or cancelled future resumes its task, sleeps and the discovery deadline end, and
on a handle that is gone the `LIVENESS_TIMEOUT_S` (300 s) without a frame pass.
Nothing is assumed of the gateway, of Home Assistant's calls, or of a silent bus
that works. `StateCache`: timers fire (each of the two alternating debounce timers
on its own, as one that is cancelled need not), frames are read, worker threads
run, the link comes back because the read loop retries for ever. The lock of
refreshes is handed on in order (`asyncio.Lock` is a FIFO), hence strong
fairness for taking it; the overall time-out of a refresh has a fairness of its
own, since `loop.time()` passes however often the idle window restarts.
`Coordinator`: the timer that is set fires; it is not restarted for ever.
`SerialLink`: a thread goes on, since every read has a time-out; nothing is
assumed of the Max200 and its line. `EntryLifecycle`: every await of a task
returns.

### Where the code and its documentation disagree

Four runs end in a counterexample (`PROJECT.json`, `findings`):

- `bus_repair_across_reload`: a controller that is shut down while the repair
  issue is raised leaves it behind; no later one deletes it, whatever README:302
  of the repository says of reconnections.
- `module_claimed_twice`: a change of type that is stored after its output was
  removed, and the number claimed by another one, claims it again.
- `entry_change_during_setup`: a change while a setup is under way is seen
  neither by its coordinator nor by the listener it registers afterwards.
- `coordinator_sync_record`: coordinator.py:209 says the record is updated for every
  attempt, and line 213 that over TCP "ok" means sent. A clock sync that is cancelled
  while it is awaited (a script that is stopped) records nothing, since
  `except Exception` does not see CancelledError; and `send_command` returns when it
  could not connect or write, so that the record says "ok". Either alone breaks
  `EveryAttemptRecorded`.

The passing properties next to them say exactly when a promise does hold, and
history variables name the exceptions. `cut` (`NoLeak`, `OneBusAtATime`): a
cancellation that falls into an open or a close; one that comes after `make_bus`
returned in its thread, and before the event loop knows, loses the open bus.
`raced` (`DriftOnlyFromRaces`): a write is stored after its await, so that
something newer can be overwritten, also by two writes whose tasks resume in
another order than they were sent. It is also the one exception of `ShownIsReal`
and of a right cache after a refresh (`SettledMeansAnswered`). `disturbed` (the
latter, too): any frame, not only the answer, starts the idle window of a refresh. `early`
(`OwnEchoKeepsLevel`): a notification that another output causes, while a write
is pending, takes the requested level away. `revived`
(`ClaimedOnceUnlessRevived`). `newest.beside` (`LastTryRecorded`): the record of the
latest sync may be overwritten with an older time, by one that was under way when it
began and ended after it; by no other. `disturbed` of `SerialLink`: a late byte, or another thread's, is read
as the answer to something else, since records carry no number. `unchecked`
(`SetUpOnce`, `NoEntryReplaced`): a reauth stores what another entry or dialog has
claimed. `crossed` (`IdNamesConnection`): a reauth that ends after a reconfigure
to the other type leaves an id that names no connection of the entry. `missed` and `clash` (`SettledIsSynced` and its
companions): a full reload that finds the platforms of a platform reload down
leaves the entry failed to unload. Entities are rendered before the refresh that
fetches their states; `SettledIsRendered` says that they are rendered again with
what it fetched, be it all, some or nothing.

Some hazards of `PROJECT.json` are exactly such an exception: a stop that is
interrupted, a write that is overtaken, a notification while a write is pending, a
full reload between the awaits of a platform reload, two users of a serial device,
clock syncs that overlap. For those the property shows how far the damage goes and
what it needs, not that there is none.

## 4. The proofs

The theorems have the form `Spec => []Inv` or `Spec => [][A]_vars`, but for four
refinements (`BusLifecycle` of `LinkSupervisor`, `StateCache` of `OutputMirror`,
`EntryLifecycle` of `ReloadService`, `MoodConfig` of `ModuleConfig`) and for what the
abstract specifications promise in turn. All hold for any values of the constants
that the `ASSUME`s allow. `TypeCorrect` of each module states that its `TypeOK`
always holds; the runs do not check that once more.

`BusLifecycleProofs`: `TypeCorrect`, `ReadingFromOwnBus`, `RepairRaisedAtCeiling`,
`NoHandleLeaks`, `OneBus`, `NotifierStopsFirst`, `IssueClearedWhenHearing`,
`ControllerImplementsSupervisor`, `SupervisorAlarms`, for every set of handles, every back-off and
every number of controllers. The inductive invariant says for each await what its task
holds (`Structure`): a task that awaits a stop still has the bus in the field and
no notifier, one that awaits a close has taken the bus out of the field into its
job, one that awaits a `make_bus` finds both fields empty; the read loop lives from the end of a
setup until a shutdown has awaited it, so that only one of the two tasks is at work
(`Alone`). `ClosedIsFree` adds that a close that has
returned has closed. Leaks and double opens then follow by looking at who refers
to a handle before and after each step. For the order of stop and close, every
thread that listens is the notifier or is about to be stopped (`Tended`). For the
repair issue, a handle the controller has is not made anew (`Owned`, `Apart`), so
that a loop whose dump was refused listens on a bus that stays lost (`LostReader`).
For the refinement, `PhaseOfTasks` reads the supervisor's phase off the two
program counters, and each action is one supervisor step or a stutter; the alarm
of a failed retry needs `RepairAtCeiling`. That invariant follows from the refinement
again (`SupervisorAlarms`), so that the run checks the refinement only.

`SubentryProofs`, modules: `TypeCorrect`, `NumbersClaimedOnce`, `NoLetterTwice`, for
any subentries, letters, dialogs and outputs. Each form's store is shown to keep
the claims of a module apart (`PlainKeepsClaims` and its siblings); the invariant
has to know that an open dialog's picked output was there once (`KeyPicked`), that
a subentry's unique id is its letter (`UidIsLetter`, which is what Home Assistant
keeps unique), and which modules had a removed output stored again (`revived`).

`LightEntityProofs`: `LightShowsCache`, `LevelSurvivesEcho`, `TypeCorrect`, for
any levels, foreign frames and writers. The level and the expected echo are set
and dropped together (`Paired`), so that a notification that keeps the level has
just compared its echo with the cache; while nothing but one turn-on concerns
the light, every frame and update under way carries its echo (`Alone`).
The conversions: `LevelsSettle`, `OutputsAreEchoed`, `ClockIsReadBack`,
`NamesAreApart`, over every value a walk comes to, however long it is. A level's byte
is its nearest step (`RoundedNearest`, `StepOfLevel`), and the level that a step's echo
is shown as is written as that step again (`StepIsEchoed`); the digits of a year are those
that division leaves (`BcdReadsBack`); records are slots of one length
(`OutputSlot`, `RecordSlot`), so that two of them overlap only if they are one.

`StateCacheProofs`: `CacheIsRight`, `EntitiesShowOutputs`, `RefreshIsAnswered`,
`RefreshesTakeTurns`, `RefreshIsSignalled`, `CacheMirrorsOutputs`, `MirrorIsRight`,
`TypeCorrect`, for any finite set of outputs, any writes, tasks and number of
frames on the way. For the cache, the invariant says of every output that the last
frame on the way to the host, if there is one, has the output's state, and that
without one the cache has it, unless it was raced (`CacheFollows`); and that a
write which was sent and not overtaken still holds what its outputs have
(`WritesAreCurrent`), so that storing it does no harm. Both say nothing while a
dump is outstanding or the link is broken: the answer to a dump puts a frame for
every output behind the others. For refreshes, only the holder of the lock is in
progress (`Held`), and while its answer has not come nothing has been heard or is
there to be heard (`AnswerIsAwaited`); when it settles nothing is on the way
(`SettlesByIdling`), so that the cache is right by `CacheIsRight`. What the entities
show is the cache, or a timer is due (`ShownOrDue`): reloads that push the cache leave
the timer running. For the refinement, `Standing` reads what a cached state is worth
off the link, the outstanding dump, the frames and `raced`; each action is one
step of the mirror or a stutter (`BroadcastIsChange`, `IngestIsHear`, `WriteIsStore`,
`MirrorStep`). That the last frame of an output leaves a right state is `CacheFollows`,
that a write which was not overtaken spoils nothing is `WritesAreCurrent`.

`CoordinatorProofs`: `ShowsCacheOrIsDue`, `RecordIsOfLastTry`, `TypeCorrect`. The
first is inductive. The second needs that attempts are numbered as they begin
(`AttemptsAreOrdered`), and that whatever older attempt is under way was so when the
newest one to end began (`OlderAreBeside`): an attempt that ends then is the newest,
or beside it.

`SerialLinkProofs`: `NamesBelongToTheirOutputs`, `ClockIsSet`, `CommandsAreBounded`,
`TypeCorrect`, for any number of threads, records and attempts. The invariant
(`Expected`) says for each step of the one thread that has the device what may be on the line and in
the buffer: one stray byte before an attempt, at most the echo of its own command
while it waits for that, nothing when it addresses a record, parts of that record
in order while it reads; and which command locks the Max200. Of `CommandsEnd` the
safety half is proved: the steps that a thread has before it (`Work`) are at most
`2 * (Records + Attempts) + 2`, each of its steps leaves fewer, no other adds any.

`ConnectionFlowProofs`: `ConnectionSetUpOnce`, `IdIsConnection`,
`AddingReplacesNothing`, `TypeCorrect`, for any entries, dialogs and connections.
`SetUpOnce` is nearly inductive by itself: a claim and the entries exclude each
other. It needs what an open dialog knows (`FlowKept`) and, for the ids, that the
open reauths of an entry are of its type unless it is crossed (`Matched`).

`SubentryProofs`, moods: an entry with moods implements `ModuleConfig`
(`SubentriesImplementModules`), so that its theorems hold there too
(`SubentriesKeepModules`); `ImportIsComplete`.

`EntryLifecycleProofs`: `EntryInOrder`, `ModulesAreReloaded`, `EntitiesAreConfigured`,
`EntitiesAreRendered`, `ReloadsAreServed`, `ServedIsWanted`, `TypeCorrect`, for any modules, outputs and number of tasks.
Who holds the lock determines the state of the entry (`LockHeld`, `Staged`), and a
registered listener's snapshot is always that of the entry (`Listening`). So a
coordinator for other modules has a full reload on its way (`ReloadPending`). As
long as the two kinds of reload exclude each other (`Excluded`), the platforms are
up or some platform reload is about to forward them (`PlatformsUp`), and whenever
no full reload is on its way they show what is configured (`InStep`). For the
refinement, a reload is due while some task wants one; that every change of the
modules makes one due is what `Listening` is for, and that only the holder of the lock
takes the integration from one stage to the next is `Staged`. `ServedIsWanted`
concludes `ModuleChangesReload` from the refinement alone, so that the run checks the
refinement only.

The assumptions are the named `ASSUME`s of the modules: `None` (`Unset`) is no value, the
outputs are finitely many, the back-off grows from a positive start to a larger
ceiling, numbers of outputs are naturals, levels are brightnesses and frames are
bytes, gateways are no adapters. Checked by TLC only: liveness, with the fairness
part of the first refinement (`KeepsSupervising`), which is out of the prover's reach.
Every safety invariant and action property of a passing run is a theorem.

## 5. Not modelled

- The TCP client's exchange: it opens a connection for every command, so that no
  late answer meets another command. That a failed connect or write returns normally
  is the outcome "unsent" of `Coordinator`.
- A setup that is cancelled after `controller.async_setup` (in the first clock sync,
  coordinator.py:158, or while the platforms are forwarded, __init__.py:122): nothing
  shuts the controller down, and the next one would run beside it, while `BusLifecycle`
  has one controller at a time. Its `SetupCancelled` is a cancellation before that. Nor
  does a setup of `EntryLifecycle` fail after the bus was opened (`OpenFails`): the first
  refresh fails only if the bus has been given up since, which takes 300 s without a
  frame.
- Which connection an entry runs with: `Reconfigure` only asks for the reload, and
  nobody hears one that falls into a setup. The comparison with a missing coordinator
  (__init__.py:269) is left out, since the listener is registered after it is there.
- The probe of a USB adapter that the running entry holds, and the lists of
  adapters a form offers: they depend on the operating system.
- The loops of the services over several entries, and the registration of
  services and devices.
- `diagnostics.py`, the counters of `sensor.py`, what a shutter shows for each
  pair of states: functions of fields that are modelled, without state.
- Titles, names, translations, redaction and logging carry no behaviour that a
  property here is about.

What the models show but no property forbids: entities that a failed manual
refresh made unavailable stay so, and service calls skip them, until a frame with
a changed state or another refresh comes, however long the bus has been back.

## 6. Plan

1. `EntryLifecycle` with a second entry, services and devices; the loop of the
   `sync_clock` service over coordinators that are unloaded meanwhile.
2. Proofs: an abstract register of connections, in which each dialog checks and
   stores at once, that `ConnectionFlow` implements but for its `unchecked` ids; the
   safety half of the other liveness properties, as `CommandsAreBounded` is for
   `CommandsEnd`; `EntryInOrder` and `RefreshesTakeTurns` (what a waiting task waits
   for is held by one that does not wait) begin it.
