# A TLA+ development of the naichichi2 home controller

naichichi2 ("Futurechi home controller", FHC) is a home controller that listens
to speech, speaks, plays music, serves web pages, fires timers and sensor
triggers, sends infrared codes and keeps in touch with a cloud service. Its own
code is `src/naichichi2/`; everything else in the repository is vendored
(julius, openjtalk, v8, openssl, portaudio, ...) and is not modelled. The models
follow the Linux build of the client (`WITH_CLIENT_ONLY_CODE == 1`).

## The system

One process, many threads. JavaScript, the engines' construction and most
settings may only be touched by the main thread (`ASSERT_IS_MAIN_THREAD_RUNNING`),
so that almost every interaction goes through `MainWindow::SyncInvoke`.

| Part | State | Operations | What makes it correct |
|---|---|---|---|
| Main window, message pump (`MainWindow`) | `Queue`, `Lock`, `EventObject`, `StopFlag`, `ExitLevel`, a promise per caller | `BlockMessageLoop`, `RunMessagePump`, `SyncInvoke`, `AsyncInvoke`, `Shutdown` | each function runs once and in order; callers return after theirs has run; promises outlive their use |
| Web server (`HttpServer`, `HttpWorker`) | pool of workers, `ConnectSocket`, `StopFlag` | accept, `Post`, work, release, `StopRequest`, `Stop` | a connection has one owner; every one is served and closed |
| Triggers (`Trigger`) | `ASyncFunctionList`, three lists, sensor readings | `Append...`, `RemoveCallbackDelay`, `OnSensorUpdate`, the pass | the walk stays valid; removal is final; nothing is fired early, or twice |
| Speech recognition (`Recognition_JuliusPlus`, `Recognition_Factory`) | the engine, its thread, the rules | start, stop, rebuild, result callback | stop ends; results go to registered callbacks |
| Trigger settings (`ScriptWebRunnerTrigger`) | `CallbackList`, settings, the sleep timer | `ReloadTrigger`, save, delete, switch, the callbacks, the next date | a repeating trigger keeps its next firing; it fires at the times set; the sleep timer is executed once |
| Speech output (`Speak_Factory`, `Speak_OpenJTalk`) | `SpeakQueue`, `Lock`, `StopFlag`, cached speech | `SpeakAsync`, `SpeakSync`, `RemoveCallback`, rebuild, delete from the cache | texts in order, each once; callbacks after their text; the engine stops |
| Music (`MusicPlayAsync`) | `PlayQueue`, `PlayLock` | `Play`, `PlaySync` | files in order, in full, one at a time |
| Cloud (`ColudSyncPooling`, `ColudSyncConfig`) | account, link, `SyncTarget`, the copy at the server | long polling, new account, upload, `SyncJoin` | an upload leaves a mirror, at the right account |
| MultiRoom (`MultiRoom`, `MultiRoomUtil`) | a table of rooms in each room | add, delete, rename, new key, send the table | rows are true; no room loses itself |
| Settings (`Config`) | map, `config.conf`, `config.conf.tmp` | `Set`, `Remove`, `RemoveTree`, save, load | what was saved is loaded; a power cut leaves one good file |
| Actions (`Fire`) | settings of the actions, `nestcount` | save with its check, run a macro | what is accepted runs to its end |
| Sensors (`Sensor_Factory`, `SensorGraph`) | the record, its start, its file | reading, rotation, save, load | a reading is found at its time |
| Infrared board (`CapeBord_IRR`) | `updatelock` | learn, transmit, read | one user at a time; everyone returns |
| ECHONET Lite (`EcoNetLiteServer`, `NetDeviceEcoNetLite`) | `MappingList`, `TidWatch`, `TIDTotal` | search, identification, `Pickup` | an answer reaches its caller, while it waits |
| Volume, background music, scripts, web pages, HomeKit, UPnP | little or none of their own | | see "Not modelled" |

The hard behaviours are the blocking calls between threads (a caller waits for
the main thread, which may be waiting for that caller), condition variables
without conditions, flags read without locks, callbacks that change the list
that is being walked or reload the table they belong to, callbacks that refer to
the stack of a caller that may time out, lost and late messages, a wall clock
that is set while the program runs, and a power cut at any moment.
`PROJECT.json` lists them under "hazards", each with the line where it bites.

## Modules

* `MainThreadQueue` is what callers of `SyncInvoke` and `AsyncInvoke` rely on: a
  first-in first-out queue of functions and callers that may be blocked on theirs.
* `MainLoop` is the pump. `lock`, `queue`, `stopFlag`, `exitLevel` are the fields
  of `MainWindow`; `mpc` and `idx` the place of the main thread and the pump's
  iterator; `pc`, `future`, `calls` the other threads, their promises and the
  number of their calls; `ran` a history of executed functions. The critical
  section of `RunMessagePump` spans the handlers, so `lock` is explicit; the
  others are single steps. `SetValue` and `Settle` are separate steps, as a
  caller may run between the moment the value is visible and the return of
  `set_value`. `SendMessage`'s loop for an empty queue (`SpinReturn`) is what
  makes this safe. `MainLoop` implements `MainThreadQueue`: what is pending is
  the list behind the iterator.
* `EngineRebuild` extends `MainLoop` with one function that stops and starts the
  recognition engine on the main thread, and with the recognition thread.
* `HttpServer` is the accept thread and its workers: `apc`, `cur`, `i` are the
  accept thread's place and local variables, `wpc`, `wsock`, `wstop` the workers,
  `sock` the life of the socket objects (`none`, `open`, `closed`, `deleted`).
  `dead` is the end of the process by an uncaught exception or by a null pointer.
* `Trigger` is the trigger thread and its callers: `queue` is
  `ASyncFunctionList`, `lists` the three lists, `list` and `it` the walk.
  `request`, `asked`, `gone`, `fires`, `late` are history. The closures of
  `ASyncFunctionList` are run one by one (`drain`), while `updatelock` keeps everybody
  else from appending. The elements that are not due are skipped in one step,
  since nobody else can see the walk.
* `WebTrigger` is the level above: `conf` and `firetime` are settings,
  `callbackList` is `CallbackList`, `queue` and `regs` what `Trigger` shows of
  itself: appends and removals are deferred, its thread carries them out one
  after the other, an entry fires once. What a reload registers is one closure,
  the callbacks of which share a number; `HasLive` says that a trigger has a
  registration, made or deferred, that no deferred removal will take away.
  `ReloadTrigger` is two steps, removal and registration, on
  any thread, also on the trigger thread inside a callback. A callback is a
  sequence of steps (`check`, `fire`, `after`, `next`), between which web workers
  may change the settings. `excused` remembers the triggers for which the code
  gives up the next firing (below, "Disagreements").
* `Schedule` has the times: `convertTriggerDate`, `convertTriggerDateWeekDay` and
  the stopper are operators, `Fire`, `Reload` and the clock actions. `Wanted` is
  the reference definition, from the meaning of the settings.
* `PlayQueue` is what a sound queue promises. `Speech` and `MusicPlayer` implement
  it: `waiting` is the queue, `playing` the thread's local task while it sounds,
  `played` the history. In `Speech`, `Lock` is held during synthesis and play, and
  is explicit; the callback of a script waits for the main thread.
* `Macro`: `settings` are the saved actions, `stack` the recursion of `run_macroE`
  (each element what its loop has left), `count` is `*nestcount`. `check_macroE`
  goes through the settings as they are before the save: `Counts` is its loop, a
  recursive function of the count so far and the entries that are left.
* `ConfigStore`: a file is a sequence of lines (settings, comments, lines without
  `=`, each with or without its line break). A save reads the old file one line per
  step (`KeepComment`, `DropLine`, `WriteLine`), appends what is left of
  `localSetting` (`WriteNew`) and copies the result; it holds the lock all the time,
  but the power may fail between any two steps. `Torns` are the files a power cut
  may leave.
* `CloudSync`: `lpc` and `upc` are the places of the polling and of the uploading
  thread; a version number stands for a content, and that of an image is its file
  time, by which the upload decides; `srv` is the server, external, which may
  refuse or lose any request. `todo` has the calls a handler makes one
  after the other.
* `SensorGraph`: `FileData` and `RecStartTime` as in the code, with the array
  three `RotateSpan` long, `log` what should be there.
* `DeviceLocks`: `updatelock`, the lock of `Sensor_Factory`, and the main thread
  seen through `MainThreadQueue`.
* `MultiRoom`: `own` is what a room is, `table` what each room knows, `snap` and
  `todo` what its thread is sending, `request` what a web worker waits for.
* `EchonetLite`: `net` is the set of all messages ever sent, by us or by a device
  (`from`), any of which may be received at any time, again, or never. `pick` are the local variables of
  `Pickup`, to which its callback refers; `lock` is that of `DoCallback`.
* `MCSound`, `MCSettings` and `MCDevices` put components that share no state side
  by side: `part` is chosen at the start, the chosen component runs and the
  others stay in an initial state, so that one run explores each of them by
  itself. Their properties are the conjunctions of those of the components,
  `part = "..." => ...`.
* `MainLoopProofs`, `HttpServerProofs`, `TriggerProofs`, `WebTriggerProofs`,
  `MultiRoomProofs`, `MCSoundProofs`, `MCDevicesProofs` and `MCSettingsProofs` hold the
  theorems. The other `MC*` modules and the `.cfg` files are the instances for TLC. Definitions whose comment begins with
  "Mutant of" are faulty variants of the definition they precede; no
  specification uses them, they show that a property notices the fault.

What the models rest on: mutexes exclude each other, condition variables may
wake up spuriously and lose a notification nobody waits for; reads of a flag
without a lock see the current value (the flags are single words, and the
models let them change between any two steps). `Shutdown(level, false)` and
`AsyncInvoke` belong to the public interface of `MainWindow` and are modelled,
though on Linux today's callers of `Shutdown` all force an `exit`, which ends the
process at once. `Httpd.Stop()` inside `OnDestory` is one of `HttpServer`'s
actions; the two modules are not joined.

## Runs

| Run | Instance | Result |
|---|---|---|
| `main_loop` | 2 threads, 2 calls each, levels 10 and 30 | all properties hold |
| `engine_rebuild` | the recognition thread, one web worker, 1 call each | `JuliusStopEnds` is violated |
| `http_pool` | 2 workers, 3 connections | all properties hold |
| `http_wakeup` | 1 worker, 2 connections | `PostedIsServed` is violated |
| `http_assert` | 1 worker, 2 connections | `WorkerHasSocket` is violated |
| `trigger_timers` | 2 callbacks: timeouts, intervals, dates; clock 0..3 | all properties hold |
| `trigger_sensors` | 2 callbacks: sensor conditions and dates; readings 0, 1 | all properties hold |
| `web_trigger` | 1 trigger and the sleep timer, 2 workers, 2 changes, 6 callbacks | all properties hold |
| `sound` | 2 texts, one with a callback, 1 rebuild; 3 files of up to 2 rounds, 1 client | all properties hold |
| `settings` | see below | all properties hold |
| `devices` | see below | all properties hold |
| `board` | 2 workers, the sensor thread, the main thread | `EveryoneReturns` holds |

*main_loop.* With two threads, messages of both can be in one turn of the pump,
and one can be pushed during the caller's wait for an empty queue; with two
calls a promise can be confused with the one before. `PromiseAlive` says that the
pump never touches the stack of a caller that has left, `PromiseSetOnce` that no
promise is satisfied twice, `SyncInvokeRan` that a caller's function was run before
it goes on, `RunInCallOrder` that no function is run twice or out of order,
`ExitLevelHonoured` that the early `return EXITCODE_LEVEL_NORMALEND` never hides
the level asked for, `SyncInvokeReturns` that no wake-up is lost.

*engine_rebuild.* `JuliusStop` joins the recognition thread from inside a handler;
the thread may be in `SyncInvoke`. Both wait for ever. The speech engines have the
same shape.

*http_pool.* With two workers and three connections the pool can be full and a
worker can be given a second connection. `SocketOwned` is about leaks, double use
and use after free, `PostFindsEmpty` about the assertion in `Post` and the
unlocked `isEmpty`, `AllClosedAtEnd` about the stop. *http_wakeup*, *http_assert*:
the wait in `WorkThreadMain` has no condition, so a notification may be lost (the
connection is never served) and a spurious wake-up is taken for work.

*trigger_timers*, *trigger_sensors.* Two callbacks are enough for one that removes
the other, or itself, while it runs; `MaxQueue = 2` lets a registration and its
removal meet in the queue, `BadTime` lies inside the range of the clock, and the
clock may jump forwards. `IteratorValid`: the walk's element is still there after
the callback. `RemovedForGood`: a deferred removal never overtakes its
registration. `AtMostOnceAfterRemove`: after `clearTimeout` at most the pass under
way fires the callback. `OneShot`, `NotTooEarly`, `DateIsFired`: once, in time, and
at all. A clock that is set backwards is not modelled: then a timer may fire
before the wall clock has come to the time its caller computed.

In `trigger_sensors` the bound on the clock is one second, so that the readings,
not the time, make the difference.

*web_trigger.* One trigger and the timer suffice for a callback that reloads its
own registration; two changes let one happen during each callback, and two
workers let two reloads overlap. `ElecTimerOnce`: the sleep timer is executed no
more often than it was set, though it may be registered several times.
`TimerKept`: a reload never loses it. `RepeatKept`: a repeating trigger that is
enabled has its next firing registered once all threads are at rest, whatever
was saved, deleted, reloaded or fired meanwhile, except for the two cases in
"Disagreements".

*sound.* `ImplementsPlayQueue` is the refinement of both queues. `DoneIsPlayed`:
the callback of a script comes after its text was spoken, and a file that is done
with had all its rounds. `AllIsPlayed`: what was accepted is played, though pushing
and notifying are two critical sections and the waits have no condition.
`EngineStops`: the destructor's join returns, unless the thread was just before
its wait or is in `SyncInvoke`. Two texts are enough for one that is pushed while
the other is spoken; the music player has a third, since its lock is free while it
plays.

*settings.*

| Part | Bounds | Property |
|---|---|---|
| `config` | 2 keys, one in the tree; 2 texts, with and without blanks; 2 threads (symmetric); 1 power cut; at first a file edited by hand, with a key twice, a comment and a line that is no setting | `SavedIsLoaded`: after a save, a load gives the map, and each setting has one line, unless the file was torn before. `CutLeavesOne`: at the first power cut, either `config.conf` is whole or the temporary file is |
| `macro` | 2 actions, macros of up to 2 entries, limit 3, depth 4, 1 edit while a macro runs | `AcceptedRuns`: a macro the check accepts is never stopped by the limit of `run_macroE`, which counts differently, nor does it nest deeper than the limit |
| `schedule` | days of 3 hours of 2 minutes of 2 seconds, weeks of 2 days, 2 days with a holiday, firing up to 1 second late | `FiredAsWanted`: every time the settings mean is fired, no other, and none twice, unless a reload overtakes one that is due |
| `graph` | array of 6 entries, clock up to 7, save every second round | `RecentKept`: each reading since the start of the record is found at its time, after a restart too, as far as the file goes |
| `rooms`, `pair` | 3 rooms with 2 changes, 2 rooms with 4; 2 versions of name and key | `RoomTables`: no room loses its own row, and a row is always something that room once was |

The depth bound of a macro lies above its limit, so that going deeper would be
seen; the array is passed by one entry, so that all three branches of `WriteData`
are taken; with three rooms a table can reach a room by way of another.

*devices.*

| Part | Bounds | Property |
|---|---|---|
| `cloud` | 1 client, 2 images, 2 accounts, 2 saves | `MirrorAfterFull`: a full upload without failure and without a change meanwhile leaves at the account it was made for just what is here |
| `board` | 2 workers | `CaptureAlone`: while a code is learnt on the main thread, nobody else uses the board |
| `echonet` | 1 device with 16 properties, the shortest list in the long form; 5 transaction numbers, 1 announcement with any number | `AnswersAreRight`: the callback never runs after its `Pickup` returned, it is known before an answer can come, it gets the value asked for, and lists of properties are decoded as the device meant them |

Five numbers are enough for the search, the three questions to a new device and
a value, or for two values in a row.

*board.* `EveryoneReturns`: whoever takes part gets the board and comes back,
unless a script on the main thread waits for it while a capture waits for the
main thread.

Deadlock is not checked where the program, or a bound on calls or on the clock,
lets everything stop; this is so in all runs but those of `Trigger`.

### Fairness

Threads are scheduled (weak fairness of the main thread, the accept thread, each
worker, the trigger thread). A caller in the middle of a call gets strong
fairness, as the pump may take the mutex again and again. In `http_wakeup` a
worker's connection ends, because of the five second timeout of its socket. In
`trigger_timers` time goes on and callbacks come back. No thread has to make a
call and no spurious wake-up has to happen.
In `sound` the speech and the music thread run, a sound ends, a mutex that becomes
free again and again is got in the end (strong fairness), the main thread
finishes the call it is in and comes to what is queued. In `board` the same holds
of the two locks and of the main thread's turn. Nothing is assumed of spurious
wake-ups, of clients or of users. The other parts are checked for safety only:
their waits without a condition do lose requests, as "Disagreements" tells.

## Proofs

TLAPS checks the following for every value of the constants, under the
assumptions named in the modules. Each is also a property of a run; the run shows
it on a small instance, and that its fault would be noticed.

| Module | Theorems | Properties |
|---|---|---|
| `MainLoopProofs` | `TypeCorrect`, `PromiseAliveThm`, `PromiseSetOnceThm`, `SyncInvokeRanThm`, `ExitLevelThm`, `RunInCallOrderThm`, `Refinement` | `TypeOK`, `PromiseAlive`, `PromiseSetOnce`, `SyncInvokeRan`, `ExitLevelHonoured`, `RunInCallOrder`, `ImplementsMainThreadQueue` |
| `HttpServerProofs` | `TypeCorrect`, `SocketOwnedThm`, `PostFindsEmptyThm`, `AllClosedAtEndThm` | `TypeOK`, `SocketOwned`, `PostFindsEmpty`, `AllClosedAtEnd` |
| `TriggerProofs` | `TypeCorrect`, `IteratorStaysValid`, `RemovedIsGone`, `RemovedFiresOnceAtMost`, `NeverTooEarly`, `OnlyIntervalsRepeat` | `TypeOK`, `IteratorValid`, `RemovedForGood`, `AtMostOnceAfterRemove`, `NotTooEarly`, `OneShot` |
| `WebTriggerProofs` | `TypeCorrect`, `TimerRunsOnce`, `TimerIsKept`, `RepeatIsKept` | `TypeOK`, `ElecTimerOnce`, `TimerKept`, `RepeatKept` |
| `MCSoundProofs` | `TypeCorrect`, `DoneIsPlayedThm`, `Refinement` | `TypeOK`, `DoneIsPlayed`, `ImplementsPlayQueue` |
| `MCDevicesProofs` | `TypeCorrect`, `FullUploadMirrors`, `CaptureIsAlone`, `AnswersReachTheirCall` | `TypeOK`, `MirrorAfterFull`, `CaptureAlone`, `AnswersAreRight` |
| `MCSettingsProofs` | `TypesHold`, `SavesAreLoaded`, `FirstCutLeavesOne`, `AcceptedMacrosRun`, `FiresAsSet`, `ReadingsAreFound`, `RoomTablesThm` | `TypeOK`, `SavedIsLoaded`, `CutLeavesOne`, `AcceptedRuns`, `FiredAsWanted`, `RecentKept`, `RoomTables` |

`MultiRoomProofs` proves `RowsAreKept` of `MultiRoom` by itself; `MCSettingsProofs`
cites its lemmas for both instances. So every invariant that a run checks, and the
action properties and refinements, are proved; what is left to TLC is liveness.

### Assumptions

* The main thread, "no one", the sensor thread, NULL, the sleep timer and "no
  task" are none of the threads, sockets, triggers, texts they are told from.
* There is at least one worker; the levels are those of `EXITCODE_LEVEL`; the
  counts and bounds are numbers. Intervals are of at least a second, dates lie
  within the clock, whose bound is behind `BadTime` (`TimeAssumption`).
* `DevicesAssumption`, `PropertiesAssumption`, `TidAssumption`, `TidsAssumption`:
  there are finitely many devices with properties 80 to FF, and the bound on the transaction numbers leaves three for each device and is below
  2^16. So the theorem is about the first 65535 numbers; the number after that is
  0 again, and a very late answer to an old request would then fit a new one.
* `RecordAssumption`, `RoomAssumption`: the array and its entries are not empty, the
  sensor thread saves after some number of rounds, a room has a first version, and
  the bounds are numbers.
* `FilesAssumption`: a file edited by hand is a sequence of lines that all end with a
  line break (see "Disagreements" for one that does not).
* `MacroAssumption`: a macro has fewer entries than the limit on calls (9 and 30 in
  the program). Without it the theorem is false: `run_macroE` starts the macro of a
  trigger with a count of one, which the check does not know of.
* `CalendarAssumption`: there are hours, minutes and seconds, the repetition is a
  number of hours, and `Trigger` fires within the minute it was told. It looks once
  a second, between callbacks; one that keeps it for longer than a minute is not
  covered (the day of the week is then looked up at the late time).

### Inductive invariants

None of the properties is inductive. Each invariant was a TLC invariant of a run
before it was proved, those of `MCSettingsProofs` excepted, and there is one lemma
per action or group of actions.

* The pump: `Lock` is held exactly from the first handler to the clearing of the
  list (`LockInv`); the iterator is inside the list (`IterInv`); a message that
  still has its promise is the current call of its sender, who is inside
  `SendMessage`, and its promise is unset unless it is being left (`PromiseInv`); a
  sender has at most one such message (`OnePromise`, without which setting one
  promise could satisfy another); a value that is set stands for a function in the
  history (`RanInv`); once the flag is up the main thread is inside the pump or at
  the loop's test (`StopInv`, why the early return is never taken with a level
  pending); a call in progress has a number (`CallInv`). `RunInCallOrder` needs
  `OrderInv` besides: the numbers in the history, and those of the messages behind
  the iterator, rise for each thread, and no number of a call is known before it
  is pushed. For the refinement each step is mapped to one of `MainThreadQueue`.
* The web server: which states of the accept thread own a socket (`AcceptInv`),
  which states of a worker do (`WorkerInv`), that owners are unique and hold live
  objects (`OwnerInv`), and how far the two stop loops have got (`StopInv`).
* Triggers: the place of the thread (`ThreadInv`); a callback is in one place only,
  in a list or in a closure (`UniqueInv`), and nowhere before it is registered
  (`FreshInv`); a removal that was asked for is carried out or queued, behind the
  registration it is about (`RemoveInv`); one that was fired after its removal was
  asked for is not ahead of the iterator (`LateInv`); no fire time is before the one
  asked for, neither in a list nor in a closure (`FromInv`); what has been fired
  once is erased or marked, in its own list (`OnceInv`).
* Settings of triggers: `KeptInv` divides the care for a trigger over the threads:
  whatever is to be registered has a live registration, or some thread is between
  the halves of `ReloadTrigger`, or its own callback has yet to register the next
  firing. `TimerInv` counts executions of the sleep timer against its settings.
  `QueueInv`, `StepInv` say what the closures and the thread's place are about.
* Sound: where the speech thread has a text (`SpeechTask`) and that the text is
  spoken before its callback is due (`SpeechDone`); a file is in one place
  (`MusicPlaces`), and has been played as often as that place says (`MusicCounts`).
* Cloud: the server never has an image newer than the one here, since a newer file
  time is what makes the program replace it (`ImagesNotNewer`); what an upload in
  which nothing failed or changed has made equal so far, at each of its stages
  (`UploadedSoFar`).
* Board: who is on the board holds `updatelock` (`BoardHeld`); the queue of the main
  thread has at most the one worker that holds it (`BoardQueue`).
* ECHONET Lite: the numbers suffice (`TidsLeft`); a message other than an
  announcement has a number that was used, so the next one is new (`NetInv`);
  everything with the number of a `Pickup` is about what it asked for (`TidInv`); the
  callback in `TidWatch` is that of the `Pickup` under way, or is about to be erased by
  the receiver, who holds the lock (`WatchInv`); the list of 16 properties and more is
  decoded for any set of properties by arithmetic on its bits.
* Rooms: tables travel while rooms change, so tables being sent and in answers hold
  real rows too (`AllReal`); a table that is sent to a room has that room's row
  (`SentHasRow`), why replacing a table never loses it; no room is asked to delete
  itself (`DeletesOthers`). The types need one fact more: a room never sends its
  table to itself (`RoomBounds`).
* Settings: as long as there was no power cut, all files are ended, and the file
  being written is `Merged` with the map as far as the save has come: a setting that
  is crossed off `localSetting` has just one line, with its value, and one that is
  not, or was removed, has none (`ConfigInv`). At the end nothing is left to be crossed
  off, and `MergedIsLoaded` reads the map back. `CutLeavesOne` follows without more:
  during the writing `config.conf` is untouched, during the copy the other file is
  complete.
* Macros: `check_macroE` and `run_macroE` both walk the settings, but count at
  different moments, one before and the other after an entry. `CheckAhead` relates
  them at any moment of a run nobody edits: for each frame of the stack there is a count
  that the check had when it came to the entry the frame is at, from which it
  passes all that the frame has left (`Chain`), and the count of the innermost one is
  ahead of `nestcount` by the depth of the stack (`Covers`, `Reached`). An accepted
  macro thus ends before the limit, and the check has counted two for each frame,
  why it does not nest deeper. That `Counts` has the value its definition says
  (`CountsEquation`) is proved as well: `FixedPoint` shows, from the well-foundedness
  of the natural numbers, that a recursive function whose argument descends in some
  rank has a solution, with the sets and functions of the recursion as ordinary
  values; `CheckRank` is that rank for the check.
* Sensor record: the entries in the file agree with what had been read when it was
  saved (`FileKept`); a restart is right as far as the file goes because of it.
* Calendar: times are split into day, hour, minute and second for any lengths of
  these (`EveryTime`, `PartsOfAt`, `TimeOrder`). `NextIsFirst` is the heart:
  `convertTriggerDate` gives the first time after now that the settings name on any
  day. `ScheduleInv` adds that what is registered is such a time, that the clock is
  within its minute or before it, and that all wanted times before it were fired or
  overtaken. `NextWithinDay` bounds the next time: a day before it is a time that is
  named too.

### Only model-checked

* Liveness under fairness (`SyncInvokeReturns`, `DateIsFired`, `AllIsPlayed`,
  `EngineStops`, `EveryoneReturns`), which this prover does not reach, and the three
  runs that expect a violation.
* That the bounds of the instances are large enough for every case to occur, which
  the coverage of the runs and the mutants show.

## Disagreements met while modelling

Three are runs that expect a violation, with a finding each in `PROJECT.json`:
`engine_rebuild`, `http_wakeup`, `http_assert`. The following were met on the way.
The models follow the code; where a property had to make an exception, it is named.
Paths are under `src/naichichi2/`.

* Macros. `Fire.cpp:15` limits the calls of macros against circular references.
  The count goes up after an entry has returned (450), so that a macro whose
  first entry leads back to itself recurses without counting; the check on saving
  (`ScriptWebRunner.cpp:836`) sees the settings before the save. `AcceptedRuns`
  speaks of macros that the check accepts with the settings they run with.
* Triggers. A repeating trigger whose macro sets the sleep timer reloads all
  triggers inside its callback (`Fire.cpp:206`) and then registers its next firing
  once more (`ScriptWebRunnerTrigger.cpp:216`): it fires twice until the next
  reload. A weather script that fails throws (407, 518) past "定期実行するならば次の仕込みをする"
  (208): the trigger is enabled and never fires again. The switch on the page
  (`ScriptWebRunner.cpp:2215`) does not reload, so a trigger that is switched on
  does not fire. `RepeatKept` excepts the last two (`excused`).
* The stopper of a trigger, "前回発動からN分離れていること" (351), compares the last firing
  with a time in the future (357) and holds nothing back. `Schedule` models it so.
* Speech. The destructor sets `StopFlag` and notifies without `Lock`
  (`Speak_OpenJTalk.cpp:36`); between the thread's test and its wait the
  notification is lost. It joins a thread that may be in `SyncInvoke` (40, 163).
  `EngineStops` excepts both. `RemoveCallback` only takes the lock (222): a text that
  is queued keeps its callback, against `Speak_Factory.cpp:134`.
* Board. Capture holds `updatelock` in `SyncInvoke` (`CapeBord_IRR.cpp:76`); a script
  on the main thread that transmits or reads a sensor then waits for ever, against
  "スレッドセーフ" at `Sensor_Factory.cpp:215`. `EveryoneReturns` excepts it.
* Cloud. An answer that was under way when synchronisation was forbidden sets
  `isSync` (`ColudSyncPooling.cpp:225`), and polling goes on. `SyncJoin` (141) returns
  after an upload with the link of the former account. A change during an upload
  finds nobody waiting (`ColudSyncConfig.cpp:87`). A request for the settings
  overwrites one for everything (70).
* Sensor record. After a gap of more than the array the start is not moved and
  the reading goes past the array (`SensorGraph.cpp:48-63`; the model drops it).
  Half of the record is saved and loaded (162, 195); `RecentKept` speaks of that
  half after a restart. When the record begins anew, `SpanSec * 3` entries are made
  invalid and not `RotateSpan * 3` (37). The average of an interval reads its first
  entry each time (94).
* Settings. A last line without a line break, left by a power cut or an editor, is
  joined with the first setting a save adds (`Config.cpp:114-158`). `SavedIsLoaded`
  speaks of files that were not torn. After a first power cut during the copy, a
  second one may find neither file whole: the save in between reads the torn file,
  and what it prints after its last line becomes part of that line. `CutLeavesOne`
  speaks of the first.
* MultiRoom. A room added through another is refused by a third that does not know
  it (`ScriptWebRunner.cpp:4467`), and nobody tells the third. A key changed while the
  table is being sent is not told (`MultiRoom.cpp:65`).
* ECHONET Lite. A notification that carries the number of a request is taken for
  its answer (`EcoNetLiteServer.cpp:643`); `AnswersAreRight` excepts it. A value of one
  byte is decoded as a list (154) and comes out empty. A name made from an address
  finds nothing once the identification has come (510).
* Volume. `NowSpeakerVolume` is never updated (`VolumeControll.cpp:80`), so that a
  change back to its first value is taken for no change. Background music: a
  `Stop` between the reading of the command and the start of the player finds no
  player (`BackgroundMusic.cpp:87-149`), and the music begins afterwards.

## Where it could go on

All invariants, action properties and refinements that the runs check are proved;
liveness is out of the prover's reach. What the models themselves could gain is
named under "Not modelled", and in the notes of the hazards without a property.

## Not modelled

* The vendored libraries (julius, openjtalk, v8, openssl, festival, ...), which are
  over two million of the repository's lines; the program's own code is some tens
  of thousands, most of which builds HTML and JSON or wraps a library.
* Recognition rules and scoring, speech synthesis, scraping of web pages: functions
  of audio and text without state that another thread sees.
* Script bindings and web pages: the handlers that change state are actions of the
  modules above; the rest reads settings and builds text.
* Volume (two numbers and a comparison of times of day) and background music (its
  state is the list of processes of the operating system).
* HomeKit and UPnP (adapters to a library and to a protocol), the SIP server
  (compiled out), the Windows build, string and file helpers other than `chop`.
* Ends of threads that only happen when the process ends: on Linux it ends by
  `exit`, without destructors that join.
