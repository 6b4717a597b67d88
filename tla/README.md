# A verification of open-meeting

open-meeting bridges two video meetings: a *session* puts one browser into a source
meeting and one into a target meeting and cross-connects their sound and picture. A
Go **control plane** takes sessions over HTTP and places them on TypeScript
**workers** over gRPC. This directory holds TLA+ models of both, the TLC
configurations that check them on small instances, and theorems about them that
TLAPS proves for every instance. Paths below are relative to the repository;
`项目设计文档.md` is the design document.

    tlasany M.tla                                # parse
    tlc -config resources_exclusive.cfg MCResources.tla   # check one configuration
    tlapm ResourceProofs.tla                     # check the proofs of a module

## 1. Inventory

### Parts, their state and their operations

| Part | Code | State | Operations |
|:--|:--|:--|:--|
| Session orchestrator | `orchestrator/session-orchestrator.ts` | snapshot status, `stopped`, `reconnecting`, the monitor, what the attempt holds | `start`, `stop`, `requestReconnect`/`handleReconnect`, `establishBridge`, `teardownCurrentAttempt`, `failSession` |
| Health monitor | `health-monitor/session-health-monitor.ts` | one interval timer | `start`, `stop`, `tick` |
| Resource manager | `resources/session-resource-manager.ts`, `utils/process.ts` | marked display numbers and cameras, reservations, Xvfb processes | `allocate`, `release`, `terminateProcess` |
| Browser agents | `agents/*.ts` | browser, context, page | `init`, `joinMeeting`, `keepAlive`, `isAlive`, `hasMeetingEnded`, `cleanup` |
| Audio and video managers | `pipeline/*.ts` | PulseAudio module ids, ffmpeg processes per session | `configure`, `isHealthy`, `teardown` |
| Worker runtime, gRPC service | `runtime/worker-runtime.ts`, `grpc/server.ts` | sessions by id, LRU of the last snapshots | `startSession`, `stopSession`, `getSessionStatus`, `heartbeat`, `shutdown` |
| Worker process | `main.ts` | `shuttingDown` | start, SIGTERM/SIGINT |
| Control plane client | `control-plane/client.ts` | `registered`, timer | `register`, `sendHeartbeat` |
| Node registry, scheduler | `internal/node-registry`, `internal/scheduler` | nodes with counts and last heartbeats | `Register`, `Heartbeat`, `IsOnline`, `SelectNode` |
| Session API and store | `cmd/server/main.go`, `internal/sessionstore` | a record per session | POST, GET, DELETE `/v1/sessions`, `UpdateStatus` |
| gRPC client | `internal/workerclient/client.go` | none between calls | `StartSession`, `StopSession`, `GetSessionStatus` |
| Others | fingerprints, proxies, platform table, webhook check, logger, CLI, containers | none that the rest depends on | - |

### How they interact

A POST picks a node from the registry, writes a record `CREATED` and calls
`StartSession` with a deadline of 20 s. The worker's runtime makes an orchestrator
and awaits its `start()`, which allocates displays, loads sound modules, starts two
ffmpeg and two browsers and joins both meetings. The health monitor then checks the
bridge at an interval and calls back into the orchestrator: `onReconnect` when a
part has failed, `onMeetingEnded` when a meeting is over. The orchestrator calls
back into the runtime once, `onTerminal`, at its end. GET and DELETE read the
record, call the worker and write what it says. Each worker sends a heartbeat every
30 s, and registers again when the registry does not know it.

### What is hard here

- A worker is one JavaScript thread, so code between two awaits of I/O is atomic and
  nothing else is: `start()`, a reconnect, `stop()` and health checks of *one*
  session interleave at some twenty awaits, and so do the `allocate()` and
  `release()` of all sessions on one pool.
- Health checks overlap: the interval does not wait for the tick before.
- Partial failure: one of two browsers fails to launch, one of two Xvfb, one call of
  a teardown; a process dies by itself; a page dies under a pending call.
- The two sides of a gRPC call may disagree about its outcome, the two sides of a
  heartbeat too; either process may start again with empty memory.
- Handlers of the control plane read, await the worker, and write: last writer wins.

### What makes each part correct

- *Resources*: a display number or camera is never with two sessions; what is taken
  is given back; `allocate` and `release` come back.
- *Audio and video*: what was loaded or started for a session is unloaded and
  stopped; two ffmpeg never write into one camera; a lost module or forwarder is
  noticed.
- *Orchestrator*: `BRIDGING` means a whole bridge; one builder at a time; at most
  `maxReconnectAttempts` attempts; every connect and reconnect settles; the end is
  reported once; nothing is left behind.
- *Runtime*: an id is known in one place; a session that lives can be found and
  stopped; what was told to be over stays over; shutdown ends.
- *API and store*: a record that is over means a bridge that is over; the end of a
  session reaches its record.
- *Registry*: a worker whose heartbeats arrive stays schedulable, one that runs
  becomes so again, and the counts the scheduler compares catch up.

`PROJECT.json` lists the hazards line by line, with the properties that would notice.

## 2. The models

An action is what the code does between two awaits of I/O, with everything it calls
in that stretch. Names follow the source; a comment names the method. Operators
marked *Mutant* are the same stretch with a plausible bug; `Next` does not use them.

### `SessionResourceManager` (`MCResources`)
All sessions of one worker on one pool. `alloc[s]` is the await that `allocate(s)`
has reached (an Xvfb of either side, or `access()` on a camera); `rel[s][c]` is the
process whose close the release called by `c` awaits. `ReleaseLoop` is
`releaseReservation()` from one side on, shared by `release()` and by the `catch` of
`allocate()`, as in the code. Xvfb processes boot, serve, exit, crash, obey SIGTERM,
leave lock files, and may be left behind by a start that timed out (`orphans`).
`Callers` are the teardowns of one session that may overlap; when a caller may call
is the contract `MayAllocate`, which `SessionOnPool` shows the orchestrator to keep.

### `SessionOrchestrator` (`MCOrchestrator`) and `SessionLifecycle`
One session. `pc` holds three activities (`start`, `reconnect`, `stop`), `tick` the
health checks under way, `tasks` what each teardown has captured and not yet
released, `held` and `agent` the parts of the bridge. An agent has one reference to a
browser. When one of the two `init()` rejects, the other goes on although nobody
awaits it (`late`), and when it succeeds it overwrites the reference
(`base-agent.ts:91-98`, `Refers`): if that named the browser of a later attempt, no
teardown will ever close it (`leaked`). `outlived` remembers the agents to which this
may happen, `Slow` bounds them. `SignalEnds` is a signal that somebody else sends to an
Xvfb or an ffmpeg: its close event is past and its `exitCode` null, so
`terminateProcess()` (`process.ts:68-88`) waits for it without end, and with it the
teardown (`TaskDone`) or the `catch` of `allocate()` (`CatchHangs`).

`SessionLifecycle` is the abstract specification, the state machine of section 7.4 of
the design document with its liveness: a session that connects or reconnects settles,
after at most `MaxAttempts` attempts, and its end is reported once. A session that a
foreign signal has hit may be `cut` off: the abstract session then need not settle or
report, but does nothing it could not do otherwise. `Lifecycle` in
`SessionOrchestrator` is the refinement mapping.

### `SessionOnPool` (`MCSessionOnPool`)
The composition of the two: the orchestrator of one session (`Own`) on the pool it
shares with others. `SessionOrchestrator` leaves open how `allocate()` and
`release()` end, `SessionResourceManager` when they are called; here each is the
other's environment. (Of foreign signals only those to an Xvfb matter here; they are
the pool's `XvfbCrashes`, and `SignalEnds` is no step of this module.) A step that begins an attempt is `allocate()` up to its first
await in the same step, a step that begins a teardown is `release()` up to its first
await, and when `allocate()` returns or throws, the builder that awaits it goes on at
once. No action is restated; the module only says which steps happen together.

### `MediaPipeline` (`MCMedia`)
`AudioManager` and `VideoManager` of one session, module by module and process by
process. `moduleIds` is the local array of `configure()`, `modulesBySession` the entry
made at its end, `pulse` what PulseAudio has loaded; `unloading[c]` is the copy a
teardown walks over and `closing[c]` the ffmpeg whose close it awaits. The callers
(the builder with its attempts, `stop()`, the health check with its stale answer) are
reduced to what they do with the media. `abandoned` remembers the modules of a
`configure()` that threw: the code forgets them (`audio-manager.ts:22-49`).

### `WorkerRuntime` (`MCRuntime`) and `SessionWorker`
The map of sessions, the LRU of recent snapshots, the gRPC calls and the shutdown of
one worker. An orchestrator is a pair of an id and how often the id was started
before, since the code deletes by id. Builds and teardowns are one step each here,
and may never come back in an orchestrator that is not `Returning`, the ones of whose
Xvfb and ffmpeg processes no foreign signal ends one.

`SessionWorker` is the abstract specification: what a worker tells of each session
(`told`), whether its bridge stands, whether it is being stopped, and nothing of maps
or snapshots. `WorkerRuntime` implements it (`ServesSessions`); the mapping reads
`told` off the map first and the snapshots next, as `getSessionStatus()` does.

### `ControlPlane` (`MCControlPlane`)
POST, GET and DELETE with a `SessionWorker` behind them, so that what is checked here
rests on what `WorkerRuntime` was shown to do. A handler is at one of three points:
call sent, served (or waiting for `stop()`), answered. `CallFails` and `CreateFails`
are enabled at each of them, so that an error may mean "not arrived", "is being
served" or "served". Both processes may start again.

### `NodeRegistry` (`MCRegistry`)
Registry, scheduler and the client of each worker, in heartbeat intervals. A lost
call may be lost before or after it was served. Deliveries that outlive the client's
timeout are not modelled.

### How the modules fit together

    ControlPlane --uses--> SessionWorker <--implements-- WorkerRuntime
    SessionOnPool = SessionOrchestrator + SessionResourceManager
    SessionOrchestrator --implements--> SessionLifecycle

What is left to contracts: that the builds and teardowns of a session come back *when
no foreign signal ends one of its processes* is what `KeepsLifecycle`, `StopCompletes`
and `TeardownCompletes` check and what the runtime assumes, of its `Returning`
orchestrators only; `SessionOrchestrator` sees the media as held or not and healthy or
not, with the promises of `MediaPipeline`.

## 3. The configurations

| Configuration | Instance | States | Shows |
|:--|:--|--:|:--|
| `resources_exclusive` | 3 sessions (2 real, a dry run; one real and the dry run with video) on 3 displays and 2 cameras, dying servers | 1 255 717 | `TypeOK` `DisplayExclusive` `UsedIsTaken` `XvfbReaped` |
| `resources_video` | 2 real sessions (up to their exchange) and a dry run, all with video, on 4 displays and 2 cameras | 827 314 | `DevicesReturned` `NoDisplayLeak` |
| `session_on_pool` | a session with 1 reconnect attempt beside a dry run, 3 displays, crashing servers, launches of the target that outlive their attempt, one check at a time | 99 999 | `AllocatesAfresh` `BridgeHasDisplays` `NeighboursKeepDisplays` `PoolForgets` `AllocateSettles` `StopCompletes` |
| `orchestrator_safety` | 2 attempts, audio and video, 2 overlapping checks, launches of the source that outlive their attempt, foreign signals | 1 572 073 | `TypeOK` `BridgeIsWhole` `OneBuilder` `MonitorWatchesLiveBridge` `CleanEnd` `TerminalStays` |
| `orchestrator_fair` | 2 attempts, audio, one check at a time, late launches of the target, foreign signals | 72 275 | `KeepsLifecycle` (refinement) `DeathNoticed` |
| `media` | 2 `configure()` calls, processes that exit or are killed, a PulseAudio that starts again | 127 456 | `TypeOK` `ModulesKnown` `MediaReleased` `OneWriter` `LossNoticed` `TeardownCompletes` |
| `runtime` | 2 ids, one started twice, 1 snapshot; the teardown of the other may not return | 121 269 | `TypeOK` `OnePlace` `Reachable` `ServesSessions` (refinement) `AnswersSettle` `StopSettles` `ShutdownEnds` |
| `control_plane` | 1 session, 2 handlers | 89 528 | `TypeOK` `EndIsReal` `StoreCatchesUp` |
| `registry` | 2 workers, stale after 2 intervals, 1 restart of the control plane | 24 362 | `TypeOK` `Schedulable` `Rejoins` `CountCatchesUp` |

Three more configurations check one statement of the documentation each, and TLC
finds it violated:

| Configuration | Statement | What happens |
|:--|:--|:--|
| `session_displays` | `DisplaysReady`: the session's X servers answer before its browsers start (README.md:150) | a number is free before its Xvfb has gone; the next session finds that server's lock file and launches its browsers while its own server boots |
| `orchestrator_worker` | `WorkerSurvives`: a crash stays in its session (design document, line 49) | a page dies under `keepAlive()`, the rejection of `tick()` has no handler and the process ends |
| `control_plane_delete` | `DeleteStops`: DELETE stops the session (README.md:108) | `StartSession` times out, the record says `FAILED`, DELETE answers 200 from the record, the bridge stands |

The properties that hold say when they hold. `EndIsReal` excludes a POST whose call
failed on this side only (`lost`). `TerminalStays`, `CleanEnd`, `PoolForgets`,
`NeighboursKeepDisplays` and `MediaReleased` exclude `interrupted` sessions, whose
`stop()` came while `start()` or a reconnect worked; in those,

- `TERMINATED` is followed by `FAILED` (the start fails on what was torn down) or
  even by `BRIDGING` (the builder was past its only look at `stopped`,
  `session-orchestrator.ts:113`), and a bridge may stay that nobody owns;
- two teardowns release one reservation, and the second frees a number that may have
  a new owner (`session-resource-manager.ts:88`), which a third session then gets too.

`CleanEnd` moreover leaves out the browsers of an agent a launch of which outlived its
attempt: such a launch may leave its own browser, or push out that of a later attempt.
Every other browser is gone, whether open, dead or replaced. `PoolForgets` speaks of the
numbers that a session claims and the X servers that its reservation recorded; the
number that an exhausted `allocate()` loses and a server whose start timed out (of
which there is none in that run, `MaxOrphans = 0`) are left out of it.
`NoDisplayLeak` says that such an `allocate()` (`session-resource-manager.ts:41-42`) is
the only step that loses a number.

The liveness properties exempt what a foreign signal to an Xvfb or ffmpeg holds up.
`terminateProcess()` never returns for such a process, so the session stays
`RECONNECTING` or `TERMINATING` and reports no end (`KeepsLifecycle`), its teardown stays
in the pool and the media managers (`StopCompletes`, `TeardownCompletes`), the session
may stay in the map (`StopSettles`), and a shutdown that awaits it does not end
(`ShutdownEnds`). Of all other sessions they say that they settle, whatever happens to
those.

Cameras are not exclusive, and no property says so: two sessions may select the same
pair before either marks it (`session-resource-manager.ts:118` and `:137`), and the
release of a dry run unmarks the pair of a real session (`:191`). What is checked is
that no mark stays behind.

### Why these bounds
- Three displays for sessions that want two each meet exhaustion, the loss of the
  first number when the second is missing, and reuse; four let two sessions stand, one
  with the only cameras. Two cameras are one pair. One orphan suffices for a later
  session to find its lock file.
- Two attempts have a first, a next and a last one; two overlapping checks have one
  that is stale. More checks repeat the same overlap. Agents, media and activities
  are those of the code. Launches outlive their attempt for one agent (`Slow`), the
  source in `orchestrator_safety` and the target in the other runs: the other agent is
  the one that fails, and what `CleanEnd` says of each agent is seen both with and
  without such a launch beside it.
- On the pool one reconnect attempt gives two allocations of the session, with
  teardowns between and after; three displays make it and its neighbour compete for
  the second one. Of the neighbour only its numbers matter, so it is a dry run.
- Two `configure()` calls give the media a first attempt, a stale entry and a next
  attempt; eight module ids are what they can load.
- A snapshot limit of one is at its limit at once; an id started twice is the least
  that lets stale calls meet a new session. `Patient` keeps the second start until
  the first session's work is done; the impatient case is in the plan.
- Sessions of the control plane share nothing but the store's lock, so one is enough;
  two handlers give every stale read.
- Two workers make the scheduler choose; a worker goes stale after two intervals,
  and any number of its calls may be lost (beats are counted up to one more than it
  takes to go stale, the difference that `Schedulable` can tell).

### Fairness
- Timers fire and awaits come back: Playwright, pactl and `access()` answer or
  reject, waits are bounded by timers, an Xvfb obeys SIGTERM (`WF` of each such
  step). Nothing is assumed to succeed, and no caller is assumed to call.
- A wait for the close of a process that a foreign signal has ended is not assumed to
  end, as it does not in the code: it is the guard of `TaskDone` and `CatchHangs` in
  `SessionOrchestrator`, a step that is never enabled in `SessionResourceManager` and
  `MediaPipeline`, and no fairness of the orchestrators outside `Returning` in
  `WorkerRuntime`. In `runtime` that is the session of the second id, so that a shutdown
  that awaits it may wait for ever, and one that does not must end.
- A page that closes is not held open by mouse moves of later and later checks
  (`SF` of `Teardown`).
- `SessionOnPool` replaces the orchestrator's assumptions on `allocate()` and
  `release()` by those on the pool's own steps; the others stay.
- pactl answers, and ffmpeg obeys SIGTERM. It must be assumed of both kinds of
  process: `kill()` sets `killed`, so the SIGKILL of `process.ts:77` is never sent.
- The runtime assumes of its `Returning` sessions that a build and a teardown come
  back. `orchestrator_fair`, `session_on_pool` and `media` check that they do, under the
  assumptions above on browsers, commands and processes.
- `StoreCatchesUp` is about a client that polls: its GET is served again and again
  and not every call fails (`SF`). Without polling nothing refreshes a record.
- A worker's beat goes on (`WF` of `Step`), and a call that is made again and again is
  some time served and answered (`SF` of `RegisterServed`, `Registered` and
  `HeartbeatServed`). It takes all three: losing every second call can, in the code
  too, register a busy worker with zero sessions for ever, as each registration
  resets the count.

`CHECK_DEADLOCK FALSE` is set everywhere: a session, a worker or an instance
whose bounds are used up has nothing more to do.

## 4. The proofs

Every invariant that a passing run checks is a theorem, for every value of the
constants, and so are the action properties and the steps of the refinements. The
assumptions are the named `ASSUME`s of the modules: option types, a pool of positive
numbers, at least one attempt, limits that are not zero. Two theorems have a premise
of their own, `OneCaller` and `Patient`, discussed below. In each module the proof of
a step has one case per action.

### `ResourceProofs`, about `SessionResourceManager`
For every pool, number of sessions and devices, with crashes.

- `TypeCorrect`: `TypeOK`, for any number of overlapping teardowns. `TypeOK` alone is
  not inductive: that `display[s][i]` is a number of the pool when a stale lock or
  orphan is made from it needs `HasDisplays`, and that an allocation runs alone needs
  `AllocatesAlone`. `TypeInv` is the three together.
- `NoLeak` and `Returned`: `NoDisplayLeak` and `DevicesReturned`, from `TypeInv` alone.
  No step but `AllocateExhausted` makes a number marked that nobody has.
  A camera is marked by `DevicesPresent` and unmarked by `Release`, and no other
  action takes one from its holder, however many releases overlap.
- `Exclusive` and `UsedTaken`: `DisplayExclusive` and `UsedIsTaken` under `OneCaller`,
  one teardown of a session at a time. The two are proved together, as
  `ExclusiveInv`: numbers are handed out from the unmarked ones, so exclusiveness
  needs that used ones are marked, and releasing keeps used ones marked only if
  nobody else has them. `Phases` says which calls of a session exclude each other.
- `Reaped`: `XvfbReaped` under `OneCaller`. `ReapedInv` adds to `ExclusiveInv` that a
  session with nothing under way has no process in its record (`NothingLeft`), that
  only a release sends SIGTERM (`KilledByRelease`), and that the release that awaits
  one side has seen the sides before it stop (`StopsInOrder`).
- `OneCaller` cannot be dropped: with two overlapping teardowns the second frees a
  number that may have a new owner. The steps are proved from what it is needed for,
  `OneAtATime` in a state and no `Overlaps` in a step, so that `PoolProofs` can use
  them where the teardowns *could* overlap and do not.

### `OrchestratorProofs`, about `SessionOrchestrator`
For every number of attempts and overlapping checks, with or without audio and video.

- `TypeCorrect`, `BridgeWhole`, `SingleBuilder`, `MonitorLive`: `TypeOK`,
  `BridgeIsWhole`, `OneBuilder` and `MonitorWatchesLiveBridge`, all from one
  inductive invariant `IInv`:
  `StartFirst` (nothing begins before `start()` is over), `StopReasons` (what only a
  stopped session does), `CounterReset` (why the counter never passes its limit),
  `QuietIsLive` (not stopped and nobody builds = `BRIDGING` = monitored),
  `NothingTornDown` (no teardown beside a builder) and `Acquired` (what a builder
  holds by each of its awaits). `BridgeIsWhole` says nothing of a session that is
  still building, so it is not inductive; `Acquired` carries it from await to await.
- `EndsClean` and `TerminalFinal`: `CleanEnd` and `TerminalStays`. `EInv` adds to
  `IInv` that only a teardown under way has tasks (`TasksInTeardown`), what a session
  nobody stopped looks like (`Underway`), and, for one that is over and was not
  interrupted, that nobody builds and that whatever was acquired is in the list of a
  teardown or gone (`Ending`). A browser can be lost without a trace in `agent` when
  `init()` overwrites a reference, so `CleanEnd` needs more: `LInv` adds that an agent
  none of whose launches outlived its attempt refers to nothing when it gets a browser
  (`Fresh`), which the teardown before an attempt ensures by listing all that is there
  (`TornDown`), and two facts about the refinement's `cut` (`SignalsHeld`, `Unbegun`).
- `KeepsLifecycleSafe`: every step is one of `SessionLifecycle` or a stutter. Where
  the builders are determines the phase (`PhaseIs`), so each action maps to `Begin`,
  `Connected`, `Break`, ... by the phases before and after it. A session that is `cut`
  off makes no attempt and does not give up, since its teardown still lists what was
  signalled (`SignalsHeld`, `TornDown`). This is `KeepsLifecycle` without its fairness.

### `PoolProofs`, about `SessionOnPool`
For any number of neighbours, any pool, attempts and checks. The theorems about the
two parts are instantiated and used as they stand; what is proved here is what links
the parts.

- `SessionIsOrchestrator` and `PoolIsResourceManager`: every behaviour of the
  composition is one of each of its parts.
- `KeepsContract`, `BridgeOnDisplays`, `NeighboursSafe`, `Forgets`: the four
  invariants of `session_on_pool`, from `PoolInv`. `Linked` relates what the
  orchestrator holds to what the pool has reserved: `HeldIsReserved`,
  `ReleaseAwaited` (a teardown lists the displays as long as its `release()` runs),
  `AllocateAwaited` and `Fresh` (a builder that is about to allocate holds nothing and
  nobody releases for it), `GivenBack`, and `OneTeardown`, which an interrupting
  `stop()` breaks. From it follows that the session's releases do not overlap
  although the orchestrator has three places that call them, which is what `OneCaller`
  took on trust: `PoolKept` is `ReapedInv` as long as the session is not `interrupted`.

### `MediaProofs`, about `MediaPipeline`
For every number of attempts. `TypeCorrect`, `KnownHolds`, `ReleasedHolds` and
`OneWriterHolds` prove `TypeOK`, `ModulesKnown`, `MediaReleased` and `OneWriter` from
one `IInv`: where the callers may be (`CallersFollow`), module ids that suffice
(`LoadsBounded`), a teardown that unloads its entry from the end, so that what it has
passed is not loaded (`ListsFollow`), and forwarders that run only between
`configure()` and a teardown, which stops one after the other (`ProcessesFollow`).

### `RuntimeProofs` and `ServesProofs`, about `WorkerRuntime`
For every set of ids, snapshot limit and number of starts of an id.

- `TypeCorrect` and `OnePlaceHolds`: `TypeOK` and `OnePlace`, for every caller, from
  `IInv`: the snapshots are a map with at most `Limit` entries (`RecentOK`), the map
  holds the last session of an id (`MapHasLast`), which has not called `onTerminal`
  (`NotBoth`), and an orchestrator that is over has (`EndsNotified`).
- `ReachableHolds`: `Reachable`, for a caller that is `Patient`. `PInv` adds that only
  the last session of an id does anything (`OlderRest`), that its snapshot says what
  it did (`SnapshotsTrue`) and that a session leaves the map only because it is over
  or being stopped (`Accounted`). Without `Patient` it is false in the code: the end
  of an older session deletes the newer one by its id.
- `AnswersSettleHolds`: `AnswersSettle`, from `IInv`, for every caller.
- `Serves`: `WorkerRuntime` implements `SessionWorker`, for a `Patient` caller: one
  lemma per action says which action of `SessionWorker` it is through the mapping.
  An eviction is the hard case: it changes `told` of a session that takes no part in
  the step.

### `ControlPlaneProofs`, about `ControlPlane`
For every set of sessions and handlers, with restarts of both sides. `TypeCorrect` and
`NoFalseEnd` prove `TypeOK` and `EndIsReal`. The record is written from answers that
may be old, so the invariant follows a status from the worker to the record:
`EndsAreReal` says of each of its places (the worker's answer, an error of
`StartSession`, the answer on its way to a handler, the record) that an end in it means
that the bridge is gone. `IdUsedOnce`, `NothingToTell`, `NothingAnswered` and
`RecordAsCreated` say that none of them holds anything before the session reaches the
worker; `StopHasBridge` that a stop which interrupts nothing has a bridge to close.

### `RegistryProofs`, about `NodeRegistry`
For every set of workers, staleness limit and number of restarts. `TypeCorrect` and
`StaysSchedulable` prove `TypeOK` and `Schedulable`: what the registry replied still
holds when the client reads it (`RepliesHold`), and an entry is older than the beats
lost by one interval between calls and by two during one (`AgeBounded`).

### Only model-checked
- Liveness, which is out of the prover's reach, as is `ENABLED`: `DeathNoticed`,
  `AllocateSettles`, `StopCompletes`, `LossNoticed`, `TeardownCompletes`, `StopSettles`,
  `ShutdownEnds`, `StoreCatchesUp`, `Rejoins`, `CountCatchesUp`, and the fairness of
  `SessionLifecycle` in `KeepsLifecycle`.

Some bounds are part of the model, and so of the theorems, which hold for each of
their values: orphans past `MaxOrphans` are taken to die at once, sessions past
`MaxSessions`, starts past `Incarnations` and restarts past `MaxRestarts` do not
happen, and `shutdown()` meets at most one session that is already being stopped
(`ShutdownMeetsStop`).

## 5. Plan

Done, in this order: resources, orchestrator with its lifecycle, proofs of both,
runtime, control plane, registry; then the media, the session on its pool, and the
abstract worker between runtime and control plane; then the proofs of all that.
Next:

1. An abstract specification of the display pool (numbers with owners), implemented
   by `SessionResourceManager` under `OneCaller`.
2. An id started again while its last session still works (`Patient = FALSE`).
3. Cameras of one session's ffmpeg against the next session's (`release()` unmarks
   them first, `session-resource-manager.ts:191`).

## 6. Not modelled

- Selectors, URLs, typing and the per-platform agents: subclasses that differ in a
  table key. Fingerprints and proxies: inputs of a browser launch.
- The status webhook: sent and forgotten, and read by nothing in the system. Its
  order is not guaranteed; `PROJECT.json` lists it.
- Validation and conversion of requests, listing, trace ids, messages, end reasons,
  `StartedAt`, `EndedAt`; TLS, tokens and message building of gRPC.
- Containers, the PulseAudio daemon and `v4l2loopback`: environment. That PulseAudio
  starts again and loses its modules is in `MediaPipeline`.
- An Xvfb whose start timed out runs on (`orphans`): it is *in* the model, and no
  property states that it should not. Nor does one state that the browser of a launch
  that outlived its attempt is closed, or one that it replaced (`leaked`).
- An Xvfb that cannot be spawned at all: its `error` event has no listener
  (`session-resource-manager.ts:145-162`) and ends the worker process.
- Two launches of one agent that outlive their attempts at the same time count as one.
- The impatient client: `runtime` starts an id again only when its last session has
  finished its work (`Patient`).
