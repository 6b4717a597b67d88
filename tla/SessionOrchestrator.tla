------------------------- MODULE SessionOrchestrator -------------------------
(***************************************************************************)
(* One bridge session inside a worker: class SessionOrchestrator with the  *)
(* SessionHealthMonitor, the two agents and the media managers it drives.  *)
(*                                                                         *)
(* Three activities may be under way at once: start(), handleReconnect()   *)
(* and stop().  Each runs alone on the JavaScript thread between two       *)
(* awaits of I/O, and an action is such a stretch.  An await that finishes *)
(* without I/O is part of the stretch around it.  The session is a real    *)
(* one: a dry run awaits nothing and reaches BRIDGING in a single stretch. *)
(***************************************************************************)
EXTENDS Naturals

CONSTANTS
  MaxAttempts,   \* options.maxReconnectAttempts
  EnableAudio,
  EnableVideo,
  Ticks,         \* bound: the health checks of a session that may overlap
  Slow           \* bound: the agents a launch of which may outlive its attempt

ASSUME MaxAttemptsAssumption == MaxAttempts \in Nat \ {0}
ASSUME OptionsAssumption == EnableAudio \in BOOLEAN /\ EnableVideo \in BOOLEAN
ASSUME SlowAssumption == Slow \subseteq {"source", "target"}

VARIABLES
  status,        \* snapshot.status
  stopped,
  notified,      \* the status given to onTerminal, or "none"
  monitor,       \* a health monitor is set and its interval runs
  held,          \* what allocate() and the two configure() have acquired
  agent,         \* the browser each agent refers to
  own,           \* the agents whose launch the current attempt awaits
  late,          \* the agents with a launch that goes on although its attempt
                 \* failed (bound: two of one agent count as one)
  leaked,        \* the agents with a browser that they do not refer to any more
  signalled,     \* the media with a process that a foreign signal has ended
  pc,            \* where each activity is
  attempt,       \* the counter of handleReconnect()'s loop
  tasks,         \* what each activity's teardown is still releasing
  tick,          \* where each health check is
  moving,        \* the agents whose keepAlive() that check awaits
  up,            \* the worker process runs
  interrupted,   \* history: stop() came while start() or a reconnect worked
  outlived       \* history: the agents a launch of which outlived its attempt

session == <<status, stopped, notified>>
browsers == <<agent, own, late, leaked, outlived>>
bridge == <<monitor, held, signalled, browsers>>
checks == <<tick, moving>>
vars == <<session, bridge, pc, attempt, tasks, checks, up, interrupted>>

Agents == {"source", "target"}
Media == {"reservation", "audio", "video"}
Parts == Agents \cup Media
Activities == {"start", "reconnect", "stop"}
Builders == {"start", "reconnect"}

Terminal == {"FAILED", "TERMINATED"}
Status == {"CREATED", "INITIALIZING", "JOINING_A", "JOINING_B", "BRIDGING",
           "RECONNECTING", "TERMINATING"} \cup Terminal

\* The awaits of establishBridge(), in order; a join is over when its tail of
\* tolerant clicks ("settle") is.
Stages == {"allocate", "audio", "launch", "joinA", "settleA", "joinB", "settleB"}
Teardowns == {"teardown", "retry", "failing"}

TypeOK ==
  /\ status \in Status
  /\ stopped \in BOOLEAN
  /\ notified \in Terminal \cup {"none"}
  /\ monitor \in BOOLEAN
  /\ held \subseteq Media
  /\ agent \in [Agents -> {"absent", "open", "dead", "stray"}]
  /\ own \subseteq Agents
  /\ late \subseteq Agents
  /\ leaked \subseteq Agents
  /\ signalled \subseteq Media
  /\ pc \in [Activities -> Stages \cup Teardowns \cup {"idle", "sleep", "done"}]
  /\ attempt \in 0..MaxAttempts
  /\ tasks \in [Activities -> SUBSET Parts]
  /\ tick \in [Ticks -> {"idle", "audio", "keepalive", "meeting"}]
  /\ moving \in [Ticks -> SUBSET Agents]
  /\ up \in BOOLEAN
  /\ interrupted \in BOOLEAN
  /\ outlived \subseteq Agents

Init ==
  /\ status = "CREATED"
  /\ stopped = FALSE
  /\ notified = "none"
  /\ monitor = FALSE
  /\ held = {}
  /\ agent = [ag \in Agents |-> "absent"]
  /\ own = {}
  /\ late = {}
  /\ leaked = {}
  /\ signalled = {}
  /\ pc = [a \in Activities |-> "idle"]
  /\ attempt = 0
  /\ tasks = [a \in Activities |-> {}]
  /\ tick = [t \in Ticks |-> "idle"]
  /\ moving = [t \in Ticks |-> {}]
  /\ up = TRUE
  /\ interrupted = FALSE
  /\ outlived = {}

-----------------------------------------------------------------------------
(* Helpers                                                                 *)

HasPage(ag) == agent[ag] # "absent"
PageOpen(ag) == agent[ag] \in {"open", "stray"}

\* updateStatus(): onTerminal hears the first terminal status only.
UpdateStatus(st) ==
  /\ status' = st
  /\ notified' = IF st \in Terminal /\ notified = "none" THEN st ELSE notified

\* Mutant: the interval of the monitor is not cleared.
BeginTeardownStillWatching(a, where) ==
  /\ UNCHANGED monitor
  /\ tasks' = [tasks EXCEPT ![a] = held \cup {ag \in Agents : HasPage(ag)}]
  /\ pc' = [pc EXCEPT ![a] = where]

\* Mutant: a browser that has died is not cleaned up.
BeginTeardownOfOpen(a, where) ==
  /\ monitor' = FALSE
  /\ tasks' = [tasks EXCEPT ![a] = held \cup {ag \in Agents : PageOpen(ag)}]
  /\ pc' = [pc EXCEPT ![a] = where]

\* teardownCurrentAttempt() by a: the monitor goes at once, the five tasks
\* capture what is there now.
BeginTeardown(a, where) ==
  /\ monitor' = FALSE
  /\ tasks' = [tasks EXCEPT ![a] = held \cup {ag \in Agents : HasPage(ag)}]
  /\ pc' = [pc EXCEPT ![a] = where]

\* failSession() up to its teardown.
FailSession(a) ==
  /\ stopped' = TRUE
  /\ UpdateStatus("FAILED")
  /\ BeginTeardown(a, "failing")

AtRest(a) == pc[a] \in {"idle", "done"}

-----------------------------------------------------------------------------
(* start() and establishBridge()                                           *)

Start ==
  /\ pc["start"] = "idle"
  /\ UpdateStatus("INITIALIZING")
  /\ pc' = [pc EXCEPT !["start"] = "allocate"]
  /\ UNCHANGED <<stopped, bridge, attempt, tasks, checks, up, interrupted>>

\* VideoManager.configure() and the two agent.init(), up to their launches.
BeginLaunch(a, acquired) ==
  /\ held' = held \cup acquired \cup (IF EnableVideo THEN {"video"} ELSE {})
  /\ own' = Agents
  /\ pc' = [pc EXCEPT ![a] = "launch"]

Allocated(a) ==
  /\ pc[a] = "allocate"
  /\ IF EnableAudio
     THEN /\ held' = held \cup {"reservation"}
          /\ pc' = [pc EXCEPT ![a] = "audio"]
          /\ UNCHANGED own
     ELSE BeginLaunch(a, {"reservation"})
  /\ UNCHANGED <<session, monitor, signalled, agent, late, leaked, outlived, attempt,
                 tasks, checks, up, interrupted>>

AudioConfigured(a) ==
  /\ pc[a] = "audio"
  /\ BeginLaunch(a, {"audio"})
  /\ UNCHANGED <<session, monitor, signalled, agent, late, leaked, outlived, attempt,
                 tasks, checks, up, interrupted>>

\* init() succeeds: the agent refers to the new browser, in the given state,
\* and no longer to the one that it may have referred to.
Refers(ag, state) ==
  /\ agent' = [agent EXCEPT ![ag] = state]
  /\ leaked' = IF HasPage(ag) THEN leaked \cup {ag} ELSE leaked

\* The last launch that Promise.all() awaits takes the builder on to joinA.
Launched(a, ag) ==
  /\ pc[a] = "launch"
  /\ ag \in own
  /\ own' = own \ {ag}
  /\ Refers(ag, "open")
  /\ IF own = {ag}
     THEN UpdateStatus("JOINING_A") /\ pc' = [pc EXCEPT ![a] = "joinA"]
     ELSE UNCHANGED <<status, notified, pc>>
  /\ UNCHANGED <<stopped, monitor, held, signalled, late, outlived, attempt, tasks,
                 checks, up, interrupted>>

Joiner(a) == IF pc[a] = "joinA" THEN "source" ELSE "target"

\* The join button was clicked, on a page that was open until then.
Clicked(a) ==
  /\ pc[a] \in {"joinA", "joinB"}
  /\ PageOpen(Joiner(a))
  /\ pc' = [pc EXCEPT ![a] = IF @ = "joinA" THEN "settleA" ELSE "settleB"]
  /\ UNCHANGED <<session, bridge, attempt, tasks, checks, up, interrupted>>

\* Mutant: the monitor starts before the target agent has joined.
JoinedAAlreadyWatched(a) ==
  /\ pc[a] = "settleA"
  /\ UpdateStatus("JOINING_B")
  /\ monitor' = TRUE
  /\ pc' = [pc EXCEPT ![a] = "joinB"]
  /\ UNCHANGED <<stopped, held, signalled, browsers, attempt, tasks, checks, up,
                 interrupted>>

\* The rest of a join tolerates a page that is dead or gone.
JoinedA(a) ==
  /\ pc[a] = "settleA"
  /\ UpdateStatus("JOINING_B")
  /\ pc' = [pc EXCEPT ![a] = "joinB"]
  /\ UNCHANGED <<stopped, bridge, attempt, tasks, checks, up, interrupted>>

\* Mutant: the monitor is made but not started.
JoinedBUnwatched(a) ==
  /\ pc[a] = "settleB"
  /\ UpdateStatus("BRIDGING")
  /\ pc' = [pc EXCEPT ![a] = IF a = "start" THEN "done" ELSE "idle"]
  /\ attempt' = 0
  /\ UNCHANGED <<stopped, bridge, tasks, checks, up, interrupted>>

\* A fresh monitor, and BRIDGING: stopped is not looked at.
JoinedB(a) ==
  /\ pc[a] = "settleB"
  /\ monitor' = TRUE
  /\ UpdateStatus("BRIDGING")
  /\ pc' = [pc EXCEPT ![a] = IF a = "start" THEN "done" ELSE "idle"]
  /\ attempt' = 0
  /\ UNCHANGED <<stopped, held, signalled, browsers, tasks, checks, up, interrupted>>

\* The catch of allocate() waits for an Xvfb that somebody else has ended.
CatchHangs(a) == pc[a] = "allocate" /\ "reservation" \in signalled

\* Any await of establishBridge() but a join's tail may reject.  The launch of
\* the other agent is not cancelled.  start() fails the session, a reconnect
\* tears the attempt down.
StageFails(a) ==
  /\ pc[a] \in {"allocate", "audio", "launch", "joinA", "joinB"}
  /\ ~CatchHangs(a)
  /\ IF pc[a] = "launch"
     THEN \E ag \in own : /\ late' = late \cup ((own \ {ag}) \cap Slow)
                          /\ outlived' = outlived \cup ((own \ {ag}) \cap Slow)
     ELSE UNCHANGED <<late, outlived>>
  /\ own' = {}
  /\ IF a = "start"
     THEN FailSession(a)
     ELSE BeginTeardown(a, "retry") /\ UNCHANGED session
  /\ UNCHANGED <<held, signalled, agent, leaked, attempt, checks, up, interrupted>>

\* A launch nobody awaits any more succeeds or fails.  It may take the place of
\* the browser of a later attempt.
LateLaunch(ag) ==
  /\ ag \in late
  /\ late' = late \ {ag}
  /\ Refers(ag, "stray") \/ UNCHANGED <<agent, leaked>>
  /\ UNCHANGED <<session, monitor, held, signalled, own, outlived, pc, attempt, tasks,
                 checks, up, interrupted>>

-----------------------------------------------------------------------------
(* requestReconnect(), handleReconnect() and stop()                        *)

\* Mutant: a stopped session reconnects.
ReconnectRequestedAnyway ==
  IF pc["reconnect"] = "idle"
  THEN UpdateStatus("RECONNECTING") /\ BeginTeardown("reconnect", "teardown")
  ELSE UNCHANGED <<status, notified, monitor, tasks, pc>>

\* Mutant: the status is left as it was.
ReconnectRequestedQuietly ==
  IF ~stopped /\ pc["reconnect"] = "idle"
  THEN UNCHANGED <<status, notified>> /\ BeginTeardown("reconnect", "teardown")
  ELSE UNCHANGED <<status, notified, monitor, tasks, pc>>

\* Only the first request of a session that is not stopped does something.
ReconnectRequested ==
  IF ~stopped /\ pc["reconnect"] = "idle"
  THEN UpdateStatus("RECONNECTING") /\ BeginTeardown("reconnect", "teardown")
  ELSE UNCHANGED <<status, notified, monitor, tasks, pc>>

\* Mutant: one attempt too many.
NextAttemptOnceMore ==
  /\ pc["reconnect"] \in {"teardown", "retry"}
  /\ tasks["reconnect"] = {}
  /\ IF attempt > MaxAttempts
     THEN FailSession("reconnect") /\ attempt' = 0
     ELSE /\ IF stopped
             THEN pc' = [pc EXCEPT !["reconnect"] = "idle"] /\ attempt' = 0
             ELSE pc' = [pc EXCEPT !["reconnect"] = "sleep"] /\ attempt' = attempt + 1
          /\ UNCHANGED <<session, monitor, tasks>>
  /\ UNCHANGED <<held, signalled, browsers, checks, up, interrupted>>

\* Mutant: the teardown before an attempt is not awaited.
NextAttemptAtOnce ==
  /\ pc["reconnect"] \in {"teardown", "retry"}
  /\ ~stopped
  /\ attempt < MaxAttempts
  /\ pc' = [pc EXCEPT !["reconnect"] = "sleep"]
  /\ attempt' = attempt + 1
  /\ UNCHANGED <<session, bridge, tasks, checks, up, interrupted>>

\* The head of the loop, after a teardown: the only look at stopped.
NextAttempt ==
  /\ pc["reconnect"] \in {"teardown", "retry"}
  /\ tasks["reconnect"] = {}
  /\ IF pc["reconnect"] = "retry" /\ attempt = MaxAttempts
     THEN FailSession("reconnect") /\ attempt' = 0
     ELSE /\ IF stopped
             THEN pc' = [pc EXCEPT !["reconnect"] = "idle"] /\ attempt' = 0
             ELSE pc' = [pc EXCEPT !["reconnect"] = "sleep"] /\ attempt' = attempt + 1
          /\ UNCHANGED <<session, monitor, tasks>>
  /\ UNCHANGED <<held, signalled, browsers, checks, up, interrupted>>

Wakes ==
  /\ pc["reconnect"] = "sleep"
  /\ pc' = [pc EXCEPT !["reconnect"] = "allocate"]
  /\ UNCHANGED <<session, bridge, attempt, tasks, checks, up, interrupted>>

\* stop() up to its teardown; a second call returns at once.
Stop ==
  IF stopped
  THEN UNCHANGED <<session, monitor, tasks, pc, interrupted>>
  ELSE /\ stopped' = TRUE
       /\ UpdateStatus("TERMINATING")
       /\ BeginTeardown("stop", "teardown")
       /\ interrupted' = ~\A a \in Builders : AtRest(a)

\* WorkerRuntime.stopSession(), for a session it still has.
StopCalled ==
  /\ pc["start"] # "idle"
  /\ ~stopped
  /\ Stop
  /\ UNCHANGED <<held, signalled, browsers, attempt, checks, up>>

\* No teardown gets past a process that somebody else has ended.
TaskDone(a, part) ==
  /\ part \in tasks[a] \ signalled
  /\ \A t \in Ticks : part \notin moving[t]   \* a closing page settles its calls first
  /\ tasks' = [tasks EXCEPT ![a] = @ \ {part}]
  /\ held' = held \ {part}
  /\ agent' = [ag \in Agents |-> IF ag = part THEN "absent" ELSE agent[ag]]
  /\ UNCHANGED <<session, monitor, signalled, own, late, leaked, outlived, pc, attempt,
                 checks, up, interrupted>>

\* Mutant: onTerminal does not hear of the end.
StopEndsSilently ==
  /\ pc["stop"] = "teardown"
  /\ tasks["stop"] = {}
  /\ status' = "TERMINATED"
  /\ pc' = [pc EXCEPT !["stop"] = "done"]
  /\ UNCHANGED <<stopped, notified, bridge, attempt, tasks, checks, up, interrupted>>

\* The end of stop() and of failSession().
StopEnds ==
  /\ pc["stop"] = "teardown"
  /\ tasks["stop"] = {}
  /\ UpdateStatus("TERMINATED")
  /\ pc' = [pc EXCEPT !["stop"] = "done"]
  /\ UNCHANGED <<stopped, bridge, attempt, tasks, checks, up, interrupted>>

FailEnds(a) ==
  /\ pc[a] = "failing"
  /\ tasks[a] = {}
  /\ pc' = [pc EXCEPT ![a] = "done"]
  /\ UNCHANGED <<session, bridge, attempt, tasks, checks, up, interrupted>>

-----------------------------------------------------------------------------
(* SessionHealthMonitor.tick()                                             *)

\* The rest of a tick after the audio check: the video check is synchronous,
\* then both keepAlive().  A page that is gone has nothing to keep alive.
TickGoesOn(t) ==
  \/ /\ EnableVideo
     /\ ReconnectRequested          \* ffmpeg has exited, or is being stopped
     /\ tick' = [tick EXCEPT ![t] = "idle"]
     /\ UNCHANGED moving
  \/ /\ EnableVideo => "video" \in held
     /\ moving' = [moving EXCEPT ![t] = {ag \in Agents : HasPage(ag)}]
     /\ tick' = [tick EXCEPT ![t] = IF moving'[t] = {} THEN "meeting" ELSE "keepalive"]
     /\ UNCHANGED <<status, notified, monitor, tasks, pc>>

\* The interval fires.
TickFires(t) ==
  /\ monitor
  /\ tick[t] = "idle"
  /\ IF \A ag \in Agents : PageOpen(ag)
     THEN IF EnableAudio
          THEN /\ tick' = [tick EXCEPT ![t] = "audio"]
               /\ UNCHANGED <<status, notified, monitor, tasks, pc, moving>>
          ELSE TickGoesOn(t)
     ELSE ReconnectRequested /\ UNCHANGED checks
  /\ UNCHANGED <<stopped, held, signalled, browsers, attempt, up, interrupted>>

\* pactl answers.  The session may have been torn down, or rebuilt, meanwhile.
AudioUnhealthy(t) ==
  /\ tick[t] = "audio"
  /\ ReconnectRequested
  /\ tick' = [tick EXCEPT ![t] = "idle"]
  /\ UNCHANGED <<stopped, held, signalled, browsers, attempt, moving, up, interrupted>>

AudioHealthy(t) ==
  /\ tick[t] = "audio"
  /\ TickGoesOn(t)
  /\ UNCHANGED <<stopped, held, signalled, browsers, attempt, up, interrupted>>

Moved(t) ==
  /\ tick[t] = "keepalive"
  /\ \A ag \in moving[t] : PageOpen(ag)
  /\ tick' = [tick EXCEPT ![t] = "meeting"]
  /\ moving' = [moving EXCEPT ![t] = {}]
  /\ UNCHANGED <<session, bridge, pc, attempt, tasks, up, interrupted>>

\* mouse.move() rejects: its page has died or is being closed.  Nobody catches
\* what tick() throws, and Node ends the process.
MoveRejected(t) ==
  /\ tick[t] = "keepalive"
  /\ \E ag \in moving[t] : ~PageOpen(ag) \/ \E a \in Activities : ag \in tasks[a]
  /\ up' = FALSE
  /\ UNCHANGED <<session, bridge, pc, attempt, tasks, checks, interrupted>>

MeetingEnded(t) ==
  /\ tick[t] = "meeting"
  /\ \E ag \in Agents : PageOpen(ag)
  /\ Stop
  /\ tick' = [tick EXCEPT ![t] = "idle"]
  /\ UNCHANGED <<held, signalled, browsers, attempt, moving, up>>

MeetingGoesOn(t) ==
  /\ tick[t] = "meeting"
  /\ tick' = [tick EXCEPT ![t] = "idle"]
  /\ UNCHANGED <<session, bridge, pc, attempt, tasks, moving, up, interrupted>>

\* A browser crashes, or someone closes its page.
BrowserDies(ag) ==
  /\ PageOpen(ag)
  /\ agent' = [agent EXCEPT ![ag] = "dead"]
  /\ UNCHANGED <<session, monitor, held, signalled, own, late, leaked, outlived, pc,
                 attempt, tasks, checks, up, interrupted>>

\* A foreign signal ends an Xvfb or an ffmpeg, of the bridge or of an allocate()
\* that is under way.  The process has no exit code and its close event is
\* past: terminateProcess() will wait for that event without end.
SignalEnds(part) ==
  /\ part \in {"reservation", "video"} \ signalled
  /\ \/ part \in held
     \/ part = "reservation" /\ \E a \in Builders : pc[a] = "allocate"
  /\ signalled' = signalled \cup {part}
  /\ UNCHANGED <<session, monitor, held, browsers, pc, attempt, tasks, checks, up,
                 interrupted>>

-----------------------------------------------------------------------------
Build(a) ==
  \/ Allocated(a) \/ AudioConfigured(a) \/ Clicked(a) \/ JoinedA(a) \/ JoinedB(a)
  \/ StageFails(a)
  \/ \E ag \in Agents : Launched(a, ag)

Tick(t) ==
  \/ AudioUnhealthy(t) \/ AudioHealthy(t) \/ Moved(t) \/ MoveRejected(t)
  \/ MeetingEnded(t) \/ MeetingGoesOn(t)

Teardown(a) == \E part \in Parts : TaskDone(a, part)

Next ==
  /\ up
  /\ \/ Start
     \/ \E a \in Builders : Build(a) \/ FailEnds(a)
     \/ NextAttempt \/ Wakes \/ StopCalled \/ StopEnds
     \/ \E a \in Activities : Teardown(a)
     \/ \E ag \in Agents : LateLaunch(ag) \/ BrowserDies(ag)
     \/ \E part \in Media : SignalEnds(part)
     \/ \E t \in Ticks : TickFires(t) \/ Tick(t)

Spec == Init /\ [][Next]_vars

\* Playwright and pactl calls end or reject, timers fire, a process ends on
\* SIGTERM, a page that closes is not held open by the mouse moves of later
\* checks.  A wait for a process that somebody else has ended does not end.
\* That a browser lives, that a stage succeeds, that anybody calls stop() is
\* not assumed.
Fairness ==
  /\ \A a \in Builders :
       WF_vars(up /\ ~CatchHangs(a) /\ Build(a)) /\ WF_vars(up /\ FailEnds(a))
  /\ WF_vars(up /\ NextAttempt) /\ WF_vars(up /\ Wakes) /\ WF_vars(up /\ StopEnds)
  /\ \A a \in Activities : SF_vars(up /\ Teardown(a))
  /\ \A t \in Ticks : WF_vars(up /\ TickFires(t)) /\ WF_vars(up /\ Tick(t))

FairSpec == Spec /\ Fairness

-----------------------------------------------------------------------------
(* Properties                                                              *)

\* While BRIDGING is reported and nobody has called stop(), the bridge is
\* whole: displays, audio and video are held, both agents have a page, the
\* monitor watches them, and no teardown is taking any of it away.  Reconnects
\* triggered by overlapping or stale health checks do not break that.
BridgeIsWhole ==
  status = "BRIDGING" /\ ~stopped =>
    /\ monitor
    /\ held = {"reservation"} \cup (IF EnableAudio THEN {"audio"} ELSE {})
                              \cup (IF EnableVideo THEN {"video"} ELSE {})
    /\ \A ag \in Agents : HasPage(ag)
    /\ \A a \in Activities : tasks[a] = {}

\* start() and a reconnect never build at the same time, so the awaits of
\* establishBridge() have the session's parts to themselves.
OneBuilder == AtRest("start") \/ AtRest("reconnect")

\* A monitor that runs for a session nobody stopped belongs to a live bridge:
\* every reconnect and every failure has cleared the one before it.
MonitorWatchesLiveBridge == monitor /\ ~stopped => status = "BRIDGING"

AllEnded ==
  /\ stopped
  /\ \A a \in Activities : AtRest(a)
  /\ late = {}

\* When all is over, and no stop() came while start() or a reconnect worked,
\* no display, sound module, ffmpeg or monitor is left, and no browser, open,
\* dead or replaced, but of an agent a launch of which outlived its attempt:
\* that launch may leave its own browser and push out the one of a later attempt.
CleanEnd ==
  up /\ AllEnded /\ ~interrupted =>
    /\ held = {}
    /\ ~monitor
    /\ \A ag \in Agents \ outlived : agent[ag] = "absent" /\ ag \notin leaked

\* FAILED and TERMINATED are final in a session whose stop(), if any, found
\* start() and the reconnects at rest.
TerminalStays == [][~interrupted /\ status \in Terminal => status' = status]_status

\* What happens to one session never takes the worker down with the sessions
\* of others.
WorkerSurvives == up

\* What a session is, as SessionLifecycle sees it.
Phase ==
  IF ~up THEN "lost"
  ELSE IF stopped THEN "over"
  ELSE IF status = "CREATED" THEN "created"
  ELSE IF status = "BRIDGING" THEN "live"
  ELSE IF AtRest("reconnect") THEN "connecting"
  ELSE "reconnecting"

Tries == IF stopped \/ ~up THEN 0 ELSE attempt

Lifecycle == INSTANCE SessionLifecycle WITH
  phase <- Phase, tries <- Tries, report <- notified, cut <- signalled # {}

\* The promise of SessionLifecycle, kept by start(), the reconnect loop, stop()
\* and the health checks together, with its liveness: every connect and every
\* reconnect settles, after at most MaxAttempts attempts, and a session that is
\* over reports its end once.  Exempt is a session with an Xvfb or an ffmpeg that
\* somebody else has ended: its teardown does not return, so it stays RECONNECTING
\* or TERMINATING, but it begins no attempt on a bridge that is not cleared away.
KeepsLifecycle == Lifecycle!Spec

\* A dead browser in a live bridge is noticed: the session leaves BRIDGING.
DeathNoticed ==
  \A ag \in Agents :
    agent[ag] = "dead" /\ status = "BRIDGING" /\ ~stopped
      ~> agent[ag] # "dead" \/ status # "BRIDGING" \/ stopped \/ ~up
=============================================================================
