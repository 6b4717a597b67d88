---------------------------- MODULE WorkerRuntime ----------------------------
(***************************************************************************)
(* The sessions of one worker: class WorkerRuntime behind the gRPC         *)
(* handlers, with the snapshots of recent sessions and the shutdown of the *)
(* process.  Of a SessionOrchestrator it sees status, stop() and           *)
(* onTerminal; its builds and teardowns are single steps here and are      *)
(* taken apart in SessionOrchestrator.  An action is the code between two  *)
(* awaits.                                                                 *)
(***************************************************************************)
EXTENDS Naturals, Sequences

CONSTANTS
  Ids,
  Incarnations,   \* bound: Incarnations[id] is how often id is started
  Limit,          \* recentSnapshotLimit
  Patient,        \* no id is started again while its last session works
  Returning       \* environment: the orchestrators none of whose Xvfb and ffmpeg
                  \* processes is ended by a signal that is not the worker's own

ASSUME IncarnationsAssumption == Incarnations \in [Ids -> Nat]
ASSUME LimitAssumption == Limit \in Nat \ {0}
ASSUME PatientAssumption == Patient \in BOOLEAN

VARIABLES
  sessions,    \* sessions[id]: the incarnation in the map, 0 if none
  recent,      \* recentSnapshots, in the order of the map
  started,     \* started[id]: the incarnations so far
  status,      \* snapshot.status of each orchestrator
  stopped,     \* the orchestrators with stopped set
  notified,    \* those that have called onTerminal
  bridge,      \* the bridge of each orchestrator
  stopping,    \* whose stop() tears it down
  process,     \* "up", "shutdown" or "exited"
  awaited      \* the orchestrators whose stop() the shutdown awaits

orchestrators == <<status, stopped, notified, bridge, stopping>>
vars == <<sessions, recent, started, orchestrators, process, awaited>>

Orchestrators == UNION {{id} \X (1..Incarnations[id]) : id \in Ids}
ASSUME ReturningAssumption == Returning \subseteq Orchestrators

Terminal == {"FAILED", "TERMINATED"}
Status == {"CREATED", "INITIALIZING", "BRIDGING", "RECONNECTING", "TERMINATING"}
          \cup Terminal

TypeOK ==
  /\ started \in [Ids -> Nat]
  /\ \A id \in Ids : started[id] <= Incarnations[id]
  /\ sessions \in [Ids -> Nat]
  /\ \A id \in Ids : sessions[id] <= started[id]
  /\ recent \in Seq([id : Ids, status : Status])
  /\ Len(recent) <= Limit
  /\ status \in [Orchestrators -> Status]
  /\ stopped \subseteq Orchestrators
  /\ notified \subseteq stopped
  /\ bridge \in [Orchestrators -> {"none", "building", "rebuilding", "live", "closing",
                                   "startFails", "givesUp", "down"}]
  /\ stopping \in [Orchestrators -> {"none", "request", "meeting", "done"}]
  /\ process \in {"up", "shutdown", "exited"}
  /\ awaited \subseteq Orchestrators

Init ==
  /\ sessions = [id \in Ids |-> 0]
  /\ recent = <<>>
  /\ started = [id \in Ids |-> 0]
  /\ status = [o \in Orchestrators |-> "CREATED"]
  /\ stopped = {}
  /\ notified = {}
  /\ bridge = [o \in Orchestrators |-> "none"]
  /\ stopping = [o \in Orchestrators |-> "none"]
  /\ process = "up"
  /\ awaited = {}

-----------------------------------------------------------------------------
(* Helpers                                                                 *)

Remembered(id) == {i \in 1..Len(recent) : recent[i].id = id}

\* A Map has one entry for an id; the entries behind it move up.
Forget(id) ==
  IF Remembered(id) = {} THEN recent
  ELSE LET place == CHOOSE i \in Remembered(id) : TRUE
       IN  [i \in 1..Len(recent) - 1 |-> recent[IF i < place THEN i ELSE i + 1]]

\* Mutant: one snapshot too many.
LatestAndOneMore(id, st) ==
  LET r == Append(Forget(id), [id |-> id, status |-> st])
  IN  SubSeq(r, IF Len(r) > Limit + 1 THEN 2 ELSE 1, Len(r))

\* The last Limit snapshots, with id's newest at the end.
Latest(id, st) ==
  LET r == Append(Forget(id), [id |-> id, status |-> st])
  IN  SubSeq(r, IF Len(r) > Limit THEN 2 ELSE 1, Len(r))

\* sessions.delete() and rememberRecentSnapshot().
Retire(id, st) ==
  /\ sessions' = [sessions EXCEPT ![id] = 0]
  /\ recent' = Latest(id, st)

\* Mutant: onTerminal only remembers the snapshot.
NotifyKeepsEntry(o, st) ==
  /\ notified' = notified \cup {o}
  /\ IF o \in notified
     THEN UNCHANGED <<sessions, recent>>
     ELSE recent' = Latest(o[1], st) /\ UNCHANGED sessions

\* Mutant: onTerminal is called for every terminal status.
NotifyAgain(o, st) ==
  /\ notified' = notified \cup {o}
  /\ Retire(o[1], st)

\* onTerminal, once per orchestrator.  It names the session by its id.
Notify(o, st) ==
  /\ notified' = notified \cup {o}
  /\ IF o \in notified THEN UNCHANGED <<sessions, recent>> ELSE Retire(o[1], st)

Building == {"building", "rebuilding"}
Idle(o) ==
  /\ bridge[o] \notin Building \cup {"startFails", "givesUp"}
  /\ stopping[o] \in {"none", "done"}
Live(o) == status[o] # "CREATED" /\ o \notin stopped

-----------------------------------------------------------------------------
(* StartSession                                                            *)

\* Mutant: the snapshot of the previous incarnation stays.
StartSessionRemembers(id) ==
  /\ sessions[id] = 0
  /\ started[id] < Incarnations[id]
  /\ Patient => \A k \in 1..started[id] : Idle(<<id, k>>)
  /\ LET o == <<id, started[id] + 1>>
     IN  /\ started' = [started EXCEPT ![id] = @ + 1]
         /\ sessions' = [sessions EXCEPT ![id] = started[id] + 1]
         /\ status' = [status EXCEPT ![o] = "INITIALIZING"]
         /\ bridge' = [bridge EXCEPT ![o] = "building"]
  /\ UNCHANGED <<recent, stopped, notified, stopping, process, awaited>>

\* For an id in the map it throws and changes nothing.
StartSession(id) ==
  /\ sessions[id] = 0
  /\ started[id] < Incarnations[id]
  /\ Patient => \A k \in 1..started[id] : Idle(<<id, k>>)
  /\ recent' = Forget(id)
  /\ LET o == <<id, started[id] + 1>>
     IN  /\ started' = [started EXCEPT ![id] = @ + 1]
         /\ sessions' = [sessions EXCEPT ![id] = started[id] + 1]
         /\ status' = [status EXCEPT ![o] = "INITIALIZING"]
         /\ bridge' = [bridge EXCEPT ![o] = "building"]
  /\ UNCHANGED <<stopped, notified, stopping, process, awaited>>

\* Mutant: a finally, not a catch, removes the session.
BuildEndsFinally(o) ==
  /\ bridge[o] \in Building
  /\ status' = [status EXCEPT ![o] = "BRIDGING"]
  /\ bridge' = [bridge EXCEPT ![o] = "live"]
  /\ sessions' = IF bridge[o] = "building" THEN [sessions EXCEPT ![o[1]] = 0] ELSE sessions
  /\ UNCHANGED <<recent, started, stopped, notified, stopping, process, awaited>>

\* start() or a reconnect succeeds, also after stop().
BuildEnds(o) ==
  /\ bridge[o] \in Building
  /\ status' = [status EXCEPT ![o] = "BRIDGING"]
  /\ bridge' = [bridge EXCEPT ![o] = "live"]
  /\ UNCHANGED <<sessions, recent, started, stopped, notified, stopping, process, awaited>>

\* failSession() up to its teardown.
BuildFails(o) ==
  /\ bridge[o] \in Building
  /\ stopped' = stopped \cup {o}
  /\ status' = [status EXCEPT ![o] = "FAILED"]
  /\ Notify(o, "FAILED")
  /\ bridge' = [bridge EXCEPT ![o] = IF @ = "building" THEN "startFails" ELSE "givesUp"]
  /\ UNCHANGED <<started, stopping, process, awaited>>

\* A reconnect that finds stopped set between two attempts returns.
ReconnectAbandoned(o) ==
  /\ bridge[o] = "rebuilding"
  /\ o \in stopped
  /\ bridge' = [bridge EXCEPT ![o] = "down"]
  /\ UNCHANGED <<sessions, recent, started, status, stopped, notified, stopping,
                 process, awaited>>

\* The teardown of failSession() is over.  When start() then rejects, the catch
\* of startSession() removes whatever the map has under the id.
FailEnds(o) ==
  /\ bridge[o] \in {"startFails", "givesUp"}
  /\ sessions' = IF bridge[o] = "startFails" THEN [sessions EXCEPT ![o[1]] = 0] ELSE sessions
  /\ bridge' = [bridge EXCEPT ![o] = "down"]
  /\ UNCHANGED <<recent, started, status, stopped, notified, stopping, process, awaited>>

-----------------------------------------------------------------------------
(* Health checks of a session                                              *)

BridgeBreaks(o) ==
  /\ Live(o)
  /\ bridge[o] = "live"
  /\ status' = [status EXCEPT ![o] = "RECONNECTING"]
  /\ bridge' = [bridge EXCEPT ![o] = "rebuilding"]
  /\ UNCHANGED <<sessions, recent, started, stopped, notified, stopping, process, awaited>>

\* stop() up to its teardown.
BeginStop(S, caller) ==
  /\ stopped' = stopped \cup S
  /\ status' = [o \in Orchestrators |-> IF o \in S THEN "TERMINATING" ELSE status[o]]
  /\ stopping' = [o \in Orchestrators |-> IF o \in S THEN caller ELSE stopping[o]]
  /\ bridge' = [o \in Orchestrators |->
                 IF o \in S /\ bridge[o] = "live" THEN "closing" ELSE bridge[o]]

MeetingEnds(o) ==
  /\ Live(o)
  /\ bridge[o] # "building"
  /\ BeginStop({o}, "meeting")
  /\ UNCHANGED <<sessions, recent, started, notified, process, awaited>>

-----------------------------------------------------------------------------
(* StopSession, GetSessionStatus and shutdown                              *)

InMap(id) == <<id, sessions[id]>>

StopSession(id) ==
  /\ sessions[id] # 0
  /\ InMap(id) \notin stopped
  /\ BeginStop({InMap(id)}, "request")
  /\ UNCHANGED <<sessions, recent, started, notified, process, awaited>>

\* A second stop() returns at once, with the status of the moment, which is
\* remembered as if it were the last.
StopSessionAgain(id) ==
  /\ sessions[id] # 0
  /\ InMap(id) \in stopped
  /\ Retire(id, status[InMap(id)])
  /\ UNCHANGED <<started, orchestrators, process, awaited>>

\* Mutant: the request remembers the snapshot from before the teardown.
StopEndsTooEarly(o) ==
  /\ stopping[o] \in {"request", "meeting"}
  /\ stopping' = [stopping EXCEPT ![o] = "done"]
  /\ status' = [status EXCEPT ![o] = "TERMINATED"]
  /\ notified' = notified \cup {o}
  /\ Retire(o[1], IF stopping[o] = "request" THEN "TERMINATING" ELSE "TERMINATED")
  /\ bridge' = [bridge EXCEPT ![o] = IF @ = "closing" THEN "down" ELSE @]
  /\ UNCHANGED <<started, stopped, process, awaited>>

\* stop() returns: onTerminal first, then the rest of stopSession().
StopEnds(o) ==
  /\ stopping[o] \in {"request", "meeting"}
  /\ stopping' = [stopping EXCEPT ![o] = "done"]
  /\ status' = [status EXCEPT ![o] = "TERMINATED"]
  /\ IF stopping[o] = "request"
     THEN notified' = notified \cup {o} /\ Retire(o[1], "TERMINATED")
     ELSE Notify(o, "TERMINATED")
  /\ bridge' = [bridge EXCEPT ![o] = IF @ = "closing" THEN "down" ELSE @]
  /\ UNCHANGED <<started, stopped, process, awaited>>

\* The answer comes from the orchestrator in the map, which changes nothing, or
\* from the recent snapshots, where the asked one moves to the end.
GetSessionStatus(id) ==
  /\ sessions[id] = 0
  /\ \E i \in Remembered(id) : recent' = Latest(id, recent[i].status)
  /\ UNCHANGED <<sessions, started, orchestrators, process, awaited>>

\* SIGTERM: stopSession() for every key of the map at that moment.  The server
\* still takes calls.
Shutdown ==
  LET present == {InMap(id) : id \in {i \in Ids : sessions[i] # 0}}
  IN  /\ process = "up"
      /\ process' = "shutdown"
      /\ present \cap stopped = {}
      /\ BeginStop(present, "request")
      /\ awaited' = present
      /\ UNCHANGED <<sessions, recent, started, notified>>

\* The same, when some of them are being stopped already: their stopSession()
\* returns at once.
ShutdownMeetsStop ==
  LET present == {InMap(id) : id \in {i \in Ids : sessions[i] # 0}}
      again == {id \in Ids : sessions[id] # 0 /\ InMap(id) \in stopped}
  IN  /\ process = "up"
      /\ process' = "shutdown"
      /\ BeginStop(present \ stopped, "request")
      /\ awaited' = present \ stopped
      /\ sessions' = [id \in Ids |-> IF id \in again THEN 0 ELSE sessions[id]]
      /\ \E id \in again :
           /\ again = {id}      \* bound: one such session
           /\ recent' = Latest(id, status[InMap(id)])
      /\ UNCHANGED <<started, notified>>

\* Mutant: the shutdown waits until no session is left.
ExitWhenEmpty ==
  /\ process = "shutdown"
  /\ \A id \in Ids : sessions[id] = 0
  /\ process' = "exited"
  /\ UNCHANGED <<sessions, recent, started, orchestrators, awaited>>

Exit ==
  /\ process = "shutdown"
  /\ \A o \in awaited : stopping[o] = "done"
  /\ process' = "exited"
  /\ UNCHANGED <<sessions, recent, started, orchestrators, awaited>>

-----------------------------------------------------------------------------
Progress(o) == BuildEnds(o) \/ BuildFails(o) \/ ReconnectAbandoned(o)

Next ==
  /\ process # "exited"
  /\ \/ \E id \in Ids :
          \/ StartSession(id) \/ StopSession(id) \/ StopSessionAgain(id)
          \/ GetSessionStatus(id)
     \/ \E o \in Orchestrators :
          Progress(o) \/ FailEnds(o) \/ BridgeBreaks(o) \/ MeetingEnds(o) \/ StopEnds(o)
     \/ Shutdown \/ ShutdownMeetsStop \/ Exit

Spec == Init /\ [][Next]_vars

\* The builds and teardowns of a session come back, unless a foreign signal has
\* ended one of its Xvfb or ffmpeg processes: terminateProcess() then waits for a
\* close that is over, and with it the catch of allocate(), the loop of a
\* reconnect, failSession() and stop() may wait forever.  Nothing is assumed of
\* such a session.  That the others come back, when the browsers and commands
\* they await answer, is what KeepsLifecycle of SessionOrchestrator, StopCompletes
\* of SessionOnPool and TeardownCompletes of MediaPipeline check.
Fairness ==
  /\ WF_vars(Exit)
  /\ \A o \in Returning :
       /\ WF_vars(process # "exited" /\ Progress(o))
       /\ WF_vars(process # "exited" /\ FailEnds(o))
       /\ WF_vars(process # "exited" /\ StopEnds(o))

FairSpec == Spec /\ Fairness

-----------------------------------------------------------------------------
(* Properties                                                              *)

\* An id is in the map, or has a recent snapshot, never both, so the two
\* lookups of stopSession() and getSessionStatus() cannot disagree.  A session
\* that has reported its end is out of the map: heartbeats do not count it and
\* its id is free.
OnePlace ==
  \A id \in Ids :
    sessions[id] # 0 => Remembered(id) = {} /\ InMap(id) \notin notified

\* A bridge that nobody stopped and that has not failed can be stopped: it is
\* in the map under its id, so stopSession() and shutdown() find it.
Reachable == \A o \in Orchestrators : Live(o) => InMap(o[1]) = o

\* What getSessionStatus() would tell of id.
Answer(id) ==
  IF sessions[id] # 0 THEN status[InMap(id)]
  ELSE IF Remembered(id) = {} THEN "unknown"
  ELSE recent[CHOOSE i \in Remembered(id) : TRUE].status

\* Once the worker has told that a session is over, it never tells anything
\* else of it but that it is not found, until the id is started again.
AnswersSettle ==
  [][\A id \in Ids : Answer(id) \in Terminal =>
        \/ Answer(id)' \in Terminal \cup {"unknown"}
        \/ started'[id] # started[id]]_vars

\* The promise of SessionWorker, on which ControlPlane is built: the map, the
\* recent snapshots and the shutdown together tell of each session what the
\* control plane takes for possible.  The session of an id is its last one, and
\* a process that has exited is one that knows nothing.
Last(id) == <<id, started[id]>>

Told == [id \in Ids |-> IF process = "exited" THEN "unknown" ELSE Answer(id)]
Bridge ==
  [id \in Ids |->
    IF started[id] = 0 THEN "none"
    ELSE IF process = "exited" \/ bridge[Last(id)] \in {"startFails", "givesUp"} THEN "down"
    ELSE bridge[Last(id)]]
Stopping ==
  {id \in Ids : process # "exited" /\ started[id] # 0
                /\ stopping[Last(id)] \in {"request", "meeting"}}

Worker == INSTANCE SessionWorker WITH
  SessionIds <- Ids, told <- Told, bridge <- Bridge, stopping <- Stopping

ServesSessions == Worker!Spec

\* A session that is being stopped or has failed leaves the map, whatever the
\* others wait for; only one whose own teardown a foreign signal holds up may
\* stay in it.
StopSettles ==
  \A o \in Returning :
    o \in stopped ~> InMap(o[1]) # o \/ process = "exited"

\* A shutdown comes to its end when it awaits no session that a foreign signal
\* may hold up: stops that were under way, failures, rebuilds and calls that
\* come in meanwhile do not keep it.
ShutdownEnds ==
  process = "shutdown" /\ awaited \subseteq Returning ~> process = "exited"
=============================================================================
