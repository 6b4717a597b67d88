---------------------------- MODULE SessionWorker ----------------------------
(***************************************************************************)
(* What a worker offers to the control plane: what it tells of each        *)
(* session, and the bridge behind the answer.  ControlPlane is built on    *)
(* this; WorkerRuntime, with its map, its recent snapshots and its         *)
(* shutdown, implements it.                                                *)
(*                                                                         *)
(* The snapshots of sessions that are over are few: whenever the worker    *)
(* remembers one it may forget others.                                     *)
(***************************************************************************)
CONSTANT SessionIds

VARIABLES
  told,        \* what getSessionStatus() answers, "unknown" when it throws
  bridge,      \* the bridge itself
  stopping     \* the sessions whose stop() tears down

vars == <<told, bridge, stopping>>

Terminal == {"FAILED", "TERMINATED"}
Status == {"CREATED", "INITIALIZING", "BRIDGING", "RECONNECTING", "TERMINATING"}
          \cup Terminal

\* The bridges that are up or will be.
Standing == {"building", "live", "rebuilding"}

TypeOK ==
  /\ told \in [SessionIds -> Status \cup {"unknown"}]
  /\ bridge \in [SessionIds -> {"none", "closing", "down"} \cup Standing]
  /\ stopping \subseteq SessionIds

Init ==
  /\ told = [s \in SessionIds |-> "unknown"]
  /\ bridge = [s \in SessionIds |-> "none"]
  /\ stopping = {}

Known(s) == told[s] # "unknown"
Over(s) == told[s] \in Terminal

\* The snapshot of a session that is over, or that two requests stop.
Forgettable(s) == Over(s) \/ s \in stopping

\* The sessions of S get an answer from A, and some snapshots may be evicted.
Tells(S, A) ==
  \E answer \in A, gone \in SUBSET {s \in SessionIds \ S : Forgettable(s)} :
    told' = [s \in SessionIds |->
              IF s \in S THEN answer ELSE IF s \in gone THEN "unknown" ELSE told[s]]

-----------------------------------------------------------------------------
StartSession(s) ==
  /\ ~Known(s) \/ Over(s)
  /\ Tells({s}, {"INITIALIZING"})
  /\ bridge' = [bridge EXCEPT ![s] = "building"]
  /\ UNCHANGED stopping

\* start() does not look at stopped: the bridge may come up behind a stop(),
\* and is reported then if the session is still in the map.
BridgeBuilt(s) ==
  /\ bridge[s] \in {"building", "rebuilding"}
  /\ bridge' = [bridge EXCEPT ![s] = "live"]
  /\ Tells({s}, (IF Known(s) /\ ~Over(s) THEN {"BRIDGING"} ELSE {})
                \cup (IF Forgettable(s) \/ ~Known(s) THEN {told[s]} ELSE {}))
  /\ UNCHANGED stopping

\* A session that has ended with one status does not end with another one.
BridgeFails(s) ==
  /\ bridge[s] \in {"building", "rebuilding"}
  /\ bridge' = [bridge EXCEPT ![s] = "down"]
  /\ Tells({s}, (IF ~Over(s) /\ (Known(s) \/ s \in stopping) THEN {"FAILED"} ELSE {})
                \cup (IF Over(s) \/ ~Known(s) THEN {told[s]} ELSE {}))
  /\ UNCHANGED stopping

\* A reconnect sees between two attempts that the session is stopped.
ReconnectAbandoned(s) ==
  /\ bridge[s] = "rebuilding"
  /\ told[s] # "RECONNECTING"
  /\ bridge' = [bridge EXCEPT ![s] = "down"]
  /\ UNCHANGED <<told, stopping>>

BridgeBreaks(s) ==
  /\ bridge[s] = "live"
  /\ told[s] = "BRIDGING"
  /\ s \notin stopping
  /\ bridge' = [bridge EXCEPT ![s] = "rebuilding"]
  /\ Tells({s}, {"RECONNECTING"})
  /\ UNCHANGED stopping

Stoppable == {s \in SessionIds : Known(s) /\ ~Over(s) /\ s \notin stopping}

\* stop() up to its teardown: by a request, by the shutdown for several, or by
\* a health check that finds the meeting ended.
BeginStop(S) ==
  /\ S \subseteq Stoppable
  /\ stopping' = stopping \cup S
  /\ Tells(S, {"TERMINATING"})
  /\ bridge' = [s \in SessionIds |->
                 IF s \in S /\ bridge[s] = "live" THEN "closing" ELSE bridge[s]]

\* stop() returns.  A bridge that was being built is nobody's from now on.
StopEnds(s) ==
  /\ s \in stopping
  /\ stopping' = stopping \ {s}
  /\ Tells({s}, {"TERMINATED"} \cup (IF Over(s) \/ ~Known(s) THEN {told[s]} ELSE {}))
  /\ bridge' = [bridge EXCEPT ![s] = IF @ = "closing" THEN "down" ELSE @]

SnapshotEvicted(s) ==
  /\ Known(s)
  /\ Forgettable(s)
  /\ told' = [told EXCEPT ![s] = "unknown"]
  /\ UNCHANGED <<bridge, stopping>>

\* The process dies or exits, with its bridges, and may start again.
Restart ==
  /\ told' = [s \in SessionIds |-> "unknown"]
  /\ bridge' = [s \in SessionIds |-> IF bridge[s] = "none" THEN "none" ELSE "down"]
  /\ stopping' = {}

Next ==
  \/ \E s \in SessionIds :
       \/ StartSession(s) \/ BridgeBuilt(s) \/ BridgeFails(s) \/ ReconnectAbandoned(s)
       \/ BridgeBreaks(s) \/ StopEnds(s) \/ SnapshotEvicted(s)
  \/ \E S \in SUBSET Stoppable : BeginStop(S)
  \/ Restart

Spec == Init /\ [][Next]_vars
=============================================================================
