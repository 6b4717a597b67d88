---------------------------- MODULE ControlPlane ----------------------------
(***************************************************************************)
(* The session API of the control plane: POST, GET and DELETE of a         *)
(* session, its record in the in-memory store, and the gRPC calls to the   *)
(* worker that has the bridge.  A handler reads the store, calls the       *)
(* worker with a deadline and writes the store; handlers interleave at     *)
(* these three points, and a call that fails here may have been served     *)
(* there.                                                                  *)
(*                                                                         *)
(* The worker is a SessionWorker, which WorkerRuntime implements: three    *)
(* calls, and an answer for each session it knows.  Session ids are random *)
(* and used once.                                                          *)
(***************************************************************************)
CONSTANTS
  SessionIds,
  Handlers     \* bound: the GET and DELETE requests served at the same time

VARIABLES
  store,       \* Status of the session's store, or "absent"
  create,      \* the POST handler of each session
  call,        \* its StartSession call, seen from the worker
  handler,     \* the GET or DELETE a handler serves, or Free
  told, bridge, stopping,   \* the worker: see SessionWorker
  lost,        \* history: POST failed although its call was not refused
  interrupted, \* history: stopped while the bridge was being built
  deleted      \* history: a DELETE was answered with 200

worker == <<told, bridge, stopping>>
vars == <<store, create, call, handler, worker, lost, interrupted, deleted>>

Worker == INSTANCE SessionWorker
Terminal == Worker!Terminal
Status == Worker!Status

Free == [op |-> "none"]
Request == [op : {"get", "stop"}, id : SessionIds,
            at : {"sent", "waiting", "answered"}, answer : Status \cup {"none", "error"}]

TypeOK ==
  /\ store \in [SessionIds -> Status \cup {"absent"}]
  /\ create \in [SessionIds -> {"none", "calling", "done"}]
  /\ call \in [SessionIds -> {"none", "sent", "running", "ok", "error"}]
  /\ handler \in [Handlers -> Request \cup {Free}]
  /\ Worker!TypeOK
  /\ lost \subseteq SessionIds
  /\ interrupted \subseteq SessionIds
  /\ deleted \subseteq SessionIds

Init ==
  /\ store = [s \in SessionIds |-> "absent"]
  /\ create = [s \in SessionIds |-> "none"]
  /\ call = [s \in SessionIds |-> "none"]
  /\ handler = [h \in Handlers |-> Free]
  /\ Worker!Init
  /\ lost = {}
  /\ interrupted = {}
  /\ deleted = {}

-----------------------------------------------------------------------------
(* The store                                                               *)

\* UpdateStatus(): the last writer wins.
UpdateStatus(s, st) == store' = [store EXCEPT ![s] = IF @ = "absent" THEN @ ELSE st]

-----------------------------------------------------------------------------
(* POST /v1/sessions                                                       *)

\* Up to the call; without an online node nothing happens.
Create(s) ==
  /\ create[s] = "none"
  /\ store' = [store EXCEPT ![s] = "CREATED"]
  /\ create' = [create EXCEPT ![s] = "calling"]
  /\ call' = [call EXCEPT ![s] = "sent"]
  /\ UNCHANGED <<handler, worker, lost, interrupted, deleted>>

CreateAnswered(s) ==
  /\ create[s] = "calling"
  /\ call[s] = "ok"
  /\ UpdateStatus(s, "BRIDGING")
  /\ create' = [create EXCEPT ![s] = "done"]
  /\ UNCHANGED <<call, handler, worker, lost, interrupted, deleted>>

\* The worker refuses, or twenty seconds are over, the connection breaks or the
\* client leaves: FAILED.  A call that has arrived goes on at the worker.
CreateFails(s) ==
  /\ create[s] = "calling"
  /\ UpdateStatus(s, "FAILED")
  /\ create' = [create EXCEPT ![s] = "done"]
  /\ lost' = IF call[s] = "error" THEN lost ELSE lost \cup {s}
  /\ call' = [call EXCEPT ![s] = IF @ = "sent" THEN "none" ELSE @]
  /\ UNCHANGED <<handler, worker, interrupted, deleted>>

-----------------------------------------------------------------------------
(* GET and DELETE /v1/sessions/:id                                         *)

Open(s) == store[s] \notin Terminal \cup {"absent"}

Serve(h, op, s) ==
  /\ handler[h] = Free
  /\ handler' = [handler EXCEPT ![h] =
                   [op |-> op, id |-> s, at |-> "sent", answer |-> "none"]]
  /\ UNCHANGED <<store, create, call, worker, lost, interrupted, deleted>>

\* Mutant: a session that is being stopped is not refreshed.
GetUnlessStopping(h, s) == Open(s) /\ store[s] # "TERMINATING" /\ Serve(h, "get", s)

\* refreshSessionStatus() up to its call.  A GET of a session that is over, or
\* unknown, only reads.
Get(h, s) == Open(s) /\ Serve(h, "get", s)

Delete(h, s) == Open(s) /\ Serve(h, "stop", s)

\* A session that is over in the store is answered from there.
DeleteOfEnded(s) ==
  /\ store[s] \in Terminal
  /\ deleted' = deleted \cup {s}
  /\ UNCHANGED <<store, create, call, handler, worker, lost, interrupted>>

At(h, op, where) == handler[h] # Free /\ handler[h].op = op /\ handler[h].at = where

\* Mutant: the error of the call is not looked at.
GetEndsUnchecked(h) ==
  /\ At(h, "get", "answered")
  /\ UpdateStatus(handler[h].id, handler[h].answer)
  /\ handler' = [handler EXCEPT ![h] = Free]
  /\ UNCHANGED <<create, call, worker, lost, interrupted, deleted>>

GetEnds(h) ==
  /\ At(h, "get", "answered")
  /\ handler[h].answer # "error"
  /\ UpdateStatus(handler[h].id, handler[h].answer)
  /\ handler' = [handler EXCEPT ![h] = Free]
  /\ UNCHANGED <<create, call, worker, lost, interrupted, deleted>>

DeleteEnds(h) ==
  /\ At(h, "stop", "answered")
  /\ handler[h].answer # "error"
  /\ UpdateStatus(handler[h].id, handler[h].answer)
  /\ deleted' = deleted \cup {handler[h].id}
  /\ handler' = [handler EXCEPT ![h] = Free]
  /\ UNCHANGED <<create, call, worker, lost, interrupted>>

\* Mutant: a worker that does not answer has lost its session.
CallFailsSession(h) ==
  /\ handler[h] # Free
  /\ UpdateStatus(handler[h].id, "FAILED")
  /\ handler' = [handler EXCEPT ![h] = Free]
  /\ UNCHANGED <<create, call, worker, lost, interrupted, deleted>>

\* An error, a deadline or a client that leaves: the record stays as it is.
CallFails(h) ==
  /\ handler[h] # Free
  /\ handler' = [handler EXCEPT ![h] = Free]
  /\ UNCHANGED <<store, create, call, worker, lost, interrupted, deleted>>

-----------------------------------------------------------------------------
(* The worker, and the calls that it takes                                 *)

WorkerUnchanged == UNCHANGED <<store, create, lost, deleted>>

Calls(s, before, after) == call' = [call EXCEPT ![s] = IF @ = before THEN after ELSE @]

StartArrives(s) ==
  /\ call[s] = "sent"
  /\ Worker!StartSession(s)
  /\ Calls(s, "sent", "running")
  /\ UNCHANGED <<handler, interrupted>>
  /\ WorkerUnchanged

BridgeBuilt(s) ==
  /\ Worker!BridgeBuilt(s)
  /\ Calls(s, "running", "ok")
  /\ UNCHANGED <<handler, interrupted>>
  /\ WorkerUnchanged

BridgeFails(s) ==
  /\ Worker!BridgeFails(s)
  /\ Calls(s, "running", "error")
  /\ UNCHANGED <<handler, interrupted>>
  /\ WorkerUnchanged

\* A reconnect that gives up because it is stopped; a thousand sessions later
\* the snapshot of a session is evicted.
ByItself(s) ==
  /\ Worker!BridgeBreaks(s) \/ Worker!ReconnectAbandoned(s) \/ Worker!SnapshotEvicted(s)
  /\ UNCHANGED <<call, handler, interrupted>>
  /\ WorkerUnchanged

BeginStop(s) ==
  /\ Worker!BeginStop({s})
  /\ interrupted' = IF bridge[s] = "live" THEN interrupted ELSE interrupted \cup {s}

\* A health check may find the meeting ended when a reconnect has begun.
MeetingEnds(s) ==
  /\ bridge[s] \in {"live", "rebuilding"}
  /\ BeginStop(s)
  /\ UNCHANGED <<call, handler>>
  /\ WorkerUnchanged

Answer(h, answer) ==
  handler' = [handler EXCEPT ![h].at = "answered", ![h].answer = answer]

\* StopSession of a session that the worker does not know, that is over or
\* being stopped is answered at once.
StopArrives(h) ==
  /\ At(h, "stop", "sent")
  /\ LET s == handler[h].id
     IN  IF s \in Worker!Stoppable
         THEN BeginStop(s) /\ handler' = [handler EXCEPT ![h].at = "waiting"]
         ELSE /\ Answer(h, IF Worker!Known(s) THEN told[s] ELSE "error")
              /\ UNCHANGED <<worker, interrupted>>
  /\ UNCHANGED call
  /\ WorkerUnchanged

\* The requests whose stop() has come to its end.
StopEnds(s) ==
  /\ Worker!StopEnds(s)
  /\ handler' = [h \in Handlers |->
                   IF At(h, "stop", "waiting") /\ handler[h].id = s
                   THEN [handler[h] EXCEPT !.at = "answered", !.answer = "TERMINATED"]
                   ELSE handler[h]]
  /\ UNCHANGED <<call, interrupted>>
  /\ WorkerUnchanged

StatusAsked(h) ==
  /\ At(h, "get", "sent")
  /\ LET s == handler[h].id IN Answer(h, IF Worker!Known(s) THEN told[s] ELSE "error")
  /\ UNCHANGED <<call, worker, interrupted>>
  /\ WorkerUnchanged

\* The process dies and starts again.
WorkerRestarts ==
  /\ Worker!Restart
  /\ call' = [s \in SessionIds |-> IF call[s] = "running" THEN "error" ELSE call[s]]
  /\ handler' = [h \in Handlers |->
                   IF At(h, "stop", "waiting")
                   THEN [handler[h] EXCEPT !.at = "answered", !.answer = "error"]
                   ELSE handler[h]]
  /\ UNCHANGED interrupted
  /\ WorkerUnchanged

\* The control plane starts again with an empty store; the workers go on.
ControlPlaneRestarts ==
  /\ store' = [s \in SessionIds |-> "absent"]
  /\ create' = [s \in SessionIds |-> IF create[s] = "none" THEN "none" ELSE "done"]
  /\ handler' = [h \in Handlers |-> Free]
  /\ UNCHANGED <<call, worker, lost, interrupted, deleted>>

-----------------------------------------------------------------------------
Api(h) == GetEnds(h) \/ DeleteEnds(h) \/ CallFails(h) \/ StopArrives(h) \/ StatusAsked(h)

Next ==
  \/ \E s \in SessionIds :
       \/ Create(s) \/ CreateAnswered(s) \/ CreateFails(s) \/ DeleteOfEnded(s)
       \/ StartArrives(s) \/ BridgeBuilt(s) \/ BridgeFails(s) \/ ByItself(s)
       \/ MeetingEnds(s) \/ StopEnds(s)
       \/ \E h \in Handlers : Get(h, s) \/ Delete(h, s)
  \/ \E h \in Handlers : Api(h)
  \/ WorkerRestarts \/ ControlPlaneRestarts

Spec == Init /\ [][Next]_vars

\* Every handler ends, by its deadline if not before; a client that polls a
\* session is served again and again, and not every one of its calls fails.
Polled ==
  /\ \A h \in Handlers :
       /\ WF_vars(Api(h))
       /\ SF_vars(StatusAsked(h))
       /\ SF_vars(GetEnds(h))
  /\ \A s \in SessionIds : SF_vars(\E h \in Handlers : Get(h, s))

FairSpec == Spec /\ Polled

-----------------------------------------------------------------------------
(* Properties                                                              *)

\* The record of a session whose POST got the worker's answer, and which was
\* not stopped while its bridge was being built, is over only if the bridge is:
\* failed calls, late answers and restarts never end it by mistake.
EndIsReal ==
  \A s \in SessionIds \ (lost \cup interrupted) :
    store[s] \in Terminal => bridge[s] \notin Worker!Standing

\* A polled session that is over on the worker is over in the store, sooner or
\* later, whatever stale answers were written in between.
StoreCatchesUp ==
  \A s \in SessionIds :
    told[s] \in Terminal
      ~> store[s] \in Terminal \cup {"absent"} \/ told[s] = "unknown"

\* DELETE stops the session: once it was answered with 200 no bridge stands.
DeleteStops == \A s \in deleted : bridge[s] \notin Worker!Standing
=============================================================================
