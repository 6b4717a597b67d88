------------------------- MODULE ControlPlaneProofs -------------------------
(***************************************************************************)
(* Theorems about ControlPlane, for every set of sessions and every number *)
(* of requests served at the same time.                                    *)
(***************************************************************************)
EXTENDS ControlPlane, TLAPS

\* The worker has not seen the session: its StartSession call has not arrived.
Unseen(s) == call[s] \in {"none", "sent"}

\* A request that came back from the worker has an answer.
AnswersGiven ==
  \A h \in Handlers :
    handler[h] # Free => (handler[h].at = "answered" <=> handler[h].answer # "none")

\* A session id is given to one POST, and starts one call.
IdUsedOnce ==
  \A s \in SessionIds :
    /\ create[s] = "none" => call[s] = "none" /\ store[s] = "absent"
    /\ call[s] = "none" => create[s] = "none" \/ s \in lost

\* Until the call arrives the worker knows nothing of the session, ...
NothingToTell ==
  \A s \in SessionIds :
    Unseen(s) => told[s] = "unknown" /\ bridge[s] = "none" /\ s \notin stopping

\* ... whoever asks is told so, ...
NothingAnswered ==
  \A h \in Handlers :
    handler[h] # Free /\ Unseen(handler[h].id)
      => handler[h].at # "waiting" /\ handler[h].answer \in {"none", "error"}

\* ... and the record is as POST wrote it.
RecordAsCreated ==
  \A s \in SessionIds \ lost : Unseen(s) => store[s] \in {"absent", "CREATED"}

\* A stop() that did not interrupt a build has the bridge to tear down.
StopHasBridge == \A s \in stopping \ interrupted : bridge[s] \in {"closing", "down"}

\* Whatever may end the record of a session later, a snapshot, the error of its
\* StartSession or an answer on its way, is there only when the bridge is gone.
EndsAreReal ==
  \A s \in SessionIds \ (lost \cup interrupted) :
    \/ told[s] \in Terminal
    \/ call[s] = "error"
    \/ store[s] \in Terminal
    \/ \E h \in Handlers :
         handler[h] # Free /\ handler[h].id = s /\ handler[h].answer \in Terminal
    => bridge[s] \notin Worker!Standing

IInv ==
  /\ TypeOK
  /\ AnswersGiven
  /\ IdUsedOnce
  /\ NothingToTell
  /\ NothingAnswered
  /\ RecordAsCreated
  /\ StopHasBridge
  /\ EndsAreReal

\* Nothing is recorded, sent or told at first.
LEMMA IInvInit == Init => IInv
<1> SUFFICES ASSUME Init
             PROVE  IInv
  OBVIOUS
<1>1. TypeOK
  BY DEF Init, TypeOK, Worker!Init, Worker!TypeOK
<1>2. QED
  BY <1>1 DEF Init, Worker!Init, IInv, AnswersGiven, IdUsedOnce, NothingToTell,
     NothingAnswered, RecordAsCreated, StopHasBridge, EndsAreReal, Worker!Standing

\* An answer to one session leaves the others as they are, or forgotten.
LEMMA TellsMeans ==
  ASSUME Worker!TypeOK, NEW s \in SessionIds,
         NEW A \in SUBSET (Worker!Status \cup {"unknown"}), Worker!Tells({s}, A)
  PROVE  /\ told' \in [SessionIds -> Worker!Status \cup {"unknown"}]
         /\ told'[s] \in A
         /\ \A r \in SessionIds \ {s} : told'[r] \in {told[r], "unknown"}
BY DEF Worker!Tells, Worker!TypeOK

\* What a step of the worker for one session does to the others.
Elsewhere(s) ==
  \A r \in SessionIds \ {s} :
    /\ told'[r] \in {told[r], "unknown"}
    /\ bridge'[r] = bridge[r]
    /\ r \in stopping' <=> r \in stopping

\* A StartSession that arrives begins one bridge and leaves the others alone.
LEMMA StartSessionMeans ==
  ASSUME Worker!TypeOK, NEW s \in SessionIds, Worker!StartSession(s)
  PROVE  /\ Worker!TypeOK' /\ Elsewhere(s)
         /\ told'[s] = "INITIALIZING" /\ stopping' = stopping
<1> DEFINE A == {"INITIALIZING"}
<1>1. Worker!Tells({s}, A) /\ A \subseteq Worker!Status \cup {"unknown"}
  BY DEF Worker!StartSession, Worker!Status
<1> HIDE DEF A
<1>2. /\ told' \in [SessionIds -> Worker!Status \cup {"unknown"}] /\ told'[s] \in A
      /\ \A r \in SessionIds \ {s} : told'[r] \in {told[r], "unknown"}
  BY <1>1, TellsMeans
<1>3. QED
  BY <1>2 DEF A, Worker!StartSession, Worker!TypeOK, Worker!Standing, Elsewhere

\* Only a bridge that stood or was being built is told to be BRIDGING.
LEMMA BridgeBuiltMeans ==
  ASSUME Worker!TypeOK, NEW s \in SessionIds, Worker!BridgeBuilt(s)
  PROVE  /\ Worker!TypeOK' /\ Elsewhere(s)
         /\ bridge[s] \in Worker!Standing
         /\ stopping' = stopping
         /\ told'[s] \in {"BRIDGING", told[s]}
<1> DEFINE A == (IF Worker!Known(s) /\ ~Worker!Over(s) THEN {"BRIDGING"} ELSE {})
                \cup (IF Worker!Forgettable(s) \/ ~Worker!Known(s) THEN {told[s]} ELSE {})
<1>1. Worker!Tells({s}, A) /\ A \subseteq {"BRIDGING", told[s]}
  BY DEF Worker!BridgeBuilt
<1>2. A \subseteq Worker!Status \cup {"unknown"}
  BY DEF Worker!TypeOK, Worker!Status
<1> HIDE DEF A
<1>3. QED
  BY <1>1, <1>2, TellsMeans DEF Worker!BridgeBuilt, Worker!TypeOK, Worker!Standing,
     Elsewhere

\* A bridge that fails is down before the worker tells of it.
LEMMA BridgeFailsMeans ==
  ASSUME Worker!TypeOK, NEW s \in SessionIds, Worker!BridgeFails(s)
  PROVE  /\ Worker!TypeOK' /\ Elsewhere(s)
         /\ bridge[s] \in Worker!Standing
         /\ bridge'[s] = "down"
         /\ stopping' = stopping
<1> DEFINE A == (IF ~Worker!Over(s) /\ (Worker!Known(s) \/ s \in stopping)
                 THEN {"FAILED"} ELSE {})
                \cup (IF Worker!Over(s) \/ ~Worker!Known(s) THEN {told[s]} ELSE {})
<1>1. Worker!Tells({s}, A) /\ A \subseteq {"FAILED", told[s]}
  BY DEF Worker!BridgeFails
<1>2. A \subseteq Worker!Status \cup {"unknown"}
  BY DEF Worker!TypeOK, Worker!Status, Worker!Terminal
<1> HIDE DEF A
<1>3. QED
  BY <1>1, <1>2, TellsMeans DEF Worker!BridgeFails, Worker!TypeOK, Elsewhere

\* What a session does with nobody asking.
LEMMA ByItselfMeans ==
  ASSUME Worker!TypeOK, NEW s \in SessionIds,
         Worker!BridgeBreaks(s) \/ Worker!ReconnectAbandoned(s) \/ Worker!SnapshotEvicted(s)
  PROVE  /\ Worker!TypeOK' /\ Elsewhere(s)
         /\ told[s] # "unknown" \/ bridge[s] \in Worker!Standing
         /\ bridge'[s] # bridge[s] =>
              \/ bridge[s] \in Worker!Standing /\ s \notin stopping
              \/ bridge'[s] = "down"
         /\ told'[s] \in {told[s], "RECONNECTING", "unknown"}
         /\ stopping' = stopping
<1>1. CASE Worker!BridgeBreaks(s)
  <2> DEFINE A == {"RECONNECTING"}
  <2>1. Worker!Tells({s}, A) /\ A \subseteq Worker!Status \cup {"unknown"}
    BY <1>1 DEF Worker!BridgeBreaks, Worker!Status
  <2> HIDE DEF A
  <2>2. /\ told' \in [SessionIds -> Worker!Status \cup {"unknown"}] /\ told'[s] \in A
        /\ \A r \in SessionIds \ {s} : told'[r] \in {told[r], "unknown"}
    BY <2>1, TellsMeans
  <2>3. QED
    BY <1>1, <2>2 DEF A, Worker!BridgeBreaks, Worker!TypeOK, Worker!Standing, Elsewhere
<1>2. CASE Worker!ReconnectAbandoned(s)
  BY <1>2 DEF Worker!ReconnectAbandoned, Worker!TypeOK, Elsewhere
<1>3. CASE Worker!SnapshotEvicted(s)
  BY <1>3 DEF Worker!SnapshotEvicted, Worker!Known, Worker!TypeOK, Elsewhere
<1>4. QED
  BY <1>1, <1>2, <1>3

\* A stop() that finds its bridge at rest takes it down.
LEMMA BeginStopMeans ==
  ASSUME Worker!TypeOK, NEW s \in SessionIds, BeginStop(s)
  PROVE  /\ Worker!TypeOK' /\ Elsewhere(s)
         /\ told[s] # "unknown" /\ told'[s] = "TERMINATING"
         /\ stopping' = stopping \cup {s}
         /\ IF bridge[s] = "live"
            THEN bridge'[s] = "closing" /\ interrupted' = interrupted
            ELSE bridge'[s] = bridge[s] /\ interrupted' = interrupted \cup {s}
<1> DEFINE A == {"TERMINATING"}
<1>1. /\ Worker!Tells({s}, A) /\ A \subseteq Worker!Status \cup {"unknown"}
      /\ s \in Worker!Stoppable
  BY DEF BeginStop, Worker!BeginStop, Worker!Status
<1> HIDE DEF A
<1>2. /\ told' \in [SessionIds -> Worker!Status \cup {"unknown"}] /\ told'[s] \in A
      /\ \A r \in SessionIds \ {s} : told'[r] \in {told[r], "unknown"}
  BY <1>1, TellsMeans
<1>3. QED
  BY <1>2 DEF A, BeginStop, Worker!BeginStop, Worker!Stoppable, Worker!Known,
     Worker!TypeOK, Elsewhere

\* The end of a stop() is told when the bridge is gone.
LEMMA StopEndsMeans ==
  ASSUME Worker!TypeOK, NEW s \in SessionIds, Worker!StopEnds(s)
  PROVE  /\ Worker!TypeOK' /\ Elsewhere(s)
         /\ s \in stopping /\ s \notin stopping'
         /\ bridge'[s] = IF bridge[s] = "closing" THEN "down" ELSE bridge[s]
<1> DEFINE A == {"TERMINATED"} \cup (IF Worker!Over(s) \/ ~Worker!Known(s) THEN {told[s]} ELSE {})
<1>1. Worker!Tells({s}, A) /\ A \subseteq {"TERMINATED", told[s]}
  BY DEF Worker!StopEnds
<1>2. A \subseteq Worker!Status \cup {"unknown"}
  BY DEF Worker!TypeOK, Worker!Status, Worker!Terminal
<1> HIDE DEF A
<1>3. QED
  BY <1>1, <1>2, TellsMeans DEF Worker!StopEnds, Worker!TypeOK, Elsewhere

\* A request under way has an id and, perhaps, an answer.
LEMMA HandlerType ==
  ASSUME TypeOK, NEW h \in Handlers, handler[h] # Free
  PROVE  /\ handler[h] \in Request
         /\ handler[h].id \in SessionIds
         /\ handler[h].answer \in Status \cup {"none", "error"}
BY DEF TypeOK, Request

\* A request comes back from the worker with the answer a.
AnswerGiven(h, a) ==
  /\ handler' \in [Handlers -> Request \cup {Free}]
  /\ handler'[h] # Free
  /\ handler'[h].id = handler[h].id
  /\ handler'[h].at = "answered"
  /\ handler'[h].answer = a
  /\ \A k \in Handlers \ {h} : handler'[k] = handler[k]

\* The answer reaches the request that asked, and no other.
LEMMA AnswerMeans ==
  ASSUME TypeOK, NEW h \in Handlers, handler[h] # Free,
         NEW a \in Status \cup {"error"}, Answer(h, a)
  PROVE  AnswerGiven(h, a)
<1>1. handler[h] \in Request
  BY HandlerType
<1>2. /\ handler'[h] = [handler[h] EXCEPT !.at = "answered", !.answer = a]
      /\ handler' = [handler EXCEPT ![h] = handler'[h]]
  BY DEF Answer, TypeOK
<1>3. /\ handler'[h] \in Request /\ handler'[h] # Free
      /\ handler'[h].id = handler[h].id
      /\ handler'[h].at = "answered" /\ handler'[h].answer = a
  BY <1>1, <1>2 DEF Request, Free
<1>4. QED
  BY <1>2, <1>3 DEF AnswerGiven, TypeOK

\* What the worker tells of a session is a right answer to a request.
LEMMA AnswerKeeps ==
  ASSUME IInv, NEW h \in Handlers, handler[h] # Free,
         NEW a \in Status \cup {"error"}, a \in {told[handler[h].id], "error"},
         Unseen(handler[h].id) => a = "error",
         AnswerGiven(h, a),
         UNCHANGED <<store, create, call, worker, lost, interrupted, deleted>>
  PROVE  IInv'
<1> USE DEF AnswerGiven, IInv
<1>1. TypeOK'
  BY DEF TypeOK, worker, Worker!TypeOK
<1>2. AnswersGiven'
  BY DEF AnswersGiven, Status, Worker!Status, Worker!Terminal
<1>3. IdUsedOnce' /\ NothingToTell' /\ RecordAsCreated' /\ StopHasBridge'
  BY DEF IdUsedOnce, NothingToTell, RecordAsCreated, StopHasBridge, Unseen, worker
<1>4. NothingAnswered'
  BY DEF NothingAnswered, Unseen
<1>5. EndsAreReal'
  BY DEF EndsAreReal, worker, Terminal, Worker!Terminal
<1>6. QED
  BY <1>1, <1>2, <1>3, <1>4, <1>5

\* Some requests that wait for the stop() of a session in S get the answer a.
WaitersGet(S, a) ==
  /\ handler' \in [Handlers -> Request \cup {Free}]
  /\ \A h \in Handlers :
       \/ handler'[h] = handler[h]
       \/ /\ handler[h] # Free /\ handler[h].at = "waiting" /\ handler[h].id \in S
          /\ handler'[h] # Free /\ handler'[h].id = handler[h].id
          /\ handler'[h].at = "answered" /\ handler'[h].answer = a

\* Those who wait for a stop() are answered when it ends.
LEMMA WaitersMeans ==
  ASSUME TypeOK, NEW S \in SUBSET SessionIds, NEW a \in Status \cup {"error"},
         handler' = [h \in Handlers |->
                       IF At(h, "stop", "waiting") /\ handler[h].id \in S
                       THEN [handler[h] EXCEPT !.at = "answered", !.answer = a]
                       ELSE handler[h]]
  PROVE  WaitersGet(S, a)
<1>1. ASSUME NEW h \in Handlers, At(h, "stop", "waiting"), handler[h].id \in S
      PROVE  /\ handler'[h] \in Request /\ handler'[h] # Free
             /\ handler'[h].id = handler[h].id
             /\ handler'[h].at = "answered" /\ handler'[h].answer = a
  <2>1. handler[h] \in Request
    BY <1>1, HandlerType DEF At
  <2>2. handler'[h] = [handler[h] EXCEPT !.at = "answered", !.answer = a]
    BY <1>1
  <2>3. QED
    BY <2>1, <2>2 DEF Request, Free
<1>2. ASSUME NEW h \in Handlers, ~(At(h, "stop", "waiting") /\ handler[h].id \in S)
      PROVE  handler'[h] = handler[h] /\ handler'[h] \in Request \cup {Free}
  BY <1>2 DEF TypeOK
<1>3. ASSUME NEW h \in Handlers
      PROVE  handler'[h] \in Request \cup {Free}
  BY <1>1, <1>2
<1>4. QED
  BY <1>1, <1>2, <1>3 DEF WaitersGet, At

\* One step per action.
LEMMA IInvStep == IInv /\ [Next]_vars => IInv'
<1> SUFFICES ASSUME IInv, [Next]_vars
             PROVE  IInv'
  OBVIOUS
<1> USE DEF IInv
<1>1. ASSUME NEW s \in SessionIds, Create(s)
      PROVE  IInv'
  <2> USE <1>1 DEF Create
  <2>1. TypeOK'
    BY DEF TypeOK, worker, Worker!TypeOK, Status, Worker!Status
  <2>2. AnswersGiven' /\ IdUsedOnce'
    BY DEF TypeOK, AnswersGiven, IdUsedOnce
  <2>3. NothingToTell' /\ StopHasBridge'
    BY DEF worker, NothingToTell, Unseen, IdUsedOnce, StopHasBridge
  <2>4. NothingAnswered' /\ RecordAsCreated'
    BY DEF IdUsedOnce, NothingAnswered, Unseen, RecordAsCreated
  <2>5. EndsAreReal'
    BY DEF worker, EndsAreReal, Terminal, Worker!Terminal
  <2>6. QED
    BY <2>1, <2>2, <2>3, <2>4, <2>5
<1>2. ASSUME NEW s \in SessionIds, CreateAnswered(s)
      PROVE  IInv'
  <2> USE <1>2 DEF CreateAnswered, UpdateStatus
  <2>1. TypeOK'
    BY DEF TypeOK, worker, Worker!TypeOK, Status, Worker!Status
  <2>2. AnswersGiven' /\ IdUsedOnce'
    BY DEF AnswersGiven, IdUsedOnce
  <2>3. NothingToTell' /\ StopHasBridge'
    BY DEF worker, NothingToTell, Unseen, StopHasBridge
  <2>4. NothingAnswered' /\ RecordAsCreated'
    BY DEF NothingAnswered, Unseen, RecordAsCreated
  <2>5. EndsAreReal'
    BY DEF worker, EndsAreReal, Terminal, Worker!Terminal
  <2>6. QED
    BY <2>1, <2>2, <2>3, <2>4, <2>5
<1>3. ASSUME NEW s \in SessionIds, CreateFails(s)
      PROVE  IInv'
  <2> USE <1>3 DEF CreateFails, UpdateStatus
  <2>1. TypeOK'
    BY DEF TypeOK, worker, Worker!TypeOK, Status, Worker!Status, Worker!Terminal
  <2>2. AnswersGiven' /\ IdUsedOnce'
    BY DEF AnswersGiven, IdUsedOnce
  <2>3. NothingToTell' /\ StopHasBridge'
    BY DEF worker, NothingToTell, Unseen, StopHasBridge
  <2>4. NothingAnswered' /\ RecordAsCreated'
    BY DEF NothingAnswered, Unseen, RecordAsCreated
  <2>5. EndsAreReal'
    BY DEF worker, EndsAreReal
  <2>6. QED
    BY <2>1, <2>2, <2>3, <2>4, <2>5
<1>4. ASSUME NEW s \in SessionIds, DeleteOfEnded(s)
      PROVE  IInv'
  <2> USE <1>4 DEF DeleteOfEnded
  <2>1. TypeOK'
    BY DEF TypeOK, worker, Worker!TypeOK
  <2>2. AnswersGiven' /\ IdUsedOnce'
    BY DEF AnswersGiven, IdUsedOnce
  <2>3. NothingToTell' /\ StopHasBridge'
    BY DEF worker, NothingToTell, Unseen, StopHasBridge
  <2>4. NothingAnswered' /\ RecordAsCreated'
    BY DEF NothingAnswered, Unseen, RecordAsCreated
  <2>5. EndsAreReal'
    BY DEF worker, EndsAreReal
  <2>6. QED
    BY <2>1, <2>2, <2>3, <2>4, <2>5
<1>5. ASSUME NEW s \in SessionIds, StartArrives(s)
      PROVE  IInv'
  <2> USE <1>5 DEF StartArrives, WorkerUnchanged, Calls
  <2>1. /\ Worker!TypeOK' /\ Elsewhere(s)
        /\ told'[s] = "INITIALIZING" /\ stopping' = stopping
    BY StartSessionMeans DEF TypeOK
  <2>2. TypeOK'
    BY <2>1 DEF TypeOK
  <2>3. AnswersGiven' /\ IdUsedOnce'
    BY DEF AnswersGiven, IdUsedOnce
  <2>4. NothingToTell' /\ StopHasBridge'
    BY <2>1 DEF TypeOK, Worker!TypeOK, NothingToTell, Unseen, Elsewhere, StopHasBridge
  <2>5. NothingAnswered' /\ RecordAsCreated'
    BY DEF NothingAnswered, Unseen, RecordAsCreated
  <2>6. EndsAreReal'
    BY <2>1 DEF EndsAreReal, NothingAnswered, RecordAsCreated, Unseen, Elsewhere,
       Terminal, Worker!Terminal
  <2>7. QED
    BY <2>2, <2>3, <2>4, <2>5, <2>6
<1>6. ASSUME NEW s \in SessionIds, BridgeBuilt(s)
      PROVE  IInv'
  <2> USE <1>6 DEF BridgeBuilt, WorkerUnchanged, Calls
  <2>1. /\ Worker!TypeOK' /\ Elsewhere(s)
        /\ bridge[s] \in Worker!Standing /\ stopping' = stopping
        /\ told'[s] \in {"BRIDGING", told[s]}
    BY BridgeBuiltMeans DEF TypeOK
  <2>2. TypeOK'
    BY <2>1 DEF TypeOK
  <2>3. AnswersGiven' /\ IdUsedOnce'
    BY DEF AnswersGiven, IdUsedOnce
  <2>4. NothingToTell' /\ StopHasBridge'
    BY <2>1 DEF Worker!TypeOK, Worker!Standing, NothingToTell, Unseen, Elsewhere,
       StopHasBridge
  <2>5. NothingAnswered' /\ RecordAsCreated'
    BY DEF NothingAnswered, Unseen, RecordAsCreated
  <2>6. EndsAreReal'
    BY <2>1 DEF EndsAreReal, Elsewhere, Terminal, Worker!Terminal
  <2>7. QED
    BY <2>2, <2>3, <2>4, <2>5, <2>6
<1>7. ASSUME NEW s \in SessionIds, BridgeFails(s)
      PROVE  IInv'
  <2> USE <1>7 DEF BridgeFails, WorkerUnchanged, Calls
  <2>1. /\ Worker!TypeOK' /\ Elsewhere(s)
        /\ bridge[s] \in Worker!Standing /\ bridge'[s] = "down" /\ stopping' = stopping
    BY BridgeFailsMeans DEF TypeOK
  <2>2. TypeOK'
    BY <2>1 DEF TypeOK
  <2>3. AnswersGiven' /\ IdUsedOnce'
    BY DEF AnswersGiven, IdUsedOnce
  <2>4. NothingToTell' /\ StopHasBridge'
    BY <2>1 DEF Worker!TypeOK, Worker!Standing, NothingToTell, Unseen, Elsewhere,
       StopHasBridge
  <2>5. NothingAnswered' /\ RecordAsCreated'
    BY DEF NothingAnswered, Unseen, RecordAsCreated
  <2>6. EndsAreReal'
    BY <2>1 DEF EndsAreReal, Elsewhere, Terminal, Worker!Terminal, Worker!Standing
  <2>7. QED
    BY <2>2, <2>3, <2>4, <2>5, <2>6
<1>8. ASSUME NEW s \in SessionIds, ByItself(s)
      PROVE  IInv'
  <2> USE <1>8 DEF ByItself, WorkerUnchanged
  <2>1. /\ Worker!TypeOK' /\ Elsewhere(s) /\ stopping' = stopping
        /\ told[s] # "unknown" \/ bridge[s] \in Worker!Standing
        /\ bridge'[s] # bridge[s] =>
             \/ bridge[s] \in Worker!Standing /\ s \notin stopping
             \/ bridge'[s] = "down"
        /\ told'[s] \in {told[s], "RECONNECTING", "unknown"}
    BY ByItselfMeans DEF TypeOK
  <2>2. TypeOK'
    BY <2>1 DEF TypeOK
  <2>3. AnswersGiven' /\ IdUsedOnce'
    BY DEF AnswersGiven, IdUsedOnce
  <2>4. NothingToTell' /\ StopHasBridge'
    BY <2>1 DEF Worker!TypeOK, Worker!Standing, NothingToTell, Unseen, Elsewhere,
       StopHasBridge
  <2>5. NothingAnswered' /\ RecordAsCreated'
    BY DEF NothingAnswered, Unseen, RecordAsCreated
  <2>6. EndsAreReal'
    BY <2>1 DEF EndsAreReal, Elsewhere, Terminal, Worker!Terminal, Worker!Standing
  <2>7. QED
    BY <2>2, <2>3, <2>4, <2>5, <2>6
<1>9. ASSUME NEW s \in SessionIds, MeetingEnds(s)
      PROVE  IInv'
  <2> USE <1>9 DEF MeetingEnds, WorkerUnchanged
  <2>1. /\ Worker!TypeOK' /\ Elsewhere(s)
        /\ told[s] # "unknown" /\ told'[s] = "TERMINATING" /\ stopping' = stopping \cup {s}
        /\ IF bridge[s] = "live"
           THEN bridge'[s] = "closing" /\ interrupted' = interrupted
           ELSE bridge'[s] = bridge[s] /\ interrupted' = interrupted \cup {s}
    BY BeginStopMeans DEF TypeOK
  <2>2. TypeOK'
    BY <2>1 DEF TypeOK
  <2>3. AnswersGiven' /\ IdUsedOnce'
    BY DEF AnswersGiven, IdUsedOnce
  <2>4. NothingToTell' /\ StopHasBridge'
    BY <2>1 DEF Worker!TypeOK, NothingToTell, Unseen, Elsewhere, StopHasBridge
  <2>5. NothingAnswered' /\ RecordAsCreated'
    BY DEF NothingAnswered, Unseen, RecordAsCreated
  <2>6. EndsAreReal'
    BY <2>1 DEF EndsAreReal, Elsewhere, Terminal, Worker!Terminal, Worker!Standing
  <2>7. QED
    BY <2>2, <2>3, <2>4, <2>5, <2>6
<1>10. ASSUME NEW s \in SessionIds, StopEnds(s)
      PROVE  IInv'
  <2>1. /\ Worker!TypeOK' /\ Elsewhere(s) /\ s \in stopping /\ s \notin stopping'
        /\ bridge'[s] = IF bridge[s] = "closing" THEN "down" ELSE bridge[s]
    BY <1>10, StopEndsMeans DEF StopEnds, TypeOK
  <2>2. UNCHANGED <<store, create, call, lost, interrupted, deleted>>
    BY <1>10 DEF StopEnds, WorkerUnchanged
  <2>3. WaitersGet({s}, "TERMINATED")
    <3>1. handler' = [h \in Handlers |->
                       IF At(h, "stop", "waiting") /\ handler[h].id \in {s}
                       THEN [handler[h] EXCEPT !.at = "answered", !.answer = "TERMINATED"]
                       ELSE handler[h]]
      BY <1>10 DEF StopEnds
    <3>2. "TERMINATED" \in Status \cup {"error"}
      BY DEF Status, Worker!Status, Worker!Terminal
    <3>3. QED
      BY <3>1, <3>2, WaitersMeans
  <2>4. TypeOK'
    BY <2>1, <2>2, <2>3 DEF TypeOK, WaitersGet
  <2>5. AnswersGiven'
    BY <2>3 DEF AnswersGiven, WaitersGet
  <2>6. IdUsedOnce' /\ RecordAsCreated'
    BY <2>2 DEF IdUsedOnce, RecordAsCreated, Unseen
  <2>7. NothingToTell' /\ StopHasBridge'
    BY <2>1, <2>2 DEF Worker!TypeOK, NothingToTell, StopHasBridge, Unseen, Elsewhere
  <2>8. NothingAnswered'
    BY <2>2, <2>3 DEF NothingAnswered, Unseen, WaitersGet
  <2>9. EndsAreReal'
    <3> SUFFICES ASSUME NEW r \in SessionIds \ (lost \cup interrupted),
                        \/ told'[r] \in Terminal \/ call[r] = "error" \/ store[r] \in Terminal
                        \/ \E h \in Handlers :
                             handler'[h] # Free /\ handler'[h].id = r
                             /\ handler'[h].answer \in Terminal
                 PROVE  bridge'[r] \notin Worker!Standing
      BY <2>2 DEF EndsAreReal
    <3>1. CASE r = s
      BY <2>1, <3>1 DEF StopHasBridge, Worker!Standing
    <3>2. CASE r # s
      <4>1. \A h \in Handlers : handler'[h] # Free /\ handler'[h].id = r => handler'[h] = handler[h]
        BY <2>3, <3>2 DEF WaitersGet
      <4>2. bridge'[r] = bridge[r] /\ told'[r] \in {told[r], "unknown"}
        BY <2>1, <3>2 DEF Elsewhere
      <4>3. QED
        BY <4>1, <4>2 DEF EndsAreReal, Terminal, Worker!Terminal
    <3>3. QED
      BY <3>1, <3>2
  <2>10. QED
    BY <2>4, <2>5, <2>6, <2>7, <2>8, <2>9
<1>11. ASSUME NEW h \in Handlers, NEW s \in SessionIds, Get(h, s)
      PROVE  IInv'
  <2> USE <1>11 DEF Get, Open, Serve
  <2>1. TypeOK'
    BY DEF TypeOK, worker, Worker!TypeOK, Request
  <2>2. AnswersGiven' /\ IdUsedOnce'
    BY DEF AnswersGiven, IdUsedOnce
  <2>3. NothingToTell' /\ StopHasBridge'
    BY DEF worker, NothingToTell, Unseen, StopHasBridge
  <2>4. NothingAnswered' /\ RecordAsCreated'
    BY DEF NothingAnswered, Unseen, RecordAsCreated
  <2>5. EndsAreReal'
    BY DEF worker, EndsAreReal, Terminal, Worker!Terminal
  <2>6. QED
    BY <2>1, <2>2, <2>3, <2>4, <2>5
<1>12. ASSUME NEW h \in Handlers, NEW s \in SessionIds, Delete(h, s)
      PROVE  IInv'
  <2> USE <1>12 DEF Delete, Open, Serve
  <2>1. TypeOK'
    BY DEF TypeOK, worker, Worker!TypeOK, Request
  <2>2. AnswersGiven' /\ IdUsedOnce'
    BY DEF AnswersGiven, IdUsedOnce
  <2>3. NothingToTell' /\ StopHasBridge'
    BY DEF worker, NothingToTell, Unseen, StopHasBridge
  <2>4. NothingAnswered' /\ RecordAsCreated'
    BY DEF NothingAnswered, Unseen, RecordAsCreated
  <2>5. EndsAreReal'
    BY DEF worker, EndsAreReal, Terminal, Worker!Terminal
  <2>6. QED
    BY <2>1, <2>2, <2>3, <2>4, <2>5
<1>13. ASSUME NEW h \in Handlers, GetEnds(h)
      PROVE  IInv'
  <2> USE <1>13 DEF GetEnds, At, UpdateStatus
  <2>1. handler[h] \in Request /\ handler[h].id \in SessionIds
    BY HandlerType
  <2>2. TypeOK'
    BY DEF TypeOK, AnswersGiven, worker, Worker!TypeOK, Request
  <2>3. AnswersGiven' /\ IdUsedOnce'
    BY DEF AnswersGiven, IdUsedOnce
  <2>4. NothingToTell' /\ StopHasBridge'
    BY DEF worker, NothingToTell, Unseen, StopHasBridge
  <2>5. NothingAnswered' /\ RecordAsCreated'
    BY DEF NothingAnswered, Unseen, AnswersGiven, RecordAsCreated
  <2>6. EndsAreReal'
    BY DEF worker, EndsAreReal
  <2>7. QED
    BY <2>2, <2>3, <2>4, <2>5, <2>6
<1>14. ASSUME NEW h \in Handlers, DeleteEnds(h)
      PROVE  IInv'
  <2> USE <1>14 DEF DeleteEnds, At, UpdateStatus
  <2>1. handler[h] \in Request /\ handler[h].id \in SessionIds
    BY HandlerType
  <2>2. TypeOK'
    BY DEF TypeOK, AnswersGiven, worker, Worker!TypeOK, Request
  <2>3. AnswersGiven' /\ IdUsedOnce'
    BY DEF AnswersGiven, IdUsedOnce
  <2>4. NothingToTell' /\ StopHasBridge'
    BY DEF worker, NothingToTell, Unseen, StopHasBridge
  <2>5. NothingAnswered' /\ RecordAsCreated'
    BY DEF NothingAnswered, Unseen, AnswersGiven, RecordAsCreated
  <2>6. EndsAreReal'
    BY DEF worker, EndsAreReal
  <2>7. QED
    BY <2>2, <2>3, <2>4, <2>5, <2>6
<1>15. ASSUME NEW h \in Handlers, CallFails(h)
      PROVE  IInv'
  <2> USE <1>15 DEF CallFails
  <2>1. TypeOK'
    BY DEF TypeOK, worker, Worker!TypeOK
  <2>2. AnswersGiven' /\ IdUsedOnce'
    BY DEF AnswersGiven, IdUsedOnce
  <2>3. NothingToTell' /\ StopHasBridge'
    BY DEF worker, NothingToTell, Unseen, StopHasBridge
  <2>4. NothingAnswered' /\ RecordAsCreated'
    BY DEF NothingAnswered, Unseen, RecordAsCreated
  <2>5. EndsAreReal'
    BY DEF worker, EndsAreReal
  <2>6. QED
    BY <2>1, <2>2, <2>3, <2>4, <2>5
<1>16. ASSUME NEW h \in Handlers, StopArrives(h)
      PROVE  IInv'
  <2> DEFINE s == handler[h].id
             a == IF Worker!Known(s) THEN told[s] ELSE "error"
  <2>1. /\ handler[h] # Free /\ handler[h].at = "sent" /\ handler[h] \in Request
        /\ s \in SessionIds
        /\ UNCHANGED <<store, create, call, lost, deleted>>
    BY <1>16, HandlerType DEF StopArrives, At, WorkerUnchanged
  <2>2. CASE BeginStop(s) /\ handler' = [handler EXCEPT ![h].at = "waiting"]
    <3>1. /\ Worker!TypeOK' /\ Elsewhere(s)
          /\ told[s] # "unknown" /\ told'[s] = "TERMINATING" /\ stopping' = stopping \cup {s}
          /\ IF bridge[s] = "live"
             THEN bridge'[s] = "closing" /\ interrupted' = interrupted
             ELSE bridge'[s] = bridge[s] /\ interrupted' = interrupted \cup {s}
      BY <2>1, <2>2, BeginStopMeans DEF TypeOK
    <3>2. /\ handler' \in [Handlers -> Request \cup {Free}]
          /\ handler'[h] # Free /\ handler'[h].id = s
          /\ handler'[h].at = "waiting" /\ handler'[h].answer = handler[h].answer
          /\ \A k \in Handlers \ {h} : handler'[k] = handler[k]
      BY <2>1, <2>2 DEF TypeOK, Request, Free
    <3>3. TypeOK'
      BY <2>1, <3>1, <3>2 DEF TypeOK
    <3>4. AnswersGiven' /\ IdUsedOnce' /\ RecordAsCreated'
      BY <2>1, <3>2 DEF AnswersGiven, IdUsedOnce, RecordAsCreated, Unseen
    <3>5. NothingToTell' /\ StopHasBridge'
      BY <2>1, <3>1 DEF NothingToTell, StopHasBridge, Unseen, Elsewhere, Worker!TypeOK
    <3>6. NothingAnswered'
      BY <2>1, <3>1, <3>2 DEF NothingAnswered, NothingToTell, Unseen
    <3>7. EndsAreReal'
      BY <2>1, <3>1, <3>2 DEF EndsAreReal, Elsewhere, Terminal, Worker!Terminal,
         Worker!Standing
    <3>8. QED
      BY <3>3, <3>4, <3>5, <3>6, <3>7
  <2>3. CASE Answer(h, a) /\ UNCHANGED <<worker, interrupted>>
    <3>1. a \in Status \cup {"error"} /\ a \in {told[s], "error"}
      BY <2>1 DEF TypeOK, Worker!TypeOK, Worker!Known, Status
    <3>2. Unseen(s) => a = "error"
      BY <2>1 DEF NothingToTell, Worker!Known
    <3> HIDE DEF a
    <3>3. AnswerGiven(h, a)
      BY <2>1, <2>3, <3>1, AnswerMeans
    <3>4. QED
      BY <2>1, <2>3, <3>1, <3>2, <3>3, AnswerKeeps
  <2>4. QED
    BY <1>16, <2>2, <2>3 DEF StopArrives
<1>17. ASSUME NEW h \in Handlers, StatusAsked(h)
      PROVE  IInv'
  <2> DEFINE s == handler[h].id
             a == IF Worker!Known(s) THEN told[s] ELSE "error"
  <2>1. /\ handler[h] # Free /\ handler[h].at = "sent" /\ s \in SessionIds
        /\ Answer(h, a)
        /\ UNCHANGED <<store, create, call, worker, lost, interrupted, deleted>>
    BY <1>17, HandlerType DEF StatusAsked, At, WorkerUnchanged
  <2>2. a \in Status \cup {"error"} /\ a \in {told[s], "error"}
    BY <2>1 DEF TypeOK, Worker!TypeOK, Worker!Known, Status
  <2>3. Unseen(s) => a = "error"
    BY <2>1 DEF NothingToTell, Worker!Known
  <2> HIDE DEF a
  <2>4. AnswerGiven(h, a)
    BY <2>1, <2>2, AnswerMeans
  <2>5. QED
    BY <2>1, <2>2, <2>3, <2>4, AnswerKeeps
<1>18. ASSUME WorkerRestarts
      PROVE  IInv'
  <2>1. /\ UNCHANGED <<store, create, lost, interrupted, deleted>>
        /\ call' = [s \in SessionIds |-> IF call[s] = "running" THEN "error" ELSE call[s]]
        /\ told' = [s \in SessionIds |-> "unknown"]
        /\ bridge' = [s \in SessionIds |-> IF bridge[s] = "none" THEN "none" ELSE "down"]
        /\ stopping' = {}
    BY <1>18 DEF WorkerRestarts, WorkerUnchanged, Worker!Restart
  <2>2. WaitersGet(SessionIds, "error")
    <3>1. \A h \in Handlers : At(h, "stop", "waiting") => handler[h].id \in SessionIds
      BY HandlerType DEF At
    <3>2. handler' = [h \in Handlers |->
                       IF At(h, "stop", "waiting") /\ handler[h].id \in SessionIds
                       THEN [handler[h] EXCEPT !.at = "answered", !.answer = "error"]
                       ELSE handler[h]]
      BY <1>18, <3>1 DEF WorkerRestarts
    <3>3. QED
      BY <3>2, WaitersMeans
  <2>3. TypeOK'
    BY <2>1, <2>2 DEF TypeOK, Worker!TypeOK, WaitersGet
  <2>4. AnswersGiven'
    BY <2>2 DEF AnswersGiven, WaitersGet
  <2>5. /\ IdUsedOnce' /\ RecordAsCreated' /\ StopHasBridge'
        /\ NothingToTell'
    BY <2>1 DEF IdUsedOnce, RecordAsCreated, StopHasBridge, NothingToTell, Unseen
  <2>6. NothingAnswered'
    BY <2>1, <2>2, HandlerType DEF NothingAnswered, Unseen, WaitersGet
  <2>7. EndsAreReal'
    BY <2>1 DEF EndsAreReal, Worker!Standing
  <2>8. QED
    BY <2>3, <2>4, <2>5, <2>6, <2>7
<1>19. ASSUME ControlPlaneRestarts
      PROVE  IInv'
  <2> USE <1>19 DEF ControlPlaneRestarts
  <2>1. TypeOK'
    BY DEF TypeOK, worker, Worker!TypeOK
  <2>2. AnswersGiven' /\ IdUsedOnce'
    BY DEF AnswersGiven, IdUsedOnce
  <2>3. NothingToTell' /\ StopHasBridge'
    BY DEF worker, NothingToTell, Unseen, StopHasBridge
  <2>4. NothingAnswered' /\ RecordAsCreated'
    BY DEF NothingAnswered, RecordAsCreated
  <2>5. EndsAreReal'
    BY DEF worker, EndsAreReal, Terminal, Worker!Terminal
  <2>6. QED
    BY <2>1, <2>2, <2>3, <2>4, <2>5
<1>20. ASSUME UNCHANGED vars
      PROVE  IInv'
  BY <1>20 DEF vars, worker, TypeOK, Worker!TypeOK, Unseen, AnswersGiven, IdUsedOnce,
     NothingToTell, NothingAnswered, RecordAsCreated, StopHasBridge, EndsAreReal
<1>21. QED
  BY <1>1, <1>2, <1>3, <1>4, <1>5, <1>6, <1>7, <1>8, <1>9, <1>10, <1>11, <1>12, <1>13,
     <1>14, <1>15, <1>16, <1>17, <1>18, <1>19, <1>20 DEF Next, Api

\* Every variable stays in its range, those of the worker included.
THEOREM TypeCorrect == Spec => []TypeOK
<1>1. IInv => TypeOK
  BY DEF IInv
<1>2. QED
  BY <1>1, IInvInit, IInvStep, PTL DEF Spec

\* A record that is over belongs to a bridge that is gone, however many requests
\* are under way, whichever calls failed and whichever side started again;
\* unless POST gave up a call that went on, or a stop met a bridge in the making.
THEOREM NoFalseEnd == Spec => []EndIsReal
<1>1. IInv => EndIsReal
  BY DEF IInv, EndsAreReal, EndIsReal
<1>2. QED
  BY <1>1, IInvInit, IInvStep, PTL DEF Spec
=============================================================================
