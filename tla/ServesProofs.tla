----------------------------- MODULE ServesProofs -----------------------------
(***************************************************************************)
(* WorkerRuntime implements SessionWorker, on which ControlPlane is built: *)
(* for every set of ids, every limit on the recent snapshots and however   *)
(* often each id is started.                                               *)
(***************************************************************************)
EXTENDS RuntimeProofs

-----------------------------------------------------------------------------
(* The refinement mapping, id by id                                        *)

\* What SessionWorker reads off a state of the runtime, ...
LEMMA MappingIs ==
  ASSUME NEW x \in Ids, process # "exited"
  PROVE  /\ Told[x] = IF sessions[x] # 0 THEN status[InMap(x)] ELSE Snapshot(x)
         /\ Bridge[x] = IF started[x] = 0 THEN "none"
                        ELSE IF bridge[Last(x)] \in {"startFails", "givesUp"} THEN "down"
                        ELSE bridge[Last(x)]
         /\ x \in Stopping <=> started[x] # 0 /\ Working(Last(x))
BY DEF Told, Bridge, Stopping, Answer, Snapshot, Working

\* ... off the next one, ...
LEMMA MappingWillBe ==
  ASSUME NEW x \in Ids, process' # "exited"
  PROVE  /\ Told'[x] = IF sessions'[x] # 0 THEN status'[InMap(x)'] ELSE Snapshot(x)'
         /\ Bridge'[x] = IF started'[x] = 0 THEN "none"
                         ELSE IF bridge'[Last(x)'] \in {"startFails", "givesUp"} THEN "down"
                         ELSE bridge'[Last(x)']
         /\ x \in Stopping' <=> started'[x] # 0 /\ Working(Last(x))'
BY DEF Told, Bridge, Stopping, Answer, Snapshot, Working

\* ... and of which kind it is.
LEMMA MappingRanges ==
  /\ Told = [x \in Ids |-> Told[x]] /\ Told' = [x \in Ids |-> Told'[x]]
  /\ Bridge = [x \in Ids |-> Bridge[x]] /\ Bridge' = [x \in Ids |-> Bridge'[x]]
  /\ Stopping \subseteq Ids /\ Stopping' \subseteq Ids
BY DEF Told, Bridge, Stopping

\* What a session out of the map is told to be.
LEMMA OutOfMap ==
  ASSUME IInv, PInv, process # "exited", NEW x \in Ids, sessions[x] = 0
  PROVE  /\ Told[x] = Snapshot(x)
         /\ Worker!Known(x) => (Worker!Over(x) <=> Last(x) \in notified)
         /\ Worker!Known(x) => Worker!Forgettable(x)
         /\ started[x] # 0 /\ Last(x) \notin notified => x \in Stopping /\ ~Worker!Over(x)
         /\ Told[x] # "RECONNECTING"
<1>1. Told[x] = Snapshot(x) /\ (x \in Stopping <=> started[x] # 0 /\ Working(Last(x)))
  BY MappingIs
<1>2. /\ Snapshot(x) # "unknown" =>
           /\ started[x] # 0
           /\ Snapshot(x) \in Terminal <=> Last(x) \in notified
           /\ Snapshot(x) # "RECONNECTING"
      /\ started[x] # 0 => Last(x) \in notified \/ Working(Last(x))
  BY DEF PInv, SnapshotsTrue, Accounted
<1>3. Worker!Terminal = Terminal /\ "unknown" \notin Terminal
  BY DEF Worker!Terminal, Terminal
<1>4. QED
  BY <1>1, <1>2, <1>3 DEF Worker!Known, Worker!Over, Worker!Forgettable

\* What a session in the map is told to be.
LEMMA InTheMap ==
  ASSUME IInv, process # "exited", NEW x \in Ids, sessions[x] # 0
  PROVE  /\ started[x] # 0 /\ InMap(x) = Last(x) /\ InMap(x) \in Orchestrators
         /\ InMap(x)[1] = x /\ InMap(x) \notin notified
         /\ Told[x] = status[InMap(x)] /\ Worker!Known(x) /\ ~Worker!Over(x)
<1>1. /\ status[InMap(x)] \in Status \ Terminal /\ InMap(x) \in Orchestrators
      /\ InMap(x)[1] = x /\ started[x] # 0 /\ InMap(x) = Last(x) /\ InMap(x) \notin notified
  BY InMapIs, InMapIsLast DEF IInv, NotBoth
<1>2. Told[x] = status[InMap(x)]
  BY MappingIs
<1>3. Worker!Terminal = Terminal /\ "unknown" \notin Status
  BY DEF Worker!Terminal, Terminal, Status
<1>4. QED
  BY <1>1, <1>2, <1>3 DEF Worker!Known, Worker!Over

\* A session to which nothing happens, but that its snapshot may be evicted.
ToldOrEvicted(x) ==
  \/ Told'[x] = Told[x]
  \/ Told'[x] = "unknown" /\ Worker!Forgettable(x)

\* A session that takes no part in a step tells the same or was evicted.
LEMMA Untouched ==
  ASSUME IInv, PInv, process # "exited", process' # "exited",
         NEW x \in Ids, started'[x] = started[x], sessions'[x] = sessions[x],
         Snapshot(x)' \in {Snapshot(x), "unknown"},
         \A q \in Orchestrators :
           q[1] = x => bridge'[q] = bridge[q] /\ status'[q] = status[q] /\ stopping'[q] = stopping[q]
  PROVE  Bridge'[x] = Bridge[x] /\ (x \in Stopping' <=> x \in Stopping) /\ ToldOrEvicted(x)
<1>1. /\ Told'[x] = (IF sessions[x] # 0 THEN status'[InMap(x)'] ELSE Snapshot(x)')
      /\ Bridge'[x] = (IF started[x] = 0 THEN "none"
                       ELSE IF bridge'[Last(x)'] \in {"startFails", "givesUp"} THEN "down"
                       ELSE bridge'[Last(x)'])
      /\ x \in Stopping' <=> started[x] # 0 /\ Working(Last(x))'
  BY MappingWillBe
<1>2. Last(x)' = Last(x) /\ InMap(x)' = InMap(x)
  BY DEF Last, InMap
<1>3. /\ Bridge'[x] = Bridge[x] /\ (x \in Stopping' <=> x \in Stopping)
      /\ started[x] # 0 => status'[Last(x)] = status[Last(x)]
  <2>1. CASE started[x] = 0
    BY <1>1, <2>1, MappingIs
  <2>2. CASE started[x] # 0
    <3>1. /\ bridge'[Last(x)] = bridge[Last(x)] /\ status'[Last(x)] = status[Last(x)]
          /\ stopping'[Last(x)] = stopping[Last(x)]
      BY <2>2, LastIs
    <3>2. QED
      BY <1>1, <1>2, <2>2, <3>1, MappingIs DEF Working
  <2>3. QED
    BY <2>1, <2>2
<1>4. CASE sessions[x] # 0
  <2>1. started[x] # 0 /\ InMap(x) = Last(x) /\ Told[x] = status[InMap(x)]
    BY <1>4, InTheMap
  <2>2. Told'[x] = Told[x]
    BY <1>1, <1>2, <1>3, <1>4, <2>1
  <2>3. QED
    BY <1>3, <2>2 DEF ToldOrEvicted
<1>5. CASE sessions[x] = 0
  <2>1. Told[x] = Snapshot(x) /\ Told'[x] = Snapshot(x)'
    BY <1>1, <1>5, OutOfMap
  <2>2. Told[x] # "unknown" => Worker!Forgettable(x)
    BY <1>5, OutOfMap DEF Worker!Known
  <2>3. QED
    BY <1>3, <2>1, <2>2 DEF ToldOrEvicted
<1>6. QED
  BY <1>4, <1>5

\* Telling one session something new, with or without an eviction.
LEMMA TellsFrom ==
  ASSUME NEW S \in SUBSET Ids, NEW A, NEW a \in A, \A x \in S : Told'[x] = a,
         \A x \in Ids \ S : ToldOrEvicted(x)
  PROVE  Worker!Tells(S, A)
<1> DEFINE gone == {x \in Ids \ S : Told'[x] # Told[x]}
<1>1. gone \in SUBSET {x \in Ids \ S : Worker!Forgettable(x)}
  BY DEF ToldOrEvicted
<1>2. Told' = [x \in Ids |-> IF x \in S THEN a ELSE IF x \in gone THEN "unknown" ELSE Told[x]]
  <2>1. \A x \in Ids :
          Told'[x] = IF x \in S THEN a ELSE IF x \in gone THEN "unknown" ELSE Told[x]
    BY DEF ToldOrEvicted
  <2> HIDE DEF gone
  <2>2. QED
    BY <2>1, MappingRanges
<1> HIDE DEF gone
<1>3. QED
  BY <1>1, <1>2 DEF Worker!Tells

\* A step of one session.
Elsewhere(i) ==
  \A x \in Ids \ {i} :
    Bridge'[x] = Bridge[x] /\ (x \in Stopping' <=> x \in Stopping) /\ ToldOrEvicted(x)

\* A step of one session is one of SessionWorker if what it tells is.
LEMMA OneSession ==
  ASSUME NEW i \in Ids, Elsewhere(i), NEW A, Told'[i] \in A, NEW v, Bridge'[i] = v
  PROVE  /\ Worker!Tells({i}, A)
         /\ Bridge' = [Bridge EXCEPT ![i] = v]
         /\ (i \in Stopping' <=> i \in Stopping) => Stopping' = Stopping
         /\ i \notin Stopping' => Stopping' = Stopping \ {i}
<1>1. Worker!Tells({i}, A)
  <2> DEFINE S == {i}
  <2>1. S \in SUBSET Ids /\ (\A x \in S : Told'[x] = Told'[i]) /\ \A x \in Ids \ S : ToldOrEvicted(x)
    BY DEF Elsewhere
  <2> HIDE DEF S
  <2>2. Worker!Tells(S, A)
    BY <2>1, TellsFrom
  <2>3. QED
    BY <2>2 DEF S
<1>2. Bridge' = [Bridge EXCEPT ![i] = v]
  BY MappingRanges DEF Elsewhere
<1>3. QED
  BY <1>1, <1>2, MappingRanges DEF Elsewhere
-----------------------------------------------------------------------------
(* Every step of WorkerRuntime is one of SessionWorker or none             *)

\* One orchestrator changes, and the map and the snapshot of its id only.
LEMMA StepOfOne ==
  ASSUME IInv, PInv, process # "exited", UNCHANGED process, NEW i \in Ids,
         \A x \in Ids \ {i} : /\ started'[x] = started[x] /\ sessions'[x] = sessions[x]
                              /\ Snapshot(x)' \in {Snapshot(x), "unknown"},
         \A q \in Orchestrators :
           q[1] # i => bridge'[q] = bridge[q] /\ status'[q] = status[q] /\ stopping'[q] = stopping[q]
  PROVE  Elsewhere(i)
BY Untouched DEF Elsewhere

\* startSession(), for an id that is not in the map.
LEMMA StartSessionServes ==
  ASSUME Patient, IInv, PInv, process # "exited", NEW id \in Ids, StartSession(id)
  PROVE  Worker!StartSession(id)
<1> DEFINE o == <<id, started[id] + 1>>
<1>1. /\ sessions[id] = 0 /\ started[id] \in Nat /\ started' = [started EXCEPT ![id] = @ + 1]
      /\ started[id] < Incarnations[id]
      /\ sessions' = [sessions EXCEPT ![id] = started[id] + 1]
      /\ \A k \in 1..started[id] : Idle(<<id, k>>)
      /\ bridge' = [bridge EXCEPT ![o] = "building"]
      /\ status' = [status EXCEPT ![o] = "INITIALIZING"]
      /\ UNCHANGED <<stopping, process>>
  BY DEF StartSession, IInv, TypeOK
<1>2. o \in Orchestrators /\ o[1] = id
  <2>1. Incarnations[id] \in Nat
    BY IncarnationsAssumption
  <2>2. started[id] + 1 \in 1..Incarnations[id]
    BY <1>1, <2>1
  <2>3. QED
    BY <2>2, OrchestratorIs
<1>3. \A x \in Ids \ {id} : Snapshot(x)' = Snapshot(x)
  BY ForgetTells DEF StartSession, IInv
<1>4. Elsewhere(id)
  <2>1. \A q \in Orchestrators :
          q[1] # id => bridge'[q] = bridge[q] /\ status'[q] = status[q] /\ stopping'[q] = stopping[q]
    BY <1>1 DEF IInv, TypeOK
  <2>2. \A x \in Ids \ {id} : started'[x] = started[x] /\ sessions'[x] = sessions[x]
    BY <1>1 DEF IInv, TypeOK
  <2>3. QED
    BY <1>1, <1>3, <2>1, <2>2, StepOfOne
<1>5. Last(id)' = o /\ InMap(id)' = o /\ started'[id] # 0 /\ sessions'[id] # 0
  BY <1>1 DEF Last, InMap, IInv, TypeOK
<1>6. Told'[id] = "INITIALIZING" /\ Bridge'[id] = "building" /\ id \notin Stopping'
  <2>1. bridge'[o] = "building" /\ status'[o] = "INITIALIZING" /\ stopping'[o] = "none"
    BY <1>1, <1>2 DEF IInv, TypeOK, Stages
  <2>2. QED
    BY <1>1, <1>5, <2>1, MappingWillBe DEF Working
<1>7. ~Working(Last(id)) \/ started[id] = 0
  BY <1>1 DEF Last, Idle, Working
<1>8. id \notin Stopping
  BY <1>7, MappingIs
<1>9. ~Worker!Known(id) \/ Worker!Over(id)
  BY <1>1, <1>8, OutOfMap DEF Worker!Forgettable
<1>10. Worker!Tells({id}, {"INITIALIZING"})
  BY <1>4, <1>6, OneSession
<1>11. Bridge' = [Bridge EXCEPT ![id] = "building"] /\ Stopping' = Stopping
  BY <1>4, <1>6, <1>8, OneSession
<1>12. QED
  BY <1>9, <1>10, <1>11 DEF Worker!StartSession

\* What a step of one orchestrator does to the mapping.
LEMMA OrchestratorStep ==
  ASSUME IInv, PInv, process # "exited", UNCHANGED <<process, started>>,
         NEW o \in Orchestrators, ~Idle(o) \/ Live(o),
         \A x \in Ids \ {o[1]} :
           sessions'[x] = sessions[x] /\ Snapshot(x)' \in {Snapshot(x), "unknown"},
         \A q \in Orchestrators \ {o} :
           bridge'[q] = bridge[q] /\ status'[q] = status[q] /\ stopping'[q] = stopping[q]
  PROVE  /\ o[1] \in Ids /\ started[o[1]] # 0 /\ o = Last(o[1]) /\ Elsewhere(o[1])
         /\ Told'[o[1]] = IF sessions'[o[1]] # 0 THEN status'[InMap(o[1])'] ELSE Snapshot(o[1])'
         /\ Bridge[o[1]] = IF bridge[o] \in {"startFails", "givesUp"} THEN "down" ELSE bridge[o]
         /\ Bridge'[o[1]] = IF bridge'[o] \in {"startFails", "givesUp"} THEN "down" ELSE bridge'[o]
         /\ o[1] \in Stopping <=> Working(o)
         /\ o[1] \in Stopping' <=> Working(o)'
<1>1. o[1] \in Ids /\ started[o[1]] # 0 /\ o = Last(o[1])
  BY ActiveIsLast
<1>2. Elsewhere(o[1])
  BY <1>1, StepOfOne
<1>3. Last(o[1])' = o
  BY <1>1 DEF Last
<1>4. QED
  BY <1>1, <1>2, <1>3, MappingIs, MappingWillBe DEF Working

\* Nothing changes but one orchestrator.
LEMMA MapKept ==
  ASSUME UNCHANGED <<sessions, recent>>, NEW x \in Ids
  PROVE  sessions'[x] = sessions[x] /\ Snapshot(x)' = Snapshot(x) /\ InMap(x)' = InMap(x)
BY DEF Snapshot, Remembered, InMap

\* The bridge comes to stand.
LEMMA BuildEndsServes ==
  ASSUME IInv, PInv, process # "exited", NEW o \in Orchestrators, BuildEnds(o)
  PROVE  Worker!BridgeBuilt(o[1])
<1> DEFINE i == o[1]
<1>1. /\ bridge[o] \in Building /\ bridge' = [bridge EXCEPT ![o] = "live"]
      /\ status' = [status EXCEPT ![o] = "BRIDGING"]
      /\ UNCHANGED <<sessions, recent, started, stopping, process>>
  BY DEF BuildEnds
<1>2. ~Idle(o) /\ bridge'[o] = "live" /\ status'[o] = "BRIDGING"
  BY <1>1 DEF Idle, IInv, TypeOK
<1>3. /\ i \in Ids /\ started[i] # 0 /\ o = Last(i) /\ Elsewhere(i)
      /\ Told'[i] = (IF sessions[i] # 0 THEN status'[InMap(i)] ELSE Snapshot(i))
      /\ Bridge[i] = bridge[o] /\ Bridge'[i] = "live"
      /\ i \in Stopping' <=> i \in Stopping
  <2>1. \A x \in Ids : sessions'[x] = sessions[x] /\ Snapshot(x)' = Snapshot(x) /\ InMap(x)' = InMap(x)
    BY <1>1, MapKept
  <2>2. \A q \in Orchestrators \ {o} :
          bridge'[q] = bridge[q] /\ status'[q] = status[q] /\ stopping'[q] = stopping[q]
    BY <1>1 DEF IInv, TypeOK
  <2>3. QED
    BY <1>1, <1>2, <2>1, <2>2, OrchestratorStep DEF Building, Working
<1> DEFINE A == (IF Worker!Known(i) /\ ~Worker!Over(i) THEN {"BRIDGING"} ELSE {})
                \cup (IF Worker!Forgettable(i) \/ ~Worker!Known(i) THEN {Told[i]} ELSE {})
<1>4. Told'[i] \in A
  BY <1>2, <1>3, InTheMap, OutOfMap
<1> HIDE DEF A
<1>5. Worker!Tells({i}, A) /\ Bridge' = [Bridge EXCEPT ![i] = "live"] /\ Stopping' = Stopping
  BY <1>3, <1>4, OneSession
<1>6. QED
  BY <1>1, <1>3, <1>5 DEF Worker!BridgeBuilt, Building, A

\* A start or the last reconnect fails.
LEMMA BuildFailsServes ==
  ASSUME IInv, PInv, process # "exited", NEW o \in Orchestrators, BuildFails(o)
  PROVE  Worker!BridgeFails(o[1])
<1> DEFINE i == o[1]
<1>1. /\ bridge[o] \in Building /\ bridge'[o] \in {"startFails", "givesUp"}
      /\ bridge' = [bridge EXCEPT ![o] = bridge'[o]]
      /\ status' = [status EXCEPT ![o] = "FAILED"]
      /\ UNCHANGED <<started, stopping, process>>
  BY DEF BuildFails, IInv, TypeOK
<1>2. ~Idle(o) /\ NotifyStep(o, "FAILED")
  BY <1>1, NotifyMeans DEF Idle, BuildFails, Status, Terminal
<1>3. \A x \in Ids \ {i} : sessions'[x] = sessions[x] /\ Snapshot(x)' \in {Snapshot(x), "unknown"}
  BY <1>2, OrchestratorIs DEF NotifyStep, IInv, TypeOK
<1>4. /\ i \in Ids /\ started[i] # 0 /\ o = Last(i) /\ Elsewhere(i)
      /\ Told'[i] = (IF sessions'[i] # 0 THEN status'[InMap(i)'] ELSE Snapshot(i)')
      /\ Bridge[i] = bridge[o] /\ Bridge'[i] = "down"
      /\ i \in Stopping' <=> i \in Stopping
  <2>1. \A q \in Orchestrators \ {o} :
          bridge'[q] = bridge[q] /\ status'[q] = status[q] /\ stopping'[q] = stopping[q]
    BY <1>1 DEF IInv, TypeOK
  <2>2. QED
    BY <1>1, <1>2, <1>3, <2>1, OrchestratorStep DEF Building, Working
<1> DEFINE A == (IF ~Worker!Over(i) /\ (Worker!Known(i) \/ i \in Stopping) THEN {"FAILED"} ELSE {})
                \cup (IF Worker!Over(i) \/ ~Worker!Known(i) THEN {Told[i]} ELSE {})
<1>5. ASSUME o \in notified
      PROVE  Told'[i] \in A
  <2>1. sessions[i] = 0 /\ Told[i] = Snapshot(i) /\ (Worker!Over(i) \/ ~Worker!Known(i))
    BY <1>4, <1>5, InTheMap, OutOfMap
  <2>2. UNCHANGED <<sessions, recent>>
    BY <1>5 DEF BuildFails, Notify
  <2>3. Told'[i] = Told[i]
    BY <1>4, <2>1, <2>2, MapKept
  <2>4. QED
    BY <2>1, <2>3
<1>6. ASSUME o \notin notified
      PROVE  Told'[i] \in A
  <2>1. ~Worker!Over(i) /\ (Worker!Known(i) \/ i \in Stopping)
    BY <1>4, <1>6, InTheMap, OutOfMap
  <2>2. sessions'[i] = 0 /\ Snapshot(i)' = "FAILED"
    BY <1>2, <1>4, <1>6 DEF NotifyStep, IInv, TypeOK
  <2>3. QED
    BY <1>4, <2>1, <2>2
<1>7. Told'[i] \in A
  BY <1>5, <1>6
<1> HIDE DEF A
<1>8. Worker!Tells({i}, A) /\ Bridge' = [Bridge EXCEPT ![i] = "down"] /\ Stopping' = Stopping
  BY <1>4, <1>7, OneSession
<1>9. QED
  BY <1>1, <1>4, <1>8 DEF Worker!BridgeFails, Building, A

\* A step of one bridge that nothing else sees.
LEMMA BridgeStep ==
  ASSUME IInv, PInv, process # "exited", NEW o \in Orchestrators, ~Idle(o) \/ Live(o),
         UNCHANGED <<sessions, recent, started, stopping, process>>,
         \A q \in Orchestrators \ {o} : bridge'[q] = bridge[q] /\ status'[q] = status[q]
  PROVE  /\ o[1] \in Ids /\ started[o[1]] # 0 /\ o = Last(o[1]) /\ Elsewhere(o[1])
         /\ Told'[o[1]] = (IF sessions[o[1]] # 0 THEN status'[InMap(o[1])] ELSE Snapshot(o[1]))
         /\ Bridge[o[1]] = IF bridge[o] \in {"startFails", "givesUp"} THEN "down" ELSE bridge[o]
         /\ Bridge'[o[1]] = IF bridge'[o] \in {"startFails", "givesUp"} THEN "down" ELSE bridge'[o]
         /\ o[1] \in Stopping <=> Working(o)
         /\ o[1] \in Stopping' <=> o[1] \in Stopping
<1>1. \A x \in Ids : sessions'[x] = sessions[x] /\ Snapshot(x)' = Snapshot(x) /\ InMap(x)' = InMap(x)
  BY MapKept
<1>2. QED
  BY <1>1, OrchestratorStep DEF Working

\* A reconnect finds that its session was stopped.
LEMMA ReconnectAbandonedServes ==
  ASSUME IInv, PInv, process # "exited", NEW o \in Orchestrators, ReconnectAbandoned(o)
  PROVE  Worker!ReconnectAbandoned(o[1])
<1> DEFINE i == o[1]
<1>1. /\ bridge[o] = "rebuilding" /\ o \in stopped /\ bridge' = [bridge EXCEPT ![o] = "down"]
      /\ UNCHANGED <<sessions, recent, started, status, stopping, process>>
  BY DEF ReconnectAbandoned
<1>2. ~Idle(o) /\ bridge'[o] = "down" /\ \A q \in Orchestrators \ {o} : bridge'[q] = bridge[q]
  BY <1>1 DEF Idle, Building, IInv, TypeOK
<1>3. /\ i \in Ids /\ started[i] # 0 /\ o = Last(i) /\ Elsewhere(i)
      /\ Told'[i] = (IF sessions[i] # 0 THEN status[InMap(i)] ELSE Snapshot(i))
      /\ Bridge[i] = "rebuilding" /\ Bridge'[i] = "down"
      /\ i \in Stopping' <=> i \in Stopping
  BY <1>1, <1>2, BridgeStep
<1>4. Told[i] # "RECONNECTING"
  BY <1>1, <1>3, InTheMap, OutOfMap DEF IInv, Stages
<1>5. Told' = Told
  <2>1. \A x \in Ids : Told'[x] = Told[x]
    BY <1>1, MapKept, MappingIs, MappingWillBe
  <2>2. QED
    BY <2>1, MappingRanges
<1>6. Bridge' = [Bridge EXCEPT ![i] = "down"] /\ Stopping' = Stopping
  <2> DEFINE A == {Told'[i]}
  <2>1. Told'[i] \in A
    OBVIOUS
  <2> HIDE DEF A
  <2>2. QED
    BY <1>3, <2>1, OneSession
<1>7. QED
  BY <1>3, <1>4, <1>5, <1>6 DEF Worker!ReconnectAbandoned

\* The teardown of a failed session is behind what the worker tells.
LEMMA FailEndsServes ==
  ASSUME IInv, PInv, process # "exited", NEW o \in Orchestrators, FailEnds(o)
  PROVE  UNCHANGED <<Told, Bridge, Stopping>>
<1> DEFINE i == o[1]
<1>1. /\ bridge[o] \in {"startFails", "givesUp"} /\ bridge' = [bridge EXCEPT ![o] = "down"]
      /\ UNCHANGED <<recent, started, status, stopping, process>>
  BY DEF FailEnds
<1>2. ~Idle(o) /\ bridge'[o] = "down" /\ \A q \in Orchestrators \ {o} : bridge'[q] = bridge[q]
  BY <1>1 DEF Idle, Building, IInv, TypeOK
<1>3. UNCHANGED sessions
  <2>1. o \in notified /\ i \in Ids /\ o = Last(i)
    BY <1>1, <1>2, ActiveIsLast DEF IInv, EndsNotified
  <2>2. sessions[i] = 0
    BY <2>1, InTheMap
  <2>3. QED
    BY <2>2 DEF FailEnds, IInv, TypeOK
<1>4. /\ i \in Ids /\ Elsewhere(i) /\ Bridge[i] = "down" /\ Bridge'[i] = "down"
      /\ i \in Stopping' <=> i \in Stopping
  BY <1>1, <1>2, <1>3, BridgeStep
<1>5. Told' = Told
  <2>1. \A x \in Ids : Told'[x] = Told[x]
    BY <1>1, <1>3, MapKept, MappingIs, MappingWillBe
  <2>2. QED
    BY <2>1, MappingRanges
<1>6. Bridge' = Bridge /\ Stopping' = Stopping
  <2>1. \A x \in Ids : Bridge'[x] = Bridge[x] /\ (x \in Stopping' <=> x \in Stopping)
    BY <1>4 DEF Elsewhere
  <2>2. QED
    BY <2>1, MappingRanges
<1>7. QED
  BY <1>5, <1>6

\* A live bridge is lost and a reconnect begins.
LEMMA BridgeBreaksServes ==
  ASSUME IInv, PInv, process # "exited", NEW o \in Orchestrators, BridgeBreaks(o)
  PROVE  Worker!BridgeBreaks(o[1])
<1> DEFINE i == o[1]
<1>1. /\ Live(o) /\ bridge[o] = "live" /\ bridge' = [bridge EXCEPT ![o] = "rebuilding"]
      /\ status' = [status EXCEPT ![o] = "RECONNECTING"]
      /\ UNCHANGED <<sessions, recent, started, stopping, process>>
  BY DEF BridgeBreaks
<1>2. /\ bridge'[o] = "rebuilding" /\ status'[o] = "RECONNECTING"
      /\ \A q \in Orchestrators \ {o} : bridge'[q] = bridge[q] /\ status'[q] = status[q]
  BY <1>1 DEF IInv, TypeOK
<1>3. /\ i \in Ids /\ started[i] # 0 /\ o = Last(i) /\ Elsewhere(i)
      /\ Told'[i] = (IF sessions[i] # 0 THEN status'[InMap(i)] ELSE Snapshot(i))
      /\ Bridge[i] = "live" /\ Bridge'[i] = "rebuilding"
      /\ i \in Stopping <=> Working(o)
      /\ i \in Stopping' <=> i \in Stopping
  BY <1>1, <1>2, BridgeStep
<1>4. ~Working(o) /\ o \notin notified /\ status[o] = "BRIDGING"
  BY <1>1 DEF Live, Working, IInv, TypeOK, Stages
<1>5. sessions[i] # 0
  BY <1>3, <1>4 DEF PInv, Accounted
<1>6. InMap(i) = o /\ Told[i] = "BRIDGING"
  BY <1>3, <1>4, <1>5, InTheMap
<1>7. Told'[i] = "RECONNECTING"
  BY <1>2, <1>3, <1>5, <1>6
<1>8. /\ Worker!Tells({i}, {"RECONNECTING"})
      /\ Bridge' = [Bridge EXCEPT ![i] = "rebuilding"] /\ Stopping' = Stopping
  <2> DEFINE A == {"RECONNECTING"}
  <2>1. Told'[i] \in A
    BY <1>7
  <2> HIDE DEF A
  <2>2. Worker!Tells({i}, A) /\ Bridge' = [Bridge EXCEPT ![i] = "rebuilding"] /\ Stopping' = Stopping
    BY <1>3, <2>1, OneSession
  <2>3. QED
    BY <2>2 DEF A
<1>9. QED
  BY <1>3, <1>4, <1>6, <1>8 DEF Worker!BridgeBreaks

\* A stop() ends.
LEMMA StopEndsServes ==
  ASSUME IInv, PInv, process # "exited", NEW o \in Orchestrators, StopEnds(o)
  PROVE  Worker!StopEnds(o[1])
<1> DEFINE i == o[1]
           v == IF Bridge[i] = "closing" THEN "down" ELSE Bridge[i]
<1>1. /\ Working(o) /\ stopping' = [stopping EXCEPT ![o] = "done"]
      /\ bridge'[o] = (IF bridge[o] = "closing" THEN "down" ELSE bridge[o])
      /\ bridge' = [bridge EXCEPT ![o] = bridge'[o]]
      /\ status' = [status EXCEPT ![o] = "TERMINATED"]
      /\ UNCHANGED <<started, process>>
  BY DEF StopEnds, Working, IInv, TypeOK
<1>2. ~Idle(o) /\ NotifyStep(o, "TERMINATED")
  BY <1>1, NotifyMeans DEF Idle, StopEnds, Working, Status, Terminal
<1>3. \A x \in Ids \ {i} : sessions'[x] = sessions[x] /\ Snapshot(x)' \in {Snapshot(x), "unknown"}
  BY <1>2, OrchestratorIs DEF NotifyStep, IInv, TypeOK
<1>4. /\ i \in Ids /\ started[i] # 0 /\ o = Last(i) /\ Elsewhere(i)
      /\ Told'[i] = (IF sessions'[i] # 0 THEN status'[InMap(i)'] ELSE Snapshot(i)')
      /\ Bridge'[i] = v /\ i \in Stopping /\ i \notin Stopping'
  <2>1. \A q \in Orchestrators \ {o} :
          bridge'[q] = bridge[q] /\ status'[q] = status[q] /\ stopping'[q] = stopping[q]
    BY <1>1 DEF IInv, TypeOK
  <2>2. ~Working(o)'
    BY <1>1 DEF Working, IInv, TypeOK
  <2>3. QED
    BY <1>1, <1>2, <1>3, <2>1, <2>2, OrchestratorStep
<1> DEFINE A == {"TERMINATED"} \cup (IF Worker!Over(i) \/ ~Worker!Known(i) THEN {Told[i]} ELSE {})
<1>5. ASSUME sessions' = sessions, o \in notified, Snapshot(i)' = Snapshot(i)
      PROVE  Told'[i] \in A
  <2>1. sessions[i] = 0 /\ Told[i] = Snapshot(i) /\ (Worker!Over(i) \/ ~Worker!Known(i))
    BY <1>4, <1>5, InTheMap, OutOfMap
  <2>2. Told'[i] = Told[i]
    BY <1>4, <1>5, <2>1
  <2>3. QED
    BY <2>1, <2>2
<1>6. ASSUME sessions' = [sessions EXCEPT ![i] = 0], Snapshot(i)' = "TERMINATED"
      PROVE  Told'[i] \in A
  BY <1>4, <1>6 DEF IInv, TypeOK
<1>7. Told'[i] \in A
  BY <1>2, <1>5, <1>6 DEF NotifyStep
<1> HIDE DEF A
<1>8. /\ Worker!Tells({i}, A) /\ Bridge' = [Bridge EXCEPT ![i] = v]
      /\ Stopping' = Stopping \ {i}
  BY <1>4, <1>7, OneSession
<1>9. QED
  BY <1>4, <1>8 DEF Worker!StopEnds, A

\* A lookup moves a snapshot and tells nobody else anything new.
LEMMA GetSessionStatusServes ==
  ASSUME IInv, process # "exited", NEW id \in Ids, GetSessionStatus(id)
  PROVE  UNCHANGED <<Told, Bridge, Stopping>>
<1>1. \A x \in Ids : Snapshot(x)' = Snapshot(x)
  BY AskedSnapshot
<1>2. UNCHANGED <<sessions, started, status, bridge, stopping, process>>
  BY DEF GetSessionStatus, orchestrators
<1>3. \A x \in Ids :
        Told'[x] = Told[x] /\ Bridge'[x] = Bridge[x] /\ (x \in Stopping' <=> x \in Stopping)
  <2> SUFFICES ASSUME NEW x \in Ids
               PROVE  Told'[x] = Told[x] /\ Bridge'[x] = Bridge[x] /\ (x \in Stopping' <=> x \in Stopping)
    OBVIOUS
  <2>1. Last(x)' = Last(x) /\ InMap(x)' = InMap(x) /\ Working(Last(x))' = Working(Last(x))
    BY <1>2 DEF Working, InMap, Last
  <2>2. QED
    BY <1>1, <1>2, <2>1, MappingIs, MappingWillBe
<1>4. QED
  BY <1>3, MappingRanges

\* A second stop() answers with what the worker told already, and evicts others.
TwiceStopped(x, S) ==
  /\ sessions[x] # 0 /\ InMap(x) \notin S
  /\ sessions'[x] = 0 /\ Snapshot(x)' = status[InMap(x)]

\* stop() of sessions that are in the map and are not being stopped.
LEMMA BeginStopServes ==
  ASSUME IInv, PInv, process # "exited", process' # "exited",
         NEW S \in SUBSET Orchestrators, NEW caller \in {"request", "meeting"},
         \A o \in S : o[1] \in Ids /\ sessions[o[1]] # 0 /\ o = InMap(o[1]) /\ o \notin stopped,
         BeginStop(S, caller), UNCHANGED started,
         \A x \in Ids :
           \/ sessions'[x] = sessions[x] /\ Snapshot(x)' \in {Snapshot(x), "unknown"}
           \/ TwiceStopped(x, S)
  PROVE  \E T \in SUBSET Worker!Stoppable : Worker!BeginStop(T)
<1> DEFINE T == {x \in Ids : sessions[x] # 0 /\ InMap(x) \in S}
<1>1. /\ \A q \in Orchestrators \ S :
           bridge'[q] = bridge[q] /\ status'[q] = status[q] /\ stopping'[q] = stopping[q]
      /\ \A q \in S : /\ status'[q] = "TERMINATING" /\ stopping'[q] = caller
                      /\ bridge'[q] = IF bridge[q] = "live" THEN "closing" ELSE bridge[q]
  BY DEF BeginStop
<1>2. ASSUME NEW x \in T
      PROVE  /\ x \in Worker!Stoppable /\ Told'[x] = "TERMINATING" /\ x \in Stopping'
             /\ Bridge'[x] = IF Bridge[x] = "live" THEN "closing" ELSE Bridge[x]
  <2>1. /\ started[x] # 0 /\ InMap(x) = Last(x) /\ InMap(x) \in Orchestrators
        /\ Worker!Known(x) /\ ~Worker!Over(x)
    BY <1>2, InTheMap
  <2>2. ~Working(Last(x))
    BY <1>2, <2>1 DEF Working, IInv, Stages
  <2>3. x \in Worker!Stoppable
    BY <1>2, <2>1, <2>2, MappingIs DEF Worker!Stoppable
  <2>4. sessions'[x] = sessions[x] /\ InMap(x)' = InMap(x) /\ Last(x)' = Last(x)
    BY <1>2 DEF TwiceStopped, InMap, Last
  <2>5. Told'[x] = "TERMINATING" /\ x \in Stopping'
    BY <1>1, <1>2, <2>1, <2>4, MappingWillBe DEF Working
  <2>6. Bridge'[x] = IF Bridge[x] = "live" THEN "closing" ELSE Bridge[x]
    BY <1>1, <1>2, <2>1, <2>4, MappingIs, MappingWillBe
  <2>7. QED
    BY <2>3, <2>5, <2>6
<1>3. ASSUME NEW x \in Ids \ T
      PROVE  ToldOrEvicted(x) /\ Bridge'[x] = Bridge[x] /\ (x \in Stopping' <=> x \in Stopping)
  <2>1. \A q \in Orchestrators :
          q[1] = x => bridge'[q] = bridge[q] /\ status'[q] = status[q] /\ stopping'[q] = stopping[q]
    BY <1>1, <1>3
  <2>2. CASE sessions'[x] = sessions[x] /\ Snapshot(x)' \in {Snapshot(x), "unknown"}
    BY <2>1, <2>2, Untouched
  <2>3. CASE TwiceStopped(x, S)
    <3>1. started[x] # 0 /\ InMap(x) = Last(x) /\ InMap(x) \in Orchestrators \ S /\ InMap(x)[1] = x
      BY <2>3, InTheMap DEF TwiceStopped
    <3>2. Told[x] = status[InMap(x)] /\ Told'[x] = status[InMap(x)]
      BY <2>3, MappingIs, MappingWillBe DEF TwiceStopped
    <3>3. /\ Last(x)' = Last(x) /\ bridge'[Last(x)] = bridge[Last(x)]
          /\ Working(Last(x))' = Working(Last(x))
      BY <1>1, <3>1 DEF Last, Working
    <3>4. Bridge'[x] = Bridge[x] /\ (x \in Stopping' <=> x \in Stopping)
      BY <3>1, <3>3, MappingIs, MappingWillBe
    <3>5. QED
      BY <3>2, <3>4 DEF ToldOrEvicted
  <2>4. QED
    BY <2>2, <2>3
<1>4. T \in SUBSET Worker!Stoppable /\ T \in SUBSET Ids
  BY <1>2
<1>5. \A x \in T : Told'[x] = "TERMINATING" /\ x \in Stopping'
  BY <1>2
<1>6. \A x \in Ids : Bridge'[x] = IF x \in T /\ Bridge[x] = "live" THEN "closing" ELSE Bridge[x]
  BY <1>2, <1>3
<1>7. \A x \in Ids \ T : ToldOrEvicted(x) /\ (x \in Stopping' <=> x \in Stopping)
  BY <1>3
<1> HIDE DEF T
<1>8. Worker!Tells(T, {"TERMINATING"})
  BY <1>4, <1>5, <1>7, TellsFrom
<1>9. Stopping' = Stopping \cup T
  BY <1>4, <1>5, <1>7, MappingRanges
<1>10. Bridge' = [x \in Ids |-> IF x \in T /\ Bridge[x] = "live" THEN "closing" ELSE Bridge[x]]
  BY <1>6, MappingRanges
<1>11. Worker!BeginStop(T)
  BY <1>4, <1>8, <1>9, <1>10 DEF Worker!BeginStop
<1>12. QED
  BY <1>4, <1>11

\* The end of a meeting begins the stop of its session.
LEMMA MeetingEndsServes ==
  ASSUME IInv, PInv, process # "exited", NEW o \in Orchestrators, MeetingEnds(o)
  PROVE  \E T \in SUBSET Worker!Stoppable : Worker!BeginStop(T)
<1>1. o[1] \in Ids /\ started[o[1]] # 0 /\ o = Last(o[1]) /\ o \notin stopped
  BY ActiveIsLast DEF MeetingEnds, Live
<1>2. sessions[o[1]] # 0
  BY <1>1 DEF Working, IInv, TypeOK, Stages, PInv, Accounted
<1> DEFINE S == {o}
<1>3. /\ S \in SUBSET Orchestrators /\ BeginStop(S, "meeting")
      /\ UNCHANGED <<sessions, recent, started, process>>
  BY DEF MeetingEnds
<1>4. \A q \in S : q[1] \in Ids /\ sessions[q[1]] # 0 /\ q = InMap(q[1]) /\ q \notin stopped
  BY <1>1, <1>2, InTheMap
<1> HIDE DEF S
<1>5. QED
  BY <1>3, <1>4, MapKept, BeginStopServes

\* stopSession() begins one stop, ...
LEMMA StopSessionServes ==
  ASSUME IInv, PInv, process # "exited", NEW id \in Ids, StopSession(id)
  PROVE  \E T \in SUBSET Worker!Stoppable : Worker!BeginStop(T)
<1> DEFINE S == {InMap(id)}
<1>1. BeginStop(S, "request") /\ UNCHANGED <<sessions, recent, started, process>>
  BY DEF StopSession
<1>2. /\ S \in SUBSET Orchestrators
      /\ \A q \in S : q[1] \in Ids /\ sessions[q[1]] # 0 /\ q = InMap(q[1]) /\ q \notin stopped
  BY InTheMap DEF StopSession
<1> HIDE DEF S
<1>3. QED
  BY <1>1, <1>2, MapKept, BeginStopServes

\* A second request stops nothing; the snapshot it leaves may evict another one.
LEMMA StopSessionAgainServes ==
  ASSUME IInv, PInv, process # "exited", NEW id \in Ids, StopSessionAgain(id)
  PROVE  \E T \in SUBSET Worker!Stoppable : Worker!BeginStop(T)
<1> DEFINE S == {o \in Orchestrators : FALSE}
<1>1. /\ sessions[id] # 0 /\ InMap(id) \in stopped
      /\ sessions' = [sessions EXCEPT ![id] = 0] /\ recent' = Latest(id, status[InMap(id)])
      /\ UNCHANGED <<started, status, stopped, bridge, stopping, process>>
  BY DEF StopSessionAgain, Retire, orchestrators
<1>2. BeginStop(S, "request") /\ S \in SUBSET Orchestrators /\ \A q \in Orchestrators : q \notin S
  BY <1>1 DEF BeginStop, IInv, TypeOK
<1> HIDE DEF S
<1>3. status[InMap(id)] \in Status /\ InMap(id) \in Orchestrators
  BY <1>1, InMapIs
<1>4. Snapshot(id)' = status[InMap(id)]
  BY <1>1, <1>3, LatestTells DEF IInv
<1>5. TwiceStopped(id, S)
  BY <1>1, <1>2, <1>3, <1>4 DEF TwiceStopped, IInv, TypeOK
<1>6. \A x \in Ids \ {id} : sessions'[x] = sessions[x] /\ Snapshot(x)' \in {Snapshot(x), "unknown"}
  BY <1>1, SnapshotOfStopped
<1>7. QED
  BY <1>1, <1>2, <1>5, <1>6, BeginStopServes

\* ... and shutdown() one of every session that is not being stopped, ...
LEMMA ShutdownServes ==
  ASSUME IInv, PInv, Shutdown
  PROVE  \E T \in SUBSET Worker!Stoppable : Worker!BeginStop(T)
<1> DEFINE S == {InMap(id) : id \in {i \in Ids : sessions[i] # 0}}
<1>1. /\ process = "up" /\ process' = "shutdown" /\ S \cap stopped = {}
      /\ BeginStop(S, "request") /\ UNCHANGED <<sessions, recent, started>>
  BY DEF Shutdown
<1>2. /\ S \in SUBSET Orchestrators
      /\ \A q \in S : q[1] \in Ids /\ sessions[q[1]] # 0 /\ q = InMap(q[1]) /\ q \notin stopped
  BY <1>1, InTheMap
<1> HIDE DEF S
<1>3. QED
  BY <1>1, <1>2, MapKept, BeginStopServes

\* ... also when it takes the place of a stop() under way.
LEMMA ShutdownMeetsStopServes ==
  ASSUME IInv, PInv, ShutdownMeetsStop
  PROVE  \E T \in SUBSET Worker!Stoppable : Worker!BeginStop(T)
<1> DEFINE S == {InMap(id) : id \in {i \in Ids : sessions[i] # 0}} \ stopped
<1>1. PICK id \in Ids :
        /\ sessions[id] # 0 /\ InMap(id) \in stopped
        /\ sessions' = [i \in Ids |-> IF i \in {id} THEN 0 ELSE sessions[i]]
        /\ recent' = Latest(id, status[InMap(id)])
  BY DEF ShutdownMeetsStop
<1>2. /\ process = "up" /\ process' = "shutdown"
      /\ BeginStop(S, "request") /\ UNCHANGED started
  BY DEF ShutdownMeetsStop
<1>3. /\ S \in SUBSET Orchestrators
      /\ \A q \in S : q[1] \in Ids /\ sessions[q[1]] # 0 /\ q = InMap(q[1]) /\ q \notin stopped
  <2>1. \A x \in Ids : sessions[x] # 0 => InMap(x) \in Orchestrators /\ InMap(x)[1] = x
    BY <1>2, InTheMap
  <2>2. QED
    BY <2>1
<1>4. Snapshot(id)' = status[InMap(id)]
  BY <1>1, InMapIs, LatestTells DEF IInv
<1>5. TwiceStopped(id, S)
  BY <1>1, <1>4 DEF TwiceStopped
<1> HIDE DEF S
<1>6. \A x \in Ids \ {id} : sessions'[x] = sessions[x] /\ Snapshot(x)' \in {Snapshot(x), "unknown"}
  BY <1>1, SnapshotOfStopped
<1>7. QED
  BY <1>2, <1>3, <1>5, <1>6, BeginStopServes

\* The process ends.
LEMMA ExitServes ==
  ASSUME IInv, process # "exited", Exit
  PROVE  Worker!Restart
<1>1. process' = "exited" /\ UNCHANGED <<started, bridge>>
  BY DEF Exit, orchestrators
<1>2. Told' = [x \in Ids |-> "unknown"] /\ Stopping' = {}
  BY <1>1 DEF Told, Stopping
<1>3. ASSUME NEW x \in Ids
      PROVE  Bridge'[x] = IF Bridge[x] = "none" THEN "none" ELSE "down"
  <2>1. Bridge'[x] = IF started[x] = 0 THEN "none" ELSE "down"
    BY <1>1 DEF Bridge
  <2>2. started[x] # 0 => bridge[Last(x)] # "none"
    <3>1. started[x] # 0 => Last(x) \in Orchestrators /\ Last(x)[2] <= started[Last(x)[1]]
      BY LastIs DEF IInv, TypeOK
    <3>2. QED
      BY <3>1 DEF IInv, Stages
  <2>3. QED
    BY <2>1, <2>2, MappingIs
<1>4. QED
  BY <1>2, <1>3, MappingRanges DEF Worker!Restart

\* No session is known at first.
LEMMA InitServes == Init => Worker!Init
<1> SUFFICES ASSUME Init
             PROVE  Worker!Init
  OBVIOUS
<1>1. \A x \in Ids : Told[x] = "unknown" /\ Bridge[x] = "none" /\ x \notin Stopping
  <2>1. \A x \in Ids : Remembered(x) = {}
    <3>1. Len(recent) = 0
      BY DEF Init
    <3>2. QED
      BY <3>1 DEF Remembered
  <2>2. QED
    BY <2>1, MappingIs DEF Init, Snapshot
<1>2. QED
  BY <1>1, MappingRanges DEF Worker!Init

\* Each action is a step of SessionWorker or changes nothing it tells.
LEMMA StepServes ==
  ASSUME Patient, IInv, PInv, [Next]_vars
  PROVE  [Worker!Next]_(Worker!vars)
<1>1. CASE UNCHANGED vars
  <2>1. UNCHANGED <<Told, Bridge, Stopping>>
    BY <1>1 DEF vars, orchestrators, Told, Bridge, Stopping, Answer, Remembered, InMap, Last
  <2>2. QED
    BY <2>1 DEF Worker!vars
<1>2. CASE Next
  <2>1. process # "exited"
    BY <1>2 DEF Next
  <2>2. ASSUME NEW id \in Ids, StartSession(id)
        PROVE  Worker!Next
    BY <2>1, <2>2, StartSessionServes DEF Worker!Next
  <2>3. ASSUME NEW o \in Orchestrators,
               \/ BuildEnds(o) \/ BuildFails(o) \/ ReconnectAbandoned(o)
               \/ BridgeBreaks(o) \/ StopEnds(o)
        PROVE  Worker!Next
    BY <2>1, <2>3, OrchestratorIs, BuildEndsServes, BuildFailsServes, ReconnectAbandonedServes,
       BridgeBreaksServes, StopEndsServes DEF Worker!Next
  <2>4. (\E T \in SUBSET Worker!Stoppable : Worker!BeginStop(T)) => Worker!Next
    BY DEF Worker!Next
  <2>5. ASSUME NEW id \in Ids, StopSession(id) \/ StopSessionAgain(id)
        PROVE  Worker!Next
    BY <2>1, <2>4, <2>5, StopSessionServes, StopSessionAgainServes
  <2>6. ASSUME NEW o \in Orchestrators, MeetingEnds(o)
        PROVE  Worker!Next
    BY <2>1, <2>4, <2>6, MeetingEndsServes
  <2>7. Shutdown \/ ShutdownMeetsStop => Worker!Next
    BY <2>4, ShutdownServes, ShutdownMeetsStopServes
  <2>8. Exit => Worker!Next
    BY <2>1, ExitServes DEF Worker!Next
  <2>9. ASSUME \/ \E id \in Ids : GetSessionStatus(id)
               \/ \E o \in Orchestrators : FailEnds(o)
        PROVE  UNCHANGED Worker!vars
    BY <2>1, <2>9, GetSessionStatusServes, FailEndsServes DEF Worker!vars
  <2>10. QED
    BY <1>2, <2>2, <2>3, <2>5, <2>6, <2>7, <2>8, <2>9 DEF Next, Progress
<1>3. QED
  BY <1>1, <1>2

\* The map, the recent snapshots, the second stop and the shutdown together tell
\* the control plane nothing that SessionWorker does not allow: if no id is
\* started again while its last session works.
THEOREM Serves == ASSUME Patient PROVE Spec => ServesSessions
<1>1. Init => Worker!Init
  BY InitServes
<1>2. IInv /\ PInv /\ [Next]_vars => [Worker!Next]_(Worker!vars)
  BY StepServes
<1>3. QED
  BY <1>1, <1>2, IInvInit, IInvStep, PInvInit, PInvStep, PTL DEF Spec, ServesSessions, Worker!Spec
=============================================================================
