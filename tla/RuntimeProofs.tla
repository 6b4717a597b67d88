---------------------------- MODULE RuntimeProofs ----------------------------
(***************************************************************************)
(* Theorems about WorkerRuntime, for every set of ids, every limit on the  *)
(* recent snapshots and however often each id is started.                  *)
(***************************************************************************)
EXTENDS WorkerRuntime, TLAPS

-----------------------------------------------------------------------------
(* The recent snapshots as a map from ids                                  *)

Entry == [id : Ids, status : Status]

\* recentSnapshots is a Map: one entry for an id.
OneEntry(r) == \A i, j \in 1..Len(r) : r[i].id = r[j].id => i = j

RecentOK ==
  /\ recent \in Seq(Entry)
  /\ Len(recent) <= Limit
  /\ OneEntry(recent)

Snapshot(id) ==
  IF Remembered(id) = {} THEN "unknown"
  ELSE recent[CHOOSE i \in Remembered(id) : TRUE].status

\* The snapshot of an id is its only entry, if it has one.
LEMMA SnapshotIs ==
  ASSUME RecentOK, NEW i \in 1..Len(recent)
  PROVE  /\ recent[i] \in Entry
         /\ Remembered(recent[i].id) = {i}
         /\ Snapshot(recent[i].id) = recent[i].status
<1>1. recent[i] \in Entry
  BY DEF RecentOK
<1>2. Remembered(recent[i].id) = {i}
  BY DEF RecentOK, OneEntry, Remembered
<1>3. (CHOOSE j \in Remembered(recent[i].id) : TRUE) = i
  BY <1>2
<1>4. QED
  BY <1>1, <1>2, <1>3 DEF Snapshot

\* The status of an entry is never "unknown".
LEMMA SnapshotUnknown ==
  ASSUME RecentOK, NEW id \in Ids
  PROVE  /\ Snapshot(id) \in Status \cup {"unknown"}
         /\ Snapshot(id) = "unknown" <=> Remembered(id) = {}
<1>1. CASE Remembered(id) = {}
  BY <1>1 DEF Snapshot
<1>2. ASSUME NEW i \in Remembered(id)
      PROVE  Snapshot(id) \in Status
  BY <1>2, SnapshotIs DEF Remembered, Entry
<1>3. "unknown" \notin Status
  BY DEF Status, Terminal
<1>4. QED
  BY <1>1, <1>2, <1>3

\* What deleting the entry of an id leaves.
LEMMA ForgetMeans ==
  ASSUME RecentOK, NEW id \in Ids, NEW f, f = Forget(id)
  PROVE  /\ f \in Seq(Entry)
         /\ Len(f) = IF Remembered(id) = {} THEN Len(recent) ELSE Len(recent) - 1
         /\ OneEntry(f)
         /\ \A i \in 1..Len(f) :
              f[i].id # id /\ \E j \in 1..Len(recent) : f[i] = recent[j]
         /\ \A j \in 1..Len(recent) :
              recent[j].id # id => \E i \in 1..Len(f) : f[i] = recent[j]
<1>1. CASE Remembered(id) = {}
  BY <1>1 DEF Forget, RecentOK, Remembered
<1>2. CASE Remembered(id) # {}
  <2> DEFINE place == CHOOSE i \in Remembered(id) : TRUE
             n == Len(recent)
  <2>1. n \in Nat /\ place \in 1..n /\ recent[place].id = id
    BY <1>2 DEF Remembered, RecentOK
  <2>2. f = [i \in 1..n - 1 |-> recent[IF i < place THEN i ELSE i + 1]]
    BY <1>2 DEF Forget
  <2> HIDE DEF place
  <2>3. \A i \in 1..n : recent[i] \in Entry /\ (recent[i].id = id <=> i = place)
    BY <2>1 DEF RecentOK, OneEntry
  <2>4. f \in Seq(Entry) /\ Len(f) = n - 1
    BY <2>1, <2>2, <2>3
  <2>5. \A i \in 1..n - 1 : f[i] = recent[IF i < place THEN i ELSE i + 1]
    BY <2>2
  <2>6. OneEntry(f)
    BY <2>1, <2>4, <2>5 DEF OneEntry, RecentOK
  <2>7. \A i \in 1..n - 1 : f[i].id # id /\ \E j \in 1..n : f[i] = recent[j]
    BY <2>1, <2>3, <2>5
  <2>8. ASSUME NEW j \in 1..n, recent[j].id # id
        PROVE  \E i \in 1..n - 1 : f[i] = recent[j]
    <3>1. CASE j < place
      BY <2>1, <2>5, <3>1
    <3>2. CASE j > place
      <4>1. j - 1 \in 1..n - 1 /\ f[j - 1] = recent[j]
        BY <2>1, <2>5, <3>2
      <4>2. QED
        BY <4>1
    <3>3. QED
      BY <2>1, <2>3, <2>8, <3>1, <3>2
  <2>9. QED
    BY <1>2, <2>4, <2>6, <2>7, <2>8
<1>3. QED
  BY <1>1, <1>2

\* What recording a snapshot leaves: its entry last, the eldest evicted.
LEMMA LatestMeans ==
  ASSUME RecentOK, NEW id \in Ids, NEW st \in Status, NEW l, l = Latest(id, st)
  PROVE  /\ l \in Seq(Entry) /\ Len(l) <= Limit /\ OneEntry(l)
         /\ \E i \in 1..Len(l) : l[i] = [id |-> id, status |-> st]
         /\ \A i \in 1..Len(l) :
              \/ l[i] = [id |-> id, status |-> st]
              \/ l[i].id # id /\ \E j \in 1..Len(recent) : l[i] = recent[j]
         /\ Remembered(id) # {} =>
              \A j \in 1..Len(recent) :
                recent[j].id # id => \E i \in 1..Len(l) : l[i] = recent[j]
<1> DEFINE f == Forget(id)
           e == [id |-> id, status |-> st]
           r == Append(f, e)
           n == Len(f)
<1>1. /\ f \in Seq(Entry) /\ OneEntry(f)
      /\ n = IF Remembered(id) = {} THEN Len(recent) ELSE Len(recent) - 1
      /\ \A i \in 1..n : f[i].id # id /\ \E j \in 1..Len(recent) : f[i] = recent[j]
      /\ \A j \in 1..Len(recent) :
           recent[j].id # id => \E i \in 1..n : f[i] = recent[j]
  BY ForgetMeans
<1>2. /\ Limit \in Nat \ {0} /\ Len(recent) \in Nat /\ Len(recent) <= Limit
      /\ n \in Nat /\ n <= Limit /\ (Remembered(id) # {} => n < Limit)
  BY <1>1, LimitAssumption DEF RecentOK, Remembered
<1>3. l = SubSeq(r, IF Len(r) > Limit THEN 2 ELSE 1, Len(r))
  BY DEF Latest
<1> HIDE DEF f
<1>4. /\ e \in Entry /\ e.id = id
      /\ r \in Seq(Entry) /\ Len(r) = n + 1 /\ r[n + 1] = e
      /\ \A i \in 1..n : r[i] = f[i]
  BY <1>1, <1>2 DEF Entry
<1> HIDE DEF e, r
<1> HIDE DEF n
<1>5. OneEntry(r)
  <2> SUFFICES ASSUME NEW i \in 1..n + 1, NEW j \in 1..n + 1, r[i].id = r[j].id
               PROVE  i = j
    BY <1>4 DEF OneEntry
  <2>1. \A k \in 1..n : r[k].id # id /\ r[k] = f[k]
    BY <1>1, <1>4
  <2>2. \A k \in 1..n + 1 : k \in 1..n \/ (k = n + 1 /\ r[k].id = id)
    BY <1>2, <1>4
  <2>3. CASE i \in 1..n /\ j \in 1..n
    BY <1>1, <2>1, <2>3 DEF OneEntry, n
  <2>4. QED
    BY <2>1, <2>2, <2>3
<1>6. CASE n = Limit
  <2>1. l = SubSeq(r, 2, n + 1)
    BY <1>2, <1>3, <1>4, <1>6
  <2>2. /\ l \in Seq(Entry) /\ Len(l) = n
        /\ \A i \in 1..n : l[i] = r[i + 1]
    BY <1>2, <1>4, <1>6, <2>1
  <2>3. OneEntry(l)
    <3> SUFFICES ASSUME NEW i \in 1..n, NEW j \in 1..n, l[i].id = l[j].id
                 PROVE  i = j
      BY <2>2 DEF OneEntry
    <3>1. i + 1 \in 1..n + 1 /\ j + 1 \in 1..n + 1 /\ r[i + 1].id = r[j + 1].id
      BY <1>2, <2>2
    <3>2. i + 1 = j + 1
      BY <1>4, <1>5, <3>1 DEF OneEntry
    <3>3. QED
      BY <1>2, <3>2
  <2>4. l[n] = e
    BY <1>2, <1>4, <1>6, <2>2
  <2>5. ASSUME NEW i \in 1..n, i # n
        PROVE  l[i].id # id /\ \E j \in 1..Len(recent) : l[i] = recent[j]
    <3>1. i + 1 \in 1..n /\ l[i] = f[i + 1]
      BY <1>2, <1>4, <2>2, <2>5
    <3>2. QED
      BY <1>1, <3>1
  <2>6. n \in 1..n /\ ~(Remembered(id) # {})
    BY <1>2, <1>6
  <2>7. QED
    BY <1>2, <1>6, <2>2, <2>3, <2>4, <2>5, <2>6 DEF e
<1>7. CASE n < Limit
  <2>1. l = SubSeq(r, 1, n + 1)
    BY <1>2, <1>3, <1>4, <1>7
  <2>2. l = r
    BY <1>2, <1>4, <2>1
  <2>3. \A i \in 1..n : i \in 1..n + 1 /\ l[i] = f[i]
    BY <1>2, <1>4, <2>2
  <2>4. \A i \in 1..n + 1 : i \in 1..n \/ i = n + 1
    BY <1>2
  <2>5. n + 1 \in 1..n + 1 /\ Len(l) = n + 1 /\ l[n + 1] = e
    BY <1>2, <1>4, <2>2
  <2>6. \A i \in 1..n + 1 :
          l[i] = e \/ (l[i].id # id /\ \E j \in 1..Len(recent) : l[i] = recent[j])
    BY <1>1, <2>3, <2>4, <2>5 DEF n
  <2>7. \A j \in 1..Len(recent) : recent[j].id # id => \E i \in 1..n + 1 : l[i] = recent[j]
    <3> SUFFICES ASSUME NEW j \in 1..Len(recent), recent[j].id # id
                 PROVE  \E i \in 1..n + 1 : l[i] = recent[j]
      OBVIOUS
    <3>1. PICK i \in 1..n : f[i] = recent[j]
      BY <1>1 DEF n
    <3>2. QED
      BY <2>3, <3>1
  <2>8. QED
    BY <1>2, <1>4, <1>5, <1>7, <2>2, <2>5, <2>6, <2>7 DEF e
<1>8. QED
  BY <1>2, <1>6, <1>7

\* What a sequence of snapshots tells of an id, and of nobody else.
LEMMA SnapshotsAre ==
  ASSUME RecentOK, RecentOK', NEW x \in Ids
  PROVE  /\ (\A i \in 1..Len(recent') : recent'[i].id # x) => Snapshot(x)' = "unknown"
         /\ \A i \in 1..Len(recent') : recent'[i].id = x => Snapshot(x)' = recent'[i].status
         /\ (\E i \in 1..Len(recent'), j \in 1..Len(recent) :
               recent'[i] = recent[j] /\ recent[j].id = x) => Snapshot(x)' = Snapshot(x)
<1>1. (\A i \in 1..Len(recent') : recent'[i].id # x) => Snapshot(x)' = "unknown"
  BY DEF Snapshot, Remembered
<1>2. \A i \in 1..Len(recent) : recent[i].id = x => Snapshot(x) = recent[i].status
  BY SnapshotIs
<1>3. \A i \in 1..Len(recent') : recent'[i].id = x => Snapshot(x)' = recent'[i].status
  <2> SUFFICES ASSUME NEW i \in 1..Len(recent'), recent'[i].id = x
               PROVE  Snapshot(x)' = recent'[i].status
    OBVIOUS
  <2>1. Remembered(x)' = {i}
    BY DEF RecentOK, OneEntry, Remembered
  <2>2. QED
    BY <2>1 DEF Snapshot
<1>4. QED
  BY <1>1, <1>2, <1>3

\* What is told of each id when one entry has gone, ...
LEMMA ForgetTells ==
  ASSUME RecentOK, NEW id \in Ids, recent' = Forget(id)
  PROVE  /\ RecentOK'
         /\ Snapshot(id)' = "unknown"
         /\ \A x \in Ids \ {id} : Snapshot(x)' = Snapshot(x)
<1>1. /\ recent' \in Seq(Entry) /\ OneEntry(recent')
      /\ Len(recent') = IF Remembered(id) = {} THEN Len(recent) ELSE Len(recent) - 1
      /\ \A i \in 1..Len(recent') :
           recent'[i].id # id /\ \E j \in 1..Len(recent) : recent'[i] = recent[j]
      /\ \A j \in 1..Len(recent) :
           recent[j].id # id => \E i \in 1..Len(recent') : recent'[i] = recent[j]
  <2>1. recent' \in Seq(Entry) /\ OneEntry(recent')
    BY ForgetMeans
  <2>2. Len(recent') = IF Remembered(id) = {} THEN Len(recent) ELSE Len(recent) - 1
    BY ForgetMeans
  <2>3. \A i \in 1..Len(recent') :
          recent'[i].id # id /\ \E j \in 1..Len(recent) : recent'[i] = recent[j]
    BY ForgetMeans
  <2>4. \A j \in 1..Len(recent) :
          recent[j].id # id => \E i \in 1..Len(recent') : recent'[i] = recent[j]
    BY ForgetMeans
  <2>5. QED
    BY <2>1, <2>2, <2>3, <2>4
<1>2. RecentOK'
  BY <1>1, LimitAssumption DEF RecentOK
<1>3. Snapshot(id)' = "unknown"
  BY <1>1, <1>2, SnapshotsAre
<1>4. ASSUME NEW x \in Ids \ {id}
      PROVE  Snapshot(x)' = Snapshot(x)
  <2>1. CASE \E j \in 1..Len(recent) : recent[j].id = x
    BY <1>1, <1>2, <2>1, SnapshotsAre
  <2>2. CASE \A j \in 1..Len(recent) : recent[j].id # x
    <3>1. Snapshot(x) = "unknown"
      BY <2>2 DEF Snapshot, Remembered
    <3>2. \A i \in 1..Len(recent') : recent'[i].id # x
      BY <1>1, <2>2
    <3>3. QED
      BY <1>2, <3>1, <3>2, SnapshotsAre
  <2>3. QED
    BY <2>1, <2>2
<1>5. QED
  BY <1>2, <1>3, <1>4

\* ... and when one was recorded.
LEMMA LatestTells ==
  ASSUME RecentOK, NEW id \in Ids, NEW st \in Status, recent' = Latest(id, st)
  PROVE  /\ RecentOK'
         /\ Snapshot(id)' = st
         /\ \A x \in Ids \ {id} : Snapshot(x)' \in {Snapshot(x), "unknown"}
         /\ Snapshot(id) # "unknown" => \A x \in Ids \ {id} : Snapshot(x)' = Snapshot(x)
<1> DEFINE e == [id |-> id, status |-> st]
<1>1. /\ recent' \in Seq(Entry) /\ Len(recent') <= Limit /\ OneEntry(recent')
      /\ \E i \in 1..Len(recent') : recent'[i] = e
      /\ \A i \in 1..Len(recent') :
           recent'[i] = e \/ (recent'[i].id # id /\ \E j \in 1..Len(recent) : recent'[i] = recent[j])
      /\ Remembered(id) # {} =>
           \A j \in 1..Len(recent) :
             recent[j].id # id => \E i \in 1..Len(recent') : recent'[i] = recent[j]
  BY LatestMeans
<1>2. RecentOK'
  BY <1>1, LimitAssumption DEF RecentOK
<1>3. Snapshot(id)' = st
  <2>1. PICK i \in 1..Len(recent') : recent'[i] = e
    BY <1>1
  <2>2. recent'[i].id = id /\ recent'[i].status = st
    BY <2>1
  <2>3. QED
    BY <1>2, <2>2, SnapshotsAre
<1>4. ASSUME NEW x \in Ids \ {id}
      PROVE  /\ Snapshot(x)' \in {Snapshot(x), "unknown"}
             /\ Snapshot(id) # "unknown" => Snapshot(x)' = Snapshot(x)
  <2>1. \A i \in 1..Len(recent') : recent'[i].id = x => \E j \in 1..Len(recent) : recent'[i] = recent[j]
    BY <1>1
  <2>2. Snapshot(x)' \in {Snapshot(x), "unknown"}
    BY <1>2, <2>1, SnapshotsAre
  <2>3. CASE \E j \in 1..Len(recent) : recent[j].id = x
    BY <1>1, <1>2, <2>2, <2>3, SnapshotsAre, SnapshotUnknown
  <2>4. CASE \A j \in 1..Len(recent) : recent[j].id # x
    <3>1. Snapshot(x) = "unknown"
      BY <2>4 DEF Snapshot, Remembered
    <3>2. QED
      BY <2>2, <3>1
  <2>5. QED
    BY <2>2, <2>3, <2>4
<1>5. QED
  BY <1>2, <1>3, <1>4

-----------------------------------------------------------------------------
(* The inductive invariant, whether or not the caller is patient           *)

Working(o) == stopping[o] \in {"request", "meeting"}

\* The stages of an orchestrator follow its own start() and stop().
Stages ==
  \A o \in Orchestrators :
    /\ IF o[2] <= started[o[1]]
       THEN status[o] # "CREATED" /\ bridge[o] # "none"
       ELSE /\ status[o] = "CREATED" /\ bridge[o] = "none"
            /\ stopping[o] = "none" /\ o \notin stopped
    /\ stopping[o] # "none" => o \in stopped
    /\ o \in stopped => status[o] # "RECONNECTING"
    /\ o \notin stopped /\ bridge[o] = "live" => status[o] = "BRIDGING"

\* An orchestrator that is over has called onTerminal.
EndsNotified ==
  \A o \in Orchestrators :
    \/ status[o] \in Terminal
    \/ bridge[o] \in {"startFails", "givesUp"}
    \/ stopping[o] = "done"
    => o \in notified

MapHasLast == \A id \in Ids : sessions[id] \in {0, started[id]}

NotBoth ==
  \A id \in Ids : sessions[id] # 0 => Snapshot(id) = "unknown" /\ InMap(id) \notin notified

IInv ==
  /\ TypeOK
  /\ RecentOK
  /\ Stages
  /\ EndsNotified
  /\ MapHasLast
  /\ NotBoth

\* An orchestrator is an id and a number.
LEMMA OrchestratorIs ==
  /\ \A o \in Orchestrators :
       o[1] \in Ids /\ o[2] \in 1..Incarnations[o[1]] /\ o = <<o[1], o[2]>>
  /\ \A id \in Ids : \A k \in 1..Incarnations[id] : <<id, k>> \in Orchestrators
BY DEF Orchestrators

\* The orchestrator of an id in the map is its last.
LEMMA InMapIs ==
  ASSUME IInv, NEW id \in Ids, sessions[id] # 0
  PROVE  /\ InMap(id) \in Orchestrators
         /\ InMap(id)[1] = id /\ InMap(id)[2] = started[id]
         /\ status[InMap(id)] \in Status \ Terminal
<1>1. sessions[id] \in 1..Incarnations[id] /\ sessions[id] = started[id]
  BY IncarnationsAssumption DEF IInv, TypeOK, MapHasLast
<1>2. InMap(id) \in Orchestrators
  BY <1>1, OrchestratorIs DEF InMap
<1>3. QED
  BY <1>1, <1>2 DEF IInv, InMap, NotBoth, EndsNotified, TypeOK

\* No id is started at first.
LEMMA IInvInit == Init => IInv
<1> SUFFICES ASSUME Init
             PROVE  IInv
  OBVIOUS
<1>1. RecentOK
  BY LimitAssumption DEF Init, RecentOK, OneEntry
<1>2. TypeOK
  BY <1>1, IncarnationsAssumption DEF Init, TypeOK, RecentOK, Entry, Status
<1>3. Stages
  BY OrchestratorIs, IncarnationsAssumption DEF Init, Stages
<1>4. EndsNotified /\ MapHasLast /\ NotBoth
  BY DEF Init, EndsNotified, MapHasLast, NotBoth, Terminal
<1>5. QED
  BY <1>1, <1>2, <1>3, <1>4 DEF IInv

\* stop() of some orchestrators, by a request or at the end of a meeting.
LEMMA BeginStopMeans ==
  ASSUME IInv, NEW S \in SUBSET Orchestrators, NEW caller \in {"request", "meeting"},
         \A o \in S : o[2] <= started[o[1]],
         BeginStop(S, caller), UNCHANGED <<sessions, recent, started, notified>>,
         process' \in {"up", "shutdown", "exited"}, awaited' \subseteq Orchestrators
  PROVE  IInv'
<1> USE DEF IInv, BeginStop
<1>1. RecentOK'
  BY DEF RecentOK
<1>2. TypeOK'
  BY DEF TypeOK, Status
<1>3. Stages'
  BY DEF Stages, TypeOK
<1>4. EndsNotified'
  BY DEF EndsNotified, Terminal, TypeOK
<1>5. MapHasLast' /\ NotBoth'
  BY DEF MapHasLast, NotBoth, InMap, Snapshot, Remembered
<1>6. QED
  BY <1>1, <1>2, <1>3, <1>4, <1>5

\* The snapshots enter IInv only through what they tell.
LEMMA RecentStep ==
  ASSUME IInv, NEW id \in Ids,
         \/ UNCHANGED recent
         \/ recent' = Forget(id)
         \/ \E st \in Status : recent' = Latest(id, st)
  PROVE  /\ RecentOK'
         /\ recent' \in Seq([id : Ids, status : Status]) /\ Len(recent') <= Limit
         /\ \A x \in Ids \ {id} : Snapshot(x)' \in {Snapshot(x), "unknown"}
<1>1. CASE UNCHANGED recent
  BY <1>1 DEF IInv, RecentOK, Snapshot, Remembered, Entry
<1>2. CASE recent' = Forget(id)
  BY <1>2, ForgetTells DEF IInv, RecentOK, Entry
<1>3. ASSUME NEW st \in Status, recent' = Latest(id, st)
      PROVE  RecentOK' /\ \A x \in Ids \ {id} : Snapshot(x)' \in {Snapshot(x), "unknown"}
  BY <1>3, LatestTells DEF IInv
<1>4. QED
  BY <1>1, <1>2, <1>3 DEF RecentOK, Entry

\* onTerminal or the end of stopSession(): the session leaves the map, and its
\* snapshot is kept, unless it had called onTerminal before.
NotifyStep(o, st) ==
  /\ RecentOK'
  /\ recent' \in Seq([id : Ids, status : Status]) /\ Len(recent') <= Limit
  /\ \A x \in Ids \ {o[1]} : Snapshot(x)' \in {Snapshot(x), "unknown"}
  /\ \/ sessions' = sessions /\ o \in notified /\ Snapshot(o[1])' = Snapshot(o[1])
     \/ sessions' = [sessions EXCEPT ![o[1]] = 0] /\ Snapshot(o[1])' = st
  /\ \A x \in Ids : InMap(x)' = <<x, sessions'[x]>>

\* What onTerminal leaves of the map and the snapshots.
LEMMA NotifyMeans ==
  ASSUME IInv, NEW o \in Orchestrators, NEW st \in Status, Notify(o, st) \/ Retire(o[1], st)
  PROVE  NotifyStep(o, st)
<1>1. o[1] \in Ids
  BY OrchestratorIs
<1>2. CASE UNCHANGED <<sessions, recent>> /\ o \in notified
  <2>1. \A x \in Ids : Snapshot(x)' = Snapshot(x)
    BY <1>2 DEF Snapshot, Remembered
  <2>2. QED
    BY <1>1, <1>2, <2>1, RecentStep DEF NotifyStep, InMap
<1>3. CASE Retire(o[1], st)
  <2>1. Snapshot(o[1])' = st
    BY <1>1, <1>3, LatestTells DEF Retire, IInv
  <2>2. QED
    BY <1>1, <1>3, <2>1, RecentStep DEF Retire, NotifyStep, InMap
<1>4. QED
  BY <1>2, <1>3 DEF Notify

\* onTerminal keeps an id in one place.
LEMMA NotifyKeeps ==
  ASSUME IInv, NEW o \in Orchestrators, NEW st, NotifyStep(o, st),
         notified' = notified \cup {o}, UNCHANGED started
  PROVE  MapHasLast' /\ NotBoth'
<1>1. o[1] \in Ids
  BY OrchestratorIs
<1>2. MapHasLast'
  BY <1>1 DEF IInv, TypeOK, MapHasLast, NotifyStep
<1>3. ASSUME NEW x \in Ids, sessions'[x] # 0
      PROVE  Snapshot(x)' = "unknown" /\ InMap(x)' \notin notified'
  <2>1. sessions'[x] = sessions[x] /\ InMap(x)' = InMap(x)
    BY <1>1, <1>3 DEF IInv, TypeOK, NotifyStep, InMap
  <2>2. Snapshot(x) = "unknown" /\ InMap(x) \notin notified /\ InMap(x)[1] = x
    BY <1>3, <2>1, InMapIs DEF IInv, NotBoth
  <2>3. CASE x # o[1]
    BY <2>1, <2>2, <2>3 DEF NotifyStep
  <2>4. CASE x = o[1]
    BY <1>3, <2>1, <2>2, <2>4 DEF NotifyStep, IInv, TypeOK
  <2>5. QED
    BY <2>3, <2>4
<1>4. QED
  BY <1>2, <1>3 DEF NotBoth

\* A session leaves the map and its snapshot is kept.
LEMMA RetireMeans ==
  ASSUME IInv, NEW id \in Ids, sessions' = [sessions EXCEPT ![id] = 0],
         \E st \in Status : recent' = Latest(id, st),
         UNCHANGED <<started, orchestrators, process, awaited>>
  PROVE  IInv'
<1>1. /\ RecentOK' /\ recent' \in Seq([id : Ids, status : Status]) /\ Len(recent') <= Limit
      /\ \A x \in Ids \ {id} : Snapshot(x)' \in {Snapshot(x), "unknown"}
  BY RecentStep
<1>2. TypeOK'
  BY <1>1 DEF IInv, TypeOK, orchestrators
<1>3. Stages' /\ EndsNotified'
  BY DEF IInv, Stages, EndsNotified, orchestrators
<1>4. MapHasLast' /\ NotBoth'
  BY <1>1 DEF IInv, TypeOK, MapHasLast, NotBoth, InMap, orchestrators
<1>5. QED
  BY <1>1, <1>2, <1>3, <1>4 DEF IInv

\* One step per action.
LEMMA IInvStep == IInv /\ [Next]_vars => IInv'
<1> SUFFICES ASSUME IInv, [Next]_vars
             PROVE  IInv'
  OBVIOUS
<1>1. ASSUME NEW id \in Ids, StartSession(id)
      PROVE  IInv'
  <2> DEFINE o == <<id, started[id] + 1>>
  <2>1. /\ o \in Orchestrators /\ o[1] = id /\ o[2] = started[id] + 1
        /\ started[id] \in Nat /\ started[id] + 1 <= Incarnations[id]
    <3>1. started[id] \in Nat /\ started[id] + 1 \in 1..Incarnations[id]
      <4>1. started[id] \in Nat /\ Incarnations[id] \in Nat
        BY IncarnationsAssumption DEF IInv, TypeOK
      <4>2. QED
        BY <1>1, <4>1 DEF StartSession
    <3>2. QED
      BY <3>1, OrchestratorIs, IncarnationsAssumption
  <2> HIDE DEF o
  <2>2. /\ started' = [started EXCEPT ![id] = @ + 1]
        /\ sessions' = [sessions EXCEPT ![id] = started[id] + 1]
        /\ status' = [status EXCEPT ![o] = "INITIALIZING"]
        /\ bridge' = [bridge EXCEPT ![o] = "building"]
        /\ UNCHANGED <<stopped, notified, stopping, process, awaited>>
    BY <1>1 DEF StartSession, o
  <2>3. RecentOK' /\ recent' \in Seq([id : Ids, status : Status]) /\ Len(recent') <= Limit
    BY <1>1, RecentStep DEF StartSession
  <2>4. TypeOK'
    <3>1. /\ started' \in [Ids -> Nat] /\ \A x \in Ids : started'[x] <= Incarnations[x]
          /\ sessions' \in [Ids -> Nat] /\ \A x \in Ids : sessions'[x] <= started'[x]
      BY <2>1, <2>2 DEF IInv, TypeOK
    <3>2. QED
      BY <2>1, <2>2, <2>3, <3>1 DEF IInv, TypeOK, Status
  <2>5. Stages'
    <3> SUFFICES ASSUME NEW q \in Orchestrators
                 PROVE  /\ IF q[2] <= started'[q[1]]
                           THEN status'[q] # "CREATED" /\ bridge'[q] # "none"
                           ELSE /\ status'[q] = "CREATED" /\ bridge'[q] = "none"
                                /\ stopping[q] = "none" /\ q \notin stopped
                        /\ stopping[q] # "none" => q \in stopped
                        /\ q \in stopped => status'[q] # "RECONNECTING"
                        /\ q \notin stopped /\ bridge'[q] = "live" => status'[q] = "BRIDGING"
      BY <2>2 DEF Stages
    <3>1. CASE q = o
      BY <2>1, <2>2, <3>1 DEF IInv, Stages, TypeOK
    <3>2. CASE q # o
      <4>1. q[1] \in Ids /\ q[2] \in Nat /\ (q[1] = id => q[2] # started[id] + 1)
        BY <2>1, <3>2, OrchestratorIs, IncarnationsAssumption
      <4>2. q[2] <= started'[q[1]] <=> q[2] <= started[q[1]]
        BY <2>1, <2>2, <4>1 DEF IInv, TypeOK
      <4>3. QED
        BY <2>2, <3>2, <4>2 DEF IInv, Stages, TypeOK
    <3>3. QED
      BY <3>1, <3>2
  <2>6. EndsNotified'
    BY <2>1, <2>2 DEF IInv, EndsNotified, TypeOK, Terminal
  <2>7. MapHasLast'
    BY <2>1, <2>2 DEF IInv, MapHasLast, TypeOK
  <2>8. NotBoth'
    <3>1. Snapshot(id)' = "unknown" /\ \A x \in Ids \ {id} : Snapshot(x)' = Snapshot(x)
      BY <1>1, ForgetTells DEF StartSession, IInv
    <3>2. o \notin notified
      BY <2>1 DEF IInv, Stages, TypeOK
    <3>3. InMap(id)' = o /\ \A x \in Ids \ {id} : InMap(x)' = InMap(x) /\ sessions'[x] = sessions[x]
      BY <2>2 DEF InMap, o, IInv, TypeOK
    <3>4. QED
      BY <2>2, <3>1, <3>2, <3>3 DEF IInv, NotBoth
  <2>9. QED
    BY <2>3, <2>4, <2>5, <2>6, <2>7, <2>8 DEF IInv
<1>2. ASSUME NEW o \in Orchestrators, BuildEnds(o)
      PROVE  IInv'
  <2>1. RecentOK' /\ \A x \in Ids : Snapshot(x)' = Snapshot(x) /\ InMap(x)' = <<x, sessions'[x]>>
    BY <1>2 DEF BuildEnds, IInv, RecentOK, Snapshot, Remembered, InMap
  <2>2. TypeOK'
    BY <1>2, OrchestratorIs DEF BuildEnds, IInv, TypeOK, Status, Terminal
  <2>3. Stages' /\ EndsNotified'
    BY <1>2 DEF BuildEnds, Building, IInv, TypeOK, Stages, EndsNotified, Terminal
  <2>4. MapHasLast' /\ NotBoth'
    BY <1>2, <2>1 DEF BuildEnds, IInv, TypeOK, MapHasLast, NotBoth, InMap
  <2>5. QED
    BY <2>1, <2>2, <2>3, <2>4 DEF IInv
<1>3. ASSUME NEW o \in Orchestrators, ReconnectAbandoned(o)
      PROVE  IInv'
  <2>1. RecentOK' /\ \A x \in Ids : Snapshot(x)' = Snapshot(x) /\ InMap(x)' = <<x, sessions'[x]>>
    BY <1>3 DEF ReconnectAbandoned, IInv, RecentOK, Snapshot, Remembered, InMap
  <2>2. TypeOK'
    BY <1>3, OrchestratorIs DEF ReconnectAbandoned, IInv, TypeOK, Status, Terminal
  <2>3. Stages' /\ EndsNotified'
    BY <1>3 DEF ReconnectAbandoned, Building, IInv, TypeOK, Stages, EndsNotified, Terminal
  <2>4. MapHasLast' /\ NotBoth'
    BY <1>3, <2>1 DEF ReconnectAbandoned, IInv, TypeOK, MapHasLast, NotBoth, InMap
  <2>5. QED
    BY <2>1, <2>2, <2>3, <2>4 DEF IInv
<1>4. ASSUME NEW o \in Orchestrators, FailEnds(o)
      PROVE  IInv'
  <2>1. RecentOK' /\ \A x \in Ids : Snapshot(x)' = Snapshot(x) /\ InMap(x)' = <<x, sessions'[x]>>
    BY <1>4 DEF FailEnds, IInv, RecentOK, Snapshot, Remembered, InMap
  <2>2. TypeOK'
    BY <1>4, OrchestratorIs DEF FailEnds, IInv, TypeOK, Status, Terminal
  <2>3. Stages' /\ EndsNotified'
    BY <1>4 DEF FailEnds, Building, IInv, TypeOK, Stages, EndsNotified, Terminal
  <2>4. MapHasLast' /\ NotBoth'
    BY <1>4, <2>1 DEF FailEnds, IInv, TypeOK, MapHasLast, NotBoth, InMap
  <2>5. QED
    BY <2>1, <2>2, <2>3, <2>4 DEF IInv
<1>5. ASSUME NEW o \in Orchestrators, BridgeBreaks(o)
      PROVE  IInv'
  <2>1. RecentOK' /\ \A x \in Ids : Snapshot(x)' = Snapshot(x) /\ InMap(x)' = <<x, sessions'[x]>>
    BY <1>5 DEF BridgeBreaks, IInv, RecentOK, Snapshot, Remembered, InMap
  <2>2. TypeOK'
    BY <1>5, OrchestratorIs DEF BridgeBreaks, IInv, TypeOK, Status, Terminal
  <2>3. Stages' /\ EndsNotified'
    BY <1>5 DEF BridgeBreaks, Live, Building, IInv, TypeOK, Stages, EndsNotified, Terminal
  <2>4. MapHasLast' /\ NotBoth'
    BY <1>5, <2>1 DEF BridgeBreaks, IInv, TypeOK, MapHasLast, NotBoth, InMap
  <2>5. QED
    BY <2>1, <2>2, <2>3, <2>4 DEF IInv
<1>6. ASSUME NEW o \in Orchestrators, BuildFails(o)
      PROVE  IInv'
  <2>1. /\ stopped' = stopped \cup {o} /\ notified' = notified \cup {o}
        /\ status' = [status EXCEPT ![o] = "FAILED"]
        /\ bridge[o] \in Building /\ bridge'[o] \in {"startFails", "givesUp"}
        /\ bridge' = [bridge EXCEPT ![o] = bridge'[o]]
        /\ UNCHANGED <<started, stopping, process, awaited>>
    BY <1>6 DEF BuildFails, Notify, Building, IInv, TypeOK
  <2>2. NotifyStep(o, "FAILED")
    BY <1>6, NotifyMeans DEF BuildFails, Status, Terminal
  <2>3. TypeOK'
    <3>1. /\ sessions' \in [Ids -> Nat]
          /\ \A id \in Ids : sessions'[id] <= started[id] /\ started[id] <= Incarnations[id]
      <4>1. \/ sessions' = sessions
            \/ o[1] \in Ids /\ sessions' = [sessions EXCEPT ![o[1]] = 0]
        BY <2>2, OrchestratorIs DEF NotifyStep
      <4>2. /\ sessions \in [Ids -> Nat] /\ started \in [Ids -> Nat]
            /\ \A id \in Ids : sessions[id] <= started[id] /\ started[id] <= Incarnations[id]
        BY DEF IInv, TypeOK
      <4>3. QED
        BY <4>1, <4>2
    <3>2. recent' \in Seq([id : Ids, status : Status]) /\ Len(recent') <= Limit
      BY <2>2 DEF NotifyStep
    <3>3. QED
      BY <2>1, <3>1, <3>2 DEF IInv, TypeOK, Status, Terminal
  <2>4. Stages' /\ EndsNotified'
    BY <2>1 DEF IInv, TypeOK, Stages, EndsNotified, Building, Terminal
  <2>5. MapHasLast' /\ NotBoth'
    BY <2>1, <2>2, NotifyKeeps
  <2>6. QED
    BY <2>2, <2>3, <2>4, <2>5 DEF IInv, NotifyStep
<1>7. ASSUME NEW o \in Orchestrators, StopEnds(o)
      PROVE  IInv'
  <2>1. /\ notified' = notified \cup {o}
        /\ status' = [status EXCEPT ![o] = "TERMINATED"]
        /\ stopping[o] \in {"request", "meeting"} /\ stopping' = [stopping EXCEPT ![o] = "done"]
        /\ bridge'[o] = (IF bridge[o] = "closing" THEN "down" ELSE bridge[o])
        /\ bridge' = [bridge EXCEPT ![o] = bridge'[o]]
        /\ UNCHANGED <<started, stopped, process, awaited>>
    BY <1>7 DEF StopEnds, Notify, IInv, TypeOK
  <2>2. NotifyStep(o, "TERMINATED")
    BY <1>7, NotifyMeans DEF StopEnds, Status, Terminal
  <2>3. TypeOK'
    <3>1. /\ sessions' \in [Ids -> Nat]
          /\ \A id \in Ids : sessions'[id] <= started[id] /\ started[id] <= Incarnations[id]
      <4>1. \/ sessions' = sessions
            \/ o[1] \in Ids /\ sessions' = [sessions EXCEPT ![o[1]] = 0]
        BY <2>2, OrchestratorIs DEF NotifyStep
      <4>2. /\ sessions \in [Ids -> Nat] /\ started \in [Ids -> Nat]
            /\ \A id \in Ids : sessions[id] <= started[id] /\ started[id] <= Incarnations[id]
        BY DEF IInv, TypeOK
      <4>3. QED
        BY <4>1, <4>2
    <3>2. recent' \in Seq([id : Ids, status : Status]) /\ Len(recent') <= Limit
      BY <2>2 DEF NotifyStep
    <3>3. o \in stopped
      BY <2>1 DEF IInv, Stages
    <3>4. /\ status' \in [Orchestrators -> Status] /\ notified' \subseteq stopped'
          /\ bridge'[o] \in {"none", "building", "rebuilding", "live", "closing",
                             "startFails", "givesUp", "down"}
      BY <2>1, <3>3 DEF IInv, TypeOK, Status, Terminal
    <3>5. QED
      BY <2>1, <3>1, <3>2, <3>4 DEF IInv, TypeOK
  <2>4. Stages' /\ EndsNotified'
    BY <2>1 DEF IInv, TypeOK, Stages, EndsNotified, Terminal
  <2>5. MapHasLast' /\ NotBoth'
    BY <2>1, <2>2, NotifyKeeps
  <2>6. QED
    BY <2>2, <2>3, <2>4, <2>5 DEF IInv, NotifyStep
<1>8. ASSUME NEW o \in Orchestrators, MeetingEnds(o)
      PROVE  IInv'
  <2>1. \A q \in {o} : q[2] <= started[q[1]]
    BY <1>8, OrchestratorIs DEF MeetingEnds, Live, IInv, Stages
  <2>2. /\ {o} \in SUBSET Orchestrators /\ BeginStop({o}, "meeting")
        /\ UNCHANGED <<sessions, recent, started, notified>>
        /\ process' \in {"up", "shutdown", "exited"} /\ awaited' \subseteq Orchestrators
    BY <1>8 DEF MeetingEnds, IInv, TypeOK
  <2>3. QED
    BY <2>1, <2>2, BeginStopMeans
<1>9. ASSUME NEW id \in Ids, StopSession(id)
      PROVE  IInv'
  <2>1. /\ {InMap(id)} \in SUBSET Orchestrators
        /\ \A o \in {InMap(id)} : o[2] <= started[o[1]]
    BY <1>9, InMapIs DEF StopSession, IInv, TypeOK
  <2>2. QED
    BY <1>9, <2>1, BeginStopMeans DEF StopSession, IInv, TypeOK
<1>10. ASSUME NEW id \in Ids, StopSessionAgain(id)
       PROVE  IInv'
  <2>1. /\ sessions' = [sessions EXCEPT ![id] = 0]
        /\ \E st \in Status : recent' = Latest(id, st)
        /\ UNCHANGED <<started, orchestrators, process, awaited>>
    BY <1>10, InMapIs DEF StopSessionAgain, Retire
  <2>2. QED
    BY <2>1, RetireMeans
<1>11. ASSUME NEW id \in Ids, GetSessionStatus(id)
       PROVE  IInv'
  <2>1. /\ sessions[id] = 0
        /\ \E st \in Status : recent' = Latest(id, st)
        /\ UNCHANGED <<sessions, started, orchestrators, process, awaited>>
    <3>1. PICK i \in Remembered(id) : recent' = Latest(id, recent[i].status)
      BY <1>11 DEF GetSessionStatus
    <3>2. recent[i].status \in Status
      BY <3>1, SnapshotIs DEF Remembered, Entry, IInv
    <3>3. QED
      BY <1>11, <3>1, <3>2 DEF GetSessionStatus
  <2>2. sessions' = [sessions EXCEPT ![id] = 0]
    BY <2>1 DEF IInv, TypeOK
  <2>3. QED
    BY <2>1, <2>2, RetireMeans
<1>12. CASE Shutdown
  <2> DEFINE S == {InMap(id) : id \in {i \in Ids : sessions[i] # 0}}
  <2>1. S \in SUBSET Orchestrators /\ \A o \in S : o[2] <= started[o[1]]
    BY InMapIs DEF IInv, TypeOK
  <2>2. QED
    BY <1>12, <2>1, BeginStopMeans DEF Shutdown, IInv, TypeOK
<1>13. CASE ShutdownMeetsStop
  <2> DEFINE S == {InMap(id) : id \in {i \in Ids : sessions[i] # 0}} \ stopped
  <2>1. S \in SUBSET Orchestrators /\ \A o \in S : o[2] <= started[o[1]]
    BY InMapIs DEF IInv, TypeOK
  <2>2. PICK id \in Ids :
          /\ sessions[id] # 0 /\ InMap(id) \in stopped
          /\ sessions' = [i \in Ids |-> IF i \in {id} THEN 0 ELSE sessions[i]]
          /\ recent' = Latest(id, status[InMap(id)])
    BY <1>13 DEF ShutdownMeetsStop
  <2>3. BeginStop(S, "request") /\ process' = "shutdown" /\ awaited' = S
        /\ UNCHANGED <<started, notified>>
    BY <1>13 DEF ShutdownMeetsStop
  <2> HIDE DEF S
  <2>4. status[InMap(id)] \in Status
    BY <2>2, InMapIs
  <2>5. /\ RecentOK' /\ recent' \in Seq([id : Ids, status : Status]) /\ Len(recent') <= Limit
        /\ \A x \in Ids \ {id} : Snapshot(x)' \in {Snapshot(x), "unknown"}
    BY <2>2, <2>4, RecentStep
  <2>6. TypeOK'
    BY <2>1, <2>2, <2>3, <2>5 DEF BeginStop, IInv, TypeOK, Status
  <2>7. Stages' /\ EndsNotified'
    BY <2>1, <2>3 DEF BeginStop, IInv, TypeOK, Stages, EndsNotified, Terminal
  <2>8. MapHasLast' /\ NotBoth'
    BY <2>2, <2>3, <2>5 DEF IInv, MapHasLast, NotBoth, InMap
  <2>9. QED
    BY <2>5, <2>6, <2>7, <2>8 DEF IInv
<1>14. ASSUME UNCHANGED <<sessions, recent, started, orchestrators, awaited>>,
              process' \in {"up", "shutdown", "exited"}
       PROVE  IInv'
  <2>1. RecentOK' /\ \A x \in Ids : Snapshot(x)' = Snapshot(x)
    BY <1>14 DEF IInv, RecentOK, Snapshot, Remembered
  <2>2. TypeOK' /\ Stages' /\ EndsNotified'
    BY <1>14 DEF orchestrators, IInv, TypeOK, Stages, EndsNotified
  <2>3. MapHasLast' /\ NotBoth'
    BY <1>14, <2>1 DEF orchestrators, IInv, MapHasLast, NotBoth, InMap
  <2>4. QED
    BY <2>1, <2>2, <2>3 DEF IInv
<1>15. Exit \/ UNCHANGED vars => IInv'
  BY <1>14 DEF Exit, vars, IInv, TypeOK
<1>16. QED
  BY <1>1, <1>2, <1>3, <1>4, <1>5, <1>6, <1>7, <1>8, <1>9, <1>10, <1>11, <1>12, <1>13,
     <1>14, <1>15 DEF Next, Progress

\* Every variable stays in its range; the recent snapshots are never more than
\* their limit.
THEOREM TypeCorrect == Spec => []TypeOK
<1>1. IInv => TypeOK
  BY DEF IInv
<1>2. QED
  BY <1>1, IInvInit, IInvStep, PTL DEF Spec

\* The map and the recent snapshots never both know an id, and a session that
\* has reported its end is not in the map, whoever stops it and however often.
THEOREM OnePlaceHolds == Spec => []OnePlace
<1>1. IInv => OnePlace
  BY SnapshotUnknown DEF IInv, NotBoth, OnePlace
<1>2. QED
  BY <1>1, IInvInit, IInvStep, PTL DEF Spec

-----------------------------------------------------------------------------
(* Ids that are not started again while their last session works           *)

\* Only the last session of an id does anything.
OlderRest == \A o \in Orchestrators : o[2] < started[o[1]] => Idle(o) /\ o \in stopped

\* A session that is stopped has failed, or its stop() is under way or over.
StopCounts == \A o \in stopped \ notified : Working(o)

\* The snapshot of an id is the one of its last session, and final if, and only
\* if, that session has called onTerminal.
SnapshotsTrue ==
  \A id \in Ids :
    Snapshot(id) # "unknown" =>
      /\ started[id] # 0
      /\ Snapshot(id) \in Terminal <=> Last(id) \in notified
      /\ Snapshot(id) # "RECONNECTING"

\* A session leaves the map because it is over or being stopped.
Accounted ==
  \A id \in Ids :
    started[id] # 0 /\ sessions[id] = 0 => Last(id) \in notified \/ Working(Last(id))

PInv == OlderRest /\ StopCounts /\ SnapshotsTrue /\ Accounted

\* The last orchestrator of an id that was started.
LEMMA LastIs ==
  ASSUME IInv, NEW id \in Ids, started[id] # 0
  PROVE  Last(id) \in Orchestrators /\ Last(id)[1] = id /\ Last(id)[2] = started[id]
<1>1. started[id] \in 1..Incarnations[id]
  BY IncarnationsAssumption DEF IInv, TypeOK
<1>2. QED
  BY <1>1, OrchestratorIs DEF Last

\* An orchestrator that can do anything is the last one of its id.
LEMMA ActiveIsLast ==
  ASSUME IInv, PInv, NEW o \in Orchestrators, ~Idle(o) \/ Live(o)
  PROVE  /\ o[1] \in Ids /\ started[o[1]] # 0 /\ o = Last(o[1])
         /\ \A q \in Orchestrators : q[2] < started[q[1]] => q # o
         /\ \A id \in Ids : id # o[1] => Last(id) # o
<1>1. o[1] \in Ids /\ o[2] \in Nat \ {0} /\ o = <<o[1], o[2]>> /\ started[o[1]] \in Nat
  BY OrchestratorIs, IncarnationsAssumption DEF IInv, TypeOK
<1>2. o[2] <= started[o[1]]
  BY <1>1 DEF IInv, Stages, Idle, Live, Building
<1>3. ~(o[2] < started[o[1]])
  BY DEF PInv, OlderRest, Live
<1>4. QED
  BY <1>1, <1>2, <1>3 DEF Last

\* The session in the map is the last of its id.
LEMMA InMapIsLast ==
  ASSUME IInv, NEW id \in Ids, sessions[id] # 0
  PROVE  started[id] # 0 /\ InMap(id) = Last(id)
BY DEF IInv, MapHasLast, InMap, Last

\* No id is started at first.
LEMMA PInvInit == Init => PInv
<1> SUFFICES ASSUME Init
             PROVE  PInv
  OBVIOUS
<1>1. \A id \in Ids : Snapshot(id) = "unknown"
  <2>1. Len(recent) = 0
    BY DEF Init
  <2>2. QED
    BY <2>1 DEF Snapshot, Remembered
<1>2. OlderRest
  BY OrchestratorIs, IncarnationsAssumption DEF Init, OlderRest
<1>3. QED
  BY <1>1, <1>2 DEF Init, PInv, StopCounts, SnapshotsTrue, Accounted

\* stop() of last sessions.
LEMMA BeginStopKeeps ==
  ASSUME IInv, PInv, NEW S \in SUBSET Orchestrators, NEW caller \in {"request", "meeting"},
         \A o \in S : o[1] \in Ids /\ o = Last(o[1]),
         BeginStop(S, caller), UNCHANGED <<started, notified>>
  PROVE  /\ OlderRest' /\ StopCounts'
         /\ \A id \in Ids : Last(id)' = Last(id)
         /\ \A id \in Ids : started[id] # 0 /\ Working(Last(id)) => Working(Last(id))'
<1>1. \A o \in S : ~(o[2] < started[o[1]])
  BY DEF Last, IInv, TypeOK
<1>2. OlderRest'
  BY <1>1 DEF BeginStop, PInv, OlderRest, Idle, Building
<1>3. StopCounts'
  BY DEF BeginStop, PInv, StopCounts, Working, IInv, TypeOK
<1>4. QED
  BY <1>2, <1>3, LastIs DEF BeginStop, Last, Working

\* Several sessions are stopped, and none leaves the map.
LEMMA StopKeepsPInv ==
  ASSUME IInv, PInv, NEW S \in SUBSET Orchestrators, NEW caller \in {"request", "meeting"},
         \A o \in S : o[1] \in Ids /\ o = Last(o[1]),
         BeginStop(S, caller), UNCHANGED <<started, notified, sessions, recent>>
  PROVE  PInv'
<1>1. /\ OlderRest' /\ StopCounts'
      /\ \A id \in Ids : Last(id)' = Last(id)
      /\ \A id \in Ids : started[id] # 0 /\ Working(Last(id)) => Working(Last(id))'
  BY BeginStopKeeps
<1>2. SnapshotsTrue'
  BY <1>1 DEF PInv, SnapshotsTrue, Snapshot, Remembered
<1>3. Accounted'
  BY <1>1 DEF PInv, Accounted
<1>4. QED
  BY <1>1, <1>2, <1>3 DEF PInv

\* A session calls onTerminal, or its stopSession() returns.
LEMMA NotifyKeepsPInv ==
  ASSUME IInv, PInv, NEW o \in Orchestrators, ~Idle(o), NEW st \in Terminal,
         NotifyStep(o, st), notified' = notified \cup {o}, UNCHANGED started,
         stopped' \in {stopped, stopped \cup {o}},
         \A q \in Orchestrators \ {o} : bridge'[q] = bridge[q] /\ stopping'[q] = stopping[q]
  PROVE  PInv'
<1>1. /\ o[1] \in Ids /\ started[o[1]] # 0 /\ o = Last(o[1])
      /\ \A q \in Orchestrators : q[2] < started[q[1]] => q # o
      /\ \A id \in Ids : id # o[1] => Last(id) # o
  BY ActiveIsLast
<1>2. OlderRest'
  BY <1>1 DEF PInv, OlderRest, Idle
<1>3. StopCounts'
  BY DEF PInv, StopCounts, Working, IInv, TypeOK
<1>4. \A id \in Ids : Last(id)' = Last(id)
  BY DEF Last
<1>5. SnapshotsTrue'
  <2> SUFFICES ASSUME NEW id \in Ids, Snapshot(id)' # "unknown"
               PROVE  /\ started[id] # 0
                      /\ Snapshot(id)' \in Terminal <=> Last(id) \in notified'
                      /\ Snapshot(id)' # "RECONNECTING"
    BY <1>4 DEF SnapshotsTrue
  <2>1. CASE id = o[1]
    BY <1>1, <2>1 DEF NotifyStep, PInv, SnapshotsTrue, Terminal
  <2>2. CASE id # o[1]
    BY <1>1, <2>2 DEF NotifyStep, PInv, SnapshotsTrue
  <2>3. QED
    BY <2>1, <2>2
<1>6. Accounted'
  <2> SUFFICES ASSUME NEW id \in Ids, started[id] # 0, sessions'[id] = 0
               PROVE  Last(id) \in notified' \/ Working(Last(id))'
    BY <1>4 DEF Accounted
  <2>1. CASE id = o[1]
    BY <1>1, <2>1
  <2>2. CASE id # o[1]
    <3>1. sessions[id] = 0
      BY <1>1, <2>2 DEF NotifyStep, IInv, TypeOK
    <3>2. Last(id) \in Orchestrators \ {o}
      BY <1>1, <2>2, LastIs
    <3>3. QED
      BY <1>4, <3>1, <3>2 DEF PInv, Accounted, Working
  <2>3. QED
    BY <2>1, <2>2
<1>7. QED
  BY <1>2, <1>3, <1>5, <1>6 DEF PInv

\* A step of the bridge of a session, which the map and the snapshots do not see.
LEMMA BridgeKeepsPInv ==
  ASSUME IInv, PInv, NEW o \in Orchestrators, ~Idle(o) \/ Live(o),
         UNCHANGED <<sessions, recent, started, stopped, notified, stopping>>,
         \A q \in Orchestrators \ {o} : bridge'[q] = bridge[q]
  PROVE  PInv'
<1>1. \A q \in Orchestrators : q[2] < started[q[1]] => q # o
  BY ActiveIsLast
<1>2. OlderRest'
  BY <1>1 DEF PInv, OlderRest, Idle
<1>3. StopCounts' /\ SnapshotsTrue' /\ Accounted'
  BY DEF PInv, StopCounts, SnapshotsTrue, Accounted, Working, Last, Snapshot, Remembered
<1>4. QED
  BY <1>2, <1>3 DEF PInv

\* A second stop() remembers a status that is not final, and keeps waiting.
LEMMA SnapshotOfStopped ==
  ASSUME IInv, PInv, NEW id \in Ids, sessions[id] # 0, InMap(id) \in stopped,
         recent' = Latest(id, status[InMap(id)]),
         \/ sessions' = [sessions EXCEPT ![id] = 0]
         \/ sessions' = [i \in Ids |-> IF i \in {id} THEN 0 ELSE sessions[i]]
  PROVE  /\ Working(Last(id))
         /\ Snapshot(id)' # "unknown" => started[id] # 0
         /\ Snapshot(id)' \notin Terminal /\ Last(id) \notin notified
         /\ Snapshot(id)' # "RECONNECTING"
         /\ \A x \in Ids \ {id} :
              Snapshot(x)' \in {Snapshot(x), "unknown"} /\ sessions'[x] = sessions[x]
<1>1. InMap(id) = Last(id) /\ started[id] # 0 /\ InMap(id) \notin notified
  BY InMapIsLast DEF IInv, NotBoth
<1>2. status[InMap(id)] \in Status \ Terminal /\ status[InMap(id)] # "RECONNECTING"
  BY InMapIs DEF IInv, Stages
<1>3. /\ Snapshot(id)' = status[InMap(id)]
      /\ \A x \in Ids \ {id} : Snapshot(x)' \in {Snapshot(x), "unknown"}
  BY <1>2, LatestTells DEF IInv
<1>4. Working(Last(id))
  BY <1>1 DEF PInv, StopCounts
<1>5. QED
  BY <1>1, <1>2, <1>3, <1>4 DEF IInv, TypeOK

\* A snapshot that is asked for only moves.
LEMMA AskedSnapshot ==
  ASSUME IInv, NEW id \in Ids, GetSessionStatus(id)
  PROVE  RecentOK' /\ \A x \in Ids : Snapshot(x)' = Snapshot(x)
<1>1. PICK i \in Remembered(id) : recent' = Latest(id, recent[i].status)
  BY DEF GetSessionStatus
<1>2. recent[i].status \in Status /\ Snapshot(id) = recent[i].status
  BY <1>1, SnapshotIs DEF Remembered, Entry, IInv
<1>3. Snapshot(id) # "unknown"
  BY <1>1, SnapshotUnknown DEF IInv
<1>4. QED
  BY <1>1, <1>2, <1>3, LatestTells DEF IInv

\* One step per action.
LEMMA PInvStep == Patient /\ IInv /\ PInv /\ [Next]_vars => PInv'
<1> SUFFICES ASSUME Patient, IInv, PInv, [Next]_vars
             PROVE  PInv'
  OBVIOUS
<1>1. ASSUME NEW id \in Ids, StartSession(id)
      PROVE  PInv'
  <2> DEFINE o == <<id, started[id] + 1>>
  <2>1. /\ sessions[id] = 0 /\ started[id] \in Nat /\ started' = [started EXCEPT ![id] = @ + 1]
        /\ sessions' = [sessions EXCEPT ![id] = started[id] + 1]
        /\ \A k \in 1..started[id] : Idle(<<id, k>>)
        /\ bridge' = [bridge EXCEPT ![o] = "building"]
        /\ UNCHANGED <<stopped, notified, stopping>>
    BY <1>1 DEF StartSession, IInv, TypeOK
  <2>2. Snapshot(id)' = "unknown" /\ \A x \in Ids \ {id} : Snapshot(x)' = Snapshot(x)
    BY <1>1, ForgetTells DEF StartSession, IInv
  <2>3. \A x \in Ids \ {id} : Last(x)' = Last(x) /\ started'[x] = started[x] /\ sessions'[x] = sessions[x]
    BY <2>1 DEF Last, IInv, TypeOK
  <2>4. OlderRest'
    <3> SUFFICES ASSUME NEW q \in Orchestrators, q[2] < started'[q[1]]
                 PROVE  Idle(q)' /\ q \in stopped
      BY <2>1 DEF OlderRest
    <3>1. q[1] \in Ids /\ q[2] \in Nat \ {0} /\ q = <<q[1], q[2]>>
      BY OrchestratorIs, IncarnationsAssumption
    <3>2. CASE q[1] # id
      BY <2>1, <3>1, <3>2 DEF PInv, OlderRest, Idle, IInv, TypeOK
    <3>3. CASE q[1] = id
      <4>1. q[2] \in 1..started[id] /\ q # o
        BY <2>1, <3>1, <3>3 DEF IInv, TypeOK
      <4>2. Idle(q)'
        BY <2>1, <3>1, <3>3, <4>1 DEF Idle, IInv, TypeOK
      <4>3. q \in stopped
        <5>1. CASE q[2] = started[id]
          <6>1. q = Last(id) /\ (q \in notified \/ Working(q))
            BY <2>1, <3>1, <3>3, <4>1, <5>1 DEF Last, PInv, Accounted
          <6>2. QED
            BY <6>1 DEF Working, IInv, Stages, TypeOK
        <5>2. CASE q[2] < started[id]
          BY <3>3, <5>2 DEF PInv, OlderRest
        <5>3. QED
          BY <2>1, <4>1, <5>1, <5>2
      <4>4. QED
        BY <4>2, <4>3
    <3>4. QED
      BY <3>2, <3>3
  <2>5. StopCounts'
    BY <2>1 DEF PInv, StopCounts, Working
  <2>6. SnapshotsTrue'
    BY <2>1, <2>2, <2>3 DEF PInv, SnapshotsTrue
  <2>7. Accounted'
    BY <2>1, <2>3 DEF PInv, Accounted, Working, IInv, TypeOK
  <2>8. QED
    BY <2>4, <2>5, <2>6, <2>7 DEF PInv
<1>2. ASSUME NEW o \in Orchestrators, BuildEnds(o) \/ ReconnectAbandoned(o) \/ BridgeBreaks(o)
      PROVE  PInv'
  <2>1. /\ ~Idle(o) \/ Live(o)
        /\ UNCHANGED <<sessions, recent, started, stopped, notified, stopping>>
        /\ \A q \in Orchestrators \ {o} : bridge'[q] = bridge[q]
    BY <1>2 DEF BuildEnds, ReconnectAbandoned, BridgeBreaks, Idle, Building, IInv, TypeOK
  <2>2. QED
    BY <2>1, BridgeKeepsPInv
<1>3. ASSUME NEW o \in Orchestrators, FailEnds(o)
      PROVE  PInv'
  <2>1. /\ ~Idle(o) /\ o \in notified
        /\ UNCHANGED <<recent, started, stopped, notified, stopping>>
        /\ \A q \in Orchestrators \ {o} : bridge'[q] = bridge[q]
    BY <1>3 DEF FailEnds, Idle, IInv, EndsNotified, TypeOK
  <2>2. sessions[o[1]] = 0
    BY <2>1, ActiveIsLast, InMapIsLast DEF IInv, NotBoth
  <2>3. UNCHANGED sessions
    BY <1>3, <2>2 DEF FailEnds, IInv, TypeOK
  <2>4. QED
    BY <2>1, <2>3, BridgeKeepsPInv
<1>4. ASSUME NEW o \in Orchestrators, BuildFails(o)
      PROVE  PInv'
  <2>1. /\ ~Idle(o) /\ notified' = notified \cup {o} /\ stopped' = stopped \cup {o}
        /\ UNCHANGED started
        /\ \A q \in Orchestrators \ {o} : bridge'[q] = bridge[q] /\ stopping'[q] = stopping[q]
    BY <1>4 DEF BuildFails, Notify, Idle, IInv, TypeOK
  <2>2. NotifyStep(o, "FAILED") /\ "FAILED" \in Terminal
    BY <1>4, NotifyMeans DEF BuildFails, Status, Terminal
  <2>3. QED
    BY <2>1, <2>2, NotifyKeepsPInv
<1>5. ASSUME NEW o \in Orchestrators, StopEnds(o)
      PROVE  PInv'
  <2>1. /\ ~Idle(o) /\ notified' = notified \cup {o} /\ UNCHANGED <<started, stopped>>
        /\ \A q \in Orchestrators \ {o} : bridge'[q] = bridge[q] /\ stopping'[q] = stopping[q]
    BY <1>5 DEF StopEnds, Notify, Idle, IInv, TypeOK
  <2>2. NotifyStep(o, "TERMINATED") /\ "TERMINATED" \in Terminal
    BY <1>5, NotifyMeans DEF StopEnds, Status, Terminal
  <2>3. QED
    BY <2>1, <2>2, NotifyKeepsPInv
<1>6. ASSUME NEW o \in Orchestrators, MeetingEnds(o)
      PROVE  PInv'
  <2>1. /\ {o} \in SUBSET Orchestrators /\ \A q \in {o} : q[1] \in Ids /\ q = Last(q[1])
        /\ BeginStop({o}, "meeting") /\ UNCHANGED <<started, notified, sessions, recent>>
    BY <1>6, ActiveIsLast DEF MeetingEnds
  <2>2. QED
    BY <2>1, StopKeepsPInv
<1>7. ASSUME NEW id \in Ids, StopSession(id)
      PROVE  PInv'
  <2>1. /\ {InMap(id)} \in SUBSET Orchestrators
        /\ \A q \in {InMap(id)} : q[1] \in Ids /\ q = Last(q[1])
        /\ BeginStop({InMap(id)}, "request")
        /\ UNCHANGED <<started, notified, sessions, recent>>
    BY <1>7, InMapIs, InMapIsLast DEF StopSession
  <2>2. QED
    BY <2>1, StopKeepsPInv
<1>8. ASSUME NEW id \in Ids, StopSessionAgain(id)
      PROVE  PInv'
  <2>1. UNCHANGED <<started, orchestrators>>
    BY <1>8 DEF StopSessionAgain
  <2>2. /\ Working(Last(id))
        /\ Snapshot(id)' # "unknown" => started[id] # 0
        /\ Snapshot(id)' \notin Terminal /\ Last(id) \notin notified
        /\ Snapshot(id)' # "RECONNECTING"
        /\ \A x \in Ids \ {id} : Snapshot(x)' \in {Snapshot(x), "unknown"} /\ sessions'[x] = sessions[x]
    BY <1>8, SnapshotOfStopped DEF StopSessionAgain, Retire, IInv, TypeOK
  <2>3. OlderRest' /\ StopCounts'
    BY <2>1 DEF PInv, OlderRest, StopCounts, Idle, Working, orchestrators
  <2>4. SnapshotsTrue' /\ Accounted'
    BY <2>1, <2>2 DEF PInv, SnapshotsTrue, Accounted, Working, Last, orchestrators
  <2>5. QED
    BY <2>3, <2>4 DEF PInv
<1>9. ASSUME NEW id \in Ids, GetSessionStatus(id)
      PROVE  PInv'
  <2>1. \A x \in Ids : Snapshot(x)' = Snapshot(x)
    BY <1>9, AskedSnapshot
  <2>2. UNCHANGED <<sessions, started, orchestrators>>
    BY <1>9 DEF GetSessionStatus
  <2>3. QED
    BY <2>1, <2>2 DEF PInv, OlderRest, StopCounts, SnapshotsTrue, Accounted, Idle, Working,
       Last, orchestrators
<1>10. CASE Shutdown
  <2> DEFINE S == {InMap(id) : id \in {i \in Ids : sessions[i] # 0}}
  <2>1. S \in SUBSET Orchestrators /\ \A q \in S : q[1] \in Ids /\ q = Last(q[1])
    BY InMapIs, InMapIsLast
  <2>2. BeginStop(S, "request") /\ UNCHANGED <<started, notified, sessions, recent>>
    BY <1>10 DEF Shutdown
  <2>3. QED
    BY <2>1, <2>2, StopKeepsPInv
<1>11. CASE ShutdownMeetsStop
  <2> DEFINE S == {InMap(id) : id \in {i \in Ids : sessions[i] # 0}} \ stopped
  <2>1. S \in SUBSET Orchestrators /\ \A q \in S : q[1] \in Ids /\ q = Last(q[1])
    BY InMapIs, InMapIsLast
  <2>2. PICK id \in Ids :
          /\ sessions[id] # 0 /\ InMap(id) \in stopped
          /\ sessions' = [i \in Ids |-> IF i \in {id} THEN 0 ELSE sessions[i]]
          /\ recent' = Latest(id, status[InMap(id)])
    BY <1>11 DEF ShutdownMeetsStop
  <2>3. BeginStop(S, "request") /\ UNCHANGED <<started, notified>>
    BY <1>11 DEF ShutdownMeetsStop
  <2> HIDE DEF S
  <2>4. /\ Working(Last(id))
        /\ Snapshot(id)' # "unknown" => started[id] # 0
        /\ Snapshot(id)' \notin Terminal /\ Last(id) \notin notified
        /\ Snapshot(id)' # "RECONNECTING"
        /\ \A x \in Ids \ {id} : Snapshot(x)' \in {Snapshot(x), "unknown"} /\ sessions'[x] = sessions[x]
    BY <2>2, SnapshotOfStopped
  <2>5. /\ OlderRest' /\ StopCounts'
        /\ \A x \in Ids : Last(x)' = Last(x)
        /\ \A x \in Ids : started[x] # 0 /\ Working(Last(x)) => Working(Last(x))'
    BY <2>1, <2>3, BeginStopKeeps
  <2>6. SnapshotsTrue'
    BY <2>3, <2>4, <2>5 DEF PInv, SnapshotsTrue
  <2>7. Accounted'
    BY <2>3, <2>4, <2>5 DEF PInv, Accounted
  <2>8. QED
    BY <2>5, <2>6, <2>7 DEF PInv
<1>12. ASSUME UNCHANGED <<sessions, recent, started, orchestrators>>
       PROVE  PInv'
  BY <1>12 DEF PInv, OlderRest, StopCounts, SnapshotsTrue, Accounted, Idle, Working, Last,
               Snapshot, Remembered, orchestrators
<1>13. QED
  BY <1>1, <1>2, <1>3, <1>4, <1>5, <1>6, <1>7, <1>8, <1>9, <1>10, <1>11, <1>12
     DEF Next, Progress, Exit, vars

\* What is running, not stopped and not failed is in the map under its id, so
\* that stopSession() and shutdown() find it: if no id is started again while
\* its last session works.
THEOREM ReachableHolds == ASSUME Patient PROVE Spec => []Reachable
<1>1. IInv /\ PInv => Reachable
  <2> SUFFICES ASSUME IInv, PInv, NEW o \in Orchestrators, Live(o)
               PROVE  InMap(o[1]) = o
    BY DEF Reachable
  <2>1. o[1] \in Ids /\ started[o[1]] # 0 /\ o = Last(o[1])
    BY ActiveIsLast
  <2>2. o \notin notified /\ ~Working(o)
    BY DEF Live, Working, IInv, TypeOK, Stages
  <2>3. sessions[o[1]] # 0
    BY <2>1, <2>2 DEF PInv, Accounted
  <2>4. QED
    BY <2>1, <2>3, InMapIsLast
<1>2. QED
  BY <1>1, IInvInit, IInvStep, PInvInit, PInvStep, PTL DEF Spec

-----------------------------------------------------------------------------
(* What the worker tells                                                   *)

\* A final snapshot stays or is forgotten, until its id is started again.
LEMMA SettledStep ==
  ASSUME IInv, [Next]_vars, NEW id \in Ids, sessions[id] = 0, Snapshot(id) \in Terminal
  PROVE  \/ started'[id] # started[id]
         \/ sessions'[id] = 0 /\ Snapshot(id)' \in Terminal \cup {"unknown"}
<1>1. ASSUME UNCHANGED <<sessions, recent>>
      PROVE  sessions'[id] = 0 /\ Snapshot(id)' \in Terminal \cup {"unknown"}
  BY <1>1 DEF Snapshot, Remembered
<1>2. ASSUME NEW x \in Ids, StartSession(x)
      PROVE  \/ started'[id] # started[id]
             \/ sessions'[id] = 0 /\ Snapshot(id)' \in Terminal \cup {"unknown"}
  BY <1>2, ForgetTells DEF StartSession, IInv, TypeOK
<1>3. ASSUME NEW o \in Orchestrators, NEW st \in Terminal, Notify(o, st) \/ Retire(o[1], st)
      PROVE  sessions'[id] = 0 /\ Snapshot(id)' \in Terminal \cup {"unknown"}
  <2>1. NotifyStep(o, st)
    BY <1>3, NotifyMeans DEF Status
  <2>2. QED
    BY <2>1, OrchestratorIs DEF NotifyStep, IInv, TypeOK
<1>4. ASSUME NEW o \in Orchestrators, BuildFails(o) \/ StopEnds(o)
      PROVE  sessions'[id] = 0 /\ Snapshot(id)' \in Terminal \cup {"unknown"}
  BY <1>3, <1>4 DEF BuildFails, StopEnds, Terminal
<1>5. ASSUME NEW o \in Orchestrators, FailEnds(o)
      PROVE  sessions'[id] = 0 /\ Snapshot(id)' \in Terminal \cup {"unknown"}
  BY <1>5, OrchestratorIs DEF FailEnds, Snapshot, Remembered, IInv, TypeOK
<1>6. ASSUME NEW x \in Ids \ {id}, NEW st \in Status, recent' = Latest(x, st),
             sessions'[id] = sessions[id]
      PROVE  sessions'[id] = 0 /\ Snapshot(id)' \in Terminal \cup {"unknown"}
  BY <1>6, LatestTells DEF IInv
<1>7. ASSUME NEW x \in Ids, StopSessionAgain(x)
      PROVE  sessions'[id] = 0 /\ Snapshot(id)' \in Terminal \cup {"unknown"}
  BY <1>6, <1>7, InMapIs DEF StopSessionAgain, Retire, IInv, TypeOK
<1>8. ASSUME NEW x \in Ids, GetSessionStatus(x)
      PROVE  sessions'[id] = 0 /\ Snapshot(id)' \in Terminal \cup {"unknown"}
  BY <1>8, AskedSnapshot DEF GetSessionStatus
<1>9. CASE ShutdownMeetsStop
  <2>1. PICK x \in Ids :
          /\ sessions[x] # 0 /\ InMap(x) \in stopped
          /\ sessions' = [i \in Ids |-> IF i \in {x} THEN 0 ELSE sessions[i]]
          /\ recent' = Latest(x, status[InMap(x)])
    BY <1>9 DEF ShutdownMeetsStop
  <2>2. QED
    BY <1>6, <2>1, InMapIs
<1>10. QED
  BY <1>1, <1>2, <1>4, <1>5, <1>7, <1>8, <1>9
     DEF Next, Progress, BuildEnds, ReconnectAbandoned, BridgeBreaks, MeetingEnds,
         StopSession, Shutdown, Exit, vars

\* Once the worker has told that a session is over it goes on telling so, or has
\* forgotten it, until the id is started again: by whatever order of failures,
\* stops, lookups and evictions.
THEOREM AnswersSettleHolds == Spec => AnswersSettle
<1>1. IInv /\ [Next]_vars =>
        [\A id \in Ids : Answer(id) \in Terminal =>
           \/ Answer(id)' \in Terminal \cup {"unknown"}
           \/ started'[id] # started[id]]_vars
  <2> SUFFICES ASSUME IInv, [Next]_vars, NEW id \in Ids, Answer(id) \in Terminal
               PROVE  Answer(id)' \in Terminal \cup {"unknown"} \/ started'[id] # started[id]
    OBVIOUS
  <2>1. sessions[id] = 0
    BY InMapIs DEF Answer
  <2>2. Snapshot(id) \in Terminal
    BY <2>1 DEF Answer, Snapshot
  <2>3. CASE sessions'[id] = 0 /\ Snapshot(id)' \in Terminal \cup {"unknown"}
    BY <2>3 DEF Answer, Snapshot
  <2>4. QED
    BY <2>1, <2>2, <2>3, SettledStep
<1>2. QED
  BY <1>1, IInvInit, IInvStep, PTL DEF Spec, AnswersSettle
=============================================================================
