-------------------------- MODULE OrchestratorProofs --------------------------
(***************************************************************************)
(* Theorems about SessionOrchestrator, for every number of attempts, every *)
(* number of overlapping health checks and every choice of media.          *)
(***************************************************************************)
EXTENDS SessionOrchestrator, TLAPS

Wanted == {"reservation"} \cup (IF EnableAudio THEN {"audio"} ELSE {})
                          \cup (IF EnableVideo THEN {"video"} ELSE {})

\* start() is over before anything else can begin.
StartFirst ==
  monitor \/ pc["reconnect"] # "idle" \/ (\E t \in Ticks : tick[t] # "idle")
    => pc["start"] = "done"

\* What only happens to a session with stopped set.
StopReasons ==
  \/ stopped
  \/ /\ pc["stop"] = "idle"
     /\ tasks["stop"] = {} /\ tasks["start"] = {}
     /\ pc["start"] # "failing"
     /\ pc["reconnect"] \notin {"failing", "done"}

\* The loop counter is 0 outside the loop.
CounterReset == pc["reconnect"] \in {"idle", "teardown"} => attempt = 0

Quiet == pc["start"] = "done" /\ pc["reconnect"] = "idle"

QuietIsLive ==
  ~stopped => (Quiet <=> status = "BRIDGING") /\ (Quiet <=> monitor)

\* No teardown runs beside a builder of a session that is not stopped.
NothingTornDown ==
  ~stopped /\ pc["reconnect"] \notin {"teardown", "retry"} => tasks["reconnect"] = {}

Joining == {"joinA", "settleA", "joinB", "settleB"}

\* What a builder has acquired by each of its stages, and keeps.
Acquired ==
  /\ held \subseteq Wanted
  /\ \A a \in Builders : pc[a] = "audio" => EnableAudio
  /\ ~stopped =>
       /\ \A a \in Builders : pc[a] = "audio" => "reservation" \in held
       /\ Quiet \/ (\E a \in Builders : pc[a] \in Joining \cup {"launch"})
            => Wanted \subseteq held
       /\ \A a \in Builders : pc[a] = "launch" => \A ag \in Agents \ own : HasPage(ag)
       /\ Quiet \/ (\E a \in Builders : pc[a] \in Joining)
            => \A ag \in Agents : HasPage(ag)

IInv ==
  /\ TypeOK
  /\ StartFirst
  /\ StopReasons
  /\ CounterReset
  /\ QuietIsLive
  /\ NothingTornDown
  /\ Acquired

\* A new session is idle, with nothing held.
THEOREM IInvInit == Init => IInv
<1> SUFFICES ASSUME Init
             PROVE  IInv
  OBVIOUS
<1> USE MaxAttemptsAssumption DEF Init, Activities, Builders
<1>1. TypeOK
  <2>1. /\ status \in Status /\ notified \in Terminal \cup {"none"}
        /\ attempt \in 0..MaxAttempts
    BY DEF Status
  <2>2. /\ agent \in [Agents -> {"absent", "open", "dead", "stray"}]
        /\ pc \in [Activities -> Stages \cup Teardowns \cup {"idle", "sleep", "done"}]
        /\ tasks \in [Activities -> SUBSET Parts]
        /\ tick \in [Ticks -> {"idle", "audio", "keepalive", "meeting"}]
        /\ moving \in [Ticks -> SUBSET Agents]
    OBVIOUS
  <2>3. QED
    BY <2>1, <2>2 DEF TypeOK
<1>2. StartFirst /\ StopReasons /\ CounterReset /\ QuietIsLive /\ NothingTornDown
  BY DEF StartFirst, StopReasons, CounterReset, QuietIsLive, Quiet, NothingTornDown
<1>3. Acquired
  BY DEF Acquired, Quiet, Joining
<1>4. QED
  BY <1>1, <1>2, <1>3 DEF IInv

\* Types after the beginning of a teardown, ...
LEMMA TeardownType ==
  ASSUME TypeOK, NEW a \in Activities, NEW where \in Teardowns, BeginTeardown(a, where)
  PROVE  /\ monitor' \in BOOLEAN
         /\ tasks' \in [Activities -> SUBSET Parts]
         /\ pc' \in [Activities -> Stages \cup Teardowns \cup {"idle", "sleep", "done"}]
<1>1. held \cup {ag \in Agents : HasPage(ag)} \subseteq Parts
  BY DEF TypeOK, Parts
<1>2. QED
  BY <1>1 DEF TypeOK, BeginTeardown

\* ... of a reconnect, ...
LEMMA ReconnectRequestedType ==
  ASSUME TypeOK, ReconnectRequested
  PROVE  /\ monitor' \in BOOLEAN
         /\ tasks' \in [Activities -> SUBSET Parts]
         /\ pc' \in [Activities -> Stages \cup Teardowns \cup {"idle", "sleep", "done"}]
         /\ status' \in Status
         /\ notified' \in Terminal \cup {"none"}
<1>1. "reconnect" \in Activities /\ "teardown" \in Teardowns
  BY DEF Activities, Teardowns
<1>2. CASE BeginTeardown("reconnect", "teardown") /\ UpdateStatus("RECONNECTING")
  BY <1>1, <1>2, TeardownType DEF TypeOK, UpdateStatus, Status
<1>3. CASE UNCHANGED <<status, notified, monitor, tasks, pc>>
  BY <1>3 DEF TypeOK
<1>4. QED
  BY <1>2, <1>3 DEF ReconnectRequested

\* ... of stop(), ...
LEMMA StopType ==
  ASSUME TypeOK, Stop
  PROVE  /\ monitor' \in BOOLEAN
         /\ tasks' \in [Activities -> SUBSET Parts]
         /\ pc' \in [Activities -> Stages \cup Teardowns \cup {"idle", "sleep", "done"}]
         /\ status' \in Status
         /\ notified' \in Terminal \cup {"none"}
         /\ stopped' \in BOOLEAN
         /\ interrupted' \in BOOLEAN
<1>1. "stop" \in Activities /\ "teardown" \in Teardowns
  BY DEF Activities, Teardowns
<1>2. CASE stopped
  BY <1>2 DEF TypeOK, Stop, session
<1>3. CASE ~stopped
  BY <1>1, <1>3, TeardownType DEF TypeOK, Stop, UpdateStatus, Status
<1>4. QED
  BY <1>2, <1>3

\* ... of failSession(), ...
LEMMA FailSessionType ==
  ASSUME TypeOK, NEW a \in Activities, FailSession(a)
  PROVE  /\ monitor' \in BOOLEAN
         /\ tasks' \in [Activities -> SUBSET Parts]
         /\ pc' \in [Activities -> Stages \cup Teardowns \cup {"idle", "sleep", "done"}]
         /\ status' \in Status
         /\ notified' \in Terminal \cup {"none"}
         /\ stopped' \in BOOLEAN
<1>1. "failing" \in Teardowns
  BY DEF Teardowns
<1>2. QED
  BY <1>1, TeardownType DEF TypeOK, FailSession, UpdateStatus, Status, Terminal

\* ... and after the rest of a health check.
LEMMA TickGoesOnType ==
  ASSUME TypeOK, NEW t \in Ticks, TickGoesOn(t)
  PROVE  /\ monitor' \in BOOLEAN
         /\ tasks' \in [Activities -> SUBSET Parts]
         /\ pc' \in [Activities -> Stages \cup Teardowns \cup {"idle", "sleep", "done"}]
         /\ status' \in Status
         /\ notified' \in Terminal \cup {"none"}
         /\ tick' \in [Ticks -> {"idle", "audio", "keepalive", "meeting"}]
         /\ moving' \in [Ticks -> SUBSET Agents]
<1>1. CASE ReconnectRequested /\ tick' = [tick EXCEPT ![t] = "idle"] /\ UNCHANGED moving
  BY <1>1, ReconnectRequestedType DEF TypeOK
<1>2. CASE /\ moving' = [moving EXCEPT ![t] = {ag \in Agents : HasPage(ag)}]
           /\ tick' = [tick EXCEPT ![t] = IF moving'[t] = {} THEN "meeting" ELSE "keepalive"]
           /\ UNCHANGED <<status, notified, monitor, tasks, pc>>
  BY <1>2 DEF TypeOK
<1>3. QED
  BY <1>1, <1>2 DEF TickGoesOn

\* One step per action.
THEOREM IInvStep == IInv /\ [Next]_vars => IInv'
<1> SUFFICES ASSUME IInv, [Next]_vars
             PROVE  IInv'
  OBVIOUS
<1> USE MaxAttemptsAssumption, OptionsAssumption
    DEF IInv, session, bridge, browsers, checks, Activities, Builders, Agents
<1>1. ASSUME Start
     PROVE  IInv'
  <2>1. TypeOK'
    BY <1>1 DEF Start, UpdateStatus, TypeOK, Status, Stages
  <2>2. StartFirst' /\ StopReasons' /\ CounterReset'
    BY <1>1 DEF Start, StartFirst, StopReasons, CounterReset
  <2>3. QuietIsLive' /\ NothingTornDown'
    BY <1>1 DEF Start, UpdateStatus, QuietIsLive, Quiet, NothingTornDown
  <2>4. Acquired'
    BY <1>1 DEF Start, Quiet, Acquired, Joining, HasPage
  <2>5. QED
    BY <2>1, <2>2, <2>3, <2>4
<1>2. ASSUME NEW a \in Builders, Allocated(a)
     PROVE  IInv'
  <2>1. TypeOK'
    <3>1. held' \subseteq Media /\ own' \subseteq Agents
      BY <1>2 DEF Allocated, BeginLaunch, TypeOK, Media
    <3>2. pc' \in [Activities -> Stages \cup Teardowns \cup {"idle", "sleep", "done"}]
      BY <1>2 DEF Allocated, BeginLaunch, TypeOK, Stages
    <3>3. QED
      BY <1>2, <3>1, <3>2 DEF Allocated, TypeOK
  <2>2. StartFirst' /\ StopReasons' /\ CounterReset'
    BY <1>2 DEF Allocated, BeginLaunch, TypeOK, StartFirst, StopReasons, CounterReset
  <2>3. QuietIsLive' /\ NothingTornDown'
    BY <1>2 DEF Allocated, BeginLaunch, TypeOK, QuietIsLive, Quiet, NothingTornDown
  <2>4. Acquired'
    <3>1. CASE EnableAudio
      <4>1. /\ held' = held \cup {"reservation"}
            /\ pc' = [pc EXCEPT ![a] = "audio"]
            /\ UNCHANGED <<stopped, agent, own>>
        BY <1>2, <3>1 DEF Allocated
      <4>2. /\ ~Quiet /\ ~Quiet'
            /\ \A b \in Builders : pc'[b] \notin Joining \cup {"launch"}
        BY <1>2, <4>1 DEF Allocated, StartFirst, Quiet, Joining, TypeOK
      <4>3. held' \subseteq Wanted
        BY <4>1 DEF Acquired, Wanted
      <4>4. QED
        BY <3>1, <4>1, <4>2, <4>3 DEF Acquired
    <3>2. CASE ~EnableAudio
      <4>1. /\ held' = held \cup {"reservation"} \cup (IF EnableVideo THEN {"video"} ELSE {})
            /\ own' = Agents
            /\ pc' = [pc EXCEPT ![a] = "launch"]
            /\ UNCHANGED <<stopped, agent>>
        BY <1>2, <3>2 DEF Allocated, BeginLaunch
      <4>2. /\ ~Quiet /\ ~Quiet'
            /\ \A b \in Builders : pc'[b] \notin Joining \cup {"audio"}
        BY <1>2, <4>1 DEF Allocated, StartFirst, Quiet, Joining, TypeOK
      <4>3. held' \subseteq Wanted /\ Wanted \subseteq held'
        BY <3>2, <4>1 DEF Acquired, Wanted
      <4>4. QED
        BY <4>1, <4>2, <4>3 DEF Acquired
    <3>3. QED
      BY <3>1, <3>2
  <2>5. QED
    BY <2>1, <2>2, <2>3, <2>4
<1>3. ASSUME NEW a \in Builders, AudioConfigured(a)
     PROVE  IInv'
  <2>1. TypeOK'
    BY <1>3 DEF AudioConfigured, BeginLaunch, TypeOK, Stages, Media
  <2>2. StartFirst' /\ StopReasons' /\ CounterReset'
    BY <1>3 DEF AudioConfigured, BeginLaunch, StartFirst, StopReasons, CounterReset
  <2>3. QuietIsLive' /\ NothingTornDown'
    BY <1>3 DEF AudioConfigured, BeginLaunch, QuietIsLive, Quiet, NothingTornDown
  <2>4. Acquired'
    BY <1>3 DEF AudioConfigured, BeginLaunch, Quiet, Acquired, Joining, Wanted, HasPage
  <2>5. QED
    BY <2>1, <2>2, <2>3, <2>4
<1>4. ASSUME NEW a \in Builders, NEW ag \in Agents, Launched(a, ag)
     PROVE  IInv'
  <2>1. TypeOK'
    BY <1>4 DEF Launched, Refers, UpdateStatus, TypeOK, Status, Stages
  <2>2. StartFirst' /\ StopReasons' /\ CounterReset'
    BY <1>4 DEF Launched, Refers, TypeOK, StartFirst, StopReasons, CounterReset
  <2>3. QuietIsLive' /\ NothingTornDown'
    BY <1>4 DEF Launched, Refers, UpdateStatus, TypeOK, QuietIsLive, Quiet, NothingTornDown
  <2>4. Acquired'
    BY <1>4 DEF Launched, Refers, TypeOK, Quiet, Acquired, HasPage
  <2>5. QED
    BY <2>1, <2>2, <2>3, <2>4
<1>5. ASSUME NEW a \in Builders, Clicked(a)
     PROVE  IInv'
  <2>1. TypeOK'
    BY <1>5 DEF Clicked, TypeOK, Stages
  <2>2. StartFirst' /\ StopReasons' /\ CounterReset'
    BY <1>5 DEF Clicked, StartFirst, StopReasons, CounterReset
  <2>3. QuietIsLive' /\ NothingTornDown'
    BY <1>5 DEF Clicked, QuietIsLive, Quiet, NothingTornDown
  <2>4. Acquired'
    BY <1>5 DEF Clicked, Acquired, Joining, HasPage
  <2>5. QED
    BY <2>1, <2>2, <2>3, <2>4
<1>6. ASSUME NEW a \in Builders, JoinedA(a)
     PROVE  IInv'
  <2>1. TypeOK'
    BY <1>6 DEF JoinedA, UpdateStatus, TypeOK, Status, Stages
  <2>2. StartFirst' /\ StopReasons' /\ CounterReset'
    BY <1>6 DEF JoinedA, StartFirst, StopReasons, CounterReset
  <2>3. QuietIsLive' /\ NothingTornDown'
    BY <1>6 DEF JoinedA, UpdateStatus, QuietIsLive, Quiet, NothingTornDown
  <2>4. Acquired'
    BY <1>6 DEF JoinedA, Acquired, Joining, HasPage
  <2>5. QED
    BY <2>1, <2>2, <2>3, <2>4
<1>7. ASSUME NEW a \in Builders, JoinedB(a)
     PROVE  IInv'
  <2>1. TypeOK'
    BY <1>7 DEF JoinedB, UpdateStatus, TypeOK, Status
  <2>2. StartFirst' /\ StopReasons' /\ CounterReset'
    BY <1>7 DEF JoinedB, TypeOK, StartFirst, StopReasons, CounterReset
  <2>3. QuietIsLive' /\ NothingTornDown'
    BY <1>7 DEF JoinedB, UpdateStatus, TypeOK, StartFirst, QuietIsLive, Quiet,
                NothingTornDown
  <2>4. Acquired'
    BY <1>7 DEF JoinedB, Acquired, Joining, HasPage
  <2>5. QED
    BY <2>1, <2>2, <2>3, <2>4
<1>8. ASSUME NEW a \in Builders, StageFails(a)
     PROVE  IInv'
  <2>1. TypeOK'
    <3>1. late' \subseteq Agents /\ own' \subseteq Agents
      BY <1>8 DEF StageFails, TypeOK
    <3>2. CASE FailSession(a)
      BY <1>8, <3>1, <3>2, FailSessionType DEF StageFails, TypeOK
    <3>3. CASE BeginTeardown(a, "retry") /\ UNCHANGED session
      BY <1>8, <3>1, <3>3, TeardownType DEF StageFails, TypeOK, Teardowns
    <3>4. QED
      BY <1>8, <3>2, <3>3 DEF StageFails
  <2>2. StartFirst' /\ StopReasons' /\ CounterReset'
    BY <1>8 DEF StageFails, FailSession, BeginTeardown, TypeOK, StartFirst, StopReasons,
                CounterReset
  <2>3. QuietIsLive' /\ NothingTornDown'
    BY <1>8 DEF StageFails, FailSession, BeginTeardown, TypeOK, QuietIsLive, Quiet,
                NothingTornDown
  <2>4. Acquired'
    BY <1>8 DEF StageFails, FailSession, BeginTeardown, TypeOK, StartFirst, Quiet, Acquired,
                Joining
  <2>5. QED
    BY <2>1, <2>2, <2>3, <2>4
<1>9. ASSUME NEW a \in Builders, FailEnds(a)
     PROVE  IInv'
  <2>1. TypeOK'
    BY <1>9 DEF FailEnds, TypeOK
  <2>2. StartFirst' /\ StopReasons' /\ CounterReset'
    BY <1>9 DEF FailEnds, StartFirst, StopReasons, CounterReset
  <2>3. QuietIsLive' /\ NothingTornDown'
    BY <1>9 DEF FailEnds, StopReasons, QuietIsLive, NothingTornDown
  <2>4. Acquired'
    BY <1>9 DEF FailEnds, StopReasons, Acquired
  <2>5. QED
    BY <2>1, <2>2, <2>3, <2>4
<1>10. ASSUME NextAttempt
     PROVE  IInv'
  <2>1. TypeOK'
    <3>1. CASE FailSession("reconnect") /\ attempt' = 0
      BY <1>10, <3>1, FailSessionType DEF NextAttempt, TypeOK
    <3>2. CASE ~(pc["reconnect"] = "retry" /\ attempt = MaxAttempts)
      BY <1>10, <3>2 DEF NextAttempt, TypeOK, CounterReset
    <3>3. QED
      BY <1>10, <3>1, <3>2 DEF NextAttempt
  <2>2. StartFirst' /\ StopReasons' /\ CounterReset'
    BY <1>10 DEF NextAttempt, FailSession, BeginTeardown, TypeOK, StartFirst, StopReasons,
                 CounterReset
  <2>3. QuietIsLive' /\ NothingTornDown'
    BY <1>10 DEF NextAttempt, FailSession, TypeOK, QuietIsLive, Quiet, NothingTornDown
  <2>4. Acquired'
    BY <1>10 DEF NextAttempt, FailSession, BeginTeardown, TypeOK, Quiet, Acquired, Joining,
                 HasPage
  <2>5. QED
    BY <2>1, <2>2, <2>3, <2>4
<1>11. ASSUME Wakes
     PROVE  IInv'
  <2>1. TypeOK'
    BY <1>11 DEF Wakes, TypeOK, Stages
  <2>2. StartFirst' /\ StopReasons' /\ CounterReset'
    BY <1>11 DEF Wakes, StartFirst, StopReasons, CounterReset
  <2>3. QuietIsLive' /\ NothingTornDown'
    BY <1>11 DEF Wakes, QuietIsLive, Quiet, NothingTornDown
  <2>4. Acquired'
    BY <1>11 DEF Wakes, Quiet, Acquired, Joining, HasPage
  <2>5. QED
    BY <2>1, <2>2, <2>3, <2>4
<1>12. ASSUME StopCalled
     PROVE  IInv'
  <2>1. TypeOK'
    BY <1>12, StopType DEF StopCalled, TypeOK
  <2>2. StartFirst' /\ StopReasons' /\ CounterReset'
    BY <1>12 DEF StopCalled, Stop, BeginTeardown, TypeOK, StartFirst, StopReasons,
                 CounterReset
  <2>3. QuietIsLive' /\ NothingTornDown'
    BY <1>12 DEF StopCalled, Stop, QuietIsLive, NothingTornDown
  <2>4. Acquired'
    BY <1>12 DEF StopCalled, Stop, BeginTeardown, TypeOK, Acquired
  <2>5. QED
    BY <2>1, <2>2, <2>3, <2>4
<1>13. ASSUME StopEnds
     PROVE  IInv'
  <2>1. TypeOK'
    BY <1>13 DEF StopEnds, UpdateStatus, TypeOK, Status, Terminal
  <2>2. StartFirst' /\ StopReasons' /\ CounterReset'
    BY <1>13 DEF StopEnds, StartFirst, StopReasons, CounterReset
  <2>3. QuietIsLive' /\ NothingTornDown'
    BY <1>13 DEF StopEnds, StopReasons, QuietIsLive, NothingTornDown
  <2>4. Acquired'
    BY <1>13 DEF StopEnds, Quiet, Acquired, HasPage
  <2>5. QED
    BY <2>1, <2>2, <2>3, <2>4
<1>14. ASSUME NEW a \in Activities, Teardown(a)
     PROVE  IInv'
  <2>1. TypeOK'
    BY <1>14 DEF Teardown, TaskDone, TypeOK, Parts
  <2>2. StartFirst' /\ StopReasons' /\ CounterReset'
    BY <1>14 DEF Teardown, TaskDone, StartFirst, StopReasons, CounterReset
  <2>3. QuietIsLive' /\ NothingTornDown'
    BY <1>14 DEF Teardown, TaskDone, QuietIsLive, Quiet, NothingTornDown
  <2>4. Acquired'
    <3>1. stopped \/ pc["reconnect"] \in {"teardown", "retry"}
      BY <1>14 DEF Teardown, TaskDone, StopReasons, NothingTornDown
    <3>2. PICK part \in Parts : TaskDone(a, part)
      BY <1>14 DEF Teardown
    <3>3. held' \subseteq held /\ UNCHANGED <<stopped, pc>>
      BY <3>2 DEF TaskDone
    <3>4. CASE stopped
      BY <3>3, <3>4 DEF Acquired
    <3>5. CASE pc["reconnect"] \in {"teardown", "retry"}
      <4>1. pc["start"] = "done"
        BY <3>5 DEF StartFirst
      <4>2. /\ ~Quiet /\ ~Quiet'
            /\ \A b \in Builders : pc[b] \notin Joining \cup {"audio", "launch"}
        BY <3>3, <3>5, <4>1 DEF Quiet, Joining
      <4>3. QED
        BY <3>3, <4>2 DEF Acquired
    <3>6. QED
      BY <3>1, <3>4, <3>5
  <2>5. QED
    BY <2>1, <2>2, <2>3, <2>4
<1>15. ASSUME NEW ag \in Agents, LateLaunch(ag)
     PROVE  IInv'
  <2>1. TypeOK'
    <3>1. /\ agent' \in [Agents -> {"absent", "open", "dead", "stray"}]
          /\ late' \subseteq Agents /\ leaked' \subseteq Agents
      <4>1. CASE UNCHANGED <<agent, leaked>>
        BY <1>15, <4>1 DEF LateLaunch, TypeOK
      <4>2. CASE Refers(ag, "stray")
        BY <1>15, <4>2 DEF LateLaunch, Refers, TypeOK
      <4>3. QED
        BY <1>15, <4>1, <4>2 DEF LateLaunch
    <3>2. QED
      BY <1>15, <3>1 DEF LateLaunch, TypeOK
  <2>2. StartFirst' /\ StopReasons' /\ CounterReset'
    BY <1>15 DEF LateLaunch, StartFirst, StopReasons, CounterReset
  <2>3. QuietIsLive' /\ NothingTornDown'
    BY <1>15 DEF LateLaunch, QuietIsLive, Quiet, NothingTornDown
  <2>4. Acquired'
    BY <1>15 DEF LateLaunch, Refers, TypeOK, Quiet, Acquired, HasPage
  <2>5. QED
    BY <2>1, <2>2, <2>3, <2>4
<1>16. ASSUME NEW ag \in Agents, BrowserDies(ag)
     PROVE  IInv'
  <2>1. TypeOK'
    BY <1>16 DEF BrowserDies, TypeOK
  <2>2. StartFirst' /\ StopReasons' /\ CounterReset'
    BY <1>16 DEF BrowserDies, StartFirst, StopReasons, CounterReset
  <2>3. QuietIsLive' /\ NothingTornDown'
    BY <1>16 DEF BrowserDies, QuietIsLive, Quiet, NothingTornDown
  <2>4. Acquired'
    BY <1>16 DEF BrowserDies, Quiet, Acquired, HasPage
  <2>5. QED
    BY <2>1, <2>2, <2>3, <2>4
<1>17. ASSUME NEW t \in Ticks, TickFires(t)
     PROVE  IInv'
  <2>1. TypeOK'
    <3>1. CASE TickGoesOn(t)
      BY <1>17, <3>1, TickGoesOnType DEF TickFires, TypeOK
    <3>2. CASE ReconnectRequested /\ UNCHANGED checks
      BY <1>17, <3>2, ReconnectRequestedType DEF TickFires, TypeOK
    <3>3. CASE /\ tick' = [tick EXCEPT ![t] = "audio"]
               /\ UNCHANGED <<status, notified, monitor, tasks, pc, moving>>
      BY <1>17, <3>3 DEF TickFires, TypeOK
    <3>4. QED
      BY <1>17, <3>1, <3>2, <3>3 DEF TickFires
  <2>2. StartFirst' /\ StopReasons' /\ CounterReset'
    BY <1>17 DEF TickFires, TickGoesOn, ReconnectRequested, BeginTeardown, TypeOK,
                 StartFirst, StopReasons, CounterReset
  <2>3. QuietIsLive' /\ NothingTornDown'
    BY <1>17 DEF TickFires, TickGoesOn, ReconnectRequested, BeginTeardown, UpdateStatus,
                 TypeOK, QuietIsLive, Quiet, NothingTornDown
  <2>4. Acquired'
    BY <1>17 DEF TickFires, TickGoesOn, ReconnectRequested, BeginTeardown, TypeOK,
                 QuietIsLive, Acquired, HasPage
  <2>5. QED
    BY <2>1, <2>2, <2>3, <2>4
<1>18. ASSUME NEW t \in Ticks, AudioUnhealthy(t)
     PROVE  IInv'
  <2>1. TypeOK'
    BY <1>18, ReconnectRequestedType DEF AudioUnhealthy, TypeOK
  <2>2. StartFirst' /\ StopReasons' /\ CounterReset'
    BY <1>18 DEF AudioUnhealthy, ReconnectRequested, BeginTeardown, TypeOK, StartFirst,
                 StopReasons, CounterReset
  <2>3. QuietIsLive' /\ NothingTornDown'
    BY <1>18 DEF AudioUnhealthy, ReconnectRequested, BeginTeardown, UpdateStatus, TypeOK,
                 QuietIsLive, Quiet, NothingTornDown
  <2>4. Acquired'
    BY <1>18 DEF AudioUnhealthy, ReconnectRequested, BeginTeardown, TypeOK, Quiet, Acquired,
                 Joining, HasPage
  <2>5. QED
    BY <2>1, <2>2, <2>3, <2>4
<1>19. ASSUME NEW t \in Ticks, AudioHealthy(t)
     PROVE  IInv'
  <2>1. TypeOK'
    BY <1>19, TickGoesOnType DEF AudioHealthy, TypeOK
  <2>2. StartFirst' /\ StopReasons' /\ CounterReset'
    BY <1>19 DEF AudioHealthy, TickGoesOn, ReconnectRequested, BeginTeardown, TypeOK,
                 StartFirst, StopReasons, CounterReset
  <2>3. QuietIsLive' /\ NothingTornDown'
    BY <1>19 DEF AudioHealthy, TickGoesOn, ReconnectRequested, BeginTeardown, UpdateStatus,
                 TypeOK, QuietIsLive, Quiet, NothingTornDown
  <2>4. Acquired'
    BY <1>19 DEF AudioHealthy, TickGoesOn, ReconnectRequested, BeginTeardown, TypeOK, Quiet,
                 Acquired, Joining, HasPage
  <2>5. QED
    BY <2>1, <2>2, <2>3, <2>4
<1>20. ASSUME NEW t \in Ticks, Moved(t)
     PROVE  IInv'
  <2>1. TypeOK'
    BY <1>20 DEF Moved, TypeOK
  <2>2. StartFirst' /\ StopReasons' /\ CounterReset'
    BY <1>20 DEF Moved, StartFirst, StopReasons, CounterReset
  <2>3. QuietIsLive' /\ NothingTornDown'
    BY <1>20 DEF Moved, QuietIsLive, Quiet, NothingTornDown
  <2>4. Acquired'
    BY <1>20 DEF Moved, Quiet, Acquired, HasPage
  <2>5. QED
    BY <2>1, <2>2, <2>3, <2>4
<1>21. ASSUME NEW t \in Ticks, MoveRejected(t)
     PROVE  IInv'
  <2>1. TypeOK'
    BY <1>21 DEF MoveRejected, TypeOK
  <2>2. StartFirst' /\ StopReasons' /\ CounterReset'
    BY <1>21 DEF MoveRejected, StartFirst, StopReasons, CounterReset
  <2>3. QuietIsLive' /\ NothingTornDown'
    BY <1>21 DEF MoveRejected, QuietIsLive, Quiet, NothingTornDown
  <2>4. Acquired'
    BY <1>21 DEF MoveRejected, Quiet, Acquired, HasPage
  <2>5. QED
    BY <2>1, <2>2, <2>3, <2>4
<1>22. ASSUME NEW t \in Ticks, MeetingEnded(t)
     PROVE  IInv'
  <2>1. TypeOK'
    BY <1>22, StopType DEF MeetingEnded, TypeOK
  <2>2. StartFirst' /\ StopReasons' /\ CounterReset'
    BY <1>22 DEF MeetingEnded, Stop, BeginTeardown, TypeOK, StartFirst, StopReasons,
                 CounterReset
  <2>3. QuietIsLive' /\ NothingTornDown'
    BY <1>22 DEF MeetingEnded, Stop, QuietIsLive, NothingTornDown
  <2>4. Acquired'
    BY <1>22 DEF MeetingEnded, Stop, BeginTeardown, TypeOK, Acquired
  <2>5. QED
    BY <2>1, <2>2, <2>3, <2>4
<1>23. ASSUME NEW t \in Ticks, MeetingGoesOn(t)
     PROVE  IInv'
  <2>1. TypeOK'
    BY <1>23 DEF MeetingGoesOn, TypeOK
  <2>2. StartFirst' /\ StopReasons' /\ CounterReset'
    BY <1>23 DEF MeetingGoesOn, StartFirst, StopReasons, CounterReset
  <2>3. QuietIsLive' /\ NothingTornDown'
    BY <1>23 DEF MeetingGoesOn, QuietIsLive, Quiet, NothingTornDown
  <2>4. Acquired'
    BY <1>23 DEF MeetingGoesOn, Quiet, Acquired, HasPage
  <2>5. QED
    BY <2>1, <2>2, <2>3, <2>4
<1>24. ASSUME NEW part \in Media, SignalEnds(part)
     PROVE  IInv'
  <2>1. TypeOK'
    BY <1>24 DEF SignalEnds, TypeOK
  <2>2. StartFirst' /\ StopReasons' /\ CounterReset'
    BY <1>24 DEF SignalEnds, StartFirst, StopReasons, CounterReset
  <2>3. QuietIsLive' /\ NothingTornDown'
    BY <1>24 DEF SignalEnds, QuietIsLive, Quiet, NothingTornDown
  <2>4. Acquired'
    BY <1>24 DEF SignalEnds, Quiet, Acquired, HasPage
  <2>5. QED
    BY <2>1, <2>2, <2>3, <2>4
<1>25. CASE UNCHANGED vars
  BY <1>25 DEF vars, TypeOK, StartFirst, StopReasons, CounterReset, QuietIsLive, Quiet,
               NothingTornDown, Acquired, HasPage
<1>26. QED
  BY <1>1, <1>2, <1>3, <1>4, <1>5, <1>6, <1>7, <1>8, <1>9, <1>10, <1>11, <1>12, <1>13,
         <1>14, <1>15, <1>16, <1>17, <1>18, <1>19, <1>20, <1>21, <1>22, <1>23, <1>24, <1>25
     DEF Next, Build, Tick

\* Every variable of a session keeps its type, the loop counter its bound.
THEOREM TypeCorrect == Spec => []TypeOK
<1>1. IInv => TypeOK
  BY DEF IInv
<1>2. QED
  BY <1>1, IInvInit, IInvStep, PTL DEF Spec

\* While BRIDGING is reported and nobody has called stop(), every part of the
\* bridge is there and no teardown runs.
THEOREM BridgeWhole == Spec => []BridgeIsWhole
<1>1. IInv => BridgeIsWhole
  <2> SUFFICES ASSUME IInv, status = "BRIDGING", ~stopped
               PROVE  /\ monitor
                      /\ held = Wanted
                      /\ \A ag \in Agents : HasPage(ag)
                      /\ \A a \in Activities : tasks[a] = {}
    BY DEF BridgeIsWhole, Wanted
  <2>1. Quiet /\ monitor
    BY DEF IInv, QuietIsLive
  <2>2. held = Wanted /\ \A ag \in Agents : HasPage(ag)
    BY <2>1 DEF IInv, Acquired
  <2>3. \A a \in Activities : tasks[a] = {}
    BY <2>1 DEF IInv, StopReasons, NothingTornDown, Quiet, Activities
  <2>4. QED
    BY <2>1, <2>2, <2>3
<1>2. QED
  BY <1>1, IInvInit, IInvStep, PTL DEF Spec

\* start() and a reconnect are never both at work.
THEOREM SingleBuilder == Spec => []OneBuilder
<1>1. IInv => OneBuilder
  BY DEF IInv, StartFirst, OneBuilder, AtRest
<1>2. QED
  BY <1>1, IInvInit, IInvStep, PTL DEF Spec

\* A monitor of a session nobody stopped watches a live bridge.
THEOREM MonitorLive == Spec => []MonitorWatchesLiveBridge
<1>1. IInv => MonitorWatchesLiveBridge
  BY DEF IInv, QuietIsLive, MonitorWatchesLiveBridge
<1>2. QED
  BY <1>1, IInvInit, IInvStep, PTL DEF Spec

-----------------------------------------------------------------------------
(* The end of a session                                                    *)

\* Only a teardown under way has something left to release.
TasksInTeardown == \A a \in Activities : pc[a] \notin Teardowns => tasks[a] = {}

\* A session that nobody stopped has reported no end, has its first status
\* until start(), and counts an attempt in every round of the reconnect loop.
Underway ==
  /\ ~stopped => /\ notified = "none"
                 /\ status \notin Terminal
                 /\ pc["start"] = "idle" <=> status = "CREATED"
                 /\ ~interrupted
  /\ pc["reconnect"] \in Stages \cup {"sleep", "retry"} => attempt > 0

\* Somebody is about to release it.
Doomed(part) == \E a \in Activities : part \in tasks[a]

\* What holds from the moment a session is over, unless stop() came while
\* start() or a reconnect worked: nobody builds, and whatever the builders
\* acquired is in the list of a teardown or gone, but for a browser whose launch
\* nobody waits for.
Ending ==
  stopped /\ ~interrupted =>
    /\ ~monitor
    /\ pc["start"] \in {"done", "failing"}
    /\ pc["reconnect"] \in {"idle", "done", "failing"}
    /\ \A part \in held : Doomed(part)
    /\ \A ag \in Agents \ outlived : HasPage(ag) => Doomed(ag)
    /\ pc["stop"] = "teardown" => status = "TERMINATING"

\* A launch that goes on by itself is one that outlived its attempt.
LateOutlives == late \subseteq outlived

EInv == IInv /\ TasksInTeardown /\ Underway /\ Ending /\ LateOutlives

\* A new session is neither over nor torn down.
THEOREM EInvInit == Init => EInv
<1>1. ASSUME Init
      PROVE  TasksInTeardown /\ Underway /\ Ending /\ LateOutlives
  BY <1>1 DEF Init, TasksInTeardown, Underway, Ending, Terminal, Stages, Activities,
              LateOutlives
<1>2. QED
  BY <1>1, IInvInit DEF EInv

\* The list of a teardown names everything that is held and every page.
LEMMA TeardownLists ==
  ASSUME TypeOK, NEW a \in Activities, NEW where \in Teardowns, BeginTeardown(a, where)
  PROVE  /\ ~monitor'
         /\ pc'[a] = where
         /\ \A b \in Activities \ {a} : pc'[b] = pc[b] /\ tasks'[b] = tasks[b]
         /\ \A part \in held : part \in tasks'[a]
         /\ \A ag \in Agents : HasPage(ag) => ag \in tasks'[a]
BY DEF TypeOK, BeginTeardown, HasPage

\* The teardown that begins lists all that is held.
LEMMA TeardownListed ==
  ASSUME TypeOK, TasksInTeardown,
         NEW a \in Activities, NEW where \in Teardowns, BeginTeardown(a, where),
         UNCHANGED <<held, agent>>
  PROVE  /\ TasksInTeardown'
         /\ \A part \in held' : Doomed(part)'
         /\ \A ag \in Agents : HasPage(ag)' => Doomed(ag)'
BY TeardownLists DEF TasksInTeardown, Doomed, HasPage

\* failSession() by the builder at work.
LEMMA FailSessionEnds ==
  ASSUME EInv, NEW a \in Builders, FailSession(a),
         pc[a] \notin {"idle", "done", "failing"},
         attempt' = 0 \/ a = "start",
         UNCHANGED <<held, agent, interrupted>>
  PROVE  TasksInTeardown' /\ Underway' /\ Ending'
<1> USE DEF EInv, IInv, browsers
<1>1. BeginTeardown(a, "failing") /\ a \in Activities /\ "failing" \in Teardowns
  BY DEF FailSession, Builders, Activities, Teardowns
<1>2. /\ TasksInTeardown'
      /\ \A part \in held' : Doomed(part)'
      /\ \A ag \in Agents : HasPage(ag)' => Doomed(ag)'
  BY <1>1, TeardownListed
<1>3. /\ ~monitor'
      /\ pc'[a] = "failing"
      /\ \A b \in Activities \ {a} : pc'[b] = pc[b]
  BY <1>1, TeardownLists
<1>4. stopped' /\ (pc'["reconnect"] \in Stages \cup {"sleep", "retry"} => a = "start")
  BY <1>3 DEF FailSession, Stages, Builders
<1>5. a = "start" => pc'["reconnect"] \in {"idle", "done", "failing"}
  BY <1>3 DEF StartFirst, Activities
<1>6. Underway'
  BY <1>4, <1>5 DEF Underway, Stages
<1>7. ASSUME ~interrupted'
      PROVE  ~stopped
  BY <1>7 DEF Ending, Builders
<1>8. Ending'
  BY <1>2, <1>3, <1>7 DEF Ending, StartFirst, StopReasons, Activities, Builders
<1>9. QED
  BY <1>2, <1>6, <1>8

\* stop(), called when start() was called before.
LEMMA StopEnding ==
  ASSUME EInv, Stop, pc["start"] # "idle", UNCHANGED <<held, browsers, attempt>>
  PROVE  TasksInTeardown' /\ Underway' /\ Ending'
<1> USE DEF EInv, IInv, browsers
<1>1. CASE stopped
  BY <1>1 DEF Stop, session, TasksInTeardown, Underway, Ending, Doomed, HasPage
<1>2. CASE ~stopped
  <2>1. /\ BeginTeardown("stop", "teardown")
        /\ "stop" \in Activities /\ "teardown" \in Teardowns
        /\ stopped' /\ status' = "TERMINATING"
        /\ interrupted' = ~\A a \in Builders : AtRest(a)
    BY <1>2 DEF Stop, UpdateStatus, Activities, Teardowns
  <2>2. /\ TasksInTeardown'
        /\ \A part \in held' : Doomed(part)'
        /\ \A ag \in Agents : HasPage(ag)' => Doomed(ag)'
    BY <2>1, TeardownListed
  <2>3. /\ ~monitor'
        /\ \A b \in Activities \ {"stop"} : pc'[b] = pc[b]
    BY <2>1, TeardownLists
  <2>4. Underway'
    BY <2>1, <2>3 DEF Underway, Activities
  <2>5. Ending'
    BY <2>1, <2>2, <2>3 DEF Ending, AtRest, Activities, Builders
  <2>6. QED
    BY <2>2, <2>4, <2>5
<1>3. QED
  BY <1>1, <1>2

\* A request of a health check.
LEMMA ReconnectRequestedEnds ==
  ASSUME EInv, ReconnectRequested, pc["start"] = "done",
         UNCHANGED <<stopped, held, browsers, attempt, interrupted>>
  PROVE  TasksInTeardown' /\ Underway' /\ Ending'
<1> USE DEF EInv, IInv, browsers
<1>1. CASE UNCHANGED <<status, notified, monitor, tasks, pc>>
  BY <1>1 DEF TasksInTeardown, Underway, Ending, Doomed, HasPage
<1>2. CASE /\ ~stopped
           /\ UpdateStatus("RECONNECTING")
           /\ BeginTeardown("reconnect", "teardown")
  <2>1. "reconnect" \in Activities /\ "teardown" \in Teardowns
    BY DEF Activities, Teardowns
  <2>2. TasksInTeardown'
    BY <1>2, <2>1, TeardownListed
  <2>3. pc'["reconnect"] = "teardown" /\ pc'["start"] = "done"
    BY <1>2, <2>1, TeardownLists DEF Activities
  <2>4. Underway'
    BY <1>2, <2>3 DEF UpdateStatus, Underway, Terminal, Stages
  <2>5. QED
    BY <1>2, <2>2, <2>4 DEF Ending
<1>3. QED
  BY <1>1, <1>2 DEF ReconnectRequested

\* The rest of a health check ends nothing by itself.
LEMMA TickGoesOnEnds ==
  ASSUME EInv, NEW t \in Ticks, TickGoesOn(t), pc["start"] = "done",
         UNCHANGED <<stopped, held, browsers, attempt, interrupted>>
  PROVE  TasksInTeardown' /\ Underway' /\ Ending'
<1>1. CASE ReconnectRequested
  BY <1>1, ReconnectRequestedEnds
<1>2. CASE UNCHANGED <<status, notified, monitor, tasks, pc>>
  BY <1>2 DEF EInv, TasksInTeardown, Underway, Ending, Doomed, HasPage, browsers
<1>3. QED
  BY <1>1, <1>2 DEF TickGoesOn

\* Only a stage that fails leaves a launch behind.
LEMMA LateOutlivesStep ==
  ASSUME TypeOK, LateOutlives, [Next]_vars
  PROVE  LateOutlives'
<1> USE DEF LateOutlives
<1>1. ASSUME NEW a \in Builders, StageFails(a)
      PROVE  late' \subseteq outlived'
  BY <1>1 DEF StageFails
<1>2. ASSUME UNCHANGED <<late, outlived>>
      PROVE  late' \subseteq outlived'
  BY <1>2
<1>3. ASSUME NEW a \in Builders, Build(a)
      PROVE  late' \subseteq outlived'
  BY <1>1, <1>2, <1>3 DEF Build, Allocated, AudioConfigured, Clicked, JoinedA, JoinedB,
                          Launched, bridge, browsers
<1>4. ASSUME NEW ag \in Agents, LateLaunch(ag) \/ BrowserDies(ag)
      PROVE  late' \subseteq outlived'
  BY <1>4 DEF LateLaunch, BrowserDies
<1>5. ASSUME NEW t \in Ticks, TickFires(t) \/ Tick(t)
      PROVE  late' \subseteq outlived'
  BY <1>2, <1>5 DEF TickFires, Tick, AudioUnhealthy, AudioHealthy, Moved, MoveRejected,
                    MeetingEnded, MeetingGoesOn, bridge, browsers
<1>6. ASSUME \/ Start \/ NextAttempt \/ Wakes \/ StopCalled \/ StopEnds
             \/ \E a \in Builders : FailEnds(a)
             \/ \E a \in Activities : Teardown(a)
             \/ \E part \in Media : SignalEnds(part)
             \/ UNCHANGED vars
      PROVE  late' \subseteq outlived'
  BY <1>2, <1>6 DEF Start, NextAttempt, Wakes, StopCalled, StopEnds, FailEnds, Teardown,
                    TaskDone, SignalEnds, vars, bridge, browsers
<1>7. QED
  BY <1>3, <1>4, <1>5, <1>6 DEF Next

\* One step per action.
THEOREM EInvStep == EInv /\ [Next]_vars => EInv'
<1> SUFFICES ASSUME EInv, [Next]_vars
             PROVE  EInv'
  OBVIOUS
<1> USE MaxAttemptsAssumption
    DEF EInv, IInv, session, bridge, browsers, checks, Activities, Builders, Agents,
        LateOutlives
<1> DEFINE Goal == TasksInTeardown' /\ Underway' /\ Ending'
<1>1. IInv'
  BY IInvStep
<1>2. ASSUME Start
     PROVE  Goal
  <2>1. TasksInTeardown'
    BY <1>2 DEF Start, TypeOK, TasksInTeardown, Teardowns, Stages
  <2>2. Underway'
    BY <1>2 DEF Start, UpdateStatus, TypeOK, Underway, Terminal, Stages,
       StartFirst, StopReasons, CounterReset, QuietIsLive, Quiet
  <2>3. Ending'
    BY <1>2 DEF Start, UpdateStatus, TypeOK, Ending, Doomed, HasPage, Stages, StopReasons
  <2>4. QED
    BY <2>1, <2>2, <2>3
<1>3. ASSUME NEW a \in Builders, Allocated(a)
     PROVE  Goal
  <2>1. TasksInTeardown'
    BY <1>3 DEF Allocated, BeginLaunch, TypeOK, TasksInTeardown, Teardowns, Stages
  <2>2. Underway'
    BY <1>3 DEF Allocated, BeginLaunch, UpdateStatus, TypeOK, Underway, Terminal, Stages,
       StartFirst, StopReasons, CounterReset, QuietIsLive, Quiet
  <2>3. Ending'
    BY <1>3 DEF Allocated, BeginLaunch, UpdateStatus, TypeOK, Ending, Doomed, HasPage, Stages,
       StopReasons
  <2>4. QED
    BY <2>1, <2>2, <2>3
<1>4. ASSUME NEW a \in Builders, AudioConfigured(a)
     PROVE  Goal
  <2>1. TasksInTeardown'
    BY <1>4 DEF AudioConfigured, BeginLaunch, TypeOK, TasksInTeardown, Teardowns, Stages
  <2>2. Underway'
    BY <1>4 DEF AudioConfigured, BeginLaunch, UpdateStatus, TypeOK, Underway, Terminal,
       Stages,
       StartFirst, StopReasons, CounterReset, QuietIsLive, Quiet
  <2>3. Ending'
    BY <1>4 DEF AudioConfigured, BeginLaunch, UpdateStatus, TypeOK, Ending, Doomed, HasPage, Stages,
       StopReasons
  <2>4. QED
    BY <2>1, <2>2, <2>3
<1>5. ASSUME NEW a \in Builders, NEW ag \in Agents, Launched(a, ag)
     PROVE  Goal
  <2>1. TasksInTeardown'
    BY <1>5 DEF Launched, Refers, TypeOK, TasksInTeardown, Teardowns, Stages
  <2>2. Underway'
    BY <1>5 DEF Launched, Refers, UpdateStatus, TypeOK, Underway, Terminal, Stages,
       StartFirst, StopReasons, CounterReset, QuietIsLive, Quiet
  <2>3. Ending'
    BY <1>5 DEF Launched, Refers, UpdateStatus, TypeOK, Ending, Doomed, HasPage, Stages, StopReasons
  <2>4. QED
    BY <2>1, <2>2, <2>3
<1>6. ASSUME NEW a \in Builders, Clicked(a)
     PROVE  Goal
  <2>1. TasksInTeardown'
    BY <1>6 DEF Clicked, TypeOK, TasksInTeardown, Teardowns, Stages
  <2>2. Underway'
    BY <1>6 DEF Clicked, UpdateStatus, TypeOK, Underway, Terminal, Stages,
       StartFirst, StopReasons, CounterReset, QuietIsLive, Quiet
  <2>3. Ending'
    BY <1>6 DEF Clicked, UpdateStatus, TypeOK, Ending, Doomed, HasPage, Stages, StopReasons
  <2>4. QED
    BY <2>1, <2>2, <2>3
<1>7. ASSUME NEW a \in Builders, JoinedA(a)
     PROVE  Goal
  <2>1. TasksInTeardown'
    BY <1>7 DEF JoinedA, TypeOK, TasksInTeardown, Teardowns, Stages
  <2>2. Underway'
    BY <1>7 DEF JoinedA, UpdateStatus, TypeOK, Underway, Terminal, Stages,
       StartFirst, StopReasons, CounterReset, QuietIsLive, Quiet
  <2>3. Ending'
    BY <1>7 DEF JoinedA, UpdateStatus, TypeOK, Ending, Doomed, HasPage, Stages, StopReasons
  <2>4. QED
    BY <2>1, <2>2, <2>3
<1>8. ASSUME NEW a \in Builders, JoinedB(a)
     PROVE  Goal
  <2>1. TasksInTeardown'
    BY <1>8 DEF JoinedB, TypeOK, TasksInTeardown, Teardowns, Stages
  <2>2. Underway'
    BY <1>8 DEF JoinedB, UpdateStatus, TypeOK, Underway, Terminal, Stages,
       StartFirst, StopReasons, CounterReset, QuietIsLive, Quiet
  <2>3. Ending'
    BY <1>8 DEF JoinedB, UpdateStatus, TypeOK, Ending, Doomed, HasPage, Stages, StopReasons
  <2>4. QED
    BY <2>1, <2>2, <2>3
<1>9. ASSUME NEW a \in Builders, FailEnds(a)
     PROVE  Goal
  <2>1. TasksInTeardown'
    BY <1>9 DEF FailEnds, TypeOK, TasksInTeardown, Teardowns, Stages
  <2>2. Underway'
    BY <1>9 DEF FailEnds, UpdateStatus, TypeOK, Underway, Terminal, Stages,
       StartFirst, StopReasons, CounterReset, QuietIsLive, Quiet
  <2>3. Ending'
    BY <1>9 DEF FailEnds, UpdateStatus, TypeOK, Ending, Doomed, HasPage, Stages, StopReasons
  <2>4. QED
    BY <2>1, <2>2, <2>3
<1>10. ASSUME Wakes
     PROVE  Goal
  <2>1. TasksInTeardown'
    BY <1>10 DEF Wakes, TypeOK, TasksInTeardown, Teardowns, Stages
  <2>2. Underway'
    BY <1>10 DEF Wakes, UpdateStatus, TypeOK, Underway, Terminal, Stages,
       StartFirst, StopReasons, CounterReset, QuietIsLive, Quiet
  <2>3. Ending'
    BY <1>10 DEF Wakes, UpdateStatus, TypeOK, Ending, Doomed, HasPage, Stages, StopReasons
  <2>4. QED
    BY <2>1, <2>2, <2>3
<1>11. ASSUME StopEnds
     PROVE  Goal
  <2>1. TasksInTeardown'
    BY <1>11 DEF StopEnds, TypeOK, TasksInTeardown, Teardowns, Stages
  <2>2. Underway'
    BY <1>11 DEF StopEnds, UpdateStatus, TypeOK, Underway, Terminal, Stages,
       StartFirst, StopReasons, CounterReset, QuietIsLive, Quiet
  <2>3. Ending'
    BY <1>11 DEF StopEnds, UpdateStatus, TypeOK, Ending, Doomed, HasPage, Stages, StopReasons
  <2>4. QED
    BY <2>1, <2>2, <2>3
<1>12. ASSUME NEW ag \in Agents, LateLaunch(ag)
     PROVE  Goal
  <2>1. TasksInTeardown'
    BY <1>12 DEF LateLaunch, Refers, TypeOK, TasksInTeardown, Teardowns, Stages
  <2>2. Underway'
    BY <1>12 DEF LateLaunch, UpdateStatus, TypeOK, Underway, Terminal, Stages,
       StartFirst, StopReasons, CounterReset, QuietIsLive, Quiet
  <2>3. Ending'
    BY <1>12 DEF LateLaunch, Refers, TypeOK, Ending, Doomed, HasPage
  <2>4. QED
    BY <2>1, <2>2, <2>3
<1>13. ASSUME NEW ag \in Agents, BrowserDies(ag)
     PROVE  Goal
  <2>1. TasksInTeardown'
    BY <1>13 DEF BrowserDies, TypeOK, TasksInTeardown, Teardowns, Stages
  <2>2. Underway'
    BY <1>13 DEF BrowserDies, UpdateStatus, TypeOK, Underway, Terminal, Stages,
       StartFirst, StopReasons, CounterReset, QuietIsLive, Quiet
  <2>3. Ending'
    BY <1>13 DEF BrowserDies, TypeOK, Ending, Doomed, HasPage, PageOpen
  <2>4. QED
    BY <2>1, <2>2, <2>3
<1>14. ASSUME NEW t \in Ticks, Moved(t)
     PROVE  Goal
  <2>1. TasksInTeardown'
    BY <1>14 DEF Moved, TypeOK, TasksInTeardown, Teardowns, Stages
  <2>2. Underway'
    BY <1>14 DEF Moved, UpdateStatus, TypeOK, Underway, Terminal, Stages,
       StartFirst, StopReasons, CounterReset, QuietIsLive, Quiet
  <2>3. Ending'
    BY <1>14 DEF Moved, UpdateStatus, TypeOK, Ending, Doomed, HasPage, Stages, StopReasons
  <2>4. QED
    BY <2>1, <2>2, <2>3
<1>15. ASSUME NEW t \in Ticks, MoveRejected(t)
     PROVE  Goal
  <2>1. TasksInTeardown'
    BY <1>15 DEF MoveRejected, TypeOK, TasksInTeardown, Teardowns, Stages
  <2>2. Underway'
    BY <1>15 DEF MoveRejected, UpdateStatus, TypeOK, Underway, Terminal, Stages,
       StartFirst, StopReasons, CounterReset, QuietIsLive, Quiet
  <2>3. Ending'
    BY <1>15 DEF MoveRejected, UpdateStatus, TypeOK, Ending, Doomed, HasPage, Stages, StopReasons
  <2>4. QED
    BY <2>1, <2>2, <2>3
<1>16. ASSUME NEW t \in Ticks, MeetingGoesOn(t)
     PROVE  Goal
  <2>1. TasksInTeardown'
    BY <1>16 DEF MeetingGoesOn, TypeOK, TasksInTeardown, Teardowns, Stages
  <2>2. Underway'
    BY <1>16 DEF MeetingGoesOn, UpdateStatus, TypeOK, Underway, Terminal, Stages,
       StartFirst, StopReasons, CounterReset, QuietIsLive, Quiet
  <2>3. Ending'
    BY <1>16 DEF MeetingGoesOn, UpdateStatus, TypeOK, Ending, Doomed, HasPage, Stages, StopReasons
  <2>4. QED
    BY <2>1, <2>2, <2>3
<1>17. ASSUME NEW a \in Builders, StageFails(a)
     PROVE  Goal
  <2>1. /\ pc[a] \notin {"idle", "done", "failing"}
        /\ UNCHANGED <<held, agent, attempt, interrupted>>
    BY <1>17 DEF StageFails
  <2>2. CASE FailSession(a)
    <3>1. a = "start" \/ attempt' = 0
      BY <1>17, <2>2 DEF StageFails, FailSession, BeginTeardown, TypeOK
    <3>2. QED
      BY <2>1, <2>2, <3>1, FailSessionEnds
  <2>3. CASE BeginTeardown(a, "retry") /\ UNCHANGED session /\ a = "reconnect"
    <3>1. a \in Activities /\ "retry" \in Teardowns
      BY DEF Teardowns
    <3>2. TasksInTeardown'
      BY <2>1, <2>3, <3>1, TeardownListed
    <3>3. pc'["start"] = pc["start"]
      BY <2>3, <3>1, TeardownLists
    <3>4. attempt > 0
      BY <1>17, <2>3 DEF StageFails, Underway, Stages
    <3>5. Underway'
      BY <2>1, <2>3, <3>3, <3>4 DEF Underway
    <3>6. Ending'
      BY <2>1, <2>3 DEF Ending
    <3>7. QED
      BY <3>2, <3>5, <3>6
  <2>4. QED
    BY <1>17, <2>2, <2>3 DEF StageFails
<1>18. ASSUME NextAttempt
     PROVE  Goal
  <2>1. /\ pc["reconnect"] \in {"teardown", "retry"}
        /\ tasks["reconnect"] = {}
        /\ UNCHANGED <<held, agent, interrupted>>
    BY <1>18 DEF NextAttempt
  <2>2. CASE FailSession("reconnect") /\ attempt' = 0
    BY <2>1, <2>2, FailSessionEnds
  <2>3. CASE ~(pc["reconnect"] = "retry" /\ attempt = MaxAttempts)
    <3>1. /\ \/ pc' = [pc EXCEPT !["reconnect"] = "idle"]
             \/ pc' = [pc EXCEPT !["reconnect"] = "sleep"] /\ attempt' = attempt + 1
          /\ UNCHANGED <<session, monitor, tasks>>
      BY <1>18, <2>3 DEF NextAttempt
    <3>2. TasksInTeardown'
      BY <2>1, <2>3, <3>1 DEF TypeOK, TasksInTeardown
    <3>3. attempt' > 0 \/ pc'["reconnect"] = "idle"
      BY <3>1 DEF TypeOK
    <3>4. Underway'
      BY <2>1, <2>3, <3>1, <3>3 DEF TypeOK, Underway, Stages
    <3>5. Ending'
      BY <2>1, <2>3, <3>1 DEF Ending
    <3>6. QED
      BY <3>2, <3>4, <3>5
  <2>4. QED
    BY <1>18, <2>2, <2>3 DEF NextAttempt
<1>19. ASSUME StopCalled
     PROVE  Goal
  BY <1>19, StopEnding DEF StopCalled
<1>20. ASSUME NEW a \in Activities, Teardown(a)
     PROVE  Goal
  <2>1. PICK part \in Parts : TaskDone(a, part)
    BY <1>20 DEF Teardown
  <2>2. /\ tasks'[a] = tasks[a] \ {part}
        /\ \A b \in Activities \ {a} : tasks'[b] = tasks[b]
        /\ held' = held \ {part}
        /\ \A ag \in Agents : agent'[ag] = IF ag = part THEN "absent" ELSE agent[ag]
        /\ UNCHANGED <<session, monitor, pc, attempt, interrupted>>
    BY <2>1 DEF TaskDone, TypeOK
  <2>3. TasksInTeardown'
    BY <2>2 DEF TasksInTeardown
  <2>4. Underway'
    BY <2>2 DEF Underway
  <2>5. \A other : other # part /\ Doomed(other) => Doomed(other)'
    BY <2>2 DEF Doomed
  <2>6. Ending'
    BY <2>1, <2>2, <2>5 DEF Ending, TaskDone, HasPage
  <2>7. QED
    BY <2>3, <2>4, <2>6
<1>21. ASSUME NEW t \in Ticks, TickFires(t)
     PROVE  Goal
  <2>1. /\ pc["start"] = "done"
        /\ UNCHANGED <<stopped, held, browsers, attempt, interrupted>>
    BY <1>21 DEF TickFires, StartFirst
  <2>2. CASE UNCHANGED <<status, notified, monitor, tasks, pc>>
    BY <2>1, <2>2 DEF TasksInTeardown, Underway, Ending, Doomed, HasPage
  <2>3. QED
    BY <1>21, <2>1, <2>2, TickGoesOnEnds, ReconnectRequestedEnds DEF TickFires
<1>22. ASSUME NEW t \in Ticks, AudioUnhealthy(t) \/ AudioHealthy(t)
     PROVE  Goal
  <2>1. /\ pc["start"] = "done"
        /\ UNCHANGED <<stopped, held, browsers, attempt, interrupted>>
    BY <1>22 DEF AudioUnhealthy, AudioHealthy, StartFirst
  <2>2. QED
    BY <1>22, <2>1, TickGoesOnEnds, ReconnectRequestedEnds DEF AudioUnhealthy, AudioHealthy
<1>23. ASSUME NEW t \in Ticks, MeetingEnded(t)
     PROVE  Goal
  <2>1. pc["start"] = "done"
    BY <1>23 DEF MeetingEnded, StartFirst
  <2>2. QED
    BY <1>23, <2>1, StopEnding DEF MeetingEnded
<1>24. ASSUME NEW part \in Media, SignalEnds(part)
     PROVE  Goal
  BY <1>24 DEF SignalEnds, TasksInTeardown, Underway, Ending, Doomed, HasPage
<1>25. ASSUME UNCHANGED vars
     PROVE  Goal
  BY <1>25 DEF vars, TasksInTeardown, Underway, Ending, Doomed, HasPage
<1>26. Goal
  BY <1>2, <1>3, <1>4, <1>5, <1>6, <1>7, <1>8, <1>9, <1>10, <1>11, <1>12, <1>13, <1>14,
     <1>15, <1>16, <1>17, <1>18, <1>19, <1>20, <1>21, <1>22, <1>23, <1>24, <1>25
     DEF Next, Build, Tick
<1>27. LateOutlives'
  BY LateOutlivesStep
<1>28. QED
  BY <1>1, <1>26, <1>27

-----------------------------------------------------------------------------
(* What a new attempt finds                                                *)

\* The agent has not yet got the browser of the attempt that is under way or
\* about to begin.
Awaited(ag) ==
  \/ pc["start"] = "idle"
  \/ pc["reconnect"] = "sleep"
  \/ \E a \in Builders : pc[a] \in {"allocate", "audio"}
  \/ \E a \in Builders : pc[a] = "launch" /\ ag \in own

\* An agent none of whose launches outlived its attempt refers to no browser
\* when it gets one, and has lost none.
Fresh ==
  ~interrupted =>
    \A ag \in Agents \ outlived : ag \notin leaked /\ (Awaited(ag) => ~HasPage(ag))

\* The teardown before an attempt lists everything that is there.
TornDown ==
  ~stopped /\ pc["reconnect"] \in {"teardown", "retry"} =>
    /\ held \subseteq tasks["reconnect"]
    /\ \A ag \in Agents \ outlived : HasPage(ag) => ag \in tasks["reconnect"]

\* A process that a foreign signal has ended is one of the bridge, or of the
\* allocate() under way.
SignalsHeld ==
  \A part \in signalled :
    part \in held \/ (part = "reservation" /\ \E a \in Builders : pc[a] = "allocate")

\* Nothing is acquired before start().
Unbegun == pc["start"] = "idle" => held = {}

Clear == Fresh /\ TornDown /\ SignalsHeld /\ Unbegun

LInv == EInv /\ Clear

\* A new session has no browser, and no process that could be ended.
THEOREM LInvInit == Init => LInv
<1>1. ASSUME Init
      PROVE  Clear
  BY <1>1 DEF Init, Clear, Fresh, TornDown, SignalsHeld, Unbegun, HasPage, Activities
<1>2. QED
  BY <1>1, EInvInit DEF LInv

\* Only a builder acquires, and start() has begun before.
LEMMA UnbegunStep ==
  ASSUME TypeOK, StartFirst, Unbegun, [Next]_vars
  PROVE  Unbegun'
<1> USE DEF session, bridge, checks, vars, Activities
<1>1. pc'["start"] = "idle" => pc["start"] = "idle"
  BY DEF TypeOK, Next, Start, Build, Allocated, AudioConfigured, BeginLaunch, Launched,
         Clicked, JoinedA, JoinedB, StageFails, FailSession, BeginTeardown, FailEnds,
         NextAttempt, Wakes, StopCalled, Stop, StopEnds, Teardown, TaskDone, LateLaunch,
         BrowserDies, SignalEnds, TickFires, TickGoesOn, ReconnectRequested, Tick,
         AudioUnhealthy, AudioHealthy, Moved, MoveRejected, MeetingEnded, MeetingGoesOn
<1>2. ASSUME pc["start"] = "idle"
      PROVE  held' \subseteq held
  <2>1. \A a \in Builders : pc[a] = "idle"
    BY <1>2 DEF StartFirst, Builders
  <2>2. \A a \in Builders : ~Build(a)
    BY <2>1 DEF Build, Allocated, AudioConfigured, Launched, Clicked, JoinedA, JoinedB,
                StageFails
  <2>3. QED
    BY <2>2 DEF Next, Start, FailEnds, NextAttempt, Wakes, StopCalled, StopEnds, Teardown,
         TaskDone, LateLaunch, BrowserDies, SignalEnds, TickFires, Tick, AudioUnhealthy,
         AudioHealthy, Moved, MoveRejected, MeetingEnded, MeetingGoesOn
<1>3. QED
  BY <1>1, <1>2 DEF Unbegun

\* One step per action.
THEOREM LInvStep == LInv /\ [Next]_vars => LInv'
<1> SUFFICES ASSUME LInv, [Next]_vars
             PROVE  LInv'
  OBVIOUS
<1> USE DEF session, bridge, browsers, checks, Activities, Builders, Agents
<1>0. EInv /\ EInv' /\ TypeOK /\ Fresh /\ TornDown /\ SignalsHeld
  BY EInvStep DEF LInv, EInv, IInv, Clear
<1> DEFINE Goal == Fresh' /\ TornDown' /\ SignalsHeld'
<1>1. ASSUME Start
      PROVE  Goal
  <2>1. Fresh'
    BY <1>0, <1>1 DEF Start, TypeOK, Fresh, Awaited, HasPage
  <2>2. TornDown' /\ SignalsHeld'
    BY <1>0, <1>1 DEF Start, TypeOK, TornDown, SignalsHeld, HasPage
  <2>3. QED
    BY <2>1, <2>2
<1>2. ASSUME NEW a \in Builders, Allocated(a) \/ AudioConfigured(a)
      PROVE  Goal
  <2>1. Fresh'
    BY <1>0, <1>2 DEF Allocated, AudioConfigured, BeginLaunch, TypeOK, Fresh, Awaited, HasPage
  <2>2. pc'["reconnect"] \notin {"teardown", "retry"} \/ a = "start"
    BY <1>0, <1>2 DEF Allocated, AudioConfigured, BeginLaunch, TypeOK
  <2>3. TornDown'
    <3>1. pc["reconnect"] \in {"teardown", "retry"} => a = "reconnect"
      BY <1>0, <1>2 DEF EInv, IInv, StartFirst, Allocated, AudioConfigured
    <3>2. a = "start" => pc'["reconnect"] = pc["reconnect"]
      BY <1>0, <1>2 DEF Allocated, AudioConfigured, BeginLaunch, TypeOK
    <3>3. QED
      BY <2>2, <3>1, <3>2 DEF TornDown
  <2>4. SignalsHeld'
    <3>1. held \subseteq held' /\ (pc[a] = "allocate" => "reservation" \in held')
      BY <1>0, <1>2 DEF Allocated, AudioConfigured, BeginLaunch
    <3>2. \A b \in Builders : b # a => pc'[b] = pc[b]
      BY <1>0, <1>2 DEF Allocated, AudioConfigured, BeginLaunch, TypeOK
    <3>3. UNCHANGED signalled
      BY <1>2 DEF Allocated, AudioConfigured
    <3>4. QED
      BY <1>0, <3>1, <3>2, <3>3 DEF SignalsHeld
  <2>5. QED
    BY <2>1, <2>3, <2>4
<1>3. ASSUME NEW a \in Builders, NEW ag \in Agents, Launched(a, ag)
      PROVE  Goal
  <2>1. /\ \A b \in Builders : pc'[b] = pc[b] \/ (pc[b] = "launch" /\ pc'[b] = "joinA")
        /\ pc'["start"] = "idle" <=> pc["start"] = "idle"
        /\ own' = own \ {ag} /\ ag \in own /\ pc[a] = "launch"
        /\ agent' = [agent EXCEPT ![ag] = "open"]
        /\ leaked' = IF HasPage(ag) THEN leaked \cup {ag} ELSE leaked
        /\ UNCHANGED <<stopped, held, signalled, outlived, tasks, interrupted>>
    BY <1>0, <1>3 DEF Launched, Refers, TypeOK
  <2>2. Fresh'
    <3>0. /\ pc'["start"] # "idle" /\ pc'["reconnect"] # "sleep"
          /\ \A b \in Builders : pc'[b] \notin {"allocate", "audio"}
      <4>1. /\ pc["start"] # "idle" /\ pc["reconnect"] # "sleep"
            /\ \A b \in Builders : pc[b] \notin {"allocate", "audio"}
        BY <1>0, <2>1 DEF EInv, IInv, StartFirst
      <4>2. QED
        BY <2>1, <4>1
    <3>1. ASSUME ~interrupted, NEW other \in Agents \ outlived, Awaited(other)'
          PROVE  Awaited(other) /\ other # ag
      BY <2>1, <3>0, <3>1 DEF Awaited
    <3>2. Awaited(ag)
      BY <2>1 DEF Awaited
    <3>3. ASSUME ~interrupted, NEW other \in Agents \ outlived
          PROVE  other \notin leaked' /\ (Awaited(other)' => ~HasPage(other)')
      BY <1>0, <2>1, <3>1, <3>2, <3>3 DEF TypeOK, Fresh, HasPage
    <3>4. QED
      BY <2>1, <3>3 DEF Fresh
  <2>3. pc["reconnect"] \notin {"teardown", "retry"}
    BY <1>0, <2>1 DEF EInv, IInv, StartFirst
  <2>4. TornDown' /\ SignalsHeld'
    BY <1>0, <2>1, <2>3 DEF TornDown, SignalsHeld
  <2>5. QED
    BY <2>2, <2>4
<1>4. ASSUME NEW a \in Builders, Clicked(a) \/ JoinedA(a) \/ JoinedB(a) \/ FailEnds(a)
      PROVE  Goal
  <2>1. /\ \A b \in Builders : pc'[b] = pc[b] \/ pc'[b] \in Joining \cup {"idle", "done"}
        /\ \A b \in Builders : pc[b] = "allocate" => pc'[b] = "allocate"
        /\ pc'["start"] # "idle"
        /\ UNCHANGED <<stopped, held, signalled, browsers, tasks, interrupted>>
    <3>1. /\ pc'[a] \in Joining \cup {"idle", "done"}
          /\ pc[a] # "allocate"
          /\ a = "start" => pc'[a] # "idle"
          /\ \A b \in Builders \ {a} : pc'[b] = pc[b]
          /\ UNCHANGED <<stopped, held, signalled, browsers, tasks, interrupted>>
      BY <1>0, <1>4 DEF Clicked, JoinedA, JoinedB, FailEnds, TypeOK, Joining
    <3>2. pc["start"] # "idle"
      BY <1>0, <1>4 DEF Clicked, JoinedA, JoinedB, FailEnds, EInv, IInv, StartFirst
    <3>3. QED
      BY <3>1, <3>2
  <2>2. Fresh'
    BY <1>0, <2>1 DEF Fresh, Awaited, HasPage, Joining
  <2>3. TornDown' /\ SignalsHeld'
    BY <1>0, <2>1 DEF TornDown, SignalsHeld, Joining, HasPage
  <2>4. QED
    BY <2>2, <2>3
<1>5. ASSUME NEW a \in Builders, StageFails(a)
      PROVE  Goal
  <2>1. PICK where \in {"failing", "retry"} : BeginTeardown(a, where)
    BY <1>5 DEF StageFails, FailSession
  <2>2. /\ pc'[a] = where
        /\ \A b \in Activities \ {a} : pc'[b] = pc[b] /\ tasks'[b] = tasks[b]
        /\ \A part \in held : part \in tasks'[a]
        /\ \A ag \in Agents : HasPage(ag) => ag \in tasks'[a]
    BY <1>0, <2>1, TeardownLists DEF Teardowns
  <2>3. /\ outlived \subseteq outlived' /\ own' = {}
        /\ UNCHANGED <<held, signalled, agent, leaked, interrupted>>
        /\ pc[a] = "allocate" => "reservation" \notin signalled
        /\ a = "start" => pc["reconnect"] = "idle"
        /\ stopped' \/ a = "reconnect"
    BY <1>0, <1>5 DEF StageFails, CatchHangs, FailSession, EInv, IInv, StartFirst
  <2>4. Fresh'
    BY <1>0, <2>1, <2>2, <2>3 DEF Fresh, Awaited, HasPage
  <2>5. TornDown'
    BY <2>2, <2>3 DEF TornDown, HasPage
  <2>6. SignalsHeld'
    BY <1>0, <2>2, <2>3 DEF SignalsHeld
  <2>7. QED
    BY <2>4, <2>5, <2>6
<1>6. ASSUME NextAttempt
      PROVE  Goal
  <2>1. /\ pc["reconnect"] \in {"teardown", "retry"} /\ tasks["reconnect"] = {}
        /\ pc["start"] = "done"
        /\ UNCHANGED <<held, signalled, browsers, interrupted>>
    BY <1>0, <1>6 DEF NextAttempt, EInv, IInv, StartFirst
  <2>2. /\ pc'["reconnect"] \in {"idle", "sleep", "failing"} /\ pc'["start"] = "done"
        /\ pc'["reconnect"] = "sleep" => ~stopped
    BY <1>0, <1>6, <2>1 DEF NextAttempt, FailSession, BeginTeardown, TypeOK
  <2>3. Fresh'
    <3>1. ASSUME ~stopped
          PROVE  \A ag \in Agents \ outlived : ~HasPage(ag)
      BY <1>0, <2>1, <3>1 DEF TornDown
    <3>2. QED
      BY <1>0, <2>1, <2>2, <3>1 DEF Fresh, Awaited, HasPage
  <2>4. TornDown'
    BY <2>2 DEF TornDown
  <2>5. SignalsHeld'
    BY <1>0, <2>1, <2>2 DEF SignalsHeld
  <2>6. QED
    BY <2>3, <2>4, <2>5
<1>7. ASSUME Wakes
      PROVE  Goal
  <2>1. /\ pc["reconnect"] = "sleep"
        /\ pc' = [pc EXCEPT !["reconnect"] = "allocate"]
        /\ UNCHANGED <<session, bridge, tasks, interrupted>>
    BY <1>7 DEF Wakes
  <2>2. pc'["reconnect"] = "allocate" /\ pc'["start"] = pc["start"]
    BY <1>0, <2>1 DEF TypeOK
  <2>3. Fresh'
    BY <1>0, <2>1, <2>2 DEF Fresh, Awaited, HasPage
  <2>4. TornDown' /\ SignalsHeld'
    BY <1>0, <2>1, <2>2 DEF TornDown, SignalsHeld
  <2>5. QED
    BY <2>3, <2>4
<1>8. ASSUME Stop, pc["start"] # "idle", UNCHANGED <<held, signalled, browsers>>
      PROVE  Goal
  <2>1. CASE stopped
    BY <1>0, <1>8, <2>1 DEF Stop, Fresh, Awaited, TornDown, SignalsHeld, HasPage
  <2>2. CASE ~stopped
    <3>1. /\ stopped'
          /\ pc' = [pc EXCEPT !["stop"] = "teardown"]
          /\ interrupted' = ~\A a \in Builders : AtRest(a)
      BY <1>8, <2>2 DEF Stop, BeginTeardown
    <3>2. pc'["start"] = pc["start"] /\ pc'["reconnect"] = pc["reconnect"]
      BY <1>0, <3>1 DEF TypeOK
    <3>3. ~interrupted
      BY <1>0, <2>2 DEF EInv, Underway
    <3>4. Fresh'
      BY <1>0, <1>8, <3>2, <3>3 DEF Fresh, Awaited, HasPage
    <3>5. TornDown'
      BY <3>1 DEF TornDown
    <3>6. SignalsHeld'
      BY <1>0, <1>8, <3>2 DEF SignalsHeld
    <3>7. QED
      BY <3>4, <3>5, <3>6
  <2>3. QED
    BY <2>1, <2>2
<1>9. ASSUME NEW a \in Activities, NEW part \in Parts, TaskDone(a, part)
      PROVE  Goal
  <2>1. /\ tasks'[a] = tasks[a] \ {part} /\ part \notin signalled
        /\ \A b \in Activities \ {a} : tasks'[b] = tasks[b]
        /\ held' = held \ {part}
        /\ \A ag \in Agents : agent'[ag] = IF ag = part THEN "absent" ELSE agent[ag]
        /\ UNCHANGED <<session, signalled, own, leaked, outlived, pc, interrupted>>
    BY <1>0, <1>9 DEF TaskDone, TypeOK
  <2>2. Fresh'
    BY <1>0, <2>1 DEF Fresh, Awaited, HasPage
  <2>3. TornDown'
    BY <1>0, <2>1 DEF TornDown, HasPage
  <2>4. SignalsHeld'
    BY <1>0, <2>1 DEF SignalsHeld
  <2>5. QED
    BY <2>2, <2>3, <2>4
<1>10. ASSUME NEW ag \in Agents, LateLaunch(ag)
       PROVE  Goal
  <2>1. /\ ag \in outlived
        /\ \A other \in Agents \ {ag} : /\ agent'[other] = agent[other]
                                        /\ other \in leaked' => other \in leaked
        /\ UNCHANGED <<stopped, held, signalled, own, outlived, pc, tasks, interrupted>>
    BY <1>0, <1>10 DEF LateLaunch, Refers, EInv, LateOutlives, TypeOK
  <2>2. Fresh' /\ TornDown' /\ SignalsHeld'
    BY <1>0, <2>1 DEF Fresh, Awaited, TornDown, SignalsHeld, HasPage
  <2>3. QED
    BY <2>2
<1>11. ASSUME NEW ag \in Agents, BrowserDies(ag)
       PROVE  Goal
  <2>1. /\ \A other \in Agents : HasPage(other)' => HasPage(other)
        /\ UNCHANGED <<stopped, held, signalled, own, leaked, outlived, pc, tasks, interrupted>>
    BY <1>0, <1>11 DEF BrowserDies, HasPage, PageOpen, TypeOK
  <2>2. Fresh' /\ TornDown' /\ SignalsHeld'
    BY <1>0, <2>1 DEF Fresh, Awaited, TornDown, SignalsHeld
  <2>3. QED
    BY <2>2
<1>12. ASSUME NEW part \in Media, SignalEnds(part)
       PROVE  Goal
  BY <1>0, <1>12 DEF SignalEnds, Fresh, Awaited, TornDown, SignalsHeld, HasPage
<1>13. ASSUME UNCHANGED <<stopped, held, signalled, browsers, tasks, pc, interrupted>>
       PROVE  Goal
  BY <1>0, <1>13 DEF Fresh, Awaited, TornDown, SignalsHeld, HasPage
<1>14. ASSUME ReconnectRequested, pc["start"] = "done",
              UNCHANGED <<stopped, held, signalled, browsers, interrupted>>
       PROVE  Goal
  <2>1. CASE UNCHANGED <<tasks, pc>>
    BY <1>13, <1>14, <2>1
  <2>2. CASE BeginTeardown("reconnect", "teardown") /\ pc["reconnect"] = "idle"
    <3>1. /\ pc'["reconnect"] = "teardown" /\ pc'["start"] = "done"
          /\ \A part \in held : part \in tasks'["reconnect"]
          /\ \A ag \in Agents : HasPage(ag) => ag \in tasks'["reconnect"]
      BY <1>0, <1>14, <2>2, TeardownLists DEF Teardowns
    <3>2. Fresh'
      BY <1>0, <1>14, <3>1 DEF Fresh, Awaited, HasPage
    <3>3. TornDown' /\ SignalsHeld'
      BY <1>0, <1>14, <2>2, <3>1 DEF TornDown, SignalsHeld, HasPage
    <3>4. QED
      BY <3>2, <3>3
  <2>3. QED
    BY <1>14, <2>1, <2>2 DEF ReconnectRequested
<1>15. ASSUME NEW t \in Ticks, TickFires(t) \/ Tick(t)
       PROVE  Goal
  <2>1. pc["start"] = "done"
    BY <1>0, <1>15 DEF TickFires, Tick, AudioUnhealthy, AudioHealthy, Moved, MoveRejected,
                       MeetingEnded, MeetingGoesOn, EInv, IInv, StartFirst
  <2>2. CASE MeetingEnded(t)
    BY <1>8, <2>1, <2>2 DEF MeetingEnded
  <2>3. CASE Moved(t) \/ MoveRejected(t) \/ MeetingGoesOn(t)
    BY <1>13, <2>3 DEF Moved, MoveRejected, MeetingGoesOn
  <2>4. CASE AudioUnhealthy(t) \/ AudioHealthy(t) \/ TickFires(t)
    <3>1. UNCHANGED <<stopped, held, signalled, browsers, interrupted>>
      BY <2>4 DEF AudioUnhealthy, AudioHealthy, TickFires
    <3>2. ReconnectRequested \/ UNCHANGED <<tasks, pc>>
      BY <2>4 DEF AudioUnhealthy, AudioHealthy, TickFires, TickGoesOn
    <3>3. QED
      BY <1>13, <1>14, <2>1, <3>1, <3>2
  <2>5. QED
    BY <1>15, <2>2, <2>3, <2>4 DEF Tick
<1>16. Goal
  <2>1. CASE UNCHANGED vars
    BY <1>13, <2>1 DEF vars
  <2>2. ASSUME NEW a \in Builders, Build(a) \/ FailEnds(a)
        PROVE  Goal
    BY <1>2, <1>3, <1>4, <1>5, <2>2 DEF Build
  <2>3. StopCalled => Goal
    BY <1>8 DEF StopCalled
  <2>4. StopEnds => Goal
    <3>1. StopEnds => /\ pc'["start"] = pc["start"] /\ pc'["reconnect"] = pc["reconnect"]
                      /\ UNCHANGED <<stopped, bridge, tasks, interrupted>>
      BY <1>0 DEF StopEnds, TypeOK
    <3>2. QED
      BY <1>0, <3>1 DEF Fresh, Awaited, TornDown, SignalsHeld, HasPage
  <2>5. ASSUME NEW a \in Activities, Teardown(a)
        PROVE  Goal
    BY <1>9, <2>5 DEF Teardown
  <2>6. QED
    BY <1>1, <1>6, <1>7, <1>10, <1>11, <1>12, <1>15, <2>1, <2>2, <2>3, <2>4, <2>5 DEF Next
<1>17. Unbegun'
  BY UnbegunStep DEF LInv, EInv, IInv, Clear
<1>18. QED
  BY <1>0, <1>16, <1>17 DEF LInv, Clear

\* A task not done keeps its teardown going, so at the end every part is gone.
LEMMA EndIsClean == LInv => CleanEnd
<1> SUFFICES ASSUME LInv, AllEnded, ~interrupted
             PROVE  /\ held = {}
                    /\ ~monitor
                    /\ \A ag \in Agents \ outlived : agent[ag] = "absent" /\ ag \notin leaked
  BY DEF CleanEnd
<1>1. \A part : ~Doomed(part)
  BY DEF LInv, EInv, TasksInTeardown, AllEnded, AtRest, Teardowns, Doomed
<1>2. QED
  BY <1>1 DEF LInv, Clear, Fresh, EInv, Ending, AllEnded, HasPage

\* When all is over and no stop() came while start() or a reconnect worked, no
\* display, sound module, ffmpeg or monitor is left, whatever failed on the way,
\* and no browser but of an agent a launch of which outlived its attempt.
THEOREM EndsClean == Spec => []CleanEnd
BY EndIsClean, LInvInit, LInvStep, PTL DEF Spec

\* No builder, loop or stop() is left to change a final status.
LEMMA TerminalStaysStep ==
  ASSUME EInv, [Next]_vars, ~interrupted, status \in Terminal
  PROVE  status' = status
<1>1. /\ stopped
      /\ pc["start"] \in {"done", "failing"}
      /\ pc["reconnect"] \in {"idle", "done", "failing"}
      /\ pc["stop"] # "teardown"
  BY DEF EInv, Underway, Ending, Terminal
<1>2. ~Start /\ ~NextAttempt /\ ~StopEnds /\ ~StopCalled
  BY <1>1 DEF Start, NextAttempt, StopEnds, StopCalled
<1>3. ASSUME NEW a \in Builders, Build(a)
      PROVE  FALSE
  BY <1>1, <1>3 DEF Build, Allocated, AudioConfigured, Clicked, JoinedA, JoinedB, StageFails,
                    Launched, Builders
<1>4. ASSUME NEW t \in Ticks, TickFires(t) \/ Tick(t)
      PROVE  status' = status
  BY <1>1, <1>4
     DEF TickFires, Tick, AudioUnhealthy, AudioHealthy, TickGoesOn, ReconnectRequested, Moved,
         MoveRejected, MeetingEnded, MeetingGoesOn, Stop, session
<1>5. ASSUME \/ Wakes
             \/ \E a \in Builders : FailEnds(a)
             \/ \E a \in Activities : Teardown(a)
             \/ \E ag \in Agents : LateLaunch(ag) \/ BrowserDies(ag)
             \/ \E part \in Media : SignalEnds(part)
             \/ UNCHANGED vars
      PROVE  status' = status
  BY <1>5 DEF SignalEnds, Wakes, FailEnds, Teardown, TaskDone, LateLaunch, BrowserDies, session, vars
<1>6. QED
  BY <1>2, <1>3, <1>4, <1>5 DEF Next

\* FAILED and TERMINATED are final, unless stop() came while start() or a
\* reconnect worked.
THEOREM TerminalFinal == Spec => TerminalStays
<1>1. EInv /\ [Next]_vars =>
        [~interrupted /\ status \in Terminal => status' = status]_status
  BY TerminalStaysStep
<1>2. QED
  BY <1>1, EInvInit, EInvStep, PTL DEF Spec, TerminalStays

-----------------------------------------------------------------------------
(* The session keeps the lifecycle it promises                             *)

\* Where the two builders are tells what the session is.
LEMMA PhaseIs ==
  ASSUME EInv, up
  PROVE  /\ stopped => Phase = "over" /\ Tries = 0
         /\ ~stopped =>
              /\ Tries = attempt
              /\ Phase = IF pc["start"] = "idle" THEN "created"
                         ELSE IF Quiet THEN "live"
                         ELSE IF pc["reconnect"] = "idle" THEN "connecting"
                         ELSE "reconnecting"
<1>1. stopped => Phase = "over" /\ Tries = 0
  BY DEF Phase, Tries
<1>2. ASSUME ~stopped
      PROVE  /\ pc["start"] = "idle" <=> status = "CREATED"
             /\ Quiet <=> status = "BRIDGING"
             /\ pc["reconnect"] # "done"
  BY <1>2 DEF EInv, IInv, Underway, QuietIsLive, StopReasons
<1>3. QED
  BY <1>1, <1>2 DEF Phase, Tries, AtRest

\* The same after a step.
LEMMA PhaseWillBe ==
  ASSUME EInv', up'
  PROVE  /\ stopped' => Phase' = "over" /\ Tries' = 0
         /\ ~stopped' =>
              /\ Tries' = attempt'
              /\ Phase' = IF pc'["start"] = "idle" THEN "created"
                          ELSE IF Quiet' THEN "live"
                          ELSE IF pc'["reconnect"] = "idle" THEN "connecting"
                          ELSE "reconnecting"
<1>1. stopped' => Phase' = "over" /\ Tries' = 0
  BY DEF Phase, Tries
<1>2. ASSUME ~stopped'
      PROVE  /\ pc'["start"] = "idle" <=> status' = "CREATED"
             /\ Quiet' <=> status' = "BRIDGING"
             /\ pc'["reconnect"] # "done"
  BY <1>2 DEF EInv, IInv, Underway, QuietIsLive, StopReasons
<1>3. QED
  BY <1>1, <1>2 DEF Phase, Tries, AtRest

\* A step inside a phase.
LEMMA PhaseStays ==
  ASSUME EInv, EInv', up, up', UNCHANGED <<stopped, notified, signalled>>,
         ~stopped => /\ attempt' = attempt
                     /\ pc'["start"] = "idle" <=> pc["start"] = "idle"
                     /\ pc'["start"] = "done" <=> pc["start"] = "done"
                     /\ pc'["reconnect"] = "idle" <=> pc["reconnect"] = "idle"
  PROVE  UNCHANGED Lifecycle!vars
<1>1. Phase' = Phase /\ Tries' = Tries
  <2>1. CASE stopped
    BY <2>1, PhaseIs, PhaseWillBe
  <2>2. CASE ~stopped
    <3>1. Quiet' <=> Quiet
      BY <2>2 DEF Quiet
    <3>2. QED
      BY <2>2, <3>1, PhaseIs, PhaseWillBe
  <2>3. QED
    BY <2>1, <2>2
<1>2. QED
  BY <1>1 DEF Lifecycle!vars

\* A session that is over reports its end, or has done so.
LEMMA OverReports ==
  ASSUME EInv, EInv', up, up', stopped, stopped', NEW st \in Terminal, UpdateStatus(st),
         UNCHANGED signalled
  PROVE  Lifecycle!Report \/ UNCHANGED Lifecycle!vars
<1>1. Phase = "over" /\ Tries = 0 /\ Phase' = "over" /\ Tries' = 0
  BY PhaseIs, PhaseWillBe
<1>2. notified' = IF notified = "none" THEN st ELSE notified
  BY DEF UpdateStatus
<1>3. CASE notified = "none"
  BY <1>1, <1>2, <1>3 DEF Lifecycle!Report, Terminal
<1>4. CASE notified # "none"
  BY <1>1, <1>2, <1>4 DEF Lifecycle!vars
<1>5. QED
  BY <1>3, <1>4

\* A new session is created, with no attempt and no report.
THEOREM InitKeeps == Init => Lifecycle!Init
BY DEF Init, Lifecycle!Init, Phase, Tries

\* stop(): an end from every phase after the first.
LEMMA StopKeeps ==
  ASSUME EInv, EInv', up, up', Stop, pc["start"] # "idle", UNCHANGED <<signalled, attempt>>
  PROVE  Lifecycle!Stop \/ UNCHANGED Lifecycle!vars
<1>1. CASE stopped
  BY <1>1, PhaseStays DEF Stop, session
<1>2. CASE ~stopped
  <2>1. stopped' /\ UNCHANGED notified
    BY <1>2 DEF Stop, UpdateStatus, Terminal
  <2>2. Phase \in {"connecting", "live", "reconnecting"}
    BY <1>2, PhaseIs
  <2>3. Phase' = "over" /\ Tries' = 0
    BY <2>1, PhaseWillBe
  <2>4. QED
    BY <2>1, <2>2, <2>3 DEF Lifecycle!Stop, Lifecycle!Move
<1>3. QED
  BY <1>1, <1>2

\* A request of a health check that is listened to breaks a live bridge.
LEMMA ReconnectRequestedKeeps ==
  ASSUME EInv, EInv', up, up', ReconnectRequested, pc["start"] = "done",
         UNCHANGED <<stopped, signalled, attempt>>
  PROVE  Lifecycle!Break \/ UNCHANGED Lifecycle!vars
<1>1. CASE UNCHANGED <<status, notified, monitor, tasks, pc>>
  BY <1>1, PhaseStays
<1>2. CASE /\ ~stopped /\ pc["reconnect"] = "idle"
           /\ UpdateStatus("RECONNECTING")
           /\ BeginTeardown("reconnect", "teardown")
  <2>1. Quiet /\ Phase = "live" /\ Tries = attempt
    BY <1>2, PhaseIs DEF Quiet
  <2>2. pc'["start"] = "done" /\ pc'["reconnect"] = "teardown" /\ UNCHANGED notified
    BY <1>2 DEF EInv, IInv, TypeOK, BeginTeardown, UpdateStatus, Terminal, Activities
  <2>3. Phase' = "reconnecting" /\ Tries' = attempt
    BY <1>2, <2>2, PhaseWillBe DEF Quiet
  <2>4. QED
    BY <2>1, <2>2, <2>3 DEF Lifecycle!Break, Lifecycle!Move
<1>3. QED
  BY <1>1, <1>2 DEF ReconnectRequested

\* The rest of a health check breaks the bridge or changes no phase.
LEMMA TickGoesOnKeeps ==
  ASSUME EInv, EInv', up, up', NEW t \in Ticks, TickGoesOn(t), pc["start"] = "done",
         UNCHANGED <<stopped, signalled, attempt>>
  PROVE  Lifecycle!Break \/ UNCHANGED Lifecycle!vars
<1>1. CASE ReconnectRequested
  BY <1>1, ReconnectRequestedKeeps
<1>2. CASE UNCHANGED <<status, notified, monitor, tasks, pc>>
  BY <1>2, PhaseStays
<1>3. QED
  BY <1>1, <1>2 DEF TickGoesOn

\* failSession(): the first connect fails, or the last attempt of a reconnect.
LEMMA FailSessionKeeps ==
  ASSUME EInv, EInv', up, up', NEW a \in Builders, FailSession(a),
         pc[a] \notin {"idle", "done", "failing"},
         a = "reconnect" => attempt = MaxAttempts /\ (stopped \/ signalled = {}),
         UNCHANGED signalled
  PROVE  \/ Lifecycle!ConnectFails \/ Lifecycle!GiveUp \/ Lifecycle!Report
         \/ UNCHANGED Lifecycle!vars
<1>1. stopped' /\ UpdateStatus("FAILED")
  BY DEF FailSession
<1>2. CASE stopped
  BY <1>1, <1>2, OverReports DEF Terminal
<1>3. CASE ~stopped
  <2>1. Phase' = "over" /\ Tries' = 0 /\ notified' = "FAILED"
    BY <1>1, <1>3, PhaseWillBe DEF UpdateStatus, EInv, Underway, Terminal
  <2>2. CASE a = "start"
    <3>1. pc["start"] \notin {"idle", "done"} /\ pc["reconnect"] = "idle" /\ attempt = 0
      BY <2>2 DEF EInv, IInv, StartFirst, CounterReset
    <3>2. Phase = "connecting" /\ Tries = 0
      BY <1>3, <3>1, PhaseIs DEF Quiet
    <3>3. QED
      BY <2>1, <3>2 DEF Lifecycle!ConnectFails, Lifecycle!Move
  <2>3. CASE a = "reconnect"
    <3>1. pc["start"] = "done" /\ pc["reconnect"] # "idle"
      BY <2>3 DEF EInv, IInv, StartFirst
    <3>2. Phase = "reconnecting" /\ Tries = MaxAttempts /\ signalled = {}
      BY <1>3, <2>3, <3>1, PhaseIs DEF Quiet
    <3>3. QED
      BY <2>1, <3>2 DEF Lifecycle!GiveUp, Lifecycle!Move
  <2>4. QED
    BY <2>2, <2>3 DEF Builders
<1>4. QED
  BY <1>2, <1>3

\* start() begins the session.
LEMMA StartKeeps ==
  ASSUME EInv, EInv', up, up', Start
  PROVE  Lifecycle!Begin \/ UNCHANGED Lifecycle!vars
<1>1. /\ pc["start"] = "idle" /\ pc["reconnect"] = "idle" /\ attempt = 0
      /\ pc'["start"] = "allocate" /\ pc'["reconnect"] = "idle" /\ attempt' = 0
      /\ UNCHANGED <<stopped, notified, signalled>>
  BY DEF Start, bridge, UpdateStatus, Terminal, EInv, IInv, TypeOK, StartFirst, CounterReset, Activities
<1>2. CASE stopped
  BY <1>1, <1>2, PhaseStays
<1>3. CASE ~stopped
  <2>1. Phase = "created" /\ Tries = 0 /\ Phase' = "connecting" /\ Tries' = 0
    BY <1>1, <1>3, PhaseIs, PhaseWillBe DEF Quiet
  <2>2. QED
    BY <1>1, <2>1 DEF Lifecycle!Begin, Lifecycle!Move
<1>4. QED
  BY <1>2, <1>3

\* Inside establishBridge(), except for its end, nothing is promised.
LEMMA BuildingKeeps ==
  ASSUME EInv, EInv', up, up', NEW a \in Builders,
         \/ Allocated(a) \/ AudioConfigured(a) \/ Clicked(a) \/ JoinedA(a)
         \/ \E ag \in Agents : Launched(a, ag)
  PROVE  UNCHANGED Lifecycle!vars
<1>1. /\ \A b \in Builders \ {a} : pc'[b] = pc[b]
      /\ pc[a] \in Stages /\ pc'[a] \in Stages
      /\ UNCHANGED <<stopped, notified, signalled, attempt>>
  BY DEF Allocated, AudioConfigured, BeginLaunch, Clicked, JoinedA, Launched, UpdateStatus,
         Terminal, session, bridge, EInv, IInv, TypeOK, Stages, Activities, Builders
<1>2. /\ pc'["start"] = "idle" <=> pc["start"] = "idle"
      /\ pc'["start"] = "done" <=> pc["start"] = "done"
      /\ pc'["reconnect"] = "idle" <=> pc["reconnect"] = "idle"
  BY <1>1 DEF Builders, Stages
<1>3. QED
  BY <1>1, <1>2, PhaseStays

\* The end of establishBridge().
LEMMA JoinedBKeeps ==
  ASSUME EInv, EInv', up, up', NEW a \in Builders, JoinedB(a)
  PROVE  Lifecycle!Connected \/ Lifecycle!Reconnected \/ UNCHANGED Lifecycle!vars
<1>1. /\ pc[a] = "settleB" /\ attempt' = 0
      /\ UNCHANGED <<stopped, notified, signalled>>
  BY DEF JoinedB, UpdateStatus, Terminal
<1>2. CASE stopped
  BY <1>1, <1>2, PhaseStays
<1>3. CASE ~stopped
  <2>1. pc'["start"] = "done" /\ pc'["reconnect"] = "idle"
    BY <1>1 DEF JoinedB, EInv, IInv, TypeOK, StartFirst, Activities, Builders
  <2>2. Phase' = "live" /\ Tries' = 0
    BY <1>1, <1>3, <2>1, PhaseWillBe DEF Quiet
  <2>3. CASE a = "start"
    <3>1. pc["reconnect"] = "idle" /\ attempt = 0
      BY <1>1, <2>3 DEF EInv, IInv, StartFirst, CounterReset
    <3>2. Phase = "connecting" /\ Tries = 0
      BY <1>1, <1>3, <2>3, <3>1, PhaseIs DEF Quiet
    <3>3. QED
      BY <1>1, <2>2, <3>2 DEF Lifecycle!Connected, Lifecycle!Move
  <2>4. CASE a = "reconnect"
    <3>1. pc["start"] = "done" /\ attempt > 0
      BY <1>1, <2>4 DEF EInv, IInv, StartFirst, Underway, Stages
    <3>2. Phase = "reconnecting" /\ Tries > 0
      BY <1>1, <1>3, <2>4, <3>1, PhaseIs DEF Quiet
    <3>3. QED
      BY <1>1, <2>2, <3>2 DEF Lifecycle!Reconnected, Lifecycle!Move
  <2>5. QED
    BY <2>3, <2>4 DEF Builders
<1>4. QED
  BY <1>2, <1>3

\* A stage that fails ends the session of start(), and only an attempt of a
\* reconnect.
LEMMA StageFailsKeeps ==
  ASSUME EInv, EInv', up, up', NEW a \in Builders, StageFails(a)
  PROVE  \/ Lifecycle!ConnectFails \/ Lifecycle!GiveUp \/ Lifecycle!Report
         \/ UNCHANGED Lifecycle!vars
<1>1. pc[a] \notin {"idle", "done", "failing"} /\ UNCHANGED <<signalled, attempt>>
  BY DEF StageFails
<1>2. CASE a = "start"
  BY <1>1, <1>2, FailSessionKeeps DEF StageFails
<1>3. CASE a = "reconnect"
  <2>1. /\ pc'["reconnect"] = "retry" /\ pc'["start"] = pc["start"]
        /\ UNCHANGED <<stopped, notified>>
    BY <1>3 DEF StageFails, BeginTeardown, session, EInv, IInv, TypeOK, Activities
  <2>2. QED
    BY <1>1, <1>3, <2>1, PhaseStays
<1>4. QED
  BY <1>2, <1>3 DEF Builders

\* The head of the reconnect loop: the teardown before it is done, so nothing is
\* left that somebody could have ended.
LEMMA NextAttemptKeeps ==
  ASSUME LInv, EInv', up, up', NextAttempt
  PROVE  \/ Lifecycle!ConnectFails \/ Lifecycle!GiveUp \/ Lifecycle!Report
         \/ Lifecycle!Try \/ UNCHANGED Lifecycle!vars
<1> USE DEF LInv
<1>1. /\ pc["reconnect"] \in {"teardown", "retry"} /\ pc["start"] = "done"
      /\ UNCHANGED signalled
  BY DEF NextAttempt, EInv, IInv, StartFirst
<1>0. stopped \/ signalled = {}
  BY <1>1 DEF Clear, TornDown, SignalsHeld, NextAttempt, Builders
<1>2. CASE pc["reconnect"] = "retry" /\ attempt = MaxAttempts
  <2>1. FailSession("reconnect") /\ "reconnect" \in Builders
    BY <1>2 DEF NextAttempt, Builders
  <2>2. QED
    BY <1>0, <1>1, <1>2, <2>1, FailSessionKeeps
<1>3. CASE ~(pc["reconnect"] = "retry" /\ attempt = MaxAttempts)
  <2>1. /\ UNCHANGED <<stopped, notified>>
        /\ ~stopped => /\ pc' = [pc EXCEPT !["reconnect"] = "sleep"]
                       /\ attempt' = attempt + 1
    BY <1>3 DEF NextAttempt, session
  <2>2. CASE stopped
    BY <1>1, <2>1, <2>2, PhaseStays
  <2>3. CASE ~stopped
    <3>1. attempt \in Nat /\ attempt < MaxAttempts
      BY <1>1, <1>3, MaxAttemptsAssumption DEF EInv, IInv, TypeOK, CounterReset
    <3>2. pc'["reconnect"] = "sleep" /\ pc'["start"] = "done"
      BY <1>1, <2>1, <2>3 DEF EInv, IInv, TypeOK, Activities
    <3>3. Phase = "reconnecting" /\ Tries = attempt
      BY <1>1, <2>3, PhaseIs DEF Quiet
    <3>4. Phase' = "reconnecting" /\ Tries' = attempt + 1
      BY <2>1, <2>3, <3>2, PhaseWillBe DEF Quiet
    <3>5. QED
      BY <1>0, <1>1, <2>1, <2>3, <3>1, <3>3, <3>4 DEF Lifecycle!Try, Lifecycle!Move
  <2>4. QED
    BY <2>2, <2>3
<1>4. QED
  BY <1>2, <1>3

\* Steps that the lifecycle does not see.
LEMMA OthersKeep ==
  ASSUME EInv, EInv', up, up',
         \/ Wakes
         \/ \E a \in Builders : FailEnds(a)
         \/ \E a \in Activities : Teardown(a)
         \/ \E ag \in Agents : LateLaunch(ag) \/ BrowserDies(ag)
         \/ \E t \in Ticks : Moved(t) \/ MeetingGoesOn(t)
  PROVE  UNCHANGED Lifecycle!vars
<1>1. UNCHANGED <<stopped, notified, signalled, attempt>>
  BY DEF Wakes, FailEnds, Teardown, TaskDone, LateLaunch, BrowserDies, Moved, MeetingGoesOn,
         session, bridge
<1>2. ASSUME NEW a \in Builders, FailEnds(a)
      PROVE  stopped
  BY <1>2 DEF FailEnds, EInv, IInv, StopReasons, Builders
<1>3. CASE Wakes
  BY <1>1, <1>3, PhaseStays DEF Wakes, EInv, IInv, TypeOK, Activities
<1>4. CASE UNCHANGED pc
  BY <1>1, <1>4, PhaseStays
<1>5. QED
  BY <1>1, <1>2, <1>3, <1>4, PhaseStays
     DEF Teardown, TaskDone, LateLaunch, BrowserDies, Moved, MeetingGoesOn

\* The first foreign signal cuts the session off.
LEMMA SignalKeeps ==
  ASSUME LInv, EInv', up, up', NEW part \in Media, SignalEnds(part)
  PROVE  Lifecycle!CutOff \/ UNCHANGED Lifecycle!vars
<1> USE DEF LInv
<1>1. /\ signalled' = signalled \cup {part}
      /\ UNCHANGED <<status, stopped, notified, pc, attempt, up>>
  BY DEF SignalEnds, session
<1>2. Phase' = Phase /\ Tries' = Tries
  BY <1>1 DEF Phase, Tries, AtRest
<1>3. CASE signalled # {}
  BY <1>1, <1>2, <1>3 DEF Lifecycle!vars
<1>4. CASE signalled = {}
  <2>1. pc["start"] # "idle"
    BY DEF SignalEnds, EInv, IInv, StartFirst, Clear, Unbegun, Builders
  <2>2. Phase \notin {"created", "lost"}
    BY <2>1, PhaseIs
  <2>3. QED
    BY <1>1, <1>2, <1>4, <2>2 DEF Lifecycle!CutOff
<1>5. QED
  BY <1>3, <1>4

\* Each action is a step of the state machine or changes nothing of it.
THEOREM StepKeeps ==
  ASSUME LInv, [Next]_vars
  PROVE  [Lifecycle!Next]_(Lifecycle!vars)
<1> DEFINE Goal == Lifecycle!Next \/ UNCHANGED Lifecycle!vars
<1> USE DEF LInv
<1>1. EInv'
  BY EInvStep
<1>2. CASE UNCHANGED vars
  BY <1>2 DEF vars, session, bridge, Lifecycle!vars, Phase, Tries, AtRest
<1>3. CASE Next /\ up'
  <2>1. up /\ up'
    BY <1>3 DEF Next
  <2>2. Start => Goal
    BY <1>1, <2>1, StartKeeps DEF Lifecycle!Next
  <2>3. ASSUME NEW a \in Builders, Build(a)
        PROVE  Goal
    BY <1>1, <2>1, <2>3, BuildingKeeps, JoinedBKeeps, StageFailsKeeps DEF Build, Lifecycle!Next
  <2>4. NextAttempt => Goal
    BY <1>1, <2>1, NextAttemptKeeps DEF Lifecycle!Next
  <2>5. StopCalled => Goal
    BY <1>1, <2>1, StopKeeps DEF StopCalled, Lifecycle!Next, browsers
  <2>6. StopEnds => Goal
    <3>1. StopEnds => /\ stopped /\ stopped' /\ UNCHANGED signalled
                      /\ UpdateStatus("TERMINATED") /\ "TERMINATED" \in Terminal
      BY DEF StopEnds, bridge, EInv, IInv, StopReasons, Terminal
    <3>2. QED
      BY <1>1, <2>1, <3>1, OverReports DEF Lifecycle!Next
  <2>7. ASSUME NEW t \in Ticks, TickFires(t) \/ Tick(t)
        PROVE  Goal
    <3>1. pc["start"] = "done"
      BY <2>7 DEF TickFires, Tick, AudioUnhealthy, AudioHealthy, Moved, MoveRejected,
                  MeetingEnded, MeetingGoesOn, EInv, IInv, StartFirst
    <3>2. CASE TickFires(t)
      <4>1. CASE UNCHANGED <<status, notified, monitor, tasks, pc>>
        BY <1>1, <2>1, <3>2, <4>1, PhaseStays DEF TickFires
      <4>2. QED
        BY <1>1, <2>1, <3>1, <3>2, <4>1, TickGoesOnKeeps, ReconnectRequestedKeeps
           DEF TickFires, Lifecycle!Next
    <3>3. CASE AudioUnhealthy(t) \/ AudioHealthy(t)
      BY <1>1, <2>1, <3>1, <3>3, TickGoesOnKeeps, ReconnectRequestedKeeps
         DEF AudioUnhealthy, AudioHealthy, Lifecycle!Next
    <3>4. CASE MeetingEnded(t)
      BY <1>1, <2>1, <3>1, <3>4, StopKeeps DEF MeetingEnded, Lifecycle!Next
    <3>5. CASE Moved(t) \/ MeetingGoesOn(t)
      BY <1>1, <2>1, <3>5, OthersKeep
    <3>6. ~MoveRejected(t)
      BY <2>1 DEF MoveRejected
    <3>7. QED
      BY <2>7, <3>2, <3>3, <3>4, <3>5, <3>6 DEF Tick
  <2>8. ASSUME NEW part \in Media, SignalEnds(part)
        PROVE  Goal
    BY <1>1, <2>1, <2>8, SignalKeeps DEF Lifecycle!Next
  <2>9. QED
    BY <1>1, <1>3, <2>1, <2>2, <2>3, <2>4, <2>5, <2>6, <2>7, <2>8, OthersKeep DEF Next
<1>4. CASE Next /\ ~up'
  <2>1. PICK t \in Ticks : MoveRejected(t)
    <3>1. up
      BY <1>4 DEF Next
    <3>2. QED
      BY <1>4, <3>1
         DEF Next, Start, Build, Allocated, AudioConfigured, Clicked, JoinedA, JoinedB, StageFails,
             Launched, FailEnds, NextAttempt, Wakes, StopCalled, StopEnds, Teardown, TaskDone,
             LateLaunch, BrowserDies, TickFires, Tick, AudioUnhealthy, AudioHealthy, Moved,
             MeetingEnded, MeetingGoesOn, SignalEnds
  <2>2. UNCHANGED <<notified, signalled>> /\ up
    BY <1>4, <2>1 DEF MoveRejected, Next, session, bridge
  <2>3. Phase # "lost"
    BY <2>2, PhaseIs
  <2>4. Phase' = "lost" /\ Tries' = 0
    BY <1>4 DEF Phase, Tries
  <2>5. QED
    BY <2>2, <2>3, <2>4 DEF Lifecycle!Lose, Lifecycle!Next
<1>5. QED
  BY <1>2, <1>3, <1>4

\* start(), the reconnect loop, stop() and the overlapping health checks do
\* together only what SessionLifecycle allows: no attempt past MaxAttempts, none
\* on a bridge that could not be cleared away, no giving up before the last one,
\* no way back from the end, and one report of it.  (Its fairness is checked by
\* TLC.)
THEOREM KeepsLifecycleSafe == Spec => Lifecycle!Safe
<1>1. Init => Lifecycle!Init
  BY InitKeeps
<1>2. LInv /\ [Next]_vars => [Lifecycle!Next]_(Lifecycle!vars)
  BY StepKeeps
<1>3. QED
  BY <1>1, <1>2, LInvInit, LInvStep, PTL DEF Spec, Lifecycle!Safe
=============================================================================
