------------------------------ MODULE PoolProofs ------------------------------
(***************************************************************************)
(* Theorems about SessionOnPool, for any number of neighbours, any pool,   *)
(* any number of attempts and of overlapping health checks.  What          *)
(* OrchestratorProofs shows of a session and ResourceProofs of the pool    *)
(* is used here: each is the other's environment.                          *)
(***************************************************************************)
EXTENDS SessionOnPool, TLAPS

S == INSTANCE OrchestratorProofs
P == INSTANCE ResourceProofs WITH
  Sessions <- Others \cup {Own}, Callers <- Session!Activities,
  WithVideo <- IF EnableVideo THEN Others \cup {Own} ELSE {}

-----------------------------------------------------------------------------
(* The inductive invariant                                                 *)

\* Somebody's teardown lists the displays.
Listed == \E a \in Session!Activities : "reservation" \in tasks[a]

\* Before allocate() is called, and while it runs, the session has no displays
\* to release.
Fresh ==
  pc["start"] \in {"idle", "allocate"} \/ pc["reconnect"] \in {"sleep", "allocate"}
    => "reservation" \notin held /\ ~Listed

\* allocate() is under way only for a builder that awaits it.
AllocateAwaited ==
  alloc[Own] # "idle" \/ rel[Own][Pool!Undo] # 0
    => \E a \in Session!Builders : pc[a] = "allocate"

\* A teardown lists the displays as long as its release() runs, and has called
\* it when it lists them.
ReleaseAwaited ==
  \A a \in Session!Activities :
    /\ rel[Own][a] # 0 => "reservation" \in tasks[a]
    /\ "reservation" \in tasks[a] /\ rel[Own][a] = 0 => Own \notin reservations

\* What the session holds is what the pool has reserved for it, but while a
\* teardown gives it back.
HeldIsReserved ==
  /\ Own \in reservations => "reservation" \in held
  /\ "reservation" \in held => Own \in reservations \/ Listed

\* The teardown between two attempts gives back what was held.
GivenBack ==
  ~stopped /\ pc["reconnect"] \in {"teardown", "retry"} /\ "reservation" \in held
    => "reservation" \in tasks["reconnect"]

\* Only an interrupted session releases its displays from two places at once,
\* and the first to end drops the reservation under the other.
OneTeardown ==
  ~interrupted =>
    /\ \A a, b \in Session!Activities :
         "reservation" \in tasks[a] /\ "reservation" \in tasks[b] => a = b
    /\ \A a \in Session!Activities : rel[Own][a] # 0 => Own \in reservations

Linked ==
  /\ Fresh /\ AllocateAwaited /\ ReleaseAwaited /\ HeldIsReserved
  /\ GivenBack /\ OneTeardown

\* The neighbours call release() from one place.
NeighboursReleaseOnce ==
  \A s \in Others, a \in Session!Activities :
    rel[s][a] # 0 => a = "stop" /\ s \in reservations

\* As long as the session is not interrupted, its displays are its own.
PoolKept == ~interrupted => P!ReapedInv

PoolInv == S!LInv /\ P!TypeInv /\ Linked /\ NeighboursReleaseOnce /\ PoolKept

-----------------------------------------------------------------------------
(* The instances that hold the theorems are those of SessionOnPool         *)

\* The orchestrator of OrchestratorProofs is the one here.
LEMMA SameSession ==
  /\ Session!Init <=> S!Init
  /\ Session!Next <=> S!Next
  /\ Session!vars = S!vars
BY Zenon
     DEF Session!Next, S!Next, Session!vars, S!vars, Session!Init, S!Init,
         Session!Start, S!Start, Session!Builders, S!Builders, Session!Build, S!Build,
         Session!FailEnds, S!FailEnds, Session!NextAttempt, S!NextAttempt,
         Session!Wakes, S!Wakes, Session!StopCalled, S!StopCalled, Session!StopEnds,
         S!StopEnds, Session!Activities, S!Activities, Session!Teardown, S!Teardown,
         Session!Agents, S!Agents, Session!LateLaunch, S!LateLaunch,
         Session!BrowserDies, S!BrowserDies, Session!TickFires, S!TickFires,
         Session!Tick, S!Tick, Session!UpdateStatus, S!UpdateStatus, Session!bridge,
         S!bridge, Session!checks, S!checks, Session!Allocated, S!Allocated,
         Session!AudioConfigured, S!AudioConfigured, Session!Clicked, S!Clicked,
         Session!JoinedA, S!JoinedA, Session!JoinedB, S!JoinedB, Session!StageFails,
         S!StageFails, Session!Launched, S!Launched, Session!session, S!session,
         Session!FailSession, S!FailSession, Session!Stop, S!Stop, Session!Parts,
         S!Parts, Session!TaskDone, S!TaskDone, Session!PageOpen, S!PageOpen,
         Session!TickGoesOn, S!TickGoesOn, Session!ReconnectRequested,
         S!ReconnectRequested, Session!AudioUnhealthy, S!AudioUnhealthy,
         Session!AudioHealthy, S!AudioHealthy, Session!Moved, S!Moved,
         Session!MoveRejected, S!MoveRejected, Session!MeetingEnded, S!MeetingEnded,
         Session!MeetingGoesOn, S!MeetingGoesOn, Session!Terminal, S!Terminal,
         Session!BeginLaunch, S!BeginLaunch, Session!Joiner, S!Joiner,
         Session!BeginTeardown, S!BeginTeardown, Session!AtRest, S!AtRest,
         Session!Media, S!Media, Session!HasPage, S!HasPage, Session!browsers,
         S!browsers, Session!Refers, S!Refers, Session!CatchHangs, S!CatchHangs,
         Session!SignalEnds, S!SignalEnds

\* The resource manager of ResourceProofs is the one here.
LEMMA SamePool ==
  /\ Pool!Init <=> P!Init
  /\ Pool!Next <=> P!Next
  /\ Pool!vars = P!vars /\ P!vars = poolVars
BY Zenon
     DEF Session!Activities, Pool!Cardinality, P!Cardinality, Pool!Next, P!Next,
         Pool!vars, P!vars, Pool!Init, P!Init, Pool!Begin, P!Begin, Pool!AllocateStep,
         P!AllocateStep, Pool!Environment, P!Environment, Pool!Releasers, P!Releasers,
         Pool!ReleaseContinues, P!ReleaseContinues, Pool!OrphanBoots, P!OrphanBoots,
         Pool!OrphanExits, P!OrphanExits, Pool!Pair, P!Pair, Pool!NoDisplay,
         P!NoDisplay, Pool!AllocateReal, P!AllocateReal, Pool!AllocateDryRun,
         P!AllocateDryRun, Pool!AllocateExhausted, P!AllocateExhausted, Pool!Release,
         P!Release, Pool!SourceReady, P!SourceReady, Pool!TargetReadyNoVideo,
         P!TargetReadyNoVideo, Pool!TargetReadyVideo, P!TargetReadyVideo,
         Pool!NotEnoughDevices, P!NotEnoughDevices, Pool!DevicesPresent,
         P!DevicesPresent, Pool!DeviceMissing, P!DeviceMissing, Pool!Sides, P!Sides,
         Pool!XvfbStartFails, P!XvfbStartFails, Pool!WaitTimesOut, P!WaitTimesOut,
         Pool!XvfbBoots, P!XvfbBoots, Pool!XvfbExits, P!XvfbExits, Pool!XvfbCrashes,
         P!XvfbCrashes, Pool!XvfbCloses, P!XvfbCloses, Pool!Undo, P!Undo,
         Pool!ReleaseLoop, P!ReleaseLoop, Pool!Served, P!Served, Pool!XvfbUnchanged,
         P!XvfbUnchanged, Pool!MayAllocate, P!MayAllocate, Pool!ReserveDisplays,
         P!ReserveDisplays, Pool!FirstTwo, P!FirstTwo, Pool!FreeDisplays,
         P!FreeDisplays, Pool!PollReady, P!PollReady, Pool!FreeDevices, P!FreeDevices,
         Pool!AllocateFails, P!AllocateFails, Pool!Waiting, P!Waiting, Pool!Recorded,
         P!Recorded, Pool!Running, P!Running, Pool!ReleaseAwaits, P!ReleaseAwaits,
         Pool!ReleaseEnds, P!ReleaseEnds, Pool!NoRelease, P!NoRelease, Pool!IsLowest,
         P!IsLowest, Pool!Locked, P!Locked, Pool!MustAwait, P!MustAwait, poolVars

\* Their assumptions on the constants.
LEMMA Assumed ==
  /\ S!MaxAttemptsAssumption /\ S!OptionsAssumption /\ S!SlowAssumption
  /\ P!SessionsAssumption /\ P!PoolAssumption /\ P!CallersAssumption
  /\ P!EnvironmentAssumption
BY SessionsAssumption, OptionsAssumption, SlowAssumption, PoolAssumption,
   EnvironmentAssumption
   DEF S!MaxAttemptsAssumption, S!OptionsAssumption, S!SlowAssumption,
       P!SessionsAssumption, P!PoolAssumption, P!CallersAssumption,
       P!EnvironmentAssumption, Session!Activities

\* What the modules prove of a step of the session, ...
LEMMA SessionStep == S!LInv /\ [Session!Next]_sessionVars => S!LInv'
BY S!LInvStep, SameSession, Assumed
   DEF S!vars, S!session, S!bridge, S!browsers, S!checks, sessionVars

\* ... of the pool, ...
LEMMA PoolStep == P!TypeInv /\ [Pool!Next]_poolVars => P!TypeInv'
BY P!TypeInvStep, SamePool, Assumed DEF P!vars, poolVars

\* ... and of the pool whose releases do not overlap.
LEMMA PoolStaysReaped ==
  ASSUME P!ReapedInv, P!OneAtATime, ~P!Overlaps, [Pool!Next]_poolVars
  PROVE  P!ReapedInv'
BY P!ReapedInvStep, SamePool, Assumed DEF P!vars, poolVars

-----------------------------------------------------------------------------
(* What a step of the session means for its displays                       *)

\* Of the invariants of OrchestratorProofs.
LEMMA SessionFacts ==
  ASSUME S!EInv
  PROVE  /\ Session!TypeOK
         /\ \A a \in Session!Activities : pc[a] \notin Session!Teardowns => tasks[a] = {}
         /\ monitor \/ pc["reconnect"] # "idle" \/ (\E t \in Ticks : tick[t] # "idle")
              => pc["start"] = "done"
         /\ ~stopped => /\ tasks["stop"] = {} /\ tasks["start"] = {}
                        /\ pc["stop"] = "idle" /\ ~interrupted
         /\ stopped /\ ~interrupted => /\ pc["start"] \in {"done", "failing"}
                                       /\ pc["reconnect"] \in {"idle", "done", "failing"}
BY DEF S!EInv, S!IInv, S!TypeOK, S!StartFirst, S!StopReasons, S!TasksInTeardown,
       S!Underway, S!Ending, S!Status, S!Terminal, S!Media, S!Agents, S!Activities,
       S!Stages, S!Teardowns, S!Parts, Session!TypeOK, Session!Status, Session!Terminal,
       Session!Media, Session!Agents, Session!Activities, Session!Stages,
       Session!Teardowns, Session!Parts

\* The teardown of a begins and lists what is held; it is the only one that
\* lists the displays, unless the session is interrupted.
Captures(a) ==
  /\ tasks[a] = {}
  /\ "reservation" \in tasks'[a] <=> "reservation" \in held
  /\ \A b \in Session!Activities \ {a} :
       tasks'[b] = tasks[b] /\ (interrupted' \/ "reservation" \notin tasks[b])

\* What a step of the orchestrator that awaits nothing of the pool may do.
Advances ==
  /\ "reservation" \in held' <=> "reservation" \in held
  /\ \A a \in Session!Builders : pc'[a] = "allocate" <=> pc[a] = "allocate"
  /\ pc'["start"] = "idle" => pc["start"] = "idle"
  /\ pc'["reconnect"] = "sleep" /\ pc["reconnect"] # "sleep" =>
       /\ pc["reconnect"] \in {"teardown", "retry"}
       /\ ~stopped
       /\ tasks["reconnect"] = {}
  /\ ~stopped' /\ pc'["reconnect"] \in {"teardown", "retry"} =>
       \/ "reservation" \in held => "reservation" \in tasks'["reconnect"]
       \/ pc["reconnect"] \in {"teardown", "retry"} /\ tasks' = tasks
  /\ stopped => stopped'
  /\ interrupted => interrupted'
  /\ tasks' = tasks \/ \E a \in Session!Activities : Captures(a)

\* The beginning of a teardown, whoever begins it: ...
LEMMA TeardownCaptures ==
  ASSUME Session!TypeOK, NEW a \in Session!Activities, NEW where,
         Session!BeginTeardown(a, where), tasks[a] = {},
         \A b \in Session!Activities \ {a} :
           interrupted' \/ "reservation" \notin tasks[b]
  PROVE  Captures(a)
BY DEF Captures, Session!BeginTeardown, Session!TypeOK, Session!Agents

\* ... a health check that asks for a reconnect, ...
LEMMA ReconnectRequestedAdvances ==
  ASSUME S!EInv, pc["start"] = "done", Session!ReconnectRequested,
         UNCHANGED <<held, stopped, interrupted>>
  PROVE  Advances
<1> USE SessionFacts DEF Session!Activities, Session!Builders, Session!Teardowns
<1>1. CASE ~stopped /\ pc["reconnect"] = "idle"
  <2>1. Session!BeginTeardown("reconnect", "teardown")
    BY <1>1 DEF Session!ReconnectRequested
  <2>2. Captures("reconnect")
    BY <1>1, <2>1, TeardownCaptures
  <2>3. pc' = [pc EXCEPT !["reconnect"] = "teardown"]
    BY <2>1 DEF Session!BeginTeardown
  <2>4. QED
    BY <1>1, <2>2, <2>3 DEF Advances, Captures, Session!TypeOK
<1>2. CASE UNCHANGED <<tasks, pc>>
  BY <1>2 DEF Advances
<1>3. QED
  BY <1>1, <1>2 DEF Session!ReconnectRequested

\* ... stop(), ...
LEMMA StopAdvances ==
  ASSUME S!EInv, Session!Stop, UNCHANGED held
  PROVE  Advances
<1> USE SessionFacts DEF Session!Activities, Session!Builders, Session!Teardowns
<1>1. CASE ~stopped
  <2>1. /\ Session!BeginTeardown("stop", "teardown")
        /\ stopped' = TRUE
        /\ interrupted' = ~\A a \in Session!Builders : Session!AtRest(a)
    BY <1>1 DEF Session!Stop
  <2>2. Captures("stop")
    <3>1. interrupted' \/ \A b \in Session!Builders : tasks[b] = {}
      BY <2>1 DEF Session!AtRest
    <3>2. QED
      BY <1>1, <2>1, <3>1, TeardownCaptures
  <2>3. pc' = [pc EXCEPT !["stop"] = "teardown"]
    BY <2>1 DEF Session!BeginTeardown
  <2>4. QED
    BY <1>1, <2>1, <2>2, <2>3 DEF Advances, Session!TypeOK
<1>2. CASE stopped
  BY <1>2 DEF Advances, Session!Stop, Session!session
<1>3. QED
  BY <1>1, <1>2

\* FailSession() by a builder, at any of its awaits.
LEMMA FailSessionAdvances ==
  ASSUME S!EInv, NEW a \in Session!Builders, Session!FailSession(a), tasks[a] = {},
         pc[a] \notin {"allocate", "failing"}, ~Session!AtRest(a),
         UNCHANGED <<held, interrupted>>
  PROVE  Advances
<1> USE SessionFacts DEF Session!Activities, Session!Builders, Session!Teardowns
<1>1. Session!BeginTeardown(a, "failing") /\ stopped' = TRUE
  BY DEF Session!FailSession
<1>2. pc' = [pc EXCEPT ![a] = "failing"]
  BY <1>1 DEF Session!BeginTeardown
<1>3. \A b \in Session!Activities \ {a} : interrupted' \/ "reservation" \notin tasks[b]
  BY DEF Session!AtRest
<1>4. Captures(a)
  BY <1>1, <1>3, TeardownCaptures
<1>5. QED
  BY <1>1, <1>2, <1>4 DEF Advances, Session!TypeOK

\* A health check, up to a reconnect or a stop().
LEMMA TickAdvances ==
  ASSUME S!EInv, NEW t \in Ticks, Session!TickFires(t) \/ Session!Tick(t)
  PROVE  Advances
<1> USE SessionFacts
<1>1. pc["start"] = "done"
  BY DEF Session!TickFires, Session!Tick, Session!AudioUnhealthy, Session!AudioHealthy,
         Session!Moved, Session!MoveRejected, Session!MeetingEnded, Session!MeetingGoesOn
<1>2. CASE Session!MeetingEnded(t)
  BY <1>2, StopAdvances DEF Session!MeetingEnded
<1>3. CASE Session!Moved(t) \/ Session!MoveRejected(t) \/ Session!MeetingGoesOn(t)
  BY <1>3 DEF Session!Moved, Session!MoveRejected, Session!MeetingGoesOn,
              Session!session, Session!bridge, Advances
<1>4. CASE Session!TickFires(t) \/ Session!AudioUnhealthy(t) \/ Session!AudioHealthy(t)
  <2>1. Session!ReconnectRequested \/ UNCHANGED <<pc, tasks>>
    BY <1>4 DEF Session!TickFires, Session!AudioUnhealthy, Session!AudioHealthy,
                Session!TickGoesOn
  <2>2. UNCHANGED <<held, stopped, interrupted>>
    BY <1>4 DEF Session!TickFires, Session!AudioUnhealthy, Session!AudioHealthy
  <2>3. CASE Session!ReconnectRequested
    BY <1>1, <2>2, <2>3, ReconnectRequestedAdvances
  <2>4. CASE UNCHANGED <<pc, tasks>>
    BY <2>2, <2>4 DEF Advances
  <2>5. QED
    BY <2>1, <2>3, <2>4
<1>5. QED
  BY <1>2, <1>3, <1>4 DEF Session!Tick

\* A builder at any await but allocate().
LEMMA BuilderAdvances ==
  ASSUME S!EInv, NEW a \in Session!Builders, BuilderActs(a)
  PROVE  Advances
<1> USE SessionFacts DEF Session!Builders, Session!Activities, Session!TypeOK
<1>1. CASE Session!StageFails(a) /\ pc[a] # "allocate"
  <2>1. pc[a] \in {"audio", "launch", "joinA", "joinB"} /\ tasks[a] = {}
    BY <1>1 DEF Session!StageFails, Session!Teardowns
  <2>2. UNCHANGED <<held, interrupted>>
    BY <1>1 DEF Session!StageFails
  <2>3. CASE a = "start"
    BY <1>1, <2>1, <2>2, <2>3, FailSessionAdvances DEF Session!StageFails, Session!AtRest
  <2>4. CASE a = "reconnect"
    <3>1. Session!BeginTeardown("reconnect", "retry") /\ UNCHANGED stopped
      BY <1>1, <2>4 DEF Session!StageFails, Session!session
    <3>2. pc' = [pc EXCEPT !["reconnect"] = "retry"]
      BY <3>1 DEF Session!BeginTeardown
    <3>3. \A b \in Session!Activities \ {"reconnect"} :
            interrupted' \/ "reservation" \notin tasks[b]
      BY <2>1, <2>2, <2>4 DEF Session!Teardowns
    <3>4. Captures("reconnect")
      BY <2>1, <2>4, <3>1, <3>3, TeardownCaptures
    <3>5. QED
      BY <2>1, <2>2, <2>4, <3>1, <3>2, <3>4 DEF Advances, Captures
  <2>5. QED
    BY <2>3, <2>4
<1>2. CASE Session!AudioConfigured(a)
  BY <1>2 DEF Session!AudioConfigured, Session!BeginLaunch, Session!session, Advances
<1>3. CASE \E ag \in Session!Agents : Session!Launched(a, ag)
  BY <1>3 DEF Session!Launched, Advances
<1>4. CASE Session!Clicked(a)
  BY <1>4 DEF Session!Clicked, Session!session, Session!bridge, Advances
<1>5. CASE Session!JoinedA(a)
  BY <1>5 DEF Session!JoinedA, Session!bridge, Advances
<1>6. CASE Session!JoinedB(a)
  BY <1>6 DEF Session!JoinedB, Advances
<1>7. CASE Session!FailEnds(a)
  BY <1>7 DEF Session!FailEnds, Session!session, Session!bridge, Advances
<1>8. QED
  BY <1>1, <1>2, <1>3, <1>4, <1>5, <1>6, <1>7
     DEF BuilderActs, Session!Build, Session!Allocated

\* The head of the reconnect loop.
LEMMA NextAttemptAdvances ==
  ASSUME S!EInv, Session!NextAttempt
  PROVE  Advances
<1> USE SessionFacts DEF Session!Builders, Session!Activities, Session!TypeOK
<1>1. CASE Session!FailSession("reconnect")
  BY <1>1, FailSessionAdvances DEF Session!NextAttempt, Session!AtRest
<1>2. CASE ~Session!FailSession("reconnect")
  BY <1>2 DEF Session!NextAttempt, Session!session, Advances
<1>3. QED
  BY <1>1, <1>2

\* All of them together.
LEMMA OrchestratorAdvances ==
  ASSUME S!EInv, OrchestratorActs
  PROVE  Advances
<1>1. CASE Session!StopCalled
  BY <1>1, StopAdvances DEF Session!StopCalled
<1>2. CASE Session!StopEnds
  BY <1>2, SessionFacts
     DEF Session!StopEnds, Session!bridge, Session!TypeOK, Session!Builders,
         Session!Activities, Advances
<1>3. CASE \E ag \in Session!Agents : Session!LateLaunch(ag) \/ Session!BrowserDies(ag)
  BY <1>3 DEF Session!LateLaunch, Session!BrowserDies, Session!session, Advances
<1>4. QED
  BY <1>1, <1>2, <1>3, TickAdvances, BuilderAdvances, NextAttemptAdvances
     DEF OrchestratorActs

-----------------------------------------------------------------------------
(* What a step of the pool means for the session                           *)

\* Of the invariants of ResourceProofs.
LEMMA PoolFacts ==
  ASSUME P!TypeInv
  PROVE  /\ rel \in [Others \cup {Own} -> [Session!Activities \cup {Pool!Undo} -> 0..2]]
         /\ alloc \in [Others \cup {Own} -> {"idle", "source", "target", "access"}]
         /\ xvfb \in [Others \cup {Own} -> [Pool!Sides -> Pool!Process]]
         /\ \A s \in Others \cup {Own} : alloc[s] # "idle" =>
              s \notin reservations /\ \A c \in Pool!Releasers : rel[s][c] = 0
BY DEF P!TypeInv, P!TypeOK, P!AllocatesAlone, P!NoRelease, P!Releasers, P!Undo, P!Sides,
       P!Process, P!Running, Pool!Releasers, Pool!Undo, Pool!Sides, Pool!Process,
       Pool!Running

\* The pool does nothing for s.
Untouched(s) ==
  /\ rel'[s] = rel[s]
  /\ alloc'[s] = alloc[s]
  /\ s \in reservations' <=> s \in reservations

\* releaseReservation() has come to its next await, or has ended.
LEMMA ReleaseLoopMeans ==
  ASSUME P!TypeInv, NEW s \in Others \cup {Own}, NEW c \in Pool!Releasers, NEW k \in 1..3,
         NEW p, Pool!ReleaseLoop(s, c, k, p),
         \A t \in (Others \cup {Own}) \ {s} : alloc'[t] = alloc[t]
  PROVE  /\ \A t \in (Others \cup {Own}) \ {s} : Untouched(t)
         /\ \A o \in Pool!Releasers \ {c} : rel'[s][o] = rel[s][o]
         /\ \/ rel'[s][c] # 0 /\ reservations' = reservations
            \/ /\ rel'[s][c] = 0
               /\ reservations' = IF c = Pool!Undo THEN reservations
                                                   ELSE reservations \ {s}
<1> USE PoolFacts DEF Pool!Releasers
<1>1. CASE Pool!ReleaseAwaits(s, c, k, p)
  <2>1. PICK i \in Pool!MustAwait(s, k, p) : /\ rel' = [rel EXCEPT ![s][c] = i]
                                             /\ UNCHANGED reservations
    BY <1>1 DEF Pool!ReleaseAwaits
  <2>2. i # 0
    BY <2>1 DEF Pool!MustAwait
  <2>3. QED
    BY <2>1, <2>2 DEF Untouched
<1>2. CASE Pool!ReleaseEnds(s, c, k, p)
  BY <1>2 DEF Pool!ReleaseEnds, Untouched
<1>3. QED
  BY <1>1, <1>2 DEF Pool!ReleaseLoop

\* release() begins: to its first await, or through.
LEMMA ReleaseMeans ==
  ASSUME P!TypeInv, NEW s \in Others \cup {Own}, NEW c \in Session!Activities,
         Pool!Release(s, c)
  PROVE  /\ s \in reservations /\ rel[s][c] = 0
         /\ \A t \in (Others \cup {Own}) \ {s} : Untouched(t)
         /\ \A o \in Pool!Releasers \ {c} : rel'[s][o] = rel[s][o]
         /\ UNCHANGED alloc
         /\ \/ rel'[s][c] # 0 /\ reservations' = reservations
            \/ rel'[s][c] = 0 /\ reservations' = reservations \ {s}
<1>1. c \in Pool!Releasers /\ c # Pool!Undo
  BY DEF Pool!Releasers, Pool!Undo, Session!Activities
<1>2. 1 \in 1..3
  OBVIOUS
<1>3. QED
  BY <1>1, <1>2, ReleaseLoopMeans DEF Pool!Release

\* It goes on when a process has closed.
LEMMA ReleaseContinuesMeans ==
  ASSUME P!TypeInv, NEW s \in Others \cup {Own}, NEW c \in Pool!Releasers,
         Pool!ReleaseContinues(s, c)
  PROVE  /\ rel[s][c] # 0
         /\ \A t \in (Others \cup {Own}) \ {s} : Untouched(t)
         /\ \A o \in Pool!Releasers \ {c} : rel'[s][o] = rel[s][o]
         /\ UNCHANGED alloc
         /\ \/ rel'[s][c] # 0 /\ reservations' = reservations
            \/ /\ rel'[s][c] = 0
               /\ reservations' = IF c = Pool!Undo THEN reservations
                                                   ELSE reservations \ {s}
<1>1. rel[s][c] \in 0..2 /\ rel[s][c] # 0
  BY PoolFacts DEF Pool!Releasers, Pool!ReleaseContinues
<1>2. rel[s][c] + 1 \in 1..3
  BY <1>1
<1>3. QED
  BY <1>1, <1>2, ReleaseLoopMeans DEF Pool!ReleaseContinues

\* allocate() goes on to its next await, returns, or enters its catch.
LEMMA AllocateStepMeans ==
  ASSUME P!TypeInv, NEW s \in Others \cup {Own}, Pool!AllocateStep(s)
  PROVE  /\ alloc[s] # "idle"
         /\ \A t \in (Others \cup {Own}) \ {s} : Untouched(t)
         /\ \A o \in Session!Activities : rel'[s][o] = 0
         /\ s \in reservations' => alloc'[s] = "idle" /\ rel'[s][Pool!Undo] = 0
<1> USE PoolFacts DEF Untouched
<1>1. CASE Pool!SourceReady(s) \/ Pool!TargetReadyNoVideo(s) \/ Pool!TargetReadyVideo(s)
           \/ Pool!DevicesPresent(s)
  <2>1. alloc[s] # "idle" /\ UNCHANGED rel
    BY <1>1 DEF Pool!SourceReady, Pool!TargetReadyNoVideo, Pool!TargetReadyVideo,
                Pool!DevicesPresent, Pool!PollReady, Pool!Waiting
  <2>2. /\ \A t \in (Others \cup {Own}) \ {s} :
             alloc'[t] = alloc[t] /\ (t \in reservations' <=> t \in reservations)
        /\ s \in reservations' => s \in reservations \/ alloc'[s] = "idle"
    BY <1>1 DEF Pool!SourceReady, Pool!TargetReadyNoVideo, Pool!TargetReadyVideo,
                Pool!DevicesPresent
  <2>3. QED
    BY <2>1, <2>2 DEF Pool!Releasers
<1>2. CASE \E p : Pool!AllocateFails(s, p) /\ alloc[s] # "idle"
  <2>1. PICK p : Pool!AllocateFails(s, p) /\ alloc[s] # "idle"
    BY <1>2
  <2>2. /\ Pool!ReleaseLoop(s, Pool!Undo, 1, p)
        /\ \A t \in (Others \cup {Own}) \ {s} : alloc'[t] = alloc[t]
    BY <2>1 DEF Pool!AllocateFails
  <2>3. Pool!Undo \in Pool!Releasers /\ 1 \in 1..3
    BY DEF Pool!Releasers
  <2>4. /\ \A t \in (Others \cup {Own}) \ {s} : Untouched(t)
        /\ \A o \in Pool!Releasers \ {Pool!Undo} : rel'[s][o] = rel[s][o]
        /\ reservations' = reservations
    BY <2>2, <2>3, ReleaseLoopMeans
  <2>5. QED
    BY <2>1, <2>4 DEF Pool!Releasers, Pool!Undo, Session!Activities
<1>3. CASE Pool!NotEnoughDevices(s) \/ Pool!DeviceMissing(s)
  BY <1>2, <1>3 DEF Pool!NotEnoughDevices, Pool!DeviceMissing, Pool!PollReady, Pool!Waiting
<1>4. CASE \E i \in Pool!Sides : Pool!XvfbStartFails(s, i) \/ Pool!WaitTimesOut(s, i)
  BY <1>2, <1>4 DEF Pool!XvfbStartFails, Pool!WaitTimesOut, Pool!Waiting
<1>5. QED
  BY <1>1, <1>3, <1>4 DEF Pool!AllocateStep

\* A step of a neighbour, or of an X server.
LEMMA NeighboursMean ==
  ASSUME P!TypeInv, OthersAct \/ OthersGoOn \/ XServersAct
  PROVE  Untouched(Own) /\ UNCHANGED sessionVars
<1>0. Own \notin Others
  BY SessionsAssumption
<1>1. ASSUME NEW s \in Others,
             Pool!AllocateReal(s) \/ Pool!AllocateDryRun(s) \/ Pool!AllocateExhausted(s)
      PROVE  Untouched(Own)
  BY <1>0, <1>1, PoolFacts
     DEF Pool!AllocateReal, Pool!AllocateDryRun, Pool!AllocateExhausted, Untouched
<1>2. ASSUME NEW s \in Others, Pool!Release(s, "stop")
      PROVE  Untouched(Own)
  BY <1>0, <1>2, ReleaseMeans DEF Session!Activities
<1>3. ASSUME NEW s \in Others, Pool!AllocateStep(s)
      PROVE  Untouched(Own)
  BY <1>0, <1>3, AllocateStepMeans
<1>4. ASSUME NEW s \in Others, NEW c \in Pool!Releasers, Pool!ReleaseContinues(s, c)
      PROVE  Untouched(Own)
  BY <1>0, <1>4, ReleaseContinuesMeans
<1>5. ASSUME XServersAct
      PROVE  Untouched(Own)
  BY <1>5 DEF XServersAct, Pool!Environment, Pool!XvfbBoots, Pool!XvfbExits,
              Pool!XvfbCrashes, Pool!XvfbCloses, Pool!OrphanBoots, Pool!OrphanExits,
              Pool!XvfbUnchanged, Untouched
<1>6. QED
  BY <1>1, <1>2, <1>3, <1>4, <1>5 DEF OthersAct, OthersGoOn, XServersAct

-----------------------------------------------------------------------------
(* One lemma per action of Next                                            *)

\* A builder calls allocate().
LEMMA BeginsBridgeLinked ==
  ASSUME S!EInv, P!TypeInv, Linked, BeginsBridge
  PROVE  Linked'
<1> USE SessionFacts
    DEF Linked, Session!Activities, Session!Builders, Session!TypeOK
<1>1. /\ UNCHANGED <<tasks, held, stopped, interrupted>>
      /\ \/ pc["start"] = "idle" /\ pc' = [pc EXCEPT !["start"] = "allocate"]
         \/ pc["reconnect"] = "sleep" /\ pc' = [pc EXCEPT !["reconnect"] = "allocate"]
  BY DEF BeginsBridge, Session!Start, Session!Wakes, Session!bridge, Session!session
<1>2. UNCHANGED <<rel, reservations>>
  BY DEF BeginsBridge, Allocates, Pool!AllocateReal, Pool!AllocateExhausted, poolVars
<1>3. Fresh'
  BY <1>1 DEF Fresh, Listed
<1>4. AllocateAwaited'
  BY <1>1 DEF AllocateAwaited
<1>5. ReleaseAwaited' /\ HeldIsReserved' /\ OneTeardown'
  BY <1>1, <1>2 DEF ReleaseAwaited, HeldIsReserved, OneTeardown, Listed
<1>6. GivenBack'
  BY <1>1 DEF GivenBack
<1>7. QED
  BY <1>3, <1>4, <1>5, <1>6

\* A release() of the session goes on, and may end.
LEMMA ReleaseGoesOnLinked ==
  ASSUME S!EInv, P!TypeInv, Linked, ReleaseGoesOn
  PROVE  Linked'
<1> USE DEF Linked, Session!Activities
<1>1. PICK a \in Session!Activities : Pool!ReleaseContinues(Own, a)
  BY DEF ReleaseGoesOn
<1>2. a \in Pool!Releasers /\ a # Pool!Undo
  BY DEF Pool!Releasers, Pool!Undo
<1>3. /\ rel[Own][a] # 0
      /\ \A o \in Pool!Releasers \ {a} : rel'[Own][o] = rel[Own][o]
      /\ UNCHANGED alloc
      /\ \/ rel'[Own][a] # 0 /\ reservations' = reservations
         \/ rel'[Own][a] = 0 /\ reservations' = reservations \ {Own}
  BY <1>1, <1>2, ReleaseContinuesMeans
<1>4. UNCHANGED <<tasks, held, pc, stopped, interrupted>>
  BY DEF ReleaseGoesOn, sessionVars
<1>5. \A b \in Session!Activities \ {a} : rel'[Own][b] = rel[Own][b]
  BY <1>3 DEF Pool!Releasers
<1>6. "reservation" \in tasks[a]
  BY <1>3 DEF ReleaseAwaited
<1>7. Fresh' /\ GivenBack'
  BY <1>4 DEF Fresh, GivenBack, Listed
<1>8. AllocateAwaited'
  BY <1>2, <1>3, <1>4 DEF AllocateAwaited, Pool!Releasers, Session!Builders
<1>9. ReleaseAwaited'
  BY <1>3, <1>4, <1>5, <1>6 DEF ReleaseAwaited
<1>10. HeldIsReserved'
  BY <1>3, <1>4, <1>6 DEF HeldIsReserved, Listed
<1>11. OneTeardown'
  BY <1>3, <1>4, <1>5, <1>6 DEF OneTeardown, ReleaseAwaited
<1>12. QED
  BY <1>7, <1>8, <1>9, <1>10, <1>11

\* A teardown counts one of its tasks as done.
LEMMA TearsDownLinked ==
  ASSUME S!EInv, P!TypeInv, Linked, NEW a \in Session!Activities, TearsDown(a)
  PROVE  Linked'
<1> USE DEF Linked, Session!Activities
<1>1. PICK part \in Session!Parts : /\ part = "reservation" => rel[Own][a] = 0
                                    /\ Session!TaskDone(a, part)
  BY DEF TearsDown
<1>2. /\ part \in tasks[a]
      /\ tasks' = [tasks EXCEPT ![a] = @ \ {part}]
      /\ held' = held \ {part}
      /\ UNCHANGED <<pc, stopped, interrupted>>
  BY <1>1 DEF Session!TaskDone, Session!session
<1>3. UNCHANGED <<rel, alloc, reservations>>
  BY DEF TearsDown, poolVars
<1>4. /\ \A b \in Session!Activities : tasks'[b] \subseteq tasks[b]
      /\ \A b \in Session!Activities :
           "reservation" \in tasks[b] /\ "reservation" \notin tasks'[b] =>
             b = a /\ part = "reservation"
  BY <1>2, SessionFacts DEF Session!TypeOK
<1>5. Fresh' /\ AllocateAwaited' /\ OneTeardown'
  BY <1>2, <1>3, <1>4 DEF Fresh, AllocateAwaited, OneTeardown, Listed
<1>6. ReleaseAwaited'
  BY <1>1, <1>3, <1>4 DEF ReleaseAwaited
<1>7. HeldIsReserved'
  <2>1. part = "reservation" => Own \notin reservations
    BY <1>1, <1>2 DEF ReleaseAwaited
  <2>2. QED
    BY <1>2, <1>3, <1>4, <2>1 DEF HeldIsReserved, Listed
<1>8. GivenBack'
  BY <1>2, <1>4 DEF GivenBack
<1>9. QED
  BY <1>5, <1>6, <1>7, <1>8

\* An allocate() that threw fails the stage of its builder.
LEMMA FailedAllocationLinked ==
  ASSUME S!EInv, P!TypeInv, Linked,
         NEW a \in Session!Builders, pc[a] = "allocate", Session!StageFails(a),
         Own \notin reservations', alloc'[Own] = "idle",
         \A c \in Pool!Releasers : rel'[Own][c] = 0
  PROVE  Linked'
<1> USE SessionFacts
    DEF Linked, Session!Activities, Session!Builders, Session!TypeOK, Session!Teardowns
<1>1. "reservation" \notin held /\ ~Listed
  BY DEF Fresh
<1>2. PICK where \in {"retry", "failing"} : Session!BeginTeardown(a, where)
  BY DEF Session!StageFails, Session!FailSession
<1>3. /\ pc' = [pc EXCEPT ![a] = where]
      /\ "reservation" \notin tasks'[a]
      /\ \A b \in Session!Activities \ {a} : tasks'[b] = tasks[b]
  BY <1>1, <1>2 DEF Session!BeginTeardown, Session!Agents
<1>4. UNCHANGED held
  BY DEF Session!StageFails
<1>5. ~Listed'
  BY <1>1, <1>3 DEF Listed
<1>6. Fresh' /\ HeldIsReserved' /\ GivenBack'
  BY <1>1, <1>4, <1>5 DEF Fresh, HeldIsReserved, GivenBack
<1>7. AllocateAwaited'
  BY DEF AllocateAwaited, Pool!Releasers
<1>8. ReleaseAwaited' /\ OneTeardown'
  BY <1>5 DEF ReleaseAwaited, OneTeardown, Listed, Pool!Releasers
<1>9. QED
  BY <1>6, <1>7, <1>8

\* While allocate() runs, no release() of the session does.
LEMMA AllocationMeans ==
  ASSUME S!EInv, P!TypeInv, Linked,
         Pool!AllocateStep(Own) \/ Pool!ReleaseContinues(Own, Pool!Undo)
  PROVE  /\ \E a \in Session!Builders : pc[a] = "allocate"
         /\ "reservation" \notin held /\ ~Listed
         /\ \A o \in Session!Activities : rel'[Own][o] = 0
         /\ \A s \in Others : Untouched(s)
         /\ Own \in reservations' => alloc'[Own] = "idle" /\ rel'[Own][Pool!Undo] = 0
<1> USE SessionFacts DEF Linked, Session!Activities, Session!Builders, Session!TypeOK
<1>0. Own \notin Others
  BY SessionsAssumption
<1>1. alloc[Own] # "idle" \/ rel[Own][Pool!Undo] # 0
  BY AllocateStepMeans DEF Pool!ReleaseContinues
<1>2. \E a \in Session!Builders : pc[a] = "allocate"
  BY <1>1 DEF AllocateAwaited
<1>3. "reservation" \notin held /\ ~Listed
  BY <1>2 DEF Fresh
<1>4. Own \notin reservations /\ \A o \in Session!Activities : rel[Own][o] = 0
  BY <1>3 DEF HeldIsReserved, ReleaseAwaited, Listed
<1>5. CASE Pool!AllocateStep(Own)
  BY <1>0, <1>2, <1>3, <1>5, AllocateStepMeans
<1>6. CASE Pool!ReleaseContinues(Own, Pool!Undo)
  <2>1. /\ \A t \in (Others \cup {Own}) \ {Own} : Untouched(t)
        /\ \A o \in Pool!Releasers \ {Pool!Undo} : rel'[Own][o] = rel[Own][o]
        /\ reservations' = reservations
    BY <1>6, ReleaseContinuesMeans DEF Pool!Releasers
  <2>2. \A o \in Session!Activities : o \in Pool!Releasers \ {Pool!Undo}
    BY DEF Pool!Releasers, Pool!Undo
  <2>3. QED
    BY <1>0, <1>2, <1>3, <1>4, <2>1, <2>2
<1>7. QED
  BY <1>5, <1>6

\* allocate() goes on; its builder does when it has returned or thrown.
LEMMA AllocationGoesOnLinked ==
  ASSUME S!EInv, P!TypeInv, Linked, AllocationGoesOn
  PROVE  Linked'
<1> USE SessionFacts
    DEF Linked, Session!Activities, Session!Builders, Session!TypeOK, Session!Teardowns
<1>1. /\ \E a \in Session!Builders : pc[a] = "allocate"
      /\ "reservation" \notin held /\ ~Listed
      /\ \A o \in Session!Activities : rel'[Own][o] = 0
      /\ Own \in reservations' => alloc'[Own] = "idle" /\ rel'[Own][Pool!Undo] = 0
  BY AllocationMeans DEF AllocationGoesOn
<1>2. CASE alloc'[Own] # "idle" \/ rel'[Own][Pool!Undo] # 0
  <2>1. UNCHANGED sessionVars /\ Own \notin reservations'
    BY <1>1, <1>2 DEF AllocationGoesOn
  <2>2. UNCHANGED <<pc, held, tasks, stopped, interrupted>>
    BY <2>1 DEF sessionVars
  <2>3. Fresh' /\ GivenBack'
    BY <2>2 DEF Fresh, GivenBack, Listed
  <2>4. AllocateAwaited'
    BY <1>1, <2>2 DEF AllocateAwaited
  <2>5. ReleaseAwaited' /\ HeldIsReserved' /\ OneTeardown'
    BY <1>1, <2>1, <2>2 DEF ReleaseAwaited, HeldIsReserved, OneTeardown, Listed
  <2>6. QED
    BY <2>3, <2>4, <2>5
<1>3. CASE alloc'[Own] = "idle" /\ rel'[Own][Pool!Undo] = 0
  <2>1. PICK a \in Session!Builders :
          /\ pc[a] = "allocate"
          /\ IF Own \in reservations' THEN Session!Allocated(a) ELSE Session!StageFails(a)
    BY <1>3 DEF AllocationGoesOn
  <2>2. CASE Own \notin reservations'
    <3>1. \A c \in Pool!Releasers : rel'[Own][c] = 0
      BY <1>1, <1>3 DEF Pool!Releasers
    <3>2. QED
      BY <1>3, <2>1, <2>2, <3>1, FailedAllocationLinked
  <2>3. CASE Own \in reservations'
    <3>1. Session!Allocated(a)
      BY <2>1, <2>3
    <3>2. /\ "reservation" \in held'
          /\ UNCHANGED <<tasks, stopped, interrupted>>
          /\ pc'[a] \in {"audio", "launch"}
          /\ \A b \in Session!Activities \ {a} : pc'[b] = pc[b]
      BY <3>1 DEF Session!Allocated, Session!BeginLaunch, Session!session
    <3>3. ~Listed'
      BY <1>1, <3>2 DEF Listed
    <3>4. Fresh' /\ GivenBack'
      BY <2>1, <3>2 DEF Fresh, GivenBack
    <3>5. AllocateAwaited'
      BY <1>3 DEF AllocateAwaited
    <3>6. ReleaseAwaited' /\ OneTeardown'
      BY <1>1, <3>3 DEF ReleaseAwaited, OneTeardown, Listed
    <3>7. HeldIsReserved'
      BY <2>3, <3>2 DEF HeldIsReserved
    <3>8. QED
      BY <3>4, <3>5, <3>6, <3>7
  <2>4. QED
    BY <2>2, <2>3
<1>4. QED
  BY <1>2, <1>3

\* allocate() threw before its first await.
LEMMA AllocationRefusedLinked ==
  ASSUME S!EInv, P!TypeInv, Linked, AllocationRefused
  PROVE  Linked'
<1> USE DEF Linked
<1>1. PICK a \in Session!Builders :
        Refused(a) /\ Session!StageFails(a) /\ UNCHANGED poolVars
  BY DEF AllocationRefused
<1>2. UNCHANGED <<reservations, alloc, rel>>
  BY <1>1 DEF poolVars
<1>3. "reservation" \notin held /\ ~Listed
  BY <1>1 DEF Fresh, Refused, Session!Builders
<1>4. Own \notin reservations
  BY <1>3 DEF HeldIsReserved
<1>5. \A c \in Pool!Releasers : rel[Own][c] = 0
  BY <1>1, <1>3 DEF ReleaseAwaited, Listed, Refused, Pool!Releasers
<1>6. QED
  BY <1>1, <1>2, <1>4, <1>5, FailedAllocationLinked DEF Refused

\* A teardown of the session begins, with the release() it calls.
LEMMA CapturesLinked ==
  ASSUME S!EInv, P!TypeInv, Linked, Advances, ReleasesWithTeardown,
         NEW a \in Session!Activities, Captures(a)
  PROVE  /\ AllocateAwaited' /\ ReleaseAwaited' /\ HeldIsReserved' /\ OneTeardown'
         /\ "reservation" \notin held /\ ~Listed => ~Listed'
<1> USE SessionFacts DEF Linked, Session!Activities, Session!Builders, Session!TypeOK
<1>1. /\ tasks[a] = {}
      /\ "reservation" \in tasks'[a] <=> "reservation" \in held
      /\ \A b \in Session!Activities \ {a} :
           tasks'[b] = tasks[b] /\ (interrupted' \/ "reservation" \notin tasks[b])
  BY DEF Captures
<1>2. /\ "reservation" \in held' <=> "reservation" \in held
      /\ \A b \in Session!Builders : pc'[b] = "allocate" <=> pc[b] = "allocate"
      /\ interrupted => interrupted'
  BY DEF Advances
<1>3. rel[Own][a] = 0
  BY <1>1 DEF ReleaseAwaited
<1>4. /\ UNCHANGED alloc
      /\ \A c \in Pool!Releasers \ {a} : rel'[Own][c] = rel[Own][c]
      /\ \/ rel'[Own][a] # 0 /\ Own \in reservations /\ Own \in reservations'
         \/ rel'[Own][a] = 0 /\ Own \notin reservations'
  <2>1. CASE Own \in reservations
    <3>1. tasks'[a] \ tasks[a] # {}
      BY <1>1, <2>1 DEF HeldIsReserved
    <3>2. PICK b \in Session!Activities :
            tasks'[b] \ tasks[b] # {} /\ Pool!Release(Own, b)
      BY <2>1, <3>1 DEF ReleasesWithTeardown
    <3>3. b = a
      BY <1>1, <3>2
    <3>4. QED
      BY <2>1, <3>2, <3>3, ReleaseMeans
  <2>2. CASE Own \notin reservations
    BY <1>3, <2>2 DEF ReleasesWithTeardown, poolVars
  <2>3. QED
    BY <2>1, <2>2
<1>5. \A b \in Session!Activities \ {a} : rel'[Own][b] = rel[Own][b]
  BY <1>4 DEF Pool!Releasers
<1>6. Pool!Undo \in Pool!Releasers \ {a}
  BY DEF Pool!Releasers, Pool!Undo
<1>7. AllocateAwaited'
  BY <1>2, <1>4, <1>6 DEF AllocateAwaited
<1>8. ReleaseAwaited'
  <2>1. Own \in reservations' => Own \in reservations
    BY <1>4
  <2>2. Own \in reservations => "reservation" \in held
    BY DEF HeldIsReserved
  <2>3. QED
    BY <1>1, <1>4, <1>5, <2>1, <2>2 DEF ReleaseAwaited
<1>9. HeldIsReserved'
  BY <1>1, <1>2, <1>4 DEF HeldIsReserved, Listed
<1>10. OneTeardown'
  <2>1. interrupted' \/ \A b \in Session!Activities \ {a} : rel[Own][b] = 0
    BY <1>1 DEF ReleaseAwaited
  <2>2. QED
    BY <1>1, <1>4, <1>5, <2>1 DEF OneTeardown
<1>11. QED
  BY <1>1, <1>7, <1>8, <1>9, <1>10 DEF Listed

\* The orchestrator goes on, with release() if it tears down.
LEMMA GoesOnLinked ==
  ASSUME S!EInv, P!TypeInv, Linked, GoesOn
  PROVE  Linked'
<1> USE SessionFacts DEF Linked, Session!Activities, Session!Builders, Session!TypeOK
<1>1. Advances /\ ReleasesWithTeardown
  BY OrchestratorAdvances DEF GoesOn
<1>2. /\ AllocateAwaited' /\ ReleaseAwaited' /\ HeldIsReserved' /\ OneTeardown'
      /\ "reservation" \notin held /\ ~Listed => ~Listed'
  <2>1. CASE tasks' = tasks
    <3>1. UNCHANGED <<alloc, rel, reservations>>
      BY <1>1, <2>1 DEF ReleasesWithTeardown, poolVars
    <3>2. QED
      BY <1>1, <2>1, <3>1
         DEF Advances, AllocateAwaited, ReleaseAwaited, HeldIsReserved, OneTeardown, Listed
  <2>2. ASSUME NEW a \in Session!Activities, Captures(a)
        PROVE  /\ AllocateAwaited' /\ ReleaseAwaited' /\ HeldIsReserved' /\ OneTeardown'
               /\ "reservation" \notin held /\ ~Listed => ~Listed'
    BY <1>1, <2>2, CapturesLinked
  <2>3. QED
    BY <1>1, <2>1, <2>2 DEF Advances
<1>3. Fresh'
  <2>1. SUFFICES ASSUME \/ pc'["start"] \in {"idle", "allocate"}
                        \/ pc'["reconnect"] \in {"sleep", "allocate"}
                 PROVE  "reservation" \notin held' /\ ~Listed'
    BY DEF Fresh
  <2>2. "reservation" \notin held /\ ~Listed
    <3>1. CASE \/ pc["start"] \in {"idle", "allocate"}
               \/ pc["reconnect"] \in {"sleep", "allocate"}
      BY <3>1 DEF Fresh
    <3>2. CASE pc'["reconnect"] = "sleep" /\ pc["reconnect"] # "sleep"
      BY <1>1, <3>2 DEF Advances, GivenBack, Listed
    <3>3. QED
      BY <1>1, <2>1, <3>1, <3>2 DEF Advances
  <2>3. QED
    BY <1>1, <1>2, <2>2 DEF Advances
<1>4. GivenBack'
  BY <1>1 DEF Advances, GivenBack
<1>5. QED
  BY <1>2, <1>3, <1>4

\* The neighbours and the X servers change nothing of this.
LEMMA NeighboursLinked ==
  ASSUME S!EInv, P!TypeInv, Linked, OthersAct \/ OthersGoOn \/ XServersAct
  PROVE  Linked'
<1>1. Untouched(Own) /\ UNCHANGED <<pc, held, tasks, stopped, interrupted>>
  BY NeighboursMean DEF sessionVars
<1>2. Fresh' /\ GivenBack'
  BY <1>1 DEF Linked, Fresh, GivenBack, Listed
<1>3. AllocateAwaited' /\ ReleaseAwaited' /\ HeldIsReserved' /\ OneTeardown'
  BY <1>1 DEF Linked, Untouched, AllocateAwaited, ReleaseAwaited, HeldIsReserved,
              OneTeardown, Listed
<1>4. QED
  BY <1>2, <1>3 DEF Linked

\* What is held and what is reserved stay in step.
LEMMA LinkedStep ==
  ASSUME S!EInv, P!TypeInv, Linked, [Next]_vars
  PROVE  Linked'
<1>1. CASE Next
  BY <1>1, BeginsBridgeLinked, AllocationGoesOnLinked, AllocationRefusedLinked,
     ReleaseGoesOnLinked, GoesOnLinked, TearsDownLinked, NeighboursLinked DEF Next
<1>2. CASE UNCHANGED vars
  BY <1>2 DEF vars, sessionVars, poolVars, Linked, Fresh, AllocateAwaited, ReleaseAwaited,
              HeldIsReserved, GivenBack, OneTeardown, Listed
<1>3. QED
  BY <1>1, <1>2

-----------------------------------------------------------------------------
(* A step of the composition is a step of each part                        *)

\* The orchestrator's part of a step, ...
LEMMA NextIsSessionStep == [Next]_vars => [Session!Next]_sessionVars
<1>1. ASSUME Next
      PROVE  Session!Next \/ UNCHANGED sessionVars
  <2>1. CASE BeginsBridge
    BY <1>1, <2>1 DEF Next, BeginsBridge, Session!Next
  <2>2. CASE AllocationGoesOn
    BY <1>1, <2>2 DEF Next, AllocationGoesOn, Session!Next, Session!Build
  <2>3. CASE AllocationRefused
    BY <1>1, <2>3 DEF Next, AllocationRefused, Session!Next, Session!Build
  <2>4. CASE GoesOn
    BY <1>1, <2>4 DEF Next, GoesOn, OrchestratorActs, BuilderActs, Session!Next
  <2>5. CASE \E a \in Session!Activities : TearsDown(a)
    BY <1>1, <2>5 DEF Next, TearsDown, Session!Next, Session!Teardown
  <2>6. CASE ReleaseGoesOn \/ OthersAct \/ OthersGoOn \/ XServersAct
    BY <2>6 DEF ReleaseGoesOn, OthersAct, OthersGoOn, XServersAct
  <2>7. QED
    BY <1>1, <2>1, <2>2, <2>3, <2>4, <2>5, <2>6 DEF Next
<1>2. QED
  BY <1>1 DEF vars

\* ... and the pool's.
LEMMA NextIsPoolStep == [Next]_vars => [Pool!Next]_poolVars
<1>1. ASSUME Next
      PROVE  Pool!Next \/ UNCHANGED poolVars
  <2>1. CASE BeginsBridge
    BY <2>1 DEF BeginsBridge, Allocates, Pool!Next, Pool!Begin
  <2>2. CASE AllocationGoesOn
    BY <2>2 DEF AllocationGoesOn, Pool!Next, Pool!Releasers
  <2>3. CASE GoesOn
    BY <2>3 DEF GoesOn, ReleasesWithTeardown, Pool!Next, Pool!Begin
  <2>4. CASE ReleaseGoesOn
    BY <2>4 DEF ReleaseGoesOn, Pool!Next, Pool!Releasers
  <2>5. CASE OthersAct
    BY <2>5 DEF OthersAct, Pool!Next, Pool!Begin, Session!Activities
  <2>6. CASE OthersGoOn
    BY <2>6 DEF OthersGoOn, Pool!Next
  <2>7. CASE XServersAct
    BY <2>7 DEF XServersAct, Pool!Next
  <2>8. CASE AllocationRefused \/ \E a \in Session!Activities : TearsDown(a)
    BY <2>8 DEF AllocationRefused, TearsDown
  <2>9. QED
    BY <1>1, <2>1, <2>2, <2>3, <2>4, <2>5, <2>6, <2>7, <2>8 DEF Next
<1>2. QED
  BY <1>1 DEF vars

\* The composition adds nothing to its parts: the session behaves as
\* SessionOrchestrator allows, so that what is proved of the orchestrator alone
\* holds of it on its pool.
THEOREM SessionIsOrchestrator == Spec => Session!Spec
<1>1. [Next]_vars => [Session!Next]_(Session!vars)
  BY NextIsSessionStep
     DEF Session!vars, Session!session, Session!bridge, Session!browsers,
         Session!checks, sessionVars
<1>2. Init => Session!Init
  BY DEF Init
<1>3. QED
  BY <1>1, <1>2, PTL DEF Spec, Session!Spec

\* And the pool behaves as SessionResourceManager allows: the orchestrator and
\* its neighbours call it when its contract lets them.
THEOREM PoolIsResourceManager == Spec => Pool!Spec
<1>1. [Next]_vars => [Pool!Next]_(Pool!vars)
  BY NextIsPoolStep DEF Pool!vars, poolVars
<1>2. Init => Pool!Init
  BY DEF Init
<1>3. QED
  BY <1>1, <1>2, PTL DEF Spec, Pool!Spec

-----------------------------------------------------------------------------
(* The neighbours                                                          *)

\* What a neighbour may do, as far as its release() goes.
ReleasesOnce(s) ==
  \A a \in Session!Activities : rel[s][a] # 0 => a = "stop" /\ s \in reservations

\* The session's own steps leave its neighbours alone.
LEMMA OwnLeavesOthers ==
  ASSUME S!EInv, P!TypeInv, Linked, NEW s \in Others,
         BeginsBridge \/ AllocationGoesOn \/ AllocationRefused \/ ReleaseGoesOn \/ GoesOn
           \/ (\E a \in Session!Activities : TearsDown(a))
  PROVE  Untouched(s)
<1>0. s # Own /\ s \in (Others \cup {Own}) \ {Own}
  BY SessionsAssumption
<1>1. CASE UNCHANGED poolVars
  BY <1>1 DEF poolVars, Untouched
<1>2. CASE Pool!AllocateReal(Own) \/ Pool!AllocateExhausted(Own)
  BY <1>0, <1>2, PoolFacts DEF Pool!AllocateReal, Pool!AllocateExhausted, Untouched
<1>3. CASE Pool!AllocateStep(Own)
  BY <1>0, <1>3, AllocateStepMeans
<1>4. ASSUME NEW c \in Pool!Releasers, Pool!ReleaseContinues(Own, c)
      PROVE  Untouched(s)
  BY <1>0, <1>4, ReleaseContinuesMeans
<1>5. ASSUME NEW a \in Session!Activities, Pool!Release(Own, a)
      PROVE  Untouched(s)
  BY <1>0, <1>5, ReleaseMeans
<1>6. QED
  BY <1>1, <1>2, <1>3, <1>4, <1>5
     DEF BeginsBridge, Allocates, AllocationGoesOn, AllocationRefused, ReleaseGoesOn,
         GoesOn, ReleasesWithTeardown, TearsDown, Pool!Releasers

\* What a neighbour does to itself.
LEMMA NeighbourReleasesOnce ==
  ASSUME P!TypeInv, NEW s \in Others, ReleasesOnce(s),
         \/ Pool!AllocateReal(s) \/ Pool!AllocateDryRun(s) \/ Pool!AllocateExhausted(s)
         \/ Pool!Release(s, "stop") \/ Pool!AllocateStep(s)
         \/ \E c \in Pool!Releasers : Pool!ReleaseContinues(s, c)
  PROVE  ReleasesOnce(s)'
<1> USE PoolFacts DEF ReleasesOnce, Session!Activities
<1>1. CASE Pool!AllocateReal(s) \/ Pool!AllocateDryRun(s) \/ Pool!AllocateExhausted(s)
  BY <1>1 DEF Pool!AllocateReal, Pool!AllocateDryRun, Pool!AllocateExhausted
<1>2. CASE Pool!Release(s, "stop")
  BY <1>2, ReleaseMeans DEF Pool!Releasers
<1>3. CASE Pool!AllocateStep(s)
  BY <1>3, AllocateStepMeans
<1>4. ASSUME NEW c \in Pool!Releasers, Pool!ReleaseContinues(s, c)
      PROVE  ReleasesOnce(s)'
  <2>1. CASE c = Pool!Undo
    BY <1>4, <2>1, ReleaseContinuesMeans DEF Pool!Releasers, Pool!Undo
  <2>2. CASE c # Pool!Undo
    <3>1. c = "stop"
      BY <1>4, <2>2, ReleaseContinuesMeans DEF Pool!Releasers
    <3>2. QED
      BY <1>4, <2>2, <3>1, ReleaseContinuesMeans DEF Pool!Releasers
  <2>3. QED
    BY <2>1, <2>2
<1>5. QED
  BY <1>1, <1>2, <1>3, <1>4

\* And to each other.
LEMMA NeighbourLeavesOthers ==
  ASSUME P!TypeInv, NEW s \in Others, NEW t \in Others \ {s},
         \/ Pool!AllocateReal(t) \/ Pool!AllocateDryRun(t) \/ Pool!AllocateExhausted(t)
         \/ Pool!Release(t, "stop") \/ Pool!AllocateStep(t)
         \/ \E c \in Pool!Releasers : Pool!ReleaseContinues(t, c)
  PROVE  Untouched(s)
<1>0. s \in (Others \cup {Own}) \ {t}
  OBVIOUS
<1>1. CASE Pool!AllocateReal(t) \/ Pool!AllocateDryRun(t) \/ Pool!AllocateExhausted(t)
  BY <1>0, <1>1, PoolFacts
     DEF Pool!AllocateReal, Pool!AllocateDryRun, Pool!AllocateExhausted, Untouched
<1>2. CASE Pool!Release(t, "stop")
  BY <1>0, <1>2, ReleaseMeans DEF Session!Activities
<1>3. CASE Pool!AllocateStep(t)
  BY <1>0, <1>3, AllocateStepMeans
<1>4. ASSUME NEW c \in Pool!Releasers, Pool!ReleaseContinues(t, c)
      PROVE  Untouched(s)
  BY <1>0, <1>4, ReleaseContinuesMeans
<1>5. QED
  BY <1>1, <1>2, <1>3, <1>4

\* Each neighbour goes on calling release() from one place.
LEMMA NeighboursStep ==
  ASSUME S!EInv, P!TypeInv, Linked, NeighboursReleaseOnce, [Next]_vars
  PROVE  NeighboursReleaseOnce'
<1> SUFFICES ASSUME NEW s \in Others
             PROVE  ReleasesOnce(s)'
  BY DEF NeighboursReleaseOnce, ReleasesOnce
<1>0. ReleasesOnce(s)
  BY DEF NeighboursReleaseOnce, ReleasesOnce
<1>1. CASE Untouched(s)
  BY <1>0, <1>1 DEF Untouched, ReleasesOnce
<1>2. CASE OthersAct \/ OthersGoOn
  <2>1. PICK t \in Others :
          \/ Pool!AllocateReal(t) \/ Pool!AllocateDryRun(t) \/ Pool!AllocateExhausted(t)
          \/ Pool!Release(t, "stop") \/ Pool!AllocateStep(t)
          \/ \E c \in Pool!Releasers : Pool!ReleaseContinues(t, c)
    BY <1>2 DEF OthersAct, OthersGoOn
  <2>2. CASE t = s
    BY <1>0, <2>1, <2>2, NeighbourReleasesOnce
  <2>3. CASE t # s
    <3>1. t \in Others /\ s \in Others \ {t}
      BY <2>3
    <3>2. Untouched(s)
      BY <2>1, <2>3, NeighbourLeavesOthers
    <3>3. QED
      BY <1>1, <3>2
  <2>4. QED
    BY <2>2, <2>3
<1>3. CASE XServersAct
  BY <1>1, <1>3
     DEF XServersAct, Pool!Environment, Pool!XvfbBoots, Pool!XvfbExits,
         Pool!XvfbCrashes, Pool!XvfbCloses, Pool!OrphanBoots, Pool!OrphanExits,
         Pool!XvfbUnchanged, Untouched
<1>4. CASE UNCHANGED vars
  BY <1>1, <1>4 DEF vars, poolVars, Untouched
<1>5. CASE BeginsBridge \/ AllocationGoesOn \/ AllocationRefused \/ ReleaseGoesOn \/ GoesOn
             \/ (\E a \in Session!Activities : TearsDown(a))
  BY <1>1, <1>5, OwnLeavesOthers
<1>6. QED
  BY <1>2, <1>3, <1>4, <1>5 DEF Next

-----------------------------------------------------------------------------
(* The displays of a session that is not interrupted                       *)

\* For the two instances of the resource manager.
LEMMA SameRelease ==
  ASSUME NEW s \in Others \cup {Own}, NEW c \in Session!Activities
  PROVE  P!Release(s, c) <=> Pool!Release(s, c)
BY Zenon
     DEF Pool!Release, P!Release, Pool!ReleaseLoop, P!ReleaseLoop, Pool!ReleaseAwaits,
         P!ReleaseAwaits, Pool!ReleaseEnds, P!ReleaseEnds, Pool!MustAwait, P!MustAwait,
         Pool!IsLowest, P!IsLowest, Pool!Running, P!Running, Pool!Undo, P!Undo,
         Pool!Releasers, P!Releasers, Pool!Sides, P!Sides, Pool!Pair, P!Pair,
         Pool!NoDisplay, P!NoDisplay

\* One release() of each session at a time.
LEMMA ReleasesOneAtATime ==
  ASSUME Linked, NeighboursReleaseOnce, ~interrupted
  PROVE  P!OneAtATime
<1>1. \A c, e \in Session!Activities : rel[Own][c] # 0 /\ rel[Own][e] # 0 => c = e
  BY DEF Linked, ReleaseAwaited, OneTeardown
<1>2. \A s \in Others : \A c, e \in Session!Activities :
        rel[s][c] # 0 /\ rel[s][e] # 0 => c = e
  BY DEF NeighboursReleaseOnce
<1>3. QED
  BY <1>1, <1>2 DEF P!OneAtATime

\* A second release() that began would be seen afterwards: it waits beside the
\* first, or has dropped the reservation under it.
LEMMA NoOverlap ==
  ASSUME P!TypeInv, P!ReapedInv, Linked', NeighboursReleaseOnce', ~interrupted'
  PROVE  ~P!Overlaps
<1> SUFFICES ASSUME NEW s \in Others \cup {Own}, NEW c \in Session!Activities,
                    P!Release(s, c), ~P!NoRelease(s)
             PROVE  FALSE
  BY DEF P!Overlaps
<1>1. Pool!Release(s, c)
  BY SameRelease
<1>2. /\ s \in reservations /\ rel[s][c] = 0
      /\ \A o \in Pool!Releasers \ {c} : rel'[s][o] = rel[s][o]
      /\ \/ rel'[s][c] # 0 /\ reservations' = reservations
         \/ rel'[s][c] = 0 /\ reservations' = reservations \ {s}
  BY <1>1, ReleaseMeans
<1>3. PICK e \in P!Releasers : rel[s][e] # 0
  BY DEF P!NoRelease
<1>4. e \in Session!Activities \ {c}
  <2>1. e # P!Undo
    BY <1>2, <1>3 DEF P!ReapedInv, P!ExclusiveInv, P!Phases
  <2>2. QED
    BY <1>2, <1>3, <2>1 DEF P!Releasers
<1>5. rel'[s][e] # 0
  BY <1>2, <1>3, <1>4 DEF Pool!Releasers
<1>6. CASE s \in Others
  BY <1>2, <1>4, <1>5, <1>6 DEF NeighboursReleaseOnce
<1>7. CASE s = Own
  BY <1>2, <1>4, <1>5, <1>7 DEF Linked, ReleaseAwaited, OneTeardown
<1>8. QED
  BY <1>6, <1>7

\* A session that was interrupted remains so.
LEMMA InterruptedStays ==
  ASSUME S!EInv, [Next]_vars, interrupted
  PROVE  interrupted'
<1>1. CASE GoesOn
  BY <1>1, OrchestratorAdvances DEF GoesOn, Advances
<1>2. CASE BeginsBridge \/ AllocationGoesOn \/ AllocationRefused
           \/ (\E a \in Session!Activities : TearsDown(a))
  BY <1>2
     DEF BeginsBridge, Session!Start, Session!Wakes, AllocationGoesOn, AllocationRefused,
         Session!Allocated, Session!StageFails, TearsDown, Session!TaskDone, sessionVars
<1>3. CASE ReleaseGoesOn \/ OthersAct \/ OthersGoOn \/ XServersAct \/ UNCHANGED vars
  BY <1>3 DEF ReleaseGoesOn, OthersAct, OthersGoOn, XServersAct, vars, sessionVars
<1>4. QED
  BY <1>1, <1>2, <1>3 DEF Next

\* Nothing is held, reserved or under way at first.
LEMMA PoolInvInit == Init => PoolInv
<1> SUFFICES ASSUME Init
             PROVE  PoolInv
  OBVIOUS
<1> USE DEF Init
<1>1. S!LInv
  BY S!LInvInit, SameSession, Assumed
<1>2. P!ReapedInv
  BY P!ReapedInvInit, SamePool, Assumed
<1>3. P!TypeInv
  BY <1>2 DEF P!ReapedInv, P!ExclusiveInv
<1>4. /\ pc = [a \in Session!Activities |-> "idle"]
      /\ tasks = [a \in Session!Activities |-> {}]
      /\ held = {}
  BY DEF Session!Init
<1>5. /\ reservations = {}
      /\ rel = [s \in Others \cup {Own} |-> [c \in Pool!Releasers |-> 0]]
      /\ alloc = [s \in Others \cup {Own} |-> "idle"]
  BY DEF Pool!Init
<1>6. /\ ~Listed
      /\ alloc[Own] = "idle"
      /\ \A s \in Others \cup {Own}, c \in Pool!Releasers : rel[s][c] = 0
  BY <1>4, <1>5 DEF Listed
<1>7. Linked
  BY <1>4, <1>5, <1>6
     DEF Linked, Fresh, AllocateAwaited, ReleaseAwaited, HeldIsReserved, GivenBack,
         OneTeardown, Listed, Pool!Releasers, Session!Activities
<1>8. NeighboursReleaseOnce
  BY <1>6 DEF NeighboursReleaseOnce, Pool!Releasers
<1>9. QED
  BY <1>1, <1>2, <1>3, <1>7, <1>8 DEF PoolInv, PoolKept

\* Each part keeps its own invariant; Linked keeps what the pool asks of its
\* callers true, and the pool keeps its promises to callers of that kind.
THEOREM PoolInvStep == PoolInv /\ [Next]_vars => PoolInv'
<1> SUFFICES ASSUME PoolInv, [Next]_vars
             PROVE  PoolInv'
  OBVIOUS
<1> USE DEF PoolInv
<1>0. S!EInv
  BY DEF S!LInv
<1>1. S!LInv'
  BY NextIsSessionStep, SessionStep
<1>2. P!TypeInv'
  BY NextIsPoolStep, PoolStep
<1>3. Linked' /\ NeighboursReleaseOnce'
  BY <1>0, LinkedStep, NeighboursStep
<1>4. ASSUME ~interrupted'
      PROVE  P!ReapedInv'
  <2>1. ~interrupted
    BY <1>0, <1>4, InterruptedStays
  <2>2. P!ReapedInv
    BY <2>1 DEF PoolKept
  <2>3. P!OneAtATime /\ ~P!Overlaps
    BY <1>3, <1>4, <2>1, <2>2, ReleasesOneAtATime, NoOverlap
  <2>4. QED
    BY <2>2, <2>3, PoolStaysReaped, NextIsPoolStep
<1>5. QED
  BY <1>1, <1>2, <1>3, <1>4 DEF PoolKept

-----------------------------------------------------------------------------
(* The properties                                                          *)

\* The pool knows nothing of a session that holds nothing and tears nothing
\* down, outside allocate().
LEMMA Forgotten ==
  ASSUME PoolInv, "reservation" \notin held, ~Listed,
         \A a \in Session!Builders : pc[a] # "allocate"
  PROVE  Pool!MayAllocate(Own)
BY DEF PoolInv, Linked, AllocateAwaited, ReleaseAwaited, HeldIsReserved, Listed,
       Pool!MayAllocate, Pool!NoRelease, Pool!Releasers

\* The orchestrator keeps the pool's contract in every interleaving: a reconnect
\* that is about to call allocate() has nothing reserved and nothing being
\* released.
THEOREM KeepsContract == Spec => []AllocatesAfresh
<1>1. PoolInv => AllocatesAfresh
  <2> SUFFICES ASSUME PoolInv, pc["reconnect"] = "sleep"
               PROVE  Pool!MayAllocate(Own)
    BY DEF AllocatesAfresh
  <2>1. pc["start"] = "done"
    BY SessionFacts DEF PoolInv, S!LInv
  <2>2. "reservation" \notin held /\ ~Listed
    BY DEF PoolInv, Linked, Fresh
  <2>3. QED
    BY <2>1, <2>2, Forgotten DEF Session!Builders
<1>2. QED
  BY <1>1, PoolInvInit, PoolInvStep, PTL DEF Spec

\* For the two instances of the resource manager.
LEMMA SameClaims ==
  /\ Pool!UsedIsTaken <=> P!UsedIsTaken
  /\ Pool!DisplayExclusive <=> P!DisplayExclusive
BY DEF Pool!UsedIsTaken, P!UsedIsTaken, Pool!DisplayExclusive, P!DisplayExclusive,
       Pool!Claims, P!Claims, Pool!Unfreed, P!Unfreed, Pool!Sides, P!Sides, Pool!Undo,
       P!Undo, Pool!Releasers, P!Releasers

\* What the pool promises to a session that is not interrupted.
LEMMA Kept == PoolInv /\ ~interrupted => P!UsedIsTaken /\ P!DisplayExclusive
BY DEF PoolInv, PoolKept, P!ReapedInv, P!ExclusiveInv

\* Whatever the session does, as long as its stop() interrupts nothing, no
\* number that a session uses is free, and none is used twice.
THEOREM NeighboursSafe == Spec => []NeighboursKeepDisplays
<1>1. PoolInv => NeighboursKeepDisplays
  BY Kept, SameClaims DEF NeighboursKeepDisplays
<1>2. QED
  BY <1>1, PoolInvInit, PoolInvStep, PTL DEF Spec

\* BRIDGING of a session that nobody stopped means two displays of its own.
THEOREM BridgeOnDisplays == Spec => []BridgeHasDisplays
<1>1. PoolInv => BridgeHasDisplays
  <2> SUFFICES ASSUME PoolInv, status = "BRIDGING", ~stopped
               PROVE  /\ Own \in reservations
                      /\ Pool!Unfreed(Own) = Pool!Sides
                      /\ Pool!Claims(Own) \subseteq allocatedDisplayNumbers
    BY DEF BridgeHasDisplays
  <2>1. /\ pc["start"] = "done" /\ pc["reconnect"] = "idle"
        /\ "reservation" \in held
        /\ tasks["reconnect"] = {}
    BY DEF PoolInv, S!LInv, S!EInv, S!IInv, S!QuietIsLive, S!Quiet, S!Acquired, S!Wanted,
           S!NothingTornDown
  <2>2. tasks["start"] = {} /\ tasks["stop"] = {} /\ ~interrupted
    BY SessionFacts DEF PoolInv, S!LInv
  <2>3. ~Listed
    BY <2>1, <2>2 DEF Listed, Session!Activities
  <2>4. Own \in reservations
    BY <2>1, <2>3 DEF PoolInv, Linked, HeldIsReserved
  <2>5. \A c \in Pool!Releasers : rel[Own][c] = 0
    BY <2>1, <2>3 DEF PoolInv, Linked, ReleaseAwaited, AllocateAwaited, Listed,
                      Pool!Releasers, Session!Builders
  <2>6. Pool!Unfreed(Own) = Pool!Sides
    BY <2>4, <2>5 DEF Pool!Unfreed, Pool!Sides
  <2>7. Pool!Claims(Own) \subseteq allocatedDisplayNumbers
    BY <2>2, Kept, SameClaims DEF Pool!UsedIsTaken
  <2>8. QED
    BY <2>4, <2>6, <2>7
<1>2. QED
  BY <1>1, PoolInvInit, PoolInvStep, PTL DEF Spec

\* When such a session is over, the pool has forgotten it: it claims no number,
\* and the X servers that its reservation recorded have gone.
THEOREM Forgets == Spec => []PoolForgets
<1>1. PoolInv => PoolForgets
  <2> SUFFICES ASSUME PoolInv, up, Session!AllEnded, ~interrupted
               PROVE  /\ Own \notin reservations
                      /\ Pool!Claims(Own) = {}
                      /\ \A i \in Pool!Sides : xvfb[Own][i] \notin Pool!Running
    BY DEF PoolForgets
  <2>1. \A a \in Session!Activities : pc[a] \in {"idle", "done"}
    BY DEF Session!AllEnded, Session!AtRest
  <2>2. ~Listed
    BY <2>1, SessionFacts DEF PoolInv, S!LInv, Listed, Session!Teardowns
  <2>3. "reservation" \notin held
    <3>1. S!CleanEnd
      BY S!EndIsClean, Assumed DEF PoolInv
    <3>2. S!AllEnded
      BY DEF Session!AllEnded, S!AllEnded, Session!AtRest, S!AtRest,
             Session!Activities, S!Activities
    <3>3. QED
      BY <3>1, <3>2 DEF S!CleanEnd
  <2>4. Pool!MayAllocate(Own)
    BY <2>1, <2>2, <2>3, Forgotten DEF Session!Builders, Session!Activities
  <2>5. P!NothingLeft
    BY DEF PoolInv, PoolKept, P!ReapedInv
  <2>6. \A i \in Pool!Sides : xvfb[Own][i] = "none"
    BY <2>4, <2>5
       DEF P!NothingLeft, P!MayAllocate, P!NoRelease, P!Releasers, P!Undo, P!Sides,
           Pool!MayAllocate, Pool!NoRelease, Pool!Releasers, Pool!Undo, Pool!Sides
  <2>7. Pool!Claims(Own) = {}
    BY <2>4 DEF Pool!Claims, Pool!Unfreed, Pool!MayAllocate, Pool!NoRelease,
                Pool!Releasers
  <2>8. QED
    BY <2>4, <2>6, <2>7 DEF Pool!MayAllocate, Pool!Running
<1>2. QED
  BY <1>1, PoolInvInit, PoolInvStep, PTL DEF Spec
=============================================================================
