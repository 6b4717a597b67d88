---------------------------- MODULE SessionOnPool ----------------------------
(***************************************************************************)
(* A session's orchestrator and the display pool that it shares with the   *)
(* other sessions of its worker.  SessionOrchestrator leaves open how long *)
(* allocate() and release() take and how they end; SessionResourceManager  *)
(* leaves open when a session calls them, but for a contract.  Here each   *)
(* is the other's environment for the session Own, and the contract        *)
(* becomes a property.  The other sessions keep to the pool's contract.    *)
(***************************************************************************)
EXTENDS Naturals, FiniteSets

CONSTANTS
  Own,           \* the session whose orchestrator is here
  Others,        \* the other sessions of the worker
  DryRun,        \* those of them with options.dryRun
  EnableAudio,
  EnableVideo,   \* for all the sessions
  Displays,
  VideoDevices,
  MaxAttempts,
  Ticks,
  Slow,
  MayCrash,
  MaxOrphans

ASSUME SessionsAssumption == Own \notin Others /\ DryRun \subseteq Others
ASSUME OptionsAssumption ==
  MaxAttempts \in Nat \ {0} /\ EnableAudio \in BOOLEAN /\ EnableVideo \in BOOLEAN
ASSUME PoolAssumption == Displays \subseteq Nat \ {0} /\ VideoDevices \subseteq Nat
ASSUME SlowAssumption == Slow \subseteq {"source", "target"}
ASSUME EnvironmentAssumption == MayCrash \in BOOLEAN /\ MaxOrphans \in Nat

VARIABLES
  status, stopped, notified, monitor, held, signalled, agent, own, late, leaked,
  outlived, pc, attempt, tasks, tick, moving, up, interrupted,
  allocatedDisplayNumbers, allocatedVideoDevices, reservations, display,
  videoDevices, alloc, rel, xvfb, killed, orphans, staleLocks

sessionVars == <<status, stopped, notified, monitor, held, signalled, agent, own, late,
                 leaked, outlived, pc, attempt, tasks, tick, moving, up, interrupted>>
poolVars == <<allocatedDisplayNumbers, allocatedVideoDevices, reservations, display,
              videoDevices, alloc, rel, xvfb, killed, orphans, staleLocks>>
vars == <<sessionVars, poolVars>>

Session == INSTANCE SessionOrchestrator

\* A teardown of Own belongs to one of the orchestrator's activities; of the
\* other sessions only one at a time is of interest.
Pool == INSTANCE SessionResourceManager WITH
  Sessions <- Others \cup {Own}, Callers <- Session!Activities,
  WithVideo <- IF EnableVideo THEN Others \cup {Own} ELSE {}

Init == Session!Init /\ Pool!Init

-----------------------------------------------------------------------------
\* allocate(Own) has thrown before its first await, or at the end of its catch:
\* nothing is under way in the pool for the builder that waits for it.
Refused(a) == pc[a] = "allocate" /\ alloc[Own] = "idle" /\ rel[Own][Pool!Undo] = 0

\* establishBridge() calls allocate().  With one free number it takes that one
\* and throws, with none it only throws.
Allocates ==
  \/ Pool!AllocateReal(Own)
  \/ Pool!AllocateExhausted(Own)
  \/ Pool!FreeDisplays = {} /\ UNCHANGED poolVars

BeginsBridge == (Session!Start \/ Session!Wakes) /\ Allocates

\* Mutant: release() is called by stop() only.
ReleasesOnStop ==
  IF Own \in reservations /\ tasks'["stop"] # tasks["stop"]
  THEN Pool!Release(Own, "stop")
  ELSE UNCHANGED poolVars

\* teardownCurrentAttempt() calls release() in the stretch that begins it.
ReleasesWithTeardown ==
  IF Own \in reservations /\ \E a \in Session!Activities : tasks'[a] \ tasks[a] # {}
  THEN \E a \in Session!Activities : tasks'[a] \ tasks[a] # {} /\ Pool!Release(Own, a)
  ELSE UNCHANGED poolVars

\* The pool goes on with allocate(Own).  When that returns or throws, the code
\* of the builder that awaits it runs in the same stretch.
AllocationGoesOn ==
  /\ Pool!AllocateStep(Own) \/ Pool!ReleaseContinues(Own, Pool!Undo)
  /\ IF alloc'[Own] # "idle" \/ rel'[Own][Pool!Undo] # 0
     THEN UNCHANGED sessionVars
     ELSE \E a \in Session!Builders :
            /\ pc[a] = "allocate"
            /\ IF Own \in reservations' THEN Session!Allocated(a) ELSE Session!StageFails(a)

AllocationRefused ==
  \E a \in Session!Builders : Refused(a) /\ Session!StageFails(a) /\ UNCHANGED poolVars

ReleaseGoesOn ==
  /\ \E a \in Session!Activities : Pool!ReleaseContinues(Own, a)
  /\ UNCHANGED sessionVars

\* Mutant: the teardown does not wait for release().
TearsDownAtOnce(a) ==
  /\ \E part \in Session!Parts : Session!TaskDone(a, part)
  /\ UNCHANGED poolVars

\* Promise.allSettled() counts release() as done when it has returned.
TearsDown(a) ==
  /\ \E part \in Session!Parts :
       /\ part = "reservation" => rel[Own][a] = 0
       /\ Session!TaskDone(a, part)
  /\ UNCHANGED poolVars

\* The steps of the orchestrator that do not await the pool; those that begin
\* a teardown take release() with them.  A foreign signal is not among them:
\* what SignalEnds says of the Xvfbs, XvfbCrashes and MustAwait say of each here.
BuilderActs(a) ==
  (pc[a] # "allocate" /\ Session!Build(a)) \/ Session!FailEnds(a)

OrchestratorActs ==
  \/ \E a \in Session!Builders : BuilderActs(a)
  \/ Session!NextAttempt \/ Session!StopCalled \/ Session!StopEnds
  \/ \E ag \in Session!Agents : Session!LateLaunch(ag) \/ Session!BrowserDies(ag)
  \/ \E t \in Ticks : Session!TickFires(t) \/ Session!Tick(t)

GoesOn == OrchestratorActs /\ ReleasesWithTeardown

OthersAct ==
  /\ \E s \in Others :
       \/ Pool!AllocateReal(s) \/ Pool!AllocateDryRun(s) \/ Pool!AllocateExhausted(s)
       \/ Pool!Release(s, "stop")
  /\ UNCHANGED sessionVars

OthersGoOn ==
  /\ \E s \in Others :
       Pool!AllocateStep(s) \/ \E c \in Pool!Releasers : Pool!ReleaseContinues(s, c)
  /\ UNCHANGED sessionVars

XvfbsStop ==
  /\ \E s \in Others \cup {Own}, i \in Pool!Sides : Pool!XvfbCloses(s, i)
  /\ UNCHANGED sessionVars

XServersAct ==
  /\ \/ \E s \in Others \cup {Own} : Pool!Environment(s)
     \/ \E d \in Displays : Pool!OrphanBoots(d) \/ Pool!OrphanExits(d)
  /\ UNCHANGED sessionVars

\* A refused allocate() is noticed before anything else happens.
Next ==
  /\ up
  /\ IF \E a \in Session!Builders : Refused(a)
     THEN AllocationRefused
     ELSE \/ BeginsBridge \/ AllocationGoesOn \/ ReleaseGoesOn \/ GoesOn
          \/ \E a \in Session!Activities : TearsDown(a)
          \/ OthersAct \/ OthersGoOn \/ XServersAct

Spec == Init /\ [][Next]_vars

\* What SessionOrchestrator and SessionResourceManager assume, but for the ends
\* of allocate() and release(): those come from the pool.
Fairness ==
  /\ WF_vars(up /\ AllocationGoesOn) /\ WF_vars(up /\ AllocationRefused)
  /\ WF_vars(up /\ ReleaseGoesOn) /\ WF_vars(up /\ OthersGoOn)
  /\ WF_vars(up /\ Session!Wakes /\ Allocates) /\ WF_vars(up /\ XvfbsStop)
  /\ \A a \in Session!Builders : WF_vars(up /\ BuilderActs(a) /\ ReleasesWithTeardown)
  /\ WF_vars(up /\ Session!NextAttempt /\ ReleasesWithTeardown)
  /\ WF_vars(up /\ Session!StopEnds /\ ReleasesWithTeardown)
  /\ \A a \in Session!Activities : SF_vars(up /\ TearsDown(a))
  /\ \A t \in Ticks : WF_vars(up /\ Session!Tick(t) /\ ReleasesWithTeardown)

FairSpec == Spec /\ Fairness

-----------------------------------------------------------------------------
(* Properties                                                              *)

\* The contract of the pool, kept by the orchestrator: when it is about to call
\* allocate(), nothing of the session is left in the pool, neither a reservation
\* nor a release() that still runs; also when stop() came in between.
AllocatesAfresh == pc["reconnect"] = "sleep" => Pool!MayAllocate(Own)

\* A bridge that is reported and not stopped has its own two displays: they are
\* reserved, marked, and no release() is taking them.
BridgeHasDisplays ==
  status = "BRIDGING" /\ ~stopped =>
    /\ Own \in reservations
    /\ Pool!Unfreed(Own) = Pool!Sides
    /\ Pool!Claims(Own) \subseteq allocatedDisplayNumbers

\* The browsers are launched when the session's own X servers have answered on
\* its displays, not while the lock file of another session's server that is
\* being stopped stands for them.
DisplaysReady == own # {} => \A i \in Pool!Sides : xvfb[Own][i] # "booting"

\* A session whose stop(), if any, found start() and the reconnects at rest
\* never gives away a number that another session uses.
NeighboursKeepDisplays == ~interrupted => Pool!UsedIsTaken /\ Pool!DisplayExclusive

\* When such a session is over, the pool has forgotten it: it has no reservation,
\* claims no number, and no X server that its reservation recorded runs.  The
\* number that an exhausted allocate() loses and a server that was never recorded
\* are not spoken of.
PoolForgets ==
  up /\ Session!AllEnded /\ ~interrupted =>
    /\ Own \notin reservations
    /\ Pool!Claims(Own) = {}
    /\ \A i \in Pool!Sides : xvfb[Own][i] \notin Pool!Running

\* The X servers of the session that a foreign signal has ended.
Crashed == \E i \in Pool!Sides : xvfb[Own][i] = "crashed"

\* allocate() returns or enters its catch, whatever the X servers do.
AllocateSettles == alloc[Own] # "idle" ~> alloc[Own] = "idle" \/ ~up

\* What stop() or a failure of the session began comes to its end, with the
\* browsers closed and the X servers stopped one after the other, also when two
\* teardowns wait for the same process; unless an Xvfb of the session was ended
\* by a foreign signal, whose close event is past.
StopCompletes ==
  stopped ~> (\A a \in Session!Activities : Session!AtRest(a)) \/ Crashed \/ ~up
=============================================================================
