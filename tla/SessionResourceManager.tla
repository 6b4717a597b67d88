----------------------- MODULE SessionResourceManager -----------------------
(***************************************************************************)
(* The pool of Xvfb displays and virtual cameras that all sessions of one  *)
(* worker share: class SessionResourceManager and terminateProcess().      *)
(*                                                                         *)
(* The methods run on one JavaScript thread, so they interleave only where *)
(* they await I/O: the start of an Xvfb, access() on a device, the `close' *)
(* event of a process.  An action is the code between two such awaits.     *)
(*                                                                         *)
(* What the callers do is the contract SessionOrchestrator keeps: a        *)
(* session allocates only when none of its releases runs, and calls        *)
(* release() from as many places at once as Callers has members.           *)
(***************************************************************************)
EXTENDS Naturals, FiniteSets

CONSTANTS
  Sessions,      \* the session ids that use this worker
  DryRun,        \* those with options.dryRun
  WithVideo,     \* those with options.enableVideo
  Displays,      \* the X display numbers of the pool
  VideoDevices,  \* WORKER_VIDEO_DEVICES, numbered in their configured order
  Callers,       \* the teardowns of one session that may overlap
  MayCrash,      \* whether an Xvfb may die under a running session
  MaxOrphans     \* bound: past it, an Xvfb left behind is taken to die at once

ASSUME SessionsAssumption == DryRun \subseteq Sessions /\ WithVideo \subseteq Sessions
ASSUME PoolAssumption == Displays \subseteq Nat \ {0} /\ VideoDevices \subseteq Nat
ASSUME CallersAssumption == "allocate" \notin Callers
ASSUME EnvironmentAssumption == MayCrash \in BOOLEAN /\ MaxOrphans \in Nat

VARIABLES
  allocatedDisplayNumbers,
  allocatedVideoDevices,
  reservations,   \* the keys of the reservations map
  display,        \* display[s][i]: displays[i].displayNumber of s's reservation
  videoDevices,   \* videoDevices[s]: the pair reserved, or selected, for s
  alloc,          \* where allocate(s) awaits: an Xvfb, access(), or nothing
  rel,            \* rel[s][c] = i: c's release awaits the close of process i
  xvfb,           \* xvfb[s][i]: the process behind display i of s
  killed,         \* the i whose process was sent SIGTERM (process.killed)
  orphans,        \* Xvfb processes that no reservation refers to
  staleLocks      \* displays whose lock file outlived its server

vars == <<allocatedDisplayNumbers, allocatedVideoDevices, reservations, display,
          videoDevices, alloc, rel, xvfb, killed, orphans, staleLocks>>

Sides == 1..2             \* [sourceDisplay, targetDisplay]
NoDisplay == 0
Undo == "allocate"        \* releaseReservation() called by allocate()'s catch
Releasers == Callers \cup {Undo}

Running == {"booting", "serving"}
Process == {"none", "exited", "crashed"} \cup Running

Pair(x, y) == [i \in Sides |-> IF i = 1 THEN x ELSE y]

TypeOK ==
  /\ allocatedDisplayNumbers \subseteq Displays
  /\ allocatedVideoDevices \subseteq VideoDevices
  /\ reservations \subseteq Sessions
  /\ display \in [Sessions -> [Sides -> Displays \cup {NoDisplay}]]
  /\ videoDevices \in [Sessions -> SUBSET VideoDevices]
  /\ alloc \in [Sessions -> {"idle", "source", "target", "access"}]
  /\ rel \in [Sessions -> [Releasers -> 0..2]]
  /\ xvfb \in [Sessions -> [Sides -> Process]]
  /\ killed \in [Sessions -> SUBSET Sides]
  /\ orphans \subseteq Displays \X Running
  /\ staleLocks \subseteq Displays

Init ==
  /\ allocatedDisplayNumbers = {}
  /\ allocatedVideoDevices = {}
  /\ reservations = {}
  /\ display = [s \in Sessions |-> Pair(NoDisplay, NoDisplay)]
  /\ videoDevices = [s \in Sessions |-> {}]
  /\ alloc = [s \in Sessions |-> "idle"]
  /\ rel = [s \in Sessions |-> [c \in Releasers |-> 0]]
  /\ xvfb = [s \in Sessions |-> Pair("none", "none")]
  /\ killed = [s \in Sessions |-> {}]
  /\ orphans = {}
  /\ staleLocks = {}

-----------------------------------------------------------------------------
(* Helpers                                                                 *)

IsLowest(n, S) == n \in S /\ \A m \in S : n <= m

\* slice(0, 2) of a list of devices.
FirstTwo(S) == {v \in S : Cardinality({w \in S : w < v}) < 2}

\* Mutant: the loop of reserveDisplay() runs one number too far.
FreeDisplaysOffByOne ==
  (Displays \cup {d + 1 : d \in Displays}) \ allocatedDisplayNumbers
FreeDisplays == Displays \ allocatedDisplayNumbers
FreeDevices == VideoDevices \ allocatedVideoDevices

NoRelease(s) == \A c \in Releasers : rel[s][c] = 0

\* A server answers on d; waitForDisplay() only sees that its files exist.
Served(d) ==
  \/ \E s \in Sessions, i \in Sides : display[s][i] = d /\ xvfb[s][i] = "serving"
  \/ <<d, "serving">> \in orphans
Locked(d) == Served(d) \/ d \in staleLocks

\* Mutant: releaseReservation() returns after the first display.
MustAwaitSource(s, k, p) ==
  {i \in k..1 : p[i] \in Running \cup {"crashed"} /\ i \notin killed[s]}

\* The sides from k on that terminateProcess() will wait for: the process is
\* there, has no exit code and was not killed before.  A process that died by
\* a signal has no exit code either.
MustAwait(s, k, p) ==
  {i \in k..2 : p[i] \in Running \cup {"crashed"} /\ i \notin killed[s]}

-----------------------------------------------------------------------------
(* releaseReservation(): free a display number, stop its Xvfb, await the   *)
(* close; then the other side.  ReleaseLoop runs it for s from side k on,  *)
(* with s's processes p, up to its next await or its end.                  *)

\* Mutant: both numbers are given back before the first await.
ReleaseAwaitsFreesBoth(s, c, k, p) ==
  \E i \in MustAwait(s, k, p) :
    /\ IsLowest(i, MustAwait(s, k, p))
    /\ allocatedDisplayNumbers' = allocatedDisplayNumbers \ {display[s][j] : j \in k..2}
    /\ rel' = [rel EXCEPT ![s][c] = i]
    /\ killed' = [killed EXCEPT ![s] = @ \cup {i}]
    /\ xvfb' = [xvfb EXCEPT ![s] = p]
    /\ UNCHANGED <<reservations, display>>

ReleaseAwaits(s, c, k, p) ==
  \E i \in MustAwait(s, k, p) :
    /\ IsLowest(i, MustAwait(s, k, p))
    /\ allocatedDisplayNumbers' = allocatedDisplayNumbers \ {display[s][j] : j \in k..i}
    /\ rel' = [rel EXCEPT ![s][c] = i]
    /\ killed' = [killed EXCEPT ![s] = IF p[i] = "crashed" THEN @ ELSE @ \cup {i}]
    /\ xvfb' = [xvfb EXCEPT ![s] = p]
    /\ UNCHANGED <<reservations, display>>

\* The reservation object is dropped with the last reference to it.
ReleaseEnds(s, c, k, p) ==
  /\ MustAwait(s, k, p) = {}
  /\ allocatedDisplayNumbers' = allocatedDisplayNumbers \ {display[s][j] : j \in k..2}
  /\ rel' = [rel EXCEPT ![s][c] = 0]
  /\ reservations' = IF c = Undo THEN reservations ELSE reservations \ {s}
  /\ IF \/ \E i \in Sides : p[i] \in Running
        \/ \E o \in Releasers \ {c} : rel[s][o] # 0
     THEN xvfb' = [xvfb EXCEPT ![s] = p] /\ UNCHANGED <<display, killed>>
     ELSE /\ xvfb' = [xvfb EXCEPT ![s] = Pair("none", "none")]
          /\ display' = [display EXCEPT ![s] = Pair(NoDisplay, NoDisplay)]
          /\ killed' = [killed EXCEPT ![s] = {}]

ReleaseLoop(s, c, k, p) == ReleaseAwaits(s, c, k, p) \/ ReleaseEnds(s, c, k, p)

\* Mutant: release() leaves the cameras marked.
ReleaseKeepsDevices(s, c) ==
  /\ s \in reservations
  /\ rel[s][c] = 0
  /\ ReleaseLoop(s, c, 1, xvfb[s])
  /\ UNCHANGED <<allocatedVideoDevices, videoDevices, alloc, orphans, staleLocks>>

\* release(): both the numbers and the map entry belong to whoever runs first,
\* but the entry goes only at the very end.
Release(s, c) ==
  /\ s \in reservations
  /\ rel[s][c] = 0
  /\ allocatedVideoDevices' = allocatedVideoDevices \ videoDevices[s]
  /\ ReleaseLoop(s, c, 1, xvfb[s])
  /\ UNCHANGED <<videoDevices, alloc, orphans, staleLocks>>

\* Mutant: nobody listens for the close of the target's process.
ReleaseContinuesOnce(s, c) ==
  /\ rel[s][c] = 1
  /\ xvfb[s][1] = "exited"
  /\ ReleaseLoop(s, c, 2, xvfb[s])
  /\ UNCHANGED <<allocatedVideoDevices, videoDevices, alloc, orphans, staleLocks>>

\* The close event: the terminateProcess() that waits for it goes on.
ReleaseContinues(s, c) ==
  /\ rel[s][c] # 0
  /\ xvfb[s][rel[s][c]] = "exited"
  /\ ReleaseLoop(s, c, rel[s][c] + 1, xvfb[s])
  /\ UNCHANGED <<allocatedVideoDevices, videoDevices, alloc, orphans, staleLocks>>

-----------------------------------------------------------------------------
(* allocate()                                                              *)

\* An allocate() of a session that has its reservation returns it and is no
\* step of the model.
MayAllocate(s) == s \notin reservations /\ alloc[s] = "idle" /\ NoRelease(s)

\* Mutant: the target's display is looked up but not marked.
ReserveMarksSource(s) ==
  \E d, e \in FreeDisplays :
    /\ IsLowest(d, FreeDisplays)
    /\ IsLowest(e, FreeDisplays \ {d})
    /\ allocatedDisplayNumbers' = allocatedDisplayNumbers \cup {d}
    /\ display' = [display EXCEPT ![s] = Pair(d, e)]

\* reserveDisplay() twice.
ReserveDisplays(s) ==
  \E d, e \in FreeDisplays :
    /\ IsLowest(d, FreeDisplays)
    /\ IsLowest(e, FreeDisplays \ {d})
    /\ allocatedDisplayNumbers' = allocatedDisplayNumbers \cup {d, e}
    /\ display' = [display EXCEPT ![s] = Pair(d, e)]

AllocateReal(s) ==
  /\ s \notin DryRun
  /\ MayAllocate(s)
  /\ ReserveDisplays(s)
  /\ alloc' = [alloc EXCEPT ![s] = "source"]
  /\ xvfb' = [xvfb EXCEPT ![s] = Pair("booting", "none")]
  /\ videoDevices' = [videoDevices EXCEPT ![s] = {}]
  /\ UNCHANGED <<allocatedVideoDevices, reservations, rel, killed, orphans, staleLocks>>

\* A dry run awaits nothing, starts nothing and takes the first two devices
\* without marking them.
AllocateDryRun(s) ==
  /\ s \in DryRun
  /\ MayAllocate(s)
  /\ ReserveDisplays(s)
  /\ videoDevices' = [videoDevices EXCEPT ![s] =
                        IF s \in WithVideo THEN FirstTwo(VideoDevices) ELSE {}]
  /\ reservations' = reservations \cup {s}
  /\ UNCHANGED <<allocatedVideoDevices, alloc, rel, xvfb, killed, orphans, staleLocks>>

\* One free display only: the second reserveDisplay() throws outside the try,
\* and nobody gives the first one back.
AllocateExhausted(s) ==
  /\ MayAllocate(s)
  /\ Cardinality(FreeDisplays) = 1
  /\ allocatedDisplayNumbers' = Displays
  /\ UNCHANGED <<allocatedVideoDevices, reservations, display, videoDevices, alloc,
                 rel, xvfb, killed, orphans, staleLocks>>

\* Mutant: the catch only rethrows.
AllocateFailsKeeps(s, p) ==
  /\ alloc' = [alloc EXCEPT ![s] = "idle"]
  /\ videoDevices' = [videoDevices EXCEPT ![s] = {}]
  /\ xvfb' = [xvfb EXCEPT ![s] = p]
  /\ UNCHANGED <<allocatedDisplayNumbers, reservations, display, rel, killed>>

\* allocate()'s catch, with the processes p that were recorded by then.
AllocateFails(s, p) ==
  /\ alloc' = [alloc EXCEPT ![s] = "idle"]
  /\ videoDevices' = [videoDevices EXCEPT ![s] = {}]
  /\ ReleaseLoop(s, Undo, 1, p)

Waiting(s, i) == alloc[s] = IF i = 1 THEN "source" ELSE "target"

\* One poll of waitForDisplay(): the exit code first, then the files, whoever
\* made them.
PollReady(s, i) ==
  Waiting(s, i) /\ xvfb[s][i] # "exited" /\ Locked(display[s][i])

SourceReady(s) ==
  /\ PollReady(s, 1)
  /\ alloc' = [alloc EXCEPT ![s] = "target"]
  /\ xvfb' = [xvfb EXCEPT ![s][2] = "booting"]
  /\ UNCHANGED <<allocatedDisplayNumbers, allocatedVideoDevices, reservations, display,
                 videoDevices, rel, killed, orphans, staleLocks>>

TargetReadyNoVideo(s) ==
  /\ PollReady(s, 2)
  /\ s \notin WithVideo
  /\ alloc' = [alloc EXCEPT ![s] = "idle"]
  /\ reservations' = reservations \cup {s}
  /\ UNCHANGED <<allocatedDisplayNumbers, allocatedVideoDevices, display, videoDevices,
                 rel, xvfb, killed, orphans, staleLocks>>

\* reserveVideoPair() selects its devices here and marks them only after the
\* awaits of access().
TargetReadyVideo(s) ==
  /\ PollReady(s, 2)
  /\ s \in WithVideo
  /\ Cardinality(FreeDevices) >= 2
  /\ alloc' = [alloc EXCEPT ![s] = "access"]
  /\ videoDevices' = [videoDevices EXCEPT ![s] = FirstTwo(FreeDevices)]
  /\ UNCHANGED <<allocatedDisplayNumbers, allocatedVideoDevices, reservations, display,
                 rel, xvfb, killed, orphans, staleLocks>>

NotEnoughDevices(s) ==
  /\ PollReady(s, 2)
  /\ s \in WithVideo
  /\ Cardinality(FreeDevices) < 2
  /\ AllocateFails(s, xvfb[s])
  /\ UNCHANGED <<allocatedVideoDevices, orphans, staleLocks>>

\* The process of side i is assigned to the reservation only on success: the
\* catch stops the processes of the sides before i and knows no other.
Recorded(s, i) == [xvfb[s] EXCEPT ![i] = "none"]

XvfbStartFails(s, i) ==
  /\ Waiting(s, i)
  /\ xvfb[s][i] = "exited"
  /\ AllocateFails(s, Recorded(s, i))
  /\ UNCHANGED <<allocatedVideoDevices, orphans, staleLocks>>

\* Mutant: the wait has no time limit.
WaitsForever(s, i) == FALSE

\* Five seconds without the files: the process, if it runs, is left behind.
WaitTimesOut(s, i) ==
  /\ Waiting(s, i)
  /\ xvfb[s][i] # "exited"
  /\ orphans' = IF xvfb[s][i] \in Running /\ Cardinality(orphans) < MaxOrphans
                THEN orphans \cup {<<display[s][i], xvfb[s][i]>>}
                ELSE orphans
  /\ AllocateFails(s, Recorded(s, i))
  /\ UNCHANGED <<allocatedVideoDevices, staleLocks>>

DevicesPresent(s) ==
  /\ alloc[s] = "access"
  /\ alloc' = [alloc EXCEPT ![s] = "idle"]
  /\ allocatedVideoDevices' = allocatedVideoDevices \cup videoDevices[s]
  /\ reservations' = reservations \cup {s}
  /\ UNCHANGED <<allocatedDisplayNumbers, display, videoDevices, rel, xvfb, killed,
                 orphans, staleLocks>>

DeviceMissing(s) ==
  /\ alloc[s] = "access"
  /\ AllocateFails(s, xvfb[s])
  /\ UNCHANGED <<allocatedVideoDevices, orphans, staleLocks>>

-----------------------------------------------------------------------------
(* The X servers                                                           *)

XvfbUnchanged ==
  UNCHANGED <<allocatedDisplayNumbers, allocatedVideoDevices, reservations, display,
              videoDevices, alloc, rel, killed>>

\* A server takes over a stale lock but never a living server's display.
XvfbBoots(s, i) ==
  /\ xvfb[s][i] = "booting"
  /\ ~Served(display[s][i])
  /\ xvfb' = [xvfb EXCEPT ![s][i] = "serving"]
  /\ staleLocks' = staleLocks \ {display[s][i]}
  /\ UNCHANGED orphans
  /\ XvfbUnchanged

\* It exits with a code: because it cannot start, or on a fatal error.  A spawn
\* that fails is not modelled: its error event has no listener and ends the worker.
XvfbExits(s, i) ==
  /\ i \notin killed[s]
  /\ xvfb[s][i] \in IF MayCrash THEN Running ELSE {"booting"}
  /\ xvfb' = [xvfb EXCEPT ![s][i] = "exited"]
  /\ UNCHANGED <<orphans, staleLocks>>
  /\ XvfbUnchanged

\* It is killed by a signal that the worker did not send: no exit code, and
\* its lock file stays.
XvfbCrashes(s, i) ==
  /\ MayCrash
  /\ i \notin killed[s]
  /\ xvfb[s][i] = "serving"
  /\ xvfb' = [xvfb EXCEPT ![s][i] = "crashed"]
  /\ staleLocks' = staleLocks \cup {display[s][i]}
  /\ UNCHANGED orphans
  /\ XvfbUnchanged

\* SIGTERM takes effect.
XvfbCloses(s, i) ==
  /\ i \in killed[s]
  /\ xvfb[s][i] \in Running
  /\ xvfb' = [xvfb EXCEPT ![s][i] = "exited"]
  /\ UNCHANGED <<orphans, staleLocks>>
  /\ XvfbUnchanged

OrphanBoots(d) ==
  /\ <<d, "booting">> \in orphans
  /\ ~Served(d)
  /\ orphans' = (orphans \ {<<d, "booting">>}) \cup {<<d, "serving">>}
  /\ staleLocks' = staleLocks \ {d}
  /\ UNCHANGED xvfb
  /\ XvfbUnchanged

OrphanExits(d) ==
  /\ <<d, "booting">> \in orphans
  /\ orphans' = orphans \ {<<d, "booting">>}
  /\ UNCHANGED <<xvfb, staleLocks>>
  /\ XvfbUnchanged

-----------------------------------------------------------------------------
\* What allocate(s) does once it has begun.
AllocateStep(s) ==
  \/ SourceReady(s) \/ TargetReadyNoVideo(s) \/ TargetReadyVideo(s)
  \/ NotEnoughDevices(s) \/ DevicesPresent(s) \/ DeviceMissing(s)
  \/ \E i \in Sides : XvfbStartFails(s, i) \/ WaitTimesOut(s, i)

Begin(s) ==
  \/ AllocateReal(s) \/ AllocateDryRun(s) \/ AllocateExhausted(s)
  \/ \E c \in Callers : Release(s, c)

Environment(s) ==
  \E i \in Sides : XvfbBoots(s, i) \/ XvfbExits(s, i) \/ XvfbCrashes(s, i)
                   \/ XvfbCloses(s, i)

Next ==
  \/ \E s \in Sessions : Begin(s) \/ AllocateStep(s) \/ Environment(s)
  \/ \E s \in Sessions, c \in Releasers : ReleaseContinues(s, c)
  \/ \E d \in Displays : OrphanBoots(d) \/ OrphanExits(d)

Spec == Init /\ [][Next]_vars

-----------------------------------------------------------------------------
(* Properties.  Liveness is stated in SessionOnPool, where the callers are.  *)

\* The displays of s's reservation that no release has given back yet.
Unfreed(s) ==
  IF s \in reservations \/ alloc[s] # "idle" \/ rel[s][Undo] # 0
  THEN {i \in Sides : \A c \in Releasers : rel[s][c] < i}
  ELSE {}

Claims(s) == {display[s][i] : i \in Unfreed(s)}

\* allocate() and release() of many sessions, interleaved at their awaits,
\* never leave one display number with two sessions or twice with one: the
\* "dedicated display per session" that the README promises.
DisplayExclusive ==
  \A s, t \in Sessions : \A i \in Unfreed(s), j \in Unfreed(t) :
    display[s][i] = display[t][j] => s = t /\ i = j

\* A display number that a session still uses is marked as taken, so that
\* reserveDisplay() cannot hand it out again.
UsedIsTaken == \A s \in Sessions : Claims(s) \subseteq allocatedDisplayNumbers

\* The numbers that are marked as taken although no session has them.
Lost == allocatedDisplayNumbers \ UNION {Claims(s) : s \in Sessions}

\* releaseReservation() gives back both numbers, whatever exited, crashed, timed
\* out or was missing: the one step that loses a number is an allocate() that
\* finds a single one free and throws with that one in its hand.
NoDisplayLeak == [][Lost' \subseteq Lost \/ \E s \in Sessions : AllocateExhausted(s)]_vars

\* A marked camera belongs to a session that holds it: release() unmarks what
\* reserveVideoPair() marked.
DevicesReturned ==
  allocatedVideoDevices \subseteq
    UNION {videoDevices[s] : s \in {t \in reservations : NoRelease(t)}}

\* A session with no reservation and no call in flight has no Xvfb running
\* that its reservation knew: releaseReservation() stops both servers.
XvfbReaped ==
  \A s \in Sessions : MayAllocate(s) => \A i \in Sides : xvfb[s][i] \notin Running
=============================================================================
