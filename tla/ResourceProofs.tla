---------------------------- MODULE ResourceProofs ----------------------------
(***************************************************************************)
(* Theorems about SessionResourceManager, for every set of sessions, every *)
(* pool of displays and every behaviour of the X servers.                  *)
(***************************************************************************)
EXTENDS SessionResourceManager, TLAPS

\* A pair of a thing for each side.
LEMMA PairType ==
  ASSUME NEW S, NEW x \in S, NEW y \in S
  PROVE  Pair(x, y) \in [Sides -> S]
BY DEF Pair, Sides

-----------------------------------------------------------------------------
(* The inductive invariant behind type correctness, whatever the callers do *)

\* allocate() of a session excludes its releases.
AllocatesAlone ==
  \A s \in Sessions : alloc[s] # "idle" => s \notin reservations /\ NoRelease(s)

\* A session that allocates, or has an Xvfb, has its display numbers: orphans
\* and stale locks are on displays of the pool.
HasDisplays ==
  \A s \in Sessions, i \in Sides :
    alloc[s] # "idle" \/ xvfb[s][i] # "none" => display[s][i] \in Displays

TypeInv == TypeOK /\ AllocatesAlone /\ HasDisplays

-----------------------------------------------------------------------------
(* Type correctness                                                        *)

\* What releaseReservation() may do to the types, from any side on.
LEMMA ReleaseLoopType ==
  ASSUME TypeOK,
         NEW s \in Sessions, NEW c \in Releasers, NEW k \in 1..3,
         NEW p \in [Sides -> Process],
         ReleaseLoop(s, c, k, p)
  PROVE  /\ allocatedDisplayNumbers' \subseteq Displays
         /\ rel' \in [Sessions -> [Releasers -> 0..2]]
         /\ reservations' \subseteq Sessions
         /\ display' \in [Sessions -> [Sides -> Displays \cup {NoDisplay}]]
         /\ xvfb' \in [Sessions -> [Sides -> Process]]
         /\ killed' \in [Sessions -> SUBSET Sides]
<1>0. Pair("none", "none") \in [Sides -> Process]
  BY PairType DEF Process
<1>1. Pair(NoDisplay, NoDisplay) \in [Sides -> Displays \cup {NoDisplay}]
  BY PairType
<1>2. CASE ReleaseAwaits(s, c, k, p)
  <2>1. PICK i \in MustAwait(s, k, p) :
             /\ allocatedDisplayNumbers' =
                  allocatedDisplayNumbers \ {display[s][j] : j \in k..i}
             /\ rel' = [rel EXCEPT ![s][c] = i]
             /\ killed' = [killed EXCEPT ![s] = IF p[i] = "crashed" THEN @ ELSE @ \cup {i}]
             /\ xvfb' = [xvfb EXCEPT ![s] = p]
             /\ UNCHANGED <<reservations, display>>
    BY <1>2 DEF ReleaseAwaits
  <2>2. i \in 1..2 /\ i \in Sides
    BY <2>1 DEF MustAwait, Sides
  <2>3. rel' \in [Sessions -> [Releasers -> 0..2]]
    BY <2>1, <2>2 DEF TypeOK
  <2>4. killed' \in [Sessions -> SUBSET Sides]
    BY <2>1, <2>2 DEF TypeOK
  <2>5. QED
    BY <2>1, <2>3, <2>4 DEF TypeOK
<1>3. CASE ReleaseEnds(s, c, k, p)
  <2>1. rel' \in [Sessions -> [Releasers -> 0..2]]
    BY <1>3 DEF TypeOK, ReleaseEnds
  <2>2. /\ allocatedDisplayNumbers' \subseteq Displays
        /\ reservations' \subseteq Sessions
    BY <1>3 DEF TypeOK, ReleaseEnds
  <2>3. /\ display' \in [Sessions -> [Sides -> Displays \cup {NoDisplay}]]
        /\ xvfb' \in [Sessions -> [Sides -> Process]]
        /\ killed' \in [Sessions -> SUBSET Sides]
    BY <1>0, <1>1, <1>3 DEF TypeOK, ReleaseEnds
  <2>4. QED
    BY <2>1, <2>2, <2>3
<1>4. QED
  BY <1>2, <1>3 DEF ReleaseLoop

\* releaseReservation() for a session whose allocate() is over by the end of
\* the step.
LEMMA ReleaseLoopTypeInv ==
  ASSUME TypeInv,
         NEW s \in Sessions, NEW c \in Releasers, NEW k \in 1..3,
         NEW p \in [Sides -> Process],
         \A i \in Sides : p[i] # "none" => xvfb[s][i] # "none",
         ReleaseLoop(s, c, k, p),
         alloc'[s] = "idle",
         \A t \in Sessions \ {s} : alloc'[t] = alloc[t]
  PROVE  AllocatesAlone' /\ HasDisplays'
<1>1. SUFFICES ASSUME NEW t \in Sessions
               PROVE  /\ alloc'[t] # "idle" => t \notin reservations' /\ NoRelease(t)'
                      /\ \A i \in Sides : alloc'[t] # "idle" \/ xvfb'[t][i] # "none"
                                            => display'[t][i] \in Displays
  BY DEF AllocatesAlone, HasDisplays
<1>2. CASE t = s
  <2>1. alloc'[s] = "idle"
    BY DEF TypeInv, TypeOK
  <2>2. ASSUME NEW i \in Sides, xvfb'[s][i] # "none"
        PROVE  display'[s][i] \in Displays
    <3>1. CASE ReleaseAwaits(s, c, k, p)
      BY <2>2, <3>1 DEF ReleaseAwaits, TypeInv, TypeOK, HasDisplays
    <3>2. CASE ReleaseEnds(s, c, k, p)
      <4>1. Pair("none", "none")[i] = "none"
        BY DEF Pair, Sides
      <4>2. xvfb' = [xvfb EXCEPT ![s] = p] /\ UNCHANGED display
        BY <2>2, <3>2, <4>1 DEF ReleaseEnds, TypeInv, TypeOK
      <4>3. QED
        BY <2>2, <4>2 DEF TypeInv, TypeOK, HasDisplays
    <3>3. QED
      BY <3>1, <3>2 DEF ReleaseLoop
  <2>3. QED
    BY <1>2, <2>1, <2>2
<1>3. CASE t # s
  <2>1. /\ alloc'[t] = alloc[t]
        /\ rel'[t] = rel[t]
        /\ display'[t] = display[t]
        /\ xvfb'[t] = xvfb[t]
        /\ t \in reservations' <=> t \in reservations
    BY <1>3 DEF ReleaseLoop, ReleaseAwaits, ReleaseEnds, TypeInv, TypeOK
  <2>2. QED
    BY <2>1 DEF TypeInv, AllocatesAlone, HasDisplays, NoRelease
<1>4. QED
  BY <1>2, <1>3

\* allocate()'s catch, with the processes that it knows.
LEMMA AllocateFailsTypeInv ==
  ASSUME TypeInv,
         NEW s \in Sessions, NEW p \in [Sides -> Process],
         \A i \in Sides : p[i] # "none" => xvfb[s][i] # "none",
         AllocateFails(s, p),
         UNCHANGED <<allocatedVideoDevices, staleLocks>>,
         orphans' \subseteq Displays \X Running
  PROVE  TypeInv'
<1>1. ReleaseLoop(s, Undo, 1, p) /\ alloc' = [alloc EXCEPT ![s] = "idle"]
  BY DEF AllocateFails
<1>2. Undo \in Releasers
  BY DEF Releasers
<1>3. /\ alloc' \in [Sessions -> {"idle", "source", "target", "access"}]
      /\ videoDevices' \in [Sessions -> SUBSET VideoDevices]
  BY DEF AllocateFails, TypeInv, TypeOK
<1>4. TypeOK'
  BY <1>1, <1>2, <1>3, ReleaseLoopType DEF TypeOK, TypeInv
<1>5. AllocatesAlone' /\ HasDisplays'
  <2>1. 1 \in 1..3
    OBVIOUS
  <2>2. alloc'[s] = "idle" /\ \A t \in Sessions \ {s} : alloc'[t] = alloc[t]
    BY <1>1 DEF TypeInv, TypeOK
  <2>3. QED
    BY <1>1, <1>2, <2>1, <2>2, ReleaseLoopTypeInv
<1>6. QED
  BY <1>4, <1>5 DEF TypeInv

\* The processes that were recorded before side i failed.
LEMMA RecordedType ==
  ASSUME TypeOK, NEW s \in Sessions, NEW i \in Sides
  PROVE  /\ Recorded(s, i) \in [Sides -> Process]
         /\ \A j \in Sides : Recorded(s, i)[j] # "none" => xvfb[s][j] # "none"
BY DEF Recorded, TypeOK, Process

\* The pool is unmarked at first, and nothing runs.
THEOREM TypeInvInit == Init => TypeInv
<1>1. Pair(NoDisplay, NoDisplay) \in [Sides -> Displays \cup {NoDisplay}]
  BY PairType
<1>2. /\ Pair("none", "none") \in [Sides -> Process]
      /\ \A i \in Sides : Pair("none", "none")[i] = "none"
  BY PairType DEF Process, Pair
<1>3. QED
  BY <1>1, <1>2 DEF Init, TypeInv, TypeOK, AllocatesAlone, HasDisplays

\* reserveDisplay() twice, by a session with no call in flight.
LEMMA ReserveType ==
  ASSUME TypeInv, NEW s \in Sessions, ReserveDisplays(s)
  PROVE  /\ allocatedDisplayNumbers' \subseteq Displays
         /\ display' \in [Sessions -> [Sides -> Displays \cup {NoDisplay}]]
         /\ \A i \in Sides : display'[s][i] \in Displays
         /\ \A t \in Sessions \ {s} : display'[t] = display[t]
<1>1. PICK d \in FreeDisplays, e \in FreeDisplays :
        /\ allocatedDisplayNumbers' = allocatedDisplayNumbers \cup {d, e}
        /\ display' = [display EXCEPT ![s] = Pair(d, e)]
  BY DEF ReserveDisplays
<1>2. d \in Displays /\ e \in Displays
  BY DEF FreeDisplays
<1>3. /\ Pair(d, e) \in [Sides -> Displays]
      /\ Pair(d, e) \in [Sides -> Displays \cup {NoDisplay}]
  BY <1>2, PairType
<1>4. QED
  BY <1>1, <1>2, <1>3 DEF TypeInv, TypeOK

\* One step per action of Next.
THEOREM TypeInvStep == TypeInv /\ [Next]_vars => TypeInv'
<1> SUFFICES ASSUME TypeInv, [Next]_vars
             PROVE  TypeInv'
  OBVIOUS
<1> USE DEF TypeInv
<1>1. ASSUME NEW s \in Sessions, AllocateReal(s)
      PROVE  TypeInv'
  <2>1. Pair("booting", "none") \in [Sides -> Process]
    BY PairType DEF Process, Running
  <2>2. TypeOK'
    BY <1>1, <2>1, ReserveType DEF TypeOK, AllocateReal
  <2>3. AllocatesAlone' /\ HasDisplays'
    BY <1>1, ReserveType DEF TypeOK, AllocateReal, MayAllocate, AllocatesAlone,
                             HasDisplays, NoRelease
  <2>4. QED
    BY <2>2, <2>3
<1>2. ASSUME NEW s \in Sessions, AllocateDryRun(s)
      PROVE  TypeInv'
  <2>1. FirstTwo(VideoDevices) \subseteq VideoDevices
    BY DEF FirstTwo
  <2>2. TypeOK'
    BY <1>2, <2>1, ReserveType DEF TypeOK, AllocateDryRun
  <2>3. AllocatesAlone' /\ HasDisplays'
    BY <1>2, ReserveType DEF TypeOK, AllocateDryRun, MayAllocate, AllocatesAlone,
                             HasDisplays, NoRelease
  <2>4. QED
    BY <2>2, <2>3
<1>3. ASSUME NEW s \in Sessions, AllocateExhausted(s)
      PROVE  TypeInv'
  BY <1>3 DEF TypeOK, AllocateExhausted, AllocatesAlone, HasDisplays, NoRelease
<1>4. ASSUME NEW s \in Sessions, NEW c \in Callers, Release(s, c)
      PROVE  TypeInv'
  <2>1. /\ c \in Releasers
        /\ xvfb[s] \in [Sides -> Process]
        /\ alloc[s] = "idle"
        /\ ReleaseLoop(s, c, 1, xvfb[s])
    BY <1>4 DEF Releasers, TypeOK, AllocatesAlone, Release
  <2>2. alloc' = [alloc EXCEPT ![s] = "idle"]
    BY <1>4, <2>1 DEF TypeOK, Release
  <2>3. TypeOK'
    BY <1>4, <2>1, ReleaseLoopType DEF TypeOK, Release
  <2>4. AllocatesAlone' /\ HasDisplays'
    BY <2>1, <2>2, ReleaseLoopTypeInv
  <2>5. QED
    BY <2>3, <2>4
<1>5. ASSUME NEW s \in Sessions, NEW c \in Releasers, ReleaseContinues(s, c)
      PROVE  TypeInv'
  <2>3. alloc[s] = "idle"
    BY <1>5 DEF AllocatesAlone, NoRelease, ReleaseContinues
  <2>4. rel[s][c] \in 0..2
    BY <1>5 DEF TypeOK
  <2>1. /\ xvfb[s] \in [Sides -> Process]
        /\ alloc[s] = "idle"
        /\ rel[s][c] + 1 \in 1..3
        /\ ReleaseLoop(s, c, rel[s][c] + 1, xvfb[s])
    BY <1>5, <2>3, <2>4 DEF TypeOK, ReleaseContinues
  <2>2. alloc' = [alloc EXCEPT ![s] = "idle"]
    BY <1>5, <2>1 DEF TypeOK, ReleaseContinues
  <2>5. TypeOK'
    BY <1>5, <2>1, ReleaseLoopType DEF TypeOK, ReleaseContinues
  <2>6. AllocatesAlone' /\ HasDisplays'
    BY <2>1, <2>2, ReleaseLoopTypeInv
  <2>7. QED
    BY <2>5, <2>6
<1>6. ASSUME NEW s \in Sessions, SourceReady(s)
      PROVE  TypeInv'
  BY <1>6 DEF TypeOK, SourceReady, PollReady, Waiting, Process, Running, Sides,
              AllocatesAlone, HasDisplays, NoRelease
<1>7. ASSUME NEW s \in Sessions, TargetReadyNoVideo(s)
      PROVE  TypeInv'
  BY <1>7 DEF TypeOK, TargetReadyNoVideo, AllocatesAlone, HasDisplays, NoRelease
<1>8. ASSUME NEW s \in Sessions, TargetReadyVideo(s)
      PROVE  TypeInv'
  <2>1. FirstTwo(FreeDevices) \subseteq VideoDevices
    BY DEF FirstTwo, FreeDevices
  <2>2. alloc[s] # "idle"
    BY <1>8 DEF TargetReadyVideo, PollReady, Waiting
  <2>3. QED
    BY <1>8, <2>1, <2>2 DEF TypeOK, TargetReadyVideo, AllocatesAlone, HasDisplays, NoRelease
<1>9. ASSUME NEW s \in Sessions, NotEnoughDevices(s)
      PROVE  TypeInv'
  <2>1. /\ xvfb[s] \in [Sides -> Process]
        /\ orphans' \subseteq Displays \X Running
    BY <1>9 DEF TypeOK, NotEnoughDevices
  <2>2. QED
    BY <1>9, <2>1, AllocateFailsTypeInv DEF NotEnoughDevices
<1>10. ASSUME NEW s \in Sessions, NEW i \in Sides, XvfbStartFails(s, i)
       PROVE  TypeInv'
  <2>1. orphans' \subseteq Displays \X Running
    BY <1>10 DEF TypeOK, XvfbStartFails
  <2>2. QED
    BY <1>10, <2>1, RecordedType, AllocateFailsTypeInv DEF XvfbStartFails
<1>11. ASSUME NEW s \in Sessions, NEW i \in Sides, WaitTimesOut(s, i)
       PROVE  TypeInv'
  <2>1. display[s][i] \in Displays
    BY <1>11 DEF HasDisplays, WaitTimesOut, Waiting
  <2>2. orphans' \subseteq Displays \X Running
    BY <1>11, <2>1 DEF TypeOK, WaitTimesOut
  <2>3. QED
    BY <1>11, <2>2, RecordedType, AllocateFailsTypeInv DEF WaitTimesOut
<1>12. ASSUME NEW s \in Sessions, DevicesPresent(s)
       PROVE  TypeInv'
  BY <1>12 DEF TypeOK, DevicesPresent, AllocatesAlone, HasDisplays, NoRelease
<1>13. ASSUME NEW s \in Sessions, DeviceMissing(s)
       PROVE  TypeInv'
  <2>1. /\ xvfb[s] \in [Sides -> Process]
        /\ orphans' \subseteq Displays \X Running
    BY <1>13 DEF TypeOK, DeviceMissing
  <2>2. QED
    BY <1>13, <2>1, AllocateFailsTypeInv DEF DeviceMissing
<1>14. ASSUME NEW s \in Sessions, Environment(s)
       PROVE  TypeInv'
  <2>1. PICK i \in Sides : XvfbBoots(s, i) \/ XvfbExits(s, i) \/ XvfbCrashes(s, i)
                           \/ XvfbCloses(s, i)
    BY <1>14 DEF Environment
  <2>2. /\ xvfb[s][i] # "none"
        /\ \E x \in Process \ {"none"} : xvfb' = [xvfb EXCEPT ![s][i] = x]
        /\ XvfbUnchanged
        /\ UNCHANGED orphans
        /\ staleLocks' \subseteq staleLocks \cup {display[s][i]}
    BY <2>1 DEF XvfbBoots, XvfbExits, XvfbCrashes, XvfbCloses, Process, Running
  <2>3. display[s][i] \in Displays
    BY <2>2 DEF HasDisplays
  <2>4. TypeOK'
    BY <2>2, <2>3 DEF TypeOK, XvfbUnchanged
  <2>5. AllocatesAlone' /\ HasDisplays'
    BY <2>2 DEF TypeOK, XvfbUnchanged, AllocatesAlone, HasDisplays, NoRelease
  <2>6. QED
    BY <2>4, <2>5
<1>15. ASSUME NEW d \in Displays, OrphanBoots(d) \/ OrphanExits(d)
       PROVE  TypeInv'
  BY <1>15 DEF TypeOK, OrphanBoots, OrphanExits, XvfbUnchanged, Running,
               AllocatesAlone, HasDisplays, NoRelease
<1>16. CASE UNCHANGED vars
  BY <1>16 DEF vars, TypeOK, AllocatesAlone, HasDisplays, NoRelease
<1>17. QED
  BY <1>1, <1>2, <1>3, <1>4, <1>5, <1>6, <1>7, <1>8, <1>9, <1>10, <1>11, <1>12,
     <1>13, <1>14, <1>15, <1>16
     DEF Next, Begin, AllocateStep

\* Every variable of the pool keeps its type, for any pool, any sessions and
\* any number of overlapping releases.
THEOREM TypeCorrect == Spec => []TypeOK
<1>1. TypeInv => TypeOK
  BY DEF TypeInv
<1>2. QED
  BY <1>1, TypeInvInit, TypeInvStep, PTL DEF Spec

-----------------------------------------------------------------------------
(* Exclusive displays.  The callers of release() have to keep out of each  *)
(* other's way: of two that overlap, the second frees numbers that may     *)
(* have a new owner.                                                       *)

OneCaller == \A c, e \in Callers : c = e

\* What it is needed for: at no time do two releases of a session run, and none
\* begins beside another.
OneAtATime ==
  \A s \in Sessions, c, e \in Callers : rel[s][c] # 0 /\ rel[s][e] # 0 => c = e
Overlaps == \E s \in Sessions, c \in Callers : Release(s, c) /\ ~NoRelease(s)

\* Which call of a session may be under way beside its reservation.
Phases ==
  \A s \in Sessions :
    /\ rel[s][Undo] # 0 => s \notin reservations
    /\ \A c \in Callers : rel[s][c] # 0 => s \in reservations

ExclusiveInv == TypeInv /\ Phases /\ UsedIsTaken /\ DisplayExclusive

\* A step that leaves the numbers alone and changes nobody's unfreed sides.
LEMMA ClaimsFrame ==
  ASSUME UsedIsTaken, DisplayExclusive,
         UNCHANGED <<allocatedDisplayNumbers, display>>,
         \A s \in Sessions : Unfreed(s)' = Unfreed(s)
  PROVE  UsedIsTaken' /\ DisplayExclusive'
<1>1. \A s \in Sessions : Claims(s)' = Claims(s)
  BY DEF Claims
<1>2. QED
  BY <1>1 DEF UsedIsTaken, DisplayExclusive

\* The loop of releaseReservation() gives back sides that s had not given back
\* yet, and only those.
LEMMA ReleaseLoopExclusive ==
  ASSUME ExclusiveInv,
         NEW s \in Sessions, NEW c \in Releasers, NEW k \in 1..3,
         NEW p \in [Sides -> Process],
         \A i \in k..2 : i \in Unfreed(s),
         \A o \in Releasers \ {c} : rel[s][o] = 0,
         c = Undo <=> s \notin reservations,
         ReleaseLoop(s, c, k, p),
         alloc'[s] = "idle",
         \A t \in Sessions \ {s} : alloc'[t] = alloc[t]
  PROVE  Phases' /\ UsedIsTaken' /\ DisplayExclusive'
<1> USE DEF ExclusiveInv, TypeInv
<1>1. \A t \in Sessions \ {s} :
        /\ rel'[t] = rel[t]
        /\ display'[t] = display[t]
        /\ t \in reservations' <=> t \in reservations
  BY DEF ReleaseLoop, ReleaseAwaits, ReleaseEnds, TypeOK
<1>2. \A t \in Sessions \ {s} : Unfreed(t)' = Unfreed(t)
  BY <1>1 DEF Unfreed
<1>3. PICK last \in (k-1)..2 :
        /\ allocatedDisplayNumbers' =
             allocatedDisplayNumbers \ {display[s][j] : j \in k..last}
        /\ \A i \in Unfreed(s)' : /\ i \in Unfreed(s)
                                  /\ i > last
                                  /\ display'[s] = display[s]
        /\ Phases'
  <2>1. CASE ReleaseAwaits(s, c, k, p)
    <3>1. PICK i \in MustAwait(s, k, p) :
               /\ allocatedDisplayNumbers' =
                    allocatedDisplayNumbers \ {display[s][j] : j \in k..i}
               /\ rel' = [rel EXCEPT ![s][c] = i]
               /\ UNCHANGED <<reservations, display>>
      BY <2>1 DEF ReleaseAwaits
    <3>2. i \in k..2 /\ i \in Sides
      BY <3>1 DEF MustAwait, Sides
    <3>3. rel'[s][c] = i /\ \A o \in Releasers \ {c} : rel'[s][o] = 0
      BY <3>1 DEF TypeOK
    <3>4. Phases'
      <4>1. \A t \in Sessions \ {s} :
              /\ rel'[t][Undo] # 0 => t \notin reservations'
              /\ \A e \in Callers : rel'[t][e] # 0 => t \in reservations'
        BY <1>1 DEF Phases
      <4>2. /\ rel'[s][Undo] # 0 => s \notin reservations'
            /\ \A e \in Callers : rel'[s][e] # 0 => s \in reservations'
        BY <3>1, <3>3, CallersAssumption DEF Releasers, Undo
      <4>3. QED
        BY <4>1, <4>2 DEF Phases
    <3>5. \A j \in Unfreed(s)' : j \in Sides /\ j > i
      BY <3>2, <3>3 DEF Unfreed, Sides
    <3>6. \A j \in Unfreed(s)' : j \in Unfreed(s)
      <4>1. ASSUME NEW j \in Unfreed(s)'
            PROVE  j \in k..2
        BY <3>2, <3>5, <4>1 DEF Sides
      <4>2. QED
        BY <4>1
    <3>7. QED
      BY <3>1, <3>2, <3>4, <3>5, <3>6
  <2>2. CASE ReleaseEnds(s, c, k, p)
    <3>1. /\ \A o \in Releasers : rel'[s][o] = 0
          /\ s \notin reservations'
      BY <2>2 DEF ReleaseEnds, TypeOK
    <3>2. Unfreed(s)' = {}
      BY <3>1 DEF Unfreed, Releasers
    <3>3. Phases'
      BY <1>1, <3>1 DEF Phases, Releasers
    <3>4. QED
      BY <2>2, <3>2, <3>3 DEF ReleaseEnds
  <2>3. QED
    BY <2>1, <2>2 DEF ReleaseLoop
<1>4. \A i \in k..last : i \in Unfreed(s)
  BY <1>3
<1>5. UsedIsTaken'
  <2>1. ASSUME NEW t \in Sessions, NEW i \in Unfreed(t)'
        PROVE  display'[t][i] \in allocatedDisplayNumbers'
    <3>1. i \in Unfreed(t) /\ display'[t] = display[t]
      BY <1>1, <1>2, <1>3, <2>1
    <3>2. display[t][i] \in allocatedDisplayNumbers
      BY <3>1 DEF UsedIsTaken, Claims
    <3>3. \A j \in k..last : display[s][j] # display[t][i]
      BY <1>3, <1>4, <2>1, <3>1 DEF DisplayExclusive
    <3>4. QED
      BY <1>3, <3>1, <3>2, <3>3
  <2>2. QED
    BY <2>1 DEF UsedIsTaken, Claims
<1>6. DisplayExclusive'
  BY <1>1, <1>2, <1>3 DEF DisplayExclusive
<1>7. QED
  BY <1>3, <1>5, <1>6

\* reserveDisplay() hands out two numbers that nobody uses.
LEMMA ReserveExclusive ==
  ASSUME ExclusiveInv, NEW s \in Sessions, MayAllocate(s), ReserveDisplays(s),
         UNCHANGED rel,
         alloc'[s] # "idle" <=> s \notin reservations',
         \A t \in Sessions \ {s} : /\ alloc'[t] = alloc[t]
                                   /\ t \in reservations' <=> t \in reservations
  PROVE  Phases' /\ UsedIsTaken' /\ DisplayExclusive'
<1> USE DEF ExclusiveInv, TypeInv
<1>1. PICK d \in FreeDisplays, e \in FreeDisplays :
        /\ d # e
        /\ allocatedDisplayNumbers' = allocatedDisplayNumbers \cup {d, e}
        /\ display' = [display EXCEPT ![s] = Pair(d, e)]
  BY DEF ReserveDisplays, IsLowest
<1>2. /\ d \notin allocatedDisplayNumbers /\ e \notin allocatedDisplayNumbers
      /\ display'[s][1] = d /\ display'[s][2] = e
      /\ \A t \in Sessions \ {s} : display'[t] = display[t]
  BY <1>1 DEF FreeDisplays, Pair, Sides, TypeOK
<1>3. \A t \in Sessions \ {s} : Unfreed(t)' = Unfreed(t)
  BY DEF Unfreed
<1>4. Unfreed(s)' \subseteq {1, 2}
  BY DEF Unfreed, Sides
<1>5. \A t \in Sessions : \A i \in Unfreed(t) : display[t][i] \in allocatedDisplayNumbers
  BY DEF UsedIsTaken, Claims
<1>6. UsedIsTaken'
  BY <1>1, <1>2, <1>3, <1>4, <1>5 DEF UsedIsTaken, Claims
<1>7. DisplayExclusive'
  BY <1>1, <1>2, <1>3, <1>4, <1>5 DEF DisplayExclusive
<1>8. Phases'
  BY DEF Phases, MayAllocate, NoRelease, Releasers
<1>9. QED
  BY <1>6, <1>7, <1>8

\* allocate()'s catch, for a session that owns both its sides.
LEMMA AllocateFailsExclusive ==
  ASSUME ExclusiveInv, NEW s \in Sessions, NEW p \in [Sides -> Process],
         alloc[s] # "idle", AllocateFails(s, p)
  PROVE  Phases' /\ UsedIsTaken' /\ DisplayExclusive'
<1>1. /\ NoRelease(s)
      /\ s \notin reservations
      /\ Undo \in Releasers
  BY DEF ExclusiveInv, TypeInv, AllocatesAlone, Releasers
<1>2. \A i \in 1..2 : i \in Unfreed(s)
  BY <1>1 DEF Unfreed, NoRelease, Sides
<1>3. /\ ReleaseLoop(s, Undo, 1, p)
      /\ alloc'[s] = "idle"
      /\ \A t \in Sessions \ {s} : alloc'[t] = alloc[t]
  BY DEF AllocateFails, ExclusiveInv, TypeInv, TypeOK
<1>4. \A o \in Releasers \ {Undo} : rel[s][o] = 0
  BY <1>1 DEF NoRelease
<1>5. QED
  BY <1>1, <1>2, <1>3, <1>4, ReleaseLoopExclusive

\* A step of allocate() that leaves every display with its owner.
LEMMA AllocateGoesOn ==
  ASSUME ExclusiveInv, NEW s \in Sessions, alloc[s] # "idle",
         UNCHANGED <<allocatedDisplayNumbers, display, rel>>,
         alloc'[s] # "idle" <=> s \notin reservations',
         \A t \in Sessions \ {s} : /\ alloc'[t] = alloc[t]
                                   /\ t \in reservations' <=> t \in reservations
  PROVE  Phases' /\ UsedIsTaken' /\ DisplayExclusive'
<1> USE DEF ExclusiveInv, TypeInv
<1>1. \A t \in Sessions : Unfreed(t)' = Unfreed(t)
  BY DEF Unfreed
<1>2. Phases'
  BY DEF Phases, AllocatesAlone, NoRelease, Releasers
<1>3. QED
  BY <1>1, <1>2, ClaimsFrame

\* A step outside the pool: servers, orphans and lock files.
LEMMA OutsideFrame ==
  ASSUME ExclusiveInv,
         UNCHANGED <<display, alloc, rel, reservations>>,
         allocatedDisplayNumbers \subseteq allocatedDisplayNumbers'
  PROVE  Phases' /\ UsedIsTaken' /\ DisplayExclusive'
<1> USE DEF ExclusiveInv
<1>1. \A t \in Sessions : Unfreed(t)' = Unfreed(t) /\ Claims(t)' = Claims(t)
  BY DEF Unfreed, Claims
<1>2. UsedIsTaken' /\ DisplayExclusive'
  BY <1>1 DEF UsedIsTaken, DisplayExclusive
<1>3. Phases'
  BY DEF Phases
<1>4. QED
  BY <1>2, <1>3

\* Nobody has a number at first.
THEOREM ExclusiveInvInit == Init => ExclusiveInv
BY TypeInvInit DEF Init, ExclusiveInv, Phases, UsedIsTaken, DisplayExclusive, Claims,
                   Unfreed, Releasers

\* One teardown of a session at a time, for sessions whose callers are one.
LEMMA OneCallerNeverOverlaps ==
  ASSUME OneCaller, ExclusiveInv
  PROVE  OneAtATime /\ ~Overlaps
BY DEF OneCaller, OneAtATime, Overlaps, Release, NoRelease, Releasers, ExclusiveInv, Phases

\* One step per action; only a release that begins or goes on needs to be alone.
THEOREM ExclusiveInvStep ==
  ASSUME ExclusiveInv, OneAtATime, ~Overlaps, [Next]_vars
  PROVE  ExclusiveInv'
<1> DEFINE Goal == Phases' /\ UsedIsTaken' /\ DisplayExclusive'
<1>1. TypeInv'
  BY TypeInvStep DEF ExclusiveInv
<1>2. ASSUME NEW s \in Sessions, AllocateReal(s)
      PROVE  Goal
  BY <1>2, ReserveExclusive
     DEF AllocateReal, MayAllocate, ExclusiveInv, TypeInv, TypeOK
<1>3. ASSUME NEW s \in Sessions, AllocateDryRun(s)
      PROVE  Goal
  BY <1>3, ReserveExclusive
     DEF AllocateDryRun, MayAllocate, ExclusiveInv, TypeInv, TypeOK
<1>4. ASSUME NEW s \in Sessions, AllocateExhausted(s)
      PROVE  Goal
  BY <1>4, OutsideFrame DEF AllocateExhausted, ExclusiveInv, TypeInv, TypeOK
<1>5. ASSUME NEW s \in Sessions, NEW c \in Callers, Release(s, c)
      PROVE  Goal
  <2>1. /\ s \in reservations
        /\ alloc[s] = "idle"
        /\ \A o \in Releasers : rel[s][o] = 0
    BY <1>5 DEF Release, ExclusiveInv, TypeInv, AllocatesAlone, Overlaps, NoRelease
  <2>2. \A i \in 1..2 : i \in Unfreed(s)
    BY <2>1 DEF Unfreed, Sides
  <2>3. /\ c \in Releasers
        /\ c # Undo
        /\ xvfb[s] \in [Sides -> Process]
        /\ ReleaseLoop(s, c, 1, xvfb[s])
    BY <1>5, CallersAssumption DEF Release, Releasers, Undo, ExclusiveInv, TypeInv, TypeOK
  <2>4. alloc'[s] = "idle" /\ \A t \in Sessions \ {s} : alloc'[t] = alloc[t]
    BY <1>5, <2>1 DEF Release
  <2>5. QED
    BY <2>1, <2>2, <2>3, <2>4, ReleaseLoopExclusive
<1>6. ASSUME NEW s \in Sessions, NEW c \in Releasers, ReleaseContinues(s, c)
      PROVE  Goal
  <2>1. /\ alloc[s] = "idle"
        /\ c = Undo <=> s \notin reservations
        /\ \A o \in Releasers \ {c} : rel[s][o] = 0
    BY <1>6, CallersAssumption
       DEF ReleaseContinues, ExclusiveInv, TypeInv, AllocatesAlone, NoRelease, Phases,
           Releasers, Undo, OneAtATime
  <2>2. rel[s][c] \in 1..2 /\ rel[s][c] + 1 \in 1..3
    <3>1. rel[s][c] \in 0..2 /\ rel[s][c] # 0
      BY <1>6 DEF ReleaseContinues, ExclusiveInv, TypeInv, TypeOK
    <3>2. QED
      BY <3>1
  <2>3. \A i \in (rel[s][c] + 1)..2 : i \in Unfreed(s)
    BY <1>6, <2>1, <2>2 DEF Unfreed, Sides, Releasers
  <2>4. /\ xvfb[s] \in [Sides -> Process]
        /\ ReleaseLoop(s, c, rel[s][c] + 1, xvfb[s])
        /\ alloc'[s] = "idle"
        /\ \A t \in Sessions \ {s} : alloc'[t] = alloc[t]
    BY <1>6, <2>1 DEF ReleaseContinues, ExclusiveInv, TypeInv, TypeOK
  <2>5. QED
    BY <2>1, <2>2, <2>3, <2>4, ReleaseLoopExclusive
<1>7. ASSUME NEW s \in Sessions, SourceReady(s) \/ TargetReadyVideo(s)
      PROVE  Goal
  BY <1>7, AllocateGoesOn
     DEF SourceReady, TargetReadyVideo, PollReady, Waiting, ExclusiveInv, TypeInv, TypeOK,
         AllocatesAlone
<1>8. ASSUME NEW s \in Sessions, TargetReadyNoVideo(s) \/ DevicesPresent(s)
      PROVE  Goal
  BY <1>8, AllocateGoesOn
     DEF TargetReadyNoVideo, DevicesPresent, PollReady, Waiting, ExclusiveInv, TypeInv,
         TypeOK, AllocatesAlone
<1>9. ASSUME NEW s \in Sessions, NotEnoughDevices(s) \/ DeviceMissing(s)
      PROVE  Goal
  <2>1. /\ alloc[s] # "idle"
        /\ xvfb[s] \in [Sides -> Process]
        /\ AllocateFails(s, xvfb[s])
    BY <1>9 DEF NotEnoughDevices, DeviceMissing, PollReady, Waiting, ExclusiveInv,
                TypeInv, TypeOK
  <2>2. QED
    BY <2>1, AllocateFailsExclusive
<1>10. ASSUME NEW s \in Sessions, NEW i \in Sides, XvfbStartFails(s, i) \/ WaitTimesOut(s, i)
       PROVE  Goal
  <2>1. /\ alloc[s] # "idle"
        /\ Recorded(s, i) \in [Sides -> Process]
        /\ AllocateFails(s, Recorded(s, i))
    BY <1>10, RecordedType DEF XvfbStartFails, WaitTimesOut, Waiting, ExclusiveInv, TypeInv
  <2>2. QED
    BY <2>1, AllocateFailsExclusive
<1>11. ASSUME NEW s \in Sessions, Environment(s)
       PROVE  Goal
  BY <1>11, OutsideFrame
     DEF Environment, XvfbBoots, XvfbExits, XvfbCrashes, XvfbCloses, XvfbUnchanged
<1>12. ASSUME NEW d \in Displays, OrphanBoots(d) \/ OrphanExits(d)
       PROVE  Goal
  BY <1>12, OutsideFrame DEF OrphanBoots, OrphanExits, XvfbUnchanged
<1>13. ASSUME UNCHANGED vars
       PROVE  Goal
  <2>1. UNCHANGED <<allocatedDisplayNumbers, display, alloc, rel, reservations>>
    BY <1>13 DEF vars
  <2>2. QED
    BY <2>1, OutsideFrame
<1>14. Goal
  <2>1. ASSUME NEW s \in Sessions, Begin(s)
        PROVE  Goal
    BY <1>2, <1>3, <1>4, <1>5, <2>1 DEF Begin
  <2>2. ASSUME NEW s \in Sessions, AllocateStep(s)
        PROVE  Goal
    BY <1>7, <1>8, <1>9, <1>10, <2>2 DEF AllocateStep
  <2>3. QED
    BY <1>6, <1>11, <1>12, <1>13, <2>1, <2>2 DEF Next
<1>15. QED
  BY <1>1, <1>14 DEF ExclusiveInv

\* When the releases of one session do not overlap, no display number is ever
\* with two sessions, or twice with one.
THEOREM Exclusive ==
  ASSUME OneCaller
  PROVE  Spec => []DisplayExclusive
<1>1. ExclusiveInv => DisplayExclusive
  BY DEF ExclusiveInv
<1>2. ExclusiveInv /\ [Next]_vars => ExclusiveInv'
  BY ExclusiveInvStep, OneCallerNeverOverlaps
<1>3. QED
  BY <1>1, <1>2, ExclusiveInvInit, PTL DEF Spec

\* Under the same condition a display that is used is marked as taken.
THEOREM UsedTaken ==
  ASSUME OneCaller
  PROVE  Spec => []UsedIsTaken
<1>1. ExclusiveInv => UsedIsTaken
  BY DEF ExclusiveInv
<1>2. ExclusiveInv /\ [Next]_vars => ExclusiveInv'
  BY ExclusiveInvStep, OneCallerNeverOverlaps
<1>3. QED
  BY <1>1, <1>2, ExclusiveInvInit, PTL DEF Spec

-----------------------------------------------------------------------------
(* Display numbers are not lost                                            *)

\* Who calls release(), and from how many places, is of no matter here: the
\* loop only ever gives back numbers, and what a session had not given back
\* before a step it has, or has given back, after it.

\* The loop entered at the first side that s has not given back.
LEMMA ReleaseLoopLoses ==
  ASSUME TypeInv,
         NEW s \in Sessions, NEW c \in Releasers, NEW k \in 1..3,
         NEW p \in [Sides -> Process],
         \A i \in Unfreed(s) : i >= k,
         ReleaseLoop(s, c, k, p),
         alloc'[s] = alloc[s] \/ c = Undo,
         \A t \in Sessions \ {s} : alloc'[t] = alloc[t]
  PROVE  Lost' \subseteq Lost
<1> USE DEF TypeInv
<1>1. \A t \in Sessions \ {s} : Claims(t)' = Claims(t)
  <2>1. \A t \in Sessions \ {s} :
          /\ rel'[t] = rel[t]
          /\ display'[t] = display[t]
          /\ t \in reservations' <=> t \in reservations
    BY DEF ReleaseLoop, ReleaseAwaits, ReleaseEnds, TypeOK
  <2>2. QED
    BY <2>1 DEF Unfreed, Claims
<1>2. PICK last \in 0..2 :
        /\ allocatedDisplayNumbers' =
             allocatedDisplayNumbers \ {display[s][j] : j \in k..last}
        /\ \A i \in Unfreed(s) :
             i > last => i \in Unfreed(s)' /\ display'[s] = display[s]
  <2>1. CASE ReleaseAwaits(s, c, k, p)
    <3>1. PICK i \in MustAwait(s, k, p) :
               /\ allocatedDisplayNumbers' =
                    allocatedDisplayNumbers \ {display[s][j] : j \in k..i}
               /\ rel' = [rel EXCEPT ![s][c] = i]
               /\ UNCHANGED <<reservations, display>>
      BY <2>1 DEF ReleaseAwaits
    <3>2. i \in k..2 /\ i \in 0..2 /\ i # 0
      BY <3>1 DEF MustAwait
    <3>3. rel'[s][c] = i /\ \A o \in Releasers \ {c} : rel'[s][o] = rel[s][o]
      BY <3>1 DEF TypeOK
    <3>4. \A j \in Unfreed(s) : j > i => j \in Unfreed(s)'
      BY <3>1, <3>2, <3>3 DEF Unfreed
    <3>5. QED
      BY <3>1, <3>2, <3>4
  <2>2. CASE ReleaseEnds(s, c, k, p)
    <3>1. \A i \in Unfreed(s) : ~(i > 2)
      BY DEF Unfreed, Sides
    <3>2. allocatedDisplayNumbers' =
            allocatedDisplayNumbers \ {display[s][j] : j \in k..2}
      BY <2>2 DEF ReleaseEnds
    <3>3. QED
      BY <3>1, <3>2
  <2>3. QED
    BY <2>1, <2>2 DEF ReleaseLoop
<1>3. Claims(s) \subseteq Claims(s)' \cup {display[s][j] : j \in k..last}
  <2>1. ASSUME NEW i \in Unfreed(s)
        PROVE  i > last \/ i \in k..last
    <3>1. i \in Sides /\ i >= k
      BY DEF Unfreed
    <3>2. QED
      BY <3>1 DEF Sides
  <2>2. QED
    BY <1>2, <2>1 DEF Claims
<1>4. QED
  BY <1>1, <1>2, <1>3 DEF Lost

\* A step that neither marks a number nor ends a claim.
LEMMA KeepsClaims ==
  ASSUME allocatedDisplayNumbers' \subseteq allocatedDisplayNumbers,
         \A s \in Sessions : Claims(s) \subseteq Claims(s)'
  PROVE  Lost' \subseteq Lost
BY DEF Lost

\* The two numbers that reserveDisplay() marks belong to its caller.
LEMMA ReserveLoses ==
  ASSUME TypeInv, NEW s \in Sessions, MayAllocate(s), ReserveDisplays(s),
         UNCHANGED rel,
         alloc'[s] # "idle" \/ s \in reservations',
         \A t \in Sessions \ {s} : /\ alloc'[t] = alloc[t]
                                   /\ t \in reservations' <=> t \in reservations
  PROVE  Lost' \subseteq Lost
<1> USE DEF TypeInv
<1>1. PICK d \in FreeDisplays, e \in FreeDisplays :
        /\ allocatedDisplayNumbers' = allocatedDisplayNumbers \cup {d, e}
        /\ display' = [display EXCEPT ![s] = Pair(d, e)]
  BY DEF ReserveDisplays
<1>2. display'[s][1] = d /\ display'[s][2] = e
  BY <1>1 DEF Pair, Sides, TypeOK
<1>3. 1 \in Unfreed(s)' /\ 2 \in Unfreed(s)'
  <2>1. \A c \in Releasers : rel'[s][c] = 0
    BY DEF MayAllocate, NoRelease
  <2>2. QED
    BY <2>1 DEF Unfreed, Sides
<1>4. {d, e} \subseteq Claims(s)'
  BY <1>2, <1>3 DEF Claims
<1>5. Claims(s) = {}
  BY DEF Claims, Unfreed, MayAllocate, NoRelease, Releasers
<1>6. \A t \in Sessions \ {s} : Claims(t)' = Claims(t)
  <2>1. \A t \in Sessions \ {s} : display'[t] = display[t]
    BY <1>1 DEF TypeOK
  <2>2. QED
    BY <2>1 DEF Claims, Unfreed
<1>7. QED
  BY <1>1, <1>4, <1>5, <1>6 DEF Lost

\* One step per action; AllocateExhausted is the exception that the property
\* names.
THEOREM NoLeakStep ==
  ASSUME TypeInv, [Next]_vars
  PROVE  Lost' \subseteq Lost \/ \E s \in Sessions : AllocateExhausted(s)
<1> USE DEF TypeInv
<1> DEFINE Goal == Lost' \subseteq Lost
           Exhausted == \E s \in Sessions : AllocateExhausted(s)
<1>1. ASSUME NEW s \in Sessions, AllocateReal(s)
      PROVE  Goal
  BY <1>1, ReserveLoses DEF AllocateReal, TypeOK
<1>2. ASSUME NEW s \in Sessions, AllocateDryRun(s)
      PROVE  Goal
  BY <1>2, ReserveLoses DEF AllocateDryRun
<1>3. ASSUME NEW s \in Sessions, AllocateExhausted(s)
      PROVE  Exhausted
  BY <1>3
<1>4. ASSUME NEW s \in Sessions, NEW c \in Callers, Release(s, c)
      PROVE  Goal
  <2>1. /\ c \in Releasers
        /\ xvfb[s] \in [Sides -> Process]
        /\ UNCHANGED alloc
        /\ ReleaseLoop(s, c, 1, xvfb[s])
    BY <1>4 DEF Releasers, TypeOK, Release
  <2>2. \A i \in Unfreed(s) : i >= 1
    BY DEF Unfreed, Sides
  <2>3. QED
    BY <2>1, <2>2, ReleaseLoopLoses
<1>5. ASSUME NEW s \in Sessions, NEW c \in Releasers, ReleaseContinues(s, c)
      PROVE  Goal
  <2>1. rel[s][c] \in 0..2 /\ rel[s][c] # 0
    BY <1>5 DEF TypeOK, ReleaseContinues
  <2>2. /\ xvfb[s] \in [Sides -> Process]
        /\ UNCHANGED alloc
        /\ ReleaseLoop(s, c, rel[s][c] + 1, xvfb[s])
    BY <1>5 DEF TypeOK, ReleaseContinues
  <2>3. rel[s][c] + 1 \in 1..3
    BY <2>1
  <2>4. \A i \in Unfreed(s) : i >= rel[s][c] + 1
    BY <2>1 DEF Unfreed, Sides
  <2>5. QED
    BY <2>2, <2>3, <2>4, ReleaseLoopLoses
<1>6. ASSUME NEW s \in Sessions, NEW p \in [Sides -> Process], AllocateFails(s, p)
      PROVE  Goal
  <2>1. /\ ReleaseLoop(s, Undo, 1, p)
        /\ \A t \in Sessions \ {s} : alloc'[t] = alloc[t]
        /\ Undo \in Releasers
    BY <1>6 DEF AllocateFails, Releasers, TypeOK
  <2>2. \A i \in Unfreed(s) : i >= 1
    BY DEF Unfreed, Sides
  <2>3. QED
    BY <2>1, <2>2, ReleaseLoopLoses
<1>7. ASSUME NEW s \in Sessions, SourceReady(s) \/ TargetReadyVideo(s)
      PROVE  Goal
  <2>1. \A t \in Sessions : Claims(t) \subseteq Claims(t)'
    BY <1>7 DEF SourceReady, TargetReadyVideo, PollReady, Waiting, TypeOK, Claims, Unfreed
  <2>2. QED
    BY <1>7, <2>1, KeepsClaims DEF SourceReady, TargetReadyVideo
<1>8. ASSUME NEW s \in Sessions, TargetReadyNoVideo(s) \/ DevicesPresent(s)
      PROVE  Goal
  <2>1. /\ UNCHANGED <<allocatedDisplayNumbers, display, rel>>
        /\ alloc' = [alloc EXCEPT ![s] = "idle"]
        /\ reservations' = reservations \cup {s}
    BY <1>8 DEF TargetReadyNoVideo, DevicesPresent
  <2>2. \A t \in Sessions : alloc[t] # "idle" => t \in reservations' \/ alloc'[t] # "idle"
    BY <2>1 DEF TypeOK
  <2>3. \A t \in Sessions : Claims(t) \subseteq Claims(t)'
    BY <2>1, <2>2 DEF Claims, Unfreed
  <2>4. QED
    BY <2>1, <2>3, KeepsClaims
<1>9. ASSUME NEW s \in Sessions, NotEnoughDevices(s) \/ DeviceMissing(s)
      PROVE  Goal
  BY <1>6, <1>9 DEF NotEnoughDevices, DeviceMissing, TypeOK
<1>10. ASSUME NEW s \in Sessions, NEW i \in Sides, XvfbStartFails(s, i) \/ WaitTimesOut(s, i)
       PROVE  Goal
  BY <1>6, <1>10, RecordedType DEF XvfbStartFails, WaitTimesOut
<1>11. ASSUME UNCHANGED <<allocatedDisplayNumbers, display, alloc, rel, reservations>>
       PROVE  Goal
  BY <1>11 DEF Lost, Claims, Unfreed
<1>12. ASSUME NEW s \in Sessions, Environment(s)
       PROVE  Goal
  BY <1>11, <1>12
     DEF Environment, XvfbBoots, XvfbExits, XvfbCrashes, XvfbCloses, XvfbUnchanged
<1>13. ASSUME NEW d \in Displays, OrphanBoots(d) \/ OrphanExits(d)
       PROVE  Goal
  BY <1>11, <1>13 DEF OrphanBoots, OrphanExits, XvfbUnchanged
<1>14. ASSUME UNCHANGED vars
       PROVE  Goal
  BY <1>11, <1>14 DEF vars
<1>15. QED
  <2>1. ASSUME NEW s \in Sessions, Begin(s)
        PROVE  Goal \/ Exhausted
    BY <1>1, <1>2, <1>3, <1>4, <2>1 DEF Begin
  <2>2. ASSUME NEW s \in Sessions, AllocateStep(s)
        PROVE  Goal
    BY <1>7, <1>8, <1>9, <1>10, <2>2 DEF AllocateStep
  <2>3. QED
    BY <1>5, <1>12, <1>13, <1>14, <2>1, <2>2 DEF Next

\* A display number is lost only by the allocate() that finds a single one
\* free, however many releases of a session overlap and whatever its X servers
\* do.
THEOREM NoLeak == Spec => NoDisplayLeak
<1>1. TypeInv /\ [Next]_vars =>
        [Lost' \subseteq Lost \/ \E s \in Sessions : AllocateExhausted(s)]_vars
  BY NoLeakStep
<1>2. QED
  BY <1>1, TypeInvInit, TypeInvStep, PTL DEF Spec, NoDisplayLeak

-----------------------------------------------------------------------------
(* Cameras are given back                                                  *)

\* A step that marks no camera and takes none from a session that holds it.
LEMMA KeepsHeld ==
  ASSUME TypeInv, DevicesReturned,
         allocatedVideoDevices' \subseteq allocatedVideoDevices,
         \A s \in Sessions :
           s \in reservations /\ NoRelease(s) =>
             s \in reservations' /\ NoRelease(s)' /\ videoDevices'[s] = videoDevices[s]
  PROVE  DevicesReturned'
BY DEF DevicesReturned, TypeInv, TypeOK

\* A step of a call of s that holds no cameras before it: allocate(), or a
\* release that is under way.
LEMMA OthersHold ==
  ASSUME TypeInv, DevicesReturned, NEW s \in Sessions,
         ~(s \in reservations /\ NoRelease(s)),
         allocatedVideoDevices' \subseteq allocatedVideoDevices,
         \A t \in Sessions \ {s} :
           /\ rel'[t] = rel[t]
           /\ videoDevices'[t] = videoDevices[t]
           /\ t \in reservations' <=> t \in reservations
  PROVE  DevicesReturned'
<1>1. ASSUME NEW t \in Sessions, t \in reservations, NoRelease(t)
      PROVE  t \in reservations' /\ NoRelease(t)' /\ videoDevices'[t] = videoDevices[t]
  BY <1>1 DEF NoRelease
<1>2. QED
  BY <1>1, KeepsHeld

\* No camera is marked at first.
THEOREM DevicesInit == Init => DevicesReturned
BY DEF Init, DevicesReturned

\* One step per action: a camera is marked by DevicesPresent and unmarked by
\* Release, and no other action takes one from its holder.
THEOREM DevicesStep ==
  ASSUME TypeInv, DevicesReturned, [Next]_vars
  PROVE  DevicesReturned'
<1> USE DEF TypeInv
<1>1. ASSUME UNCHANGED <<allocatedVideoDevices, reservations, videoDevices, rel>>
      PROVE  DevicesReturned'
  BY <1>1 DEF DevicesReturned, NoRelease
<1>2. ASSUME NEW s \in Sessions, AllocateReal(s) \/ AllocateDryRun(s)
      PROVE  DevicesReturned'
  BY <1>2, OthersHold DEF AllocateReal, AllocateDryRun, MayAllocate, TypeOK
<1>3. ASSUME NEW s \in Sessions, NEW c \in Releasers, NEW k \in 1..3,
             NEW p \in [Sides -> Process], ReleaseLoop(s, c, k, p)
      PROVE  \A t \in Sessions \ {s} : /\ rel'[t] = rel[t]
                                       /\ t \in reservations' <=> t \in reservations
  BY <1>3 DEF ReleaseLoop, ReleaseAwaits, ReleaseEnds, TypeOK
<1>4. ASSUME NEW s \in Sessions, NEW c \in Callers, Release(s, c)
      PROVE  DevicesReturned'
  <2>0. c \in Releasers /\ 1 \in 1..3 /\ xvfb[s] \in [Sides -> Process]
    BY DEF Releasers, TypeOK
  <2>1. \A t \in Sessions \ {s} : /\ rel'[t] = rel[t]
                                  /\ t \in reservations' <=> t \in reservations
    BY <1>3, <1>4, <2>0 DEF Release
  <2>2. /\ allocatedVideoDevices' = allocatedVideoDevices \ videoDevices[s]
        /\ UNCHANGED videoDevices
    BY <1>4 DEF Release
  <2>3. \A t \in Sessions \ {s} : NoRelease(t)' = NoRelease(t)
    BY <2>1 DEF NoRelease
  <2>4. ASSUME NEW v \in allocatedVideoDevices'
        PROVE  \E t \in reservations' : NoRelease(t)' /\ v \in videoDevices'[t]
    <3>1. v \in allocatedVideoDevices /\ v \notin videoDevices[s]
      BY <2>2
    <3>2. PICK t \in reservations : NoRelease(t) /\ v \in videoDevices[t]
      BY <3>1 DEF DevicesReturned
    <3>3. t \in Sessions \ {s}
      BY <3>1, <3>2 DEF TypeOK
    <3>4. QED
      BY <2>1, <2>2, <2>3, <3>2, <3>3
  <2>5. QED
    BY <2>4 DEF DevicesReturned
<1>5. ASSUME NEW s \in Sessions, NEW c \in Releasers, ReleaseContinues(s, c)
      PROVE  DevicesReturned'
  <2>1. rel[s][c] \in 0..2 /\ rel[s][c] # 0
    BY <1>5 DEF TypeOK, ReleaseContinues
  <2>2. rel[s][c] + 1 \in 1..3
    BY <2>1
  <2>3. \A t \in Sessions \ {s} : /\ rel'[t] = rel[t]
                                  /\ t \in reservations' <=> t \in reservations
    BY <1>3, <1>5, <2>2 DEF ReleaseContinues, TypeOK
  <2>4. ~NoRelease(s)
    BY <2>1 DEF NoRelease
  <2>5. QED
    BY <1>5, <2>3, <2>4, OthersHold DEF ReleaseContinues
<1>6. ASSUME NEW s \in Sessions, NEW p \in [Sides -> Process],
             alloc[s] # "idle", AllocateFails(s, p), UNCHANGED allocatedVideoDevices
      PROVE  DevicesReturned'
  <2>1. ReleaseLoop(s, Undo, 1, p) /\ Undo \in Releasers
    BY <1>6 DEF AllocateFails, Releasers
  <2>2. \A t \in Sessions \ {s} : /\ rel'[t] = rel[t]
                                  /\ t \in reservations' <=> t \in reservations
    BY <1>3, <2>1
  <2>3. /\ s \notin reservations
        /\ \A t \in Sessions \ {s} : videoDevices'[t] = videoDevices[t]
    BY <1>6 DEF AllocatesAlone, AllocateFails, TypeOK
  <2>4. QED
    BY <1>6, <2>2, <2>3, OthersHold
<1>7. ASSUME NEW s \in Sessions, TargetReadyNoVideo(s)
      PROVE  DevicesReturned'
  BY <1>7, KeepsHeld DEF TargetReadyNoVideo, NoRelease
<1>8. ASSUME NEW s \in Sessions, TargetReadyVideo(s)
      PROVE  DevicesReturned'
  <2>1. s \notin reservations
    BY <1>8 DEF TargetReadyVideo, PollReady, Waiting, AllocatesAlone
  <2>2. QED
    BY <1>8, <2>1, OthersHold DEF TargetReadyVideo, TypeOK
<1>9. ASSUME NEW s \in Sessions, DevicesPresent(s)
      PROVE  DevicesReturned'
  <2>1. NoRelease(s)
    BY <1>9 DEF DevicesPresent, AllocatesAlone
  <2>2. /\ allocatedVideoDevices' = allocatedVideoDevices \cup videoDevices[s]
        /\ reservations' = reservations \cup {s}
        /\ UNCHANGED <<videoDevices, rel>>
    BY <1>9 DEF DevicesPresent
  <2>3. \A t \in Sessions : NoRelease(t)' = NoRelease(t)
    BY <2>2 DEF NoRelease
  <2>4. QED
    BY <2>1, <2>2, <2>3 DEF DevicesReturned, TypeOK
<1>10. ASSUME NEW s \in Sessions, NotEnoughDevices(s) \/ DeviceMissing(s)
       PROVE  DevicesReturned'
  BY <1>6, <1>10 DEF NotEnoughDevices, DeviceMissing, PollReady, Waiting, TypeOK
<1>11. ASSUME NEW s \in Sessions, NEW i \in Sides, XvfbStartFails(s, i) \/ WaitTimesOut(s, i)
       PROVE  DevicesReturned'
  BY <1>6, <1>11, RecordedType DEF XvfbStartFails, WaitTimesOut, Waiting
<1>12. QED
  <2>1. ASSUME NEW s \in Sessions, Begin(s)
        PROVE  DevicesReturned'
    BY <1>1, <1>2, <1>4, <2>1 DEF Begin, AllocateExhausted
  <2>2. ASSUME NEW s \in Sessions, AllocateStep(s)
        PROVE  DevicesReturned'
    BY <1>1, <1>7, <1>8, <1>9, <1>10, <1>11, <2>2 DEF AllocateStep, SourceReady
  <2>3. ASSUME NEW s \in Sessions, Environment(s)
        PROVE  DevicesReturned'
    BY <1>1, <2>3
       DEF Environment, XvfbBoots, XvfbExits, XvfbCrashes, XvfbCloses, XvfbUnchanged
  <2>4. ASSUME NEW d \in Displays, OrphanBoots(d) \/ OrphanExits(d)
        PROVE  DevicesReturned'
    BY <1>1, <2>4 DEF OrphanBoots, OrphanExits, XvfbUnchanged
  <2>5. ASSUME UNCHANGED vars
        PROVE  DevicesReturned'
    BY <1>1, <2>5 DEF vars
  <2>6. QED
    BY <1>5, <2>1, <2>2, <2>3, <2>4, <2>5 DEF Next

\* A camera is marked only while a session that took it holds it, however many
\* releases of a session overlap.
THEOREM Returned == Spec => []DevicesReturned
<1>1. TypeInv /\ DevicesReturned /\ [Next]_vars => TypeInv' /\ DevicesReturned'
  BY TypeInvStep, DevicesStep
<1>2. QED
  BY <1>1, TypeInvInit, DevicesInit, PTL DEF Spec

-----------------------------------------------------------------------------
(* Every X server is stopped                                               *)

\* A session with nothing reserved and no call in flight has no process left
\* in its record, and none that was killed.
NothingLeft ==
  \A s \in Sessions : MayAllocate(s) =>
    \A i \in Sides : xvfb[s][i] = "none" /\ i \notin killed[s]

\* Only a release sends SIGTERM.
KilledByRelease == \A s \in Sessions : NoRelease(s) => killed[s] = {}

\* The release that awaits the close of one side has seen the sides before it
\* stop, and has not sent a signal to those behind it.
StopsInOrder ==
  \A s \in Sessions, c \in Releasers, i \in Sides : rel[s][c] # 0 =>
    /\ i < rel[s][c] => xvfb[s][i] \notin Running
    /\ i > rel[s][c] => i \notin killed[s]

ReapedInv == ExclusiveInv /\ NothingLeft /\ KilledByRelease /\ StopsInOrder

\* The loop of releaseReservation() stops the servers from side k on, in order,
\* and ends only when none runs.
LEMMA ReleaseLoopReaps ==
  ASSUME ReapedInv,
         NEW s \in Sessions, NEW c \in Releasers, NEW k \in 1..3,
         NEW p \in [Sides -> Process],
         \A o \in Releasers \ {c} : rel[s][o] = 0,
         \A i \in Sides : i < k => p[i] \notin Running,
         \A i \in Sides : i >= k => i \notin killed[s],
         ReleaseLoop(s, c, k, p),
         \A t \in Sessions \ {s} : alloc'[t] = alloc[t]
  PROVE  NothingLeft' /\ KilledByRelease' /\ StopsInOrder'
<1> USE DEF ReapedInv, ExclusiveInv, TypeInv
<1>1. \A t \in Sessions \ {s} :
        /\ rel'[t] = rel[t]
        /\ xvfb'[t] = xvfb[t]
        /\ killed'[t] = killed[t]
        /\ t \in reservations' <=> t \in reservations
  BY DEF ReleaseLoop, ReleaseAwaits, ReleaseEnds, TypeOK
<1>2. SUFFICES ASSUME NEW t \in Sessions
               PROVE  /\ MayAllocate(t)' =>
                           \A i \in Sides : xvfb'[t][i] = "none" /\ i \notin killed'[t]
                      /\ NoRelease(t)' => killed'[t] = {}
                      /\ \A e \in Releasers, i \in Sides : rel'[t][e] # 0 =>
                           /\ i < rel'[t][e] => xvfb'[t][i] \notin Running
                           /\ i > rel'[t][e] => i \notin killed'[t]
  BY DEF NothingLeft, KilledByRelease, StopsInOrder
<1>3. CASE t # s
  BY <1>1, <1>3 DEF NothingLeft, KilledByRelease, StopsInOrder, MayAllocate, NoRelease
<1>4. CASE t = s /\ ReleaseAwaits(s, c, k, p)
  <2>1. PICK i \in MustAwait(s, k, p) :
             /\ IsLowest(i, MustAwait(s, k, p))
             /\ rel' = [rel EXCEPT ![s][c] = i]
             /\ killed' = [killed EXCEPT ![s] = IF p[i] = "crashed" THEN @ ELSE @ \cup {i}]
             /\ xvfb' = [xvfb EXCEPT ![s] = p]
    BY <1>4 DEF ReleaseAwaits
  <2>2. i \in Sides /\ i >= k
    BY <2>1 DEF MustAwait, Sides
  <2>3. /\ rel'[s][c] = i
        /\ \A o \in Releasers \ {c} : rel'[s][o] = 0
        /\ xvfb'[s] = p
        /\ killed'[s] \subseteq killed[s] \cup {i}
    BY <2>1 DEF TypeOK
  <2>4. ~NoRelease(s)'
    BY <2>2, <2>3 DEF NoRelease, Sides
  <2>5. ASSUME NEW j \in Sides, j < i
        PROVE  p[j] \notin Running
    <3>1. CASE j < k
      BY <3>1
    <3>2. CASE j >= k
      <4>1. j \notin MustAwait(s, k, p)
        BY <2>1, <2>2, <2>5 DEF IsLowest, Sides
      <4>2. j \in k..2
        BY <3>2 DEF Sides
      <4>3. QED
        BY <3>2, <4>1, <4>2 DEF MustAwait
    <3>3. QED
      BY <3>1, <3>2 DEF Sides
  <2>6. \A j \in Sides : j > i => j \notin killed'[s]
    BY <2>2, <2>3 DEF Sides
  <2>7. QED
    BY <1>4, <2>2, <2>3, <2>4, <2>5, <2>6 DEF MayAllocate
<1>5. CASE t = s /\ ReleaseEnds(s, c, k, p)
  <2>1. ASSUME NEW i \in Sides
        PROVE  p[i] \notin Running
    <3>1. CASE i < k
      BY <3>1
    <3>2. CASE i >= k
      <4>1. i \in k..2
        BY <3>2 DEF Sides
      <4>2. QED
        BY <1>5, <3>2, <4>1 DEF ReleaseEnds, MustAwait
    <3>3. QED
      BY <3>1, <3>2 DEF Sides
  <2>2. /\ rel' = [rel EXCEPT ![s][c] = 0]
        /\ xvfb' = [xvfb EXCEPT ![s] = Pair("none", "none")]
        /\ killed' = [killed EXCEPT ![s] = {}]
    BY <1>5, <2>1 DEF ReleaseEnds
  <2>3. \A o \in Releasers : rel'[s][o] = 0
    BY <2>2 DEF TypeOK
  <2>4. xvfb'[s] = Pair("none", "none") /\ killed'[s] = {}
    BY <2>2 DEF TypeOK
  <2>5. QED
    BY <1>5, <2>3, <2>4 DEF Pair
<1>6. QED
  BY <1>3, <1>4, <1>5 DEF ReleaseLoop

\* A step that changes no process, no release and no reservation, or only so
\* that the session is busy.
LEMMA ReapedFrame ==
  ASSUME ReapedInv, UNCHANGED <<rel, xvfb, killed>>,
         \A s \in Sessions : MayAllocate(s)' => MayAllocate(s)
  PROVE  NothingLeft' /\ KilledByRelease' /\ StopsInOrder'
BY DEF ReapedInv, NothingLeft, KilledByRelease, StopsInOrder, NoRelease

\* allocate()'s catch, with the processes that it knows.
LEMMA AllocateFailsReaps ==
  ASSUME ReapedInv, NEW s \in Sessions, NEW p \in [Sides -> Process],
         alloc[s] # "idle", AllocateFails(s, p)
  PROVE  NothingLeft' /\ KilledByRelease' /\ StopsInOrder'
<1> USE DEF ReapedInv, ExclusiveInv, TypeInv
<1>1. NoRelease(s) /\ killed[s] = {}
  BY DEF AllocatesAlone, KilledByRelease
<1>2. /\ Undo \in Releasers
      /\ ReleaseLoop(s, Undo, 1, p)
      /\ \A t \in Sessions \ {s} : alloc'[t] = alloc[t]
  BY DEF AllocateFails, TypeOK, Releasers
<1>3. \A o \in Releasers \ {Undo} : rel[s][o] = 0
  BY <1>1 DEF NoRelease
<1>4. \A i \in Sides : ~(i < 1)
  BY DEF Sides
<1>5. QED
  BY <1>1, <1>2, <1>3, <1>4, ReleaseLoopReaps

\* Nothing runs at first.
THEOREM ReapedInvInit == Init => ReapedInv
<1>1. ASSUME Init
      PROVE  NothingLeft /\ KilledByRelease /\ StopsInOrder
  BY <1>1 DEF Init, NothingLeft, KilledByRelease, StopsInOrder, Pair
<1>2. QED
  BY <1>1, ExclusiveInvInit DEF ReapedInv

\* One step per action.
THEOREM ReapedInvStep ==
  ASSUME ReapedInv, OneAtATime, ~Overlaps, [Next]_vars
  PROVE  ReapedInv'
<1> USE DEF ReapedInv, ExclusiveInv, TypeInv
<1> DEFINE Goal == NothingLeft' /\ KilledByRelease' /\ StopsInOrder'
<1>1. ExclusiveInv'
  BY ExclusiveInvStep
<1>2. ASSUME NEW s \in Sessions, AllocateReal(s)
      PROVE  Goal
  <2>1. NoRelease(s) /\ killed[s] = {}
    BY <1>2 DEF AllocateReal, MayAllocate, KilledByRelease
  <2>2. /\ alloc' = [alloc EXCEPT ![s] = "source"]
        /\ xvfb' = [xvfb EXCEPT ![s] = Pair("booting", "none")]
        /\ UNCHANGED <<reservations, rel, killed>>
    BY <1>2 DEF AllocateReal
  <2>3. ~MayAllocate(s)'
    BY <2>2 DEF MayAllocate, TypeOK
  <2>4. \A t \in Sessions \ {s} : /\ xvfb'[t] = xvfb[t]
                                  /\ MayAllocate(t)' => MayAllocate(t)
    BY <2>2 DEF MayAllocate, NoRelease, TypeOK
  <2>5. NothingLeft'
    BY <2>2, <2>3, <2>4 DEF NothingLeft
  <2>6. KilledByRelease'
    BY <2>2 DEF KilledByRelease, NoRelease
  <2>7. StopsInOrder'
    BY <2>1, <2>2, <2>4 DEF StopsInOrder, NoRelease
  <2>8. QED
    BY <2>5, <2>6, <2>7
<1>3. ASSUME NEW s \in Sessions, AllocateDryRun(s)
      PROVE  Goal
  BY <1>3, ReapedFrame DEF AllocateDryRun, MayAllocate, NoRelease
<1>4. ASSUME NEW s \in Sessions, AllocateExhausted(s)
      PROVE  Goal
  BY <1>4, ReapedFrame DEF AllocateExhausted, MayAllocate, NoRelease
<1>5. ASSUME NEW s \in Sessions, NEW c \in Callers, Release(s, c)
      PROVE  Goal
  <2>1. \A o \in Releasers : rel[s][o] = 0
    BY <1>5 DEF Overlaps, NoRelease
  <2>2. killed[s] = {}
    BY <2>1 DEF KilledByRelease, NoRelease
  <2>3. /\ c \in Releasers
        /\ xvfb[s] \in [Sides -> Process]
        /\ UNCHANGED alloc
        /\ ReleaseLoop(s, c, 1, xvfb[s])
    BY <1>5 DEF Release, Releasers, TypeOK
  <2>4. \A i \in Sides : ~(i < 1)
    BY DEF Sides
  <2>5. QED
    BY <2>1, <2>2, <2>3, <2>4, ReleaseLoopReaps
<1>6. ASSUME NEW s \in Sessions, NEW c \in Releasers, ReleaseContinues(s, c)
      PROVE  Goal
  <2>1. \A o \in Releasers \ {c} : rel[s][o] = 0
    BY <1>6, CallersAssumption DEF ReleaseContinues, Phases, Releasers, Undo, OneAtATime
  <2>2. rel[s][c] \in 1..2 /\ rel[s][c] + 1 \in 1..3 /\ xvfb[s][rel[s][c]] = "exited"
    <3>1. rel[s][c] \in 0..2 /\ rel[s][c] # 0 /\ xvfb[s][rel[s][c]] = "exited"
      BY <1>6 DEF ReleaseContinues, TypeOK
    <3>2. QED
      BY <3>1
  <2>3. \A i \in Sides : i < rel[s][c] + 1 => i < rel[s][c] \/ i = rel[s][c]
    BY <2>2 DEF Sides
  <2>4. \A i \in Sides : i < rel[s][c] + 1 => xvfb[s][i] \notin Running
    BY <2>2, <2>3 DEF StopsInOrder, Running
  <2>5. \A i \in Sides : i >= rel[s][c] + 1 => i \notin killed[s]
    BY <2>2 DEF StopsInOrder, Sides
  <2>6. /\ xvfb[s] \in [Sides -> Process]
        /\ UNCHANGED alloc
        /\ ReleaseLoop(s, c, rel[s][c] + 1, xvfb[s])
    BY <1>6 DEF ReleaseContinues, TypeOK
  <2>7. QED
    BY <2>1, <2>2, <2>4, <2>5, <2>6, ReleaseLoopReaps
<1>7. ASSUME NEW s \in Sessions, SourceReady(s)
      PROVE  Goal
  <2>1. /\ alloc' = [alloc EXCEPT ![s] = "target"]
        /\ xvfb' = [xvfb EXCEPT ![s][2] = "booting"]
        /\ UNCHANGED <<reservations, rel, killed>>
        /\ NoRelease(s)
    BY <1>7 DEF SourceReady, PollReady, Waiting, AllocatesAlone
  <2>2. ~MayAllocate(s)'
    BY <2>1 DEF MayAllocate, TypeOK
  <2>3. \A t \in Sessions \ {s} : /\ xvfb'[t] = xvfb[t]
                                  /\ MayAllocate(t)' => MayAllocate(t)
    BY <2>1 DEF MayAllocate, NoRelease, TypeOK
  <2>4. NothingLeft'
    BY <2>1, <2>2, <2>3 DEF NothingLeft
  <2>5. KilledByRelease'
    BY <2>1 DEF KilledByRelease, NoRelease
  <2>6. StopsInOrder'
    BY <2>1, <2>3 DEF StopsInOrder, NoRelease, KilledByRelease
  <2>7. QED
    BY <2>4, <2>5, <2>6
<1>8. ASSUME NEW s \in Sessions,
             TargetReadyNoVideo(s) \/ TargetReadyVideo(s) \/ DevicesPresent(s)
      PROVE  Goal
  <2>1. /\ UNCHANGED <<rel, xvfb, killed>>
        /\ \A t \in Sessions \ {s} : /\ alloc'[t] = alloc[t]
                                     /\ t \in reservations' <=> t \in reservations
        /\ s \in reservations' \/ alloc'[s] = "access"
    BY <1>8 DEF TargetReadyNoVideo, TargetReadyVideo, DevicesPresent, TypeOK
  <2>2. \A t \in Sessions : MayAllocate(t)' => MayAllocate(t)
    BY <2>1 DEF MayAllocate, NoRelease
  <2>3. QED
    BY <2>1, <2>2, ReapedFrame
<1>9. ASSUME NEW s \in Sessions, NotEnoughDevices(s) \/ DeviceMissing(s)
      PROVE  Goal
  BY <1>9, AllocateFailsReaps DEF NotEnoughDevices, DeviceMissing, PollReady, Waiting, TypeOK
<1>10. ASSUME NEW s \in Sessions, NEW i \in Sides, XvfbStartFails(s, i) \/ WaitTimesOut(s, i)
       PROVE  Goal
  BY <1>10, RecordedType, AllocateFailsReaps DEF XvfbStartFails, WaitTimesOut, Waiting
<1>11. ASSUME NEW s \in Sessions, Environment(s)
       PROVE  Goal
  <2>1. PICK i \in Sides : XvfbBoots(s, i) \/ XvfbExits(s, i) \/ XvfbCrashes(s, i)
                           \/ XvfbCloses(s, i)
    BY <1>11 DEF Environment
  <2>2. /\ xvfb[s][i] \in Running
        /\ UNCHANGED <<reservations, alloc, rel, killed>>
    BY <2>1 DEF XvfbBoots, XvfbExits, XvfbCrashes, XvfbCloses, XvfbUnchanged, Running
  <2>3. \A t \in Sessions, j \in Sides : xvfb'[t][j] # xvfb[t][j] => t = s /\ j = i
    BY <2>1 DEF XvfbBoots, XvfbExits, XvfbCrashes, XvfbCloses, TypeOK
  <2>4. ~MayAllocate(s)
    BY <2>2 DEF NothingLeft, Running
  <2>5. \A t \in Sessions : /\ MayAllocate(t)' => MayAllocate(t)
                            /\ NoRelease(t)' = NoRelease(t)
    BY <2>2 DEF MayAllocate, NoRelease
  <2>6. NothingLeft'
    BY <2>2, <2>3, <2>4, <2>5 DEF NothingLeft
  <2>7. KilledByRelease'
    BY <2>2, <2>5 DEF KilledByRelease
  <2>8. StopsInOrder'
    BY <2>2, <2>3 DEF StopsInOrder
  <2>9. QED
    BY <2>6, <2>7, <2>8
<1>12. ASSUME NEW d \in Displays, OrphanBoots(d) \/ OrphanExits(d)
       PROVE  Goal
  BY <1>12, ReapedFrame DEF OrphanBoots, OrphanExits, XvfbUnchanged, MayAllocate, NoRelease
<1>13. ASSUME UNCHANGED vars
       PROVE  Goal
  BY <1>13, ReapedFrame DEF vars, MayAllocate, NoRelease
<1>14. Goal
  <2>1. ASSUME NEW s \in Sessions, Begin(s)
        PROVE  Goal
    BY <1>2, <1>3, <1>4, <1>5, <2>1 DEF Begin
  <2>2. ASSUME NEW s \in Sessions, AllocateStep(s)
        PROVE  Goal
    BY <1>7, <1>8, <1>9, <1>10, <2>2 DEF AllocateStep
  <2>3. QED
    BY <1>6, <1>11, <1>12, <1>13, <2>1, <2>2 DEF Next
<1>15. QED
  BY <1>1, <1>14

\* When the releases of one session do not overlap, a session that is gone
\* leaves no Xvfb of its record behind, whatever crashed, timed out or failed.
THEOREM Reaped ==
  ASSUME OneCaller
  PROVE  Spec => []XvfbReaped
<1>1. ReapedInv => XvfbReaped
  BY DEF ReapedInv, NothingLeft, XvfbReaped, Running
<1>2. ReapedInv /\ [Next]_vars => ReapedInv'
  BY ReapedInvStep, OneCallerNeverOverlaps DEF ReapedInv
<1>3. QED
  BY <1>1, <1>2, ReapedInvInit, PTL DEF Spec

=============================================================================
