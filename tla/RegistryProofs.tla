--------------------------- MODULE RegistryProofs ---------------------------
(***************************************************************************)
(* Theorems about NodeRegistry, for every set of workers, every staleness  *)
(* limit and every number of restarts of the control plane.                *)
(***************************************************************************)
EXTENDS NodeRegistry, TLAPS

\* A worker that is down awaits no call, and a reply belongs to a call.
RepliesAwaited ==
  \A n \in Nodes :
    /\ n \notin up => sending[n] = "none"
    /\ sending[n] = "none" => reply[n] = "none"

\* What the registry said still holds when the client reads it: no interval
\* passes, and a control plane that starts again takes its replies with it.
RepliesHold ==
  \A n \in Nodes :
    /\ reply[n] = "ok" => n \in nodes /\ age[n] = 0
    /\ reply[n] = "notFound" => n \notin nodes /\ sending[n] = "heartbeat"

\* While a call is under way the entry is one interval older than between two.
AgeBounded ==
  \A n \in up :
    n \in nodes =>
      age[n] <= IF sending[n] = "none" THEN trouble[n] + 1 ELSE trouble[n] + 2

KnownIfWell == \A n \in up : sending[n] = "none" /\ trouble[n] = 0 => n \in nodes

IInv ==
  /\ TypeOK
  /\ RepliesAwaited
  /\ RepliesHold
  /\ AgeBounded
  /\ KnownIfWell

\* One interval older, up to the bound.
LEMMA OlderType ==
  ASSUME NEW k \in 0..StaleAfter + 1
  PROVE  /\ Older(k) \in 1..StaleAfter + 1
         /\ Older(k) <= k + 1
         /\ Older(k) = k + 1 \/ (k = StaleAfter + 1 /\ Older(k) = k)
BY StaleAfterAssumption DEF Older

\* At first nobody runs and nobody is registered.
LEMMA IInvInit == Init => IInv
BY BoundsAssumption, StaleAfterAssumption
   DEF Init, IInv, TypeOK, RepliesAwaited, RepliesHold, AgeBounded, KnownIfWell

\* One step per action.
LEMMA IInvStep == IInv /\ [Next]_vars => IInv'
<1> SUFFICES ASSUME IInv, [Next]_vars
             PROVE  IInv'
  OBVIOUS
<1> USE BoundsAssumption, StaleAfterAssumption DEF IInv, registry, client
<1>1. ASSUME NEW n \in Nodes, WorkerStarts(n)
      PROVE  IInv'
  <2> USE <1>1 DEF WorkerStarts
  <2>1. TypeOK'
    BY DEF TypeOK, RepliesAwaited
  <2>2. RepliesAwaited' /\ RepliesHold'
    BY DEF TypeOK, RepliesAwaited, RepliesHold
  <2>3. AgeBounded' /\ KnownIfWell'
    BY DEF TypeOK, RepliesAwaited, RepliesHold, AgeBounded, KnownIfWell
  <2>4. QED
    BY <2>1, <2>2, <2>3
<1>2. ASSUME NEW n \in Nodes, WorkerStops(n)
      PROVE  IInv'
  <2> USE <1>2 DEF WorkerStops
  <2>1. TypeOK'
    BY DEF TypeOK, RepliesAwaited
  <2>2. RepliesAwaited' /\ RepliesHold'
    BY DEF TypeOK, RepliesAwaited, RepliesHold
  <2>3. AgeBounded' /\ KnownIfWell'
    BY DEF TypeOK, RepliesAwaited, RepliesHold, AgeBounded, KnownIfWell
  <2>4. QED
    BY <2>1, <2>2, <2>3
<1>3. ASSUME NEW n \in Nodes, TimerFires(n)
      PROVE  IInv'
  <2> USE <1>3 DEF TimerFires
  <2>1. TypeOK'
    BY OlderType DEF TypeOK, RepliesAwaited
  <2>2. RepliesAwaited' /\ RepliesHold'
    BY DEF TypeOK, RepliesAwaited, RepliesHold
  <2>3. AgeBounded' /\ KnownIfWell'
    BY OlderType DEF TypeOK, RepliesAwaited, RepliesHold, AgeBounded, KnownIfWell
  <2>4. QED
    BY <2>1, <2>2, <2>3
<1>4. ASSUME NEW n \in Nodes, IntervalPasses(n)
      PROVE  IInv'
  <2> USE <1>4 DEF IntervalPasses
  <2>1. TypeOK'
    BY OlderType DEF TypeOK, RepliesAwaited
  <2>2. RepliesAwaited' /\ RepliesHold'
    BY DEF TypeOK, RepliesAwaited, RepliesHold
  <2>3. AgeBounded' /\ KnownIfWell'
    BY OlderType DEF TypeOK, RepliesAwaited, RepliesHold, AgeBounded, KnownIfWell
  <2>4. QED
    BY <2>1, <2>2, <2>3
<1>5. ASSUME NEW n \in Nodes, Registered(n)
      PROVE  IInv'
  <2> USE <1>5 DEF Registered
  <2>1. TypeOK'
    BY DEF TypeOK, RepliesAwaited
  <2>2. RepliesAwaited' /\ RepliesHold'
    BY DEF TypeOK, RepliesAwaited, RepliesHold
  <2>3. AgeBounded' /\ KnownIfWell'
    BY DEF TypeOK, RepliesAwaited, RepliesHold, AgeBounded, KnownIfWell
  <2>4. QED
    BY <2>1, <2>2, <2>3
<1>6. ASSUME NEW n \in Nodes, Accepted(n)
      PROVE  IInv'
  <2> USE <1>6 DEF Accepted
  <2>1. TypeOK'
    BY DEF TypeOK, RepliesAwaited
  <2>2. RepliesAwaited' /\ RepliesHold'
    BY DEF TypeOK, RepliesAwaited, RepliesHold
  <2>3. AgeBounded' /\ KnownIfWell'
    BY DEF TypeOK, RepliesAwaited, RepliesHold, AgeBounded, KnownIfWell
  <2>4. QED
    BY <2>1, <2>2, <2>3
<1>7. ASSUME NEW n \in Nodes, NotKnown(n)
      PROVE  IInv'
  <2> USE <1>7 DEF NotKnown
  <2>1. TypeOK'
    BY DEF TypeOK, RepliesAwaited
  <2>2. RepliesAwaited' /\ RepliesHold'
    BY DEF TypeOK, RepliesAwaited, RepliesHold
  <2>3. AgeBounded' /\ KnownIfWell'
    BY DEF TypeOK, RepliesAwaited, RepliesHold, AgeBounded, KnownIfWell
  <2>4. QED
    BY <2>1, <2>2, <2>3
<1>8. ASSUME NEW n \in Nodes, CallLost(n)
      PROVE  IInv'
  <2> USE <1>8 DEF CallLost
  <2>1. TypeOK'
    BY OlderType DEF TypeOK, RepliesAwaited
  <2>2. RepliesAwaited' /\ RepliesHold'
    BY DEF TypeOK, RepliesAwaited, RepliesHold
  <2>3. AgeBounded' /\ KnownIfWell'
    BY OlderType DEF TypeOK, RepliesAwaited, RepliesHold, AgeBounded, KnownIfWell
  <2>4. QED
    BY <2>1, <2>2, <2>3
<1>9. ASSUME NEW n \in Nodes, RegisterServed(n)
      PROVE  IInv'
  <2> USE <1>9 DEF RegisterServed
  <2>1. TypeOK'
    BY DEF TypeOK, RepliesAwaited
  <2>2. RepliesAwaited' /\ RepliesHold'
    BY DEF TypeOK, RepliesAwaited, RepliesHold
  <2>3. AgeBounded' /\ KnownIfWell'
    BY DEF TypeOK, RepliesAwaited, RepliesHold, AgeBounded, KnownIfWell
  <2>4. QED
    BY <2>1, <2>2, <2>3
<1>10. ASSUME NEW n \in Nodes, HeartbeatServed(n)
      PROVE  IInv'
  <2> USE <1>10 DEF HeartbeatServed
  <2>1. TypeOK'
    BY DEF TypeOK, RepliesAwaited
  <2>2. RepliesAwaited' /\ RepliesHold'
    BY DEF TypeOK, RepliesAwaited, RepliesHold
  <2>3. AgeBounded' /\ KnownIfWell'
    BY DEF TypeOK, RepliesAwaited, RepliesHold, AgeBounded, KnownIfWell
  <2>4. QED
    BY <2>1, <2>2, <2>3
<1>11. ASSUME NEW n \in Nodes, Place(n)
      PROVE  IInv'
  <2> USE <1>11 DEF Place
  <2>1. TypeOK'
    BY DEF TypeOK, RepliesAwaited
  <2>2. RepliesAwaited' /\ RepliesHold'
    BY DEF TypeOK, RepliesAwaited, RepliesHold
  <2>3. AgeBounded' /\ KnownIfWell'
    BY DEF TypeOK, RepliesAwaited, RepliesHold, AgeBounded, KnownIfWell
  <2>4. QED
    BY <2>1, <2>2, <2>3
<1>12. ASSUME NEW n \in Nodes, SessionEnds(n)
      PROVE  IInv'
  <2> USE <1>12 DEF SessionEnds
  <2>1. TypeOK'
    BY DEF TypeOK, RepliesAwaited
  <2>2. RepliesAwaited' /\ RepliesHold'
    BY DEF TypeOK, RepliesAwaited, RepliesHold
  <2>3. AgeBounded' /\ KnownIfWell'
    BY DEF TypeOK, RepliesAwaited, RepliesHold, AgeBounded, KnownIfWell
  <2>4. QED
    BY <2>1, <2>2, <2>3
<1>13. ASSUME ControlPlaneRestarts
       PROVE  IInv'
  <2> USE <1>13 DEF ControlPlaneRestarts
  <2>1. TypeOK'
    BY OlderType DEF TypeOK
  <2>2. RepliesAwaited' /\ RepliesHold'
    BY DEF TypeOK, RepliesAwaited, RepliesHold
  <2>3. AgeBounded' /\ KnownIfWell'
    BY OlderType DEF TypeOK, AgeBounded, KnownIfWell
  <2>4. QED
    BY <2>1, <2>2, <2>3
<1>14. ASSUME UNCHANGED vars
       PROVE  IInv'
  BY <1>14 DEF vars, TypeOK, RepliesAwaited, RepliesHold, AgeBounded, KnownIfWell
<1>15. QED
  BY <1>1, <1>2, <1>3, <1>4, <1>5, <1>6, <1>7, <1>8, <1>9, <1>10, <1>11, <1>12, <1>13, <1>14
     DEF Next

\* In every state each variable is in its range, and a worker that is down
\* awaits nothing.
THEOREM TypeCorrect == Spec => []TypeOK
<1>1. IInv => TypeOK
  BY DEF IInv
<1>2. QED
  BY <1>1, IInvInit, IInvStep, PTL DEF Spec

\* A worker stays in the registry, and young enough for the scheduler, as long
\* as fewer than StaleAfter beats in a row have failed, however the losses, its
\* own restarts and those of the control plane fall between its calls.
THEOREM StaysSchedulable == Spec => []Schedulable
<1>1. IInv => Schedulable
  BY DEF IInv, AgeBounded, KnownIfWell, Schedulable
<1>2. QED
  BY <1>1, IInvInit, IInvStep, PTL DEF Spec
=============================================================================
