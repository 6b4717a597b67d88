---------------------------- MODULE NodeRegistry ----------------------------
(***************************************************************************)
(* How the control plane knows its workers: the registry, the scheduler    *)
(* that places sessions by it, and the ControlPlaneClient of each worker   *)
(* that registers and sends a heartbeat every interval.  Calls are lost in *)
(* either direction; both sides crash and start again.                     *)
(*                                                                         *)
(* Time is counted in heartbeat intervals.  A beat, two calls of at most   *)
(* five seconds each, is over before the next one.                         *)
(***************************************************************************)
EXTENDS Naturals

CONSTANTS
  Nodes,
  StaleAfter,   \* CONTROL_PLANE_NODE_STALE_AFTER, in intervals
  MaxSessions,  \* bound: sessions of one worker
  MaxRestarts   \* bound: restarts of the control plane

ASSUME StaleAfterAssumption == StaleAfter \in Nat \ {0}
ASSUME BoundsAssumption == MaxSessions \in Nat /\ MaxRestarts \in Nat

VARIABLES
  nodes,          \* the keys of the registry's map
  activeSession,  \* node.ActiveSession
  age,            \* intervals since node.LastHeartbeat, StaleAfter + 1 at most
  up,             \* the workers that run
  size,           \* runtime.heartbeat().activeSessions
  registered,     \* the workers whose client has registered set
  sending,        \* the call a client awaits
  carried,        \* the active sessions a heartbeat carries
  reply,          \* the reply to that call, once served
  restarts,
  trouble         \* history: beats since the last clean one that were lost, or
                  \* met a control plane that had started again; StaleAfter + 1
                  \* at most, and from the start of the worker on

registry == <<nodes, activeSession, age>>
client == <<registered, sending, carried, reply>>
vars == <<nodes, activeSession, age, up, size, registered, sending, carried, reply,
          restarts, trouble>>

TypeOK ==
  /\ nodes \subseteq Nodes
  /\ activeSession \in [Nodes -> 0..MaxSessions]
  /\ age \in [Nodes -> 0..StaleAfter + 1]
  /\ up \subseteq Nodes
  /\ size \in [Nodes -> 0..MaxSessions]
  /\ registered \subseteq up
  /\ sending \in [Nodes -> {"none", "register", "heartbeat"}]
  /\ \A n \in Nodes \ up : sending[n] = "none"
  /\ carried \in [Nodes -> 0..MaxSessions]
  /\ reply \in [Nodes -> {"none", "ok", "notFound"}]
  /\ restarts \in 0..MaxRestarts
  /\ trouble \in [Nodes -> 0..StaleAfter + 1]

Init ==
  /\ nodes = {}
  /\ activeSession = [n \in Nodes |-> 0]
  /\ age = [n \in Nodes |-> 0]
  /\ up = {}
  /\ size = [n \in Nodes |-> 0]
  /\ registered = {}
  /\ sending = [n \in Nodes |-> "none"]
  /\ carried = [n \in Nodes |-> 0]
  /\ reply = [n \in Nodes |-> "none"]
  /\ restarts = 0
  /\ trouble = [n \in Nodes |-> 0]

Older(k) == IF k > StaleAfter THEN k ELSE k + 1

-----------------------------------------------------------------------------
(* The worker's client                                                     *)

\* main(): a first register(), and then the heartbeat timer.
WorkerStarts(n) ==
  /\ n \notin up
  /\ up' = up \cup {n}
  /\ sending' = [sending EXCEPT ![n] = "register"]
  /\ trouble' = [trouble EXCEPT ![n] = StaleAfter + 1]
  /\ UNCHANGED <<registry, size, registered, carried, reply, restarts>>

\* Mutant: the client of a worker that shuts down goes on.
WorkerStopsButBeats(n) ==
  /\ n \in up
  /\ up' = up \ {n}
  /\ size' = [size EXCEPT ![n] = 0]
  /\ registered' = registered \ {n}
  /\ trouble' = [trouble EXCEPT ![n] = 0]
  /\ UNCHANGED <<registry, sending, carried, reply, restarts>>

\* A crash or a shutdown: nothing tells the registry.
WorkerStops(n) ==
  /\ n \in up
  /\ up' = up \ {n}
  /\ size' = [size EXCEPT ![n] = 0]
  /\ registered' = registered \ {n}
  /\ sending' = [sending EXCEPT ![n] = "none"]
  /\ carried' = [carried EXCEPT ![n] = 0]
  /\ reply' = [reply EXCEPT ![n] = "none"]
  /\ trouble' = [trouble EXCEPT ![n] = 0]
  /\ UNCHANGED <<registry, restarts>>

\* An interval is over: sendHeartbeat().
TimerFires(n) ==
  /\ n \in up
  /\ sending[n] = "none"
  /\ age' = [age EXCEPT ![n] = IF n \in nodes THEN Older(@) ELSE 0]
  /\ sending' = [sending EXCEPT ![n] = IF n \in registered THEN "heartbeat" ELSE "register"]
  /\ carried' = [carried EXCEPT ![n] = IF n \in registered THEN size[n] ELSE 0]
  /\ UNCHANGED <<nodes, activeSession, up, size, registered, reply, restarts, trouble>>

\* A worker that is down gets older all the same.
IntervalPasses(n) ==
  /\ n \notin up
  /\ age' = [age EXCEPT ![n] = IF n \in nodes THEN Older(@) ELSE 0]
  /\ UNCHANGED <<nodes, activeSession, up, size, client, restarts, trouble>>

Registered(n) ==
  /\ sending[n] = "register"
  /\ reply[n] = "ok"
  /\ registered' = registered \cup {n}
  /\ sending' = [sending EXCEPT ![n] = "none"]
  /\ reply' = [reply EXCEPT ![n] = "none"]
  /\ trouble' = [trouble EXCEPT ![n] = 0]
  /\ UNCHANGED <<registry, up, size, carried, restarts>>

Accepted(n) ==
  /\ sending[n] = "heartbeat"
  /\ reply[n] = "ok"
  /\ sending' = [sending EXCEPT ![n] = "none"]
  /\ reply' = [reply EXCEPT ![n] = "none"]
  /\ trouble' = [trouble EXCEPT ![n] = 0]
  /\ carried' = [carried EXCEPT ![n] = 0]
  /\ UNCHANGED <<registry, up, size, registered, restarts>>

\* Mutant: a 404 is left to the next beat.
NotKnownWaits(n) ==
  /\ reply[n] = "notFound"
  /\ registered' = registered \ {n}
  /\ sending' = [sending EXCEPT ![n] = "none"]
  /\ reply' = [reply EXCEPT ![n] = "none"]
  /\ trouble' = [trouble EXCEPT ![n] = 0]
  /\ carried' = [carried EXCEPT ![n] = 0]
  /\ UNCHANGED <<registry, up, size, restarts>>

\* Mutant: a 404 is taken for an accepted heartbeat.
NotKnownIgnored(n) ==
  /\ reply[n] = "notFound"
  /\ sending' = [sending EXCEPT ![n] = "none"]
  /\ reply' = [reply EXCEPT ![n] = "none"]
  /\ carried' = [carried EXCEPT ![n] = 0]
  /\ UNCHANGED <<registry, up, size, registered, restarts, trouble>>

\* 404: register at once.
NotKnown(n) ==
  /\ reply[n] = "notFound"
  /\ registered' = registered \ {n}
  /\ sending' = [sending EXCEPT ![n] = "register"]
  /\ reply' = [reply EXCEPT ![n] = "none"]
  /\ carried' = [carried EXCEPT ![n] = 0]
  /\ UNCHANGED <<registry, up, size, restarts, trouble>>

\* An error or a timeout, before or after the call was served.
CallLost(n) ==
  /\ sending[n] # "none"
  /\ registered' = registered \ {n}
  /\ sending' = [sending EXCEPT ![n] = "none"]
  /\ reply' = [reply EXCEPT ![n] = "none"]
  /\ trouble' = [trouble EXCEPT ![n] = Older(@)]
  /\ carried' = [carried EXCEPT ![n] = 0]
  /\ UNCHANGED <<registry, up, size, restarts>>

-----------------------------------------------------------------------------
(* The registry                                                            *)

\* Register(): a new Node, with no active sessions.
RegisterServed(n) ==
  /\ sending[n] = "register"
  /\ reply[n] = "none"
  /\ nodes' = nodes \cup {n}
  /\ activeSession' = [activeSession EXCEPT ![n] = 0]
  /\ age' = [age EXCEPT ![n] = 0]
  /\ reply' = [reply EXCEPT ![n] = "ok"]
  /\ UNCHANGED <<up, size, registered, sending, carried, restarts, trouble>>

\* Mutant: the heartbeat refreshes the time only.
HeartbeatServedTimeOnly(n) ==
  /\ sending[n] = "heartbeat"
  /\ reply[n] = "none"
  /\ age' = [age EXCEPT ![n] = IF n \in nodes THEN 0 ELSE @]
  /\ reply' = [reply EXCEPT ![n] = IF n \in nodes THEN "ok" ELSE "notFound"]
  /\ UNCHANGED <<nodes, activeSession, up, size, registered, sending, carried, restarts,
                 trouble>>

\* Heartbeat().
HeartbeatServed(n) ==
  /\ sending[n] = "heartbeat"
  /\ reply[n] = "none"
  /\ IF n \in nodes
     THEN /\ activeSession' = [activeSession EXCEPT ![n] = carried[n]]
          /\ age' = [age EXCEPT ![n] = 0]
          /\ reply' = [reply EXCEPT ![n] = "ok"]
     ELSE /\ reply' = [reply EXCEPT ![n] = "notFound"]
          /\ UNCHANGED <<activeSession, age>>
  /\ UNCHANGED <<nodes, up, size, registered, sending, carried, restarts, trouble>>

\* The registry is in memory.
ControlPlaneRestarts ==
  /\ restarts < MaxRestarts
  /\ restarts' = restarts + 1
  /\ nodes' = {}
  /\ activeSession' = [n \in Nodes |-> 0]
  /\ age' = [n \in Nodes |-> 0]
  /\ reply' = [n \in Nodes |-> "none"]
  /\ trouble' = [n \in Nodes |-> IF n \in up THEN Older(trouble[n]) ELSE 0]
  /\ UNCHANGED <<up, size, registered, sending, carried>>

-----------------------------------------------------------------------------
(* The scheduler                                                           *)

\* IsOnline(); every worker reports the status "online".
Candidates == {n \in nodes : age[n] <= StaleAfter}

\* SelectNode() by the counts of the registry (ties fall to the last heartbeat
\* and the id), and the session that the worker then has.
Place(n) ==
  /\ n \in Candidates
  /\ \A m \in Candidates : activeSession[n] <= activeSession[m]
  /\ n \in up
  /\ size[n] < MaxSessions
  /\ size' = [size EXCEPT ![n] = @ + 1]
  /\ UNCHANGED <<registry, up, client, restarts, trouble>>

SessionEnds(n) ==
  /\ size[n] > 0
  /\ size' = [size EXCEPT ![n] = @ - 1]
  /\ UNCHANGED <<registry, up, client, restarts, trouble>>

-----------------------------------------------------------------------------
Next ==
  \/ \E n \in Nodes :
       \/ WorkerStarts(n) \/ WorkerStops(n) \/ TimerFires(n) \/ IntervalPasses(n)
       \/ Registered(n) \/ Accepted(n) \/ NotKnown(n) \/ CallLost(n)
       \/ RegisterServed(n) \/ HeartbeatServed(n)
       \/ Place(n) \/ SessionEnds(n)
  \/ ControlPlaneRestarts

Spec == Init /\ [][Next]_vars

\* The timer fires and calls are served and answered.  CallLost may take any of
\* them, but not every registration or every answer to one, nor every heartbeat:
\* a heartbeat that is lost makes the client register again, with no sessions.
Step(n) ==
  \/ TimerFires(n) \/ Registered(n) \/ Accepted(n) \/ NotKnown(n)
  \/ RegisterServed(n) \/ HeartbeatServed(n)

Fairness ==
  \A n \in Nodes :
    /\ WF_vars(Step(n))
    /\ SF_vars(RegisterServed(n)) /\ SF_vars(Registered(n)) /\ SF_vars(HeartbeatServed(n))

FairSpec == Spec /\ Fairness

-----------------------------------------------------------------------------
(* Properties                                                              *)

\* Between two beats a worker whose last beat went well is in the registry,
\* also after a restart of the control plane, and one that is in the registry
\* is no older than the beats it lost: a worker stays schedulable until
\* StaleAfter beats in a row have failed.
Schedulable ==
  \A n \in up :
    sending[n] = "none" =>
      /\ trouble[n] = 0 => n \in nodes
      /\ n \in nodes => age[n] <= trouble[n] + 1

\* A worker that runs becomes schedulable, whatever was lost or restarted.
Rejoins == \A n \in Nodes : n \in up ~> n \in Candidates \/ n \notin up

\* The count the scheduler goes by catches up with the worker's sessions, also
\* after a registration has set it to zero.
CountCatchesUp ==
  \A n \in Nodes : \A k \in 0..MaxSessions :
    n \in up /\ size[n] = k ~> activeSession[n] = k \/ size[n] # k \/ n \notin up
=============================================================================
