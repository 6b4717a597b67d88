----------------------------- MODULE MediaProofs -----------------------------
(***************************************************************************)
(* Theorems about MediaPipeline, for every number of attempts, with or     *)
(* without forwarders that a foreign signal ends.                          *)
(***************************************************************************)
EXTENDS MediaPipeline, TLAPS

-----------------------------------------------------------------------------
(* The inductive invariant                                                 *)

Working == {"waiting", "audio"}
Ending == {"teardown", "failing"}

\* start() and the reconnect loop; stop() comes once, and only a stop() that
\* finds the bridge live leaves the builder where it is.
CallersFollow ==
  /\ pc["builder"] # "idle" /\ pc["stop"] \in {"idle", "teardown", "over"}
  /\ pc["builder"] = "waiting" => attempt < MaxAttempts
  /\ pc["stop"] # "idle" /\ ~interrupted => pc["builder"] = "live"

\* Four modules for each attempt.
LoadsBounded ==
  loads <= IF pc["builder"] = "audio" THEN 4 * attempt - 4 + Len(moduleIds) ELSE 4 * attempt

\* A teardown unloads the entry as it was when it began, from the end; what it
\* has passed is not loaded any more.
Unloads(c) ==
  modulesBySession # <<>> =>
    /\ Len(unloading[c]) <= Len(modulesBySession)
    /\ \A n \in 1..Len(unloading[c]) : unloading[c][n] = modulesBySession[n]
    /\ \A n \in Len(unloading[c]) + 1..Len(modulesBySession) : modulesBySession[n] \notin pulse

\* No entry is left behind by a builder that begins again or is over, nor by a
\* stop() of a live bridge.
ListsFollow ==
  /\ pc["builder"] # "audio" => moduleIds = <<>>
  /\ pc["builder"] \in Working =>
       modulesBySession = <<>> /\ \A c \in Callers : unloading[c] = <<>>
  /\ \A c \in Callers :
       /\ pc[c] \notin Ending => unloading[c] = <<>>
       /\ unloading[c] # <<>> => Unloads(c)
  /\ pc["builder"] \in Ending \cup {"over"} /\ unloading["builder"] = <<>> =>
       modulesBySession = <<>>
  /\ pc["stop"] # "idle" /\ ~interrupted /\ unloading["stop"] = <<>> => modulesBySession = <<>>

\* A teardown alone: it stops one process after the other.
Alone(c) ==
  /\ closing[c] = 0 => ~forwarding /\ \A i \in Directions : ffmpeg[i] \notin Alive
  /\ closing[c] # 0 => ffmpeg[closing[c]] # "running"
  /\ \A i \in Directions : i < closing[c] => ffmpeg[i] \notin Alive
  /\ \A i \in Directions : ffmpeg[i] = "stopping" => i = closing[c]

ProcessesFollow ==
  /\ \A c \in Callers : pc[c] \notin Ending => closing[c] = 0
  /\ pc["builder"] \in Working =>
       /\ ~forwarding
       /\ \A c \in Callers : closing[c] = 0
       /\ \A i \in Directions : ffmpeg[i] \notin Alive
  /\ pc["stop"] = "idle" /\ pc["builder"] \in {"joining", "live"} =>
       forwarding /\ \A i \in Directions : ffmpeg[i] # "stopping"
  /\ pc["stop"] = "idle" /\ pc["builder"] \in Ending \cup {"over"} => Alone("builder")
  /\ pc["stop"] # "idle" /\ ~interrupted => Alone("stop")

IInv ==
  /\ TypeOK
  /\ CallersFollow
  /\ LoadsBounded
  /\ ModulesKnown
  /\ ListsFollow
  /\ ProcessesFollow

\* Nothing is loaded, started or under way at first.
LEMMA IInvInit == Init => IInv
<1> SUFFICES ASSUME Init
             PROVE  IInv
  OBVIOUS
<1>1. Len(<<>>) = 0 /\ MaxAttempts \in Nat \ {0}
  BY BoundsAssumption
<1>2. TypeOK
  <2>1. <<>> \in Seq(Ids) /\ 0 \in 0..MaxAttempts
    BY <1>1
  <2>2. /\ pc \in [Callers -> {"idle", "waiting", "audio", "joining", "live",
                             "teardown", "failing", "over"}]
        /\ unloading \in [Callers -> Seq(Ids)] /\ closing \in [Callers -> {0} \cup Directions]
        /\ ffmpeg \in [Directions -> {"none", "running", "stopping", "stopped", "exited", "signalled"}]
    BY <2>1 DEF Init
  <2>3. /\ moduleIds \in Seq(Ids) /\ Len(moduleIds) < 4
        /\ modulesBySession \in Seq(Ids) /\ Len(modulesBySession) \in {0, 4}
        /\ expected \in Seq(Ids)
    BY <1>1, <2>1 DEF Init
  <2>4. /\ attempt \in 0..MaxAttempts /\ monitor \in BOOLEAN
        /\ pulse \subseteq 1..loads /\ loads \in {0} \cup Ids
        /\ forwarding \in BOOLEAN /\ check \in {"idle", "listing", "listed"}
        /\ listed \subseteq Ids /\ abandoned \subseteq Ids /\ interrupted \in BOOLEAN
    BY <2>1 DEF Init
  <2>5. QED
    BY <2>2, <2>3, <2>4 DEF TypeOK
<1>3. CallersFollow /\ LoadsBounded /\ ModulesKnown
  BY <1>1 DEF Init, CallersFollow, LoadsBounded, ModulesKnown, Callers
<1>4. ListsFollow /\ ProcessesFollow
  BY DEF Init, ListsFollow, ProcessesFollow, Callers, Ending, Working, Alive, Alone
<1>5. QED
  BY <1>2, <1>3, <1>4 DEF IInv

\* The elements of a sequence that grows or shrinks at its end.
LEMMA ElementsAre ==
  ASSUME NEW S, NEW s \in Seq(S)
  PROVE  /\ Elements(s) = {s[n] : n \in 1..Len(s)}
         /\ Elements(s) \subseteq S
         /\ Elements(<<>>) = {}
         /\ \A e \in S : Elements(Append(s, e)) = Elements(s) \cup {e}
         /\ Len(s) # 0 => Elements(s) = Elements(SubSeq(s, 1, Len(s) - 1)) \cup {s[Len(s)]}
<1>1. Elements(s) = {s[n] : n \in 1..Len(s)} /\ Elements(s) \subseteq S /\ Elements(<<>>) = {}
  BY DEF Elements
<1>2. ASSUME NEW e \in S
      PROVE  Elements(Append(s, e)) = Elements(s) \cup {e}
  <2> DEFINE r == Append(s, e)
  <2>1. /\ r \in Seq(S) /\ Len(r) = Len(s) + 1 /\ r[Len(s) + 1] = e
        /\ \A n \in 1..Len(s) : r[n] = s[n]
    OBVIOUS
  <2> HIDE DEF r
  <2>2. DOMAIN r = 1..Len(s) + 1 /\ DOMAIN s = 1..Len(s) /\ Len(s) \in Nat
    BY <2>1
  <2>3. \A n \in 1..Len(s) + 1 : n \in 1..Len(s) \/ n = Len(s) + 1
    BY <2>2
  <2>4. \A n \in 1..Len(s) : n \in 1..Len(s) + 1
    BY <2>2
  <2>5. Len(s) + 1 \in 1..Len(s) + 1
    BY <2>2
  <2>6. Elements(r) = Elements(s) \cup {e}
    BY <2>1, <2>2, <2>3, <2>4, <2>5 DEF Elements
  <2>7. QED
    BY <2>6 DEF r
<1>3. ASSUME Len(s) # 0
      PROVE  Elements(s) = Elements(SubSeq(s, 1, Len(s) - 1)) \cup {s[Len(s)]}
  <2> DEFINE r == SubSeq(s, 1, Len(s) - 1)
  <2>1. /\ r \in Seq(S) /\ Len(r) = Len(s) - 1 /\ Len(s) \in Nat \ {0}
        /\ \A n \in 1..Len(s) - 1 : r[n] = s[n]
    <3>1. Len(s) \in Nat \ {0} /\ \A n \in 1..Len(s) : s[n] \in S
      BY <1>3
    <3> DEFINE m == Len(s) - 1
    <3>2. m \in 0..Len(s) /\ r = SubSeq(s, 1, m)
      BY <3>1
    <3> HIDE DEF m
    <3>3. r \in Seq(S) /\ Len(r) = m /\ \A n \in 1..m : r[n] = s[n]
      BY <3>1, <3>2
    <3>4. QED
      BY <3>1, <3>3 DEF m
  <2> HIDE DEF r
  <2>2. DOMAIN r = 1..Len(s) - 1 /\ DOMAIN s = 1..Len(s)
    BY <2>1
  <2>3. \A n \in 1..Len(s) : n \in 1..Len(s) - 1 \/ n = Len(s)
    BY <2>1
  <2>4. \A n \in 1..Len(s) - 1 : n \in 1..Len(s)
    BY <2>1
  <2>5. Len(s) \in 1..Len(s)
    BY <2>1
  <2>6. Elements(s) = Elements(r) \cup {s[Len(s)]}
    BY <2>1, <2>2, <2>3, <2>4, <2>5 DEF Elements
  <2>7. QED
    BY <2>6 DEF r
<1>4. QED
  BY <1>1, <1>2, <1>3

-----------------------------------------------------------------------------
(* teardown()                                                              *)

States == {"none", "running", "stopping", "stopped", "exited", "signalled"}

\* VideoManager.teardown() finds the next process to wait for, or is through.
LEMMA TerminateMeans ==
  ASSUME TypeOK, NEW c \in Callers, NEW k \in 1..3, TerminateFrom(c, k)
  PROVE  /\ forwarding' \in BOOLEAN /\ ffmpeg' \in [Directions -> States]
         /\ closing' \in [Callers -> {0} \cup Directions]
         /\ \A d \in Callers \ {c} : closing'[d] = closing[d]
         /\ \A i \in Directions : i # closing'[c] => ffmpeg'[i] = ffmpeg[i]
         /\ closing'[c] = 0 =>
              ~forwarding' /\ \A i \in Directions : i >= k => ffmpeg'[i] # "running"
         /\ closing'[c] # 0 =>
              /\ closing'[c] >= k /\ forwarding' = forwarding /\ ffmpeg'[closing'[c]] # "running"
              /\ \A i \in Directions : i >= k /\ i < closing'[c] => ffmpeg'[i] # "running"
<1>1. /\ forwarding \in BOOLEAN /\ ffmpeg \in [Directions -> States]
      /\ closing \in [Callers -> {0} \cup Directions]
  BY DEF TypeOK, States
<1>2. Awaited(k) = {i \in Directions : i >= k /\ ffmpeg[i] \in {"running", "signalled"}}
  BY DEF Awaited, Directions
<1>3. CASE Awaited(k) = {}
  BY <1>1, <1>2, <1>3 DEF TerminateFrom
<1>4. CASE Awaited(k) # {}
  <2> DEFINE i == CHOOSE j \in Awaited(k) : \A m \in Awaited(k) : j <= m
  <2>1. \E j \in Awaited(k) : \A m \in Awaited(k) : j <= m
    BY <1>2, <1>4 DEF Directions
  <2>2. i \in Awaited(k) /\ \A m \in Awaited(k) : i <= m
    BY <2>1
  <2>3. /\ closing' = [closing EXCEPT ![c] = i] /\ forwarding' = forwarding
        /\ ffmpeg' = [ffmpeg EXCEPT ![i] = IF @ = "running" THEN "stopping" ELSE @]
    BY <1>4 DEF TerminateFrom
  <2> HIDE DEF i
  <2>4. i \in Directions /\ i >= k /\ \A m \in Directions : m >= k /\ m < i => ffmpeg[m] # "running"
    BY <1>2, <2>2 DEF Directions
  <2>5. ffmpeg' \in [Directions -> States] /\ ffmpeg'[i] # "running"
    BY <1>1, <2>3, <2>4 DEF States
  <2>6. closing'[c] = i /\ i # 0
    BY <1>1, <2>3, <2>4 DEF Directions
  <2>7. QED
    BY <1>1, <2>3, <2>4, <2>5, <2>6 DEF Directions
<1>5. QED
  BY <1>3, <1>4

\* The sound modules at the begin of a teardown.
LEMMA TeardownLists ==
  ASSUME IInv, NEW c \in Callers, NEW where \in Ending, pc[c] \notin Ending,
         pc' = [pc EXCEPT ![c] = where], unloading' = [unloading EXCEPT ![c] = modulesBySession],
         UNCHANGED <<modulesBySession, pulse>>,
         \/ c = "stop" /\ UNCHANGED <<moduleIds, abandoned>>
         \/ /\ c = "builder" /\ moduleIds' = <<>>
            /\ abandoned' = abandoned \cup Elements(moduleIds) /\ UNCHANGED interrupted
            /\ pc["stop"] # "idle" => interrupted
  PROVE  ModulesKnown' /\ ListsFollow'
<1>1. /\ pc \in [Callers -> {"idle", "waiting", "audio", "joining", "live",
                             "teardown", "failing", "over"}]
      /\ unloading \in [Callers -> Seq(Ids)] /\ modulesBySession \in Seq(Ids)
      /\ Len(modulesBySession) \in Nat
  BY DEF IInv, TypeOK
<1>2. unloading[c] = <<>> /\ Elements(<<>>) = {}
  BY ElementsAre DEF IInv, ListsFollow, Elements
<1>3. ModulesKnown'
  <2>1. \A d \in Callers : Elements(unloading[d]) \subseteq Elements(unloading'[d])
    BY <1>1, <1>2
  <2>2. Elements(moduleIds) \cup abandoned \subseteq Elements(moduleIds') \cup abandoned'
    OBVIOUS
  <2>3. QED
    BY <2>1, <2>2 DEF IInv, ModulesKnown
<1>4. Unloads(c)'
  BY <1>1 DEF Unloads
<1>5. \A d \in Callers : pc'[d] \notin Ending => unloading'[d] = <<>>
  BY <1>1 DEF IInv, ListsFollow
<1>6. \A d \in Callers : unloading'[d] # <<>> => Unloads(d)'
  BY <1>1, <1>4 DEF IInv, ListsFollow, Unloads
<1>7. /\ pc'[c] = where /\ unloading'[c] = modulesBySession
      /\ \A d \in Callers \ {c} : pc'[d] = pc[d] /\ unloading'[d] = unloading[d]
      /\ where \notin Working \cup {"idle", "audio"}
  BY <1>1 DEF Working, Ending
<1>8. /\ pc'["builder"] # "audio" => moduleIds' = <<>>
      /\ pc'["builder"] \in Working =>
           modulesBySession = <<>> /\ \A d \in Callers : unloading'[d] = <<>>
  BY <1>2, <1>7 DEF IInv, ListsFollow, Callers
<1>9. /\ pc'["builder"] \in Ending \cup {"over"} /\ unloading'["builder"] = <<>> =>
           modulesBySession = <<>>
      /\ pc'["stop"] # "idle" /\ ~interrupted' /\ unloading'["stop"] = <<>> =>
           modulesBySession = <<>>
  <2>1. CASE c = "stop"
    BY <1>7, <2>1 DEF IInv, ListsFollow, Callers
  <2>2. CASE c = "builder"
    BY <1>7, <2>2 DEF IInv, ListsFollow, Callers
  <2>3. QED
    BY <2>1, <2>2 DEF Callers
<1>10. ListsFollow'
  BY <1>5, <1>6, <1>8, <1>9 DEF ListsFollow
<1>11. QED
  BY <1>3, <1>10

\* The forwarders at the begin of a teardown.
LEMMA TeardownProcesses ==
  ASSUME IInv, NEW c \in Callers, NEW where \in Ending, pc[c] \notin Ending,
         pc' = [pc EXCEPT ![c] = where],
         IF forwarding THEN TerminateFrom(c, 1) ELSE UNCHANGED picture,
         \/ /\ c = "stop" /\ pc["stop"] = "idle" /\ interrupted' = (pc["builder"] # "live")
            /\ pc["builder"] \notin {"failing", "over"}
         \/ /\ c = "builder" /\ UNCHANGED interrupted
            /\ pc["stop"] # "idle" => interrupted
            /\ pc["builder"] \in {"audio", "joining", "live"}
  PROVE  /\ ProcessesFollow'
         /\ forwarding' \in BOOLEAN /\ ffmpeg' \in [Directions -> States]
         /\ closing' \in [Callers -> {0} \cup Directions]
<1>1. /\ pc'[c] = where /\ where \notin Working \cup {"idle", "joining", "live", "over"}
      /\ \A d \in Callers \ {c} : pc'[d] = pc[d]
  BY DEF IInv, TypeOK, Working, Ending
<1>2. closing[c] = 0
  BY DEF IInv, ProcessesFollow
<1>3. /\ forwarding' \in BOOLEAN /\ ffmpeg' \in [Directions -> States]
      /\ closing' \in [Callers -> {0} \cup Directions]
      /\ \A d \in Callers \ {c} : closing'[d] = closing[d]
  BY TerminateMeans DEF picture, IInv, TypeOK, States
<1>4. ~forwarding => UNCHANGED picture
  OBVIOUS
<1>5. ASSUME forwarding, \A i \in Directions : ffmpeg[i] # "stopping"
      PROVE  Alone(c)'
  <2>1. /\ \A i \in Directions : i # closing'[c] => ffmpeg'[i] = ffmpeg[i]
        /\ closing'[c] = 0 => ~forwarding' /\ \A i \in Directions : i >= 1 => ffmpeg'[i] # "running"
        /\ closing'[c] # 0 =>
             /\ ffmpeg'[closing'[c]] # "running"
             /\ \A i \in Directions : i >= 1 /\ i < closing'[c] => ffmpeg'[i] # "running"
    <3> DEFINE k == 1
    <3>1. k \in 1..3 /\ TerminateFrom(c, k) /\ TypeOK
      BY <1>5 DEF IInv
    <3> HIDE DEF k
    <3>2. /\ \A i \in Directions : i # closing'[c] => ffmpeg'[i] = ffmpeg[i]
          /\ closing'[c] = 0 => ~forwarding' /\ \A i \in Directions : i >= k => ffmpeg'[i] # "running"
          /\ closing'[c] # 0 =>
               /\ ffmpeg'[closing'[c]] # "running"
               /\ \A i \in Directions : i >= k /\ i < closing'[c] => ffmpeg'[i] # "running"
      BY <3>1, TerminateMeans
    <3>3. QED
      BY <3>2 DEF k
  <2>2. \A i \in Directions : i >= 1 /\ i # 0
    BY DEF Directions
  <2>3. \A i \in Directions : ffmpeg'[i] = "stopping" => i = closing'[c]
    BY <1>5, <2>1
  <2>4. closing'[c] # 0 => \A i \in Directions : i < closing'[c] => i # closing'[c]
    BY <1>3 DEF Directions
  <2>5. QED
    BY <1>3, <2>1, <2>2, <2>3, <2>4 DEF Alone, Alive
<1>6. ASSUME ~forwarding, \A i \in Directions : ffmpeg[i] \notin Alive
      PROVE  Alone(c)' /\ closing'[c] = 0 /\ UNCHANGED picture
  BY <1>2, <1>4, <1>6 DEF Alone, picture, Alive, IInv, TypeOK, Directions
<1>7. CASE c = "stop"
  <2>1. pc'["builder"] = pc["builder"] /\ pc'["stop"] # "idle"
    BY <1>1, <1>7 DEF Callers
  <2>2. pc["builder"] = "live" => Alone("stop")'
    BY <1>5, <1>7 DEF IInv, ProcessesFollow
  <2>3. pc["builder"] \in Working =>
          UNCHANGED picture /\ \A i \in Directions : ffmpeg[i] \notin Alive
    BY <1>6 DEF IInv, ProcessesFollow
  <2>4. \A d \in Callers : pc'[d] \notin Ending => closing'[d] = 0
    BY <1>1, <1>3 DEF IInv, ProcessesFollow
  <2>5. QED
    BY <1>3, <1>7, <2>1, <2>2, <2>3, <2>4 DEF IInv, ProcessesFollow, picture
<1>8. CASE c = "builder"
  <2>1. pc'["stop"] = pc["stop"] /\ pc'["builder"] \notin Working \cup {"joining", "live"}
    BY <1>1, <1>8 DEF Callers
  <2>2. pc["stop"] = "idle" => Alone("builder")'
    BY <1>5, <1>6, <1>8 DEF IInv, ProcessesFollow, Working
  <2>3. \A d \in Callers : pc'[d] \notin Ending => closing'[d] = 0
    BY <1>1, <1>3 DEF IInv, ProcessesFollow
  <2>4. QED
    BY <1>3, <1>8, <2>1, <2>2, <2>3 DEF IInv, ProcessesFollow
<1>9. QED
  BY <1>3, <1>7, <1>8 DEF Callers

\* A teardown of the builder: its attempt has failed, or the bridge is lost.
LEMMA BuilderTearsDown ==
  ASSUME IInv, NEW where \in Ending, BeginTeardown("builder", where),
         \/ pc["builder"] \in {"audio", "joining"}
         \/ pc["builder"] = "live" /\ pc["stop"] = "idle",
         UNCHANGED <<attempt, interrupted, modulesBySession, pulse, loads>>,
         moduleIds' = <<>>, abandoned' = abandoned \cup Elements(moduleIds),
         check' \in {"idle", "listing", "listed"}, expected' \in Seq(Ids), listed' \subseteq Ids
  PROVE  IInv'
<1> DEFINE c == "builder"
<1>1. /\ c \in Callers /\ pc[c] \notin Ending /\ (pc["stop"] # "idle" => interrupted)
      /\ pc' = [pc EXCEPT ![c] = where] /\ monitor' = FALSE
      /\ unloading' = [unloading EXCEPT ![c] = modulesBySession]
      /\ IF forwarding THEN TerminateFrom(c, 1) ELSE UNCHANGED picture
  BY DEF BeginTeardown, Callers, Ending, IInv, CallersFollow
<1>2. ModulesKnown' /\ ListsFollow'
  BY <1>1, TeardownLists
<1>3. /\ ProcessesFollow' /\ forwarding' \in BOOLEAN
      /\ ffmpeg' \in [Directions -> States] /\ closing' \in [Callers -> {0} \cup Directions]
  BY <1>1, TeardownProcesses
<1>4. pc'["builder"] = where /\ pc'["stop"] = pc["stop"]
  BY <1>1 DEF IInv, TypeOK, Callers
<1>5. CallersFollow'
  BY <1>1, <1>4 DEF IInv, CallersFollow, Ending
<1>6. LoadsBounded'
  <2>1. Len(moduleIds) \in Nat /\ Len(moduleIds) < 4 /\ attempt \in Nat /\ loads \in Nat
    BY BoundsAssumption DEF IInv, TypeOK, Ids
  <2>2. QED
    BY <1>4, <2>1 DEF IInv, LoadsBounded, Ending
<1>7. TypeOK'
  <2>1. pc' \in [Callers -> {"idle", "waiting", "audio", "joining", "live",
                             "teardown", "failing", "over"}]
    BY <1>1 DEF IInv, TypeOK, Ending
  <2>2. unloading' \in [Callers -> Seq(Ids)] /\ abandoned' \subseteq Ids
    BY <1>1, ElementsAre DEF IInv, TypeOK
  <2>3. moduleIds' \in Seq(Ids) /\ Len(moduleIds') < 4
    OBVIOUS
  <2>4. QED
    BY <1>1, <1>3, <2>1, <2>2, <2>3 DEF IInv, TypeOK, States
<1>8. QED
  BY <1>2, <1>3, <1>5, <1>6, <1>7 DEF IInv

\* stop() copies the entry as it is and stops the first process, if any runs.
LEMMA StopTearsDown ==
  ASSUME IInv, Stop
  PROVE  IInv'
<1> DEFINE c == "stop"
           where == "teardown"
<1>1. /\ c \in Callers /\ where \in Ending /\ pc[c] = "idle"
      /\ pc["builder"] \notin {"failing", "over"}
      /\ pc' = [pc EXCEPT ![c] = where] /\ monitor' = FALSE
      /\ unloading' = [unloading EXCEPT ![c] = modulesBySession]
      /\ IF forwarding THEN TerminateFrom(c, 1) ELSE UNCHANGED picture
      /\ interrupted' = (pc["builder"] # "live")
      /\ UNCHANGED <<attempt, moduleIds, modulesBySession, pulse, loads, abandoned, health>>
  BY DEF Stop, stopped, BeginTeardown, Callers, Ending
<1>2. pc[c] \notin Ending
  BY <1>1 DEF Ending
<1>3. ModulesKnown' /\ ListsFollow'
  BY <1>1, <1>2, TeardownLists
<1>4. /\ ProcessesFollow' /\ forwarding' \in BOOLEAN
      /\ ffmpeg' \in [Directions -> States] /\ closing' \in [Callers -> {0} \cup Directions]
  BY <1>1, <1>2, TeardownProcesses
<1>5. pc'["stop"] = "teardown" /\ pc'["builder"] = pc["builder"]
  BY <1>1 DEF IInv, TypeOK, Callers
<1>6. CallersFollow' /\ LoadsBounded'
  BY <1>1, <1>5 DEF IInv, CallersFollow, LoadsBounded
<1>7. TypeOK'
  <2>1. pc' \in [Callers -> {"idle", "waiting", "audio", "joining", "live",
                             "teardown", "failing", "over"}]
    BY <1>1 DEF IInv, TypeOK
  <2>2. unloading' \in [Callers -> Seq(Ids)]
    BY <1>1 DEF IInv, TypeOK
  <2>3. QED
    BY <1>1, <1>4, <2>1, <2>2 DEF IInv, TypeOK, States, health
<1>8. QED
  BY <1>3, <1>4, <1>6, <1>7 DEF IInv

\* A health check reads, or takes the bridge down.
LEMMA ReconnectMeans ==
  ASSUME IInv, RequestReconnect,
         UNCHANGED <<attempt, interrupted, moduleIds, modulesBySession, pulse, loads, abandoned>>,
         check' \in {"idle", "listing", "listed"}, expected' \in Seq(Ids), listed' \subseteq Ids
  PROVE  IInv'
<1>1. CASE pc["builder"] = "live" /\ ~stopped
  <2>1. /\ BeginTeardown("builder", "teardown") /\ "teardown" \in Ending /\ pc["stop"] = "idle"
        /\ moduleIds = <<>>
    BY <1>1 DEF RequestReconnect, Ending, stopped, IInv, ListsFollow
  <2>2. abandoned \cup Elements(moduleIds) = abandoned
    BY <2>1 DEF Elements
  <2>3. QED
    BY <1>1, <2>1, <2>2, BuilderTearsDown
<1>2. CASE ~(pc["builder"] = "live" /\ ~stopped)
  <2>1. UNCHANGED <<pc, monitor, unloading, picture>>
    BY <1>2 DEF RequestReconnect
  <2>2. TypeOK'
    BY <2>1 DEF picture, IInv, TypeOK
  <2>3. CallersFollow' /\ LoadsBounded' /\ ModulesKnown' /\ ListsFollow' /\ ProcessesFollow'
    BY <2>1 DEF picture, IInv, CallersFollow, LoadsBounded, ModulesKnown, ListsFollow, Unloads,
                ProcessesFollow, Alone
  <2>4. QED
    BY <2>2, <2>3 DEF IInv
<1>3. QED
  BY <1>1, <1>2

-----------------------------------------------------------------------------
(* Every step keeps the invariant                                          *)

\* configure() begins with no entry, no module to unload and no forwarder.
LEMMA ConfigureKeeps ==
  ASSUME IInv, Configure
  PROVE  IInv'
<1>1. /\ pc["builder"] = "waiting" /\ attempt' = attempt + 1 /\ moduleIds' = <<>>
      /\ pc' = [pc EXCEPT !["builder"] = "audio"]
      /\ UNCHANGED <<monitor, interrupted, modulesBySession, unloading, pulse, loads,
                     abandoned, picture, health>>
  BY DEF Configure
<1>2. pc'["builder"] = "audio" /\ pc'["stop"] = pc["stop"] /\ moduleIds = <<>>
  BY <1>1 DEF IInv, TypeOK, Callers, ListsFollow
<1>3. /\ MaxAttempts \in Nat /\ attempt \in Nat /\ attempt < MaxAttempts /\ loads \in Nat
      /\ Len(moduleIds') = 0 /\ moduleIds' \in Seq(Ids)
  BY <1>1, BoundsAssumption DEF IInv, TypeOK, CallersFollow, Ids
<1>4. TypeOK'
  <2>1. attempt' \in 0..MaxAttempts
    BY <1>1, <1>3
  <2>2. pc' \in [Callers -> {"idle", "waiting", "audio", "joining", "live",
                             "teardown", "failing", "over"}]
    BY <1>1 DEF IInv, TypeOK
  <2>3. QED
    BY <1>1, <1>3, <2>1, <2>2 DEF IInv, TypeOK, picture, health
<1>5. CallersFollow'
  BY <1>1, <1>2 DEF IInv, CallersFollow
<1>6. LoadsBounded'
  BY <1>1, <1>2, <1>3 DEF IInv, LoadsBounded
<1>7. ModulesKnown'
  BY <1>1, <1>2 DEF IInv, ModulesKnown
<1>8. ListsFollow'
  BY <1>1, <1>2 DEF IInv, ListsFollow, Unloads, Callers, Ending, Working
<1>9. ProcessesFollow'
  BY <1>1, <1>2 DEF IInv, ProcessesFollow, Alone, Callers, Ending, Working, picture
<1>10. QED
  BY <1>4, <1>5, <1>6, <1>7, <1>8, <1>9 DEF IInv

\* One more module.
LEMMA LoadMeans ==
  ASSUME IInv, pc["builder"] = "audio", loads' = loads + 1, pulse' = pulse \cup {loads'}
  PROVE  /\ attempt \in Nat /\ loads \in Nat /\ Len(moduleIds) \in 0..3
         /\ loads' <= 4 * attempt - 4 + Len(moduleIds) + 1
         /\ loads' \in Ids /\ pulse' \subseteq 1..loads'
         /\ Append(moduleIds, loads') \in Seq(Ids)
         /\ Len(Append(moduleIds, loads')) = Len(moduleIds) + 1
         /\ Elements(Append(moduleIds, loads')) = Elements(moduleIds) \cup {loads'}
         /\ modulesBySession = <<>> /\ \A c \in Callers : unloading[c] = <<>>
         /\ ~forwarding /\ \A c \in Callers : closing[c] = 0
         /\ \A i \in Directions : ffmpeg[i] \notin Alive
<1>1. /\ MaxAttempts \in Nat /\ attempt \in Nat /\ attempt <= MaxAttempts /\ loads \in Nat
      /\ moduleIds \in Seq(Ids) /\ Len(moduleIds) \in 0..3 /\ pulse \subseteq 1..loads
  <2>1. MaxAttempts \in Nat /\ attempt \in 0..MaxAttempts /\ (loads = 0 \/ loads \in Ids)
    BY BoundsAssumption DEF IInv, TypeOK
  <2>2. loads \in Nat
    BY <2>1 DEF Ids
  <2>3. moduleIds \in Seq(Ids) /\ Len(moduleIds) < 4 /\ pulse \subseteq 1..loads
    BY DEF IInv, TypeOK
  <2>4. Len(moduleIds) \in Nat
    BY <2>3
  <2>5. Len(moduleIds) \in 0..3
    <3> DEFINE n == Len(moduleIds)
    <3>1. n \in Nat /\ n < 4
      BY <2>3, <2>4
    <3> HIDE DEF n
    <3>2. n \in 0..3
      BY <3>1
    <3>3. QED
      BY <3>2 DEF n
  <2>6. attempt \in Nat /\ attempt <= MaxAttempts
    BY <2>1
  <2>7. QED
    BY <2>1, <2>2, <2>3, <2>5, <2>6
<1>2. loads' <= 4 * attempt - 4 + Len(moduleIds) + 1
  BY <1>1 DEF IInv, LoadsBounded
<1>3. loads' \in Ids /\ pulse' \subseteq 1..loads'
  <2> DEFINE n == Len(moduleIds)
             l == loads'
  <2>1. n \in 0..3 /\ l = loads + 1 /\ l <= 4 * attempt - 4 + n + 1
    BY <1>1, <1>2
  <2> HIDE DEF n, l
  <2>2. l <= 4 * MaxAttempts
    BY <1>1, <2>1
  <2>3. l \in Ids
    BY <1>1, <2>1, <2>2 DEF Ids
  <2>4. pulse' \subseteq 1..loads'
    BY <1>1
  <2>5. QED
    BY <2>3, <2>4 DEF l
<1>4. QED
  BY <1>1, <1>2, <1>3, ElementsAre DEF IInv, ListsFollow, ProcessesFollow, Working

\* A module that is loaded is in the array of its configure().
LEMMA ModuleLoadedKeeps ==
  ASSUME IInv, ModuleLoaded
  PROVE  IInv'
<1>1. /\ pc["builder"] = "audio" /\ Len(moduleIds) < 3
      /\ loads' = loads + 1 /\ pulse' = pulse \cup {loads'}
      /\ moduleIds' = Append(moduleIds, loads')
      /\ UNCHANGED <<callers, modulesBySession, unloading, abandoned, picture, health>>
  BY DEF ModuleLoaded
<1>2. /\ attempt \in Nat /\ loads \in Nat /\ Len(moduleIds) \in 0..3
      /\ loads' <= 4 * attempt - 4 + Len(moduleIds) + 1
      /\ loads' \in Ids /\ pulse' \subseteq 1..loads'
      /\ moduleIds' \in Seq(Ids) /\ Len(moduleIds') = Len(moduleIds) + 1
      /\ Elements(moduleIds') = Elements(moduleIds) \cup {loads'}
      /\ modulesBySession = <<>> /\ \A c \in Callers : unloading[c] = <<>>
  BY <1>1, LoadMeans
<1>3. TypeOK'
  BY <1>1, <1>2 DEF IInv, TypeOK, callers, picture, health
<1>4. CallersFollow' /\ ProcessesFollow'
  BY <1>1 DEF IInv, CallersFollow, ProcessesFollow, Alone, callers, picture
<1>5. LoadsBounded'
  BY <1>1, <1>2 DEF IInv, LoadsBounded, callers
<1>6. ModulesKnown'
  BY <1>1, <1>2 DEF IInv, ModulesKnown
<1>7. ListsFollow'
  BY <1>1, <1>2 DEF IInv, ListsFollow, callers
<1>8. QED
  BY <1>3, <1>4, <1>5, <1>6, <1>7 DEF IInv

\* The last module makes the entry; then the forwarders start.
LEMMA ConfiguredKeeps ==
  ASSUME IInv, Configured
  PROVE  IInv'
<1>1. /\ pc["builder"] = "audio" /\ Len(moduleIds) = 3
      /\ loads' = loads + 1 /\ pulse' = pulse \cup {loads'} /\ moduleIds' = <<>>
      /\ modulesBySession' = Append(moduleIds, loads')
      /\ ffmpeg' = [i \in Directions |-> "running"] /\ forwarding' = TRUE
      /\ pc' = [pc EXCEPT !["builder"] = "joining"]
      /\ UNCHANGED <<attempt, monitor, interrupted, unloading, abandoned, closing, health>>
  BY DEF Configured
<1>2. /\ attempt \in Nat /\ loads \in Nat
      /\ loads' <= 4 * attempt - 4 + Len(moduleIds) + 1
      /\ loads' \in Ids /\ pulse' \subseteq 1..loads'
      /\ modulesBySession' \in Seq(Ids) /\ Len(modulesBySession') = 4
      /\ Elements(modulesBySession') = Elements(moduleIds) \cup {loads'}
      /\ modulesBySession = <<>> /\ \A c \in Callers : unloading[c] = <<>>
      /\ \A c \in Callers : closing[c] = 0
  BY <1>1, LoadMeans
<1>3. pc'["builder"] = "joining" /\ pc'["stop"] = pc["stop"]
  BY <1>1 DEF IInv, TypeOK, Callers
<1>4. Len(moduleIds') < 4 /\ moduleIds' \in Seq(Ids) /\ Elements(modulesBySession) = {}
  BY <1>1, <1>2, ElementsAre DEF Elements
<1>5. TypeOK'
  <2>1. pc' \in [Callers -> {"idle", "waiting", "audio", "joining", "live",
                             "teardown", "failing", "over"}]
    BY <1>1 DEF IInv, TypeOK
  <2>2. ffmpeg' \in [Directions -> {"none", "running", "stopping", "stopped", "exited", "signalled"}]
    BY <1>1
  <2>3. QED
    BY <1>1, <1>2, <1>4, <2>1, <2>2 DEF IInv, TypeOK, health
<1>6. pc["stop"] # "idle" => interrupted
  BY <1>1 DEF IInv, CallersFollow
<1>7. CallersFollow'
  BY <1>1, <1>3, <1>6 DEF IInv, CallersFollow
<1>8. LoadsBounded'
  BY <1>1, <1>2, <1>3 DEF LoadsBounded
<1>9. ModulesKnown'
  BY <1>1, <1>2, <1>4 DEF IInv, ModulesKnown
<1>10. ListsFollow'
  BY <1>1, <1>2, <1>3, <1>6 DEF ListsFollow, Callers, Ending, Working
<1>11. ProcessesFollow'
  BY <1>1, <1>2, <1>3, <1>6 DEF ProcessesFollow, Callers, Ending, Working
<1>12. QED
  BY <1>5, <1>7, <1>8, <1>9, <1>10, <1>11 DEF IInv

\* A bridge that is joined keeps its media, and gets its monitor.
LEMMA JoinedKeeps ==
  ASSUME IInv, Joined
  PROVE  IInv'
<1>1. /\ pc["builder"] = "joining" /\ pc' = [pc EXCEPT !["builder"] = "live"] /\ monitor' = TRUE
      /\ UNCHANGED <<attempt, interrupted, sound, picture, health>>
  BY DEF Joined
<1>2. pc'["builder"] = "live" /\ pc'["stop"] = pc["stop"]
  BY <1>1 DEF IInv, TypeOK, Callers
<1>3. TypeOK'
  <2>1. pc' \in [Callers -> {"idle", "waiting", "audio", "joining", "live",
                             "teardown", "failing", "over"}]
    BY <1>1 DEF IInv, TypeOK
  <2>2. QED
    BY <1>1, <2>1 DEF IInv, TypeOK, sound, picture, health
<1>4. CallersFollow' /\ LoadsBounded' /\ ModulesKnown'
  BY <1>1, <1>2 DEF IInv, CallersFollow, LoadsBounded, ModulesKnown, sound
<1>5. ListsFollow'
  BY <1>1, <1>2 DEF IInv, ListsFollow, Unloads, Callers, Ending, Working, sound
<1>6. ProcessesFollow'
  BY <1>1, <1>2 DEF IInv, ProcessesFollow, Alone, Callers, Ending, Working, picture
<1>7. QED
  BY <1>3, <1>4, <1>5, <1>6 DEF IInv

\* One module less.
LEMMA UnloadLastKeeps ==
  ASSUME IInv, NEW c \in Callers, UnloadLast(c)
  PROVE  IInv'
<1> DEFINE ids == unloading[c]
           n == Len(ids)
           rest == SubSeq(ids, 1, n - 1)
<1>1. /\ n # 0 /\ pulse' = pulse \ {ids[n]}
      /\ unloading' = [unloading EXCEPT ![c] = rest]
      /\ modulesBySession' = IF n = 1 THEN <<>> ELSE modulesBySession
      /\ UNCHANGED <<callers, moduleIds, loads, abandoned, picture, health>>
  BY DEF UnloadLast
<1>2. /\ ids \in Seq(Ids) /\ modulesBySession \in Seq(Ids)
      /\ Len(modulesBySession) \in {0, 4} /\ unloading \in [Callers -> Seq(Ids)]
  BY DEF IInv, TypeOK
<1>3. n \in Nat \ {0} /\ ids # <<>>
  BY <1>1, <1>2
<1>4. Elements(ids) = Elements(rest) \cup {ids[n]}
  BY <1>1, <1>2, ElementsAre
<1>5. /\ rest \in Seq(Ids) /\ Len(rest) = n - 1
      /\ \A k \in 1..n - 1 : rest[k] = ids[k]
  <2> DEFINE m == n - 1
  <2>1. m \in 0..Len(ids) /\ rest = SubSeq(ids, 1, m)
    BY <1>3
  <2> HIDE DEF m
  <2>2. rest \in Seq(Ids) /\ Len(rest) = m /\ \A k \in 1..m : rest[k] = ids[k]
    BY <1>2, <2>1
  <2>3. QED
    BY <2>2 DEF m
<1>6. unloading'[c] = rest /\ \A d \in Callers \ {c} : unloading'[d] = unloading[d]
  BY <1>1, <1>2
<1>7. modulesBySession # <<>> =>
        /\ n <= Len(modulesBySession) /\ \A k \in 1..n : ids[k] = modulesBySession[k]
        /\ \A k \in n + 1..Len(modulesBySession) : modulesBySession[k] \notin pulse
  BY <1>3 DEF IInv, ListsFollow, Unloads
<1> HIDE DEF rest
<1>8. TypeOK'
  <2>1. modulesBySession' \in Seq(Ids) /\ Len(modulesBySession') \in {0, 4}
    BY <1>1, <1>2
  <2>2. unloading' \in [Callers -> Seq(Ids)]
    BY <1>1, <1>2, <1>5
  <2>3. QED
    BY <1>1, <2>1, <2>2 DEF IInv, TypeOK, callers, picture, health
<1>9. CallersFollow' /\ LoadsBounded' /\ ProcessesFollow'
  BY <1>1 DEF IInv, CallersFollow, LoadsBounded, ProcessesFollow, Alone, callers, picture
<1>10. ModulesKnown'
  <2>1. n = 1 => pulse' \cap Elements(modulesBySession) = {}
    <3> SUFFICES ASSUME n = 1, NEW k \in 1..Len(modulesBySession)
                 PROVE  modulesBySession[k] \notin pulse'
      BY <1>2, ElementsAre
    <3>1. modulesBySession # <<>> /\ Len(modulesBySession) = 4
      BY <1>2
    <3>2. k = 1 \/ k \in n + 1..Len(modulesBySession)
      BY <3>1
    <3>3. 1 \in 1..n
      OBVIOUS
    <3>4. k = 1 => modulesBySession[k] = ids[n]
      BY <1>7, <3>1, <3>3
    <3>5. QED
      BY <1>1, <1>7, <3>1, <3>2, <3>4
  <2>2. \A d \in Callers \ {c} : Elements(unloading'[d]) = Elements(unloading[d])
    BY <1>6
  <2>3. pulse' \subseteq pulse /\ ids[n] \notin pulse'
    BY <1>1
  <2> HIDE DEF ids
  <2>4. \A e \in pulse' : (\E d \in Callers : e \in Elements(unloading[d])) =>
                            \E d \in Callers : e \in Elements(unloading'[d])
    BY <1>4, <1>6, <2>2, <2>3 DEF ids
  <2>5. \A e \in pulse' : e \in Elements(modulesBySession) => e \in Elements(modulesBySession')
    BY <1>1, <2>1
  <2>6. QED
    BY <1>1, <2>3, <2>4, <2>5 DEF IInv, ModulesKnown
<1>11. ASSUME NEW d \in Callers, unloading'[d] # <<>>, modulesBySession' # <<>>
       PROVE  /\ Len(unloading'[d]) <= Len(modulesBySession')
              /\ \A k \in 1..Len(unloading'[d]) : unloading'[d][k] = modulesBySession'[k]
              /\ \A k \in Len(unloading'[d]) + 1..Len(modulesBySession') :
                   modulesBySession'[k] \notin pulse'
  <2>1. n # 1 /\ modulesBySession' = modulesBySession
    BY <1>1, <1>11
  <2>2. CASE d # c
    BY <1>1, <1>6, <1>11, <2>1, <2>2 DEF IInv, ListsFollow, Unloads
  <2>3. CASE d = c
    <3>1. unloading'[d] = rest /\ Len(rest) = n - 1 /\ n <= Len(modulesBySession)
      BY <1>5, <1>6, <1>7, <1>11, <2>1, <2>3
    <3>2. \A k \in 1..n - 1 : k \in 1..n
      BY <1>3
    <3>3. \A k \in 1..n - 1 : rest[k] = modulesBySession[k]
      BY <1>5, <1>7, <1>11, <2>1, <3>2
    <3>4. \A k \in n - 1 + 1..Len(modulesBySession) :
            k = n \/ k \in n + 1..Len(modulesBySession)
      BY <1>2, <1>3
    <3>5. n \in 1..n
      BY <1>3
    <3>6. \A k \in n - 1 + 1..Len(modulesBySession) : modulesBySession[k] \notin pulse'
      BY <1>1, <1>7, <1>11, <2>1, <3>4, <3>5
    <3>7. QED
      BY <1>2, <1>3, <2>1, <3>1, <3>3, <3>6
  <2>4. QED
    BY <2>2, <2>3
<1>12. ListsFollow'
  <2>1. pc[c] \in Ending
    BY <1>3 DEF IInv, ListsFollow
  <2>2. n # 1 => unloading'[c] # <<>>
    <3>1. n # 1 => n - 1 # 0
      BY <1>3
    <3>2. Len(<<>>) = 0
      OBVIOUS
    <3> HIDE DEF n
    <3>3. QED
      BY <1>5, <1>6, <3>1, <3>2
  <2>3. modulesBySession = <<>> => modulesBySession' = <<>>
    BY <1>1
  <2>4. \A d \in Callers : unloading[d] = <<>> => unloading'[d] = <<>>
    BY <1>3, <1>6
  <2>5. \A d \in Callers : unloading'[d] = <<>> => unloading[d] = <<>> \/ modulesBySession' = <<>>
    BY <1>1, <1>6, <2>2
  <2>6. \A d \in Callers : unloading'[d] # <<>> => Unloads(d)'
    BY <1>11 DEF Unloads
  <2>7. UNCHANGED <<pc, interrupted, moduleIds>>
    BY <1>1 DEF callers
  <2>8. QED
    BY <2>1, <2>3, <2>4, <2>5, <2>6, <2>7 DEF IInv, ListsFollow, Callers
<1>13. QED
  BY <1>8, <1>9, <1>10, <1>12 DEF IInv

\* The close of one process lets its teardown go on to the next.
LEMMA ProcessClosedKeeps ==
  ASSUME IInv, NEW c \in Callers, ProcessClosed(c)
  PROVE  IInv'
<1> DEFINE k == closing[c] + 1
<1>1. /\ closing[c] \in Directions /\ ffmpeg[closing[c]] = "stopped" /\ TerminateFrom(c, k)
      /\ UNCHANGED <<callers, sound, health>>
  BY DEF ProcessClosed, IInv, TypeOK
<1>2. k \in 1..3 /\ TypeOK
  BY <1>1 DEF Directions, IInv
<1>3. \A i \in Directions : i >= k \/ i < closing[c] \/ i = closing[c]
  BY <1>1 DEF Directions
<1>4. \A i \in Directions : i >= k => i # closing[c]
  BY <1>1 DEF Directions
<1> HIDE DEF k
<1>5. /\ forwarding' \in BOOLEAN /\ ffmpeg' \in [Directions -> States]
      /\ closing' \in [Callers -> {0} \cup Directions]
      /\ \A d \in Callers \ {c} : closing'[d] = closing[d]
      /\ \A i \in Directions : i # closing'[c] => ffmpeg'[i] = ffmpeg[i]
      /\ closing'[c] = 0 => ~forwarding' /\ \A i \in Directions : i >= k => ffmpeg'[i] # "running"
      /\ closing'[c] # 0 =>
           /\ closing'[c] >= k /\ forwarding' = forwarding /\ ffmpeg'[closing'[c]] # "running"
           /\ \A i \in Directions : i >= k /\ i < closing'[c] => ffmpeg'[i] # "running"
  BY <1>1, <1>2, TerminateMeans
<1>6. pc[c] \in Ending /\ UNCHANGED <<pc, interrupted>>
  BY <1>1 DEF callers, IInv, ProcessesFollow, Directions
<1>7. Alone(c) => Alone(c)'
  <2> SUFFICES ASSUME Alone(c)
               PROVE  Alone(c)'
    OBVIOUS
  <2>1. \A i \in Directions : ffmpeg'[i] = "stopping" => i = closing'[c]
    BY <1>1, <1>5 DEF Alone
  <2>2. \A i \in Directions : i < closing[c] => ffmpeg[i] \notin Alive
    BY DEF Alone
  <2>3. \A i \in Directions : i <= closing[c] /\ i # closing'[c] => ffmpeg'[i] \notin Alive
    BY <1>1, <1>3, <1>5, <2>2 DEF Alive, Directions
  <2>4. closing'[c] # 0 => \A i \in Directions : i < closing'[c] => i # closing'[c]
    BY <1>5 DEF Directions
  <2>5. closing'[c] = 0 => \A i \in Directions : i # closing'[c]
    BY DEF Directions
  <2>6. \A i \in Directions : i >= k \/ i <= closing[c]
    BY <1>1, <1>3 DEF Directions
  <2>7. closing'[c] = 0 => \A i \in Directions : ffmpeg'[i] \notin Alive
    BY <1>5, <2>1, <2>3, <2>5, <2>6 DEF Alive
  <2>8. closing'[c] # 0 => \A i \in Directions : i < closing'[c] => ffmpeg'[i] \notin Alive
    BY <1>5, <2>1, <2>3, <2>4, <2>6 DEF Alive
  <2>9. closing'[c] = 0 => \A i \in Directions : ~(i < closing'[c])
    BY DEF Directions
  <2>10. QED
    BY <1>5, <2>1, <2>7, <2>8, <2>9 DEF Alone
<1>8. TypeOK'
  BY <1>1, <1>5 DEF IInv, TypeOK, States, callers, sound, health
<1>9. CallersFollow' /\ LoadsBounded' /\ ModulesKnown' /\ ListsFollow'
  BY <1>1 DEF IInv, CallersFollow, LoadsBounded, ModulesKnown, ListsFollow, Unloads, callers, sound
<1>10. ProcessesFollow'
  <2>1. pc["builder"] \notin Working
    BY <1>1 DEF IInv, ProcessesFollow, Directions
  <2>2. pc["stop"] = "idle" => c = "builder"
    BY <1>6 DEF Callers, Ending
  <2>3. pc["stop"] # "idle" /\ ~interrupted => c = "stop"
    BY <1>6 DEF Callers, Ending, IInv, CallersFollow
  <2>4. pc["stop"] = "idle" => pc["builder"] \notin {"joining", "live"}
    BY <1>6, <2>2 DEF Ending
  <2>5. \A d \in Callers : pc[d] \notin Ending => closing'[d] = 0
    BY <1>5, <1>6 DEF IInv, ProcessesFollow
  <2>6. QED
    BY <1>6, <1>7, <2>1, <2>2, <2>3, <2>4, <2>5 DEF IInv, ProcessesFollow
<1>11. QED
  BY <1>8, <1>9, <1>10 DEF IInv

\* A teardown that is through leaves no entry and no forwarder.
LEMMA TeardownEndsKeeps ==
  ASSUME IInv, NEW c \in Callers, TeardownEnds(c)
  PROVE  IInv'
<1> DEFINE where == IF c = "builder" /\ ~stopped /\ attempt < MaxAttempts
                    THEN "waiting" ELSE "over"
<1>1. /\ pc[c] \in Ending /\ unloading[c] = <<>> /\ closing[c] = 0
      /\ pc' = [pc EXCEPT ![c] = where]
      /\ UNCHANGED <<attempt, monitor, interrupted, sound, picture, health>>
  BY DEF TeardownEnds, TornDown, Ending
<1>2. /\ where \in {"waiting", "over"}
      /\ where = "waiting" => c = "builder" /\ pc["stop"] = "idle" /\ attempt < MaxAttempts
  BY DEF stopped
<1> HIDE DEF where
<1>3. /\ pc'[c] = where
      /\ \A d \in Callers \ {c} : pc'[d] = pc[d]
  BY <1>1 DEF IInv, TypeOK, Ending
<1>4. TypeOK'
  <2>1. pc' \in [Callers -> {"idle", "waiting", "audio", "joining", "live",
                             "teardown", "failing", "over"}]
    BY <1>1, <1>2 DEF IInv, TypeOK
  <2>2. QED
    BY <1>1, <2>1 DEF IInv, TypeOK, sound, picture, health
<1>5. CASE c = "builder"
  <2>1. /\ pc'["builder"] = where /\ pc'["stop"] = pc["stop"]
        /\ pc["builder"] \in Ending /\ unloading["builder"] = <<>> /\ closing["builder"] = 0
    BY <1>1, <1>3, <1>5 DEF Callers
  <2>2. CallersFollow' /\ LoadsBounded' /\ ModulesKnown'
    BY <1>1, <1>2, <2>1 DEF IInv, CallersFollow, LoadsBounded, ModulesKnown, sound, Ending
  <2>3. ListsFollow'
    BY <1>1, <1>2, <2>1 DEF IInv, ListsFollow, Unloads, Callers, Ending, Working, sound
  <2>4. ProcessesFollow'
    BY <1>1, <1>2, <2>1 DEF IInv, ProcessesFollow, Alone, Callers, Ending, Working, picture
  <2>5. QED
    BY <1>4, <2>2, <2>3, <2>4 DEF IInv
<1>6. CASE c = "stop"
  <2>1. /\ pc'["stop"] = "over" /\ pc'["builder"] = pc["builder"]
        /\ pc["stop"] \in Ending /\ unloading["stop"] = <<>> /\ closing["stop"] = 0
    BY <1>1, <1>2, <1>3, <1>6 DEF Callers
  <2>2. CallersFollow' /\ LoadsBounded' /\ ModulesKnown'
    BY <1>1, <2>1 DEF IInv, CallersFollow, LoadsBounded, ModulesKnown, sound, Ending
  <2>3. ListsFollow'
    BY <1>1, <2>1 DEF IInv, ListsFollow, Unloads, Callers, Ending, sound
  <2>4. ProcessesFollow'
    BY <1>1, <2>1 DEF IInv, ProcessesFollow, Alone, Callers, Ending, picture
  <2>5. QED
    BY <1>4, <2>2, <2>3, <2>4 DEF IInv
<1>7. QED
  BY <1>5, <1>6 DEF Callers

\* One step per action.
LEMMA IInvStep == IInv /\ [Next]_vars => IInv'
<1> SUFFICES ASSUME IInv, [Next]_vars
             PROVE  IInv'
  OBVIOUS
<1>1. ASSUME LoadFails \/ JoinFails
      PROVE  IInv'
  <2>1. PICK where \in Ending : BeginTeardown("builder", where)
    BY <1>1 DEF LoadFails, JoinFails, AttemptFails, Ending
  <2>2. JoinFails => moduleIds = <<>> /\ abandoned \cup Elements(moduleIds) = abandoned
    BY DEF JoinFails, IInv, ListsFollow, Elements
  <2>3. /\ pc["builder"] \in {"audio", "joining"}
        /\ UNCHANGED <<attempt, interrupted, modulesBySession, pulse, loads, health>>
        /\ moduleIds' = <<>> /\ abandoned' = abandoned \cup Elements(moduleIds)
    BY <1>1, <2>2 DEF LoadFails, JoinFails
  <2>4. check' \in {"idle", "listing", "listed"} /\ expected' \in Seq(Ids) /\ listed' \subseteq Ids
    BY <2>3 DEF health, IInv, TypeOK
  <2>5. QED
    BY <2>1, <2>3, <2>4, BuilderTearsDown
<1>2. CASE BrowserLost
  <2>1. /\ RequestReconnect
        /\ UNCHANGED <<attempt, interrupted, moduleIds, modulesBySession, pulse, loads, abandoned,
                       check, expected, listed>>
    BY <1>2 DEF BrowserLost, health
  <2>2. QED
    BY <2>1, ReconnectMeans DEF IInv, TypeOK
<1>3. CASE CheckEnds
  <2>1. /\ UNCHANGED <<attempt, interrupted, moduleIds, modulesBySession, pulse, loads, abandoned>>
        /\ check' = "idle" /\ expected' = <<>> /\ listed' = {}
        /\ RequestReconnect \/ UNCHANGED <<pc, monitor, unloading, picture>>
    BY <1>3 DEF CheckEnds
  <2>2. CASE RequestReconnect
    BY <2>1, <2>2, ReconnectMeans
  <2>3. CASE UNCHANGED <<pc, monitor, unloading, picture>>
    <3>1. TypeOK'
      BY <2>1, <2>3 DEF picture, IInv, TypeOK
    <3>2. CallersFollow' /\ LoadsBounded' /\ ModulesKnown' /\ ListsFollow' /\ ProcessesFollow'
      BY <2>1, <2>3 DEF picture, IInv, CallersFollow, LoadsBounded, ModulesKnown, ListsFollow,
                        Unloads, ProcessesFollow, Alone
    <3>3. QED
      BY <3>1, <3>2 DEF IInv
  <2>4. QED
    BY <2>1, <2>2, <2>3
<1>4. ASSUME UNCHANGED <<callers, sound, picture>>,
             check' \in {"idle", "listing", "listed"}, expected' \in Seq(Ids), listed' \subseteq Ids
      PROVE  IInv'
  <2>1. TypeOK'
    BY <1>4 DEF callers, sound, picture, IInv, TypeOK
  <2>2. CallersFollow' /\ LoadsBounded' /\ ModulesKnown' /\ ListsFollow' /\ ProcessesFollow'
    BY <1>4 DEF callers, sound, picture, IInv, CallersFollow, LoadsBounded, ModulesKnown,
                ListsFollow, Unloads, ProcessesFollow, Alone
  <2>3. QED
    BY <2>1, <2>2 DEF IInv
<1>5. CASE CheckBegins
  BY <1>4, <1>5 DEF CheckBegins, IInv, TypeOK
<1>6. CASE ModulesListed
  <2>1. pulse \subseteq Ids
    <3> DEFINE most == 4 * MaxAttempts
    <3>1. most \in Nat /\ Ids = 1..most
      BY BoundsAssumption DEF Ids
    <3>2. pulse \subseteq 1..loads /\ loads \in {0} \cup 1..most
      BY <3>1 DEF IInv, TypeOK
    <3> HIDE DEF most
    <3>3. QED
      BY <3>1, <3>2
  <2>2. listed' \subseteq Ids /\ UNCHANGED <<callers, sound, picture>>
    BY <1>6, <2>1 DEF ModulesListed
  <2>3. expected' \in Seq(Ids) /\ check' \in {"idle", "listing", "listed"}
    BY <1>6 DEF ModulesListed, IInv, TypeOK
  <2>4. QED
    BY <1>4, <2>2, <2>3
<1>7. CASE ModulesVanish
  <2>1. /\ pulse' = {}
        /\ UNCHANGED <<callers, moduleIds, modulesBySession, unloading, loads, abandoned,
                       picture, health>>
    BY <1>7 DEF ModulesVanish
  <2>2. TypeOK'
    BY <2>1 DEF callers, picture, health, IInv, TypeOK
  <2>3. CallersFollow' /\ LoadsBounded' /\ ModulesKnown' /\ ListsFollow' /\ ProcessesFollow'
    BY <2>1 DEF callers, picture, IInv, CallersFollow, LoadsBounded, ModulesKnown,
                ListsFollow, Unloads, ProcessesFollow, Alone
  <2>4. QED
    BY <2>2, <2>3 DEF IInv
<1>8. ASSUME NEW i \in Directions, FfmpegExits(i) \/ FfmpegSignalled(i) \/ FfmpegStops(i)
      PROVE  IInv'
  <2>1. /\ UNCHANGED <<callers, sound, forwarding, closing, health>>
        /\ ffmpeg[i] \in Alive /\ ffmpeg'[i] \in {"exited", "signalled", "stopped"}
        /\ ffmpeg' \in [Directions -> States]
        /\ \A j \in Directions \ {i} : ffmpeg'[j] = ffmpeg[j]
    BY <1>8 DEF FfmpegExits, FfmpegSignalled, FfmpegStops, ProcessesUnchanged, Alive, States,
                IInv, TypeOK
  <2>2. TypeOK'
    BY <2>1 DEF callers, sound, health, IInv, TypeOK, States
  <2>3. CallersFollow' /\ LoadsBounded' /\ ModulesKnown' /\ ListsFollow'
    BY <2>1 DEF callers, sound, IInv, CallersFollow, LoadsBounded, ModulesKnown, ListsFollow,
       Unloads
  <2>4. /\ \A j \in Directions : ffmpeg[j] \notin Alive => ffmpeg'[j] \notin Alive
        /\ \A j \in Directions : ffmpeg'[j] = "stopping" => ffmpeg[j] = "stopping"
        /\ \A j \in Directions : ffmpeg[j] # "running" => ffmpeg'[j] # "running"
    BY <2>1 DEF Alive
  <2>5. \A c \in Callers : closing[c] # 0 => closing[c] \in Directions
    BY DEF IInv, TypeOK
  <2>6. ASSUME NEW c \in Callers, Alone(c)
        PROVE  Alone(c)'
    BY <2>1, <2>4, <2>5, <2>6 DEF Alone
  <2>7. UNCHANGED <<pc, interrupted, forwarding, closing>>
    BY <2>1 DEF callers
  <2>8. ProcessesFollow'
    BY <2>4, <2>6, <2>7 DEF IInv, ProcessesFollow, Callers
  <2>9. QED
    BY <2>2, <2>3, <2>8 DEF IInv
<1>9. UNCHANGED vars => IInv'
  BY <1>4 DEF vars, health, IInv, TypeOK
<1>10. QED
  BY <1>1, <1>2, <1>3, <1>5, <1>6, <1>7, <1>8, <1>9, ConfigureKeeps, ModuleLoadedKeeps,
     ConfiguredKeeps, JoinedKeeps, StopTearsDown, UnloadLastKeeps, ProcessClosedKeeps,
     TeardownEndsKeeps DEF Next, Build, Check

-----------------------------------------------------------------------------
(* The theorems                                                            *)

\* Every variable stays in its range, whatever the callers interleave: an entry
\* holds four modules or is not there.
THEOREM TypeCorrect == Spec => []TypeOK
<1>1. IInv => TypeOK
  BY DEF IInv
<1>2. QED
  BY <1>1, IInvInit, IInvStep, PTL DEF Spec

\* No module of the session is loaded that neither the manager, nor a running
\* configure() or teardown() knows, but those of a configure() that threw.
THEOREM KnownHolds == Spec => []ModulesKnown
<1>1. IInv => ModulesKnown
  BY DEF IInv
<1>2. QED
  BY <1>1, IInvInit, IInvStep, PTL DEF Spec

\* A session that ends without a stop() in the middle of a build leaves no
\* forwarder and no module but those of a configure() that threw.
THEOREM ReleasedHolds == Spec => []MediaReleased
<1>1. IInv => MediaReleased
  <2> SUFFICES ASSUME IInv, SessionOver, ~interrupted
               PROVE  pulse \subseteq abandoned /\ \A i \in Directions : ffmpeg[i] \notin Alive
    BY DEF MediaReleased
  <2>1. /\ moduleIds = <<>> /\ \A c \in Callers : unloading[c] = <<>> /\ closing[c] = 0
    BY DEF SessionOver, IInv, CallersFollow, ListsFollow, ProcessesFollow, Callers, Ending
  <2>2. modulesBySession = <<>>
    BY <2>1 DEF SessionOver, IInv, CallersFollow, ListsFollow, Callers
  <2>3. pulse \subseteq abandoned
    BY <2>1, <2>2 DEF IInv, ModulesKnown, Elements
  <2>4. Alone("builder") \/ Alone("stop")
    BY DEF SessionOver, IInv, CallersFollow, ProcessesFollow
  <2>5. QED
    BY <2>1, <2>3, <2>4 DEF Alone, Callers
<1>2. QED
  BY <1>1, IInvInit, IInvStep, PTL DEF Spec

\* Forwarders never write into one camera side by side: whenever configure()
\* starts a pair, both of the last attempt have gone.
THEOREM OneWriterHolds == Spec => OneWriter
<1>1. IInv /\ [Next]_vars => [Configured => \A i \in Directions : ffmpeg[i] \notin Alive]_vars
  BY DEF Configured, IInv, ProcessesFollow, Working
<1>2. QED
  BY <1>1, IInvInit, IInvStep, PTL DEF Spec, OneWriter
=============================================================================
