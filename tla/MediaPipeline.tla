---------------------------- MODULE MediaPipeline ----------------------------
(***************************************************************************)
(* Sound and picture of one bridge session: class AudioManager with its    *)
(* four PulseAudio modules, class VideoManager with its two ffmpeg         *)
(* processes, and the helpers runCommand() and terminateProcess().  The    *)
(* session is a real one with audio and video; a dry run loads and starts  *)
(* nothing.                                                                *)
(*                                                                         *)
(* The callers are those of SessionOrchestrator: the builder (start() and  *)
(* then the reconnect loop) configures, joins and tears down, attempt      *)
(* after attempt; stop() tears down once, whenever it comes.  An action is *)
(* the code between two awaits of a pactl or of a closing process.         *)
(***************************************************************************)
EXTENDS Naturals, Sequences

CONSTANTS
  MaxAttempts,  \* bound: the configure() calls of the session
  MaySignal     \* whether a foreign signal (the OOM killer) may end an ffmpeg

ASSUME BoundsAssumption == MaxAttempts \in Nat \ {0} /\ MaySignal \in BOOLEAN

VARIABLES
  pc,                \* where the builder and stop() are
  attempt,           \* the configure() calls so far
  monitor,           \* a health monitor runs
  moduleIds,         \* the array of the configure() that runs
  modulesBySession,  \* the session's entry; <<>> when there is none
  unloading,         \* unloading[c]: what c's teardown has still to unload
  pulse,             \* the modules that PulseAudio has loaded for the session
  loads,             \* the ids given so far: PulseAudio never reuses one
  forwarding,        \* processesBySession has the session
  ffmpeg,            \* the forwarder of each direction
  closing,           \* closing[c] = i: c's teardown awaits the close of ffmpeg i
  check,             \* where the health check is
  expected,          \* the module ids it compares,
  listed,            \* and what pactl listed for it
  abandoned,         \* history: the modules of a configure() that threw
  interrupted        \* history: stop() came while the builder worked

callers == <<pc, attempt, monitor, interrupted>>
sound == <<moduleIds, modulesBySession, unloading, pulse, loads, abandoned>>
picture == <<forwarding, ffmpeg, closing>>
health == <<check, expected, listed>>
vars == <<callers, sound, picture, health>>

Callers == {"builder", "stop"}
Directions == 1..2
Ids == 1..4 * MaxAttempts
Elements(seq) == {seq[n] : n \in DOMAIN seq}

TypeOK ==
  /\ pc \in [Callers -> {"idle", "waiting", "audio", "joining", "live",
                        "teardown", "failing", "over"}]
  /\ attempt \in 0..MaxAttempts
  /\ monitor \in BOOLEAN
  /\ moduleIds \in Seq(Ids) /\ Len(moduleIds) < 4
  /\ modulesBySession \in Seq(Ids) /\ Len(modulesBySession) \in {0, 4}
  /\ unloading \in [Callers -> Seq(Ids)]
  /\ pulse \subseteq 1..loads
  /\ loads \in {0} \cup Ids
  /\ forwarding \in BOOLEAN
  /\ ffmpeg \in [Directions -> {"none", "running", "stopping", "stopped", "exited", "signalled"}]
  /\ closing \in [Callers -> {0} \cup Directions]
  /\ check \in {"idle", "listing", "listed"}
  /\ expected \in Seq(Ids)
  /\ listed \subseteq Ids
  /\ abandoned \subseteq Ids
  /\ interrupted \in BOOLEAN

Init ==
  /\ pc = [c \in Callers |-> IF c = "builder" THEN "waiting" ELSE "idle"]
  /\ attempt = 0
  /\ monitor = FALSE
  /\ moduleIds = <<>>
  /\ modulesBySession = <<>>
  /\ unloading = [c \in Callers |-> <<>>]
  /\ pulse = {}
  /\ loads = 0
  /\ forwarding = FALSE
  /\ ffmpeg = [i \in Directions |-> "none"]
  /\ closing = [c \in Callers |-> 0]
  /\ check = "idle"
  /\ expected = <<>>
  /\ listed = {}
  /\ abandoned = {}
  /\ interrupted = FALSE

\* stop() was called, or start() or the reconnect loop has given up.
stopped == pc["stop"] # "idle" \/ pc["builder"] \in {"failing", "over"}

-----------------------------------------------------------------------------
(* teardown() of both managers                                             *)

\* Mutant: a process that was killed before is awaited again.
AwaitedAgain(k) == {i \in k..2 : ffmpeg[i] # "none"}

\* Mutant: only the first process is stopped.
AwaitedFirst(k) == {i \in k..1 : ffmpeg[i] \in {"running", "signalled"}}

\* The processes from k on that terminateProcess() waits for: no exit code and
\* not killed before.  One that a foreign signal ended has no exit code either.
Awaited(k) == {i \in k..2 : ffmpeg[i] \in {"running", "signalled"}}

\* VideoManager.teardown() from process k on.  A signal sent to a process that
\* is gone does nothing; the timer's SIGKILL is skipped, since kill() has set
\* process.killed.
TerminateFrom(c, k) ==
  IF Awaited(k) = {}
  THEN /\ forwarding' = FALSE
       /\ closing' = [closing EXCEPT ![c] = 0]
       /\ UNCHANGED ffmpeg
  ELSE LET i == CHOOSE j \in Awaited(k) : \A m \in Awaited(k) : j <= m
       IN  /\ closing' = [closing EXCEPT ![c] = i]
           /\ ffmpeg' = [ffmpeg EXCEPT ![i] = IF @ = "running" THEN "stopping" ELSE @]
           /\ UNCHANGED forwarding

\* The part of teardownCurrentAttempt() that concerns the media, up to its
\* first awaits: the ids are copied, the first process is signalled.
BeginTeardown(c, where) ==
  /\ pc' = [pc EXCEPT ![c] = where]
  /\ monitor' = FALSE
  /\ unloading' = [unloading EXCEPT ![c] = modulesBySession]
  /\ IF forwarding THEN TerminateFrom(c, 1) ELSE UNCHANGED picture

\* Mutant: the first id of the array is never reached.
UnloadLastButOne(c) ==
  LET ids == unloading[c] n == Len(ids) IN
  /\ n # 0
  /\ pulse' = IF n = 1 THEN pulse ELSE pulse \ {ids[n]}
  /\ unloading' = [unloading EXCEPT ![c] = SubSeq(ids, 1, n - 1)]
  /\ modulesBySession' = IF n = 1 THEN <<>> ELSE modulesBySession
  /\ UNCHANGED <<callers, moduleIds, loads, abandoned, picture, health>>

\* pactl unload-module, in reverse order; that an id is gone already is
\* tolerated.  The entry goes after the last one.
UnloadLast(c) ==
  LET ids == unloading[c] n == Len(ids) IN
  /\ n # 0
  /\ pulse' = pulse \ {ids[n]}
  /\ unloading' = [unloading EXCEPT ![c] = SubSeq(ids, 1, n - 1)]
  /\ modulesBySession' = IF n = 1 THEN <<>> ELSE modulesBySession
  /\ UNCHANGED <<callers, moduleIds, loads, abandoned, picture, health>>

\* The close event of the process that c awaits.
ProcessClosed(c) ==
  /\ closing[c] # 0
  /\ ffmpeg[closing[c]] = "stopped"
  /\ TerminateFrom(c, closing[c] + 1)
  /\ UNCHANGED <<callers, sound, health>>

TornDown(c) == pc[c] \in {"teardown", "failing"} /\ unloading[c] = <<>> /\ closing[c] = 0

-----------------------------------------------------------------------------
(* configure() of both managers, as establishBridge() calls them           *)

\* allocate() has returned; nobody looks whether stop() was called since.
Configure ==
  /\ pc["builder"] = "waiting"
  /\ attempt' = attempt + 1
  /\ pc' = [pc EXCEPT !["builder"] = "audio"]
  /\ moduleIds' = <<>>
  /\ UNCHANGED <<monitor, interrupted, modulesBySession, unloading, pulse, loads,
                 abandoned, picture, health>>

\* loadModule(): a sink for each platform, then a microphone fed by the sink of
\* the other.
ModuleLoaded ==
  /\ pc["builder"] = "audio"
  /\ Len(moduleIds) < 3
  /\ loads' = loads + 1
  /\ pulse' = pulse \cup {loads'}
  /\ moduleIds' = Append(moduleIds, loads')
  /\ UNCHANGED <<callers, modulesBySession, unloading, abandoned, picture, health>>

\* Mutant: the entry of the session is not made.
ConfiguredUnnoted ==
  /\ pc["builder"] = "audio"
  /\ Len(moduleIds) = 3
  /\ loads' = loads + 1
  /\ pulse' = pulse \cup {loads'}
  /\ moduleIds' = <<>>
  /\ UNCHANGED modulesBySession
  /\ ffmpeg' = [i \in Directions |-> "running"]
  /\ forwarding' = TRUE
  /\ pc' = [pc EXCEPT !["builder"] = "joining"]
  /\ UNCHANGED <<attempt, monitor, interrupted, unloading, abandoned, closing, health>>

\* The last module: the entry is made, and VideoManager.configure() starts both
\* forwarders without an await.
Configured ==
  /\ pc["builder"] = "audio"
  /\ Len(moduleIds) = 3
  /\ loads' = loads + 1
  /\ pulse' = pulse \cup {loads'}
  /\ moduleIds' = <<>>
  /\ modulesBySession' = Append(moduleIds, loads')
  /\ ffmpeg' = [i \in Directions |-> "running"]
  /\ forwarding' = TRUE
  /\ pc' = [pc EXCEPT !["builder"] = "joining"]
  /\ UNCHANGED <<attempt, monitor, interrupted, unloading, abandoned, closing, health>>

\* The first attempt is start()'s, and its failure the session's.
AttemptFails == BeginTeardown("builder", IF attempt = 1 THEN "failing" ELSE "teardown")

\* Mutant: the modules loaded so far are noted as the session's.
LoadFailsKeeps ==
  /\ pc["builder"] = "audio"
  /\ modulesBySession' = moduleIds
  /\ AttemptFails
  /\ moduleIds' = <<>>
  /\ UNCHANGED <<attempt, interrupted, pulse, loads, abandoned, health>>

\* pactl fails or prints no number.  The modules loaded before are known to
\* nobody, and the teardown that follows finds no entry.
LoadFails ==
  /\ pc["builder"] = "audio"
  /\ abandoned' = abandoned \cup Elements(moduleIds)
  /\ moduleIds' = <<>>
  /\ AttemptFails
  /\ UNCHANGED <<attempt, interrupted, modulesBySession, pulse, loads, health>>

Joined ==
  /\ pc["builder"] = "joining"
  /\ pc' = [pc EXCEPT !["builder"] = "live"]
  /\ monitor' = TRUE
  /\ UNCHANGED <<attempt, interrupted, sound, picture, health>>

JoinFails ==
  /\ pc["builder"] = "joining"
  /\ AttemptFails
  /\ UNCHANGED <<attempt, interrupted, moduleIds, modulesBySession, pulse, loads,
                 abandoned, health>>

\* requestReconnect(): only a live bridge that nobody has stopped.
RequestReconnect ==
  IF pc["builder"] = "live" /\ ~stopped
  THEN BeginTeardown("builder", "teardown")
  ELSE UNCHANGED <<pc, monitor, unloading, picture>>

\* A browser has died, the meeting's page is gone.
BrowserLost ==
  /\ monitor
  /\ RequestReconnect
  /\ UNCHANGED <<attempt, interrupted, moduleIds, modulesBySession, pulse, loads,
                 abandoned, health>>

Stop ==
  /\ ~stopped
  /\ BeginTeardown("stop", "teardown")
  /\ interrupted' = (pc["builder"] # "live")
  /\ UNCHANGED <<attempt, moduleIds, modulesBySession, pulse, loads, abandoned, health>>

\* Promise.allSettled() resolves.  A reconnect that nobody has stopped sleeps and
\* allocates for its next attempt, if it has one left.
TeardownEnds(c) ==
  /\ TornDown(c)
  /\ pc' = [pc EXCEPT ![c] =
               IF c = "builder" /\ ~stopped /\ attempt < MaxAttempts
               THEN "waiting" ELSE "over"]
  /\ UNCHANGED <<attempt, monitor, interrupted, sound, picture, health>>

-----------------------------------------------------------------------------
(* isHealthy() of both managers, as a health check calls them              *)

CheckBegins ==
  /\ monitor
  /\ check = "idle"
  /\ check' = "listing"
  /\ expected' = modulesBySession
  /\ UNCHANGED <<listed, callers, sound, picture>>

\* pactl lists what is loaded now, or fails and lists nothing.
ModulesListed ==
  /\ check = "listing"
  /\ check' = "listed"
  /\ listed' \in {pulse, {}}
  /\ UNCHANGED <<expected, callers, sound, picture>>

AudioHealthy == expected # <<>> /\ Elements(expected) \subseteq listed

\* Mutant: only the failure of both directions counts.
VideoHealthyByOne == forwarding /\ \E i \in Directions : ffmpeg[i] \in {"running", "signalled"}

\* exitCode === null && !killed.
VideoHealthy == forwarding /\ \A i \in Directions : ffmpeg[i] \in {"running", "signalled"}

\* The answer arrives; the session may have been rebuilt meanwhile.
CheckEnds ==
  /\ check = "listed"
  /\ check' = "idle"
  /\ expected' = <<>>
  /\ listed' = {}
  /\ IF AudioHealthy /\ VideoHealthy
     THEN UNCHANGED <<pc, monitor, unloading, picture>>
     ELSE RequestReconnect
  /\ UNCHANGED <<attempt, interrupted, moduleIds, modulesBySession,
                 pulse, loads, abandoned>>

-----------------------------------------------------------------------------
(* The processes outside the worker                                        *)

ProcessesUnchanged == UNCHANGED <<callers, sound, forwarding, closing, health>>

\* An ffmpeg that cannot start, or that stops with a code, 0 or not.
FfmpegExits(i) ==
  /\ ffmpeg[i] = "running"
  /\ ffmpeg' = [ffmpeg EXCEPT ![i] = "exited"]
  /\ ProcessesUnchanged

FfmpegSignalled(i) ==
  /\ MaySignal
  /\ ffmpeg[i] = "running"
  /\ ffmpeg' = [ffmpeg EXCEPT ![i] = "signalled"]
  /\ ProcessesUnchanged

\* SIGTERM takes effect.
FfmpegStops(i) ==
  /\ ffmpeg[i] = "stopping"
  /\ ffmpeg' = [ffmpeg EXCEPT ![i] = "stopped"]
  /\ ProcessesUnchanged

\* The PulseAudio daemon has gone, or begins again with nothing.
ModulesVanish ==
  /\ pulse # {}
  /\ pulse' = {}
  /\ UNCHANGED <<callers, moduleIds, modulesBySession, unloading, loads, abandoned,
                 picture, health>>

-----------------------------------------------------------------------------
Build == ModuleLoaded \/ Configured \/ LoadFails \/ Joined \/ JoinFails
Check == ModulesListed \/ CheckEnds

Next ==
  \/ Configure \/ Build \/ Stop \/ BrowserLost \/ CheckBegins \/ Check \/ ModulesVanish
  \/ \E c \in Callers : UnloadLast(c) \/ ProcessClosed(c) \/ TeardownEnds(c)
  \/ \E i \in Directions : FfmpegExits(i) \/ FfmpegSignalled(i) \/ FfmpegStops(i)

Spec == Init /\ [][Next]_vars

\* pactl answers, timers fire, a close event is delivered, and an ffmpeg obeys
\* SIGTERM.
Fairness ==
  /\ WF_vars(Build) /\ WF_vars(CheckBegins) /\ WF_vars(Check)
  /\ \A c \in Callers :
       WF_vars(UnloadLast(c)) /\ WF_vars(ProcessClosed(c)) /\ WF_vars(TeardownEnds(c))
  /\ \A i \in Directions : WF_vars(FfmpegStops(i))

FairSpec == Spec /\ Fairness

-----------------------------------------------------------------------------
(* Properties                                                              *)

Alive == {"running", "stopping"}

SessionOver ==
  \/ pc["builder"] = "over" /\ pc["stop"] # "teardown"
  \/ pc["builder"] = "live" /\ pc["stop"] = "over"

\* A module that PulseAudio has loaded for the session is on somebody's list,
\* the entry's, a running configure()'s or a teardown's, or was loaded by a
\* configure() that failed half way.
ModulesKnown ==
  pulse \subseteq Elements(modulesBySession) \cup Elements(moduleIds) \cup abandoned
                    \cup UNION {Elements(unloading[c]) : c \in Callers}

\* When the session is over and stop() did not come while start() or a
\* reconnect worked, no ffmpeg runs and no module is left but those of a
\* configure() that failed half way.
MediaReleased ==
  SessionOver /\ ~interrupted =>
    /\ pulse \subseteq abandoned
    /\ \A i \in Directions : ffmpeg[i] \notin Alive

\* A forwarder is started only when the one that wrote into the same camera has
\* gone: attempts follow one another, teardowns may overlap.
OneWriter == [][Configured => \A i \in Directions : ffmpeg[i] \notin Alive]_vars

\* A live bridge that has lost a sound module, or whose ffmpeg has exited, is
\* taken down by its health checks; an ffmpeg that a signal ended is not seen.
Broken ==
  \/ ~(Elements(modulesBySession) \subseteq pulse)
  \/ \E i \in Directions : ffmpeg[i] = "exited"
LossNoticed == pc["builder"] = "live" /\ ~stopped /\ Broken ~> ~monitor \/ stopped

\* teardown() of both managers comes back, also when two of them overlap, but
\* for one that meets a forwarder ended by a foreign signal: terminateProcess()
\* then waits for a close event that is past.
TeardownCompletes ==
  \A c \in Callers :
    /\ unloading[c] # <<>> ~> unloading[c] = <<>>
    /\ \A i \in Directions : closing[c] = i /\ ffmpeg[i] # "signalled" ~> closing[c] # i
=============================================================================
