-------------------------- MODULE SessionLifecycle --------------------------
(***************************************************************************)
(* What a bridge session promises to the rest of the system: the session   *)
(* state machine of the design document (7.4), without the resources, the  *)
(* browsers and the concurrency behind it.                                 *)
(*                                                                         *)
(* "over" is the point of no return: a stop was accepted or the session    *)
(* gave up.  The end is reported once, as TERMINATED or FAILED, and a      *)
(* worker that dies takes the session with it without a report.            *)
(*                                                                         *)
(* A session may be cut off: a process that it would have to stop has been *)
(* ended by somebody else, and the worker waits for it without end.        *)
(***************************************************************************)
EXTENDS Naturals

CONSTANT MaxAttempts   \* at least 1

VARIABLES
  phase,    \* created, connecting, live, reconnecting, over or lost
  tries,    \* attempts of the current reconnect
  report,   \* what onTerminal heard
  cut       \* the session is cut off

vars == <<phase, tries, report, cut>>

Init == phase = "created" /\ tries = 0 /\ report = "none" /\ cut = FALSE

Move(from, to) == phase \in from /\ phase' = to

Begin == Move({"created"}, "connecting") /\ UNCHANGED <<tries, report, cut>>

Connected ==
  Move({"connecting"}, "live") /\ UNCHANGED <<tries, report, cut>>

ConnectFails ==
  Move({"connecting"}, "over") /\ report' = "FAILED" /\ UNCHANGED <<tries, cut>>

\* A live bridge is lost.
Break == Move({"live"}, "reconnecting") /\ UNCHANGED <<tries, report, cut>>

\* MaxAttempts attempts, no more, and none while the last one is not cleared
\* away.
Try ==
  /\ Move({"reconnecting"}, "reconnecting")
  /\ ~cut
  /\ tries < MaxAttempts
  /\ tries' = tries + 1
  /\ UNCHANGED <<report, cut>>

Reconnected ==
  /\ Move({"reconnecting"}, "live")
  /\ tries > 0
  /\ tries' = 0
  /\ UNCHANGED <<report, cut>>

\* Not before the last attempt, nor before it is cleared away.
GiveUp ==
  /\ Move({"reconnecting"}, "over")
  /\ ~cut
  /\ tries = MaxAttempts
  /\ tries' = 0
  /\ report' = "FAILED"
  /\ UNCHANGED cut

\* stop(): in every phase, also while a reconnect is under way.
Stop ==
  /\ Move({"connecting", "live", "reconnecting"}, "over")
  /\ tries' = 0
  /\ UNCHANGED <<report, cut>>

Report ==
  /\ phase = "over"
  /\ report = "none"
  /\ report' \in {"TERMINATED", "FAILED"}
  /\ UNCHANGED <<phase, tries, cut>>

CutOff ==
  /\ phase \notin {"created", "lost"}
  /\ ~cut
  /\ cut' = TRUE
  /\ UNCHANGED <<phase, tries, report>>

\* The worker dies.
Lose == phase' = "lost" /\ phase # "lost" /\ tries' = 0 /\ UNCHANGED <<report, cut>>

Settle == Connected \/ ConnectFails \/ Try \/ Reconnected \/ GiveUp \/ Stop \/ Lose

Next ==
  \/ Begin \/ Connected \/ ConnectFails \/ Break \/ Try \/ Reconnected \/ GiveUp
  \/ Stop \/ Report \/ CutOff \/ Lose

Safe == Init /\ [][Next]_vars

\* A session that connects or reconnects settles, and its end is reported,
\* unless it is cut off.
Spec ==
  /\ Safe
  /\ WF_vars(~cut /\ phase \in {"connecting", "reconnecting"} /\ Settle)
  /\ WF_vars(~cut /\ Report)
=============================================================================
