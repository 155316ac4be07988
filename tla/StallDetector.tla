---------------------------- MODULE StallDetector ----------------------------
(***************************************************************************)
(* The promise of the reverse-display stall watchdog, without clocks,      *)
(* deadlines or pts comparisons: an alarm is raised exactly when somebody  *)
(* has been waited for, without progress, during StallTimeout ticks of an  *)
(* unpaused session.  ReverseWatchdog implements it.                       *)
(***************************************************************************)
EXTENDS Integers

CONSTANTS
  StallTimeout,   \* ticks without progress that make a stall: positive
  Frames          \* the frames that may be sent, ordered by their number

VARIABLES
  busy,       \* the sender is encoding or writing to the socket
  unacked,    \* frames sent, and not acknowledged yet
  quiet,      \* ticks waited since the last progress, at most StallTimeout
  paused,     \* the phone asked the host not to send
  alarm       \* the session must be ended

vars == <<busy, unacked, quiet, paused, alarm>>

Waiting == busy \/ unacked # {}

(* The alarm is a function of the rest, re-evaluated after every step.     *)
RaiseAlarm == alarm' = (~paused' /\ Waiting' /\ quiet' = StallTimeout)

Init ==
  /\ busy = FALSE
  /\ unacked = {}
  /\ quiet = 0
  /\ paused \in BOOLEAN
  /\ alarm = FALSE

BeginWork ==
  /\ ~busy
  /\ busy' = TRUE
  /\ quiet' = IF Waiting THEN quiet ELSE 0
  /\ UNCHANGED <<unacked, paused>>

Send ==
  /\ busy
  /\ \E new \in SUBSET Frames : unacked' = unacked \cup new
  /\ UNCHANGED <<busy, quiet, paused>>

(* An acknowledgement covers every earlier frame.  One that covers no      *)
(* unacknowledged frame is not a step of the detector at all.              *)
Acknowledge ==
  \E last \in unacked :
    /\ unacked' = {frame \in unacked : frame > last}
    /\ quiet' = 0
    /\ UNCHANGED <<busy, paused>>

EndWork ==
  /\ busy
  /\ busy' = FALSE
  /\ quiet' = IF unacked = {} THEN 0 ELSE quiet
  /\ UNCHANGED <<unacked, paused>>

SwitchPause ==
  /\ paused' = ~paused
  /\ quiet' = IF paused THEN 0 ELSE quiet
  /\ UNCHANGED <<busy, unacked>>

Wait ==
  /\ Waiting
  /\ quiet < StallTimeout
  /\ quiet' = quiet + 1
  /\ UNCHANGED <<busy, unacked, paused>>

Next ==
  /\ BeginWork \/ Send \/ Acknowledge \/ EndWork \/ SwitchPause \/ Wait
  /\ RaiseAlarm

Spec == Init /\ [][Next]_vars
=============================================================================
