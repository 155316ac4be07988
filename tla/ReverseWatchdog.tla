--------------------------- MODULE ReverseWatchdog ---------------------------
(***************************************************************************)
(* One stall watchdog of the reverse-display host in absolute time, with   *)
(* the three parties that touch it under watchdog_mutex:                   *)
(*   - the sending thread (capture or audio), which brackets each encode   *)
(*     and send with begin/end and submits the pts it is about to send;    *)
(*   - the receiver thread, which reports acknowledgements and pauses;     *)
(*   - the main loop, which polls sc_reverse_watchdog_expired().           *)
(* The peer is not trusted to acknowledge only what it received.           *)
(***************************************************************************)
EXTENDS WatchdogOps

VARIABLES
  watchdog,    \* struct sc_reverse_watchdog
  now,         \* av_gettime_relative()
  progress     \* history: when the pending work started, progressed or resumed

vars == <<watchdog, now, progress>>

CONSTANTS
  MaxPts,      \* bound: the pts the sender uses are 0..MaxPts
  MaxTime      \* bound: the clock stops here

ASSUME BoundsAssumption == MaxPts \in Nat /\ MaxTime \in Nat \ {0}

Init ==
  /\ watchdog \in {NewWatchdog(FALSE), NewWatchdog(TRUE)}
  /\ now = 1
  /\ progress = 1

(* The sender enters a section that must not take StallTimeout.  Waiting   *)
(* starts here only if nothing was being waited for.                       *)
SenderBegin ==
  /\ ~watchdog.busy
  /\ watchdog' = Begin(watchdog, now)
  /\ progress' = IF Outstanding(watchdog) THEN progress ELSE now
  /\ UNCHANGED now

SenderSubmit ==
  /\ watchdog.busy
  /\ \E pts \in 0..MaxPts : watchdog' = Submit(watchdog, pts)
  /\ UNCHANGED <<now, progress>>

SenderEnd ==
  /\ watchdog.busy
  /\ watchdog' = End(watchdog)
  /\ UNCHANGED <<now, progress>>

(* The peer may repeat an acknowledgement or name a pts never submitted.   *)
ReceiverAck ==
  \E pts \in NoPts..(MaxPts + 1) :
    /\ watchdog' = Ack(watchdog, pts, now)
    /\ progress' = IF AckAccepted(watchdog, pts) THEN now ELSE progress
    /\ UNCHANGED now

ReceiverSetPaused ==
  \E paused \in BOOLEAN :
    /\ watchdog' = SetPaused(watchdog, paused, now)
    /\ progress' = IF watchdog.paused /\ ~paused THEN now ELSE progress
    /\ UNCHANGED now

Tick ==
  /\ now < MaxTime
  /\ now' = now + 1
  /\ UNCHANGED <<watchdog, progress>>

Next == \/ SenderBegin \/ SenderSubmit \/ SenderEnd
        \/ ReceiverAck \/ ReceiverSetPaused
        \/ Tick

Spec == Init /\ [][Next]_vars

-----------------------------------------------------------------------------
TypeOK ==
  /\ watchdog \in Watchdog
  /\ now \in Nat \ {0}
  /\ progress \in Nat \ {0}

(* Acknowledgements never run ahead of what was sent, whatever the peer    *)
(* says (reverse_watchdog.h:44, "Future/duplicate ACKs must not disable    *)
(* the stall watchdog or flow control").                                   *)
AckedWasSubmitted == watchdog.acked <= watchdog.submitted

Armed == ArmedIffOutstanding(watchdog)

(* The watchdog fires exactly when outstanding work has made no progress   *)
(* for StallTimeout while not paused: no operation, bogus acknowledgement  *)
(* or repeated pause command postpones it, and none makes it fire early.   *)
ExpiredIffStalled ==
  Expired(watchdog, now)
    <=> /\ ~watchdog.paused
        /\ Outstanding(watchdog)
        /\ now >= progress + StallTimeout

Inv == AckedWasSubmitted /\ Armed

(* An armed deadline moves later only when an acknowledgement is accepted  *)
(* or the session really leaves the paused state ("Repeated resume         *)
(* commands must not extend a genuine stall", reverse_watchdog.h:72).      *)
DeadlineExtended ==
  /\ watchdog.deadline # 0
  /\ watchdog'.deadline > watchdog.deadline

OnlyProgressExtends ==
  [][DeadlineExtended => \/ watchdog'.acked > watchdog.acked
                         \/ watchdog.paused /\ ~watchdog'.paused]_vars

-----------------------------------------------------------------------------
(* What the watchdog promises to the main loop.                            *)
Quiet ==
  IF ~Outstanding(watchdog) THEN 0
  ELSE IF now - progress < StallTimeout THEN now - progress
  ELSE StallTimeout

Detector == INSTANCE StallDetector WITH
  Frames  <- 0..MaxPts,
  busy    <- watchdog.busy,
  unacked <- (watchdog.acked + 1)..watchdog.submitted,
  quiet   <- Quiet,
  paused  <- watchdog.paused,
  alarm   <- Expired(watchdog, now)

ImplementsDetector == Detector!Spec
=============================================================================
