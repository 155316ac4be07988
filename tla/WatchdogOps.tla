----------------------------- MODULE WatchdogOps -----------------------------
(***************************************************************************)
(* The operations of app/src/reverse_watchdog.h as functions of the record *)
(* struct sc_reverse_watchdog.  The header is pure: every caller passes    *)
(* the current time and stores the result while holding watchdog_mutex, so *)
(* one operation is one atomic step of the modules that use it.            *)
(*                                                                         *)
(* A deadline of 0 means "not armed", as in the code; times are therefore  *)
(* positive integers.                                                      *)
(*                                                                         *)
(* In this module and the others a definition directly before the one it   *)
(* varies, and used by nothing, is that operation with a plausible bug:    *)
(* PROJECT.json says which property notices it.                            *)
(***************************************************************************)
EXTENDS Integers

CONSTANT
  StallTimeout    \* SC_REVERSE_STALL_TIMEOUT_US, in ticks of the model's clock

ASSUME StallTimeoutAssumption == StallTimeout \in Nat \ {0}

NoPts == -1       \* initial value of submitted_pts and acked_pts
Pts   == Nat \cup {NoPts}

Watchdog == [deadline  : Nat,
             submitted : Pts,
             acked     : Pts,
             busy      : BOOLEAN,
             paused    : BOOLEAN]

NewWatchdog(paused) == [deadline  |-> 0,
                        submitted |-> NoPts,
                        acked     |-> NoPts,
                        busy      |-> FALSE,
                        paused    |-> paused]

(* Something the peer or the encoder still owes: an operation in progress, *)
(* or a submitted frame whose acknowledgement has not arrived.             *)
Outstanding(w) == w.busy \/ w.acked < w.submitted

Rearmed(w, now) ==
  [w EXCEPT !.deadline = IF Outstanding(w) THEN now + StallTimeout ELSE 0]

BeginAlwaysRearms(w, now) ==
  [w EXCEPT !.busy = TRUE, !.deadline = now + StallTimeout]

Begin(w, now) ==
  [w EXCEPT !.busy = TRUE,
            !.deadline = IF @ = 0 THEN now + StallTimeout ELSE @]

Submit(w, pts) ==
  [w EXCEPT !.submitted = IF pts > @ THEN pts ELSE @]

AckAccepted(w, pts) == w.acked < pts /\ pts <= w.submitted

AckAlwaysRearms(w, pts, now) ==
  Rearmed(IF AckAccepted(w, pts) THEN [w EXCEPT !.acked = pts] ELSE w, now)

Ack(w, pts, now) ==
  IF AckAccepted(w, pts) THEN Rearmed([w EXCEPT !.acked = pts], now) ELSE w

EndAlwaysDisarms(w) == [w EXCEPT !.busy = FALSE, !.deadline = 0]

End(w) ==
  [w EXCEPT !.busy = FALSE,
            !.deadline = IF w.acked >= w.submitted THEN 0 ELSE @]

Expired(w, now) == ~w.paused /\ w.deadline # 0 /\ now >= w.deadline

SetPausedAgain(w, paused, now) ==
  LET changed == [w EXCEPT !.paused = paused]
  IN  IF paused THEN changed ELSE Rearmed(changed, now)

SetPaused(w, paused, now) ==
  IF w.paused = paused THEN w
  ELSE LET changed == [w EXCEPT !.paused = paused]
       IN  IF paused THEN changed ELSE Rearmed(changed, now)

(* The watchdog is armed exactly while something is outstanding: a stall   *)
(* can always be noticed, and an idle stream is never reported as stalled. *)
ArmedIffOutstanding(w) == (w.deadline # 0) <=> Outstanding(w)

(* One tick, for the modules that measure deadlines from the present: in   *)
(* them now is always Present and the deadlines come closer instead.       *)
Present == 1
Closer(w) == [w EXCEPT !.deadline = IF @ > Present THEN @ - 1 ELSE @]
=============================================================================
