------------------------ MODULE ReverseWatchdogProofs ------------------------
(***************************************************************************)
(* Proofs about the stall watchdog, for every timeout and every pts range. *)
(***************************************************************************)
EXTENDS ReverseWatchdog, TLAPS

(* A new watchdog is well typed, and neither armed nor outstanding.        *)
LEMMA NewWatchdogCorrect ==
  ASSUME NEW b \in BOOLEAN
  PROVE  /\ NewWatchdog(b) \in Watchdog
         /\ ArmedIffOutstanding(NewWatchdog(b))
BY DEF NewWatchdog, Watchdog, Pts, NoPts, ArmedIffOutstanding, Outstanding

(* The tail shared by ack and set_paused arms iff something is owed.       *)
LEMMA RearmedCorrect ==
  ASSUME NEW w \in Watchdog, NEW t \in Nat
  PROVE  Rearmed(w, t) \in Watchdog /\ ArmedIffOutstanding(Rearmed(w, t))
<1>1. t + StallTimeout \in Nat \ {0}
  BY StallTimeoutAssumption
<1> QED BY <1>1 DEF Rearmed, Watchdog, ArmedIffOutstanding, Outstanding

(* begin() arms an idle watchdog and leaves an armed one alone.            *)
LEMMA BeginCorrect ==
  ASSUME NEW w \in Watchdog, NEW t \in Nat
  PROVE  Begin(w, t) \in Watchdog /\ ArmedIffOutstanding(Begin(w, t))
<1>1. t + StallTimeout \in Nat \ {0}
  BY StallTimeoutAssumption
<1>2. Begin(w, t) \in Watchdog
  BY <1>1 DEF Begin, Watchdog
<1>3. Begin(w, t).busy /\ Begin(w, t).deadline # 0
  BY <1>1 DEF Begin, Watchdog
<1> QED BY <1>2, <1>3 DEF ArmedIffOutstanding, Outstanding

(* submit() is only armed-preserving inside a begin/end bracket, which is  *)
(* why reverse_send_frame_packet() must not be called outside of one.      *)
LEMMA SubmitCorrect ==
  ASSUME NEW w \in Watchdog, NEW pts \in Pts, ArmedIffOutstanding(w)
  PROVE  /\ Submit(w, pts) \in Watchdog
         /\ w.busy => ArmedIffOutstanding(Submit(w, pts))
BY DEF Submit, Watchdog, Pts, NoPts, ArmedIffOutstanding, Outstanding

(* ack(), accepted or not.                                                 *)
LEMMA AckCorrect ==
  ASSUME NEW w \in Watchdog, NEW pts \in Pts, NEW t \in Nat,
         ArmedIffOutstanding(w)
  PROVE  Ack(w, pts, t) \in Watchdog /\ ArmedIffOutstanding(Ack(w, pts, t))
<1>1. [w EXCEPT !.acked = pts] \in Watchdog
  BY DEF Watchdog
<1> QED BY <1>1, RearmedCorrect DEF Ack

(* end() disarms iff every submitted frame was acknowledged.               *)
LEMMA EndCorrect ==
  ASSUME NEW w \in Watchdog, ArmedIffOutstanding(w)
  PROVE  End(w) \in Watchdog /\ ArmedIffOutstanding(End(w))
<1>1. End(w) \in Watchdog
  BY DEF End, Watchdog
<1>2. /\ End(w).busy = FALSE
      /\ End(w).acked = w.acked /\ End(w).submitted = w.submitted
      /\ End(w).deadline = IF w.acked >= w.submitted THEN 0 ELSE w.deadline
  BY DEF End, Watchdog
<1>3. w.acked \in Int /\ w.submitted \in Int
  BY DEF Watchdog, Pts, NoPts
<1> QED BY <1>1, <1>2, <1>3 DEF ArmedIffOutstanding, Outstanding

(* set_paused() in both directions, and when it changes nothing.           *)
LEMMA SetPausedCorrect ==
  ASSUME NEW w \in Watchdog, NEW b \in BOOLEAN, NEW t \in Nat,
         ArmedIffOutstanding(w)
  PROVE  /\ SetPaused(w, b, t) \in Watchdog
         /\ ArmedIffOutstanding(SetPaused(w, b, t))
<1>1. [w EXCEPT !.paused = b] \in Watchdog
  BY DEF Watchdog
<1>2. ArmedIffOutstanding([w EXCEPT !.paused = b])
  BY DEF Watchdog, ArmedIffOutstanding, Outstanding
<1> QED BY <1>1, <1>2, RearmedCorrect DEF SetPaused

-----------------------------------------------------------------------------

(* The history variable fixes the deadline: it is one timeout after the    *)
(* last progress while anything is outstanding.  This is what makes the    *)
(* statement about expiry inductive.                                       *)
DeadlineFromProgress ==
  Outstanding(watchdog) => watchdog.deadline = progress + StallTimeout

IInv ==
  /\ TypeOK
  /\ Inv
  /\ DeadlineFromProgress
  /\ progress <= now
  /\ watchdog.submitted <= MaxPts

USE DEF NoPts

LEMMA InitIInv == Init => IInv
<1> SUFFICES ASSUME Init PROVE IInv
  OBVIOUS
<1>1. PICK b \in BOOLEAN : watchdog = NewWatchdog(b)
  BY DEF Init
<1>2. watchdog \in Watchdog /\ ArmedIffOutstanding(watchdog)
  BY <1>1, NewWatchdogCorrect
<1>3. /\ watchdog.acked = NoPts
      /\ watchdog.submitted = NoPts
      /\ watchdog.busy = FALSE
  BY <1>1 DEF NewWatchdog
<1>4. NoPts <= MaxPts
  BY BoundsAssumption
<1> QED BY <1>2, <1>3, <1>4
        DEF Init, IInv, TypeOK, Inv, AckedWasSubmitted, Armed,
            DeadlineFromProgress, Outstanding

LEMMA StepIInv == IInv /\ [Next]_vars => IInv'
<1> SUFFICES ASSUME IInv, [Next]_vars PROVE IInv'
  OBVIOUS
<1> USE DEF IInv, TypeOK, Inv, AckedWasSubmitted, Armed, DeadlineFromProgress
<1>0. /\ watchdog \in Watchdog
      /\ now \in Nat \ {0} /\ progress \in Nat \ {0}
      /\ now + StallTimeout \in Nat /\ progress + StallTimeout \in Nat
  BY StallTimeoutAssumption
<1>1. CASE SenderBegin
  <2>1. watchdog' = Begin(watchdog, now)
    BY <1>1 DEF SenderBegin
  <2>2. watchdog' \in Watchdog /\ ArmedIffOutstanding(watchdog')
    BY <2>1, <1>0, BeginCorrect
  <2>3. /\ watchdog'.acked = watchdog.acked
        /\ watchdog'.submitted = watchdog.submitted
        /\ watchdog'.deadline = IF watchdog.deadline = 0
                                THEN now + StallTimeout ELSE watchdog.deadline
    BY <2>1, <1>0 DEF Begin, Watchdog
  <2>4. watchdog'.deadline = progress' + StallTimeout
    BY <2>3, <1>1 DEF SenderBegin, ArmedIffOutstanding
  <2> QED BY <1>0, <1>1, <2>2, <2>3, <2>4 DEF SenderBegin
<1>2. CASE SenderSubmit
  <2>1. PICK pts \in 0..MaxPts : watchdog' = Submit(watchdog, pts)
    BY <1>2 DEF SenderSubmit
  <2>2. pts \in Pts /\ pts <= MaxPts
    BY BoundsAssumption DEF Pts
  <2>3. watchdog' \in Watchdog /\ ArmedIffOutstanding(watchdog')
    BY <1>0, <1>2, <2>1, <2>2, SubmitCorrect DEF SenderSubmit
  <2>4. /\ watchdog'.acked = watchdog.acked
        /\ watchdog'.deadline = watchdog.deadline
        /\ watchdog'.submitted = IF pts > watchdog.submitted
                                 THEN pts ELSE watchdog.submitted
    BY <2>1, <1>0 DEF Submit, Watchdog
  <2>5. watchdog'.acked <= watchdog'.submitted
        /\ watchdog'.submitted <= MaxPts
    BY <2>2, <2>4, <1>0, BoundsAssumption DEF Watchdog, Pts
  <2>6. Outstanding(watchdog)
    BY <1>2 DEF SenderSubmit, Outstanding
  <2> QED BY <1>0, <1>2, <2>3, <2>4, <2>5, <2>6 DEF SenderSubmit
<1>3. CASE SenderEnd
  <2>1. watchdog' = End(watchdog)
    BY <1>3 DEF SenderEnd
  <2>2. watchdog' \in Watchdog /\ ArmedIffOutstanding(watchdog')
    BY <2>1, <1>0, EndCorrect
  <2>3. /\ watchdog'.acked = watchdog.acked
        /\ watchdog'.submitted = watchdog.submitted
        /\ watchdog'.deadline = IF watchdog.acked >= watchdog.submitted
                                THEN 0 ELSE watchdog.deadline
    BY <2>1, <1>0 DEF End, Watchdog
  <2>4. Outstanding(watchdog) /\ watchdog.deadline = progress + StallTimeout
    BY <1>3 DEF SenderEnd, Outstanding
  <2>5. Outstanding(watchdog') => watchdog'.deadline = progress + StallTimeout
    BY <2>2, <2>3, <2>4 DEF ArmedIffOutstanding
  <2> QED BY <1>0, <1>3, <2>2, <2>3, <2>5 DEF SenderEnd
<1>4. CASE ReceiverAck
  <2>1. PICK pts \in NoPts..(MaxPts + 1) :
          /\ watchdog' = Ack(watchdog, pts, now)
          /\ progress' = IF AckAccepted(watchdog, pts) THEN now ELSE progress
          /\ UNCHANGED now
    BY <1>4 DEF ReceiverAck
  <2>2. pts \in Pts
    BY BoundsAssumption DEF Pts
  <2>3. CASE ~AckAccepted(watchdog, pts)
    BY <2>1, <2>3 DEF Ack
  <2>4. CASE AckAccepted(watchdog, pts)
    <3>1. watchdog' \in Watchdog /\ ArmedIffOutstanding(watchdog')
      BY <2>1, <2>2, <1>0, AckCorrect
    <3> DEFINE v == [watchdog EXCEPT !.acked = pts]
    <3>2. watchdog' = Rearmed(v, now)
      BY <2>1, <2>4 DEF Ack
    <3>3. /\ watchdog'.acked = pts
          /\ watchdog'.submitted = watchdog.submitted
          /\ watchdog'.busy = watchdog.busy
          /\ watchdog'.deadline = IF Outstanding(v) THEN now + StallTimeout
                                  ELSE 0
      BY <3>2, <1>0 DEF Rearmed, Watchdog
    <3>4. Outstanding(watchdog') => watchdog'.deadline = now + StallTimeout
      BY <3>1, <3>3 DEF ArmedIffOutstanding
    <3> QED BY <1>0, <2>1, <2>4, <3>1, <3>3, <3>4 DEF AckAccepted
  <2> QED BY <2>3, <2>4
<1>5. CASE ReceiverSetPaused
  <2>1. PICK b \in BOOLEAN :
          /\ watchdog' = SetPaused(watchdog, b, now)
          /\ progress' = IF watchdog.paused /\ ~b THEN now ELSE progress
          /\ UNCHANGED now
    BY <1>5 DEF ReceiverSetPaused
  <2>2. watchdog' \in Watchdog /\ ArmedIffOutstanding(watchdog')
    BY <2>1, <1>0, SetPausedCorrect
  <2> DEFINE v == [watchdog EXCEPT !.paused = b]
  <2>3. CASE watchdog.paused = b
    BY <2>1, <2>3 DEF SetPaused
  <2>4. CASE watchdog.paused # b /\ b
    <3>1. watchdog' = v /\ progress' = progress
      BY <2>1, <2>4 DEF SetPaused
    <3>2. /\ watchdog'.acked = watchdog.acked
          /\ watchdog'.submitted = watchdog.submitted
          /\ watchdog'.busy = watchdog.busy
          /\ watchdog'.deadline = watchdog.deadline
      BY <3>1, <1>0 DEF Watchdog
    <3> QED BY <1>0, <2>1, <2>2, <3>1, <3>2 DEF Outstanding
  <2>5. CASE watchdog.paused # b /\ ~b
    <3>1. watchdog' = Rearmed(v, now) /\ progress' = now
      BY <2>1, <2>5, <1>0 DEF SetPaused, Watchdog
    <3>2. /\ watchdog'.acked = watchdog.acked
          /\ watchdog'.submitted = watchdog.submitted
          /\ watchdog'.deadline = IF Outstanding(v) THEN now + StallTimeout
                                  ELSE 0
      BY <3>1, <1>0 DEF Rearmed, Watchdog
    <3>3. Outstanding(watchdog') => watchdog'.deadline = now + StallTimeout
      BY <2>2, <3>2 DEF ArmedIffOutstanding
    <3> QED BY <1>0, <2>1, <2>2, <3>1, <3>2, <3>3
  <2> QED BY <2>3, <2>4, <2>5
<1>6. CASE Tick
  BY <1>6 DEF Tick
<1>7. CASE UNCHANGED vars
  BY <1>7 DEF vars
<1> QED BY <1>1, <1>2, <1>3, <1>4, <1>5, <1>6, <1>7 DEF Next

LEMMA Invariance == Spec => []IInv
BY InitIInv, StepIInv, PTL DEF Spec

-----------------------------------------------------------------------------
(* The record keeps its type under every operation of the three threads.   *)
THEOREM TypeCorrect == Spec => []TypeOK
<1>1. IInv => TypeOK
  BY DEF IInv
<1> QED BY <1>1, Invariance, PTL

(* Whatever pts the peer acknowledges, the last accepted one was sent.     *)
THEOREM AckedIsSubmitted == Spec => []AckedWasSubmitted
<1>1. IInv => AckedWasSubmitted
  BY DEF IInv, Inv
<1> QED BY <1>1, Invariance, PTL

(* A stall can always be noticed; an idle stream never counts as stalled.  *)
THEOREM AlwaysArmed == Spec => []Armed
<1>1. IInv => Armed
  BY DEF IInv, Inv
<1> QED BY <1>1, Invariance, PTL

(* Expiry is exact, whatever the interleaving of sender, receiver and      *)
(* clock: it needs StallTimeout without progress, and nothing more.        *)
THEOREM ExpiryIsExact == Spec => []ExpiredIffStalled
<1>1. IInv => ExpiredIffStalled
  <2> SUFFICES ASSUME IInv PROVE ExpiredIffStalled
    OBVIOUS
  <2>1. /\ watchdog.deadline # 0 <=> Outstanding(watchdog)
        /\ Outstanding(watchdog) => watchdog.deadline = progress + StallTimeout
    BY DEF IInv, Inv, Armed, ArmedIffOutstanding, DeadlineFromProgress
  <2> QED BY <2>1 DEF ExpiredIffStalled, Expired
<1> QED BY <1>1, Invariance, PTL

(* Bogus acknowledgements and repeated resumes never postpone an expiry.   *)
THEOREM DeadlineOnlyExtendedByProgress == Spec => OnlyProgressExtends
<1>1. IInv /\ [Next]_vars
        => [DeadlineExtended => \/ watchdog'.acked > watchdog.acked
                                \/ watchdog.paused /\ ~watchdog'.paused]_vars
  <2> SUFFICES ASSUME IInv, [Next]_vars, DeadlineExtended
               PROVE  \/ watchdog'.acked > watchdog.acked
                      \/ watchdog.paused /\ ~watchdog'.paused
    OBVIOUS
  <2> USE DEF DeadlineExtended
  <2>0. /\ watchdog \in Watchdog /\ now \in Nat
        /\ watchdog.deadline \in Nat /\ watchdog.acked \in Int
        /\ now + StallTimeout \in Nat
    BY StallTimeoutAssumption DEF IInv, TypeOK, Watchdog, Pts
  <2>1. ~SenderBegin
    <3>1. SenderBegin => watchdog'.deadline = watchdog.deadline
      BY <2>0 DEF SenderBegin, Begin, Watchdog
    <3> QED BY <2>0, <3>1
  <2>2. ~SenderSubmit
    <3>1. SenderSubmit => watchdog'.deadline = watchdog.deadline
      BY <2>0 DEF SenderSubmit, Submit, Watchdog
    <3> QED BY <2>0, <3>1
  <2>3. ~SenderEnd
    <3>1. SenderEnd => watchdog'.deadline \in {0, watchdog.deadline}
      BY <2>0 DEF SenderEnd, End, Watchdog
    <3> QED BY <2>0, <3>1
  <2>4. CASE ReceiverAck
    <3>1. PICK pts \in NoPts..(MaxPts + 1) : watchdog' = Ack(watchdog, pts, now)
      BY <2>4 DEF ReceiverAck
    <3>2. CASE AckAccepted(watchdog, pts)
      <4>1. watchdog'.acked = pts
        BY <3>1, <3>2, <2>0 DEF Ack, Rearmed, Watchdog
      <4> QED BY <4>1, <3>2, <2>0, BoundsAssumption DEF AckAccepted
    <3>3. CASE ~AckAccepted(watchdog, pts)
      BY <3>1, <3>3, <2>0 DEF Ack
    <3> QED BY <3>2, <3>3
  <2>5. CASE ReceiverSetPaused
    <3>1. PICK b \in BOOLEAN : watchdog' = SetPaused(watchdog, b, now)
      BY <2>5 DEF ReceiverSetPaused
    <3>2. CASE watchdog.paused = b
      BY <3>1, <3>2, <2>0 DEF SetPaused
    <3>3. CASE watchdog.paused # b /\ b
      <4>1. watchdog'.deadline = watchdog.deadline
        BY <3>1, <3>3, <2>0 DEF SetPaused, Watchdog
      <4> QED BY <4>1, <2>0
    <3>4. CASE watchdog.paused # b /\ ~b
      <4>1. watchdog.paused /\ watchdog'.paused = FALSE
        BY <3>1, <3>4, <2>0 DEF SetPaused, Rearmed, Watchdog
      <4> QED BY <4>1
    <3> QED BY <3>2, <3>3, <3>4
  <2>6. CASE Tick \/ UNCHANGED vars
    BY <2>6, <2>0 DEF Tick, vars
  <2> QED BY <2>1, <2>2, <2>3, <2>4, <2>5, <2>6 DEF Next
<1> QED BY <1>1, Invariance, PTL DEF Spec, OnlyProgressExtends

-----------------------------------------------------------------------------
(* The refinement.  The values of the detector's variables in a state of   *)
(* the watchdog, with the alarm expressed as the detector expresses it.    *)
Unacked == (watchdog.acked + 1)..watchdog.submitted

LEMMA AlarmIsDue ==
  IInv => /\ Outstanding(watchdog) <=> (watchdog.busy \/ Unacked # {})
          /\ Expired(watchdog, now)
               = (/\ ~watchdog.paused
                  /\ watchdog.busy \/ Unacked # {}
                  /\ Quiet = StallTimeout)
          /\ Quiet \in 0..StallTimeout
          /\ ~Outstanding(watchdog) => Quiet = 0
<1> SUFFICES ASSUME IInv
             PROVE  /\ Outstanding(watchdog)
                         <=> (watchdog.busy \/ Unacked # {})
                    /\ Expired(watchdog, now)
                         = (/\ ~watchdog.paused
                            /\ watchdog.busy \/ Unacked # {}
                            /\ Quiet = StallTimeout)
                    /\ Quiet \in 0..StallTimeout
                    /\ ~Outstanding(watchdog) => Quiet = 0
  OBVIOUS
<1>1. /\ watchdog.acked \in Int /\ watchdog.submitted \in Int
      /\ now \in Nat /\ progress \in Nat /\ progress <= now
  BY DEF IInv, TypeOK, Watchdog, Pts
<1>2. Outstanding(watchdog) <=> (watchdog.busy \/ Unacked # {})
  <2>1. Unacked # {} <=> watchdog.acked < watchdog.submitted
    BY <1>1 DEF Unacked
  <2> QED BY <2>1 DEF Outstanding
<1>3. /\ watchdog.deadline # 0 <=> Outstanding(watchdog)
      /\ Outstanding(watchdog) => watchdog.deadline = progress + StallTimeout
  BY DEF IInv, Inv, Armed, ArmedIffOutstanding, DeadlineFromProgress
<1>4. Quiet \in 0..StallTimeout /\ (~Outstanding(watchdog) => Quiet = 0)
  BY <1>1, StallTimeoutAssumption DEF Quiet
<1>5. Outstanding(watchdog) =>
        (Quiet = StallTimeout <=> now >= progress + StallTimeout)
  BY <1>1, StallTimeoutAssumption DEF Quiet
<1>6. Expired(watchdog, now)
        <=> (/\ ~watchdog.paused
             /\ Outstanding(watchdog)
             /\ Quiet = StallTimeout)
  BY <1>3, <1>5 DEF Expired
<1> QED BY <1>2, <1>4, <1>6 DEF Expired

LEMMA DetectorInit == Init => Detector!Init
<1> SUFFICES ASSUME Init PROVE Detector!Init
  OBVIOUS
<1>1. PICK b \in BOOLEAN : watchdog = NewWatchdog(b)
  BY DEF Init
<1>2. /\ watchdog.busy = FALSE /\ watchdog.paused = b
      /\ watchdog.acked = -1 /\ watchdog.submitted = -1
      /\ watchdog.deadline = 0
  BY <1>1 DEF NewWatchdog
<1>3. (watchdog.acked + 1)..watchdog.submitted = {}
  BY <1>2
<1>4. Quiet = 0 /\ Expired(watchdog, now) = FALSE
  BY <1>2 DEF Quiet, Outstanding, Expired
<1> QED BY <1>2, <1>3, <1>4 DEF Detector!Init

LEMMA DetectorStep ==
  IInv /\ IInv' /\ [Next]_vars => [Detector!Next]_(Detector!vars)
<1> SUFFICES ASSUME IInv, IInv', [Next]_vars
             PROVE  [Detector!Next]_(Detector!vars)
  OBVIOUS
<1> USE DEF Unacked
<1>0. /\ watchdog \in Watchdog /\ watchdog' \in Watchdog
      /\ now \in Nat /\ progress \in Nat /\ progress <= now
      /\ watchdog.acked \in Int /\ watchdog.submitted \in Int
      /\ -1 <= watchdog.acked
      /\ watchdog.submitted <= MaxPts
      /\ StallTimeout \in Nat \ {0}
      /\ Quiet \in 0..StallTimeout
      /\ MaxPts \in Nat
  <2>1. /\ watchdog \in Watchdog /\ watchdog' \in Watchdog
        /\ now \in Nat /\ progress \in Nat /\ progress <= now
        /\ watchdog.submitted <= MaxPts
    BY DEF IInv, TypeOK
  <2>2. /\ watchdog.acked \in Int /\ watchdog.submitted \in Int
        /\ -1 <= watchdog.acked
    BY <2>1 DEF Watchdog, Pts
  <2>3. Quiet \in 0..StallTimeout
    BY AlarmIsDue
  <2> QED BY <2>1, <2>2, <2>3, StallTimeoutAssumption, BoundsAssumption
<1>1. /\ Outstanding(watchdog) <=> (watchdog.busy \/ Unacked # {})
      /\ Expired(watchdog, now)
           = (/\ ~watchdog.paused
              /\ watchdog.busy \/ Unacked # {}
              /\ Quiet = StallTimeout)
  BY AlarmIsDue
<1>2. /\ (Outstanding(watchdog) <=> (watchdog.busy \/ Unacked # {}))'
      /\ Detector!RaiseAlarm
  <2>1. (/\ Outstanding(watchdog) <=> (watchdog.busy \/ Unacked # {})
         /\ Expired(watchdog, now)
             = (/\ ~watchdog.paused
                /\ watchdog.busy \/ Unacked # {}
                /\ Quiet = StallTimeout))'
    BY AlarmIsDue, PTL
  <2> QED BY <2>1 DEF Detector!RaiseAlarm, Detector!Waiting
<1>3. CASE SenderBegin
  <2>1. /\ ~watchdog.busy /\ watchdog'.busy = TRUE
        /\ watchdog'.acked = watchdog.acked
        /\ watchdog'.submitted = watchdog.submitted
        /\ watchdog'.paused = watchdog.paused
        /\ now' = now
        /\ progress' = IF Outstanding(watchdog) THEN progress ELSE now
    BY <1>0, <1>3 DEF SenderBegin, Begin, Watchdog
  <2>2. Quiet' = IF Outstanding(watchdog) THEN Quiet ELSE 0
    BY <1>0, <2>1 DEF Quiet, Outstanding
  <2>3. Detector!BeginWork
    BY <1>1, <2>1, <2>2 DEF Detector!BeginWork, Detector!Waiting
  <2> QED BY <1>2, <2>3 DEF Detector!Next
<1>4. CASE SenderSubmit
  <2>1. PICK pts \in 0..MaxPts : watchdog' = Submit(watchdog, pts)
    BY <1>4 DEF SenderSubmit
  <2>2. /\ watchdog.busy /\ watchdog'.busy = watchdog.busy
        /\ watchdog'.acked = watchdog.acked
        /\ watchdog'.submitted = IF pts > watchdog.submitted
                                 THEN pts ELSE watchdog.submitted
        /\ watchdog'.paused = watchdog.paused
        /\ now' = now /\ progress' = progress
    BY <1>0, <1>4, <2>1 DEF SenderSubmit, Submit, Watchdog
  <2>3. Quiet' = Quiet
    BY <1>0, <2>2 DEF Quiet, Outstanding
  <2>4. /\ Unacked' \in SUBSET (0..MaxPts)
        /\ Unacked' = Unacked \cup Unacked'
    BY <1>0, <2>2
  <2>5. Detector!Send
    BY <2>2, <2>3, <2>4 DEF Detector!Send
  <2> QED BY <1>2, <2>5 DEF Detector!Next
<1>5. CASE SenderEnd
  <2>1. /\ watchdog.busy /\ watchdog'.busy = FALSE
        /\ watchdog'.acked = watchdog.acked
        /\ watchdog'.submitted = watchdog.submitted
        /\ watchdog'.paused = watchdog.paused
        /\ now' = now /\ progress' = progress
    BY <1>0, <1>5 DEF SenderEnd, End, Watchdog
  <2>2. Quiet' = IF Unacked = {} THEN 0 ELSE Quiet
    BY <1>0, <1>1, <1>2, <2>1 DEF Quiet, Outstanding
  <2>3. Detector!EndWork
    BY <2>1, <2>2 DEF Detector!EndWork
  <2> QED BY <1>2, <2>3 DEF Detector!Next
<1>6. CASE ReceiverAck
  <2>1. PICK pts \in NoPts..(MaxPts + 1) :
          /\ watchdog' = Ack(watchdog, pts, now)
          /\ progress' = IF AckAccepted(watchdog, pts) THEN now ELSE progress
          /\ UNCHANGED now
    BY <1>6 DEF ReceiverAck
  <2>2. CASE ~AckAccepted(watchdog, pts)
    BY <2>1, <2>2 DEF Ack, Detector!vars, Quiet
  <2>3. CASE AckAccepted(watchdog, pts)
    <3>1. /\ watchdog'.busy = watchdog.busy
          /\ watchdog'.acked = pts
          /\ watchdog'.submitted = watchdog.submitted
          /\ watchdog'.paused = watchdog.paused
          /\ now' = now /\ progress' = now
      BY <1>0, <2>1, <2>3 DEF Ack, Rearmed, Watchdog
    <3>2. Quiet' = 0
      BY <1>0, <3>1 DEF Quiet
    <3>3. pts \in Unacked /\ Unacked' = {frame \in Unacked : frame > pts}
      BY <1>0, <2>3, <3>1 DEF AckAccepted
    <3>4. Detector!Acknowledge
      BY <3>1, <3>2, <3>3 DEF Detector!Acknowledge
    <3> QED BY <1>2, <3>4 DEF Detector!Next
  <2> QED BY <2>2, <2>3
<1>7. CASE ReceiverSetPaused
  <2>1. PICK b \in BOOLEAN :
          /\ watchdog' = SetPaused(watchdog, b, now)
          /\ progress' = IF watchdog.paused /\ ~b THEN now ELSE progress
          /\ UNCHANGED now
    BY <1>7 DEF ReceiverSetPaused
  <2>2. CASE watchdog.paused = b
    BY <1>0, <2>1, <2>2 DEF SetPaused, Detector!vars, Quiet, Watchdog
  <2>3. CASE watchdog.paused # b
    <3>1. /\ watchdog'.busy = watchdog.busy
          /\ watchdog'.acked = watchdog.acked
          /\ watchdog'.submitted = watchdog.submitted
          /\ watchdog'.paused = b
          /\ now' = now
          /\ progress' = IF b THEN progress ELSE now
      BY <1>0, <2>1, <2>3 DEF SetPaused, Rearmed, Watchdog
    <3>2. watchdog.paused \in BOOLEAN /\ b = ~watchdog.paused
      BY <1>0, <2>3 DEF Watchdog
    <3>3. Quiet' = IF watchdog.paused THEN 0 ELSE Quiet
      <4>1. CASE watchdog.paused
        <5>1. progress' = now
          BY <3>1, <3>2, <4>1
        <5>2. Quiet' = 0
          BY <1>0, <3>1, <5>1 DEF Quiet
        <5> QED BY <4>1, <5>2
      <4>2. CASE ~watchdog.paused
        <5>1. progress' = progress
          BY <3>1, <3>2, <4>2
        <5>2. Quiet' = Quiet
          BY <3>1, <5>1 DEF Quiet, Outstanding
        <5> QED BY <4>2, <5>2
      <4> QED BY <4>1, <4>2
    <3>4. Detector!SwitchPause
      BY <3>1, <3>2, <3>3 DEF Detector!SwitchPause
    <3> QED BY <1>2, <3>4 DEF Detector!Next
  <2> QED BY <2>2, <2>3
<1>8. CASE Tick
  <2>1. now' = now + 1 /\ watchdog' = watchdog /\ progress' = progress
    BY <1>8 DEF Tick
  <2>2. CASE Outstanding(watchdog) /\ Quiet < StallTimeout
    <3>1. Quiet' = Quiet + 1
      BY <1>0, <2>1, <2>2 DEF Quiet, Outstanding
    <3>2. Detector!Wait
      BY <1>1, <2>1, <2>2, <3>1 DEF Detector!Wait, Detector!Waiting
    <3> QED BY <1>2, <3>2 DEF Detector!Next
  <2>3. CASE ~(Outstanding(watchdog) /\ Quiet < StallTimeout)
    <3>1. Quiet' = Quiet
      BY <1>0, <2>1, <2>3 DEF Quiet, Outstanding
    <3>2. Expired(watchdog, now)' = Expired(watchdog, now)
      BY <1>1, <1>2, <2>1, <3>1 DEF Detector!RaiseAlarm, Detector!Waiting
    <3> QED BY <2>1, <3>1, <3>2 DEF Detector!vars
  <2> QED BY <2>2, <2>3
<1>9. CASE UNCHANGED vars
  BY <1>9 DEF vars, Detector!vars, Quiet
<1> QED BY <1>3, <1>4, <1>5, <1>6, <1>7, <1>8, <1>9 DEF Next

(* The deadline arithmetic of reverse_watchdog.h implements the clock-free *)
(* detector: an alarm exactly when the peer or the encoder made no         *)
(* progress for StallTimeout ticks of an unpaused session.                 *)
THEOREM WatchdogImplementsDetector == Spec => ImplementsDetector
BY DetectorInit, DetectorStep, Invariance, PTL
   DEF Spec, ImplementsDetector, Detector!Spec
=============================================================================
