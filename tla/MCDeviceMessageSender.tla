------------------------ MODULE MCDeviceMessageSender ------------------------
(***************************************************************************)
(* The phone's control queue in two situations, for TLC: every kind of     *)
(* message with one finger and a sender that may end, and two fingers with *)
(* rapid visibility changes alone.  gestures chooses the one a behaviour   *)
(* runs.                                                                   *)
(***************************************************************************)
EXTENDS DeviceMessageSender

CONSTANTS p1, p2

VARIABLE gestures

SenderInit == gestures \in BOOLEAN /\ Init

TwoFingers ==
  \/ Start \/ SendVisibility \/ SendStop \/ Thread
  \/ \E type \in TouchTypes, pointer \in Pointers : SendTouch(type, pointer)

SenderNext ==
  /\ IF gestures THEN TwoFingers /\ thread' # "ended"
     ELSE Next /\ fingers' \subseteq {p1} /\ acked'["AUDIO_ACK"] <= 0
  /\ UNCHANGED gestures

\* The fairness of DeviceMessageSender, in both.
SenderSpec ==
  /\ SenderInit /\ [][SenderNext]_<<gestures, vars>>
  /\ WF_vars(Thread) /\ WF_vars(Start)
=============================================================================
