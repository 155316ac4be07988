------------------------- MODULE MCReverseDisplayEnds -------------------------
(***************************************************************************)
(* The ends of two sessions of the host, for TLC.  In the first, at the    *)
(* constants of the .cfg, the capture and the audio threads both send, so  *)
(* either may hold send_mutex, blocked on the full socket of a phone that  *)
(* reads no more, while the other waits for it.  In the second (the        *)
(* instance Video) the phone pauses, touches, stops, and reads in front of *)
(* a captured frame.  video chooses the one a behaviour runs.              *)
(***************************************************************************)
EXTENDS ReverseDisplay

VARIABLE video

Video == INSTANCE ReverseDisplay WITH
           ReverseAudio <- FALSE, MaxFrames <- 1,
           PhoneTypes <- {"PAUSE_VIDEO", "TOUCH_DOWN", "STOP_SESSION"}

EndsInit == video \in BOOLEAN /\ Init

\* The phone of the first session reads the configuration and no more.
ReadsConfiguration ==
  Len(wire') < Len(wire) => Head(wire).packet.kind = "config"

EndsNext ==
  \/ ~video /\ Next /\ ReadsConfiguration /\ UNCHANGED video
  \/ video /\ Video!Next /\ UNCHANGED video

\* The fairness of ReverseDisplay, in both sessions.
EndsSpec ==
  /\ EndsInit /\ [][EndsNext]_<<video, vars>>
  /\ WF_vars(IF video THEN Video!MainThread ELSE MainThread)
  /\ WF_vars(IF video THEN Video!CaptureThread ELSE CaptureThread)
  /\ WF_vars(IF video THEN Video!AudioThread ELSE AudioThread)
  /\ WF_vars(IF video THEN Video!Handling ELSE Handling)
  /\ WF_vars(IF video THEN Video!Tick ELSE Tick)
=============================================================================
