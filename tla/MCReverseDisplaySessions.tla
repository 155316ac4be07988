----------------------- MODULE MCReverseDisplaySessions -----------------------
(***************************************************************************)
(* Two sessions of the host, for TLC: video and audio on one socket, at the*)
(* constants of the .cfg, and one with the commands of the phone (the      *)
(* instance Commands).  commands chooses the one a behaviour runs.         *)
(***************************************************************************)
EXTENDS ReverseDisplay

VARIABLE commands

Commands == INSTANCE ReverseDisplay WITH
              ReverseAudio <- FALSE, MaxAudio <- 0,
              PhoneTypes <- {"TOUCH_DOWN", "PAUSE_VIDEO", "RESUME_VIDEO", "STOP_SESSION",
                             "MALFORMED", "AUDIO_ENABLE"}

SessionsInit == commands \in BOOLEAN /\ Init

SessionsNext ==
  \/ ~commands /\ Next /\ UNCHANGED commands
  \/ commands /\ Commands!Next /\ UNCHANGED commands

SessionsSpec == SessionsInit /\ [][SessionsNext]_<<commands, vars>>
=============================================================================
