---------------------------- MODULE MCReverseTouch ----------------------------
(***************************************************************************)
(* Touch injection under two assumptions, for TLC.  The module EXTENDed has*)
(* the constants of the .cfg; the instance One has one finger, an          *)
(* InjectTouchInput that may fail and a SendInput that works.  oneFinger   *)
(* chooses the one a behaviour runs, the other stays in its initial state. *)
(***************************************************************************)
EXTENDS ReverseTouch, TLC

CONSTANTS p1, p2, p3

VARIABLES oneFinger, touch1, session1, fingers1

oneVars == <<touch1, session1, fingers1>>

MCPointers == {p1, p2, p3}

\* Pointers are only compared, and Init, Next and the invariants treat all alike.
Symmetry == Permutations(MCPointers)

One == INSTANCE ReverseTouch WITH
         MaxFingers <- 1, TouchFails <- TRUE, MouseFails <- FALSE,
         touch <- touch1, session <- session1, fingers <- fingers1

TouchInit ==
  /\ oneFinger \in BOOLEAN /\ Init /\ One!Init
  /\ IF oneFinger THEN touch = NoTouch(FALSE) ELSE touch1 = NoTouch(FALSE)

TouchNext ==
  \/ ~oneFinger /\ Next /\ UNCHANGED <<oneFinger, oneVars>>
  \/ oneFinger /\ One!Next /\ UNCHANGED <<oneFinger, vars>>

TouchSpec == TouchInit /\ [][TouchNext]_<<oneFinger, oneVars, vars>>

\* One finger at a time never leaves the left button pressed in a paused or ended session, when
\* SendInput works and whenever the fallback to the mouse starts (reverse_cancel_touches()).
OneFingerReleased == One!MouseReleased
=============================================================================
