------------------------------ MODULE Orientation ------------------------------
(***************************************************************************)
(* The orientation of the window's content: how the orientations compose   *)
(* (app/src/options.h, app/src/options.c), how a frame is drawn under one  *)
(* and how a click on the window becomes a point of the frame              *)
(* (app/src/screen.c), while the shortcuts turn and flip what is shown     *)
(* (app/src/input_manager.c).  One point of the frame is followed; scaling *)
(* is left out: the content rectangle has the size of the content.         *)
(***************************************************************************)
EXTENDS Integers

CONSTANTS FrameSizes   \* the sizes <<w, h>> of the frames

ASSUME FrameSizesAssumption == FrameSizes \subseteq Nat \X Nat

VARIABLES
  orientation,   \* 0..7: the bit 4 flips, before 90 degrees clockwise times the others
  frameSize,     \* <<w, h>>
  pixel,         \* the point of the frame that is followed, <<x, y>>
  seen           \* where the user sees it, in the content of the window

orientationVars == <<orientation, frameSize, pixel, seen>>

Orientations == 0..7
PointsOf(size) == (0..size[1]) \X (0..size[2])

-----------------------------------------------------------------------------
(* The orientations.                                                       *)

IsMirror(o) == o >= 4
Rotation(o) == IF o >= 4 THEN o - 4 ELSE o
IsSwap(o) == Rotation(o) \in {1, 3}

Encoded(mirror, rotation) == (IF mirror THEN 4 ELSE 0) + (rotation % 4)

\* The rotations simply add up.
ApplyUncompensated(src, transform) ==
  Encoded(IsMirror(src) # IsMirror(transform), Rotation(src) + Rotation(transform))

\* sc_orientation_apply(): a flip after a quarter turn is half a turn off a flip before it.
Apply(src, transform) ==
  Encoded(IsMirror(src) # IsMirror(transform),
          Rotation(src) + Rotation(transform)
            + (IF IsSwap(src) /\ IsMirror(transform) THEN 2 ELSE 0))

\* get_oriented_size()
Oriented(size, o) == IF IsSwap(o) THEN <<size[2], size[1]>> ELSE size

-----------------------------------------------------------------------------
(* What is drawn.  The points are those of a picture of a given size.      *)

Flipped(p, size) == <<size[1] - p[1], p[2]>>

\* Clockwise, by a number of quarter turns.
Turned(p, size, turns) ==
  CASE turns = 0 -> p
    [] turns = 1 -> <<size[2] - p[2], p[1]>>
    [] turns = 2 -> <<size[1] - p[1], size[2] - p[2]>>
    [] turns = 3 -> <<p[2], size[1] - p[1]>>

\* sc_screen_render(): the texture is flipped, then turned.
Drawn(p, size, o) ==
  Turned(IF IsMirror(o) THEN Flipped(p, size) ELSE p, size, Rotation(o))

\* sc_screen_convert_window_to_frame_coords(), in the content of the given size.
FrameCoords(p, content, o) ==
  LET x == p[1]  y == p[2]  w == content[1]  h == content[2]
  IN CASE o = 0 -> <<x, y>>
       [] o = 1 -> <<y, w - x>>
       [] o = 2 -> <<w - x, h - y>>
       [] o = 3 -> <<h - y, x>>
       [] o = 4 -> <<w - x, y>>
       [] o = 5 -> <<h - y, w - x>>
       [] o = 6 -> <<x, h - y>>
       [] OTHER -> <<y, x>>

-----------------------------------------------------------------------------
\* --display-orientation may be any.
Init ==
  /\ orientation \in Orientations /\ frameSize \in FrameSizes
  /\ pixel \in PointsOf(frameSize)
  /\ seen = Drawn(pixel, frameSize, orientation)

\* MOD+left, MOD+right, MOD+shift+left or right, MOD+shift+up or down.
Shortcuts == {1, 3, 4, 6}

\* apply_orientation_transform(), sc_screen_set_orientation(): the user sees the content, as it is
\* shown, flipped or turned.
Transform(t) ==
  /\ orientation' = Apply(orientation, t)
  /\ seen' = Drawn(seen, Oriented(frameSize, orientation), t)
  /\ UNCHANGED <<frameSize, pixel>>

\* sc_screen_apply_frame(): the size of the frames changes.
NewFrameSize ==
  /\ frameSize' \in FrameSizes \ {frameSize} /\ pixel' \in PointsOf(frameSize')
  /\ seen' = Drawn(pixel', frameSize', orientation)
  /\ UNCHANGED orientation

Next == (\E t \in Shortcuts : Transform(t)) \/ NewFrameSize

Spec == Init /\ [][Next]_orientationVars

-----------------------------------------------------------------------------
\* Whatever the user turns and flips, in any order, a click on what is shown lands on the point
\* of the frame that is shown there, within the content.
ClickLandsOnPixel ==
  /\ seen \in PointsOf(Oriented(frameSize, orientation))
  /\ FrameCoords(seen, Oriented(frameSize, orientation), orientation) = pixel
=============================================================================
