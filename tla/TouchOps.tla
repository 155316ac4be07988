------------------------------- MODULE TouchOps -------------------------------
(***************************************************************************)
(* What one touch message does to the desktop, app/src/reverse_display.c:  *)
(* the touch fields of struct reverse_display_state, and what Windows was  *)
(* told with them.  Only the input thread uses them, so one operation is   *)
(* one step.  Positions and pressures are abstracted; with them, which     *)
(* pointer the mouse fallback follows (mouse_fallback_pointer_id), as it   *)
(* only chooses a position.                                                *)
(***************************************************************************)
EXTENDS FiniteSets, Integers

CONSTANTS
  Pointers,       \* Android pointer ids that fit in a UINT32
  NoPrimary,      \* REVERSE_DISPLAY_NO_PRIMARY
  MaxTouches      \* REVERSE_DISPLAY_MAX_TOUCHES

ASSUME TouchAssumption ==
  /\ IsFiniteSet(Pointers) /\ NoPrimary \notin Pointers
  /\ MaxTouches \in Nat \ {0}

TouchState == [contacts : SUBSET Pointers,            \* touch_contacts
               primary  : Pointers \cup {NoPrimary},  \* primary_pointer_id
               fallback : BOOLEAN,                    \* use_mouse_fallback
               active   : BOOLEAN,                    \* mouse_fallback_active
               pressed  : SUBSET Pointers,  \* contacts Windows holds down
               button   : BOOLEAN]          \* Windows' left mouse button

NoTouch(fallback) == [contacts |-> {}, primary |-> NoPrimary,
                      fallback |-> fallback, active |-> FALSE,
                      pressed |-> {}, button |-> FALSE]

(* What InjectTouchInput and SendInput report for one message.             *)
Outcome == [touch : BOOLEAN, mouse : BOOLEAN]

Forget(s) == [s EXCEPT !.contacts = {}, !.primary = NoPrimary]

(* reverse_inject_mouse_frame(): the state and whether it succeeded.  The  *)
(* primary contact lifts the button; anything else first presses it.       *)
MouseFrame(s, pointer, flag, outcome) ==
  IF pointer = s.primary /\ flag = "UP"
  THEN [ok    |-> ~s.active \/ outcome.mouse,
        state |-> [s EXCEPT !.active = FALSE,
                            !.button = @ /\ ~(s.active /\ outcome.mouse)]]
  ELSE IF ~s.active
  THEN [ok    |-> outcome.mouse,
        state |-> [s EXCEPT !.active = outcome.mouse,
                            !.button = @ \/ outcome.mouse]]
  ELSE [ok    |-> s.primary \in s.contacts /\ flag = "UPDATE" => outcome.mouse,
        state |-> s]

(* Windows takes a frame only if every contact in it was down before, but  *)
(* for the one that goes down with it.                                     *)
FrameAccepted(s, pointer, flag, outcome) ==
  /\ outcome.touch
  /\ IF flag = "DOWN"
     THEN pointer \notin s.pressed /\ s.contacts \ {pointer} \subseteq s.pressed
     ELSE s.contacts \subseteq s.pressed

(* reverse_inject_touch_frame(): a rejected frame switches to the mouse    *)
(* for good.                                                               *)
TouchFrame(s, pointer, flag, outcome) ==
  IF ~s.fallback /\ FrameAccepted(s, pointer, flag, outcome)
  THEN [ok    |-> TRUE,
        state |-> [s EXCEPT !.pressed = IF flag = "UP" THEN @ \ {pointer}
                                        ELSE @ \cup s.contacts]]
  ELSE MouseFrame([s EXCEPT !.fallback = TRUE], pointer, flag, outcome)

(* reverse_cancel_touches()                                                *)
CancelTouchesSilently(s, outcome) == Forget([s EXCEPT !.active = FALSE])

CancelTouchesActive(s, outcome) ==
  IF s.contacts = {} THEN s
  ELSE Forget([s EXCEPT !.button = @ /\ ~(s.fallback /\ s.active /\ outcome.mouse),
                        !.pressed = IF s.fallback THEN @ ELSE @ \ s.contacts])

CancelTouches(s, outcome) ==
  IF s.contacts = {} THEN s
  ELSE IF s.fallback
  THEN Forget([s EXCEPT !.active = FALSE,
                        !.button = @ /\ ~(s.active /\ outcome.mouse)])
  ELSE Forget([s EXCEPT !.pressed =
                 IF outcome.touch /\ s.contacts \subseteq @
                 THEN @ \ s.contacts ELSE @])

(* The end of reverse_inject_touch(): a frame that cannot be injected      *)
(* forgets every contact, a lifted contact is removed.                     *)
InjectedKeepsLifted(s, pointer, flag, outcome) ==
  LET frame == TouchFrame(s, pointer, flag, outcome)
  IN  IF frame.ok THEN frame.state ELSE Forget(frame.state)

Injected(s, pointer, flag, outcome) ==
  LET frame == TouchFrame(s, pointer, flag, outcome)
  IN  IF ~frame.ok THEN Forget(frame.state)
      ELSE IF flag # "UP" THEN frame.state
      ELSE [frame.state EXCEPT
              !.contacts = @ \ {pointer},
              !.primary  = IF @ = pointer THEN NoPrimary ELSE @]

RoomForOneMore(s) == Cardinality(s.contacts) <= MaxTouches
Room(s) == Cardinality(s.contacts) < MaxTouches

Added(s, pointer) == [s EXCEPT !.contacts = @ \cup {pointer}]

(* The messages.  mapped: the position could be mapped to the desktop,     *)
(* whose size is not known before the capture has started.  A DOWN cancels *)
(* first, with an outcome of its own.                                      *)
OnDown(s, pointer, mapped, cancelled, outcome) ==
  LET clean == CancelTouches(s, cancelled)
  IN  IF ~mapped \/ ~Room(clean) THEN clean
      ELSE Injected([Added(clean, pointer) EXCEPT !.primary = pointer],
                    pointer, "DOWN", outcome)

OnPointerDown(s, pointer, mapped, outcome) ==
  IF ~mapped \/ (pointer \notin s.contacts /\ ~Room(s)) THEN s
  ELSE Injected(Added(s, pointer), pointer, "DOWN", outcome)

OnMove(s, pointer, mapped, outcome) ==
  IF ~mapped \/ pointer \notin s.contacts THEN s
  ELSE Injected(s, pointer, "UPDATE", outcome)

OnUp(s, pointer, outcome) ==
  IF pointer \notin s.contacts THEN s
  ELSE Injected(s, pointer, "UP", outcome)
=============================================================================
