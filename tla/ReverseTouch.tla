----------------------------- MODULE ReverseTouch -----------------------------
(***************************************************************************)
(* The gestures of a phone and the desktop they end up on: the sessions of *)
(* ReverseDisplay as its input thread sees them, with every contact, the   *)
(* mouse fallback, and the Windows calls that fail.                        *)
(*                                                                         *)
(* The phone is Android, which reports gestures in order: the first finger *)
(* goes DOWN, more fingers POINTER_DOWN, all but the last POINTER_UP, the  *)
(* last UP (ReverseDisplayActivity.onTouch sends one message for each).    *)
(* Its messages may be lost: DeviceMessageSender drops input when its      *)
(* queue is full or the session pauses.                                    *)
(***************************************************************************)
EXTENDS TouchOps

CONSTANTS
  MaxFingers,     \* bound: fingers on the phone at a time
  Lossy,          \* messages of the phone may be lost
  TouchFails,     \* InjectTouchInput may fail
  MouseFails,     \* SendInput may fail
  Unmapped        \* messages may come before the desktop's size is known

ASSUME GestureAssumption ==
  /\ MaxFingers \in Nat
  /\ {Lossy, TouchFails, MouseFails, Unmapped} \subseteq BOOLEAN

VARIABLES
  touch,      \* the record of TouchOps
  session,    \* what stopped and video_paused allow, and the thread's end
  fingers     \* on the phone

vars == <<touch, session, fingers>>

(* InitializeTouchInjection may have failed.                               *)
Init ==
  /\ touch \in {NoTouch(FALSE), NoTouch(TRUE)}
  /\ session = "live"
  /\ fingers = {}

Outcomes == {o \in Outcome : /\ o.touch \/ TouchFails
                             /\ o.mouse \/ MouseFails}

Mappings == IF Unmapped THEN BOOLEAN ELSE {TRUE}

(* on_touch: only a live session injects, but the fingers still move.      *)
Received == session = "live" /\ UNCHANGED session

Ignored ==
  /\ session # "live" \/ Lossy
  /\ session # "ended"
  /\ UNCHANGED <<touch, session>>

Down(pointer) ==
  /\ fingers = {} /\ MaxFingers > 0
  /\ fingers' = {pointer}
  /\ \/ Ignored
     \/ /\ Received
        /\ \E mapped \in Mappings, cancelled \in Outcomes, outcome \in Outcomes :
             touch' = OnDown(touch, pointer, mapped, cancelled, outcome)

PointerDown(pointer) ==
  /\ fingers # {} /\ pointer \notin fingers
  /\ Cardinality(fingers) < MaxFingers
  /\ fingers' = fingers \cup {pointer}
  /\ \/ Ignored
     \/ /\ Received
        /\ \E mapped \in Mappings, outcome \in Outcomes :
             touch' = OnPointerDown(touch, pointer, mapped, outcome)

Move(pointer) ==
  /\ pointer \in fingers
  /\ Received
  /\ \E mapped \in Mappings, outcome \in Outcomes :
       touch' = OnMove(touch, pointer, mapped, outcome)
  /\ UNCHANGED fingers

(* POINTER_UP, or UP of the last finger: the host handles both alike.      *)
Up(pointer) ==
  /\ pointer \in fingers
  /\ fingers' = fingers \ {pointer}
  /\ \/ Ignored
     \/ /\ Received
        /\ \E outcome \in Outcomes : touch' = OnUp(touch, pointer, outcome)

(* Android takes the gesture over.                                         *)
Cancel ==
  /\ fingers # {}
  /\ fingers' = {}
  /\ \/ Ignored
     \/ /\ Received
        /\ \E outcome \in Outcomes : touch' = CancelTouches(touch, outcome)

(* A wheel movement of a browser receiver takes over from touch.           *)
Scroll ==
  /\ Received
  /\ \E outcome \in Outcomes : touch' = CancelTouches(touch, outcome)
  /\ UNCHANGED fingers

Resume ==
  /\ session = "paused"
  /\ session' = "live"
  /\ UNCHANGED <<touch, fingers>>

(* The host is told to stop: main stores stopped and interrupts the socket.*)
HostStops ==
  /\ session \in {"live", "paused"}
  /\ session' = "stopped"
  /\ UNCHANGED <<touch, fingers>>

(* PAUSE_VIDEO, STOP_SESSION and the end of the input thread all cancel.   *)
Leaves ==
  /\ \/ session \in {"live", "paused"} /\ session' \in {"paused", "stopped"}
     \/ session # "ended" /\ session' = "ended"
  /\ \E outcome \in Outcomes : touch' = CancelTouches(touch, outcome)
  /\ UNCHANGED fingers

Ended == session = "ended" /\ UNCHANGED vars

Next ==
  \/ \E pointer \in Pointers :
       Down(pointer) \/ PointerDown(pointer) \/ Move(pointer) \/ Up(pointer)
  \/ Cancel \/ Scroll \/ Resume \/ HostStops \/ Leaves \/ Ended

Spec == Init /\ [][Next]_vars

-----------------------------------------------------------------------------
TypeOK ==
  /\ touch \in TouchState
  /\ session \in {"live", "paused", "stopped", "ended"}
  /\ fingers \in SUBSET Pointers

(* The contact array never overflows, and the primary contact is always in *)
(* it (reverse_add_touch, reverse_remove_touch).                           *)
ContactsConsistent ==
  /\ Cardinality(touch.contacts) <= MaxTouches
  /\ touch.primary # NoPrimary => touch.primary \in touch.contacts

(* While touches are injected natively, Windows holds every contact the    *)
(* host tracks, and no other one unless a call failed: whatever messages   *)
(* were lost, every frame names all contacts and the next cancel finds all.*)
NativeContactsMatch ==
  ~touch.fallback =>
    /\ touch.contacts \subseteq touch.pressed
    /\ ~TouchFails => touch.pressed = touch.contacts

(* The host knows whether its mouse fallback holds the left button: it     *)
(* believes so only if it does, and always if no call failed.              *)
ButtonTracked ==
  /\ touch.active => touch.button
  /\ ~MouseFails => touch.button = touch.active

(* Nothing stays pressed on the desktop of a paused or ended session: the  *)
(* native contacts, and the mouse fallback (doc/reverse-display-           *)
(* validation.md:57, "Touch contacts and mouse fallback release").         *)
Away == session \in {"paused", "ended"}

TouchReleased == Away /\ ~touch.fallback => touch.pressed = {}
MouseReleased == Away => ~touch.button
=============================================================================
