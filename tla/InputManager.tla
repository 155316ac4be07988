----------------------------- MODULE InputManager -----------------------------
(***************************************************************************)
(* The input manager (app/src/input_manager.c) with the mouse and keyboard *)
(* of the SDK modes (app/src/mouse_sdk.c, app/src/keyboard_sdk.c): what the*)
(* user does becomes shortcuts, which act on the window or on the device,  *)
(* or messages for the device, each of which the controller may refuse.    *)
(* A press and its release are two events, and what the code makes of each *)
(* depends on the modifiers, the pause and the position of the moment.     *)
(***************************************************************************)
EXTENDS Integers, TLC

CONSTANTS
  Modes,          \* the combinations of the options: keyboard, mouse, autosync, legacy
  Buttons,        \* the mouse buttons, "left" among them
  Pri, Sec,       \* im->mouse_bindings, without and with Shift: [Buttons -> binding]
  Width, Height,  \* the frame
  Points,         \* the positions of the mouse, in the frame
  Keys,           \* the keys typed
  MaxInputs       \* bound: events

VARIABLES
  mode,           \* a member of Modes
  paused,         \* screen->paused
  disconnected,
  buttons,        \* im->mouse_buttons_state
  vfinger,        \* im->vfinger_down
  invert,         \* im->vfinger_invert_x, im->vfinger_invert_y
  held,           \* what the user holds, and what the code made of the press
  clickCount,     \* SDL's count of the successive clicks of each button, 2 for a double-click
  mods,           \* the modifiers held: "ctrl", "shift" and "mod", the shortcut modifier
  contacts,       \* the pointers in contact with the device's screen, and where
  androidKeys,    \* the keys pressed on the device
  clips,          \* the version of the clipboard of the computer and of the device
  pastes,         \* the clipboards a Ctrl+v was about and the ones it pasted
  crossings,      \* why the device may not hold what the user holds: a message was "refused", a
                  \* release was not treated as its press ("paused", "rerouted", "disconnected"),
                  \* or a button clicked in the gesture of another with the virtual finger ("shared")
  crashed,
  inputs

device == <<contacts, androidKeys>>
user == <<held, clickCount, mods>>
imVars == <<mode, paused, disconnected, buttons, vfinger, invert, user, device, clips, pastes,
            crossings, crashed, inputs>>

None == "none"
NoPoint == <<>>   \* the pointer is not in contact
Relative == mode.mouse = "relative"

Init ==
  /\ mode \in Modes
  /\ paused = FALSE /\ disconnected = FALSE /\ buttons = {}
  /\ vfinger = FALSE /\ invert = [x |-> FALSE, y |-> FALSE]
  /\ held = [i \in Buttons \cup Keys |-> None] /\ mods = {}
  /\ clickCount = [b \in Buttons |-> 0]
  /\ contacts = [p \in {"mouse", "generic", "virtual"} |-> NoPoint]
  /\ androidKeys = {}
  /\ clips = [computer |-> 0, device |-> 0] /\ pastes = {}
  /\ crossings = {} /\ crashed = FALSE /\ inputs = 0

\* An event of the user.
Event ==
  /\ inputs < MaxInputs /\ inputs' = inputs + 1
  /\ ~crashed /\ UNCHANGED mode

\* The user presses or releases a button or a key: the route is what the code makes of it.
Physically(input, down, route) ==
  /\ (held[input] = None) = down
  /\ held' = [held EXCEPT ![input] = IF down THEN route ELSE None]

Refused(sent, messages) == IF sent = messages THEN {} ELSE {"refused"}

\* The code keeps no memory of a press: its release goes the way of the moment.
Crossing(input, down, route, reasons) ==
  crossings' = crossings \cup reasons
                         \cup (IF down \/ held[input] = route THEN {}
                               ELSE {IF paused THEN "paused" ELSE "rerouted"})

-----------------------------------------------------------------------------
(* The mouse.                                                              *)

Inverse(point) ==
  <<IF invert'.x THEN Width - point[1] ELSE point[1], IF invert'.y THEN Height - point[2] ELSE point[2]>>

Binding(button) == IF "shift" \in mods THEN Sec[button] ELSE Pri[button]

\* What process_mouse_button() makes of an event: the first condition that holds.
ButtonRoute(button, border, clicks) ==
  IF disconnected THEN "ignored"
  ELSE IF mode.control /\ ~paused /\ Binding(button) # "click" THEN Binding(button)
  ELSE IF ~Relative /\ button = "left" /\ clicks = 2 /\ border THEN "resize"
  ELSE IF mode.mouse = None \/ paused THEN "ignored"
  ELSE "click"

VFingerNeedsCtrl(button, down) ==
  button = "left" /\ (vfinger = ~down) /\ mods \cap {"ctrl", "shift"} # {}

\* Ctrl and Shift matter to the press only.
ChangesVFinger(button, down) ==
  /\ button = "left"
  /\ IF down THEN ~vfinger /\ mods \cap {"ctrl", "shift"} # {} ELSE vfinger

\* The button is released for good before anything may ignore the event, and pressed once
\* nothing does.
Tracked(button, down, route) ==
  IF disconnected THEN buttons
  ELSE IF ~down THEN buttons \ {button}
  ELSE IF route = "click" THEN buttons \cup {button} ELSE buttons

\* The device's pointer follows a message that was not refused.
Touches(pointer, where, sent, before) == IF sent THEN [before EXCEPT ![pointer] = where] ELSE before

\* Every button moves the one finger of a gesture, whichever began it.
UsesFinger(button, down) == vfinger \/ ChangesVFinger(button, down)
Shared(button, down, route) ==
  IF route = "click" /\ UsesFinger(button, down) /\ buttons' \ {button} # {} THEN {"shared"} ELSE {}

\* The server lifts the pointer of the mouse with its last button, and a finger at once.
Lifts(pointer, down) == ~down /\ (pointer = "mouse" => buttons' = {})

\* The click and then the virtual finger, mirrored through the centre or an axis of the frame.
Click(button, down, point, sent) ==
  LET change == ChangesVFinger(button, down)
      pointer == IF UsesFinger(button, down) THEN "generic" ELSE "mouse"
      clicked == Touches(pointer, IF Lifts(pointer, down) THEN NoPoint ELSE point, "click" \in sent, contacts)
      virtual == change /\ ~Relative
  IN /\ invert' = IF virtual /\ down
                  THEN [x |-> ("ctrl" \in mods) # ("shift" \in mods), y |-> "ctrl" \in mods]
                  ELSE invert
     /\ vfinger' = IF virtual /\ "virtual" \in sent THEN down ELSE vfinger
     /\ contacts' = IF Relative THEN contacts
                    ELSE Touches("virtual", IF down THEN Inverse(point) ELSE NoPoint,
                                 virtual /\ "virtual" \in sent, clicked)
     /\ UNCHANGED androidKeys

Bound(binding, down, sent) ==
  /\ androidKeys' = IF binding \notin {"back", "home", "app_switch"} \/ mode.keyboard = None
                       \/ sent = {} THEN androidKeys
                    ELSE IF down THEN androidKeys \cup {binding} ELSE androidKeys \ {binding}
  /\ UNCHANGED <<invert, vfinger, contacts>>

\* A release has the count of its press.
Clicks(button, down, clicks) ==
  /\ IF down THEN clicks = 1 \/ clickCount[button] = 1 ELSE clicks = clickCount[button]
  /\ clickCount' = [clickCount EXCEPT ![button] = clicks]

MouseButton(button, down, point, border, clicks, sent) ==
  LET route == ButtonRoute(button, border, clicks)
  IN /\ Event /\ Physically(button, down, route) /\ Clicks(button, down, clicks)
     /\ buttons' = Tracked(button, down, route)
     /\ IF route = "click" THEN Click(button, down, point, sent)
        ELSE IF route \in {"ignored", "resize", "disabled"}
        THEN UNCHANGED <<vfinger, invert, device>>
        ELSE Bound(route, down, sent)
     /\ Crossing(button, down, route,
                 Refused(sent, {"click", "virtual"}) \cup Shared(button, down, route))
     /\ UNCHANGED <<paused, disconnected, mods, clips, pastes, crashed>>

\* Without a button pressed the mouse hovers, or its motion is not sent.
Motion(point, sent) ==
  /\ Event /\ mode.mouse # None /\ ~paused /\ ~disconnected
  /\ UNCHANGED invert
  /\ contacts' =
       IF Relative THEN contacts
       ELSE Touches("virtual", Inverse(point), vfinger /\ "virtual" \in sent,
                    Touches(IF vfinger THEN "generic" ELSE "mouse", point,
                            buttons # {} /\ "click" \in sent, contacts))
  /\ crossings' = crossings \cup Refused(sent, {"click", "virtual"})
  /\ UNCHANGED <<paused, disconnected, buttons, vfinger, user, androidKeys, clips, pastes,
                 crashed>>

\* The guard looks at the keyboard, and the body uses the mouse.
Wheel ==
  /\ Event /\ mode.keyboard # None /\ ~paused /\ ~disconnected
  /\ crashed' = (mode.mouse = None)
  /\ UNCHANGED <<paused, disconnected, buttons, vfinger, invert, user, device, clips, pastes,
                 crossings>>

-----------------------------------------------------------------------------
(* The keyboard.                                                           *)

IsShortcut == "mod" \in mods

\* The shortcuts that press a key of the device while they are held, those of the device that act
\* once, and those of the window.
KeyShortcuts == [h |-> "home", b |-> "back", s |-> "app_switch", m |-> "menu", p |-> "power"]
VolumeShortcuts == [up |-> "volume_up", down |-> "volume_down"]
DeviceShortcuts == KeyShortcuts @@ VolumeShortcuts
ShortcutKeys == {DeviceShortcuts[k] : k \in DOMAIN DeviceShortcuts}
WindowKeys == {"z", "left", "right", "f", "w", "g", "i", "q"}
OfWindow(key) == key \in WindowKeys \/ (key \in {"up", "down"} /\ "shift" \in mods)
OnceKeys == {"o", "c", "x", "n", "r", "k", "t"}

\* A paste is Ctrl+v, which synchronises the clipboard, or the shortcut MOD+v, which is not
\* accompanied by a key.
KeyRoute(key) ==
  IF key = "f11" \/ (IsShortcut /\ OfWindow(key)) THEN "window"
  ELSE IF mode.keyboard = None \/ paused \/ (IsShortcut /\ disconnected) THEN "ignored"
  ELSE IF ~IsShortcut THEN "key"
  ELSE IF key \in DOMAIN DeviceShortcuts /\ "shift" \notin mods THEN DeviceShortcuts[key]
  ELSE IF key \in OnceKeys \cup {"v"} THEN "once"
  ELSE "ignored"

AndroidKey(key, down, accepted) ==
  androidKeys' = IF ~accepted THEN androidKeys
                 ELSE IF down THEN androidKeys \cup {key} ELSE androidKeys \ {key}

\* Ctrl+v is not injected if the device could not be given the clipboard.
KeyIf(synced) == synced

\* Ctrl+v: the clipboard, then the key; or, in legacy mode, the text of the clipboard alone.
CtrlV(sent) ==
  LET synced == "clipboard" \in sent
  IN IF mode.legacy
     THEN /\ pastes' = IF synced THEN pastes \cup {<<clips.computer, clips.computer>>} ELSE pastes
          /\ UNCHANGED <<androidKeys, clips>>
     ELSE /\ clips' = IF synced THEN [clips EXCEPT !.device = clips.computer] ELSE clips
          /\ AndroidKey("v", TRUE, KeyIf(synced) /\ "key" \in sent)
          /\ pastes' = IF KeyIf(synced) /\ "key" \in sent
                       THEN pastes \cup {<<clips.computer, clips'.device>>} ELSE pastes

\* MOD+v sets the device's clipboard and pastes in one message.
ModV(sent) ==
  /\ clips' = IF "clipboard" \in sent /\ ~mode.legacy /\ "shift" \notin mods
              THEN [clips EXCEPT !.device = clips.computer] ELSE clips
  /\ pastes' = IF "clipboard" \in sent THEN pastes \cup {<<clips.computer, clips.computer>>} ELSE pastes
  /\ UNCHANGED androidKeys

Key(key, down, repeat, sent) ==
  LET route == KeyRoute(key)
      isCtrlV == key = "v" /\ down /\ ~repeat /\ "ctrl" \in mods /\ "shift" \notin mods
  IN /\ Event
     /\ IF repeat THEN down /\ held[key] # None /\ UNCHANGED held ELSE Physically(key, down, route)
     /\ paused' = IF route = "window" /\ key = "z" /\ down /\ ~repeat
                  THEN "shift" \notin mods ELSE paused
     /\ IF route = "key" /\ isCtrlV /\ mode.autosync THEN CtrlV(sent)
        ELSE IF route = "key"
        THEN AndroidKey(key, down, "key" \in sent) /\ UNCHANGED <<clips, pastes>>
        ELSE IF route = "once" /\ key = "v" /\ down /\ ~repeat THEN ModV(sent)
        ELSE IF route \in ShortcutKeys /\ (repeat => key \in DOMAIN VolumeShortcuts)
        THEN AndroidKey(route, down, "key" \in sent) /\ UNCHANGED <<clips, pastes>>
        ELSE UNCHANGED <<androidKeys, clips, pastes>>
     /\ Crossing(key, down, route, Refused(sent, {"clipboard", "key"}))
     /\ UNCHANGED <<disconnected, buttons, vfinger, invert, clickCount, mods, contacts, crashed>>

-----------------------------------------------------------------------------
\* A modifier is pressed or released.
Modifier(m) ==
  /\ Event
  /\ mods' = IF m \in mods THEN mods \ {m} ELSE mods \cup {m}
  /\ UNCHANGED <<paused, disconnected, buttons, vfinger, invert, held, clickCount, device, clips, pastes,
                 crossings, crashed>>

\* Something is copied on the computer.
Copy ==
  /\ Event /\ clips' = [clips EXCEPT !.computer = @ + 1]
  /\ UNCHANGED <<paused, disconnected, buttons, vfinger, invert, user, device, pastes, crossings,
                 crashed>>

\* From then on only the shortcuts of the window are handled.
Disconnected ==
  /\ Event /\ ~disconnected /\ disconnected' = TRUE
  /\ crossings' = crossings \cup {"disconnected"}
  /\ UNCHANGED <<paused, buttons, vfinger, invert, user, device, clips, pastes, crashed>>

Next ==
  \/ \E button \in Buttons, down, border \in BOOLEAN, point \in Points, clicks \in {1, 2} :
       \E sent \in SUBSET {"click", "virtual"} : MouseButton(button, down, point, border, clicks, sent)
  \/ \E point \in Points, sent \in SUBSET {"click", "virtual"} : Motion(point, sent)
  \/ Wheel
  \/ \E key \in Keys, down, repeat \in BOOLEAN, sent \in SUBSET {"clipboard", "key"} :
       Key(key, down, repeat, sent)
  \/ \E m \in {"ctrl", "shift", "mod"} : Modifier(m)
  \/ Copy \/ Disconnected

Spec == Init /\ [][Next]_imVars

-----------------------------------------------------------------------------
\* However the modifiers change between a press and its release, and whatever the pause swallows,
\* no button stays pressed for the code that the user released; and as long as every release was
\* treated as its press, and no other button was clicked in a gesture of the virtual finger, the
\* device holds what the user holds, and the virtual finger is where the gesture began mirroring
\* it.
HeldTogether ==
  /\ ~disconnected => \A b \in buttons : held[b] # None
  /\ crossings = {} /\ mode.mouse = "sdk" =>
       LET clicking == \E b \in Buttons : held[b] = "click"
       IN /\ clicking = (contacts["mouse"] # NoPoint \/ contacts["generic"] # NoPoint)
          /\ vfinger = (contacts["virtual"] # NoPoint)
          /\ vfinger = (contacts["generic"] # NoPoint)
          /\ vfinger => contacts["virtual"] =
                          <<IF invert.x THEN Width - contacts["generic"][1] ELSE contacts["generic"][1],
                            IF invert.y THEN Height - contacts["generic"][2] ELSE contacts["generic"][2]>>

\* A paste never pastes an older clipboard of the device, even if a message is refused.
PastesTheComputersClipboard == \A paste \in pastes : paste[1] = paste[2]
=============================================================================
