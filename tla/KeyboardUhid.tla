----------------------------- MODULE KeyboardUhid -----------------------------
(***************************************************************************)
(* The physical keyboard simulated over UHID (app/src/uhid/                *)
(* keyboard_uhid.c, app/src/hid/hid_keyboard.c): every key event becomes a *)
(* report of all the pressed keys.  CapsLock has a state on both sides:    *)
(* the computer's, which SDL keeps, and Android's, which the keyboard      *)
(* guesses (device_mod) and which Android's LED reports tell later.  The   *)
(* queue of the controller may refuse any report, which is only logged.    *)
(***************************************************************************)
EXTENDS Naturals, Sequences, FiniteSets

CONSTANTS
  Keys,        \* the scancodes of the keys with no state, below SC_HID_KEYBOARD_KEYS
  Modifiers,   \* the modifier keys: their state is in every report, and is not a key of it
  MaxKeys,     \* SC_HID_KEYBOARD_MAX_KEYS
  MaxKeyEvents \* bound: key events

VARIABLES
  held,        \* the keys physically pressed
  hostCaps,    \* SDL_GetModState() & SC_MOD_CAPS
  hidKeys,     \* sc_hid_keyboard.keys: the pressed keys, of which modifiers are none
  deviceMod,   \* kb->device_mod & SC_MOD_CAPS
  wire,        \* the reports on their way to Android
  leds,        \* the LED reports on their way to the main thread
  devKeys,     \* the keys pressed for Android
  devMods,
  devCaps,     \* CapsLock for Android
  behind,      \* history: the report of the last key event was refused
  synced,      \* history: a key was typed with CapsLock at rest, and CapsLock not pressed since
  keyEvents

kbVars == <<held, hostCaps, hidKeys, deviceMod, wire, leds, devKeys, devMods, devCaps, behind,
            synced, keyEvents>>

Caps == "caps"
Scancodes == Keys \cup {Caps}
RollOver == {"rollover"}

\* sc_hid_keyboard_generate_input_from_key(): more keys than a report holds make a phantom state.
Pressed(keys) == IF Cardinality(keys) > MaxKeys THEN RollOver ELSE keys

KeyReport(keys, mods) == [keys |-> Pressed(keys), mods |-> mods]

\* sc_hid_keyboard_generate_input_from_mods(): CapsLock alone.
CapsReport == [keys |-> {Caps}, mods |-> {}]

Init ==
  /\ held = {} /\ hostCaps \in BOOLEAN /\ hidKeys = {} /\ deviceMod = FALSE
  /\ wire = <<>> /\ leds = <<>>
  /\ devKeys = {} /\ devMods = {} /\ devCaps = FALSE
  /\ behind = FALSE /\ synced = FALSE /\ keyEvents = 0

\* sc_keyboard_uhid_send_input(): sc_controller_push_msg() takes the report, or refuses it.
SendInput(report) == {report, <<>>}

SyncLast(sync, report) == report \o sync

\* The report that flips Android's CapsLock comes before the report of the key.
SyncFirst(sync, report) == sync \o report

\* Both sides of CapsLock are at rest, and the guess is right.
CapsAtRest ==
  wire = <<>> /\ leds = <<>> /\ deviceMod = devCaps /\ Caps \notin devKeys \cup hidKeys

\* sc_key_processor_process_key() for a supported key that is no repeat.  Pressing CapsLock flips
\* the computer's state; the code flips its guess of Android's for the press and for the release.
\* The pressed keys and the guess are updated whether or not the reports are refused.
ProcessKey(key, down) ==
  LET mods == held' \cap Modifiers
      sync == IF key # Caps /\ hostCaps # deviceMod THEN <<CapsReport>> ELSE <<>>
  IN /\ hidKeys' = IF key \in Modifiers THEN hidKeys
                   ELSE IF down THEN hidKeys \cup {key} ELSE hidKeys \ {key}
     /\ deviceMod' = IF key = Caps THEN ~deviceMod ELSE hostCaps
     /\ \E first \in SendInput(sync), report \in SendInput(<<KeyReport(hidKeys', mods)>>) :
          /\ wire' = wire \o SyncFirst(first, report)
          /\ behind' = (report = <<>>)
          /\ synced' = (key # Caps /\ (synced \/ (CapsAtRest /\ first = sync)))

KeyEvent(key, down) ==
  /\ keyEvents < MaxKeyEvents /\ keyEvents' = keyEvents + 1
  /\ (key \in held) = ~down
  /\ held' = IF down THEN held \cup {key} ELSE held \ {key}
  /\ hostCaps' = IF key = Caps /\ down THEN ~hostCaps ELSE hostCaps
  /\ ProcessKey(key, down)
  /\ UNCHANGED <<leds, devKeys, devMods, devCaps>>

\* Android applies a report (external): it ignores a phantom state, flips CapsLock when the key
\* goes down, and then sends the LEDs.
DeviceReads ==
  /\ wire # <<>> /\ wire' = Tail(wire)
  /\ LET report == Head(wire)
         keys == IF report.keys = RollOver THEN devKeys ELSE report.keys
         flips == Caps \in keys \ devKeys
     IN /\ devKeys' = keys /\ devMods' = report.mods
        /\ devCaps' = (devCaps # flips)
        /\ leds' = IF flips THEN Append(leds, devCaps') ELSE leds
  /\ UNCHANGED <<held, hostCaps, hidKeys, deviceMod, behind, synced, keyEvents>>

\* sc_keyboard_uhid_process_hid_output(), on the main thread.
HidOutput ==
  /\ leds # <<>> /\ leds' = Tail(leds)
  /\ deviceMod' = Head(leds)
  /\ UNCHANGED <<held, hostCaps, hidKeys, wire, devKeys, devMods, devCaps, behind, synced,
                 keyEvents>>

Next ==
  \/ \E key \in Scancodes \cup Modifiers, down \in BOOLEAN : KeyEvent(key, down)
  \/ DeviceReads
  \/ HidOutput

Spec == Init /\ [][Next]_kbVars

-----------------------------------------------------------------------------
\* Once every report has arrived, Android holds exactly the keys that are pressed, CapsLock
\* reports and phantom states notwithstanding; only a phantom state leaves it as it was, and a
\* refused report until the next one that is not: what was refused before does not matter then.
KeysFollow ==
  /\ hidKeys = held \ Modifiers
  /\ wire = <<>> /\ ~behind => /\ Cardinality(hidKeys) <= MaxKeys => devKeys = hidKeys
                              /\ devMods = held \cap Modifiers

\* Once a key was typed with CapsLock at rest and its guess right, every key typed before the next
\* CapsLock meets on Android the CapsLock of the computer, whatever reports of keys are refused:
\* only the report that flips it may be ahead.
TypedInCase ==
  synced => devCaps = hostCaps \/ (wire # <<>> /\ Head(wire) = CapsReport)
=============================================================================
