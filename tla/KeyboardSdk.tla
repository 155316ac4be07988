----------------------------- MODULE KeyboardSdk -----------------------------
(***************************************************************************)
(* The keyboard of the SDK mode (app/src/keyboard_sdk.c) behind the input  *)
(* manager's filter of shortcuts (app/src/input_manager.c,                 *)
(* app/src/shortcut_mod.h).  Pressing a key makes SDL (external) post a key*)
(* event and, when it types something, a text event.  Each mode injects    *)
(* some keys as key events and the others as text: a character comes       *)
(* through one of the two.  The filter of the key events looks at the      *)
(* modifiers of the event, the one of the text events at those of now.     *)
(* The queue may refuse what is injected, which is only logged.            *)
(***************************************************************************)
EXTENDS Naturals, Sequences, SequencesExt

CONSTANTS
  Classes,    \* the classes of keys pressed, of {"special", "keypad", "letter", "punct"}
  KeyMods,    \* the modifiers used, of {"ctrl", "shift", "num", "mod"}
  MaxPresses  \* bound: keys pressed

VARIABLES
  injectMode,  \* kb->key_inject_mode: "mixed", "text" or "raw"
  modState,    \* SDL_GetModState()
  sdlEvents,   \* the events SDL has queued
  presses,     \* the keys pressed: class and modifiers
  byKey,       \* how many times each press was injected as a key event
  byText,      \* and as a text
  raced,       \* the presses whose text came under other modifiers than the key
  refusedKey,  \* the presses whose key event was to be injected and was refused
  refusedText  \* and those whose text was

kbSdkVars == <<injectMode, modState, sdlEvents, presses, byKey, byText, raced, refusedKey,
               refusedText>>

Init ==
  /\ injectMode \in {"mixed", "text", "raw"}
  /\ modState = {} /\ sdlEvents = <<>> /\ presses = <<>>
  /\ byKey = <<>> /\ byText = <<>> /\ raced = {} /\ refusedKey = {} /\ refusedText = {}

-----------------------------------------------------------------------------
(* SDL, external.                                                          *)

Modifier(m) ==
  /\ m \in KeyMods
  /\ modState' = IF m \in modState THEN modState \ {m} ELSE modState \cup {m}
  /\ UNCHANGED <<injectMode, sdlEvents, presses, byKey, byText, raced, refusedKey, refusedText>>

\* The keys that type something, unless Ctrl is held; with the shortcut modifier they may.
Types(class) ==
  /\ "ctrl" \notin modState
  /\ class \in {"letter", "punct"} \/ (class = "keypad" /\ modState \cap {"num", "shift"} # {})

Press(class) ==
  LET n == Len(presses) + 1
      key == [type |-> "key", press |-> n]
      text == [type |-> "text", press |-> n]
  IN /\ n <= MaxPresses
     /\ presses' = Append(presses, [class |-> class, mods |-> modState])
     /\ byKey' = Append(byKey, 0) /\ byText' = Append(byText, 0)
     /\ \/ Types(class) /\ sdlEvents' = sdlEvents \o <<key, text>>
        \/ (~Types(class) \/ "mod" \in modState) /\ sdlEvents' = Append(sdlEvents, key)
     /\ UNCHANGED <<injectMode, modState, raced, refusedKey, refusedText>>

-----------------------------------------------------------------------------
(* The main thread.                                                        *)

\* sc_shortcut_mods_is_shortcut_mod()
IsShortcutMod(mods) == "mod" \in mods

\* convert_keycode(): whether the mode injects the key event of such a key.
ConvertKeycode(class, m) ==
  \/ class = "special"
  \/ class = "keypad" /\ m \cap {"num", "shift"} = {}
  \/ /\ injectMode # "text" \/ "ctrl" \in m
     /\ class = "letter" \/ injectMode = "raw"

\* sc_key_processor_process_text(): the text that no key event injects.
ProcessText(class) == injectMode = "text" \/ (injectMode = "mixed" /\ class # "letter")

\* What is to be injected is pushed and counted, or refused: by a full queue, or for a text by
\* strdup() too.
Inject(count, refused, press, injects) ==
  \/ /\ count' = IF injects THEN [count EXCEPT ![press] = @ + 1] ELSE count
     /\ UNCHANGED refused
  \/ /\ injects /\ refused' = refused \cup {press}
     /\ UNCHANGED count

KeyEvent(press) ==
  /\ Inject(byKey, refusedKey, press,
            ~IsShortcutMod(presses[press].mods)
              /\ ConvertKeycode(presses[press].class, presses[press].mods))
  /\ UNCHANGED <<byText, refusedText, raced>>

TextEvent(press) ==
  /\ Inject(byText, refusedText, press,
            ~IsShortcutMod(modState) /\ ProcessText(presses[press].class))
  /\ raced' = IF IsShortcutMod(modState) # IsShortcutMod(presses[press].mods)
              THEN raced \cup {press} ELSE raced
  /\ UNCHANGED <<byKey, refusedKey>>

HandleEvent ==
  /\ sdlEvents # <<>> /\ sdlEvents' = Tail(sdlEvents)
  /\ LET event == Head(sdlEvents)
     IN IF event.type = "key" THEN KeyEvent(event.press) ELSE TextEvent(event.press)
  /\ UNCHANGED <<injectMode, modState, presses>>

Next ==
  \/ \E m \in KeyMods : Modifier(m)
  \/ \E class \in Classes : Press(class)
  \/ HandleEvent

Spec == Init /\ [][Next]_kbSdkVars

-----------------------------------------------------------------------------
\* In every mode and under all modifiers, a key pressed to type is injected exactly once, as a key
\* event or as a text, unless that very message was refused, and then never; a shortcut is never
\* injected nor refused; as long as the shortcut modifier does not change between the press and
\* the text.
TypedOnce ==
  sdlEvents = <<>> =>
    \A p \in 1..Len(presses) \ raced :
      LET press == presses[p]
          injected == byKey[p] + byText[p]
          refused == refusedKey \cup refusedText
      IN IF "mod" \in press.mods THEN injected = 0 /\ p \notin refused
         ELSE "ctrl" \notin press.mods => injected = IF p \in refused THEN 0 ELSE 1
=============================================================================
