-------------------------------- MODULE MCInput --------------------------------
(***************************************************************************)
(* The components that carry what the user does to the device, and what    *)
(* the device answers, for TLC.  `which` chooses the one a behaviour runs, *)
(* the others keep their initial state.  The orientation of the window is  *)
(* EXTENDed, the others are instances; a name shared by two of them is     *)
(* given by WITH.                                                          *)
(***************************************************************************)
EXTENDS Orientation, FiniteSets

CONSTANTS
  Limit, Spare, Slots, Gamepads, PadButtons, AxisValues, Sizes, MaxMsgs,  \* Controller
  UhidKeys, Modifiers, MaxKeys, MaxKeyEvents,                             \* KeyboardUhid
  Unit, Scrolls, MaxReport, MouseButtons, MaxMouseEvents,                     \* HidMouse
  HidLimit, Required, Optional, MaxHidEvents, MaxPastes,                  \* AoaHid
  Kinds, SizeOf, BufferSize, MaxDeviceMsgs,                               \* Receiver
  Modes, Buttons, Pri, Sec, Width, Height, Points, Keys, MaxInputs,       \* InputManager
  Classes, KeyMods, MaxPresses                                            \* KeyboardSdk

\* What each component is given: the slots of the gamepads are numbers; a key is no mark of a
\* phantom state; a wheel turns by fractions of a unit; the devices of AOA either must open or
\* may; a message of the device is not empty, nor is the buffer; the positions of the mouse are
\* pairs, the mouse and the keyboard have different names, and without control no mouse is
\* simulated.
ASSUME ControllerAssumption ==
  /\ Limit \in Nat /\ Slots \subseteq Nat /\ "invalid" \notin Gamepads /\ AxisValues \subseteq Int
ASSUME KeyboardAssumption == MaxKeys \in Nat /\ "rollover" \notin UhidKeys
ASSUME MouseAssumption == Unit \in Nat \ {0} /\ MaxReport \in Nat /\ Scrolls \subseteq Int
ASSUME AoaAssumption == HidLimit \in Nat /\ IsFiniteSet(Required) /\ Required \cap Optional = {}
ASSUME ReceiverAssumption == BufferSize \in Nat \ {0} /\ SizeOf \in [Kinds -> SUBSET (Nat \ {0})]
ASSUME ManagerAssumption ==
  /\ Width \in Int /\ Height \in Int /\ Points \subseteq Int \X Int /\ Buttons \cap Keys = {}
  /\ \A m \in Modes : m.mouse # "none" => m.control
ASSUME SdkAssumption == Classes \subseteq {"special", "keypad", "letter", "punct"}

VARIABLES
  which,   \* the component that runs
  slots, queue, resize, ctlStopped, starting, ctlPc, ctlMsg, ctlRecvPc, socketOpen, reports, uhid,
  uhidErrors, displaySize, requested, lostInput, oom, pushes,
  heldKeys, hostCaps, hidKeys, deviceMod, wire, leds, devKeys, devMods, devCaps, behind, synced,
  keyEvents,
  downButtons, residual, wheel, asked, clamped, refusedWheel, devButtons, mouseEvents,
  aoaQueue, aoaStopped, interrupted, ack, aoaPc, event, vecOpen, openError, registered, stale,
  plugged, lockSynced, sequence, clipboards, clipboard, acks, pasted, hidEvents,
  sent, recvHead, parsed, inNet, recvPc, recvError, closedSocket, dispatched, tasks, mainStopped,
  applied,
  mode, paused, disconnected, buttons, vfinger, invert, held, clickCount, mods, contacts,
  androidKeys, clips, pastes, crossings, crashed, inputs,
  injectMode, modState, sdlEvents, presses, byKey, byText, raced, refusedKey, refusedText

controllerVars ==
  <<slots, queue, resize, ctlStopped, starting, ctlPc, ctlMsg, ctlRecvPc, socketOpen, reports, uhid,
    uhidErrors, displaySize, requested, lostInput, oom, pushes>>
uhidKeyboardVars ==
  <<heldKeys, hostCaps, hidKeys, deviceMod, wire, leds, devKeys, devMods, devCaps, behind, synced,
    keyEvents>>
hidMouseVars ==
  <<downButtons, residual, wheel, asked, clamped, refusedWheel, devButtons, mouseEvents>>
aoaHidVars ==
  <<aoaQueue, aoaStopped, interrupted, ack, aoaPc, event, vecOpen, openError, registered, stale,
    plugged, lockSynced, sequence, clipboards, clipboard, acks, pasted, hidEvents>>
receiverVars ==
  <<sent, recvHead, parsed, inNet, recvPc, recvError, closedSocket, dispatched, tasks, mainStopped,
    applied>>
managerVars ==
  <<mode, paused, disconnected, buttons, vfinger, invert, held, clickCount, mods, contacts,
    androidKeys, clips, pastes, crossings, crashed, inputs>>
sdkKeyboardVars ==
  <<injectMode, modState, sdlEvents, presses, byKey, byText, raced, refusedKey, refusedText>>
inputVars ==
  <<which, orientationVars, controllerVars, uhidKeyboardVars, hidMouseVars, aoaHidVars,
    receiverVars, managerVars, sdkKeyboardVars>>

-----------------------------------------------------------------------------
(* The values a .cfg cannot hold.                                          *)

\* Frames of both orientations, and a narrow one.
MCFrameSizes == {<<2, 3>>, <<3, 2>>, <<4, 1>>}

\* The sizes of the device's messages, in a buffer of BufferSize.
MCSizeOf ==
  [k \in Kinds |-> CASE k = "clipboard" -> {1, 4} [] k = "ack" -> {2}
                     [] k = "uhid_output" -> {1, 3} [] OTHER -> {1}]

\* Mice that inject touches, move a pointer, or have no processor.
MCModes ==
  {[control |-> TRUE, keyboard |-> "sdk", mouse |-> m, autosync |-> TRUE, legacy |-> m = "none"] :
     m \in {"sdk", "relative", "none"}}

\* The default bindings: without Shift only the left button clicks.
MCPri == [b \in Buttons |-> IF b = "left" THEN "click" ELSE "back"]
MCSec == [b \in Buttons |-> "click"]

\* Two points of the frame, which no mirror exchanges.
MCPoints == {<<0, 1>>, <<2, 1>>}

-----------------------------------------------------------------------------
Ctl == INSTANCE Controller WITH recvPc <- ctlRecvPc
Uhid == INSTANCE KeyboardUhid WITH Keys <- UhidKeys, held <- heldKeys
Mouse == INSTANCE HidMouse
Aoa == INSTANCE AoaHid
Recv == INSTANCE Receiver
Im == INSTANCE InputManager
Sdk == INSTANCE KeyboardSdk

\* Every component is in an initial state, and an idle one always in the same.
InputInit ==
  /\ which \in {"orientation", "controller", "uhid", "mouse", "aoa", "receiver", "manager", "sdk"}
  /\ Init /\ Ctl!Init /\ Uhid!Init /\ Mouse!Init /\ Aoa!Init /\ Recv!Init /\ Im!Init /\ Sdk!Init
  /\ which # "orientation" => orientation = 0 /\ frameSize = <<2, 3>> /\ pixel = <<0, 0>>
  /\ which # "uhid" => ~hostCaps
  /\ which # "manager" => mode.mouse = "sdk"
  /\ which # "sdk" => injectMode = "mixed"

\* The components but c stay as they are.
Others(c) ==
  /\ which = c /\ UNCHANGED which
  /\ IF c = "orientation" THEN TRUE ELSE UNCHANGED orientationVars
  /\ IF c = "controller" THEN TRUE ELSE UNCHANGED controllerVars
  /\ IF c = "uhid" THEN TRUE ELSE UNCHANGED uhidKeyboardVars
  /\ IF c = "mouse" THEN TRUE ELSE UNCHANGED hidMouseVars
  /\ IF c = "aoa" THEN TRUE ELSE UNCHANGED aoaHidVars
  /\ IF c = "receiver" THEN TRUE ELSE UNCHANGED receiverVars
  /\ IF c = "manager" THEN TRUE ELSE UNCHANGED managerVars
  /\ IF c = "sdk" THEN TRUE ELSE UNCHANGED sdkKeyboardVars

InputNext ==
  \/ Others("orientation") /\ Next
  \/ Others("controller") /\ Ctl!Next
  \/ Others("uhid") /\ Uhid!Next
  \/ Others("mouse") /\ Mouse!Next
  \/ Others("aoa") /\ Aoa!Next
  \/ Others("receiver") /\ Recv!Next
  \/ Others("manager") /\ Im!Next
  \/ Others("sdk") /\ Sdk!Next

\* The fairness of each component, as its module states it, in the behaviours where it runs.
InputSpec ==
  /\ InputInit /\ [][InputNext]_inputVars
  /\ WF_controllerVars(which = "controller" /\ Ctl!Thread)
  /\ WF_aoaHidVars(which = "aoa" /\ Aoa!Thread)

-----------------------------------------------------------------------------
\* Whatever is dropped from a full queue, Android has the devices of the slots, and of AOA none
\* is left registered at the end (controller.c, hid/hid_gamepad.c, usb/aoa_hid.c).
DevicesInSync == Ctl!UhidValid /\ Ctl!GamepadsInSync /\ Aoa!AllUnregistered

\* No key pressed, text typed or fraction of a scroll is lost, doubled or left pressed, nor a key
\* typed in the wrong case, but by the messages the full queue refuses: each loses what it carried,
\* and a report of the keys nothing once another follows (uhid/keyboard_uhid.c,
\* hid/hid_keyboard.c, keyboard_sdk.c, hid/hid_mouse.c).
InputKept == Uhid!KeysFollow /\ Uhid!TypedInCase /\ Sdk!TypedOnce /\ Mouse!ScrollConserved

\* A paste, by a key or by HID, pastes the clipboard the user copied (input_manager.c,
\* usb/aoa_hid.c, util/acksync.c).
PasteIsCurrent == Aoa!PasteIsCurrent /\ Im!PastesTheComputersClipboard

\* The device holds what the user holds, however modifiers, pauses and refused messages come
\* between a press and its release (input_manager.c).
HeldTogether == Im!HeldTogether

\* The device's messages are dispatched whole, once and in order, however they are cut
\* (receiver.c, device_msg.c, events.c).
StreamReassembled == Recv!StreamReassembled

\* The last size asked for is sent, and a stop ends a thread that waits for an acknowledgement
\* (controller.c, usb/aoa_hid.c).
InputProgress == Ctl!LastSizeSent /\ Aoa!StopEnds
=============================================================================
