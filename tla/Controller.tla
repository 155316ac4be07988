------------------------------ MODULE Controller ------------------------------
(***************************************************************************)
(* The forward controller (app/src/controller.c) and the UHID gamepads     *)
(* that feed it (app/src/uhid/gamepad_uhid.c, app/src/hid/hid_gamepad.c).  *)
(* The main thread pushes messages to a bounded queue, where the messages  *)
(* a device cannot do without are never dropped; a thread writes them to   *)
(* the control socket.  The last requested display size has a slot of its  *)
(* own.  The device (external) keeps one UHID device per HID id.           *)
(***************************************************************************)
EXTENDS Integers, Sequences, SequencesExt

CONSTANTS
  Limit,        \* SC_CONTROL_MSG_QUEUE_LIMIT
  Spare,        \* the capacity reserved above the limit
  Slots,        \* SC_MAX_GAMEPADS, as the set of HID ids of the slots
  Gamepads,     \* the ids SDL gives to gamepads
  PadButtons,   \* the buttons pressed, members of ButtonIds
  AxisValues,   \* the positions of an axis
  Sizes,        \* the display sizes requested
  MaxMsgs       \* bound: operations of the main thread

VARIABLES
  slots,        \* sc_hid_gamepad.slots
  queue,
  resize,       \* controller->resize_display, NoSize if unset
  ctlStopped,
  starting,     \* sc_controller_start(): "idle", "receiver", "started", "failed", "joined"
  ctlPc,        \* the thread: "off", "check", "waiting", "send", "ended"
  ctlMsg,       \* the message the thread has taken
  recvPc,       \* the receiver's thread: "off", "running", "ended"
  socketOpen,
  reports,      \* how many times each thread called on_ended()
  uhid,         \* the devices Android has, HID id -> what it last received
  uhidErrors,   \* TRUE once Android got a message it cannot apply
  displaySize,  \* the size Android was last asked for
  requested,    \* the last size the user asked for
  lostInput,    \* the HID ids whose last report was dropped
  oom,          \* a message that must not be dropped was
  pushes

ctlThread == <<ctlPc, ctlMsg>>
device == <<uhid, uhidErrors, displaySize>>
ctlVars == <<slots, queue, resize, ctlStopped, starting, ctlThread, recvPc, socketOpen, reports,
             device, requested, lostInput, oom, pushes>>

NoSize == 0
Absent == [present |-> FALSE]
NoGamepad == "invalid"

-----------------------------------------------------------------------------
(* The state of a gamepad, and the report made of it.                      *)

Dpad == {"up", "down", "left", "right"}
ButtonIds ==
  {"south", "east", "west", "north", "back", "guide", "start", "left_stick", "right_stick",
   "left_shoulder", "right_shoulder"} \cup Dpad

\* [-32768 to 32767] -> [0 to 65535]
Rescale(v) == v + 32768
Trigger(v) == IF v < 0 THEN 0 ELSE v

NewSlot(gamepad) == [gamepad |-> gamepad, buttons |-> {}, stick |-> Rescale(0), trigger |-> 0]
FreeSlot(slot) == [slot EXCEPT !.gamepad = NoGamepad]

\* The hat switch: clockwise from the top, and of two opposite directions the first wins.
Hat(buttons) ==
  LET side(l, m, r) == IF "left" \in buttons THEN l ELSE IF "right" \in buttons THEN r ELSE m
  IN IF "up" \in buttons THEN side(8, 1, 2)
     ELSE IF "down" \in buttons THEN side(6, 5, 4)
     ELSE side(7, 0, 3)

Report(slot) ==
  [present |-> TRUE, buttons |-> slot.buttons \ Dpad, hat |-> Hat(slot.buttons),
   stick |-> slot.stick, trigger |-> slot.trigger]

\* What a device that has received no report is taken to be.
AtRest == Report(NewSlot(NoGamepad))

\* sc_hid_gamepad_slot_find(): the first slot with this gamepad.
SlotsOf(gamepad) == {s \in Slots : slots[s].gamepad = gamepad}
SlotOf(gamepad) == CHOOSE s \in SlotsOf(gamepad) : \A t \in SlotsOf(gamepad) : s <= t

-----------------------------------------------------------------------------
(* Messages.                                                               *)

Create(s) == [type |-> "uhid_create", id |-> s]
Input(s, report) == [type |-> "uhid_input", id |-> s, report |-> report]
Destroy(s) == [type |-> "uhid_destroy", id |-> s]
Other == [type |-> "other"]

DroppableUnlessCreate(msg) == msg.type # "uhid_create"
Droppable(msg) == msg.type \notin {"uhid_create", "uhid_destroy"}

\* sc_cond_signal(): wakes the thread if it waits, and is lost otherwise.
Wake == ctlPc' = IF ctlPc = "waiting" THEN "check" ELSE ctlPc
WakeIf(cond) == IF cond THEN Wake ELSE UNCHANGED ctlPc

\* sc_controller_push_msg() when the message enters the queue.
Enqueue(msg) == queue' = Append(queue, msg) /\ WakeIf(queue = <<>>)

Drop == UNCHANGED <<queue, ctlPc>>

\* sc_controller_push_msg(): a message that cannot be dropped is, when there is no memory for it.
Push(msg) ==
  /\ IF Len(queue) < Limit THEN Enqueue(msg) /\ UNCHANGED oom
     ELSE IF Droppable(msg) THEN Drop /\ UNCHANGED oom
     ELSE \/ queue' = Append(queue, msg) /\ UNCHANGED <<ctlPc, oom>>
          \/ Len(queue) >= Limit + Spare /\ Drop /\ oom' = TRUE
  /\ lostInput' = IF msg.type = "other" THEN lostInput
                  ELSE IF msg.type = "uhid_input" /\ queue' = queue
                  THEN lostInput \cup {msg.id} ELSE lostInput \ {msg.id}

-----------------------------------------------------------------------------
Init ==
  /\ slots = [s \in Slots |-> NewSlot(NoGamepad)]
  /\ queue = <<>> /\ resize = NoSize /\ ctlStopped = FALSE
  /\ starting = "idle" /\ ctlPc = "off" /\ ctlMsg = Other /\ recvPc = "off"
  /\ socketOpen = TRUE /\ reports = [t \in {"controller", "receiver"} |-> 0]
  /\ uhid = [s \in Slots |-> Absent] /\ uhidErrors = FALSE /\ displaySize = NoSize
  /\ requested = NoSize /\ lostInput = {} /\ oom = FALSE /\ pushes = 0

\* The main thread, before the controller is stopped and joined.
MainOp ==
  /\ pushes < MaxMsgs /\ pushes' = pushes + 1
  /\ starting = "started" /\ ~ctlStopped
  /\ UNCHANGED <<ctlStopped, starting, ctlMsg, recvPc, socketOpen, reports, device>>

SendOther == MainOp /\ Push(Other) /\ UNCHANGED <<slots, resize, requested>>

\* SDL gives each gamepad an id of its own.
GamepadAdded(gamepad) ==
  /\ MainOp /\ SlotsOf(gamepad) = {} /\ SlotsOf(NoGamepad) # {}
  /\ LET s == SlotOf(NoGamepad)
     IN slots' = [slots EXCEPT ![s] = NewSlot(gamepad)] /\ Push(Create(s))
  /\ UNCHANGED <<resize, requested>>

GamepadRemoved(gamepad) ==
  /\ MainOp /\ SlotsOf(gamepad) # {}
  /\ LET s == SlotOf(gamepad)
     IN slots' = [slots EXCEPT ![s] = FreeSlot(@)] /\ Push(Destroy(s))
  /\ UNCHANGED <<resize, requested>>

\* A report carries the whole state of its gamepad.
Changed(gamepad, slot) ==
  LET s == SlotOf(gamepad)
  IN slots' = [slots EXCEPT ![s] = slot] /\ Push(Input(s, Report(slot)))

GamepadButton(gamepad, button, down) ==
  /\ MainOp /\ SlotsOf(gamepad) # {} /\ button \in ButtonIds
  /\ Changed(gamepad, [slots[SlotOf(gamepad)] EXCEPT
                         !.buttons = IF down THEN @ \cup {button} ELSE @ \ {button}])
  /\ UNCHANGED <<resize, requested>>

GamepadAxis(gamepad, value) ==
  /\ MainOp /\ SlotsOf(gamepad) # {}
  /\ \/ Changed(gamepad, [slots[SlotOf(gamepad)] EXCEPT !.stick = Rescale(value)])
     \/ Changed(gamepad, [slots[SlotOf(gamepad)] EXCEPT !.trigger = Trigger(value)])
  /\ UNCHANGED <<resize, requested>>

KeepFirst(size) == IF resize = NoSize THEN size ELSE resize

\* A new size replaces the one not sent yet.
Latest(size) == size

ResizeDisplay(size) ==
  /\ MainOp
  /\ requested' = size /\ resize' = Latest(size)
  /\ WakeIf(resize = NoSize)
  /\ UNCHANGED <<slots, queue, lostInput, oom>>

-----------------------------------------------------------------------------
(* Starting and stopping.                                                  *)

lifecycle == <<starting, ctlStopped>>
UnchangedByLifecycle ==
  UNCHANGED <<slots, queue, resize, ctlMsg, reports, device, requested, lostInput, oom, pushes>>

StartThread ==
  /\ starting = "idle"
  /\ \/ starting' = "receiver" /\ ctlPc' = "check"
     \/ starting' = "failed" /\ UNCHANGED ctlPc
  /\ UnchangedByLifecycle /\ UNCHANGED <<ctlStopped, recvPc, socketOpen>>

\* If the receiver cannot start, the thread already running is stopped and joined.
StartReceiver ==
  /\ starting = "receiver"
  /\ \/ starting' = "started" /\ recvPc' = "running" /\ UNCHANGED <<ctlStopped, ctlPc>>
     \/ /\ ~ctlStopped
        /\ ctlStopped' = TRUE /\ Wake /\ UNCHANGED <<starting, recvPc>>
     \/ /\ ctlStopped /\ ctlPc = "ended"
        /\ starting' = "failed" /\ UNCHANGED <<ctlStopped, ctlPc, recvPc>>
  /\ ctlStopped => starting' # "started"
  /\ UnchangedByLifecycle /\ UNCHANGED socketOpen

Stop ==
  /\ starting = "started" /\ ~ctlStopped
  /\ ctlStopped' = TRUE /\ Wake
  /\ UnchangedByLifecycle /\ UNCHANGED <<starting, recvPc, socketOpen>>

\* The device or the server goes away, or sc_server_stop() shuts the socket down.
CloseSocket ==
  /\ socketOpen /\ starting # "idle"
  /\ socketOpen' = FALSE
  /\ UnchangedByLifecycle /\ UNCHANGED <<lifecycle, ctlPc, recvPc>>

Join ==
  /\ starting = "started" /\ ctlStopped /\ ctlPc = "ended" /\ recvPc = "ended"
  /\ starting' = "joined"
  /\ UnchangedByLifecycle /\ UNCHANGED <<ctlStopped, ctlPc, recvPc, socketOpen>>

-----------------------------------------------------------------------------
(* The controller's thread.                                                *)

\* A stop discards what is queued; a new size is sent before the queue.
Check ==
  /\ ctlPc = "check"
  /\ IF ctlStopped THEN
       /\ ctlPc' = "ended" /\ reports' = [reports EXCEPT !.controller = @ + 1]
       /\ UNCHANGED <<queue, resize, ctlMsg>>
     ELSE IF resize # NoSize THEN
       /\ ctlPc' = "send" /\ ctlMsg' = [type |-> "resize", size |-> resize] /\ resize' = NoSize
       /\ UNCHANGED <<queue, reports>>
     ELSE IF queue # <<>> THEN
       /\ ctlPc' = "send" /\ ctlMsg' = Head(queue) /\ queue' = Tail(queue)
       /\ UNCHANGED <<resize, reports>>
     ELSE ctlPc' = "waiting" /\ UNCHANGED <<queue, resize, ctlMsg, reports>>
  /\ UNCHANGED <<slots, lifecycle, recvPc, socketOpen, device, requested, lostInput, oom, pushes>>

\* What Android does of a message (external: UhidManager of the server).
Receive(msg) ==
  /\ displaySize' = IF msg.type = "resize" THEN msg.size ELSE displaySize
  /\ uhidErrors' =
       (uhidErrors \/ CASE msg.type = "uhid_create" -> uhid[msg.id].present
                        [] msg.type \in {"uhid_input", "uhid_destroy"} -> ~uhid[msg.id].present
                        [] OTHER -> FALSE)
  /\ uhid' = CASE msg.type = "uhid_create" -> [uhid EXCEPT ![msg.id] = AtRest]
               [] msg.type = "uhid_input" -> [uhid EXCEPT ![msg.id] = msg.report]
               [] msg.type = "uhid_destroy" -> [uhid EXCEPT ![msg.id] = Absent]
               [] OTHER -> uhid

\* A message that cannot be written ends the thread.
Send ==
  /\ ctlPc = "send" /\ ctlMsg' = Other
  /\ IF socketOpen THEN Receive(ctlMsg) /\ ctlPc' = "check" /\ UNCHANGED reports
     ELSE ctlPc' = "ended" /\ reports' = [reports EXCEPT !.controller = @ + 1] /\ UNCHANGED device
  /\ UNCHANGED <<slots, queue, resize, lifecycle, recvPc, socketOpen, requested, lostInput, oom,
                 pushes>>

\* The receiver's thread ends with the socket, and tells through the controller's callback.
ReceiverEnds ==
  /\ recvPc = "running" /\ ~socketOpen
  /\ recvPc' = "ended" /\ reports' = [reports EXCEPT !.receiver = @ + 1]
  /\ UNCHANGED <<slots, queue, resize, lifecycle, ctlThread, socketOpen, device, requested,
                 lostInput, oom, pushes>>

Thread == Check \/ Send

Next ==
  \/ SendOther
  \/ \E g \in Gamepads : GamepadAdded(g) \/ GamepadRemoved(g)
  \/ \E g \in Gamepads, b \in PadButtons, down \in BOOLEAN : GamepadButton(g, b, down)
  \/ \E g \in Gamepads, v \in AxisValues : GamepadAxis(g, v)
  \/ \E size \in Sizes : ResizeDisplay(size)
  \/ StartThread \/ StartReceiver \/ Stop \/ CloseSocket \/ Join
  \/ Thread \/ ReceiverEnds

Spec == Init /\ [][Next]_ctlVars /\ WF_ctlVars(Thread)

-----------------------------------------------------------------------------
\* However full the queue gets, Android never gets a report for a device it has not, nor a second
\* creation of one it has: the messages of a full queue are dropped, those of a gamepad's life
\* are not.
UhidValid == ~oom => ~uhidErrors

\* Once everything pushed is written, each gamepad Android sees is in the state of its slot,
\* unless the queue was full for its last report.
GamepadsInSync ==
  starting = "started" /\ queue = <<>> /\ ctlPc = "waiting" /\ ~oom
    => \A s \in Slots :
         /\ uhid[s].present = (slots[s].gamepad # NoGamepad)
         /\ uhid[s].present /\ s \notin lostInput => uhid[s] = Report(slots[s])

\* The last size asked for is the one Android ends up with, whatever is queued and whoever
\* signals: no wakeup is lost.
LastSizeSent ==
  \A size \in Sizes :
    requested = size ~> displaySize = requested \/ requested # size \/ ctlStopped \/ ~socketOpen
=============================================================================
