-------------------------------- MODULE AoaHid --------------------------------
(***************************************************************************)
(* Physical devices simulated over USB (app/src/usb/aoa_hid.c,             *)
(* keyboard_aoa.c, mouse_aoa.c, gamepad_aoa.c) and the wait for a clipboard*)
(* acknowledgement (app/src/util/acksync.c).  A paste is two messages on   *)
(* two channels: the clipboard goes through the control socket, the Ctrl+v *)
(* through USB, and must not overtake it.                                  *)
(***************************************************************************)
EXTENDS Naturals, Sequences, SequencesExt

CONSTANTS
  HidLimit,     \* SC_AOA_EVENT_QUEUE_LIMIT
  Required,     \* HID ids whose failure to open ends the program: keyboard and mouse
  Optional,     \* HID ids of the gamepad slots
  MaxHidEvents, \* bound: events pushed
  MaxPastes     \* bound: clipboards sent

VARIABLES
  aoaQueue,     \* aoa->queue
  aoaStopped,
  interrupted,  \* acksync->stopped
  ack,          \* acksync->ack, 0 for SC_SEQUENCE_INVALID
  aoaPc,        \* the thread: "off", "wait", "event", "describe", "ack", "closing", "ended"
  event,        \* the event it processes
  vecOpen,      \* the HID ids to unregister when it ends
  openError,    \* SC_EVENT_AOA_OPEN_ERROR was posted
  registered,   \* the HID ids the device has registered
  stale,        \* the HID ids whose unregistration failed
  plugged,      \* the gamepads with a slot
  lockSynced,   \* kb->mod_lock_synchronized
  sequence,     \* the sequence number of the last clipboard sent
  clipboards,   \* the clipboards on their way to the device
  clipboard,    \* the clipboard of the device
  acks,         \* the acknowledgements on their way back
  pasted,       \* the pastes injected: the clipboard expected and the one there was
  hidEvents

acksync == <<interrupted, ack>>
phone == <<clipboards, clipboard, acks>>
aoaThread == <<aoaPc, event, vecOpen, openError>>
aoaVars == <<aoaQueue, aoaStopped, acksync, aoaThread, registered, stale, plugged, lockSynced,
             sequence, phone, pasted, hidEvents>>

HidIds == Required \cup Optional
NoEvent == [type |-> "none"]
Open(id) == [type |-> "open", id |-> id]
Close(id) == [type |-> "close", id |-> id]
Input(id, wait) == [type |-> "input", id |-> id, wait |-> wait]

\* The devices that must open are pushed when the processors are initialised, before the thread
\* starts.
Init ==
  /\ aoaQueue = SetToSeq({Open(id) : id \in Required})
  /\ aoaStopped = FALSE /\ interrupted = FALSE /\ ack = 0
  /\ aoaPc = "off" /\ event = NoEvent /\ vecOpen = {} /\ openError = FALSE
  /\ registered = {} /\ stale = {} /\ plugged = {} /\ lockSynced = FALSE
  /\ sequence = 0 /\ clipboards = <<>> /\ clipboard = 0 /\ acks = <<>>
  /\ pasted = {} /\ hidEvents = 0

-----------------------------------------------------------------------------
(* The main thread.                                                        *)

MainPushes ==
  /\ hidEvents < MaxHidEvents /\ hidEvents' = hidEvents + 1
  /\ ~aoaStopped /\ aoaPc # "off"
  /\ UNCHANGED <<aoaStopped, acksync, aoaThread, registered, stale, clipboard, acks, pasted>>

\* sc_aoa_push_input_with_ack_to_wait(): inputs are discarded at the limit.
PushInputs(inputs) ==
  LET room == HidLimit - Len(aoaQueue)
  IN aoaQueue' = IF room <= 0 THEN aoaQueue
                 ELSE aoaQueue \o SubSeq(inputs, 1, IF Len(inputs) < room THEN Len(inputs) ELSE room)

\* A key: the first one is preceded by the state of CapsLock and NumLock, until that fits.
Key(id, wait) ==
  /\ id \in Required
  /\ LET locks == IF lockSynced THEN <<>> ELSE <<Input(id, 0)>>
     IN PushInputs(locks \o <<Input(id, wait)>>)
  /\ lockSynced' = (lockSynced \/ Len(aoaQueue) < HidLimit)
  /\ UNCHANGED plugged

PushKey(id) == MainPushes /\ Key(id, 0) /\ UNCHANGED <<sequence, clipboards>>

\* Ctrl+v: the clipboard is sent with a new sequence number, and the key waits for its ack.
Paste(id) ==
  /\ MainPushes /\ sequence < MaxPastes
  /\ sequence' = sequence + 1 /\ clipboards' = Append(clipboards, sequence')
  /\ Key(id, sequence')

GamepadAdded(id) ==
  /\ MainPushes /\ id \in Optional \ plugged
  /\ plugged' = plugged \cup {id} /\ aoaQueue' = Append(aoaQueue, Open(id))
  /\ UNCHANGED <<lockSynced, sequence, clipboards>>

GamepadRemoved(id) ==
  /\ MainPushes /\ id \in plugged
  /\ plugged' = plugged \ {id} /\ aoaQueue' = Append(aoaQueue, Close(id))
  /\ UNCHANGED <<lockSynced, sequence, clipboards>>

GamepadInput(id) ==
  /\ MainPushes /\ id \in plugged
  /\ PushInputs(<<Input(id, 0)>>)
  /\ UNCHANGED <<plugged, lockSynced, sequence, clipboards>>

\* The wait for an acknowledgement ends with the thread's stop.
Interrupts == TRUE

\* sc_aoa_stop()
Stop ==
  /\ aoaPc # "off" /\ ~aoaStopped
  /\ aoaStopped' = TRUE /\ interrupted' = Interrupts
  /\ UNCHANGED <<aoaQueue, ack, aoaThread, registered, stale, plugged, lockSynced, sequence, phone,
                 pasted, hidEvents>>

-----------------------------------------------------------------------------
(* The phone's control thread (external) and the receiver's thread.        *)

PhoneUnchanged ==
  UNCHANGED <<aoaQueue, aoaStopped, aoaThread, registered, stale, plugged, lockSynced, sequence,
              pasted, hidEvents>>

\* The clipboard is set before it is acknowledged; an acknowledgement may not come.
SetClipboard ==
  /\ clipboards # <<>> /\ clipboards' = Tail(clipboards) /\ clipboard' = Head(clipboards)
  /\ (acks' = Append(acks, Head(clipboards)) \/ acks' = acks)
  /\ PhoneUnchanged /\ UNCHANGED acksync

\* sc_acksync_ack()
Ack ==
  /\ acks # <<>> /\ acks' = Tail(acks)
  /\ ack' = Head(acks)
  /\ PhoneUnchanged /\ UNCHANGED <<interrupted, clipboards, clipboard>>

-----------------------------------------------------------------------------
(* The AOA thread.  Each transfer may fail.                                *)

AoaUnchanged ==
  UNCHANGED <<aoaStopped, acksync, plugged, lockSynced, sequence, phone, hidEvents>>

Start ==
  /\ aoaPc = "off" /\ aoaPc' = "wait"
  /\ AoaUnchanged /\ UNCHANGED <<aoaQueue, event, vecOpen, openError, registered, stale, pasted>>

\* A stop discards what is queued.
Take ==
  /\ aoaPc = "wait" /\ (aoaStopped \/ aoaQueue # <<>>)
  /\ IF aoaStopped THEN aoaPc' = "closing" /\ UNCHANGED <<aoaQueue, event>>
     ELSE /\ event' = Head(aoaQueue) /\ aoaQueue' = Tail(aoaQueue)
          /\ aoaPc' = IF event'.type = "input" /\ event'.wait # 0 THEN "ack" ELSE "event"
  /\ AoaUnchanged /\ UNCHANGED <<vecOpen, openError, registered, stale, pasted>>

AnyAck(wait) == ack # 0

\* sc_acksync_wait(): acknowledged up to this sequence number.
Acked(wait) == ack >= wait

\* A stop wins over an acknowledgement.
WaitAck ==
  /\ aoaPc = "ack"
  /\ \/ interrupted /\ aoaPc' = "closing"
     \/ ~interrupted /\ Acked(event.wait) /\ aoaPc' = "event"
  /\ AoaUnchanged /\ UNCHANGED <<aoaQueue, event, vecOpen, openError, registered, stale, pasted>>

\* 500 ms without it: the input is discarded.
AckTimeout ==
  /\ aoaPc = "ack" /\ ~interrupted /\ ~Acked(event.wait)
  /\ aoaPc' = "wait" /\ event' = NoEvent
  /\ AoaUnchanged /\ UNCHANGED <<aoaQueue, vecOpen, openError, registered, stale, pasted>>

Done == aoaPc' = "wait" /\ event' = NoEvent

\* The input of a HID id that did not open fails like another.
SendInput ==
  /\ aoaPc = "event" /\ event.type = "input" /\ Done
  /\ pasted' = IF event.id \in registered /\ event.wait # 0
               THEN pasted \cup {<<event.wait, clipboard>>} ELSE pasted
  /\ AoaUnchanged /\ UNCHANGED <<aoaQueue, vecOpen, openError, registered, stale>>

OpenFails ==
  /\ Done /\ openError' = (openError \/ event.id \in Required)

Register ==
  /\ aoaPc = "event" /\ event.type = "open"
  /\ \/ /\ registered' = registered \cup {event.id} /\ aoaPc' = "describe"
        /\ UNCHANGED <<event, openError>>
     \/ OpenFails /\ UNCHANGED registered
  /\ AoaUnchanged /\ UNCHANGED <<aoaQueue, vecOpen, stale, pasted>>

\* A device that was registered and cannot be described is unregistered, which may fail too;
\* one that opens is to be closed when the thread ends, unless there is no memory to remember it.
Describe ==
  /\ aoaPc = "describe"
  /\ \/ /\ vecOpen' = vecOpen \cup {event.id} /\ Done /\ UNCHANGED <<openError, registered, stale>>
     \/ /\ stale' = stale \cup {event.id} /\ Done /\ UNCHANGED <<openError, registered, vecOpen>>
     \/ /\ OpenFails /\ UNCHANGED vecOpen
        /\ \/ registered' = registered \ {event.id} /\ UNCHANGED stale
           \/ stale' = stale \cup {event.id} /\ UNCHANGED registered
  /\ AoaUnchanged /\ UNCHANGED <<aoaQueue, pasted>>

\* A device that is closed need not be closed when the thread ends.
Closed(id) == vecOpen \ {id}

Unregister ==
  /\ aoaPc = "event" /\ event.type = "close" /\ Done
  /\ \/ registered' = registered \ {event.id} /\ vecOpen' = Closed(event.id) /\ UNCHANGED stale
     \/ stale' = stale \cup {event.id} /\ UNCHANGED <<registered, vecOpen>>
  /\ AoaUnchanged /\ UNCHANGED <<aoaQueue, openError, pasted>>

\* Whatever is still open is unregistered before the thread ends.
CloseAll ==
  /\ aoaPc = "closing"
  /\ IF vecOpen = {} THEN aoaPc' = "ended" /\ UNCHANGED <<vecOpen, registered, stale>>
     ELSE \E id \in vecOpen :
            /\ vecOpen' = vecOpen \ {id} /\ UNCHANGED aoaPc
            /\ \/ registered' = registered \ {id} /\ UNCHANGED stale
               \/ stale' = stale \cup {id} /\ UNCHANGED registered
  /\ AoaUnchanged /\ UNCHANGED <<aoaQueue, event, openError, pasted>>

Thread == Take \/ WaitAck \/ SendInput \/ Register \/ Describe \/ Unregister \/ CloseAll

Next ==
  \/ \E id \in HidIds :
       PushKey(id) \/ Paste(id) \/ GamepadAdded(id) \/ GamepadRemoved(id) \/ GamepadInput(id)
  \/ Stop \/ SetClipboard \/ Ack \/ Start \/ Thread \/ AckTimeout

Spec == Init /\ [][Next]_aoaVars /\ WF_aoaVars(Thread)

-----------------------------------------------------------------------------
\* A paste is injected only once the device has the clipboard it is about, whatever is late, lost
\* or overtaken on the two channels.
PasteIsCurrent == \A paste \in pasted : paste[2] >= paste[1]

\* When the thread has ended, the device has no HID left but those whose unregistration failed.
AllUnregistered ==
  /\ aoaPc = "ended" => registered \subseteq stale
  /\ vecOpen \subseteq registered \cup stale

\* Stopping ends the thread although it waits for an acknowledgement that never comes.
StopEnds == aoaStopped ~> aoaPc = "ended"
=============================================================================
