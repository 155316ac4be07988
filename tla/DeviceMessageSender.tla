------------------------- MODULE DeviceMessageSender -------------------------
(***************************************************************************)
(* The phone's outgoing control queue, server/.../control/                 *)
(* DeviceMessageSender.java, between those who send (the touch listener,   *)
(* the decoder, the audio player and the session service, on threads of    *)
(* their own) and the thread that writes to the computer.  send() and      *)
(* take() hold the queue's monitor, so each is one step; the write is not. *)
(*                                                                         *)
(* The callers are modelled by what they may send: gestures in Android's   *)
(* order, acknowledgements with growing timestamps, visibility changes     *)
(* that alternate (ReverseSessionService.updateVideoVisibility), audio     *)
(* switches, one explicit stop, and other actions (volume keys...).  What  *)
(* the messages do at the computer is in TouchOps and ReverseDisplay; the  *)
(* record host keeps their net effect there.                               *)
(***************************************************************************)
EXTENDS Integers, Sequences, FiniteSets

CONSTANTS
  Pointers,    \* Android pointer ids
  Capacity,    \* QUEUE_CAPACITY
  MaxPts,      \* bound: last timestamp acknowledged, -1 for none
  Switches,    \* visibility and audio changes
  MaxSwitches, \* bound: how many of them, and of other actions, are sent
  MayEnd       \* the connection may fail or be stopped

ASSUME SenderAssumption ==
  /\ Capacity \in Nat \ {0} /\ MaxPts \in Nat \cup {-1} /\ MaxSwitches \in Nat
  /\ Switches \subseteq {"visible", "audio", "other"} /\ MayEnd \in BOOLEAN

VARIABLES
  queue, stopped,   \* fields of DeviceMessageSender
  thread,           \* the thread: not started, running or ended
  writing,          \* <<message>> taken and not yet written, or <<>>
  fingers,          \* the callers: fingers on the screen,
  visible, audio,   \*   the last visibility and audio state announced,
  acked,            \*   the last timestamp acknowledged, by type,
  ending,           \*   an explicit stop was requested,
  switches,         \*   and the number of switches made
  host,             \* the effect of the messages written so far
  dropped           \* history: a full queue dropped the end of a contact

senderVars == <<queue, stopped, thread, writing>>
callerVars == <<fingers, visible, audio, acked, ending, switches>>
vars == <<senderVars, callerVars, host, dropped>>

AckTypes == {"FRAME_ACK", "AUDIO_ACK"}
SessionTypes == {"PAUSE_VIDEO", "RESUME_VIDEO", "STOP_SESSION"}
AudioTypes == {"AUDIO_ENABLE", "AUDIO_DISABLE"}
TouchTypes == {"DOWN", "POINTER_DOWN", "MOVE", "UP", "CANCEL"}

Message == [type : AckTypes, pts : 0..MaxPts]
      \cup [type : TouchTypes, pointer : Pointers]
      \cup [type : SessionTypes \cup AudioTypes \cup {"OTHER"}]

Init ==
  /\ queue = <<>> /\ stopped = FALSE
  /\ thread = "new" /\ writing = <<>>
  /\ fingers = {} /\ visible = TRUE /\ audio = FALSE
  /\ acked = [type \in AckTypes |-> -1]
  /\ ending = FALSE /\ switches = 0
  /\ host = [contacts |-> {}, paused |-> FALSE, audio |-> FALSE,
             acked |-> [type \in AckTypes |-> -1], stopped |-> FALSE]
  /\ dropped = FALSE

(***************************************************************************)
(* send().                                                                 *)
(***************************************************************************)
(* What Iterator.remove() leaves of q, called at the places in removed.    *)
Removed(q, removed) ==
  LET left[n \in 0..Len(q)] ==
        IF n = 0 THEN <<>>
        ELSE IF n \in removed THEN left[n - 1] ELSE Append(left[n - 1], q[n])
  IN  left[Len(q)]

Places(q, types) == {i \in DOMAIN q : q[i].type \in types}

Without(q, types) == Removed(q, Places(q, types))

Holds(q, type) == \E i \in DOMAIN q : q[i].type = type

(* A session action purges the older ones and every touch.  A pending      *)
(* STOP_SESSION wins, whatever was purged ahead of it.  A pending          *)
(* PAUSE_VIDEO stays ahead of a RESUME_VIDEO.                              *)
Purged == SessionTypes \cup TouchTypes

AheadOfStop(q) == {i \in DOMAIN q : \A j \in 1..i : q[j].type # "STOP_SESSION"}

WithSessionNoPause(q, m) ==
  IF Holds(q, "STOP_SESSION") THEN q ELSE <<m>> \o Without(q, Purged)

WithSession(q, m) ==
  IF Holds(q, "STOP_SESSION")
  THEN Removed(q, Places(q, Purged) \cap AheadOfStop(q))
  ELSE IF m.type = "RESUME_VIDEO" /\ Holds(q, "PAUSE_VIDEO")
  THEN <<[type |-> "PAUSE_VIDEO"], m>> \o Without(q, Purged)
  ELSE <<m>> \o Without(q, Purged)

(* Only the newest acknowledgement of each type waits, ahead of all else.  *)
WithAckLast(q, m) == Append(Without(q, {m.type}), m)
WithAck(q, m) == <<m>> \o Without(q, {m.type})

WithAudioSwitch(q, m) == Append(Without(q, AudioTypes), m)

(* Of the moves of a pointer only the last one waits.                      *)
Coalesced(q, m) ==
  IF m.type # "MOVE" THEN q
  ELSE Removed(q, {i \in Places(q, {"MOVE"}) : q[i].pointer = m.pointer})

(* A full queue evicts its oldest move, or else drops the new message.     *)
Fits(q) == Len(q) < Capacity \/ Holds(q, "MOVE")

OldestMove(q) == {i \in Places(q, {"MOVE"}) : \A j \in Places(q, {"MOVE"}) : i <= j}

WithInput(q, m) ==
  IF Len(q) < Capacity THEN Append(q, m)
  ELSE IF Holds(q, "MOVE") THEN Append(Removed(q, OldestMove(q)), m)
  ELSE q

Send(m) ==
  /\ UNCHANGED <<stopped, thread, writing, host>>
  /\ IF stopped THEN UNCHANGED <<queue, dropped>>
     ELSE IF m.type \in SessionTypes
     THEN queue' = WithSession(queue, m) /\ UNCHANGED dropped
     ELSE IF m.type \in AckTypes
     THEN queue' = WithAck(queue, m) /\ UNCHANGED dropped
     ELSE IF m.type \in AudioTypes
     THEN queue' = WithAudioSwitch(queue, m) /\ UNCHANGED dropped
     ELSE LET q == Coalesced(queue, m)
          IN  /\ queue' = WithInput(q, m)
              /\ dropped' = (dropped \/ (~Fits(q) /\ m.type \in {"UP", "CANCEL"}))

(***************************************************************************)
(* The callers.                                                            *)
(***************************************************************************)
SendTouch(type, pointer) ==
  /\ CASE type = "DOWN" -> fingers = {} /\ fingers' = {pointer}
       [] type = "POINTER_DOWN" -> /\ fingers # {} /\ pointer \notin fingers
                                   /\ fingers' = fingers \cup {pointer}
       [] type = "MOVE" -> pointer \in fingers /\ UNCHANGED fingers
       [] type = "UP" -> pointer \in fingers /\ fingers' = fingers \ {pointer}
       [] type = "CANCEL" -> pointer \in fingers /\ fingers' = {}
  /\ Send([type |-> type, pointer |-> pointer])
  /\ UNCHANGED <<visible, audio, acked, ending, switches>>

SendAck(type) ==
  /\ acked[type] < MaxPts
  /\ acked' = [acked EXCEPT ![type] = @ + 1]
  /\ Send([type |-> type, pts |-> acked'[type]])
  /\ UNCHANGED <<fingers, visible, audio, ending, switches>>

Switch(kind) ==
  /\ kind \in Switches /\ switches < MaxSwitches
  /\ switches' = switches + 1
  /\ UNCHANGED <<fingers, acked, ending>>

SendVisibility ==
  /\ Switch("visible")
  /\ visible' = ~visible
  /\ Send([type |-> IF visible' THEN "RESUME_VIDEO" ELSE "PAUSE_VIDEO"])
  /\ UNCHANGED audio

SendAudioSwitch ==
  /\ Switch("audio")
  /\ audio' = ~audio
  /\ Send([type |-> IF audio' THEN "AUDIO_ENABLE" ELSE "AUDIO_DISABLE"])
  /\ UNCHANGED visible

SendOther ==
  /\ Switch("other")
  /\ Send([type |-> "OTHER"])
  /\ UNCHANGED <<visible, audio>>

(* ReverseSessionService.requestStop()                                     *)
SendStop ==
  /\ ~ending
  /\ ending' = TRUE
  /\ Send([type |-> "STOP_SESSION"])
  /\ UNCHANGED <<fingers, visible, audio, acked, switches>>

(***************************************************************************)
(* The thread.                                                             *)
(***************************************************************************)
Start ==
  /\ thread = "new"
  /\ thread' = "running" /\ stopped' = FALSE
  /\ UNCHANGED <<queue, writing, callerVars, host, dropped>>

TakeUninterrupted ==
  /\ thread = "running" /\ writing = <<>> /\ queue # <<>>
  /\ writing' = <<Head(queue)>> /\ queue' = Tail(queue)
  /\ UNCHANGED <<stopped, thread, callerVars, host, dropped>>

Take ==
  /\ thread = "running" /\ writing = <<>>
  /\ IF stopped
     THEN thread' = "ended" /\ UNCHANGED <<queue, writing>>
     ELSE /\ queue # <<>>
          /\ writing' = <<Head(queue)>> /\ queue' = Tail(queue)
          /\ UNCHANGED thread
  /\ UNCHANGED <<stopped, callerVars, host, dropped>>

(* What the computer does with a message (external to this file).          *)
HostAfter(m) ==
  IF host.stopped THEN host
  ELSE CASE m.type \in AckTypes ->
              [host EXCEPT !.acked[m.type] = IF m.pts > @ THEN m.pts ELSE @]
         [] m.type \in AudioTypes ->
              [host EXCEPT !.audio = (m.type = "AUDIO_ENABLE")]
         [] m.type = "RESUME_VIDEO" -> [host EXCEPT !.paused = FALSE]
         [] m.type = "PAUSE_VIDEO" ->
              [host EXCEPT !.paused = TRUE, !.contacts = {}]
         [] m.type = "STOP_SESSION" ->
              [host EXCEPT !.stopped = TRUE, !.contacts = {}]
         [] m.type = "OTHER" \/ (m.type \in TouchTypes /\ host.paused) -> host
         [] m.type = "DOWN" /\ ~host.paused ->
              [host EXCEPT !.contacts = {m.pointer}]
         [] m.type = "POINTER_DOWN" /\ ~host.paused ->
              [host EXCEPT !.contacts = @ \cup {m.pointer}]
         [] m.type = "MOVE" /\ ~host.paused -> host
         [] m.type = "UP" /\ ~host.paused ->
              [host EXCEPT !.contacts = @ \ {m.pointer}]
         [] m.type = "CANCEL" /\ ~host.paused -> [host EXCEPT !.contacts = {}]

Write ==
  /\ thread = "running" /\ writing # <<>>
  /\ writing' = <<>>
  /\ \/ host' = HostAfter(Head(writing)) /\ UNCHANGED thread
     \/ (MayEnd \/ stopped) /\ thread' = "ended" /\ UNCHANGED host
  /\ UNCHANGED <<queue, stopped, callerVars, dropped>>

(* stop(): the thread is interrupted, wherever it is.                      *)
Stop ==
  /\ MayEnd /\ ~stopped /\ thread # "new"
  /\ stopped' = TRUE /\ queue' = <<>>
  /\ UNCHANGED <<thread, writing, callerVars, host, dropped>>

Callers ==
  \/ \E type \in TouchTypes, pointer \in Pointers : SendTouch(type, pointer)
  \/ \E type \in AckTypes : SendAck(type)
  \/ SendVisibility \/ SendAudioSwitch \/ SendOther \/ SendStop

Thread == Take \/ Write

Next == Start \/ Callers \/ Thread \/ Stop

Spec == Init /\ [][Next]_vars /\ WF_vars(Thread) /\ WF_vars(Start)

-----------------------------------------------------------------------------
TypeOK ==
  /\ queue \in Seq(Message) /\ stopped \in BOOLEAN
  /\ thread \in {"new", "running", "ended"}
  /\ writing \in Seq(Message) /\ Len(writing) <= 1
  /\ fingers \subseteq Pointers /\ {visible, audio, ending} \subseteq BOOLEAN
  /\ acked \in [AckTypes -> -1..MaxPts] /\ switches \in 0..MaxSwitches
  /\ host \in [contacts : SUBSET Pointers, paused : BOOLEAN,
               audio : BOOLEAN, acked : [AckTypes -> -1..MaxPts],
               stopped : BOOLEAN]
  /\ dropped \in BOOLEAN

(* The messages that bypass the capacity are coalesced, so the queue still *)
(* has a bound: two session actions, one acknowledgement of each type and  *)
(* one audio switch more than QUEUE_CAPACITY.                              *)
InputTypes == TouchTypes \cup {"OTHER"}

QueueBounded ==
  Len(queue) <= Capacity + 5 /\ Cardinality(Places(queue, InputTypes)) <= Capacity

(* "Put it ahead of any touch burst" and "lifecycle changes must survive a *)
(* full touch queue" (DeviceMessageSender.java:63 and 32): nothing but the *)
(* other urgent messages is ever ahead of an acknowledgement or a session  *)
(* action.                                                                 *)
UrgentFirst ==
  \A i \in DOMAIN queue : queue[i].type \in AckTypes \cup SessionTypes => i <= 4

(* Once everything was written the computer agrees with the phone about    *)
(* visibility, sound and flow control, whatever was purged, coalesced or   *)
(* dropped from a full queue ("lifecycle messages cannot be dropped by a   *)
(* full touch queue", doc/reverse-display-validation.md:76).               *)
Drained == thread = "running" /\ queue = <<>> /\ writing = <<>> /\ ~stopped

StateDelivered ==
  Drained => /\ host.stopped = ending
             /\ ~ending => /\ host.paused = ~visible
                           /\ host.audio = audio
                           /\ host.acked = acked

(* No contact outlives its finger on the desktop, unless a queue full of   *)
(* other input dropped its end: the purges of a session action never       *)
(* swallow the end of a gesture the computer goes on with.                 *)
NoGhostContact == Drained /\ ~dropped => host.contacts \subseteq fingers

(* Nothing follows an explicit stop but what the queue already let go.     *)
StopIsLastSessionAction ==
  Holds(queue, "STOP_SESSION") =>
    ~Holds(queue, "RESUME_VIDEO") /\ ~Holds(queue, "PAUSE_VIDEO")

(* Whatever is purged, coalesced or dropped, the queue keeps its bound,    *)
(* urgent messages wait for no other, and nothing revives a session that   *)
(* was stopped.                                                            *)
QueueOrdered == TypeOK /\ QueueBounded /\ UrgentFirst /\ StopIsLastSessionAction

(* Once everything is written the computer agrees with the phone, and holds*)
(* no contact the phone does not.                                          *)
ComputerAgrees == StateDelivered /\ NoGhostContact

(* stop() ends the thread wherever it is: waiting, or writing to a         *)
(* connection that never fails (an interrupted thread finds it closed).    *)
ThreadEnds == stopped ~> thread = "ended"
=============================================================================
