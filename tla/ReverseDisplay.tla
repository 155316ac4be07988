---------------------------- MODULE ReverseDisplay ----------------------------
(***************************************************************************)
(* The Windows host of the reverse display, app/src/reverse_display.c: the *)
(* main loop, the capture thread, the audio thread and the input thread    *)
(* (receiver.c), which share the atomics of struct reverse_display_state,  *)
(* two watchdogs under watchdog_mutex and the video socket under           *)
(* send_mutex.  One action is one access to shared state, so every         *)
(* interleaving of the four threads is a behaviour.                        *)
(*                                                                         *)
(* The phone is the environment and is not trusted: it sends any control   *)
(* message, acknowledges any pts, reads the stream when it likes (or       *)
(* never) and may disappear.  As any message may arrive at any time, the   *)
(* control socket needs no buffer here.  Deadlines are kept relative to    *)
(* the present (WatchdogOps!Closer), so the clock needs no bound.          *)
(***************************************************************************)
EXTENDS WatchdogOps, Sequences, FiniteSets

CONSTANTS
  MaxInFlight,    \* REVERSE_DISPLAY_MAX_FRAMES_IN_FLIGHT
  EncoderDepth,   \* frames the video encoder may hold back
  AudioWindow,    \* SC_REVERSE_AUDIO_WINDOW
  ReverseAudio,   \* options->reverse_audio
  WireCap,        \* packet parts that fit in the socket buffers
  PhoneTypes,     \* the types of control messages the phone sends
  MaxFrames,      \* bound: frames captured in a behaviour
  MaxAudio        \* bound: audio packets encoded in a behaviour

MessageTypes == {"FRAME_ACK", "AUDIO_ACK", "TOUCH_DOWN", "TOUCH_UP",
                 "PAUSE_VIDEO", "RESUME_VIDEO", "STOP_SESSION",
                 "AUDIO_ENABLE", "AUDIO_DISABLE", "MALFORMED"}

ASSUME DisplayAssumption ==
  /\ MaxInFlight \in Nat \ {0} /\ AudioWindow \in Nat \ {0}
  /\ EncoderDepth \in Nat
  /\ ReverseAudio \in BOOLEAN
  /\ WireCap \in Nat \ {0, 1} /\ PhoneTypes \subseteq MessageTypes
  /\ MaxFrames \in Nat /\ MaxAudio \in Nat

VARIABLES
  stopped, fatal_error, video_paused, force_refresh,   \* the atomics of
  stream_ready, audio_enabled,                         \* reverse_display_state
  last_acked_pts, audio_acked_pts,
  watchdog, audio_watchdog,     \* under watchdog_mutex
  send_mutex,                   \* its owner
  events,                       \* SDL event queue, the three types main acts on
  capturePc, captureOk,         \* capture thread, `ok`
  pending,                      \* pending_pts[0..pending_count-1]
  haveFrame, nextPts, sentPts,
  encoder,                      \* frames inside the video encoder
  audioPc, audioKind, audioPending, audioNext,         \* audio thread
  receiverPc, receiverArg,      \* input thread and the argument it handles
  touching,                     \* touch_contact_count # 0
  mainPc, ret,                  \* main loop and exit code
  wire, video_up,               \* video socket, host to phone
  control_up,                   \* control socket, phone to host
  idr_owed,                     \* history: resumed, no IDR encoded since
  phone_stop                    \* history: a STOP_SESSION ended a healthy session

flags        == <<stopped, fatal_error, video_paused, force_refresh,
                  stream_ready, audio_enabled, last_acked_pts, audio_acked_pts>>
watchdogs    == <<watchdog, audio_watchdog>>
captureVars  == <<capturePc, captureOk, pending, haveFrame, nextPts, sentPts,
                  encoder>>
audioVars    == <<audioPc, audioKind, audioPending, audioNext>>
receiverVars == <<receiverPc, receiverArg, touching>>
mainVars     == <<mainPc, ret>>
links        == <<wire, video_up, control_up>>
history      == <<idr_owed, phone_stop>>

vars == <<flags, watchdogs, send_mutex, events, captureVars, audioVars,
          receiverVars, mainVars, links, history>>

(***************************************************************************)
(* Data.                                                                   *)
(***************************************************************************)
PtsRange == NoPts..MaxFrames
AudioPtsRange == NoPts..MaxAudio

Frame  == [pts : 0..MaxFrames, idr : BOOLEAN]
Packet == [kind : {"config", "video"}, pts : 0..MaxFrames]
     \cup [kind : {"audio-config", "audio", "audio-unavailable"},
           pts : 0..MaxAudio]
Part   == [packet : Packet, part : {"header", "payload"}]

Header(packet)  == [packet |-> packet, part |-> "header"]
Payload(packet) == [packet |-> packet, part |-> "payload"]

(* The leading entries of a window that an acknowledgement covers.         *)
Consumed(window, acked) ==
  CHOOSE n \in 0..Len(window) :
    /\ \A i \in 1..n : window[i] <= acked
    /\ n < Len(window) => window[n + 1] > acked

Unconsumed(window, acked) ==
  SubSeq(window, Consumed(window, acked) + 1, Len(window))

Init ==
  /\ stopped = FALSE /\ fatal_error = FALSE
  /\ video_paused = FALSE /\ force_refresh = FALSE
  /\ stream_ready = FALSE /\ audio_enabled = FALSE
  /\ last_acked_pts = NoPts /\ audio_acked_pts = NoPts
  /\ watchdog = NewWatchdog(FALSE) /\ audio_watchdog = NewWatchdog(TRUE)
  /\ send_mutex = "free"
  /\ events = <<>>
  /\ capturePc = "off" /\ captureOk = TRUE /\ pending = <<>>
  /\ haveFrame = FALSE /\ nextPts = 0 /\ sentPts = NoPts /\ encoder = <<>>
  /\ audioPc = "off" /\ audioKind = "audio" /\ audioPending = <<>>
  /\ audioNext = 0
  /\ receiverPc = "off" /\ receiverArg = NoPts /\ touching = FALSE
  /\ mainPc = "start" /\ ret = "FAILURE"
  /\ wire = <<>> /\ video_up = TRUE
  /\ control_up = TRUE
  /\ idr_owed = FALSE /\ phone_stop = FALSE

(***************************************************************************)
(* Capture thread: reverse_capture_and_encode().                           *)
(***************************************************************************)
CaptureGoto(pc) == capturePc' = pc

(* sc_mutex_lock(&send_mutex), of either sender                            *)
AcquireUnlocked(owner) == send_mutex' = owner
Acquire(owner) == send_mutex = "free" /\ send_mutex' = owner

(* Only a capture or encoder that could not be created fails before the    *)
(* watchdog is started; a frame that could not be allocated fails after.   *)
CaptureInit ==
  /\ capturePc = "init"
  /\ \/ /\ captureOk' = FALSE
        /\ CaptureGoto("exit")
        /\ UNCHANGED watchdog
     \/ /\ watchdog' = Begin(watchdog, Present)
        /\ captureOk' \in BOOLEAN
        /\ CaptureGoto(IF captureOk' THEN "stream-header" ELSE "ready")
  /\ UNCHANGED <<flags, audio_watchdog, send_mutex, events, pending, haveFrame,
                 nextPts, sentPts, encoder, audioVars, receiverVars, mainVars,
                 links, history>>

(* Stream header and decoder configuration.  No other thread writes to the *)
(* socket before stream_ready, so the pair is one step.                    *)
CaptureStreamHeader ==
  LET config == [kind |-> "config", pts |-> 0]
  IN
  /\ capturePc = "stream-header"
  /\ \/ /\ video_up
        /\ Len(wire) + 2 <= WireCap
        /\ wire' = wire \o <<Header(config), Payload(config)>>
        /\ UNCHANGED captureOk
     \/ /\ ~video_up
        /\ captureOk' = FALSE
        /\ UNCHANGED wire
  /\ CaptureGoto("ready")
  /\ UNCHANGED <<flags, watchdogs, send_mutex, events, pending, haveFrame,
                 nextPts, sentPts, encoder, audioVars, receiverVars, mainVars,
                 video_up, control_up, history>>

CaptureReady ==
  /\ capturePc = "ready"
  /\ watchdog' = End(watchdog)
  /\ stream_ready' = captureOk
  /\ CaptureGoto(IF captureOk THEN "top" ELSE "exit")
  /\ UNCHANGED <<stopped, fatal_error, video_paused, force_refresh,
                 audio_enabled, last_acked_pts, audio_acked_pts,
                 audio_watchdog, send_mutex, events, captureOk, pending,
                 haveFrame, nextPts, sentPts, encoder, audioVars, receiverVars,
                 mainVars, links, history>>

WindowOverfull == Len(pending) > MaxInFlight
WindowFull == Len(pending) >= MaxInFlight

(* The pause loop sleeps until the session resumes or stops.               *)
CaptureWakes == stopped \/ ~video_paused

(* The steps that only read shared state and move the thread on.           *)
CaptureMove ==
  \/ /\ capturePc = "top"
     /\ CaptureWakes
     /\ CaptureGoto(IF stopped THEN "exit"
                    ELSE IF WindowFull THEN "wait-ack"
                    ELSE "recheck")
     /\ UNCHANGED pending
  \/ /\ capturePc = "wait-ack"
     /\ stopped \/ Consumed(pending, last_acked_pts) > 0
     /\ pending' = IF stopped THEN pending
                   ELSE Unconsumed(pending, last_acked_pts)
     /\ CaptureGoto("recheck")
  \/ /\ capturePc = "recheck"
     /\ CaptureGoto(IF stopped THEN "exit"
                    ELSE IF video_paused THEN "top" ELSE "grab")
     /\ UNCHANGED pending

CaptureControl ==
  /\ CaptureMove
  /\ UNCHANGED <<flags, watchdogs, send_mutex, events, captureOk, haveFrame,
                 nextPts, sentPts, encoder, audioVars, receiverVars, mainVars,
                 links, history>>

(* A timeout of the duplication encodes the last picture again if there is *)
(* one and a refresh was requested.                                        *)
AnyTimeout == TRUE
NothingToEncode == ~haveFrame \/ ~force_refresh

(* reverse_wait_for_capture() and reverse_capture_next(): stopped while    *)
(* pacing, a lost duplication, a timeout on a static desktop, or a frame.  *)
CaptureGrab ==
  /\ capturePc = "grab"
  /\ \/ /\ stopped
        /\ CaptureGoto("exit")
        /\ UNCHANGED <<captureOk, haveFrame>>
     \/ /\ captureOk' = FALSE
        /\ CaptureGoto("exit")
        /\ UNCHANGED haveFrame
     \/ /\ NothingToEncode
        /\ CaptureGoto("top")
        /\ UNCHANGED <<captureOk, haveFrame>>
     \/ /\ nextPts < MaxFrames
        /\ haveFrame' = TRUE
        /\ CaptureGoto("refresh")
        /\ UNCHANGED captureOk
  /\ UNCHANGED <<flags, watchdogs, send_mutex, events, pending, nextPts,
                 sentPts, encoder, audioVars, receiverVars, mainVars, links,
                 history>>

(* Whether the encoder is asked for an IDR: the first frame always is one. *)
FirstOnly == nextPts = 0
AsIdr == force_refresh \/ nextPts = 0

(* atomic_exchange(force_refresh, false)                                   *)
CaptureRefresh ==
  /\ capturePc = "refresh"
  /\ force_refresh' = FALSE
  /\ encoder' = Append(encoder, [pts |-> nextPts, idr |-> AsIdr])
  /\ idr_owed' = (idr_owed /\ ~AsIdr)
  /\ nextPts' = nextPts + 1
  /\ CaptureGoto("begin")
  /\ UNCHANGED <<stopped, fatal_error, video_paused, stream_ready,
                 audio_enabled, last_acked_pts, audio_acked_pts, watchdogs,
                 send_mutex, events, captureOk, pending, haveFrame, sentPts,
                 audioVars, receiverVars, mainVars, links, phone_stop>>

CaptureBegin ==
  /\ capturePc = "begin"
  /\ watchdog' = Begin(watchdog, Present)
  /\ sentPts' = NoPts
  /\ CaptureGoto("encode")
  /\ UNCHANGED <<flags, audio_watchdog, send_mutex, events, captureOk, pending,
                 haveFrame, nextPts, encoder, audioVars, receiverVars,
                 mainVars, links, history>>

(* A capture of which a packet was sent waits for its acknowledgement.     *)
Pushed(window, pts) == IF pts = NoPts THEN window ELSE Append(window, pts)

(* reverse_encode_frame(): an encoder error, nothing more to receive for   *)
(* now, or a packet, submitted to the watchdog before it is written.       *)
CaptureEncode ==
  /\ capturePc = "encode"
  /\ \/ /\ captureOk' = FALSE
        /\ CaptureGoto("end")
        /\ UNCHANGED <<pending, watchdog>>
     \/ /\ Len(encoder) <= EncoderDepth
        /\ pending' = Pushed(pending, sentPts)
        /\ CaptureGoto("end")
        /\ UNCHANGED <<captureOk, watchdog>>
     \/ /\ encoder # <<>>
        /\ watchdog' = Submit(watchdog, Head(encoder).pts)
        /\ CaptureGoto("lock")
        /\ UNCHANGED <<captureOk, pending>>
  /\ UNCHANGED <<flags, audio_watchdog, send_mutex, events, haveFrame, nextPts,
                 sentPts, encoder, audioVars, receiverVars, mainVars, links,
                 history>>

CaptureLock ==
  /\ capturePc = "lock"
  /\ Acquire("capture")
  /\ CaptureGoto("write-header")
  /\ UNCHANGED <<flags, watchdogs, events, captureOk, pending, haveFrame,
                 nextPts, sentPts, encoder, audioVars, receiverVars, mainVars,
                 links, history>>

(* Both writes of reverse_send_frame_packet() block while the phone does   *)
(* not read, and fail once the socket is interrupted or closed.            *)
CaptureWrite ==
  LET packet == [kind |-> "video", pts |-> Head(encoder).pts]
  IN
  /\ \/ /\ capturePc = "write-header" /\ video_up /\ Len(wire) < WireCap
        /\ wire' = Append(wire, Header(packet))
        /\ CaptureGoto("write-payload")
        /\ UNCHANGED <<captureOk, encoder, sentPts, send_mutex>>
     \/ /\ capturePc = "write-payload" /\ video_up /\ Len(wire) < WireCap
        /\ wire' = Append(wire, Payload(packet))
        /\ encoder' = Tail(encoder)
        /\ sentPts' = packet.pts
        /\ send_mutex' = "free"
        /\ CaptureGoto("encode")
        /\ UNCHANGED captureOk
     \/ /\ capturePc \in {"write-header", "write-payload"} /\ ~video_up
        /\ captureOk' = FALSE
        /\ send_mutex' = "free"
        /\ CaptureGoto("end")
        /\ UNCHANGED <<wire, encoder, sentPts>>
  /\ UNCHANGED <<flags, watchdogs, events, pending, haveFrame, nextPts,
                 audioVars, receiverVars, mainVars, video_up,
                 control_up, history>>

CaptureEnd ==
  /\ capturePc = "end"
  /\ watchdog' = End(watchdog)
  /\ CaptureGoto(IF captureOk THEN "top" ELSE "exit")
  /\ UNCHANGED <<flags, audio_watchdog, send_mutex, events, captureOk, pending,
                 haveFrame, nextPts, sentPts, encoder, audioVars, receiverVars,
                 mainVars, links, history>>

AnyFailure == ~captureOk
UnexpectedFailure == ~captureOk /\ ~stopped

(* reverse_capture_thread(): a failure is reported unless the session is   *)
(* already being stopped.                                                  *)
CaptureExit ==
  /\ \/ /\ capturePc = "exit"
        /\ CaptureGoto(IF UnexpectedFailure THEN "report" ELSE "done")
        /\ UNCHANGED <<fatal_error, events>>
     \/ /\ capturePc = "report"
        /\ fatal_error' = TRUE
        /\ CaptureGoto("push-error")
        /\ UNCHANGED events
     \/ /\ capturePc = "push-error"
        /\ events' = Append(events, "DEMUXER_ERROR")
        /\ CaptureGoto("done")
        /\ UNCHANGED fatal_error
  /\ UNCHANGED <<stopped, video_paused, force_refresh, stream_ready,
                 audio_enabled, last_acked_pts, audio_acked_pts, watchdogs,
                 send_mutex, captureOk, pending, haveFrame, nextPts, sentPts,
                 encoder, audioVars, receiverVars, mainVars, links, history>>

CaptureThread ==
  \/ CaptureInit \/ CaptureStreamHeader \/ CaptureReady
  \/ CaptureControl \/ CaptureGrab \/ CaptureRefresh \/ CaptureBegin
  \/ CaptureEncode \/ CaptureLock \/ CaptureWrite \/ CaptureEnd
  \/ CaptureExit

(***************************************************************************)
(* Audio thread: sc_reverse_audio_run(), capture_session() and             *)
(* reverse_send_audio().                                                   *)
(***************************************************************************)
AudioEnabled ==
  ReverseAudio /\ stream_ready /\ audio_enabled /\ ~video_paused /\ ~stopped

AudioPacket ==
  [kind |-> audioKind,
   pts  |-> IF audioKind = "audio" THEN audioNext ELSE 0]

AudioSends(kind) == audioKind' = kind /\ audioPc' = "send"

(* What a failed send means to its caller: the packet and configuration    *)
(* paths end the session with an UNAVAILABLE notice, and the thread ends   *)
(* when that notice cannot be sent.                                        *)
AudioSendFails ==
  IF audioKind = "audio-unavailable"
  THEN audioPc' = "done" /\ UNCHANGED audioKind
  ELSE AudioSends("audio-unavailable")

AudioSleepsOn == AudioEnabled
AudioWakes == stopped \/ AudioEnabled

AudioIdle ==
  /\ audioPc = "idle"
  /\ AudioWakes
  /\ audioPc' = IF stopped THEN "done" ELSE "open"
  /\ UNCHANGED <<audioKind, audioPending, audioNext, watchdogs, send_mutex, wire>>

AudioOpen ==
  /\ audioPc = "open"
  /\ \/ AudioSends("audio-config")
     \/ AudioSends("audio-unavailable")
  /\ audioPending' = <<>>
  /\ UNCHANGED <<audioNext, watchdogs, send_mutex, wire>>

(* One captured 10 ms of samples: dropped when the phone has a whole       *)
(* window to acknowledge, encoded and sent otherwise.                      *)
AudioSession ==
  /\ audioPc = "session"
  /\ \/ /\ ~AudioEnabled
        /\ audioPc' = "idle"
        /\ UNCHANGED <<audioKind, audioPending>>
     \/ /\ AudioEnabled
        /\ AudioSends("audio-unavailable")
        /\ UNCHANGED audioPending
     \/ /\ AudioEnabled
        /\ audioNext < MaxAudio
        /\ audioPending' = Unconsumed(audioPending, audio_acked_pts)
        /\ IF Len(audioPending') = AudioWindow
           THEN UNCHANGED <<audioPc, audioKind>>
           ELSE AudioSends("audio")
  /\ UNCHANGED <<audioNext, watchdogs, send_mutex, wire>>

AudioSend ==
  /\ audioPc = "send"
  /\ IF stopped
     THEN AudioSendFails /\ UNCHANGED audio_watchdog
     ELSE /\ audio_watchdog' =
               LET begun == Begin(audio_watchdog, Present)
               IN  IF audioKind = "audio" THEN Submit(begun, audioNext)
                                          ELSE begun
          /\ audioPc' = "lock"
          /\ UNCHANGED audioKind
  /\ UNCHANGED <<audioPending, audioNext, watchdog, send_mutex, wire>>

AudioLock ==
  /\ audioPc = "lock"
  /\ Acquire("audio")
  /\ audioPc' = "write-header"
  /\ UNCHANGED <<audioKind, audioPending, audioNext, watchdogs, wire>>

AudioWrite ==
  /\ \/ /\ audioPc = "write-header" /\ video_up /\ Len(wire) < WireCap
        /\ wire' = Append(wire, Header(AudioPacket))
        /\ audioPc' = "write-payload"
        /\ UNCHANGED send_mutex
     \/ /\ audioPc = "write-payload" /\ video_up /\ Len(wire) < WireCap
        /\ wire' = Append(wire, Payload(AudioPacket))
        /\ audioPc' = "sent"
        /\ send_mutex' = "free"
     \/ /\ audioPc \in {"write-header", "write-payload"} /\ ~video_up
        /\ audioPc' = "failed"
        /\ send_mutex' = "free"
        /\ UNCHANGED wire
  /\ UNCHANGED <<audioKind, audioPending, audioNext, watchdogs>>

(* The end of reverse_send_audio(), and what its caller does next.         *)
AudioEnd ==
  /\ audio_watchdog' = End(audio_watchdog)
  /\ \/ /\ audioPc = "failed"
        /\ AudioSendFails
        /\ UNCHANGED <<audioPending, audioNext>>
     \/ /\ audioPc = "sent"
        /\ audioPc' = IF audioKind = "audio-unavailable" THEN "idle"
                      ELSE "session"
        /\ IF audioKind = "audio"
           THEN /\ audioPending' = Append(audioPending, audioNext)
                /\ audioNext' = audioNext + 1
           ELSE UNCHANGED <<audioPending, audioNext>>
        /\ UNCHANGED audioKind
  /\ UNCHANGED <<watchdog, send_mutex, wire>>

AudioThread ==
  /\ \/ AudioIdle \/ AudioOpen \/ AudioSession
     \/ AudioSend \/ AudioLock \/ AudioWrite \/ AudioEnd
  /\ UNCHANGED <<flags, events, captureVars, receiverVars, mainVars,
                 video_up, control_up, history>>

(***************************************************************************)
(* Input thread: run_receiver() and the callbacks of reverse_display.c.    *)
(* It alone injects and releases contacts.                                 *)
(***************************************************************************)
ReceiverGoto(pc, arg) == receiverPc' = pc /\ receiverArg' = arg

(* reverse_cancel_touches()                                                *)
KeepContacts == UNCHANGED touching
ReleaseContacts == touching' = FALSE

(* A message of this type is next.  Those buffered when the phone closes   *)
(* the socket are received before PhoneCloses.                             *)
Receives(type) ==
  receiverPc = "receive" /\ control_up /\ type \in PhoneTypes

(* on_frame_ack and on_audio_ack: the flow-control value is published only *)
(* if the watchdog accepted the acknowledgement, after its mutex.          *)
ReceiveFrameAck(pts) ==
  /\ Receives("FRAME_ACK")
  /\ watchdog' = Ack(watchdog, pts, Present)
  /\ IF AckAccepted(watchdog, pts)
     THEN ReceiverGoto("publish-ack", pts)
     ELSE UNCHANGED <<receiverPc, receiverArg>>
  /\ UNCHANGED <<flags, audio_watchdog, events, touching, history>>

ReceiveAudioAck(pts) ==
  /\ Receives("AUDIO_ACK")
  /\ audio_watchdog' = Ack(audio_watchdog, pts, Present)
  /\ IF AckAccepted(audio_watchdog, pts)
     THEN ReceiverGoto("publish-audio-ack", pts)
     ELSE UNCHANGED <<receiverPc, receiverArg>>
  /\ UNCHANGED <<flags, watchdog, events, touching, history>>

PublishAck ==
  /\ \/ /\ receiverPc = "publish-ack"
        /\ last_acked_pts' = receiverArg
        /\ UNCHANGED audio_acked_pts
     \/ /\ receiverPc = "publish-audio-ack"
        /\ audio_acked_pts' = receiverArg
        /\ UNCHANGED last_acked_pts
  /\ ReceiverGoto("receive", NoPts)
  /\ UNCHANGED <<stopped, fatal_error, video_paused, force_refresh,
                 stream_ready, audio_enabled, watchdogs, events, touching,
                 history>>

(* on_touch: contacts are injected only in a live, visible session.        *)
ReceiveTouch ==
  /\ ~stopped /\ ~video_paused
  /\ \/ Receives("TOUCH_DOWN") /\ touching' = TRUE
     \/ Receives("TOUCH_UP") /\ touching' = FALSE
  /\ UNCHANGED <<flags, watchdogs, events, receiverPc, receiverArg, history>>

(* on_system_action drops every action, and on_touch every contact, once   *)
(* the session is stopping: those messages change nothing.                 *)
ReceivePause ==
  /\ ~stopped
  /\ Receives("PAUSE_VIDEO")
  /\ video_paused' = TRUE
  /\ ReceiverGoto("pause", NoPts)
  /\ UNCHANGED <<stopped, fatal_error, force_refresh, stream_ready,
                 audio_enabled, last_acked_pts, audio_acked_pts, watchdogs,
                 events, touching, history>>

PauseWatchdogs ==
  /\ receiverPc = "pause"
  /\ watchdog' = SetPaused(watchdog, TRUE, Present)
  /\ audio_watchdog' = SetPaused(audio_watchdog, TRUE, Present)
  /\ ReleaseContacts
  /\ ReceiverGoto("receive", NoPts)
  /\ UNCHANGED <<flags, events, history>>

ReceiveResume ==
  /\ ~stopped
  /\ Receives("RESUME_VIDEO")
  /\ watchdog' = SetPaused(watchdog, FALSE, Present)
  /\ audio_watchdog' = SetPaused(audio_watchdog, ~audio_enabled, Present)
  /\ idr_owed' = TRUE
  /\ ReceiverGoto("resume", NoPts)
  /\ UNCHANGED <<flags, events, touching, phone_stop>>

ResumeRefresh ==
  /\ receiverPc = "resume"
  /\ force_refresh' = TRUE
  /\ ReceiverGoto("unpause", NoPts)
  /\ UNCHANGED <<stopped, fatal_error, video_paused, stream_ready,
                 audio_enabled, last_acked_pts, audio_acked_pts, watchdogs,
                 events, touching, history>>

ResumeUnpause ==
  /\ receiverPc = "unpause"
  /\ video_paused' = FALSE
  /\ ReceiverGoto("receive", NoPts)
  /\ UNCHANGED <<stopped, fatal_error, force_refresh, stream_ready,
                 audio_enabled, last_acked_pts, audio_acked_pts, watchdogs,
                 events, touching, history>>

ReceiveAudioSwitch ==
  /\ ~stopped
  /\ \/ Receives("AUDIO_ENABLE") /\ audio_enabled' = TRUE
     \/ Receives("AUDIO_DISABLE") /\ audio_enabled' = FALSE
  /\ ReceiverGoto("audio-switch", NoPts)
  /\ UNCHANGED <<stopped, fatal_error, video_paused, force_refresh,
                 stream_ready, last_acked_pts, audio_acked_pts, watchdogs,
                 events, touching, history>>

MutedOnly == ~audio_enabled
Silent == ~audio_enabled \/ video_paused

AudioSwitchWatchdog ==
  /\ receiverPc = "audio-switch"
  /\ audio_watchdog' = SetPaused(audio_watchdog, Silent, Present)
  /\ ReceiverGoto("receive", NoPts)
  /\ UNCHANGED <<flags, watchdog, events, touching, history>>

ReceiveStop ==
  /\ ~stopped
  /\ Receives("STOP_SESSION")
  /\ stopped' = TRUE
  /\ ReleaseContacts
  /\ phone_stop' = (~fatal_error /\ capturePc # "report")
  /\ ReceiverGoto("push-quit", NoPts)
  /\ UNCHANGED <<fatal_error, video_paused, force_refresh, stream_ready,
                 audio_enabled, last_acked_pts, audio_acked_pts, watchdogs,
                 events, idr_owed>>

(* on_ended, after a malformed message (an error) or a closed or           *)
(* interrupted socket (not one).  Releasing contacts comes first.          *)
ReceiverEnds ==
  /\ receiverPc = "receive"
  /\ ReleaseContacts
  /\ \E error \in BOOLEAN :
       /\ IF error THEN Receives("MALFORMED") ELSE ~control_up
       /\ fatal_error' = (fatal_error \/ (error /\ ~stopped))
       /\ ReceiverGoto(IF stopped THEN "done"
                       ELSE IF error THEN "push-error"
                       ELSE "push-disconnected", NoPts)
  /\ UNCHANGED <<stopped, video_paused, force_refresh, stream_ready,
                 audio_enabled, last_acked_pts, audio_acked_pts, watchdogs,
                 events, history>>

ReceiverPush ==
  /\ \/ /\ receiverPc = "push-quit"
        /\ events' = Append(events, "QUIT")
        /\ ReceiverGoto("receive", NoPts)
     \/ /\ receiverPc = "push-error"
        /\ events' = Append(events, "DEMUXER_ERROR")
        /\ ReceiverGoto("done", NoPts)
     \/ /\ receiverPc = "push-disconnected"
        /\ events' = Append(events, "DEVICE_DISCONNECTED")
        /\ ReceiverGoto("done", NoPts)
  /\ UNCHANGED <<flags, watchdogs, touching, history>>

ReceiverThread ==
  /\ \/ \E pts \in PtsRange : ReceiveFrameAck(pts)
     \/ \E pts \in AudioPtsRange : ReceiveAudioAck(pts)
     \/ PublishAck \/ ReceiveTouch
     \/ ReceivePause \/ PauseWatchdogs
     \/ ReceiveResume \/ ResumeRefresh \/ ResumeUnpause
     \/ ReceiveAudioSwitch \/ AudioSwitchWatchdog
     \/ ReceiveStop \/ ReceiverEnds \/ ReceiverPush
  /\ UNCHANGED <<send_mutex, captureVars, audioVars, mainVars, wire, video_up,
                 control_up>>

(***************************************************************************)
(* Main loop: sc_reverse_display_run().                                    *)
(***************************************************************************)
MainGoto(pc) == mainPc' = pc

(* Each of the three threads may fail to start; audio is not essential.    *)
MainStart ==
  /\ mainPc = "start"
  /\ \/ MainGoto("stop") /\ UNCHANGED <<receiverPc, capturePc, audioPc>>
     \/ /\ receiverPc' = "receive"
        /\ \/ MainGoto("stop") /\ UNCHANGED <<capturePc, audioPc>>
           \/ /\ capturePc' = "init"
              /\ \/ ReverseAudio /\ audioPc' = "idle"
                 \/ UNCHANGED audioPc
              /\ MainGoto("poll")
  /\ UNCHANGED <<ret, flags, events, video_up, control_up>>

OnlyAudioStalled == Expired(audio_watchdog, Present)
Stalled == Expired(watchdog, Present) \/ Expired(audio_watchdog, Present)

(* The GUI may ask to stop at any time; then the watchdogs are polled.     *)
MainPoll ==
  /\ mainPc = "poll"
  /\ \/ ret' = "SUCCESS" /\ MainGoto("stop")
     \/ /\ Stalled
        /\ MainGoto("stop")
        /\ UNCHANGED ret
     \/ /\ ~Stalled
        /\ MainGoto("wait")
        /\ UNCHANGED ret
  /\ UNCHANGED <<flags, events, video_up, control_up, capturePc, audioPc,
                 receiverPc>>

ExitCode(event) ==
  CASE event = "QUIT" -> "SUCCESS"
    [] event = "DEVICE_DISCONNECTED" -> "DISCONNECTED"
    [] event = "DEMUXER_ERROR" -> "FAILURE"

MainWait ==
  /\ mainPc = "wait"
  /\ \/ /\ events # <<>>
        /\ ret' = ExitCode(Head(events))
        /\ events' = Tail(events)
        /\ MainGoto("stop")
     \/ /\ events = <<>>
        /\ MainGoto(IF fatal_error THEN "stop" ELSE "poll")
        /\ UNCHANGED <<ret, events>>
  /\ UNCHANGED <<flags, video_up, control_up, capturePc, audioPc, receiverPc>>

MainStop ==
  /\ mainPc = "stop"
  /\ stopped' = TRUE
  /\ MainGoto("interrupt")
  /\ UNCHANGED <<ret, fatal_error, video_paused, force_refresh, stream_ready,
                 audio_enabled, last_acked_pts, audio_acked_pts, events,
                 video_up, control_up, capturePc, audioPc, receiverPc>>

MainInterrupt ==
  /\ mainPc = "interrupt"
  /\ video_up' = FALSE
  /\ control_up' = FALSE
  /\ MainGoto("join-receiver")
  /\ UNCHANGED <<ret, flags, events, capturePc, audioPc, receiverPc>>

MainJoin ==
  /\ \/ mainPc = "join-receiver" /\ receiverPc \in {"off", "done"}
        /\ MainGoto("join-capture")
     \/ mainPc = "join-capture" /\ capturePc \in {"off", "done"}
        /\ MainGoto("join-audio")
     \/ mainPc = "join-audio" /\ audioPc \in {"off", "done"}
        /\ MainGoto("exited")
  /\ UNCHANGED <<ret, flags, events, video_up, control_up, capturePc, audioPc,
                 receiverPc>>

MainThread ==
  /\ \/ MainStart \/ MainPoll \/ MainWait
     \/ MainStop \/ MainInterrupt \/ MainJoin
  /\ UNCHANGED <<watchdogs, send_mutex, captureOk, pending, haveFrame, nextPts,
                 sentPts, encoder, audioKind, audioPending, audioNext,
                 receiverArg, touching, wire, history>>

(***************************************************************************)
(* Environment: the phone, the network and time.                           *)
(***************************************************************************)
PhoneReads ==
  /\ wire # <<>>
  /\ wire' = Tail(wire)
  /\ UNCHANGED <<video_up, control_up>>

PhoneCloses ==
  /\ video_up \/ control_up
  /\ video_up' = FALSE
  /\ control_up' = FALSE
  /\ UNCHANGED wire

Phone ==
  /\ mainPc \notin {"start", "exited"}
  /\ PhoneReads \/ PhoneCloses
  /\ UNCHANGED <<flags, watchdogs, send_mutex, events, captureVars, audioVars,
                 receiverVars, mainVars, history>>

Tick ==
  /\ mainPc # "exited"
  /\ watchdog' = Closer(watchdog)
  /\ audio_watchdog' = Closer(audio_watchdog)
  /\ UNCHANGED <<flags, send_mutex, events, captureVars, audioVars,
                 receiverVars, mainVars, links, history>>

Exited == mainPc = "exited" /\ UNCHANGED vars

Next == \/ MainThread \/ CaptureThread \/ AudioThread \/ ReceiverThread
        \/ Phone \/ Tick \/ Exited

Spec == Init /\ [][Next]_vars

(* The threads run, and time passes; the phone promises nothing: only what *)
(* the input thread does about a message already received, or about a      *)
(* closed socket, is fair.                                                 *)
Handling == (receiverPc # "receive" \/ ~control_up) /\ ReceiverThread

Fairness ==
  /\ WF_vars(MainThread)
  /\ WF_vars(CaptureThread)
  /\ WF_vars(AudioThread)
  /\ WF_vars(Handling)
  /\ WF_vars(Tick)

FairSpec == Spec /\ Fairness

-----------------------------------------------------------------------------
(***************************************************************************)
(* Type invariant.                                                         *)
(***************************************************************************)
CapturePc == {"off", "init", "stream-header", "ready", "top", "wait-ack",
              "recheck", "grab", "refresh", "begin", "encode", "lock",
              "write-header", "write-payload", "end", "exit", "report",
              "push-error", "done"}
AudioPc == {"off", "idle", "open", "session", "send", "lock", "write-header",
            "write-payload", "sent", "failed", "done"}
ReceiverPc == {"off", "receive", "publish-ack", "publish-audio-ack", "pause",
               "resume", "unpause", "audio-switch", "push-quit", "push-error",
               "push-disconnected", "done"}
MainPc == {"start", "poll", "wait", "stop", "interrupt", "join-receiver",
           "join-capture", "join-audio", "exited"}
Event == {"QUIT", "DEVICE_DISCONNECTED", "DEMUXER_ERROR"}

TypeOK ==
  /\ {stopped, fatal_error, video_paused, force_refresh, stream_ready,
      audio_enabled} \subseteq BOOLEAN
  /\ last_acked_pts \in PtsRange /\ audio_acked_pts \in AudioPtsRange
  /\ watchdog \in Watchdog /\ audio_watchdog \in Watchdog
  /\ send_mutex \in {"free", "capture", "audio"}
  /\ events \in Seq(Event)
  /\ capturePc \in CapturePc /\ captureOk \in BOOLEAN
  /\ pending \in Seq(0..MaxFrames) /\ haveFrame \in BOOLEAN
  /\ nextPts \in 0..MaxFrames /\ sentPts \in PtsRange
  /\ encoder \in Seq(Frame)
  /\ audioPc \in AudioPc
  /\ audioKind \in {"audio-config", "audio", "audio-unavailable"}
  /\ audioPending \in Seq(0..MaxAudio) /\ audioNext \in 0..MaxAudio
  /\ receiverPc \in ReceiverPc /\ receiverArg \in PtsRange \cup AudioPtsRange
  /\ touching \in BOOLEAN
  /\ mainPc \in MainPc /\ ret \in {"SUCCESS", "FAILURE", "DISCONNECTED"}
  /\ wire \in Seq(Part) /\ video_up \in BOOLEAN
  /\ control_up \in BOOLEAN
  /\ idr_owed \in BOOLEAN /\ phone_stop \in BOOLEAN

(***************************************************************************)
(* Safety.                                                                 *)
(***************************************************************************)

(* Across all interleavings of the senders, the input thread and the clock *)
(* each watchdog is armed exactly while its sender is busy or the phone    *)
(* owes an acknowledgement (reverse_watchdog.h as used by the four         *)
(* threads): no stall can go unnoticed, no idle stream is cut.             *)
WatchdogsArmed ==
  /\ ArmedIffOutstanding(watchdog)
  /\ ArmedIffOutstanding(audio_watchdog)

(* Flow control: whatever the phone acknowledges, at most MaxInFlight      *)
(* captures are on their way, so the assertion before pending_pts is       *)
(* written (reverse_display.c:1435) holds, and no frame beyond what an     *)
(* encoder holding EncoderDepth back can make of those captures.           *)
InFlightBounded ==
  LET capturing == capturePc \in {"encode", "lock", "write-header",
                                  "write-payload"} \/ ~captureOk
      captures  == Len(pending) + (IF capturing THEN 1 ELSE 0)
  IN  /\ captures <= MaxInFlight
      /\ watchdog.submitted - watchdog.acked <= captures * (EncoderDepth + 1)

(* The window of pts is never exceeded, nor any other bound of the host's  *)
(* state (reverse_display.c:1435).                                         *)
FlowControlled == TypeOK /\ InFlightBounded

(* Audio and video share one socket: a header is followed by its payload,  *)
(* never by a part of another thread's packet.                             *)
WellFramed ==
  \A i \in 1..(Len(wire) - 1) :
    IF wire[i].part = "header"
    THEN wire[i + 1] = Payload(wire[i].packet)
    ELSE wire[i + 1].part = "header"

(* When the input thread is between messages the watchdogs are suspended   *)
(* exactly for what the host does not send: video and audio of a paused    *)
(* session, audio of a muted one.                                          *)
SuspendedIffNotSending ==
  receiverPc = "receive" =>
    /\ watchdog.paused = video_paused
    /\ audio_watchdog.paused = (video_paused \/ ~audio_enabled)

(* Between messages every watchdog that is armed has something to watch,   *)
(* and is suspended exactly for what the host does not send                *)
(* (reverse_display.c, reverse_watchdog.h).                                *)
WatchdogsFollow == WatchdogsArmed /\ SuspendedIffNotSending

(* A refresh requested by a resume is never lost: until an IDR was encoded *)
(* the request stays pending for the capture thread ("Consume atomically   *)
(* so a concurrent refresh request is not lost", reverse_display.c:1419).  *)
RefreshNotLost ==
  idr_owed /\ ~video_paused /\ receiverPc # "resume" => force_refresh

(* No contact is still held by the host while the phone is in the          *)
(* background, after it stopped the session, or after it went away.  What  *)
(* the desktop sees of one contact and another is in ReverseTouch.         *)
ContactsReleased ==
  touching => /\ ~(video_paused /\ receiverPc = "receive")
              /\ ~phone_stop
              /\ receiverPc # "done"

(* A STOP_SESSION that ends a healthy session is reported as a normal end, *)
(* although the phone closes the sockets under the working threads         *)
(* (reverse_display.c:1896, "Explicit phone Stop is a normal end, not a    *)
(* transport failure").                                                    *)
PhoneStopIsNormalEnd ==
  [][phone_stop /\ mainPc = "wait" /\ mainPc' = "stop" => ret' = "SUCCESS"]_vars

(***************************************************************************)
(* Liveness, under FairSpec.                                               *)
(***************************************************************************)

(* Once anything ends the session, every thread is joined, wherever it was *)
(* blocked, even if the phone never reads or sends again.                  *)
Ending == \/ stopped \/ fatal_error
          \/ receiverPc = "done" \/ capturePc = "done"

ShutdownCompletes == Ending ~> mainPc = "exited"

(* A frame the phone does not acknowledge ends the session, unless the     *)
(* phone goes to the background.                                           *)
StallEndsSession ==
  \A pts \in 0..(MaxFrames - 1) :
    (watchdog.submitted >= pts /\ watchdog.acked < pts)
      ~> (watchdog.acked >= pts \/ video_paused \/ mainPc = "exited")

(* A refresh request is served, even on a static desktop and with a full   *)
(* window, unless the phone pauses or the session ends.                    *)
RefreshServed ==
  force_refresh /\ haveFrame
    ~> \/ ~force_refresh \/ video_paused \/ nextPts = MaxFrames
       \/ mainPc = "exited"
=============================================================================
