------------------------ MODULE ReverseDisplayProofs ------------------------
(***************************************************************************)
(* What ReverseDisplay promises whatever the sizes of its windows, the     *)
(* depth of the encoder, the stall timeout, the messages the phone sends   *)
(* and the order in which the four threads run.                            *)
(*                                                                         *)
(* None of the properties is inductive by itself.  Each part of IInv says  *)
(* what one pair of threads may rely on at every step of the other: which  *)
(* program counters own the socket, what is true of the flags between the  *)
(* two halves of a pause or a resume, and where the frames are between the *)
(* encoder, the watchdog and the window of unacknowledged captures.        *)
(***************************************************************************)
EXTENDS ReverseDisplay, SequenceTheorems, WellFoundedInduction, NaturalsInduction,
        TLAPS

-----------------------------------------------------------------------------
(***************************************************************************)
(* What each operation of reverse_watchdog.h returns, preserves and leaves *)
(* alone.                                                                  *)
(***************************************************************************)
(* A new watchdog is well typed, and neither armed nor outstanding.        *)
LEMMA NewWatchdogCorrect ==
  ASSUME NEW b \in BOOLEAN
  PROVE  /\ NewWatchdog(b) \in Watchdog
         /\ ArmedIffOutstanding(NewWatchdog(b))
BY DEF NewWatchdog, Watchdog, Pts, NoPts, ArmedIffOutstanding, Outstanding

(* The tail shared by ack and set_paused arms iff something is owed.       *)
LEMMA RearmedCorrect ==
  ASSUME NEW w \in Watchdog, NEW t \in Nat
  PROVE  Rearmed(w, t) \in Watchdog /\ ArmedIffOutstanding(Rearmed(w, t))
<1>1. t + StallTimeout \in Nat \ {0}
  BY StallTimeoutAssumption
<1> QED BY <1>1 DEF Rearmed, Watchdog, ArmedIffOutstanding, Outstanding

(* begin() arms an idle watchdog and leaves an armed one alone.            *)
LEMMA BeginCorrect ==
  ASSUME NEW w \in Watchdog, NEW t \in Nat
  PROVE  Begin(w, t) \in Watchdog /\ ArmedIffOutstanding(Begin(w, t))
<1>1. t + StallTimeout \in Nat \ {0}
  BY StallTimeoutAssumption
<1>2. Begin(w, t) \in Watchdog
  BY <1>1 DEF Begin, Watchdog
<1>3. Begin(w, t).busy /\ Begin(w, t).deadline # 0
  BY <1>1 DEF Begin, Watchdog
<1> QED BY <1>2, <1>3 DEF ArmedIffOutstanding, Outstanding

(* submit() is only armed-preserving inside a begin/end bracket, which is  *)
(* why reverse_send_frame_packet() must not be called outside of one.      *)
LEMMA SubmitCorrect ==
  ASSUME NEW w \in Watchdog, NEW pts \in Pts, ArmedIffOutstanding(w)
  PROVE  /\ Submit(w, pts) \in Watchdog
         /\ w.busy => ArmedIffOutstanding(Submit(w, pts))
BY DEF Submit, Watchdog, Pts, NoPts, ArmedIffOutstanding, Outstanding

(* ack(), accepted or not.                                                 *)
LEMMA AckCorrect ==
  ASSUME NEW w \in Watchdog, NEW pts \in Pts, NEW t \in Nat,
         ArmedIffOutstanding(w)
  PROVE  Ack(w, pts, t) \in Watchdog /\ ArmedIffOutstanding(Ack(w, pts, t))
<1>1. [w EXCEPT !.acked = pts] \in Watchdog
  BY DEF Watchdog
<1> QED BY <1>1, RearmedCorrect DEF Ack

(* end() disarms iff every submitted frame was acknowledged.               *)
LEMMA EndCorrect ==
  ASSUME NEW w \in Watchdog, ArmedIffOutstanding(w)
  PROVE  End(w) \in Watchdog /\ ArmedIffOutstanding(End(w))
<1>1. End(w) \in Watchdog
  BY DEF End, Watchdog
<1>2. /\ End(w).busy = FALSE
      /\ End(w).acked = w.acked /\ End(w).submitted = w.submitted
      /\ End(w).deadline = IF w.acked >= w.submitted THEN 0 ELSE w.deadline
  BY DEF End, Watchdog
<1>3. w.acked \in Int /\ w.submitted \in Int
  BY DEF Watchdog, Pts, NoPts
<1> QED BY <1>1, <1>2, <1>3 DEF ArmedIffOutstanding, Outstanding

(* set_paused() in both directions, and when it changes nothing.           *)
LEMMA SetPausedCorrect ==
  ASSUME NEW w \in Watchdog, NEW b \in BOOLEAN, NEW t \in Nat,
         ArmedIffOutstanding(w)
  PROVE  /\ SetPaused(w, b, t) \in Watchdog
         /\ ArmedIffOutstanding(SetPaused(w, b, t))
<1>1. [w EXCEPT !.paused = b] \in Watchdog
  BY DEF Watchdog
<1>2. ArmedIffOutstanding([w EXCEPT !.paused = b])
  BY DEF Watchdog, ArmedIffOutstanding, Outstanding
<1> QED BY <1>1, <1>2, RearmedCorrect DEF SetPaused

(* Measuring deadlines from the present keeps them armed as they come      *)
(* closer: ticking never loses a stall.                                    *)
LEMMA CloserCorrect ==
  ASSUME NEW w \in Watchdog, ArmedIffOutstanding(w)
  PROVE  Closer(w) \in Watchdog /\ ArmedIffOutstanding(Closer(w))
BY DEF Closer, Present, Watchdog, ArmedIffOutstanding, Outstanding

(* Each operation of a well-typed watchdog returns a well-typed one.       *)
LEMMA WatchdogTyped ==
  ASSUME NEW w \in Watchdog
  PROVE  /\ \A t \in Nat : Begin(w, t) \in Watchdog
         /\ \A pts \in Pts : Submit(w, pts) \in Watchdog
         /\ \A pts \in Pts, t \in Nat : Ack(w, pts, t) \in Watchdog
         /\ End(w) \in Watchdog
         /\ \A b \in BOOLEAN, t \in Nat : SetPaused(w, b, t) \in Watchdog
         /\ Closer(w) \in Watchdog
<1>1. ASSUME NEW t \in Nat
      PROVE  Begin(w, t) \in Watchdog
  <2>1. t + StallTimeout \in Nat
    BY StallTimeoutAssumption
  <2> QED BY <2>1 DEF Begin, Watchdog
<1>2. ASSUME NEW pts \in Pts
      PROVE  Submit(w, pts) \in Watchdog
  BY DEF Submit, Watchdog
<1>3. ASSUME NEW pts \in Pts, NEW t \in Nat
      PROVE  Ack(w, pts, t) \in Watchdog
  <2>1. [w EXCEPT !.acked = pts] \in Watchdog
    BY DEF Watchdog
  <2> QED BY <2>1, RearmedCorrect DEF Ack
<1>4. End(w) \in Watchdog
  BY DEF End, Watchdog
<1>5. ASSUME NEW b \in BOOLEAN, NEW t \in Nat
      PROVE  SetPaused(w, b, t) \in Watchdog
  <2>1. [w EXCEPT !.paused = b] \in Watchdog
    BY DEF Watchdog
  <2> QED BY <2>1, RearmedCorrect DEF SetPaused
<1>6. Closer(w) \in Watchdog
  BY DEF Closer, Present, Watchdog
<1> QED BY <1>1, <1>2, <1>3, <1>4, <1>5, <1>6

(* What each operation leaves alone, and what it sets.                     *)
LEMMA WatchdogFields ==
  ASSUME NEW w \in Watchdog
  PROVE  /\ \A t \in Nat :
              /\ Begin(w, t).busy
              /\ Begin(w, t).submitted = w.submitted
              /\ Begin(w, t).acked = w.acked
              /\ Begin(w, t).paused = w.paused
         /\ \A pts \in Pts :
              /\ Submit(w, pts).busy = w.busy
              /\ Submit(w, pts).submitted = IF pts > w.submitted THEN pts ELSE w.submitted
              /\ Submit(w, pts).acked = w.acked
              /\ Submit(w, pts).paused = w.paused
         /\ \A pts \in Pts, t \in Nat :
              /\ Ack(w, pts, t).busy = w.busy
              /\ Ack(w, pts, t).submitted = w.submitted
              /\ Ack(w, pts, t).acked = IF AckAccepted(w, pts) THEN pts ELSE w.acked
              /\ Ack(w, pts, t).paused = w.paused
         /\ End(w).submitted = w.submitted
         /\ End(w).acked = w.acked
         /\ End(w).paused = w.paused
         /\ \A b \in BOOLEAN, t \in Nat :
              /\ SetPaused(w, b, t).busy = w.busy
              /\ SetPaused(w, b, t).submitted = w.submitted
              /\ SetPaused(w, b, t).acked = w.acked
              /\ SetPaused(w, b, t).paused = b
         /\ Closer(w).busy = w.busy
         /\ Closer(w).submitted = w.submitted
         /\ Closer(w).acked = w.acked
         /\ Closer(w).paused = w.paused
BY DEF Begin, Submit, Ack, Rearmed, End, SetPaused, Closer, Watchdog

-----------------------------------------------------------------------------
(***************************************************************************)
(* The inductive invariant.                                                *)
(***************************************************************************)
CaptureWriting == {"write-header", "write-payload"}
AudioWriting == {"write-header", "write-payload"}

(* The threads and their events exist only after the main loop started.    *)
Unstarted ==
  mainPc = "start" =>
    capturePc = "off" /\ audioPc = "off" /\ receiverPc = "off" /\ events = <<>>

(* Type correctness, by the thread that owns the state, with what the      *)
(* thread knows from where it is.                                          *)
FlagsTyped ==
  /\ stopped \in BOOLEAN /\ fatal_error \in BOOLEAN
  /\ video_paused \in BOOLEAN /\ force_refresh \in BOOLEAN
  /\ stream_ready \in BOOLEAN /\ audio_enabled \in BOOLEAN
  /\ last_acked_pts \in PtsRange /\ audio_acked_pts \in AudioPtsRange
  /\ idr_owed \in BOOLEAN /\ phone_stop \in BOOLEAN

WatchdogsTyped == watchdog \in Watchdog /\ audio_watchdog \in Watchdog

CaptureTyped ==
  /\ capturePc \in CapturePc /\ captureOk \in BOOLEAN
  /\ pending \in Seq(0..MaxFrames) /\ haveFrame \in BOOLEAN
  /\ nextPts \in 0..MaxFrames /\ sentPts \in PtsRange
  /\ encoder \in Seq(Frame)
  /\ capturePc = "refresh" => nextPts < MaxFrames
  /\ capturePc \in CaptureWriting \cup {"lock"} => encoder # <<>>

AudioTyped ==
  /\ audioPc \in AudioPc
  /\ audioKind \in {"audio-config", "audio", "audio-unavailable"}
  /\ audioPending \in Seq(0..MaxAudio) /\ audioNext \in 0..MaxAudio
  /\ audioPc \in AudioWriting \cup {"send", "lock", "sent"} =>
       (audioKind = "audio" => audioNext < MaxAudio)

ReceiverTyped ==
  /\ receiverPc \in ReceiverPc /\ receiverArg \in PtsRange \cup AudioPtsRange
  /\ touching \in BOOLEAN
  /\ receiverPc = "publish-ack" => receiverArg \in PtsRange
  /\ receiverPc = "publish-audio-ack" => receiverArg \in AudioPtsRange

MainTyped ==
  /\ mainPc \in MainPc /\ ret \in {"SUCCESS", "FAILURE", "DISCONNECTED"}
  /\ events \in Seq(Event)

SocketTyped ==
  /\ send_mutex \in {"free", "capture", "audio"}
  /\ wire \in Seq(Part) /\ video_up \in BOOLEAN /\ control_up \in BOOLEAN

Typed ==
  /\ FlagsTyped /\ WatchdogsTyped /\ CaptureTyped /\ AudioTyped
  /\ ReceiverTyped /\ MainTyped /\ SocketTyped

(* submit() arms nothing: the capture thread submits only between begin()  *)
(* and end(), when the watchdog is busy and so already armed.              *)
Watched ==
  /\ WatchdogsArmed
  /\ capturePc \in CaptureWriting \cup {"encode", "lock"} => watchdog.busy

(* A pause sets the flag before it suspends the watchdogs, a resume wakes  *)
(* them before it clears the flag.                                         *)
Suspended ==
  /\ receiverPc \in {"resume", "unpause"} =>
       ~watchdog.paused /\ audio_watchdog.paused = ~audio_enabled
  /\ receiverPc = "pause" => video_paused
  /\ receiverPc \notin {"pause", "resume", "unpause"} =>
       watchdog.paused = video_paused
  /\ receiverPc \notin {"pause", "resume", "unpause", "audio-switch"} =>
       audio_watchdog.paused = (video_paused \/ ~audio_enabled)

(* The refresh is requested before the capture thread may run again.       *)
Refreshing ==
  /\ RefreshNotLost
  /\ idr_owed /\ receiverPc = "unpause" => force_refresh

(* A contact is held only by a session that is not paused, or is about to  *)
(* release it, and the end of the input thread comes after its release.    *)
Released ==
  /\ phone_stop => stopped
  /\ touching =>
       /\ video_paused => receiverPc = "pause"
       /\ receiverPc \notin {"push-error", "push-disconnected", "done"}
       /\ ~phone_stop

(* The mutex is owned exactly while its owner writes, and the audio thread *)
(* does not send before the stream header was written without the mutex.   *)
Locked ==
  /\ send_mutex = "capture" <=> capturePc \in CaptureWriting
  /\ send_mutex = "audio" <=> audioPc \in AudioWriting
  /\ capturePc \in {"off", "init", "stream-header", "ready"} => ~stream_ready
  /\ ~stream_ready => audioPc \in {"off", "idle", "done"}

(* A header that is last on a live socket belongs to the packet of the     *)
(* thread that is about to write its payload.                              *)
LastPart == wire[Len(wire)]
CapturePacket == [kind |-> "video", pts |-> Head(encoder).pts]

Framed ==
  /\ WellFramed
  /\ video_up /\ wire # <<>> =>
       IF capturePc = "write-payload" THEN LastPart = Header(CapturePacket)
       ELSE IF audioPc = "write-payload" THEN LastPart = Header(AudioPacket)
       ELSE LastPart.part = "payload"

(* Every error event was announced in fatal_error first, only the end of   *)
(* the input thread reports a disconnection, and a STOP_SESSION received   *)
(* by a healthy session leaves no failure for any thread to report.        *)
NoEvent(event) == \A i \in 1..Len(events) : events[i] # event

Reported ==
  /\ receiverPc # "done" => NoEvent("DEVICE_DISCONNECTED")
  /\ ~fatal_error =>
       /\ NoEvent("DEMUXER_ERROR")
       /\ capturePc # "push-error" /\ receiverPc # "push-error"
  /\ phone_stop =>
       /\ stopped /\ ~fatal_error /\ capturePc # "report"
       /\ receiverPc # "push-disconnected" /\ NoEvent("DEVICE_DISCONNECTED")

(* The capture thread passes the full window only when it stops, so it has *)
(* room for the capture it is making.                                      *)
Windowed ==
  /\ Len(pending) <= MaxInFlight
  /\ \/ capturePc \in {"off", "init", "stream-header", "grab", "refresh"}
     \/ capturePc \in CaptureWriting \cup {"begin", "encode", "lock"}
     \/ ~captureOk
     => Len(pending) < MaxInFlight
  /\ capturePc = "recheck" => stopped \/ Len(pending) < MaxInFlight
  /\ ~captureOk =>
       capturePc \in {"ready", "end", "exit", "report", "push-error", "done"}

(* One capture lets the encoder return itself and what it held back.  The  *)
(* acknowledgement the capture thread reads may be older than the one the  *)
(* watchdog accepted, never newer, and two captures of the window are at   *)
(* most as far apart as the captures between them can explain.             *)
LastPending == IF pending = <<>> THEN last_acked_pts ELSE pending[Len(pending)]
Made == EncoderDepth + 1

Acknowledged ==
  /\ last_acked_pts <= watchdog.acked
  /\ receiverPc = "publish-ack" => receiverArg = watchdog.acked
  /\ \A i \in 1..Len(pending) : pending[i] <= last_acked_pts + i * Made
  /\ \A i, j \in 1..Len(pending) :
       i <= j => pending[j] <= pending[i] + (j - i) * Made

(* The encoder holds the latest frames in order, and the watchdog was told *)
(* of every frame that left it.                                            *)
Numbered ==
  /\ \A i \in 1..Len(encoder) : encoder[i].pts = nextPts - Len(encoder) + i - 1
  /\ captureOk =>
       IF capturePc \in CaptureWriting \cup {"lock"}
       THEN watchdog.submitted = nextPts - Len(encoder)
       ELSE watchdog.submitted = nextPts - Len(encoder) - 1

(* Between captures the encoder holds back at most EncoderDepth frames and *)
(* whatever was sent is covered by the window; during one, by the window   *)
(* and that capture.                                                       *)
Counted ==
  /\ capturePc \notin CaptureWriting \cup {"begin", "encode", "lock"} =>
       \/ ~captureOk
       \/ /\ Len(encoder) <= EncoderDepth
          /\ watchdog.submitted <= LastPending
  /\ capturePc \in CaptureWriting \cup {"begin", "encode", "lock"} =>
       nextPts - 1 <= LastPending + Made
  /\ capturePc = "begin" => watchdog.submitted <= LastPending
  /\ capturePc = "encode" =>
       IF sentPts = NoPts THEN watchdog.submitted <= LastPending
       ELSE sentPts = watchdog.submitted
  /\ ~captureOk => watchdog.submitted <= LastPending + Made

IInv ==
  /\ Typed /\ Unstarted /\ Watched /\ Suspended /\ Refreshing /\ Released
  /\ Locked /\ Framed /\ Reported /\ Windowed /\ Acknowledged /\ Numbered
  /\ Counted

-----------------------------------------------------------------------------
(***************************************************************************)
(* Windows and acknowledgements.                                           *)
(***************************************************************************)

(* A nonempty set of natural numbers has a least element: the well-        *)
(* foundedness of < used as a minimal counterexample.                      *)
LEMMA LeastNumber ==
  ASSUME NEW T \in SUBSET Nat, T # {}
  PROVE  \E n \in T : \A m \in T : n <= m
<1> DEFINE Less == {ss \in Nat \X Nat : ss[1] < ss[2]}
<1>1. IsWellFoundedOn(Less, Nat)
  BY NatLessThanWellFounded DEF OpToRel
<1>2. PICK n \in T : \A m \in T : <<m, n>> \notin Less
  <2> HIDE DEF Less
  <2> QED BY <1>1, WFMin
<1>3. \A m \in T : ~(m < n)
  BY <1>2
<1> QED BY <1>3

(* The number of leading entries an acknowledgement covers exists and is   *)
(* what the loop of reverse_consume_acks() leaves: all of them are covered *)
(* and the next one is not.                                                *)
LEMMA ConsumedCorrect ==
  ASSUME NEW S \in SUBSET Int, NEW window \in Seq(S), NEW acked \in Int
  PROVE  /\ Consumed(window, acked) \in 0..Len(window)
         /\ \A i \in 1..Consumed(window, acked) : window[i] <= acked
<1> DEFINE Ends(n) == n < Len(window) => window[n + 1] > acked
           T == {n \in 0..Len(window) : Ends(n)}
           Prefix(n) == /\ \A i \in 1..n : window[i] <= acked
                        /\ n < Len(window) => window[n + 1] > acked
<1>1. Len(window) \in Nat /\ \A i \in 1..Len(window) : window[i] \in Int
  <2>1. Len(window) \in Nat /\ \A i \in 1..Len(window) : window[i] \in S
    BY LenProperties, ElementOfSeq
  <2> QED BY <2>1
<1>2. T \in SUBSET Nat /\ Len(window) \in T
  BY <1>1
<1>3. PICK n \in T : \A m \in T : n <= m
  <2> HIDE DEF T
  <2> QED BY <1>2, LeastNumber
<1>4. \A i \in 1..n : window[i] <= acked
  <2> SUFFICES ASSUME NEW i \in 1..n PROVE window[i] <= acked
    OBVIOUS
  <2>1. n \in 0..Len(window)
    BY <1>3
  <2>2. i - 1 \notin T
    <3> HIDE DEF T
    <3> QED BY <1>3, <2>1
  <2>3. ~(i - 1 < Len(window) => window[i - 1 + 1] > acked)
    BY <2>1, <2>2, <1>1
  <2> QED BY <2>1, <2>3, <1>1
<1>5. \E m \in 0..Len(window) : Prefix(m)
  BY <1>3, <1>4
<1>6. Consumed(window, acked) = CHOOSE m \in 0..Len(window) : Prefix(m)
  BY DEF Consumed
<1> HIDE DEF Prefix
<1>7. /\ Consumed(window, acked) \in 0..Len(window)
      /\ Prefix(Consumed(window, acked))
  BY <1>5, <1>6
<1> QED BY <1>7 DEF Prefix

(* What is left of a window is a suffix of it.                             *)
LEMMA UnconsumedCorrect ==
  ASSUME NEW S \in SUBSET Int, NEW window \in Seq(S), NEW acked \in Int
  PROVE  LET rest == Unconsumed(window, acked)
             n    == Consumed(window, acked)
         IN  /\ rest \in Seq(S)
             /\ n \in 0..Len(window)
             /\ Len(rest) = Len(window) - n
             /\ \A i \in 1..Len(rest) : rest[i] = window[n + i]
             /\ n > 0 => window[n] <= acked
<1> DEFINE n == Consumed(window, acked)
<1>1. n \in 0..Len(window) /\ \A i \in 1..n : window[i] <= acked
  BY ConsumedCorrect
<1>2. Len(window) \in Nat
  OBVIOUS
<1> HIDE DEF n
<1> DEFINE rest == SubSeq(window, n + 1, Len(window))
<1>3. /\ rest \in Seq(S)
      /\ Len(rest) = Len(window) - n
      /\ \A i \in 1..Len(rest) : rest[i] = window[n + i]
  <2>1. \A i \in (n + 1)..Len(window) : window[i] \in S
    BY <1>1, <1>2, ElementOfSeq
  <2> QED BY <1>1, <1>2, <2>1, SubSeqProperties
<1>4. n > 0 => window[n] <= acked
  BY <1>1
<1> QED BY <1>1, <1>3, <1>4 DEF Unconsumed, n

-----------------------------------------------------------------------------
(***************************************************************************)
(* What each thread leaves alone.                                          *)
(***************************************************************************)

(* What the capture thread never writes.                                   *)
LEMMA CaptureFootprint ==
  ASSUME CaptureThread
  PROVE  UNCHANGED <<stopped, video_paused, audio_enabled, last_acked_pts,
                     audio_acked_pts, audio_watchdog, audioVars, receiverVars,
                     mainVars, video_up, control_up, phone_stop>>
<1> USE DEF flags, watchdogs, links, history
<1>1. CASE CaptureInit BY <1>1 DEF CaptureInit
<1>2. CASE CaptureStreamHeader BY <1>2 DEF CaptureStreamHeader
<1>3. CASE CaptureReady BY <1>3 DEF CaptureReady
<1>4. CASE CaptureControl BY <1>4 DEF CaptureControl
<1>5. CASE CaptureGrab BY <1>5 DEF CaptureGrab
<1>6. CASE CaptureRefresh BY <1>6 DEF CaptureRefresh
<1>7. CASE CaptureBegin BY <1>7 DEF CaptureBegin
<1>8. CASE CaptureEncode BY <1>8 DEF CaptureEncode
<1>9. CASE CaptureLock BY <1>9 DEF CaptureLock
<1>10. CASE CaptureWrite BY <1>10 DEF CaptureWrite
<1>11. CASE CaptureEnd BY <1>11 DEF CaptureEnd
<1>12. CASE CaptureExit BY <1>12 DEF CaptureExit
<1> QED
  BY <1>1, <1>2, <1>3, <1>4, <1>5, <1>6, <1>7, <1>8, <1>9, <1>10, <1>11, <1>12
  DEF CaptureThread

(* What the audio thread never writes.                                     *)
LEMMA AudioFootprint ==
  ASSUME AudioThread
  PROVE  UNCHANGED <<flags, events, captureVars, receiverVars, mainVars,
                     watchdog, video_up, control_up, history>>
<1> USE DEF watchdogs
<1>1. UNCHANGED <<flags, events, captureVars, receiverVars, mainVars, video_up,
                  control_up, history>>
  BY DEF AudioThread
<1>2. UNCHANGED watchdog
  BY
  DEF AudioThread, AudioIdle, AudioOpen, AudioSession, AudioSend, AudioLock,
      AudioWrite, AudioEnd
<1> QED BY <1>1, <1>2

(* What the input thread never writes.                                     *)
LEMMA ReceiverFootprint ==
  ASSUME ReceiverThread
  PROVE  UNCHANGED <<stream_ready, send_mutex, captureVars, audioVars, mainVars,
                     wire, video_up, control_up>>
<1>1. UNCHANGED <<send_mutex, captureVars, audioVars, mainVars, wire, video_up,
                  control_up>>
  BY DEF ReceiverThread
<1>2. UNCHANGED stream_ready
  BY
  DEF ReceiverThread, ReceiveFrameAck, ReceiveAudioAck, PublishAck,
      ReceiveTouch, ReceivePause, PauseWatchdogs, ReceiveResume,
      ResumeRefresh, ResumeUnpause, ReceiveAudioSwitch, AudioSwitchWatchdog,
      ReceiveStop, ReceiverEnds, ReceiverPush, flags
<1> QED BY <1>1, <1>2

(* What the main loop never writes, and how it touches the rest: it starts *)
(* the threads once, consumes events and only ever stops things.           *)
LEMMA MainFootprint ==
  ASSUME MainThread
  PROVE  /\ UNCHANGED <<fatal_error, video_paused, force_refresh, stream_ready,
                        audio_enabled, last_acked_pts, audio_acked_pts,
                        watchdogs, send_mutex, captureOk, pending, haveFrame,
                        nextPts, sentPts, encoder, audioKind, audioPending,
                        audioNext, receiverArg, touching, wire, history>>
         /\ \/ UNCHANGED <<capturePc, audioPc, receiverPc>>
            \/ /\ mainPc = "start"
               /\ capturePc' \in {capturePc, "init"}
               /\ audioPc' \in {audioPc, "idle"}
               /\ receiverPc' \in {receiverPc, "receive"}
         /\ stopped' \in {stopped, TRUE}
         /\ video_up' \in {video_up, FALSE}
         /\ control_up' \in {control_up, FALSE}
         /\ events' = events \/ (events # <<>> /\ events' = Tail(events))
BY
DEF MainThread, MainStart, MainPoll, MainWait, MainStop, MainInterrupt,
    MainJoin, flags

(* stopped is never cleared.                                               *)
LEMMA StoppedStays == ASSUME [Next]_vars PROVE stopped => stopped'
<1>1. CASE MainThread
  BY <1>1, MainFootprint
<1>2. CASE CaptureThread
  BY <1>2, CaptureFootprint
<1>3. CASE AudioThread
  BY <1>3, AudioFootprint DEF flags
<1>4. CASE ReceiverThread
  BY <1>4
  DEF ReceiverThread, ReceiveFrameAck, ReceiveAudioAck, PublishAck,
      ReceiveTouch, ReceivePause, PauseWatchdogs, ReceiveResume,
      ResumeRefresh, ResumeUnpause, ReceiveAudioSwitch, AudioSwitchWatchdog,
      ReceiveStop, ReceiverEnds, ReceiverPush, flags
<1>5. CASE Phone \/ Tick \/ UNCHANGED vars
  BY <1>5 DEF Phone, Tick, vars, flags
<1> QED BY <1>1, <1>2, <1>3, <1>4, <1>5 DEF Next, Exited

(* What every step of another thread leaves alone.                         *)
LEMMA CaptureIdle ==
  ASSUME Unstarted, [Next]_vars, ~CaptureThread
  PROVE  /\ UNCHANGED <<captureOk, pending, haveFrame, nextPts, sentPts,
                        encoder>>
         /\ capturePc' = capturePc \/ (capturePc = "off" /\ capturePc' = "init")
<1>1. CASE MainThread
  <2>1. capturePc' = capturePc \/ (capturePc = "off" /\ capturePc' = "init")
    BY <1>1, MainFootprint DEF Unstarted
  <2> QED BY <1>1, <2>1, MainFootprint
<1>2. CASE AudioThread
  BY <1>2, AudioFootprint DEF captureVars
<1>3. CASE ReceiverThread
  BY <1>3, ReceiverFootprint DEF captureVars
<1>4. CASE Phone \/ Tick \/ UNCHANGED vars
  BY <1>4 DEF Phone, Tick, vars, captureVars
<1> QED BY <1>1, <1>2, <1>3, <1>4 DEF Next, Exited

(* Only the capture thread submits to the watchdog of the video.           *)
LEMMA SubmittedKept ==
  ASSUME WatchdogsTyped, [Next]_vars, ~CaptureThread
  PROVE  watchdog'.submitted = watchdog.submitted
<1>0. watchdog \in Watchdog /\ Present \in Nat
  BY DEF WatchdogsTyped, Present
<1>1. CASE MainThread
  BY <1>1, MainFootprint DEF watchdogs
<1>2. CASE AudioThread
  BY <1>2, AudioFootprint
<1>3. CASE ReceiverThread
  <2>1. ASSUME NEW pts \in PtsRange, ReceiveFrameAck(pts)
        PROVE  watchdog'.submitted = watchdog.submitted
    <3>1. pts \in Pts
      BY DisplayAssumption DEF PtsRange, Pts, NoPts
    <3> QED BY <1>0, <2>1, <3>1, WatchdogFields DEF ReceiveFrameAck
  <2>2. CASE PauseWatchdogs \/ ReceiveResume
    BY <1>0, <2>2
    DEF PauseWatchdogs, ReceiveResume, SetPaused, Rearmed, Watchdog
  <2>3. CASE \/ \E pts \in AudioPtsRange : ReceiveAudioAck(pts)
             \/ PublishAck \/ ReceiveTouch \/ ReceivePause \/ ResumeRefresh
             \/ ResumeUnpause
             \/ ReceiveAudioSwitch \/ AudioSwitchWatchdog \/ ReceiveStop
             \/ ReceiverEnds
             \/ ReceiverPush
    BY <2>3
    DEF ReceiveAudioAck, PublishAck, ReceiveTouch, ReceivePause,
        ResumeRefresh, ResumeUnpause, ReceiveAudioSwitch, AudioSwitchWatchdog,
        ReceiveStop, ReceiverEnds, ReceiverPush, watchdogs
  <2> QED BY <1>3, <2>1, <2>2, <2>3 DEF ReceiverThread
<1>4. CASE Tick
  BY <1>0, <1>4, WatchdogFields DEF Tick
<1>5. CASE Phone \/ UNCHANGED vars
  BY <1>5 DEF Phone, vars, watchdogs
<1> QED BY <1>1, <1>2, <1>3, <1>4, <1>5 DEF Next, Exited

-----------------------------------------------------------------------------
(***************************************************************************)
(* Types.                                                                  *)
(***************************************************************************)

(* The parts of the type invariant together.                               *)
LEMMA TypedIsTypeOK == Typed => TypeOK
BY
DEF Typed, TypeOK, FlagsTyped, WatchdogsTyped, CaptureTyped, AudioTyped,
    ReceiverTyped, MainTyped, SocketTyped

(* The initial state is well typed.                                        *)
LEMMA InitTyped == Init => Typed
<1> SUFFICES ASSUME Init PROVE Typed OBVIOUS
<1> USE DisplayAssumption DEF Init
<1>0. NoPts \in PtsRange /\ NoPts \in AudioPtsRange
  BY DEF PtsRange, AudioPtsRange, NoPts
<1>1. FlagsTyped BY <1>0 DEF FlagsTyped
<1>2. WatchdogsTyped BY NewWatchdogCorrect DEF WatchdogsTyped
<1>3. CaptureTyped
  <2>1. /\ 0 \in 0..MaxFrames /\ pending \in Seq(0..MaxFrames)
        /\ encoder \in Seq(Frame)
    OBVIOUS
  <2>2. /\ capturePc = "off" /\ captureOk = TRUE /\ haveFrame = FALSE
        /\ nextPts = 0 /\ sentPts = NoPts
    OBVIOUS
  <2> QED BY <1>0, <2>1, <2>2 DEF CaptureTyped, CapturePc, CaptureWriting
<1>4. AudioTyped BY DEF AudioTyped, AudioPc, AudioWriting
<1>5. ReceiverTyped BY <1>0 DEF ReceiverTyped, ReceiverPc
<1>6. MainTyped BY DEF MainTyped, MainPc
<1>7. SocketTyped BY DEF SocketTyped
<1> QED BY <1>1, <1>2, <1>3, <1>4, <1>5, <1>6, <1>7 DEF Typed

(* The packet the encoder returns is a frame, and its pts one the watchdog *)
(* takes.                                                                  *)
LEMMA EncoderHead ==
  ASSUME CaptureTyped, encoder # <<>>
  PROVE  Head(encoder) \in Frame /\ Head(encoder).pts \in Pts
<1>1. Head(encoder) \in Frame
  BY HeadTailProperties DEF CaptureTyped
<1> QED BY <1>1, DisplayAssumption DEF Frame, Pts

(* The capture thread neither suspends its watchdog nor accepts            *)
(* acknowledgements for it.                                                *)
LEMMA CaptureWatchdog ==
  ASSUME CaptureThread, WatchdogsTyped, CaptureTyped
  PROVE  watchdog'.paused = watchdog.paused /\ watchdog'.acked = watchdog.acked
<1>0. watchdog \in Watchdog /\ Present \in Nat
  BY DEF WatchdogsTyped, Present
<1>1. CASE CaptureEncode
  <2>1. encoder # <<>> => Head(encoder).pts \in Pts
    BY EncoderHead
  <2> QED BY <1>0, <1>1, <2>1, WatchdogFields DEF CaptureEncode
<1>2. CASE CaptureInit \/ CaptureReady \/ CaptureBegin \/ CaptureEnd
  BY <1>0, <1>2, WatchdogFields
  DEF CaptureInit, CaptureReady, CaptureBegin, CaptureEnd
<1>3. CASE \/ CaptureStreamHeader \/ CaptureControl \/ CaptureGrab
           \/ CaptureRefresh \/ CaptureLock \/ CaptureWrite \/ CaptureExit
  BY <1>3
  DEF CaptureStreamHeader, CaptureControl, CaptureGrab, CaptureRefresh,
      CaptureLock, CaptureWrite, CaptureExit, watchdogs
<1> QED BY <1>1, <1>2, <1>3 DEF CaptureThread

(* Every step keeps the atomics well typed.                                *)
LEMMA FlagsStep ==
  ASSUME FlagsTyped, CaptureTyped, ReceiverTyped, [Next]_vars PROVE FlagsTyped'
<1> USE DEF FlagsTyped
<1>1. CASE MainThread
  <2>1. stopped' \in BOOLEAN
    BY <1>1, MainFootprint
  <2> QED BY <1>1, <2>1, MainFootprint DEF history
<1>2. CASE CaptureThread
  <2>1. /\ fatal_error' \in BOOLEAN /\ force_refresh' \in BOOLEAN
        /\ stream_ready' \in BOOLEAN /\ idr_owed' \in BOOLEAN
    BY <1>2
    DEF CaptureTyped, CaptureThread, CaptureInit, CaptureStreamHeader,
        CaptureReady, CaptureControl, CaptureGrab, CaptureRefresh,
        CaptureBegin, CaptureEncode, CaptureLock, CaptureWrite, CaptureEnd,
        CaptureExit, flags, history
  <2> QED BY <1>2, <2>1, CaptureFootprint
<1>3. CASE AudioThread
  BY <1>3, AudioFootprint DEF flags, history
<1>4. CASE ReceiverThread
  <2> USE DEF flags, history
  <2>1. ASSUME NEW pts, ReceiveFrameAck(pts) \/ ReceiveAudioAck(pts)
        PROVE  FlagsTyped'
    BY <2>1 DEF ReceiveFrameAck, ReceiveAudioAck
  <2>2. CASE PublishAck \/ ReceiveTouch \/ ReceivePause \/ PauseWatchdogs
    BY <2>2
    DEF PublishAck, ReceiveTouch, ReceivePause, PauseWatchdogs, ReceiverTyped
  <2>3. CASE ReceiveResume \/ ResumeRefresh \/ ResumeUnpause
    BY <2>3 DEF ReceiveResume, ResumeRefresh, ResumeUnpause
  <2>4. CASE ReceiveAudioSwitch \/ AudioSwitchWatchdog
    BY <2>4 DEF ReceiveAudioSwitch, AudioSwitchWatchdog
  <2>5. CASE ReceiveStop \/ ReceiverEnds \/ ReceiverPush
    BY <2>5 DEF ReceiveStop, ReceiverEnds, ReceiverPush
  <2> QED BY <1>4, <2>1, <2>2, <2>3, <2>4, <2>5 DEF ReceiverThread
<1>5. CASE Phone BY <1>5 DEF Phone, flags, history
<1>6. CASE Tick BY <1>6 DEF Tick, flags, history
<1>7. CASE UNCHANGED vars BY <1>7 DEF vars, flags, history
<1> QED BY <1>1, <1>2, <1>3, <1>4, <1>5, <1>6, <1>7 DEF Next, Exited

(* Every step keeps both watchdogs well typed.                             *)
LEMMA WatchdogsStep ==
  ASSUME FlagsTyped, WatchdogsTyped, CaptureTyped, AudioTyped, [Next]_vars
  PROVE  WatchdogsTyped'
<1> USE DEF WatchdogsTyped
<1>0. Present \in Nat BY DEF Present
<1>1. CASE MainThread
  BY <1>1, MainFootprint DEF watchdogs
<1>2. CASE CaptureThread
  <2>1. audio_watchdog' \in Watchdog
    BY <1>2, CaptureFootprint
  <2>2. CASE CaptureEncode
    <3>2. encoder # <<>> => Head(encoder).pts \in Pts
      BY EncoderHead
    <3> QED BY <1>0, <2>1, <2>2, <3>2, WatchdogTyped DEF CaptureEncode
  <2>3. CASE CaptureInit
    BY <1>0, <2>1, <2>3, WatchdogTyped DEF CaptureInit
  <2>4. CASE CaptureReady \/ CaptureBegin \/ CaptureEnd
    BY <1>0, <2>1, <2>4, WatchdogTyped
    DEF CaptureReady, CaptureBegin, CaptureEnd
  <2>5. CASE \/ CaptureStreamHeader \/ CaptureControl \/ CaptureGrab
             \/ CaptureRefresh
             \/ CaptureLock \/ CaptureWrite \/ CaptureExit
    BY <2>5
    DEF CaptureStreamHeader, CaptureControl, CaptureGrab, CaptureRefresh,
        CaptureLock, CaptureWrite, CaptureExit, watchdogs
  <2> QED BY <1>2, <2>2, <2>3, <2>4, <2>5 DEF CaptureThread
<1>3. CASE AudioThread
  <2>1. watchdog' \in Watchdog
    BY <1>3, AudioFootprint
  <2>2. audioNext \in Pts
      BY DEF AudioTyped, Pts
  <2>3. audio_watchdog' \in Watchdog
    BY <1>0, <1>3, <2>2, WatchdogTyped
    DEF AudioThread, AudioIdle, AudioOpen, AudioSession, AudioSend, AudioLock,
        AudioWrite, AudioEnd, watchdogs
  <2> QED BY <2>1, <2>3
<1>4. CASE ReceiverThread
  <2>1. ASSUME NEW pts \in PtsRange, ReceiveFrameAck(pts) PROVE WatchdogsTyped'
    <3>1. pts \in Pts
      BY DisplayAssumption DEF PtsRange, Pts, NoPts
    <3> QED BY <1>0, <2>1, <3>1, WatchdogTyped DEF ReceiveFrameAck
  <2>2. ASSUME NEW pts \in AudioPtsRange, ReceiveAudioAck(pts)
        PROVE  WatchdogsTyped'
    <3>1. pts \in Pts
      BY DisplayAssumption DEF AudioPtsRange, Pts, NoPts
    <3> QED BY <1>0, <2>2, <3>1, WatchdogTyped DEF ReceiveAudioAck
  <2>3. CASE PauseWatchdogs
    BY <1>0, <2>3, WatchdogTyped DEF PauseWatchdogs
  <2>4. CASE ReceiveResume
    <3>1. (~audio_enabled) \in BOOLEAN
      OBVIOUS
    <3> QED BY <1>0, <2>4, <3>1, WatchdogTyped DEF ReceiveResume
  <2>5. CASE AudioSwitchWatchdog
    <3>1. Silent \in BOOLEAN
      BY DEF Silent
    <3> QED BY <1>0, <2>5, <3>1, WatchdogTyped DEF AudioSwitchWatchdog
  <2>6. CASE \/ PublishAck \/ ReceiveTouch \/ ReceivePause \/ ResumeRefresh
             \/ ResumeUnpause
             \/ ReceiveAudioSwitch \/ ReceiveStop \/ ReceiverEnds
             \/ ReceiverPush
    BY <2>6
    DEF PublishAck, ReceiveTouch, ReceivePause, ResumeRefresh, ResumeUnpause,
        ReceiveAudioSwitch, ReceiveStop, ReceiverEnds, ReceiverPush, watchdogs
  <2> QED BY <1>4, <2>1, <2>2, <2>3, <2>4, <2>5, <2>6 DEF ReceiverThread
<1>5. CASE Phone BY <1>5 DEF Phone, watchdogs
<1>6. CASE Tick BY <1>6, WatchdogTyped DEF Tick
<1>7. CASE UNCHANGED vars BY <1>7 DEF vars, watchdogs
<1> QED BY <1>1, <1>2, <1>3, <1>4, <1>5, <1>6, <1>7 DEF Next, Exited

(* Every step keeps the state of the capture thread well typed: it never   *)
(* makes a frame beyond the bound, and writes only what the encoder        *)
(* returned.                                                               *)
LEMMA CaptureStep ==
  ASSUME CaptureTyped, FlagsTyped, [Next]_vars PROVE CaptureTyped'
<1> USE DisplayAssumption DEF CaptureTyped, CapturePc, CaptureWriting
<1>1. CASE MainThread
  <2>1. capturePc' \in {capturePc, "init"}
    BY <1>1, MainFootprint
  <2> QED BY <1>1, <2>1, MainFootprint
<1>2. CASE CaptureThread
  <2> USE DEF CaptureGoto
  <2>1. CASE CaptureInit
     BY <2>1 DEF CaptureInit
  <2>2. CASE CaptureStreamHeader
     BY <2>2 DEF CaptureStreamHeader
  <2>3. CASE CaptureReady
     BY <2>3 DEF CaptureReady
  <2>4. CASE CaptureControl
    <3>1. Unconsumed(pending, last_acked_pts) \in Seq(0..MaxFrames)
      BY UnconsumedCorrect DEF FlagsTyped, PtsRange, NoPts
     <3> QED BY <2>4, <3>1 DEF CaptureControl, CaptureMove
  <2>5. CASE CaptureGrab
     BY <2>5 DEF CaptureGrab
  <2>6. CASE CaptureRefresh
    <3>1. [pts |-> nextPts, idr |-> AsIdr] \in Frame
      BY DEF Frame, AsIdr
    <3>2. encoder' \in Seq(Frame)
      BY <2>6, <3>1, AppendProperties DEF CaptureRefresh
    <3>3. nextPts' \in 0..MaxFrames
      BY <2>6 DEF CaptureRefresh
    <3> QED BY <2>6, <3>2, <3>3 DEF CaptureRefresh
  <2>7. CASE CaptureBegin
     BY <2>7 DEF CaptureBegin, PtsRange, NoPts
  <2>8. CASE CaptureEncode
    <3>1. sentPts # NoPts => sentPts \in 0..MaxFrames
      BY DEF PtsRange, NoPts
    <3>2. Pushed(pending, sentPts) \in Seq(0..MaxFrames)
      BY <3>1, AppendProperties DEF Pushed
    <3> QED BY <2>8, <3>2 DEF CaptureEncode
  <2>9. CASE CaptureLock
     BY <2>9 DEF CaptureLock
  <2>10. CASE CaptureWrite
    <3>1. CASE /\ capturePc = "write-payload" /\ video_up /\ CaptureWrite
               /\ encoder' = Tail(encoder)
      <4>1. Head(encoder) \in Frame /\ Tail(encoder) \in Seq(Frame)
        BY <3>1, HeadTailProperties
      <4>2. Head(encoder).pts \in PtsRange
        BY <4>1 DEF Frame, PtsRange, NoPts
      <4> QED BY <3>1, <4>1, <4>2 DEF CaptureWrite
    <3> QED BY <2>10, <3>1 DEF CaptureWrite
  <2>11. CASE CaptureEnd
     BY <2>11 DEF CaptureEnd
  <2>12. CASE CaptureExit
     BY <2>12 DEF CaptureExit
  <2> QED
    BY <1>2, <2>1, <2>2, <2>3, <2>4, <2>5, <2>6, <2>7, <2>8, <2>9, <2>10,
       <2>11, <2>12
    DEF CaptureThread
<1>3. CASE AudioThread
  BY <1>3, AudioFootprint DEF captureVars
<1>4. CASE ReceiverThread
  BY <1>4, ReceiverFootprint DEF captureVars
<1>5. CASE Phone BY <1>5 DEF Phone, captureVars
<1>6. CASE Tick BY <1>6 DEF Tick, captureVars
<1>7. CASE UNCHANGED vars BY <1>7 DEF vars, captureVars
<1> QED BY <1>1, <1>2, <1>3, <1>4, <1>5, <1>6, <1>7 DEF Next, Exited

(* Every step keeps the state of the audio thread well typed.              *)
LEMMA AudioStep ==
  ASSUME AudioTyped, FlagsTyped, [Next]_vars PROVE AudioTyped'
<1> USE DisplayAssumption DEF AudioTyped, AudioPc, AudioWriting
<1>1. CASE MainThread
  <2>1. audioPc' \in {audioPc, "idle"}
    BY <1>1, MainFootprint
  <2> QED BY <1>1, <2>1, MainFootprint
<1>2. CASE CaptureThread
  BY <1>2, CaptureFootprint DEF audioVars
<1>3. CASE AudioThread
  <2> USE DEF AudioSends, AudioSendFails
  <2>1. CASE AudioIdle
     BY <2>1 DEF AudioIdle
  <2>2. CASE AudioOpen
     BY <2>2 DEF AudioOpen
  <2>3. CASE AudioSession
    <3>1. Unconsumed(audioPending, audio_acked_pts) \in Seq(0..MaxAudio)
      BY UnconsumedCorrect DEF FlagsTyped, AudioPtsRange, NoPts
    <3> QED BY <2>3, <3>1 DEF AudioSession
  <2>4. CASE AudioSend
     BY <2>4 DEF AudioSend
  <2>5. CASE AudioLock
     BY <2>5 DEF AudioLock
  <2>6. CASE AudioWrite
     BY <2>6 DEF AudioWrite
  <2>7. CASE AudioEnd
    <3>1. audioPc = "sent" /\ audioKind = "audio" =>
            /\ Append(audioPending, audioNext) \in Seq(0..MaxAudio)
            /\ audioNext + 1 \in 0..MaxAudio
      BY AppendProperties
    <3> QED BY <2>7, <3>1 DEF AudioEnd
  <2> QED BY <1>3, <2>1, <2>2, <2>3, <2>4, <2>5, <2>6, <2>7 DEF AudioThread
<1>4. CASE ReceiverThread
  BY <1>4, ReceiverFootprint DEF audioVars
<1>5. CASE Phone BY <1>5 DEF Phone, audioVars
<1>6. CASE Tick BY <1>6 DEF Tick, audioVars
<1>7. CASE UNCHANGED vars BY <1>7 DEF vars, audioVars
<1> QED BY <1>1, <1>2, <1>3, <1>4, <1>5, <1>6, <1>7 DEF Next, Exited

(* Every step keeps the state of the input thread well typed: an           *)
(* acknowledgement is published to the window of its own stream.           *)
LEMMA ReceiverStep ==
  ASSUME ReceiverTyped, [Next]_vars PROVE ReceiverTyped'
<1> USE DisplayAssumption DEF ReceiverTyped, ReceiverPc
<1>1. CASE MainThread
  <2>1. receiverPc' \in {receiverPc, "receive"}
    BY <1>1, MainFootprint
  <2> QED BY <1>1, <2>1, MainFootprint
<1>2. CASE CaptureThread
  BY <1>2, CaptureFootprint DEF receiverVars
<1>3. CASE AudioThread
  BY <1>3, AudioFootprint DEF receiverVars
<1>4. CASE ReceiverThread
  <2> USE DEF ReceiverGoto
  <2>0. NoPts \in PtsRange
    BY DEF PtsRange, NoPts
  <2>1. ASSUME NEW pts \in PtsRange, ReceiveFrameAck(pts) PROVE ReceiverTyped'
    BY <2>1 DEF ReceiveFrameAck
  <2>2. ASSUME NEW pts \in AudioPtsRange, ReceiveAudioAck(pts)
        PROVE  ReceiverTyped'
    BY <2>2 DEF ReceiveAudioAck
  <2>3. CASE PublishAck BY <2>0, <2>3 DEF PublishAck
  <2>4. CASE ReceiveTouch BY <2>4 DEF ReceiveTouch
  <2>5. CASE ReceivePause \/ PauseWatchdogs
    BY <2>0, <2>5 DEF ReceivePause, PauseWatchdogs, ReleaseContacts
  <2>6. CASE ReceiveResume \/ ResumeRefresh \/ ResumeUnpause
    BY <2>0, <2>6 DEF ReceiveResume, ResumeRefresh, ResumeUnpause
  <2>7. CASE ReceiveAudioSwitch \/ AudioSwitchWatchdog
    BY <2>0, <2>7 DEF ReceiveAudioSwitch, AudioSwitchWatchdog
  <2>8. CASE ReceiveStop \/ ReceiverEnds \/ ReceiverPush
    BY <2>0, <2>8 DEF ReceiveStop, ReceiverEnds, ReceiverPush, ReleaseContacts
  <2> QED
    BY <1>4, <2>1, <2>2, <2>3, <2>4, <2>5, <2>6, <2>7, <2>8 DEF ReceiverThread
<1>5. CASE Phone BY <1>5 DEF Phone, receiverVars
<1>6. CASE Tick BY <1>6 DEF Tick, receiverVars
<1>7. CASE UNCHANGED vars BY <1>7 DEF vars, receiverVars
<1> QED BY <1>1, <1>2, <1>3, <1>4, <1>5, <1>6, <1>7 DEF Next, Exited

(* Every step keeps the state of the main loop well typed.                 *)
LEMMA MainStep ==
  ASSUME MainTyped, [Next]_vars PROVE MainTyped'
<1> USE DEF MainTyped, MainPc
<1>1. CASE MainThread
  <2> USE DEF MainGoto
  <2>1. CASE MainWait
    <3>1. events # <<>> => Head(events) \in Event /\ Tail(events) \in Seq(Event)
      BY HeadTailProperties
    <3>2. \A event \in Event :
            ExitCode(event) \in {"SUCCESS", "FAILURE", "DISCONNECTED"}
      BY DEF ExitCode, Event
    <3> QED BY <2>1, <3>1, <3>2 DEF MainWait
  <2>2. CASE MainStart \/ MainPoll \/ MainStop \/ MainInterrupt \/ MainJoin
    BY <2>2 DEF MainStart, MainPoll, MainStop, MainInterrupt, MainJoin
  <2> QED BY <1>1, <2>1, <2>2 DEF MainThread
<1>2. CASE CaptureThread
  <2>1. events' \in {events, Append(events, "DEMUXER_ERROR")}
    BY <1>2
    DEF CaptureThread, CaptureInit, CaptureStreamHeader, CaptureReady,
        CaptureControl, CaptureGrab, CaptureRefresh, CaptureBegin,
        CaptureEncode, CaptureLock, CaptureWrite, CaptureEnd, CaptureExit
  <2>2. events' \in Seq(Event)
    BY <2>1, AppendProperties DEF Event
  <2> QED BY <1>2, <2>2, CaptureFootprint DEF mainVars
<1>3. CASE AudioThread
  BY <1>3, AudioFootprint DEF mainVars
<1>4. CASE ReceiverThread
  <2>1. \/ events' = events
        \/ \E event \in Event : events' = Append(events, event)
    BY <1>4
    DEF ReceiverThread, ReceiveFrameAck, ReceiveAudioAck, PublishAck,
        ReceiveTouch, ReceivePause, PauseWatchdogs, ReceiveResume,
        ResumeRefresh, ResumeUnpause, ReceiveAudioSwitch, AudioSwitchWatchdog,
        ReceiveStop, ReceiverEnds, ReceiverPush, Event
  <2>2. events' \in Seq(Event)
    BY <2>1, AppendProperties
  <2> QED BY <1>4, <2>2, ReceiverFootprint DEF mainVars
<1>5. CASE Phone BY <1>5 DEF Phone, mainVars
<1>6. CASE Tick BY <1>6 DEF Tick, mainVars
<1>7. CASE UNCHANGED vars BY <1>7 DEF vars, mainVars
<1> QED BY <1>1, <1>2, <1>3, <1>4, <1>5, <1>6, <1>7 DEF Next, Exited

(* Every step keeps the sockets well typed: only whole parts of packets    *)
(* are written.                                                            *)
LEMMA SocketStep ==
  ASSUME SocketTyped, CaptureTyped, AudioTyped, [Next]_vars PROVE SocketTyped'
<1> USE DisplayAssumption DEF SocketTyped
<1>1. CASE MainThread
  <2>1. video_up' \in BOOLEAN /\ control_up' \in BOOLEAN
    BY <1>1, MainFootprint
  <2> QED BY <1>1, <2>1, MainFootprint
<1>2. CASE CaptureThread
  <2>1. CASE CaptureStreamHeader
    <3> DEFINE config == [kind |-> "config", pts |-> 0]
    <3>1. Header(config) \in Part /\ Payload(config) \in Part
      BY DEF Header, Payload, Part, Packet
    <3>2. wire \o <<Header(config), Payload(config)>> \in Seq(Part)
      BY <3>1, ConcatProperties
    <3> QED BY <2>1, <3>2 DEF CaptureStreamHeader
  <2>2. CASE CaptureWrite
    <3> DEFINE packet == [kind |-> "video", pts |-> Head(encoder).pts]
    <3>0. capturePc \in CaptureWriting
      BY <2>2 DEF CaptureWrite, CaptureWriting
    <3>1. Head(encoder) \in Frame
      BY <3>0, HeadTailProperties DEF CaptureTyped, CaptureWriting
    <3>2. Header(packet) \in Part /\ Payload(packet) \in Part
      BY <3>1 DEF Header, Payload, Part, Packet, Frame
    <3>3. wire' \in {wire, Append(wire, Header(packet)),
                    Append(wire, Payload(packet))}
      BY <2>2 DEF CaptureWrite
    <3>4. wire' \in Seq(Part)
      BY <3>2, <3>3, AppendProperties
    <3> QED BY <2>2, <3>4 DEF CaptureWrite
  <2>3. CASE \/ CaptureInit \/ CaptureReady \/ CaptureControl \/ CaptureGrab
             \/ CaptureRefresh \/ CaptureBegin \/ CaptureEncode \/ CaptureLock
             \/ CaptureEnd \/ CaptureExit
    BY <2>3
    DEF CaptureInit, CaptureReady, CaptureControl, CaptureGrab,
        CaptureRefresh, CaptureBegin, CaptureEncode, CaptureLock, CaptureEnd,
        CaptureExit, Acquire, links
  <2> QED BY <1>2, <2>1, <2>2, <2>3 DEF CaptureThread
<1>3. CASE AudioThread
  <2>1. AudioPacket \in Packet
    BY DEF AudioTyped, AudioPacket, Packet
  <2>2. Header(AudioPacket) \in Part /\ Payload(AudioPacket) \in Part
    BY <2>1 DEF Header, Payload, Part
  <2>3. wire' \in {wire, Append(wire, Header(AudioPacket)),
                  Append(wire, Payload(AudioPacket))}
    BY <1>3
    DEF AudioThread, AudioIdle, AudioOpen, AudioSession, AudioSend, AudioLock,
        AudioWrite, AudioEnd
  <2>4. wire' \in Seq(Part)
    BY <2>2, <2>3, AppendProperties
  <2>5. send_mutex' \in {"free", "audio", send_mutex}
    BY <1>3
    DEF AudioThread, AudioIdle, AudioOpen, AudioSession, AudioSend, AudioLock,
        AudioWrite, AudioEnd, Acquire
  <2> QED BY <1>3, <2>4, <2>5, AudioFootprint
<1>4. CASE ReceiverThread
  BY <1>4, ReceiverFootprint
<1>5. CASE Phone
  <2>1. wire # <<>> => Tail(wire) \in Seq(Part)
    BY HeadTailProperties
  <2> QED BY <1>5, <2>1 DEF Phone, PhoneReads, PhoneCloses
<1>6. CASE Tick BY <1>6 DEF Tick, links
<1>7. CASE UNCHANGED vars BY <1>7 DEF vars, links
<1> QED BY <1>1, <1>2, <1>3, <1>4, <1>5, <1>6, <1>7 DEF Next, Exited

-----------------------------------------------------------------------------
(***************************************************************************)
(* Threads, watchdogs, refresh and contacts.                               *)
(***************************************************************************)

(* No thread runs before the main loop started it.                         *)
LEMMA UnstartedStep ==
  ASSUME Unstarted, [Next]_vars PROVE Unstarted'
<1> USE DEF Unstarted
<1>1. CASE MainThread
  BY <1>1
  DEF MainThread, MainStart, MainPoll, MainWait, MainStop, MainInterrupt,
      MainJoin, MainGoto
<1>2. CASE CaptureThread
  <2>1. capturePc # "off"
    BY <1>2
    DEF CaptureThread, CaptureInit, CaptureStreamHeader, CaptureReady,
        CaptureControl, CaptureMove, CaptureGrab, CaptureRefresh,
        CaptureBegin, CaptureEncode, CaptureLock, CaptureWrite, CaptureEnd,
        CaptureExit
  <2> QED BY <1>2, <2>1, CaptureFootprint DEF mainVars
<1>3. CASE AudioThread
  <2>1. audioPc # "off"
    BY <1>3
    DEF AudioThread, AudioIdle, AudioOpen, AudioSession, AudioSend, AudioLock,
        AudioWrite, AudioEnd
  <2> QED BY <1>3, <2>1, AudioFootprint DEF mainVars
<1>4. CASE ReceiverThread
  <2>1. receiverPc # "off" \/ UNCHANGED <<receiverPc, events>>
    BY <1>4
    DEF ReceiverThread, ReceiveFrameAck, ReceiveAudioAck, PublishAck,
        ReceiveTouch, ReceivePause, PauseWatchdogs, ReceiveResume,
        ResumeRefresh, ResumeUnpause, ReceiveAudioSwitch, AudioSwitchWatchdog,
        ReceiveStop, ReceiverEnds, ReceiverPush, Receives
  <2> QED BY <1>4, <2>1, ReceiverFootprint DEF mainVars, captureVars, audioVars
<1>5. CASE Phone \/ Tick
  BY <1>5 DEF Phone, Tick, captureVars, audioVars, receiverVars, mainVars
<1>6. CASE UNCHANGED vars
  BY <1>6 DEF vars, captureVars, audioVars, receiverVars, mainVars
<1> QED BY <1>1, <1>2, <1>3, <1>4, <1>5, <1>6 DEF Next, Exited

(* Every step keeps both watchdogs armed exactly while something is        *)
(* outstanding.                                                            *)
LEMMA WatchedStep ==
  ASSUME FlagsTyped, WatchdogsTyped, CaptureTyped, AudioTyped, Watched,
         Unstarted, [Next]_vars
  PROVE  Watched'
<1> USE DEF Watched, WatchdogsArmed, CaptureWriting
<1>0. Present \in Nat /\ watchdog \in Watchdog /\ audio_watchdog \in Watchdog
  BY DEF Present, WatchdogsTyped
<1>1. CASE MainThread
  <2>1. capturePc' \in {capturePc, "init"}
    BY <1>1, MainFootprint
  <2> QED BY <1>1, <2>1, MainFootprint DEF watchdogs
<1>2. CASE CaptureThread
  <2> USE DEF CaptureGoto
  <2>1. ArmedIffOutstanding(audio_watchdog')
    BY <1>2, CaptureFootprint
  <2>2. CASE CaptureInit
    BY <1>0, <2>1, <2>2, BeginCorrect DEF CaptureInit
  <2>3. CASE CaptureReady \/ CaptureEnd
    BY <1>0, <2>1, <2>3, EndCorrect DEF CaptureReady, CaptureEnd
  <2>4. CASE CaptureBegin
    BY <1>0, <2>1, <2>4, BeginCorrect, WatchdogFields DEF CaptureBegin
  <2>5. CASE CaptureEncode
    <3>1. encoder # <<>> => Head(encoder).pts \in Pts
      BY EncoderHead
    <3> QED
      BY <1>0, <2>1, <2>5, <3>1, SubmitCorrect, WatchdogFields
      DEF CaptureEncode
  <2>6. CASE \/ CaptureStreamHeader \/ CaptureControl \/ CaptureGrab
             \/ CaptureRefresh
             \/ CaptureLock \/ CaptureWrite \/ CaptureExit
    BY <2>1, <2>6
    DEF CaptureStreamHeader, CaptureControl, CaptureMove, CaptureGrab,
        CaptureRefresh, CaptureLock, CaptureWrite, CaptureExit, watchdogs
  <2> QED BY <1>2, <2>2, <2>3, <2>4, <2>5, <2>6 DEF CaptureThread
<1>3. CASE AudioThread
  <2>1. UNCHANGED <<watchdog, capturePc>>
    BY <1>3, AudioFootprint DEF captureVars
  <2>2. CASE AudioSend
    <3> DEFINE begun == Begin(audio_watchdog, Present)
    <3>1. begun \in Watchdog /\ ArmedIffOutstanding(begun) /\ begun.busy
      BY <1>0, BeginCorrect, WatchdogFields
    <3> HIDE DEF begun
    <3>2. audioNext \in Pts
      BY DEF AudioTyped, Pts
    <3>3. ArmedIffOutstanding(Submit(begun, audioNext))
      BY <3>1, <3>2, SubmitCorrect
    <3>4. audio_watchdog' \in {audio_watchdog, begun, Submit(begun, audioNext)}
      BY <2>2 DEF AudioSend, begun
    <3> QED BY <2>1, <3>1, <3>3, <3>4
  <2>3. CASE AudioEnd
    BY <1>0, <2>1, <2>3, EndCorrect DEF AudioEnd
  <2>4. CASE AudioIdle \/ AudioOpen \/ AudioSession \/ AudioLock \/ AudioWrite
    BY <2>1, <2>4
    DEF AudioIdle, AudioOpen, AudioSession, AudioLock, AudioWrite, watchdogs
  <2> QED BY <1>3, <2>2, <2>3, <2>4 DEF AudioThread
<1>4. CASE ReceiverThread
  <2>0. UNCHANGED capturePc
    BY <1>4, ReceiverFootprint DEF captureVars
  <2>1. ASSUME NEW pts \in PtsRange, ReceiveFrameAck(pts) PROVE Watched'
    <3>1. pts \in Pts
      BY DisplayAssumption DEF PtsRange, Pts, NoPts
    <3> QED
      BY <1>0, <2>0, <2>1, <3>1, AckCorrect, WatchdogFields DEF ReceiveFrameAck
  <2>2. ASSUME NEW pts \in AudioPtsRange, ReceiveAudioAck(pts) PROVE Watched'
    <3>1. pts \in Pts
      BY DisplayAssumption DEF AudioPtsRange, Pts, NoPts
    <3> QED
      BY <1>0, <2>0, <2>2, <3>1, AckCorrect, WatchdogFields DEF ReceiveAudioAck
  <2>3. CASE PauseWatchdogs
    BY <1>0, <2>0, <2>3, SetPausedCorrect, WatchdogFields DEF PauseWatchdogs
  <2>4. CASE ReceiveResume
    <3>1. (~audio_enabled) \in BOOLEAN
      OBVIOUS
    <3> QED
      BY <1>0, <2>0, <2>4, <3>1, SetPausedCorrect, WatchdogFields
      DEF ReceiveResume
  <2>5. CASE AudioSwitchWatchdog
    <3>1. Silent \in BOOLEAN
      BY DEF Silent
    <3> QED BY <1>0, <2>0, <2>5, <3>1, SetPausedCorrect DEF AudioSwitchWatchdog
  <2>6. CASE \/ PublishAck \/ ReceiveTouch \/ ReceivePause \/ ResumeRefresh
             \/ ResumeUnpause
             \/ ReceiveAudioSwitch \/ ReceiveStop \/ ReceiverEnds
             \/ ReceiverPush
    BY <2>0, <2>6
    DEF PublishAck, ReceiveTouch, ReceivePause, ResumeRefresh, ResumeUnpause,
        ReceiveAudioSwitch, ReceiveStop, ReceiverEnds, ReceiverPush, watchdogs
  <2> QED BY <1>4, <2>1, <2>2, <2>3, <2>4, <2>5, <2>6 DEF ReceiverThread
<1>5. CASE Phone
  BY <1>5 DEF Phone, watchdogs, captureVars
<1>6. CASE Tick
  BY <1>0, <1>6, CloserCorrect, WatchdogFields DEF Tick, captureVars
<1>7. CASE UNCHANGED vars
  BY <1>7 DEF vars, watchdogs, captureVars
<1> QED BY <1>1, <1>2, <1>3, <1>4, <1>5, <1>6, <1>7 DEF Next, Exited

(* Every step keeps the watchdogs suspended for what is not sent, up to    *)
(* the half of a pause or of a resume the input thread still has to do.    *)
LEMMA SuspendedStep ==
  ASSUME FlagsTyped, WatchdogsTyped, CaptureTyped, AudioTyped, Suspended,
         Unstarted, [Next]_vars
  PROVE  Suspended'
<1> USE DEF Suspended
<1>0. Present \in Nat /\ watchdog \in Watchdog /\ audio_watchdog \in Watchdog
  BY DEF Present, WatchdogsTyped
<1>1. CASE MainThread
  <2>1. \/ receiverPc' = receiverPc
        \/ receiverPc = "off" /\ receiverPc' = "receive"
    BY <1>1, MainFootprint DEF Unstarted
  <2> QED BY <1>1, <2>1, MainFootprint DEF watchdogs
<1>2. CASE CaptureThread
  BY <1>2, CaptureWatchdog, CaptureFootprint DEF receiverVars
<1>3. CASE AudioThread
  <2>1. audio_watchdog'.paused = audio_watchdog.paused
    <3>1. CASE AudioSend
      <4> DEFINE begun == Begin(audio_watchdog, Present)
      <4>1. begun \in Watchdog /\ begun.paused = audio_watchdog.paused
        BY <1>0, BeginCorrect, WatchdogFields
      <4> HIDE DEF begun
      <4>2. audioNext \in Pts
        BY DEF AudioTyped, Pts
      <4>3. Submit(begun, audioNext).paused = audio_watchdog.paused
        BY <4>1, <4>2, WatchdogFields
      <4>4. audio_watchdog' \in {audio_watchdog, begun,
                                Submit(begun, audioNext)}
        BY <3>1 DEF AudioSend, begun
      <4> QED BY <4>1, <4>3, <4>4
    <3>2. CASE AudioEnd
      BY <1>0, <3>2, WatchdogFields DEF AudioEnd
    <3>3. CASE \/ AudioIdle \/ AudioOpen \/ AudioSession \/ AudioLock
               \/ AudioWrite
      BY <3>3
      DEF AudioIdle, AudioOpen, AudioSession, AudioLock, AudioWrite, watchdogs
    <3> QED BY <1>3, <3>1, <3>2, <3>3 DEF AudioThread
  <2> QED BY <1>3, <2>1, AudioFootprint DEF receiverVars, flags
<1>4. CASE ReceiverThread
  <2> USE DEF ReceiverGoto, flags
  <2>1. ASSUME NEW pts \in PtsRange, ReceiveFrameAck(pts) PROVE Suspended'
    <3>1. pts \in Pts
      BY DisplayAssumption DEF PtsRange, Pts, NoPts
    <3> QED BY <1>0, <2>1, <3>1, WatchdogFields DEF ReceiveFrameAck, Receives
  <2>2. ASSUME NEW pts \in AudioPtsRange, ReceiveAudioAck(pts) PROVE Suspended'
    <3>1. pts \in Pts
      BY DisplayAssumption DEF AudioPtsRange, Pts, NoPts
    <3> QED BY <1>0, <2>2, <3>1, WatchdogFields DEF ReceiveAudioAck, Receives
  <2>3. CASE PauseWatchdogs
    BY <1>0, <2>3, WatchdogFields DEF PauseWatchdogs
  <2>4. CASE ReceiveResume
    <3> DEFINE muted == ~audio_enabled
    <3>1. muted \in BOOLEAN
      OBVIOUS
    <3>2. /\ watchdog' = SetPaused(watchdog, FALSE, Present)
          /\ audio_watchdog' = SetPaused(audio_watchdog, muted, Present)
      BY <2>4 DEF ReceiveResume
    <3>3. watchdog'.paused = FALSE /\ audio_watchdog'.paused = muted
      <4> HIDE DEF muted
      <4>1. SetPaused(watchdog, FALSE, Present).paused = FALSE
        BY <1>0 DEF SetPaused, Rearmed, Watchdog
      <4>2. SetPaused(audio_watchdog, muted, Present).paused = muted
        BY <1>0, <3>1, WatchdogFields
      <4> QED BY <3>2, <4>1, <4>2
    <3> QED BY <2>4, <3>3 DEF ReceiveResume
  <2>5. CASE AudioSwitchWatchdog
    <3>1. Silent \in BOOLEAN
      BY DEF Silent
    <3>2. audio_watchdog'.paused = Silent
      BY <1>0, <2>5, <3>1, WatchdogFields DEF AudioSwitchWatchdog
    <3>3. Silent = (video_paused \/ ~audio_enabled)
      BY DEF Silent, FlagsTyped
    <3> QED BY <2>5, <3>2, <3>3 DEF AudioSwitchWatchdog
  <2>6. CASE PublishAck \/ ReceiveTouch \/ ReceivePause \/ ReceiveAudioSwitch
    BY <2>6
    DEF PublishAck, ReceiveTouch, ReceivePause, ReceiveAudioSwitch, Receives,
        watchdogs, FlagsTyped
  <2>7. CASE ResumeRefresh
    BY <2>7 DEF ResumeRefresh, watchdogs
  <2>9. CASE ResumeUnpause
    <3>1. /\ video_paused' = FALSE /\ receiverPc' = "receive"
          /\ UNCHANGED <<watchdogs, audio_enabled>>
          /\ watchdog.paused = FALSE /\ audio_watchdog.paused = ~audio_enabled
      BY <2>9 DEF ResumeUnpause, WatchdogsTyped, Watchdog
    <3>2. /\ audio_watchdog'.paused = (video_paused' \/ ~audio_enabled')
          /\ watchdog'.paused = video_paused'
      BY <3>1 DEF watchdogs
    <3> QED BY <3>1, <3>2
  <2>8. CASE ReceiveStop \/ ReceiverEnds \/ ReceiverPush
    BY <2>8 DEF ReceiveStop, ReceiverEnds, ReceiverPush, Receives, watchdogs
  <2> QED
    BY <1>4, <2>1, <2>2, <2>3, <2>4, <2>5, <2>6, <2>7, <2>8, <2>9
    DEF ReceiverThread
<1>5. CASE Phone
  BY <1>5 DEF Phone, watchdogs, receiverVars, flags
<1>6. CASE Tick
  BY <1>0, <1>6, WatchdogFields DEF Tick, receiverVars, flags
<1>7. CASE UNCHANGED vars
  BY <1>7 DEF vars, watchdogs, receiverVars, flags
<1> QED BY <1>1, <1>2, <1>3, <1>4, <1>5, <1>6, <1>7 DEF Next, Exited

(* Every step keeps an owed IDR requested.                                 *)
LEMMA RefreshingStep ==
  ASSUME FlagsTyped, Refreshing, Unstarted, [Next]_vars PROVE Refreshing'
<1> USE DEF Refreshing, RefreshNotLost
<1>1. CASE MainThread
  <2>1. \/ receiverPc' = receiverPc
        \/ receiverPc = "off" /\ receiverPc' = "receive"
    BY <1>1, MainFootprint DEF Unstarted
  <2> QED BY <1>1, <2>1, MainFootprint DEF history
<1>2. CASE CaptureThread
  <2>1. CASE CaptureRefresh
    BY <2>1 DEF CaptureRefresh, AsIdr, receiverVars
  <2>2. CASE ~CaptureRefresh
    <3>1. UNCHANGED <<idr_owed, force_refresh>>
      BY <1>2, <2>2
      DEF CaptureThread, CaptureInit, CaptureStreamHeader, CaptureReady,
          CaptureControl, CaptureGrab, CaptureBegin, CaptureEncode,
          CaptureLock, CaptureWrite, CaptureEnd, CaptureExit, history, flags
    <3> QED BY <1>2, <3>1, CaptureFootprint DEF receiverVars
  <2> QED BY <2>1, <2>2
<1>3. CASE AudioThread
  BY <1>3, AudioFootprint DEF receiverVars, flags, history
<1>4. CASE ReceiverThread
  <2> USE DEF ReceiverGoto, Receives, flags, history
  <2>1. ASSUME NEW pts, ReceiveFrameAck(pts) \/ ReceiveAudioAck(pts)
        PROVE  Refreshing'
    BY <2>1 DEF ReceiveFrameAck, ReceiveAudioAck
  <2>2. CASE PublishAck
    BY <2>2 DEF PublishAck
  <2>3. CASE ReceiveTouch
    BY <2>3 DEF ReceiveTouch
  <2>4. CASE ReceivePause
    BY <2>4 DEF ReceivePause
  <2>5. CASE PauseWatchdogs
    BY <2>5 DEF PauseWatchdogs
  <2>6. CASE ReceiveResume
    BY <2>6 DEF ReceiveResume
  <2>7. CASE ResumeRefresh
    BY <2>7 DEF ResumeRefresh
  <2>8. CASE ResumeUnpause
    BY <2>8 DEF ResumeUnpause
  <2>9. CASE ReceiveAudioSwitch \/ AudioSwitchWatchdog
    BY <2>9 DEF ReceiveAudioSwitch, AudioSwitchWatchdog
  <2>10. CASE ReceiveStop
    BY <2>10 DEF ReceiveStop
  <2>11. CASE ReceiverEnds
    BY <2>11 DEF ReceiverEnds
  <2>12. CASE ReceiverPush
    BY <2>12 DEF ReceiverPush
  <2> QED
    BY <1>4, <2>1, <2>2, <2>3, <2>4, <2>5, <2>6, <2>7, <2>8, <2>9,
       <2>10, <2>11, <2>12
    DEF ReceiverThread
<1>5. CASE Phone \/ Tick
  BY <1>5 DEF Phone, Tick, receiverVars, flags, history
<1>6. CASE UNCHANGED vars
  BY <1>6 DEF vars, receiverVars, flags, history
<1> QED BY <1>1, <1>2, <1>3, <1>4, <1>5, <1>6 DEF Next, Exited

(* Every step keeps contacts out of a session that is paused, stopped by   *)
(* the phone or without its input thread.                                  *)
LEMMA ReleasedStep ==
  ASSUME FlagsTyped, Suspended, Released, Unstarted, [Next]_vars
  PROVE  Released'
<1> USE DEF Released
<1>1. CASE MainThread
  <2>1. \/ receiverPc' = receiverPc
        \/ receiverPc = "off" /\ receiverPc' = "receive"
    BY <1>1, MainFootprint DEF Unstarted
  <2>2. stopped => stopped'
    BY <1>1, MainFootprint
  <2> QED BY <1>1, <2>1, <2>2, MainFootprint DEF history
<1>2. CASE CaptureThread
  BY <1>2, CaptureFootprint DEF receiverVars
<1>3. CASE AudioThread
  BY <1>3, AudioFootprint DEF receiverVars, flags, history
<1>4. CASE ReceiverThread
  <2> USE DEF ReceiverGoto, Receives, ReleaseContacts, flags, history
  <2>1. ASSUME NEW pts, ReceiveFrameAck(pts) \/ ReceiveAudioAck(pts)
        PROVE  Released'
    BY <2>1 DEF ReceiveFrameAck, ReceiveAudioAck
  <2>2. CASE PublishAck
    BY <2>2 DEF PublishAck
  <2>3. CASE ReceiveTouch
    BY <2>3 DEF ReceiveTouch
  <2>4. CASE ReceivePause
    BY <2>4 DEF ReceivePause
  <2>5. CASE PauseWatchdogs
    BY <2>5 DEF PauseWatchdogs
  <2>6. CASE ReceiveResume
    BY <2>6 DEF ReceiveResume
  <2>7. CASE ResumeRefresh
    BY <2>7 DEF ResumeRefresh
  <2>8. CASE ResumeUnpause
    BY <2>8 DEF ResumeUnpause
  <2>9. CASE ReceiveAudioSwitch \/ AudioSwitchWatchdog
    BY <2>9 DEF ReceiveAudioSwitch, AudioSwitchWatchdog
  <2>10. CASE ReceiveStop
    BY <2>10 DEF ReceiveStop
  <2>11. CASE ReceiverEnds
    BY <2>11 DEF ReceiverEnds
  <2>12. CASE ReceiverPush
    BY <2>12 DEF ReceiverPush
  <2> QED
    BY <1>4, <2>1, <2>2, <2>3, <2>4, <2>5, <2>6, <2>7, <2>8, <2>9,
       <2>10, <2>11, <2>12
    DEF ReceiverThread
<1>5. CASE Phone \/ Tick
  BY <1>5 DEF Phone, Tick, receiverVars, flags, history
<1>6. CASE UNCHANGED vars
  BY <1>6 DEF vars, receiverVars, flags, history
<1> QED BY <1>1, <1>2, <1>3, <1>4, <1>5, <1>6 DEF Next, Exited

-----------------------------------------------------------------------------
(***************************************************************************)
(* The socket and its two senders.                                         *)
(***************************************************************************)

(* Every step keeps the socket owned by the thread that writes.            *)
LEMMA LockedStep ==
  ASSUME FlagsTyped, Locked, Unstarted, [Next]_vars PROVE Locked'
<1> USE DEF Locked, CaptureWriting, AudioWriting
<1>1. CASE MainThread
  <2>1. capturePc' = capturePc \/ (capturePc = "off" /\ capturePc' = "init")
    BY <1>1, MainFootprint DEF Unstarted
  <2>2. audioPc' = audioPc \/ (audioPc = "off" /\ audioPc' = "idle")
    BY <1>1, MainFootprint DEF Unstarted
  <2> QED BY <1>1, <2>1, <2>2, MainFootprint
<1>2. CASE CaptureThread
  <2> USE DEF CaptureGoto, flags, audioVars, Acquire
  <2>1. CASE CaptureInit \/ CaptureStreamHeader
    BY <2>1 DEF CaptureInit, CaptureStreamHeader
  <2>2. CASE CaptureReady
    BY <2>2 DEF CaptureReady
  <2>3. CASE CaptureControl \/ CaptureGrab \/ CaptureRefresh \/ CaptureBegin
    BY <2>3
    DEF CaptureControl, CaptureMove, CaptureGrab, CaptureRefresh, CaptureBegin
  <2>4. CASE CaptureEncode \/ CaptureLock
    BY <2>4 DEF CaptureEncode, CaptureLock
  <2>5. CASE CaptureWrite
    BY <2>5 DEF CaptureWrite
  <2>6. CASE CaptureEnd \/ CaptureExit
    BY <2>6 DEF CaptureEnd, CaptureExit
  <2> QED BY <1>2, <2>1, <2>2, <2>3, <2>4, <2>5, <2>6 DEF CaptureThread
<1>3. CASE AudioThread
  <2>1. UNCHANGED <<capturePc, stream_ready>>
    BY <1>3, AudioFootprint DEF captureVars, flags
  <2> USE DEF AudioSends, AudioSendFails, Acquire
  <2>2. CASE AudioIdle
    BY <2>1, <2>2 DEF AudioIdle, AudioWakes, AudioEnabled
  <2>3. CASE AudioOpen \/ AudioSession \/ AudioSend
    BY <2>1, <2>3 DEF AudioOpen, AudioSession, AudioSend
  <2>4. CASE AudioLock \/ AudioWrite \/ AudioEnd
    BY <2>1, <2>4 DEF AudioLock, AudioWrite, AudioEnd
  <2> QED BY <1>3, <2>2, <2>3, <2>4 DEF AudioThread
<1>4. CASE ReceiverThread
  BY <1>4, ReceiverFootprint DEF captureVars, audioVars
<1>5. CASE Phone \/ Tick
  BY <1>5 DEF Phone, Tick, captureVars, audioVars, flags
<1>6. CASE UNCHANGED vars
  BY <1>6 DEF vars, captureVars, audioVars, flags
<1> QED BY <1>1, <1>2, <1>3, <1>4, <1>5, <1>6 DEF Next, Exited

(* What a part may follow on the socket.                                   *)
Follows(part) ==
  wire # <<>> =>
    IF LastPart.part = "header" THEN part = Payload(LastPart.packet)
                                ELSE part.part = "header"

(* Appending a part that may follow the last one keeps the stream framed.  *)
LEMMA FramedAppend ==
  ASSUME SocketTyped, WellFramed, NEW part \in Part, Follows(part),
         wire' = Append(wire, part)
  PROVE  WellFramed' /\ wire' # <<>> /\ LastPart' = part
<1> USE DEF SocketTyped
<1>1. /\ Len(wire) \in Nat /\ wire' \in Seq(Part)
      /\ Len(wire') = Len(wire) + 1
      /\ \A i \in 1..Len(wire) : wire'[i] = wire[i]
      /\ wire'[Len(wire) + 1] = part
  BY AppendProperties, LenProperties
<1>2. LastPart' = part /\ wire' # <<>>
  BY <1>1 DEF LastPart
<1>3. ASSUME NEW i \in 1..(Len(wire) - 1)
      PROVE  wire'[i] = wire[i] /\ wire'[i + 1] = wire[i + 1]
  BY <1>1
<1>4. ASSUME NEW i, i = Len(wire), Len(wire) > 0
      PROVE  wire # <<>> /\ wire'[i] = LastPart /\ wire'[i + 1] = part
  BY <1>1, <1>4, EmptySeq DEF LastPart
<1>5. ASSUME NEW i \in 1..(Len(wire') - 1)
      PROVE  IF wire'[i].part = "header"
             THEN wire'[i + 1] = Payload(wire'[i].packet)
             ELSE wire'[i + 1].part = "header"
  <2>1. i \in 1..(Len(wire) - 1) \/ (i = Len(wire) /\ Len(wire) > 0)
    BY <1>1
  <2>2. CASE i \in 1..(Len(wire) - 1)
    BY <1>3, <2>2 DEF WellFramed
  <2>3. CASE i = Len(wire) /\ Len(wire) > 0
    BY <1>4, <2>3 DEF Follows
  <2> QED BY <2>1, <2>2, <2>3
<1> QED BY <1>2, <1>5 DEF WellFramed

(* Reading from the front keeps the stream framed.                         *)
LEMMA FramedRead ==
  ASSUME SocketTyped, WellFramed, wire # <<>>, wire' = Tail(wire)
  PROVE  WellFramed' /\ (wire' # <<>> => LastPart' = LastPart)
<1> USE DEF SocketTyped
<1>1. /\ Len(wire) \in Nat /\ Len(wire) > 0 /\ wire' \in Seq(Part)
      /\ Len(wire') = Len(wire) - 1
      /\ \A i \in 1..Len(wire') : wire'[i] = wire[i + 1]
  BY HeadTailProperties, LenProperties, EmptySeq
<1>2. wire' # <<>> => LastPart' = LastPart
  <2>1. wire' # <<>> => Len(wire') > 0
    BY <1>1, EmptySeq
  <2> QED BY <1>1, <2>1 DEF LastPart
<1>3. ASSUME NEW i \in 1..(Len(wire') - 1)
      PROVE  /\ i + 1 \in 1..(Len(wire) - 1)
             /\ wire'[i] = wire[i + 1] /\ wire'[i + 1] = wire[(i + 1) + 1]
  BY <1>1
<1> QED BY <1>2, <1>3 DEF WellFramed

(* Every step keeps the stream framed: the mutex keeps the other thread    *)
(* away from the socket between a header and its payload.                  *)
LEMMA FramedStep ==
  ASSUME SocketTyped, CaptureTyped, AudioTyped, Unstarted, Locked, Framed,
         [Next]_vars
  PROVE  Framed'
<1> USE DEF Framed
<1>1. CASE MainThread
  <2>1. /\ capturePc' = capturePc \/ (capturePc = "off" /\ capturePc' = "init")
        /\ audioPc' = audioPc \/ (audioPc = "off" /\ audioPc' = "idle")
    BY <1>1, MainFootprint DEF Unstarted
  <2>3. video_up' => video_up
    BY <1>1, MainFootprint DEF SocketTyped
  <2>2. UNCHANGED <<wire, encoder, audioKind, audioNext>>
    BY <1>1, MainFootprint
  <2> QED
    BY <2>1, <2>2, <2>3 DEF WellFramed, LastPart, CapturePacket, AudioPacket
<1>2. CASE CaptureThread
  <2>0. /\ UNCHANGED <<audioPc, audioKind, audioNext, video_up>>
        /\ AudioPacket' = AudioPacket
    BY <1>2, CaptureFootprint DEF audioVars, AudioPacket
  <2> USE DEF CaptureGoto
  <2>1. CASE CaptureStreamHeader
    <3> DEFINE config == [kind |-> "config", pts |-> 0]
    <3>1. Header(config) \in Part /\ Payload(config) \in Part
      BY DisplayAssumption DEF Header, Payload, Part, Packet
    <3>2. audioPc # "write-payload" /\ capturePc = "stream-header"
      BY <2>1 DEF CaptureStreamHeader, Locked
    <3>3. CASE UNCHANGED wire /\ ~video_up
      BY <2>0, <3>3 DEF WellFramed
    <3>4. CASE video_up /\ wire' = wire \o <<Header(config), Payload(config)>>
      <4>1. /\ Len(wire) \in Nat /\ Len(wire') = Len(wire) + 2
            /\ wire' \in Seq(Part)
            /\ \A i \in 1..Len(wire) : wire'[i] = wire[i]
            /\ wire'[Len(wire) + 1] = Header(config)
            /\ wire'[Len(wire) + 2] = Payload(config)
        BY <3>1, <3>4, ConcatProperties DEF SocketTyped
      <4>2. wire # <<>> => LastPart.part = "payload"
        BY <3>2, <3>4
      <4>3. Len(wire) > 0 => wire[Len(wire)].part = "payload"
        BY <4>1, <4>2 DEF LastPart
      <4>4. ASSUME NEW i \in 1..(Len(wire') - 1)
            PROVE  IF wire'[i].part = "header"
                   THEN wire'[i + 1] = Payload(wire'[i].packet)
                   ELSE wire'[i + 1].part = "header"
        <5>1. CASE i = Len(wire) + 1
          BY <4>1, <5>1 DEF Header, Payload
        <5>2. CASE i = Len(wire)
          BY <4>1, <4>3, <5>2 DEF Header
        <5>3. CASE i \in 1..(Len(wire) - 1)
          <6>1. wire'[i] = wire[i] /\ wire'[i + 1] = wire[i + 1]
            BY <4>1, <5>3
          <6> QED BY <5>3, <6>1 DEF WellFramed
        <5> QED BY <4>1, <5>1, <5>2, <5>3
      <4>5. LastPart'.part = "payload"
        BY <4>1 DEF LastPart, Payload
      <4>6. capturePc' # "write-payload"
        BY <2>1 DEF CaptureStreamHeader
      <4> QED BY <2>0, <3>2, <4>4, <4>5, <4>6 DEF WellFramed
    <3> QED BY <2>1, <3>3, <3>4 DEF CaptureStreamHeader
  <2>2. CASE CaptureWrite
    <3>0. capturePc \in CaptureWriting /\ audioPc \notin AudioWriting
      BY <2>2 DEF CaptureWrite, CaptureWriting, AudioWriting, Locked
    <3>1. Head(encoder) \in Frame
      BY <3>0, HeadTailProperties DEF CaptureTyped
    <3>2. Header(CapturePacket) \in Part /\ Payload(CapturePacket) \in Part
      BY <3>1 DEF Header, Payload, Part, Packet, Frame, CapturePacket
    <3>3. CASE /\ capturePc = "write-header" /\ video_up /\ UNCHANGED encoder
               /\ wire' = Append(wire, Header(CapturePacket))
               /\ capturePc' = "write-payload"
      <4>1. Follows(Header(CapturePacket))
        BY <3>0, <3>3 DEF Follows, Header, AudioWriting
      <4>2. WellFramed' /\ LastPart' = Header(CapturePacket)
        BY <3>2, <3>3, <4>1, FramedAppend
      <4> QED BY <3>3, <4>2 DEF CapturePacket
    <3>4. CASE /\ capturePc = "write-payload" /\ video_up
               /\ wire' = Append(wire, Payload(CapturePacket))
               /\ capturePc' = "encode"
      <4>1. Follows(Payload(CapturePacket))
        BY <3>4 DEF Follows, Header
      <4>2. WellFramed' /\ LastPart' = Payload(CapturePacket)
        BY <3>2, <3>4, <4>1, FramedAppend
      <4> QED BY <2>0, <3>0, <3>4, <4>2 DEF Payload, AudioWriting
    <3>5. CASE ~video_up /\ UNCHANGED wire
      BY <2>0, <3>5 DEF WellFramed
    <3> QED BY <2>2, <3>3, <3>4, <3>5 DEF CaptureWrite, CapturePacket
  <2>3. CASE ~CaptureStreamHeader /\ ~CaptureWrite
    <3>1. /\ UNCHANGED wire /\ capturePc # "write-payload"
          /\ capturePc' # "write-payload"
      BY <1>2, <2>3
      DEF CaptureThread, CaptureInit, CaptureReady, CaptureControl,
          CaptureMove, CaptureGrab, CaptureRefresh, CaptureBegin,
          CaptureEncode, CaptureLock, CaptureEnd, CaptureExit, links
    <3> QED BY <2>0, <3>1 DEF WellFramed, LastPart
  <2> QED BY <2>1, <2>2, <2>3
<1>3. CASE AudioThread
  <2>0. UNCHANGED <<capturePc, encoder, video_up>>
    BY <1>3, AudioFootprint DEF captureVars
  <2>1. CASE AudioWrite
    <3>0. /\ audioPc \in AudioWriting /\ capturePc \notin CaptureWriting
          /\ UNCHANGED <<audioKind, audioNext>>
      BY <2>1 DEF AudioWrite, CaptureWriting, AudioWriting, Locked
    <3>1. AudioPacket \in Packet
      BY DisplayAssumption DEF AudioTyped, AudioPacket, Packet
    <3>2. Header(AudioPacket) \in Part /\ Payload(AudioPacket) \in Part
      BY <3>1 DEF Header, Payload, Part
    <3>3. CASE /\ audioPc = "write-header" /\ video_up
               /\ wire' = Append(wire, Header(AudioPacket))
               /\ audioPc' = "write-payload"
      <4>1. Follows(Header(AudioPacket))
        BY <3>0, <3>3 DEF Follows, Header, CaptureWriting
      <4>2. WellFramed' /\ LastPart' = Header(AudioPacket)
        BY <3>2, <3>3, <4>1, FramedAppend
      <4>3. AudioPacket' = AudioPacket
        BY <3>0 DEF AudioPacket
      <4> QED BY <2>0, <3>0, <3>3, <4>2, <4>3 DEF CaptureWriting, Header
    <3>4. CASE /\ audioPc = "write-payload" /\ video_up
               /\ wire' = Append(wire, Payload(AudioPacket))
               /\ audioPc' = "sent"
      <4>1. Follows(Payload(AudioPacket))
        BY <3>0, <3>4 DEF Follows, Header, CaptureWriting
      <4>2. WellFramed' /\ LastPart' = Payload(AudioPacket)
        BY <3>2, <3>4, <4>1, FramedAppend
      <4> QED BY <2>0, <3>0, <3>4, <4>2 DEF Payload, CaptureWriting
    <3>5. CASE ~video_up /\ UNCHANGED wire
      BY <2>0, <3>5 DEF WellFramed
    <3> QED BY <2>1, <3>3, <3>4, <3>5 DEF AudioWrite
  <2>2. CASE ~AudioWrite
    <3>1. /\ UNCHANGED wire /\ audioPc # "write-payload"
          /\ audioPc' # "write-payload"
      BY <1>3, <2>2
      DEF AudioThread, AudioIdle, AudioOpen, AudioSession, AudioSend,
          AudioLock, AudioEnd, AudioSends, AudioSendFails
    <3> QED BY <2>0, <3>1 DEF WellFramed, LastPart, CapturePacket
  <2> QED BY <2>1, <2>2
<1>4. CASE ReceiverThread
  BY <1>4, ReceiverFootprint
  DEF WellFramed, LastPart, CapturePacket, AudioPacket, captureVars, audioVars
<1>5. CASE Phone
  <2>1. /\ UNCHANGED <<capturePc, encoder, audioPc, audioKind, audioNext>>
        /\ (video_up' => video_up)
    BY <1>5 DEF Phone, PhoneReads, PhoneCloses, captureVars, audioVars
  <2>2. WellFramed' /\ (wire' # <<>> => wire # <<>> /\ LastPart' = LastPart)
    <3>1. CASE UNCHANGED wire
      BY <3>1 DEF WellFramed, LastPart
    <3>2. CASE wire # <<>> /\ wire' = Tail(wire)
      BY <3>2, FramedRead
    <3> QED BY <1>5, <3>1, <3>2 DEF Phone, PhoneReads, PhoneCloses
  <2> QED BY <2>1, <2>2 DEF CapturePacket, AudioPacket
<1>6. CASE Tick \/ UNCHANGED vars
  BY <1>6
  DEF Tick, vars, links, captureVars, audioVars, WellFramed, LastPart,
      CapturePacket, AudioPacket
<1> QED BY <1>1, <1>2, <1>3, <1>4, <1>5, <1>6 DEF Next, Exited

-----------------------------------------------------------------------------
(***************************************************************************)
(* How the session ends.                                                   *)
(***************************************************************************)

(* Every step keeps the report of a session stopped by the phone healthy.  *)
LEMMA ReportedStep ==
  ASSUME FlagsTyped, MainTyped, Reported, Unstarted, [Next]_vars
  PROVE  Reported'
<1> USE DEF Reported
<1>0. \A e \in Event : /\ events' = Append(events, e)
                       => \A f \in Event \ {e} : NoEvent(f) => NoEvent(f)'
  BY AppendProperties DEF NoEvent, MainTyped
<1>1. CASE MainThread
  <2>1. \/ receiverPc' = receiverPc
        \/ receiverPc = "off" /\ receiverPc' = "receive"
    BY <1>1, MainFootprint DEF Unstarted
  <2>2. stopped => stopped'
    BY <1>1, MainFootprint
  <2>3. capturePc' = capturePc \/ (capturePc = "off" /\ capturePc' = "init")
    BY <1>1, MainFootprint DEF Unstarted
  <2>4. events' = events \/ (events # <<>> /\ events' = Tail(events))
    BY <1>1, MainFootprint
  <2>5. \A f : NoEvent(f) => NoEvent(f)'
    BY <2>4, HeadTailProperties DEF NoEvent, MainTyped
  <2> QED BY <1>1, <2>1, <2>2, <2>3, <2>5, MainFootprint DEF history
<1>2. CASE CaptureThread
  <2> USE DEF CaptureGoto, history, flags, receiverVars
  <2>1. CASE CaptureExit
    <3>1. UNCHANGED <<stopped, phone_stop, receiverPc>>
      BY <2>1 DEF CaptureExit
    <3>2. CASE events' = events
      <4>1. NoEvent("DEMUXER_ERROR")' = NoEvent("DEMUXER_ERROR")
            /\ NoEvent("DEVICE_DISCONNECTED")' = NoEvent("DEVICE_DISCONNECTED")
        BY <3>2 DEF NoEvent
      <4>2. \/ capturePc' = "done" /\ UNCHANGED fatal_error
            \/ capturePc' = "report" /\ UNCHANGED fatal_error /\ ~stopped
            \/ capturePc = "report" /\ fatal_error'
            \/ /\ capturePc = "push-error" /\ capturePc' = "done"
               /\ UNCHANGED fatal_error
        BY <2>1 DEF CaptureExit, UnexpectedFailure
      <4> QED BY <3>1, <4>1, <4>2
    <3>3. CASE /\ events' = Append(events, "DEMUXER_ERROR")
               /\ capturePc = "push-error"
      <4>1. NoEvent("DEVICE_DISCONNECTED") => NoEvent("DEVICE_DISCONNECTED")'
        BY <1>0, <3>3 DEF Event
      <4> QED BY <2>1, <3>1, <3>3, <4>1 DEF CaptureExit
    <3> QED BY <2>1, <3>2, <3>3 DEF CaptureExit
  <2>2. CASE ~CaptureExit
    <3>1. /\ UNCHANGED <<stopped, fatal_error, events>>
          /\ capturePc' \notin {"report", "push-error"}
      BY <1>2, <2>2
      DEF CaptureThread, CaptureInit, CaptureStreamHeader, CaptureReady,
          CaptureMove, CaptureControl, CaptureGrab, CaptureRefresh,
          CaptureBegin, CaptureEncode, CaptureLock, CaptureWrite, CaptureEnd
    <3> QED BY <1>2, <3>1, CaptureFootprint DEF NoEvent
  <2> QED BY <2>1, <2>2
<1>3. CASE AudioThread
  BY <1>3, AudioFootprint
  DEF receiverVars, captureVars, flags, history, NoEvent
<1>4. CASE ReceiverThread
  <2>0. UNCHANGED capturePc
    BY <1>4, ReceiverFootprint DEF captureVars
  <2> USE DEF ReceiverGoto, Receives, flags, history
  <2>1. ASSUME NEW pts, ReceiveFrameAck(pts) \/ ReceiveAudioAck(pts)
        PROVE  Reported'
    BY <2>0, <2>1 DEF ReceiveFrameAck, ReceiveAudioAck, NoEvent
  <2>2. CASE PublishAck
    BY <2>0, <2>2 DEF PublishAck, NoEvent
  <2>3. CASE ReceiveTouch
    BY <2>0, <2>3 DEF ReceiveTouch, NoEvent
  <2>4. CASE ReceivePause
    BY <2>0, <2>4 DEF ReceivePause, NoEvent
  <2>5. CASE PauseWatchdogs
    BY <2>0, <2>5 DEF PauseWatchdogs, NoEvent
  <2>6. CASE ReceiveResume
    BY <2>0, <2>6 DEF ReceiveResume, NoEvent
  <2>7. CASE ResumeRefresh
    BY <2>0, <2>7 DEF ResumeRefresh, NoEvent
  <2>8. CASE ResumeUnpause
    BY <2>0, <2>8 DEF ResumeUnpause, NoEvent
  <2>9. CASE ReceiveAudioSwitch \/ AudioSwitchWatchdog
    BY <2>0, <2>9 DEF ReceiveAudioSwitch, AudioSwitchWatchdog, NoEvent
  <2>10. CASE ReceiveStop
    BY <2>0, <2>10 DEF ReceiveStop, NoEvent
  <2>11. CASE ReceiverEnds
    BY <2>0, <2>11 DEF ReceiverEnds, NoEvent
  <2>12. CASE ReceiverPush
    BY <1>0, <2>0, <2>12 DEF ReceiverPush, Event
  <2> QED
    BY <1>4, <2>1, <2>2, <2>3, <2>4, <2>5, <2>6, <2>7, <2>8, <2>9,
       <2>10, <2>11, <2>12
    DEF ReceiverThread
<1>5. CASE Phone \/ Tick
  BY <1>5 DEF Phone, Tick, receiverVars, captureVars, flags, history, NoEvent
<1>6. CASE UNCHANGED vars
  BY <1>6 DEF vars, receiverVars, captureVars, flags, history, NoEvent
<1> QED BY <1>1, <1>2, <1>3, <1>4, <1>5, <1>6 DEF Next, Exited

-----------------------------------------------------------------------------
(***************************************************************************)
(* Flow control.                                                           *)
(***************************************************************************)

(* The multiples of what one capture can make of the encoder.              *)
LEMMA Multiples ==
  /\ Made \in Nat \ {0}
  /\ 0 * Made = 0
  /\ \A i \in Nat : i * Made \in Nat /\ (i + 1) * Made = i * Made + Made
<1>1. Made \in Nat \ {0}
  BY DisplayAssumption DEF Made
<1> HIDE DEF Made
<1> QED BY <1>1

(* The window holds pts, and so does its reference entry.                  *)
LEMMA LastPendingTyped ==
  ASSUME FlagsTyped, CaptureTyped
  PROVE  /\ last_acked_pts \in Int /\ LastPending \in Int
         /\ Len(pending) \in Nat
         /\ \A i \in 1..Len(pending) : pending[i] \in 0..MaxFrames
         /\ pending = <<>> <=> Len(pending) = 0
<1>1. /\ Len(pending) \in Nat
      /\ \A i \in 1..Len(pending) : pending[i] \in 0..MaxFrames
      /\ pending = <<>> <=> Len(pending) = 0
  BY LenProperties, ElementOfSeq, EmptySeq DEF CaptureTyped
<1>2. last_acked_pts \in Int
  BY DisplayAssumption DEF FlagsTyped, PtsRange, NoPts
<1> QED BY <1>1, <1>2, DisplayAssumption DEF LastPending

(* A newer acknowledgement never lowers the reference of an unchanged      *)
(* window.                                                                 *)
LEMMA LastPendingMonotone ==
  ASSUME FlagsTyped, CaptureTyped, UNCHANGED pending, last_acked_pts' \in Int,
         last_acked_pts <= last_acked_pts'
  PROVE  LastPending' \in Int /\ LastPending <= LastPending'
BY LastPendingTyped DEF LastPending

(* Consuming acknowledgements shortens the window from the front and never *)
(* lowers its reference.                                                   *)
LEMMA UnconsumedPending ==
  ASSUME FlagsTyped, CaptureTyped, pending' = Unconsumed(pending,
         last_acked_pts),
         UNCHANGED last_acked_pts
  PROVE  \E n \in 0..Len(pending) :
           /\ n = Consumed(pending, last_acked_pts)
           /\ Len(pending') = Len(pending) - n
           /\ \A i \in 1..Len(pending') : pending'[i] = pending[n + i]
           /\ n > 0 => pending[n] <= last_acked_pts
           /\ LastPending' \in Int /\ LastPending <= LastPending'
<1> DEFINE n == Consumed(pending, last_acked_pts)
<1>1. (0..MaxFrames) \in SUBSET Int /\ last_acked_pts \in Int
  BY LastPendingTyped
<1>2. /\ pending' \in Seq(0..MaxFrames)
      /\ n \in 0..Len(pending)
      /\ Len(pending') = Len(pending) - n
      /\ \A i \in 1..Len(pending') : pending'[i] = pending[n + i]
      /\ n > 0 => pending[n] <= last_acked_pts
  BY <1>1, UnconsumedCorrect DEF CaptureTyped
<1> HIDE DEF n
<1>3. pending' = <<>> <=> Len(pending') = 0
  BY <1>2, EmptySeq
<1>4. LastPending' \in Int /\ LastPending <= LastPending'
  <2>1. CASE pending' = <<>>
    <3>1. n = Len(pending) /\ LastPending' = last_acked_pts
      BY <1>2, <1>3, <2>1, LastPendingTyped DEF LastPending
    <3> QED BY <1>1, <1>2, <3>1, LastPendingTyped DEF LastPending
  <2>2. CASE pending' # <<>>
    <3>1. /\ LastPending' = pending'[Len(pending')]
          /\ Len(pending') \in 1..Len(pending')
          /\ n + Len(pending') = Len(pending) /\ pending # <<>>
      <4>1. Len(pending') \in Nat /\ Len(pending) \in Nat
        BY <1>2, LenProperties, LastPendingTyped
      <4> QED BY <1>2, <1>3, <2>2, <4>1, LastPendingTyped DEF LastPending
    <3>2. LastPending' = pending[Len(pending)]
      BY <1>2, <3>1
    <3> QED BY <3>1, <3>2, LastPendingTyped DEF LastPending
  <2> QED BY <2>1, <2>2
<1> QED BY <1>2, <1>4 DEF n

(* Every step keeps room in the window for the capture being made.         *)
LEMMA WindowedStep ==
  ASSUME FlagsTyped, CaptureTyped, Unstarted, Windowed, [Next]_vars
  PROVE  Windowed'
<1> USE DEF Windowed, CaptureWriting
<1>0. /\ Len(pending) \in Nat /\ MaxInFlight \in Nat
      /\ stopped => stopped'
  BY LastPendingTyped, DisplayAssumption, StoppedStays
<1>1. CASE ~CaptureThread
  BY <1>0, <1>1, CaptureIdle
<1>2. CASE CaptureThread
  <2> USE DEF CaptureGoto
  <2>0. UNCHANGED <<stopped, last_acked_pts>>
    BY <1>2, CaptureFootprint
  <2>1. CASE CaptureControl
    <3>1. CASE UNCHANGED pending
      <4>1. CASE /\ capturePc = "wait-ack"
                 /\ Consumed(pending, last_acked_pts) > 0 /\ ~stopped
        <5>1. pending = Unconsumed(pending, last_acked_pts)
          BY <2>1, <3>1, <4>1 DEF CaptureControl, CaptureMove
        <5>2. Consumed(pending, last_acked_pts) = 0
          <6>1. (0..MaxFrames) \in SUBSET Int /\ last_acked_pts \in Int
            BY LastPendingTyped
          <6> QED BY <1>0, <5>1, <6>1, UnconsumedCorrect DEF CaptureTyped
        <5> QED BY <4>1, <5>2
      <4>2. CASE ~(/\ capturePc = "wait-ack" /\ ~stopped
                   /\ Consumed(pending, last_acked_pts) > 0)
        BY <1>0, <2>0, <2>1, <3>1, <4>2
        DEF CaptureControl, CaptureMove, WindowFull
      <4> QED BY <4>1, <4>2
    <3>2. CASE /\ capturePc = "wait-ack" /\ ~stopped
               /\ Consumed(pending, last_acked_pts) > 0
               /\ pending' = Unconsumed(pending, last_acked_pts)
               /\ capturePc' = "recheck"
               /\ UNCHANGED captureOk
      <4>1. Len(pending') < Len(pending)
        BY <1>0, <2>0, <3>2, UnconsumedPending
      <4> QED BY <1>0, <3>2, <4>1
    <3> QED BY <2>1, <3>1, <3>2 DEF CaptureControl, CaptureMove
  <2>2. CASE CaptureEncode
    <3>1. Len(Pushed(pending, sentPts)) <= Len(pending) + 1
      BY <1>0, AppendProperties DEF CaptureTyped, Pushed
    <3>2. Len(Pushed(pending, sentPts)) \in Nat
      BY <1>0, AppendProperties DEF CaptureTyped, Pushed
    <3> HIDE DEF Pushed
    <3> QED BY <1>0, <2>2, <3>1, <3>2 DEF CaptureEncode, CaptureTyped
  <2>3. CASE CaptureInit \/ CaptureStreamHeader \/ CaptureReady
    BY <1>0, <2>3
    DEF CaptureInit, CaptureStreamHeader, CaptureReady, CaptureTyped
  <2>4. CASE CaptureGrab \/ CaptureRefresh \/ CaptureBegin \/ CaptureLock
    BY <1>0, <2>4
    DEF CaptureGrab, CaptureRefresh, CaptureBegin, CaptureLock, CaptureTyped
  <2>5. CASE CaptureWrite \/ CaptureEnd \/ CaptureExit
    BY <1>0, <2>5
    DEF CaptureWrite, CaptureEnd, CaptureExit, CaptureTyped, UnexpectedFailure
  <2> QED BY <1>2, <2>1, <2>2, <2>3, <2>4, <2>5 DEF CaptureThread
<1> QED BY <1>1, <1>2

(* Every step keeps the encoder holding the latest frames, and the         *)
(* watchdog told of all others.                                            *)
LEMMA NumberedStep ==
  ASSUME FlagsTyped, WatchdogsTyped, CaptureTyped, Unstarted, Windowed,
         Numbered, [Next]_vars
  PROVE  Numbered'
<1> USE DEF Numbered
<1>0. /\ Len(encoder) \in Nat /\ nextPts \in Nat /\ watchdog \in Watchdog
      /\ watchdog.submitted \in Int
      /\ Present \in Nat
      /\ \A i \in 1..Len(encoder) :
           encoder[i] \in Frame /\ encoder[i].pts \in Nat
      /\ encoder # <<>> <=> Len(encoder) > 0
  <2>1. watchdog \in Watchdog /\ watchdog.submitted \in Int /\ Present \in Nat
    BY DEF WatchdogsTyped, Watchdog, Pts, NoPts, Present
  <2>2. /\ Len(encoder) \in Nat /\ nextPts \in Nat
        /\ \A i \in 1..Len(encoder) : encoder[i] \in Frame
        /\ encoder # <<>> <=> Len(encoder) > 0
    BY LenProperties, ElementOfSeq, EmptySeq DEF CaptureTyped
  <2>3. \A frame \in Frame : frame.pts \in Nat
    BY DEF Frame
  <2> QED BY <2>1, <2>2, <2>3
<1>1. CASE ~CaptureThread
  <2>1. watchdog'.submitted = watchdog.submitted
    BY <1>1, SubmittedKept
  <2> QED BY <1>1, <2>1, CaptureIdle DEF CaptureWriting
<1>2. CASE CaptureThread
  <2> USE DEF CaptureGoto, CaptureWriting
  <2>1. CASE CaptureInit \/ CaptureReady \/ CaptureBegin \/ CaptureEnd
    <3>1. /\ watchdog'.submitted = watchdog.submitted
          /\ UNCHANGED <<nextPts, encoder>>
      BY <1>0, <2>1, WatchdogFields
      DEF CaptureInit, CaptureReady, CaptureBegin, CaptureEnd
    <3>2. captureOk' => captureOk
      BY <2>1
      DEF CaptureInit, CaptureReady, CaptureBegin, CaptureEnd, Windowed,
          CaptureTyped
    <3> QED
      BY <2>1, <3>1, <3>2
      DEF CaptureInit, CaptureReady, CaptureBegin, CaptureEnd
  <2>2. CASE CaptureEncode
    <3>1. UNCHANGED <<nextPts, encoder>>
      BY <2>2 DEF CaptureEncode
    <3>2. CASE /\ capturePc' = "end" /\ UNCHANGED watchdog
               /\ (captureOk' => captureOk)
      BY <2>2, <3>1, <3>2 DEF CaptureEncode
    <3>3. CASE /\ encoder # <<>>
               /\ watchdog' = Submit(watchdog, Head(encoder).pts)
               /\ capturePc' = "lock"
               /\ UNCHANGED captureOk
      <4>1. /\ Head(encoder).pts = nextPts - Len(encoder)
            /\ Head(encoder).pts \in Pts
        <5>1. Head(encoder) = encoder[1]
          BY <3>3, HeadTailProperties DEF CaptureTyped
        <5> QED BY <1>0, <3>3, <5>1 DEF Pts
      <4>2. watchdog'.submitted = IF Head(encoder).pts > watchdog.submitted
                                  THEN Head(encoder).pts ELSE watchdog.submitted
        BY <1>0, <3>3, <4>1, WatchdogFields
      <4> QED BY <1>0, <2>2, <3>1, <3>3, <4>1, <4>2 DEF CaptureEncode
    <3> QED BY <2>2, <3>2, <3>3 DEF CaptureEncode
  <2>3. CASE CaptureRefresh
    <3>1. /\ encoder' \in Seq(Frame) /\ Len(encoder') = Len(encoder) + 1
          /\ \A i \in 1..Len(encoder) : encoder'[i] = encoder[i]
          /\ encoder'[Len(encoder) + 1].pts = nextPts
      <4> DEFINE frame == [pts |-> nextPts, idr |-> AsIdr]
      <4>1. frame \in Frame
        BY DEF Frame, CaptureTyped, AsIdr, FlagsTyped
      <4>2. encoder' = Append(encoder, frame) /\ frame.pts = nextPts
        BY <2>3 DEF CaptureRefresh
      <4> HIDE DEF frame
      <4> QED BY <4>1, <4>2, AppendProperties DEF CaptureTyped
    <3>2. /\ nextPts' = nextPts + 1 /\ UNCHANGED <<watchdog, captureOk>>
          /\ capturePc' = "begin"
          /\ capturePc = "refresh"
      BY <2>3 DEF CaptureRefresh, watchdogs
    <3>3. ASSUME NEW i \in 1..Len(encoder')
          PROVE  encoder'[i].pts = nextPts' - Len(encoder') + i - 1
      <4>1. i \in 1..Len(encoder) \/ i = Len(encoder) + 1
        BY <1>0, <3>1
      <4>2. CASE i \in 1..Len(encoder)
        <5>1. encoder'[i].pts = nextPts - Len(encoder) + i - 1
          BY <3>1, <4>2
        <5> QED BY <1>0, <3>1, <3>2, <4>2, <5>1
      <4>3. CASE i = Len(encoder) + 1
        BY <1>0, <3>1, <3>2, <4>3
      <4> QED BY <4>1, <4>2, <4>3
    <3>4. captureOk => watchdog'.submitted = nextPts' - Len(encoder') - 1
      BY <1>0, <3>1, <3>2
    <3> QED BY <3>2, <3>3, <3>4
  <2>4. CASE CaptureWrite
    <3>1. UNCHANGED <<nextPts, watchdog>> /\ capturePc \in CaptureWriting
      BY <2>4 DEF CaptureWrite, watchdogs
    <3>2. CASE /\ UNCHANGED encoder
               /\ (captureOk' => captureOk /\ capturePc' = "write-payload")
      BY <3>1, <3>2
    <3>3. CASE /\ encoder' = Tail(encoder) /\ capturePc' = "encode"
               /\ UNCHANGED captureOk
      <4>1. encoder # <<>>
        BY <3>1 DEF CaptureTyped
      <4>2. /\ Len(encoder') = Len(encoder) - 1
            /\ \A i \in 1..Len(encoder') : encoder'[i] = encoder[i + 1]
        BY <3>3, <4>1, HeadTailProperties DEF CaptureTyped
      <4> QED BY <1>0, <3>1, <3>3, <4>1, <4>2
    <3> QED BY <2>4, <3>2, <3>3 DEF CaptureWrite
  <2>5. CASE \/ CaptureStreamHeader \/ CaptureControl \/ CaptureGrab
             \/ CaptureLock \/ CaptureExit
    BY <2>5
    DEF CaptureStreamHeader, CaptureControl, CaptureMove, CaptureGrab,
        CaptureLock, CaptureExit, watchdogs
  <2> QED BY <1>2, <2>1, <2>2, <2>3, <2>4, <2>5 DEF CaptureThread
<1> QED BY <1>1, <1>2

(* Every step keeps the published acknowledgement no newer than the        *)
(* accepted one, and never takes either back.                              *)
LEMMA AckStep ==
  ASSUME FlagsTyped, WatchdogsTyped, CaptureTyped, AudioTyped, ReceiverTyped,
         Unstarted, [Next]_vars,
         last_acked_pts <= watchdog.acked,
         receiverPc = "publish-ack" => receiverArg = watchdog.acked
  PROVE  /\ last_acked_pts' \in Int /\ last_acked_pts <= last_acked_pts'
         /\ last_acked_pts' <= watchdog'.acked
         /\ receiverPc' = "publish-ack" => receiverArg' = watchdog'.acked
<1>0. /\ watchdog \in Watchdog /\ watchdog.acked \in Int
      /\ last_acked_pts \in Int /\ Present \in Nat
  <2>1. watchdog \in Watchdog /\ watchdog.acked \in Int /\ Present \in Nat
    BY DEF WatchdogsTyped, Watchdog, Pts, NoPts, Present
  <2> QED BY <2>1, LastPendingTyped
<1>1. CASE MainThread
  <2>1. receiverPc' = receiverPc \/ receiverPc' = "receive"
    BY <1>1, MainFootprint
  <2>2. UNCHANGED <<last_acked_pts, watchdog, receiverArg>>
    BY <1>1, MainFootprint DEF watchdogs
  <2> QED BY <1>0, <2>1, <2>2
<1>2. CASE CaptureThread
  BY <1>0, <1>2, CaptureWatchdog, CaptureFootprint DEF receiverVars
<1>3. CASE AudioThread
  BY <1>0, <1>3, AudioFootprint DEF flags, receiverVars
<1>4. CASE ReceiverThread
  <2> USE DEF ReceiverGoto, flags
  <2>1. ASSUME NEW pts \in PtsRange, ReceiveFrameAck(pts)
        PROVE  /\ UNCHANGED last_acked_pts /\ watchdog.acked <= watchdog'.acked
               /\ watchdog'.acked \in Int
               /\ receiverPc' = "publish-ack" => receiverArg' = watchdog'.acked
    <3>1. pts \in Pts /\ pts \in Int
      BY DisplayAssumption DEF PtsRange, Pts, NoPts
    <3>2. /\ watchdog'.acked = IF AckAccepted(watchdog, pts) THEN pts
                             ELSE watchdog.acked
          /\ UNCHANGED last_acked_pts
      BY <1>0, <2>1, <3>1, WatchdogFields DEF ReceiveFrameAck
    <3>3. AckAccepted(watchdog, pts) => watchdog.acked < pts
      BY DEF AckAccepted
    <3>4. IF AckAccepted(watchdog, pts) THEN receiverArg' = pts
                                        ELSE receiverPc' = "receive"
      BY <2>1 DEF ReceiveFrameAck, Receives
    <3> QED BY <1>0, <3>1, <3>2, <3>3, <3>4
  <2>2. CASE PublishAck
    BY <1>0, <2>2 DEF PublishAck, watchdogs
  <2>3. CASE PauseWatchdogs \/ ReceiveResume
    <3>1. receiverPc' # "publish-ack" /\ UNCHANGED last_acked_pts
      <4>1. CASE PauseWatchdogs BY <4>1 DEF PauseWatchdogs
      <4>2. CASE ReceiveResume BY Zenon, <4>2 DEF ReceiveResume
      <4> QED BY <2>3, <4>1, <4>2
    <3>2. watchdog'.acked = watchdog.acked
      BY <1>0, <2>3
      DEF PauseWatchdogs, ReceiveResume, SetPaused, Rearmed, Watchdog
    <3> QED BY <1>0, <3>1, <3>2
  <2>4. CASE \/ \E pts \in AudioPtsRange : ReceiveAudioAck(pts)
             \/ ReceiveTouch \/ ReceivePause \/ ResumeRefresh \/ ResumeUnpause
    BY <1>0, <2>4
    DEF ReceiveAudioAck, ReceiveTouch, ReceivePause, ResumeRefresh,
        ResumeUnpause, watchdogs, Receives
  <2>5. CASE \/ ReceiveAudioSwitch \/ AudioSwitchWatchdog \/ ReceiveStop
             \/ ReceiverEnds \/ ReceiverPush
    BY <1>0, <2>5
    DEF ReceiveAudioSwitch, AudioSwitchWatchdog, ReceiveStop, ReceiverEnds,
        ReceiverPush, watchdogs
  <2> QED BY <1>0, <1>4, <2>1, <2>2, <2>3, <2>4, <2>5 DEF ReceiverThread
<1>5. CASE Phone
  BY <1>0, <1>5 DEF Phone, flags, watchdogs, receiverVars
<1>6. CASE Tick
  BY <1>0, <1>6, WatchdogFields DEF Tick, flags, receiverVars
<1>7. CASE UNCHANGED vars
  BY <1>0, <1>7 DEF vars, flags, watchdogs, receiverVars
<1> QED BY <1>1, <1>2, <1>3, <1>4, <1>5, <1>6, <1>7 DEF Next, Exited

(* When the encoder has nothing more to return, the last packet sent is    *)
(* within reach of the window.                                             *)
LEMMA SentInWindow ==
  ASSUME FlagsTyped, WatchdogsTyped, CaptureTyped, Windowed, Numbered, Counted,
         capturePc = "encode", sentPts # NoPts
  PROVE  /\ sentPts \in 0..MaxFrames /\ sentPts = watchdog.submitted
         /\ sentPts <= LastPending + Made
<1>1. sentPts \in 0..MaxFrames
  BY DisplayAssumption DEF CaptureTyped, PtsRange, NoPts
<1>2. /\ captureOk /\ Len(encoder) \in Nat /\ nextPts \in Nat
      /\ LastPending \in Int /\ Made \in Nat
  BY LenProperties, LastPendingTyped, Multiples DEF Windowed, CaptureTyped
<1>3. sentPts = watchdog.submitted /\ nextPts - 1 <= LastPending + Made
  BY DEF Counted
<1>4. watchdog.submitted = nextPts - Len(encoder) - 1
  BY <1>2 DEF Numbered, CaptureWriting
<1> QED BY <1>1, <1>2, <1>3, <1>4

(* The capture just sent becomes the reference of the window.              *)
LEMMA PushedPending ==
  ASSUME FlagsTyped, CaptureTyped, sentPts \in 0..MaxFrames,
         pending' = Pushed(pending, sentPts)
  PROVE  /\ Len(pending') = Len(pending) + 1
         /\ \A i \in 1..Len(pending) : pending'[i] = pending[i]
         /\ pending'[Len(pending) + 1] = sentPts
         /\ LastPending' = sentPts
<1>1. sentPts # NoPts
  BY DEF NoPts
<1>2. pending' = Append(pending, sentPts)
  BY <1>1 DEF Pushed
<1>3. /\ Len(pending') = Len(pending) + 1
      /\ \A i \in 1..Len(pending) : pending'[i] = pending[i]
      /\ pending'[Len(pending) + 1] = sentPts
      /\ pending' # <<>>
  BY <1>2, AppendProperties DEF CaptureTyped
<1> QED BY <1>3 DEF LastPending

(* Every step keeps the captures of the window within reach of the         *)
(* acknowledgement.                                                        *)
LEMMA AcknowledgedStep ==
  ASSUME FlagsTyped, WatchdogsTyped, CaptureTyped, AudioTyped, ReceiverTyped,
         Unstarted,
         Windowed, Acknowledged, Numbered, Counted, [Next]_vars
  PROVE  Acknowledged'
<1>0. /\ last_acked_pts' \in Int /\ last_acked_pts <= last_acked_pts'
      /\ last_acked_pts' <= watchdog'.acked
      /\ receiverPc' = "publish-ack" => receiverArg' = watchdog'.acked
  BY AckStep DEF Acknowledged
<1>1. /\ last_acked_pts \in Int /\ LastPending \in Int
      /\ Len(pending) \in Nat /\ \A i \in 1..Len(pending) : pending[i] \in Int
      /\ pending = <<>> <=> Len(pending) = 0
  BY LastPendingTyped
<1>2. /\ \A i \in 1..Len(pending) : pending[i] <= last_acked_pts + i * Made
      /\ \A i, j \in 1..Len(pending) :
           i <= j => pending[j] <= pending[i] + (j - i) * Made
  BY DEF Acknowledged
<1>3. /\ Made \in Nat /\ 0 * Made = 0
      /\ \A i \in Nat : i * Made \in Nat /\ (i + 1) * Made = i * Made + Made
  BY Multiples
<1> HIDE DEF Made
<1> SUFFICES /\ \A i \in 1..Len(pending') :
                  pending'[i] <= last_acked_pts' + i * Made
             /\ \A i, j \in 1..Len(pending') :
                  i <= j => pending'[j] <= pending'[i] + (j - i) * Made
  BY <1>0 DEF Acknowledged, Made
<1>4. CASE UNCHANGED pending
  BY <1>0, <1>1, <1>2, <1>3, <1>4
<1>5. CASE /\ pending' = Unconsumed(pending, last_acked_pts)
           /\ UNCHANGED last_acked_pts
  <2>1. PICK n \in 0..Len(pending) :
          /\ Len(pending') = Len(pending) - n
          /\ \A i \in 1..Len(pending') : pending'[i] = pending[n + i]
          /\ n > 0 => pending[n] <= last_acked_pts
    BY <1>5, UnconsumedPending
  <2>2. ASSUME NEW i \in 1..Len(pending')
        PROVE  pending'[i] <= last_acked_pts' + i * Made
    <3>1. n + i \in 1..Len(pending) /\ pending'[i] = pending[n + i]
      BY <1>1, <2>1
    <3>2. CASE n = 0
      BY <1>2, <1>5, <3>1, <3>2
    <3>3. CASE n > 0
      <4>1. n \in 1..Len(pending) /\ n <= n + i /\ (n + i) - n = i
        BY <3>3
      <4>2. pending[n + i] <= pending[n] + i * Made
        BY <1>2, <3>1, <4>1
      <4> QED BY <1>1, <1>3, <1>5, <2>1, <3>1, <3>3, <4>1, <4>2
    <3> QED BY <3>2, <3>3
  <2>3. ASSUME NEW i \in 1..Len(pending'), NEW j \in 1..Len(pending'), i <= j
        PROVE  pending'[j] <= pending'[i] + (j - i) * Made
    <3>1. /\ n + i \in 1..Len(pending) /\ pending'[i] = pending[n + i]
          /\ n + j \in 1..Len(pending) /\ pending'[j] = pending[n + j]
          /\ n + i <= n + j /\ (n + j) - (n + i) = j - i
      BY <1>1, <2>1, <2>3
    <3> QED BY <1>2, <3>1
  <2> QED BY <2>2, <2>3
<1>6. CASE /\ capturePc = "encode" /\ sentPts # NoPts
           /\ pending' = Pushed(pending, sentPts)
           /\ UNCHANGED last_acked_pts
  <2> DEFINE last == Len(pending) + 1
  <2>1. /\ sentPts \in Int /\ sentPts \in 0..MaxFrames
        /\ sentPts <= LastPending + Made
    BY <1>6, SentInWindow
  <2>2. /\ Len(pending') = last
        /\ \A i \in 1..Len(pending) : pending'[i] = pending[i]
        /\ pending'[last] = sentPts
    BY <1>6, <2>1, PushedPending
  <2>3. sentPts <= last_acked_pts + last * Made
    <3>1. last * Made = Len(pending) * Made + Made
      BY <1>1, <1>3
    <3>2. CASE pending = <<>>
      BY <1>1, <1>3, <2>1, <3>1, <3>2 DEF LastPending
    <3>3. CASE pending # <<>>
      <4>1. /\ LastPending = pending[Len(pending)]
            /\ Len(pending) \in 1..Len(pending)
        BY <1>1, <3>3 DEF LastPending
      <4>2. LastPending <= last_acked_pts + Len(pending) * Made
        BY <1>2, <4>1
      <4> QED BY <1>1, <1>3, <2>1, <3>1, <4>2
    <3> QED BY <3>2, <3>3
  <2>4. ASSUME NEW i \in 1..Len(pending)
        PROVE  sentPts <= pending[i] + (last - i) * Made
    <3>1. /\ LastPending = pending[Len(pending)]
          /\ Len(pending) \in 1..Len(pending)
      BY <1>1 DEF LastPending
    <3>2. LastPending <= pending[i] + (Len(pending) - i) * Made
      BY <1>1, <1>2, <3>1
    <3>3. Len(pending) - i \in Nat /\ (Len(pending) - i) + 1 = last - i
      BY <1>1
    <3>4. /\ (last - i) * Made = (Len(pending) - i) * Made + Made
          /\ (Len(pending) - i) * Made \in Nat
      BY <1>3, <3>3
    <3> QED BY <1>1, <1>3, <2>1, <3>2, <3>4
  <2>5. ASSUME NEW i \in 1..Len(pending')
        PROVE  pending'[i] <= last_acked_pts' + i * Made
    BY <1>1, <1>2, <1>6, <2>2, <2>3
  <2>6. ASSUME NEW i \in 1..Len(pending'), NEW j \in 1..Len(pending'), i <= j
        PROVE  pending'[j] <= pending'[i] + (j - i) * Made
    <3>1. CASE j \in 1..Len(pending)
      <4>1. i \in 1..Len(pending)
        BY <1>1, <2>6, <3>1
      <4> QED BY <1>2, <2>2, <2>6, <3>1, <4>1
    <3>2. CASE j = last /\ i \in 1..Len(pending)
      BY <2>2, <2>4, <3>2
    <3>3. CASE j = last /\ i = last
      <4>1. j - i = 0
        BY <1>1, <3>3
      <4> QED BY <1>3, <2>1, <2>2, <3>3, <4>1
    <3> QED BY <1>1, <2>2, <2>6, <3>1, <3>2, <3>3
  <2> QED BY <2>5, <2>6
<1>7. \/ UNCHANGED pending
      \/ /\ pending' = Unconsumed(pending, last_acked_pts)
         /\ UNCHANGED last_acked_pts
      \/ /\ capturePc = "encode" /\ sentPts # NoPts
         /\ pending' = Pushed(pending, sentPts)
         /\ UNCHANGED last_acked_pts
  <2>1. CASE ~CaptureThread
    BY <2>1, CaptureIdle
  <2>2. CASE CaptureThread
    <3>1. UNCHANGED last_acked_pts
      BY <2>2, CaptureFootprint
    <3>2. CASE CaptureEncode
      BY <3>1, <3>2 DEF CaptureEncode, Pushed
    <3>3. CASE CaptureControl
      BY <3>1, <3>3 DEF CaptureControl, CaptureMove
    <3>4. CASE ~CaptureEncode /\ ~CaptureControl
      BY <2>2, <3>4
      DEF CaptureThread, CaptureInit, CaptureStreamHeader, CaptureReady,
          CaptureGrab, CaptureRefresh, CaptureBegin, CaptureLock,
          CaptureWrite, CaptureEnd, CaptureExit
    <3> QED BY <3>2, <3>3, <3>4
  <2> QED BY <2>1, <2>2
<1> QED BY <1>4, <1>5, <1>6, <1>7

(* Every step keeps what was submitted covered by the window.              *)
LEMMA CountedStep ==
  ASSUME FlagsTyped, WatchdogsTyped, CaptureTyped, AudioTyped, ReceiverTyped,
         Unstarted,
         Windowed, Acknowledged, Numbered, Counted, [Next]_vars
  PROVE  Counted'
<1> USE DEF CaptureWriting
<1>0. /\ LastPending \in Int /\ Made \in Nat /\ Made = EncoderDepth + 1
      /\ EncoderDepth \in Nat
      /\ Len(encoder) \in Nat /\ nextPts \in Nat
      /\ watchdog \in Watchdog /\ watchdog.submitted \in Int /\ Present \in Nat
      /\ captureOk \in BOOLEAN
  <2>1. watchdog \in Watchdog /\ watchdog.submitted \in Int /\ Present \in Nat
    BY DEF WatchdogsTyped, Watchdog, Pts, NoPts, Present
  <2>2. Made \in Nat /\ Made = EncoderDepth + 1 /\ EncoderDepth \in Nat
    BY DisplayAssumption DEF Made
  <2>3. Len(encoder) \in Nat /\ nextPts \in Nat /\ captureOk \in BOOLEAN
    BY LenProperties DEF CaptureTyped
  <2> QED BY <2>1, <2>2, <2>3, LastPendingTyped
<1>1. last_acked_pts' \in Int /\ last_acked_pts <= last_acked_pts'
  BY AckStep DEF Acknowledged
<1>2. UNCHANGED pending => LastPending' \in Int /\ LastPending <= LastPending'
  BY <1>1, LastPendingMonotone
<1>3. Made' = Made
  BY DEF Made
<1> HIDE DEF LastPending, Made
<1>4. CASE ~CaptureThread
  <2>1. watchdog'.submitted = watchdog.submitted
    BY <1>4, SubmittedKept
  <2>2. /\ UNCHANGED <<captureOk, pending, nextPts, sentPts, encoder>>
        /\ capturePc' = capturePc \/ (capturePc = "off" /\ capturePc' = "init")
    BY <1>4, CaptureIdle
  <2> QED BY <1>0, <1>2, <1>3, <2>1, <2>2 DEF Counted
<1>5. CASE CaptureThread
  <2> USE DEF CaptureGoto
  <2>1. CASE CaptureControl
    <3>1. /\ UNCHANGED <<captureOk, nextPts, sentPts, encoder, watchdog>>
          /\ capturePc \in {"top", "wait-ack", "recheck"}
          /\ capturePc' \in {"top", "wait-ack", "recheck", "exit", "grab"}
      BY <2>1 DEF CaptureControl, CaptureMove, watchdogs
    <3>2. captureOk
      BY <1>0, <3>1 DEF Windowed
    <3>3. LastPending' \in Int /\ LastPending <= LastPending'
      <4>1. UNCHANGED pending \/ pending' = Unconsumed(pending, last_acked_pts)
        BY <2>1 DEF CaptureControl, CaptureMove
      <4>2. UNCHANGED last_acked_pts
        BY <2>1 DEF CaptureControl, flags
      <4> QED BY <1>2, <4>1, <4>2, UnconsumedPending
    <3>4. /\ Len(encoder) <= EncoderDepth /\ watchdog.submitted <= LastPending
      BY <3>1, <3>2 DEF Counted
    <3>5. /\ captureOk' /\ Len(encoder') <= EncoderDepth
          /\ watchdog'.submitted <= LastPending'
      BY <1>0, <3>1, <3>2, <3>3, <3>4
    <3>6. capturePc' \notin CaptureWriting \cup {"begin", "encode", "lock"}
      BY <3>1
    <3> QED BY <3>5, <3>6 DEF Counted
  <2>2. CASE CaptureInit \/ CaptureReady \/ CaptureEnd
    <3>1. /\ watchdog'.submitted = watchdog.submitted
          /\ UNCHANGED <<pending, nextPts, sentPts, encoder>>
      BY <1>0, <2>2, WatchdogFields DEF CaptureInit, CaptureReady, CaptureEnd
    <3>2. /\ capturePc \in {"init", "ready", "end"}
          /\ capturePc' \in {"stream-header", "ready", "exit", "top"}
          /\ captureOk' => captureOk
      BY <2>2 DEF CaptureInit, CaptureReady, CaptureEnd, Windowed, CaptureTyped
    <3> QED BY <1>0, <1>2, <1>3, <3>1, <3>2 DEF Counted
  <2>3. CASE CaptureStreamHeader \/ CaptureGrab \/ CaptureExit
    <3>1. /\ UNCHANGED <<pending, nextPts, sentPts, encoder, watchdog>>
          /\ capturePc \in {"stream-header", "grab", "exit", "report",
                            "push-error"}
          /\ capturePc' \in {"ready", "top", "exit", "refresh", "report",
                             "push-error", "done"}
          /\ captureOk' => captureOk
      BY <2>3 DEF CaptureStreamHeader, CaptureGrab, CaptureExit, watchdogs
    <3> QED BY <1>0, <1>2, <1>3, <3>1 DEF Counted
  <2>4. CASE CaptureRefresh
    <3>1. captureOk
      BY <1>0, <2>4 DEF CaptureRefresh, Windowed
    <3>2. /\ UNCHANGED <<pending, watchdog, captureOk>>
          /\ capturePc = "refresh" /\ capturePc' = "begin"
          /\ nextPts' = nextPts + 1
      BY <2>4 DEF CaptureRefresh, watchdogs
    <3>3. Len(encoder) <= EncoderDepth /\ watchdog.submitted <= LastPending
      BY <3>1, <3>2 DEF Counted
    <3>4. watchdog.submitted = nextPts - Len(encoder) - 1
      BY <3>1, <3>2 DEF Numbered
    <3> QED BY <1>0, <1>2, <1>3, <3>1, <3>2, <3>3, <3>4 DEF Counted
  <2>5. CASE CaptureBegin
    <3>1. /\ watchdog'.submitted = watchdog.submitted
          /\ UNCHANGED <<pending, nextPts, captureOk, encoder>>
          /\ capturePc = "begin" /\ capturePc' = "encode" /\ sentPts' = NoPts
      BY <1>0, <2>5, WatchdogFields DEF CaptureBegin
    <3>2. captureOk
      BY <1>0, <3>1 DEF Windowed
    <3> QED BY <1>0, <1>2, <1>3, <3>1, <3>2 DEF Counted
  <2>6. CASE CaptureEncode
    <3>1. /\ captureOk /\ capturePc = "encode"
          /\ UNCHANGED <<nextPts, sentPts, encoder, last_acked_pts>>
          /\ nextPts - 1 <= LastPending + Made
          /\ watchdog.submitted = nextPts - Len(encoder) - 1
      BY <1>0, <2>6 DEF CaptureEncode, Windowed, Counted, Numbered, flags
    <3>2. CASE /\ captureOk' = FALSE /\ capturePc' = "end"
               /\ UNCHANGED <<pending, watchdog>>
      BY <1>0, <1>2, <1>3, <3>1, <3>2 DEF Counted
    <3>3. CASE /\ Len(encoder) <= EncoderDepth
               /\ pending' = Pushed(pending, sentPts)
               /\ capturePc' = "end" /\ UNCHANGED <<captureOk, watchdog>>
      <4>1. CASE sentPts = NoPts
        <5>1. UNCHANGED pending /\ watchdog.submitted <= LastPending
          BY <3>1, <3>3, <4>1 DEF Pushed, Counted
        <5> QED BY <1>0, <1>2, <1>3, <3>1, <3>3, <5>1 DEF Counted
      <4>2. CASE sentPts # NoPts
        <5>1. sentPts \in 0..MaxFrames /\ sentPts = watchdog.submitted
          BY <3>1, <4>2, SentInWindow
        <5>2. LastPending' = watchdog.submitted
          BY <3>3, <5>1, PushedPending
        <5> QED BY <1>0, <1>3, <3>1, <3>3, <5>2 DEF Counted
      <4> QED BY <4>1, <4>2
    <3>4. CASE capturePc' = "lock" /\ UNCHANGED <<captureOk, pending>>
      BY <1>0, <1>2, <1>3, <3>1, <3>4 DEF Counted
    <3> QED BY <2>6, <3>2, <3>3, <3>4 DEF CaptureEncode
  <2>7. CASE CaptureLock
    <3>1. /\ UNCHANGED <<pending, nextPts, captureOk>> /\ capturePc = "lock"
          /\ capturePc' = "write-header"
      BY <2>7 DEF CaptureLock
    <3>2. captureOk
      BY <1>0, <3>1 DEF Windowed
    <3> QED BY <1>0, <1>2, <1>3, <3>1, <3>2 DEF Counted
  <2>8. CASE CaptureWrite
    <3>1. /\ UNCHANGED <<pending, nextPts, watchdog>>
          /\ capturePc \in CaptureWriting
      BY <2>8 DEF CaptureWrite, watchdogs
    <3>2. captureOk /\ nextPts - 1 <= LastPending + Made
      BY <1>0, <3>1 DEF Windowed, Counted
    <3>3. /\ Len(encoder) > 0 /\ Head(encoder).pts = nextPts - Len(encoder)
          /\ Head(encoder).pts \in Nat
          /\ watchdog.submitted = nextPts - Len(encoder)
      <4>1. encoder # <<>>
        BY <3>1 DEF CaptureTyped
      <4>2. Head(encoder) = encoder[1] /\ Head(encoder) \in Frame
        BY <4>1, HeadTailProperties DEF CaptureTyped
      <4>3. Len(encoder) > 0
        BY <1>0, <4>1, EmptySeq DEF CaptureTyped
      <4>4. Head(encoder).pts \in Nat
        BY <4>2 DEF Frame
      <4> QED BY <1>0, <3>1, <3>2, <4>2, <4>3, <4>4 DEF Numbered
    <3>4. CASE capturePc' = "write-payload" /\ UNCHANGED captureOk
      BY <1>0, <1>2, <1>3, <3>1, <3>2, <3>4 DEF Counted
    <3>5. CASE /\ capturePc' = "encode" /\ UNCHANGED captureOk
               /\ sentPts' = Head(encoder).pts
      <4>1. sentPts' # NoPts
        BY <3>3, <3>5 DEF NoPts
      <4> QED BY <1>0, <1>2, <1>3, <3>1, <3>2, <3>3, <3>5, <4>1 DEF Counted
    <3>6. CASE capturePc' = "end" /\ captureOk' = FALSE
      BY <1>0, <1>2, <1>3, <3>1, <3>2, <3>3, <3>6 DEF Counted
    <3> QED BY <2>8, <3>4, <3>5, <3>6 DEF CaptureWrite
  <2> QED
    BY <1>5, <2>1, <2>2, <2>3, <2>4, <2>5, <2>6, <2>7, <2>8 DEF CaptureThread
<1> QED BY <1>4, <1>5

(* The invariant bounds what is in flight.                                 *)
LEMMA WindowBounds ==
  ASSUME Typed, Windowed, Acknowledged, Numbered, Counted
  PROVE  InFlightBounded
<1> DEFINE capturing ==
             \/ capturePc \in {"encode", "lock", "write-header", "write-payload"}
             \/ ~captureOk
           captures  == Len(pending) + (IF capturing THEN 1 ELSE 0)
<1> USE DEF CaptureWriting, Typed
<1>0. /\ LastPending \in Int /\ last_acked_pts \in Int /\ Len(pending) \in Nat
      /\ Len(encoder) \in Nat
      /\ nextPts \in Nat /\ watchdog.submitted \in Int
      /\ watchdog.acked \in Int
      /\ captureOk \in BOOLEAN
  <2>1. watchdog.submitted \in Int /\ watchdog.acked \in Int
    BY DEF WatchdogsTyped, Watchdog, Pts, NoPts
  <2>2. Len(encoder) \in Nat /\ nextPts \in Nat /\ captureOk \in BOOLEAN
    BY LenProperties DEF CaptureTyped
  <2> QED BY <2>1, <2>2, LastPendingTyped
<1>1. /\ Made \in Nat /\ 0 * Made = 0
      /\ \A i \in Nat : i * Made \in Nat /\ (i + 1) * Made = i * Made + Made
  BY Multiples
<1> HIDE DEF Made
<1>2. captures <= MaxInFlight
  BY <1>0, DisplayAssumption DEF Windowed, CaptureTyped
<1>3. LastPending <= watchdog.acked + Len(pending) * Made
  <2>1. last_acked_pts <= watchdog.acked
    BY DEF Acknowledged
  <2>2. CASE pending = <<>>
    <3>1. Len(pending) = 0 /\ LastPending = last_acked_pts
      BY <2>2 DEF LastPending
    <3> QED BY <1>0, <1>1, <2>1, <3>1
  <2>3. CASE pending # <<>>
    <3>1. /\ Len(pending) \in 1..Len(pending)
          /\ LastPending = pending[Len(pending)]
      BY <1>0, <2>3, LastPendingTyped DEF LastPending
    <3>2. LastPending <= last_acked_pts + Len(pending) * Made
      BY <3>1 DEF Acknowledged
    <3> QED BY <1>0, <1>1, <2>1, <3>2
  <2> QED BY <2>2, <2>3
<1>4. CASE ~capturing
  <2>1. watchdog.submitted <= LastPending
    BY <1>0, <1>4 DEF Counted
  <2>2. captures = Len(pending)
    BY <1>4
  <2>3. watchdog.submitted - watchdog.acked <= captures * Made
    <3> HIDE DEF captures
    <3> QED BY <1>0, <1>1, <1>3, <2>1, <2>2
  <2> QED BY <1>2, <2>3 DEF InFlightBounded, Made
<1>5. CASE capturing
  <2>1. watchdog.submitted <= LastPending + Made
    <3>1. CASE captureOk
      <4>1. nextPts - 1 <= LastPending + Made
        BY <1>5, <3>1 DEF Counted
      <4>2. /\ watchdog.submitted <= nextPts - Len(encoder)
            /\ capturePc = "encode" => watchdog.submitted <= nextPts - 1
        BY <1>0, <3>1 DEF Numbered
      <4>3. capturePc # "encode" => Len(encoder) > 0
        BY <1>0, <1>5, <3>1, EmptySeq DEF CaptureTyped
      <4> QED BY <1>0, <1>1, <4>1, <4>2, <4>3
    <3>2. CASE ~captureOk
      BY <3>2 DEF Counted
    <3> QED BY <3>1, <3>2
  <2>2. captures = Len(pending) + 1
    BY <1>5
  <2>3. captures * Made = Len(pending) * Made + Made
    <3> HIDE DEF captures
    <3> QED BY <1>0, <1>1, <2>2
  <2>4. Len(pending) * Made \in Nat
    BY <1>0, <1>1
  <2>5. watchdog.submitted - watchdog.acked <= captures * Made
    <3> HIDE DEF captures
    <3> QED BY <1>0, <1>1, <1>3, <2>1, <2>3, <2>4
  <2> QED BY <1>2, <2>5 DEF InFlightBounded, Made
<1> QED BY <1>4, <1>5

-----------------------------------------------------------------------------
(***************************************************************************)
(* The invariant and the theorems.                                         *)
(***************************************************************************)

(* The initial state satisfies the inductive invariant.                    *)
LEMMA InitIInv == Init => IInv
<1> SUFFICES ASSUME Init PROVE IInv
  OBVIOUS
<1> USE DisplayAssumption
<1>0. /\ watchdog = NewWatchdog(FALSE) /\ audio_watchdog = NewWatchdog(TRUE)
      /\ watchdog.submitted = NoPts /\ watchdog.acked = NoPts
      /\ watchdog.paused = FALSE /\ audio_watchdog.paused = TRUE
      /\ ArmedIffOutstanding(watchdog) /\ ArmedIffOutstanding(audio_watchdog)
  BY NewWatchdogCorrect DEF Init, NewWatchdog
<1>1. Typed
  BY InitTyped
<1>2. Unstarted /\ Watched /\ Suspended /\ Refreshing /\ Released
  BY <1>0
  DEF Init, Unstarted, Watched, WatchdogsArmed, Suspended, Refreshing,
      RefreshNotLost, Released, CaptureWriting
<1>3. Locked /\ Framed
  BY DEF Init, Locked, Framed, WellFramed, CaptureWriting, AudioWriting
<1>4. Reported
  BY DEF Init, Reported, NoEvent
<1>5. /\ watchdog.submitted = NoPts /\ watchdog.acked = NoPts
      /\ pending = <<>> /\ encoder = <<>> /\ nextPts = 0 /\ captureOk
      /\ last_acked_pts = NoPts /\ capturePc = "off" /\ receiverPc = "off"
      /\ Len(pending) = 0 /\ Len(encoder) = 0
  BY <1>0 DEF Init
<1> HIDE DEF Init
<1>6. Windowed
  BY <1>5 DEF Windowed, CaptureWriting
<1>7. Acknowledged
  BY <1>5 DEF Acknowledged, NoPts
<1>8. /\ capturePc \notin CaptureWriting \cup {"begin", "encode", "lock"}
      /\ watchdog.submitted = nextPts - Len(encoder) - 1
      /\ 1..Len(encoder) = {} /\ Len(encoder) <= EncoderDepth
      /\ watchdog.submitted <= LastPending
  <2>1. capturePc \notin CaptureWriting \cup {"begin", "encode", "lock"}
    BY <1>5 DEF CaptureWriting
  <2>2. watchdog.submitted = nextPts - Len(encoder) - 1
    <3>1. nextPts = 0 /\ Len(encoder) = 0
      BY <1>5
    <3>2. watchdog.submitted = -1
      BY <1>5 DEF NoPts
    <3> QED BY ONLY <3>1, <3>2
  <2>3. 1..Len(encoder) = {} /\ Len(encoder) <= EncoderDepth
    BY <1>5
  <2>4. watchdog.submitted <= LastPending
    BY <1>5 DEF LastPending, NoPts
  <2> QED BY <2>1, <2>2, <2>3, <2>4
<1>9. Numbered
  BY <1>8 DEF Numbered
<1>10. Counted
  BY <1>5, <1>8 DEF Counted
<1> QED
  BY <1>1, <1>2, <1>3, <1>4, <1>6, <1>7, <1>9, <1>10 DEF IInv

(* Every step of every thread keeps the inductive invariant.               *)
LEMMA NextIInv == IInv /\ [Next]_vars => IInv'
<1> SUFFICES ASSUME IInv, [Next]_vars
             PROVE  IInv'
  OBVIOUS
<1> USE DEF IInv
<1>1. Typed'
  BY FlagsStep, WatchdogsStep, CaptureStep, AudioStep, ReceiverStep, MainStep,
     SocketStep DEF Typed
<1>2. Unstarted' /\ Watched' /\ Suspended' /\ Refreshing' /\ Released'
  BY UnstartedStep, WatchedStep, SuspendedStep, RefreshingStep, ReleasedStep
  DEF Typed
<1>3. Locked' /\ Framed' /\ Reported'
  BY LockedStep, FramedStep, ReportedStep DEF Typed
<1>4. Windowed' /\ Acknowledged' /\ Numbered' /\ Counted'
  BY WindowedStep, AcknowledgedStep, NumberedStep, CountedStep DEF Typed
<1> QED BY <1>1, <1>2, <1>3, <1>4

(* The invariant holds in every reachable state of every instance.         *)
THEOREM Invariance == Spec => []IInv
BY InitIInv, NextIInv, PTL DEF Spec

(* Whatever the phone acknowledges, and in whatever order, the host keeps  *)
(* its state within bounds and its captures within the window, and no more *)
(* frames are unacknowledged than an encoder of that depth can make of     *)
(* them (reverse_display.c:1435).                                          *)
THEOREM FlowControl == Spec => []FlowControlled
<1>1. IInv => FlowControlled
  BY TypedIsTypeOK, WindowBounds DEF IInv, FlowControlled
<1> QED BY <1>1, Invariance, PTL

(* Both watchdogs are armed exactly while their sender is busy or the      *)
(* phone owes an acknowledgement, across all interleavings of the senders, *)
(* the input thread and the clock.                                         *)
THEOREM WatchdogsAreArmed == Spec => []WatchdogsArmed
<1>1. IInv => WatchdogsArmed
  BY DEF IInv, Watched
<1> QED BY <1>1, Invariance, PTL

(* Between messages the watchdogs are suspended exactly for what the host  *)
(* does not send.                                                          *)
THEOREM WatchdogsFollowTheSession == Spec => []WatchdogsFollow
<1>1. IInv => WatchdogsFollow
  BY DEF IInv, Watched, Suspended, WatchdogsFollow, SuspendedIffNotSending
<1> QED BY <1>1, Invariance, PTL

(* A refresh requested by a resume stays requested until an IDR was        *)
(* encoded, although the capture thread clears the flag without a lock     *)
(* (reverse_display.c:1419).                                               *)
THEOREM RefreshIsKept == Spec => []RefreshNotLost
<1>1. IInv => RefreshNotLost
  BY DEF IInv, Refreshing
<1> QED BY <1>1, Invariance, PTL

(* The two senders of the one socket never mix their packets.              *)
THEOREM StreamIsFramed == Spec => []WellFramed
<1>1. IInv => WellFramed
  BY DEF IInv, Framed
<1> QED BY <1>1, Invariance, PTL

(* No contact outlives the visible session, the session the phone stopped, *)
(* or the input thread.                                                    *)
THEOREM ContactsAreReleased == Spec => []ContactsReleased
<1>1. IInv => ContactsReleased
  BY DEF IInv, Released, ContactsReleased
<1> QED BY <1>1, Invariance, PTL

(* When the phone stopped a healthy session the main loop leaves it with   *)
(* success: whichever thread fails on the closing sockets, no failure and  *)
(* no disconnection can reach the main loop before the QUIT                *)
(* (reverse_display.c:1896).                                               *)
THEOREM PhoneStopEndsNormally == Spec => PhoneStopIsNormalEnd
<1> DEFINE Normally ==
             phone_stop /\ mainPc = "wait" /\ mainPc' = "stop"
               => ret' = "SUCCESS"
<1>1. IInv /\ [Next]_vars => [Normally]_vars
  <2> SUFFICES ASSUME IInv, Next, phone_stop, mainPc = "wait", mainPc' = "stop"
               PROVE  ret' = "SUCCESS"
    OBVIOUS
  <2>1. MainWait
    <3>1. MainThread
      BY CaptureFootprint, AudioFootprint, ReceiverFootprint
      DEF Next, Phone, Tick, Exited, mainVars
    <3> QED BY <3>1 DEF MainThread, MainStart, MainPoll, MainStop,
                        MainInterrupt, MainJoin
  <2>2. /\ ~fatal_error /\ NoEvent("DEMUXER_ERROR")
        /\ NoEvent("DEVICE_DISCONNECTED")
    BY DEF IInv, Reported
  <2>3. events # <<>> => Head(events) = "QUIT"
    <3> SUFFICES ASSUME events # <<>> PROVE Head(events) = "QUIT"
      OBVIOUS
    <3>1. Len(events) > 0 /\ Head(events) = events[1] /\ Head(events) \in Event
      BY HeadTailProperties, EmptySeq, LenProperties DEF IInv, Typed, MainTyped
    <3> QED BY <2>2, <3>1 DEF NoEvent, Event
  <2> QED BY <2>1, <2>2, <2>3 DEF MainWait, MainGoto, ExitCode
<1> QED BY <1>1, Invariance, PTL DEF Spec, PhoneStopIsNormalEnd
=============================================================================
