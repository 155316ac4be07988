----------------------------- MODULE VideoOutput -----------------------------
(***************************************************************************)
(* From the decoder to the window: the decoder thread pushes frames and    *)
(* session changes, either directly or through the video regulator         *)
(* (app/src/video_regulator.c), whose thread delays them; the sink of the  *)
(* screen (app/src/screen.c) keeps the last frame in a buffer of one       *)
(* (app/src/frame_buffer.c) and posts an event, for which the main thread  *)
(* consumes the frame and shows it, or keeps it while the display is       *)
(* paused.                                                                 *)
(*                                                                         *)
(* A frame is [n, session]: its number and the session it was encoded in.  *)
(* How long the regulator waits is left open: its wait may end at any time.*)
(***************************************************************************)
EXTENDS Naturals, Sequences

CONSTANTS
  MaxFrames,    \* bound: frames of the stream
  MaxSessions,  \* bound: sessions of the stream
  MaxPauses     \* bound: times the user pauses or resumes the display

VARIABLES
  buffering,    \* whether a video regulator stands before the screen (never changes)
  decoderPc,    \* decoder thread: "open", "streaming", "closing", "closed"
  lastFrame,    \* the number of the last decoded frame
  session,      \* the session of the stream
  vrQueue,      \* the queue of the regulator: frames, and sessions as frames without number
  vrRange,      \* clock.range: 0, 1 (one frame so far) or 2 (more)
  vrStopped,    \* the field stopped of the regulator
  vrPc,         \* its thread: "off", "wait", "delay", "push", "ended"
  vrItem,       \* the packet it holds
  pushing,      \* [Pusher -> frame being pushed to the screen, or NoFrame]
  posting,      \* [Pusher -> whether the event of a pushed frame is still to be posted]
  screenSession,\* current_session
  pending,      \* the frame buffer: a frame or NoFrame if it was consumed
  pendingSession, \* the session prevent_auto_resize was read from
  events,       \* the SDL events of the screen still to be handled
  windowShown, paused,
  shown,        \* the number of the frame on the window
  resume,       \* resume_frame: a number, 0 for none
  pauses        \* how often the user has paused or resumed

regulator == <<vrQueue, vrRange, vrStopped, vrPc, vrItem>>
screenSink == <<pushing, posting, screenSession, pending, pendingSession>>
window == <<windowShown, paused, shown, resume, pauses>>
voVars == <<buffering, decoderPc, lastFrame, session, regulator, screenSink, events, window>>

Pusher == {"decoder", "regulator"}
NoFrame == [n |-> 0, session |-> 0]
SessionOnly(s) == [n |-> 0, session |-> s]

Init ==
  /\ buffering \in BOOLEAN
  /\ decoderPc = "open" /\ lastFrame = 0 /\ session = 1
  /\ vrQueue = <<>> /\ vrRange = 0 /\ vrStopped = FALSE
  /\ vrPc = "off" /\ vrItem = NoFrame
  /\ pushing = [p \in Pusher |-> NoFrame]
  /\ posting = [p \in Pusher |-> FALSE]
  /\ screenSession = 0 /\ pending = NoFrame /\ pendingSession = 0
  /\ events = <<>>
  /\ windowShown = FALSE /\ paused = FALSE /\ shown = 0 /\ resume = 0 /\ pauses = 0

-----------------------------------------------------------------------------
(* The decoder thread. *)

\* The sinks are opened: the screen posts OPEN_WINDOW, and the regulator's thread starts.
Open ==
  /\ decoderPc = "open"
  /\ \/ /\ decoderPc' = "streaming"
        /\ screenSession' = session
        /\ events' = Append(events, "OPEN_WINDOW")
        /\ vrPc' = IF buffering THEN "wait" ELSE "off"
     \/ /\ decoderPc' = "closed"
        /\ UNCHANGED <<screenSession, events, vrPc>>
  /\ UNCHANGED <<buffering, lastFrame, session, vrQueue, vrRange, vrStopped, vrItem, pushing,
                 posting, pending, pendingSession, window>>

Idle(p) == pushing[p] = NoFrame /\ ~posting[p]

DirectIfEmpty == ~buffering \/ vrQueue = <<>>

\* The regulator delays every frame but the first.
Direct == ~buffering \/ vrRange = 0

\* sc_clock_update(), as far as the first frame is told from the others.
RangeAfter == IF ~buffering THEN 0 ELSE IF vrRange = 0 THEN 1 ELSE 2

Refused == buffering /\ vrStopped

DecodeFrame ==
  /\ decoderPc = "streaming" /\ Idle("decoder") /\ lastFrame < MaxFrames
  /\ lastFrame' = lastFrame + 1
  /\ vrRange' = IF Refused THEN vrRange ELSE RangeAfter
  /\ LET frame == [n |-> lastFrame + 1, session |-> session]
     IN \/ /\ Refused /\ decoderPc' = "closing"
           /\ UNCHANGED <<vrQueue, pushing>>
        \/ /\ ~Refused /\ Direct
           /\ pushing' = [pushing EXCEPT !["decoder"] = frame]
           /\ UNCHANGED <<decoderPc, vrQueue>>
        \/ /\ ~Refused /\ ~Direct
           /\ vrQueue' = Append(vrQueue, frame)
           /\ UNCHANGED <<decoderPc, pushing>>
  /\ UNCHANGED <<buffering, session, vrStopped, vrPc, vrItem, posting, screenSession, pending,
                 pendingSession, events, window>>

\* sc_decoder_push_session(): the size of the stream changes.
DecodeSession ==
  /\ decoderPc = "streaming" /\ Idle("decoder") /\ session < MaxSessions
  /\ session' = session + 1
  /\ \/ /\ ~buffering /\ screenSession' = session'
        /\ UNCHANGED <<vrQueue, decoderPc>>
     \/ /\ buffering /\ ~vrStopped /\ vrQueue' = Append(vrQueue, SessionOnly(session'))
        /\ UNCHANGED <<screenSession, decoderPc>>
     \/ /\ Refused /\ decoderPc' = "closing"
        /\ UNCHANGED <<screenSession, vrQueue>>
  /\ UNCHANGED <<buffering, lastFrame, vrRange, vrStopped, vrPc, vrItem, pushing, posting,
                 pending, pendingSession, events, window>>

\* The end of the stream.
EndOfStream ==
  /\ decoderPc = "streaming" /\ Idle("decoder")
  /\ decoderPc' = "closing"
  /\ UNCHANGED <<buffering, lastFrame, session, regulator, screenSink, events, window>>

\* sc_video_regulator_frame_sink_close() stops the thread, then joins it.
Stop ==
  /\ decoderPc = "closing" /\ ~vrStopped
  /\ vrStopped' = TRUE
  /\ UNCHANGED <<buffering, decoderPc, lastFrame, session, vrQueue, vrRange, vrPc, vrItem,
                 screenSink, events, window>>

Close ==
  /\ decoderPc = "closing" /\ vrStopped /\ vrPc \in {"off", "ended"}
  /\ decoderPc' = "closed"
  /\ UNCHANGED <<buffering, lastFrame, session, regulator, screenSink, events, window>>

-----------------------------------------------------------------------------
(* The thread of the regulator. *)

Pop ==
  /\ vrPc = "wait" /\ ~vrStopped /\ vrQueue # <<>>
  /\ vrQueue' = Tail(vrQueue)
  /\ LET item == Head(vrQueue)
     IN IF item.n = 0
        THEN screenSession' = item.session /\ UNCHANGED <<vrItem, vrPc>>
        ELSE vrItem' = item /\ vrPc' = "delay" /\ UNCHANGED screenSession
  /\ UNCHANGED <<buffering, decoderPc, lastFrame, session, vrRange, vrStopped, pushing,
                 posting, pending, pendingSession, events, window>>

\* The wait ends because the time has come, unless the regulator is stopped.
Release ==
  /\ vrPc = "delay" /\ ~vrStopped
  /\ vrPc' = "push"
  /\ pushing' = [pushing EXCEPT !["regulator"] = vrItem]
  /\ vrItem' = NoFrame
  /\ UNCHANGED <<buffering, decoderPc, lastFrame, session, vrQueue, vrRange, vrStopped,
                 posting, screenSession, pending, pendingSession, events, window>>

Pushed ==
  /\ vrPc = "push" /\ Idle("regulator")
  /\ vrPc' = "wait"
  /\ UNCHANGED <<buffering, decoderPc, lastFrame, session, vrQueue, vrRange, vrStopped,
                 vrItem, screenSink, events, window>>

\* Stopped: the queue is flushed.
Flush ==
  /\ vrPc \in {"wait", "delay"} /\ vrStopped
  /\ vrPc' = "ended" /\ vrQueue' = <<>> /\ vrItem' = NoFrame
  /\ UNCHANGED <<buffering, decoderPc, lastFrame, session, vrRange, vrStopped, screenSink,
                 events, window>>

-----------------------------------------------------------------------------
(* sc_screen_frame_sink_push(), by either thread. *)

PostsAlways == TRUE
\* The event of a frame that was not consumed will consume the new one instead.
Posts == pending = NoFrame

ScreenPush(p) ==
  /\ pushing[p] # NoFrame
  /\ posting' = [posting EXCEPT ![p] = Posts]
  /\ pending' = pushing[p]
  /\ pendingSession' = screenSession
  /\ pushing' = [pushing EXCEPT ![p] = NoFrame]
  /\ UNCHANGED <<buffering, decoderPc, lastFrame, session, regulator, screenSession, events,
                 window>>

ScreenPost(p) ==
  /\ posting[p]
  /\ posting' = [posting EXCEPT ![p] = FALSE]
  /\ events' = Append(events, "NEW_FRAME")
  /\ UNCHANGED <<buffering, decoderPc, lastFrame, session, regulator, pushing, screenSession,
                 pending, pendingSession, window>>

\* The frame cannot be referenced, or the event not be posted: the pusher gives up.
ScreenPushFails(p) ==
  /\ ~Idle(p)
  /\ pushing' = [pushing EXCEPT ![p] = NoFrame]
  /\ posting' = [posting EXCEPT ![p] = FALSE]
  /\ \/ p = "decoder" /\ decoderPc' = "closing" /\ UNCHANGED <<vrStopped, vrPc>>
     \/ p = "regulator" /\ vrStopped' = TRUE /\ vrPc' = "wait" /\ UNCHANGED decoderPc
  /\ UNCHANGED <<buffering, lastFrame, session, vrQueue, vrRange, vrItem, screenSession,
                 pending, pendingSession, events, window>>

-----------------------------------------------------------------------------
(* The main thread. *)

OpenWindow ==
  /\ events # <<>> /\ Head(events) = "OPEN_WINDOW"
  /\ events' = Tail(events)
  /\ windowShown' = TRUE
  /\ UNCHANGED <<buffering, decoderPc, lastFrame, session, regulator, screenSink, paused,
                 shown, resume, pauses>>

\* sc_frame_buffer_consume()
Consumed == pending' = NoFrame

\* What a paused display keeps for when it is resumed.
ResumeFrame == pending.n

\* sc_screen_update_frame(): the frame is consumed.  Paused, it is kept for the resumption.  The
\* memory to keep it is assumed: without, the frame would stay in the buffer with no event.
NewFrame ==
  /\ events # <<>> /\ Head(events) = "NEW_FRAME"
  /\ events' = Tail(events)
  /\ Consumed
  /\ IF paused THEN resume' = ResumeFrame /\ UNCHANGED shown
     ELSE shown' = pending.n /\ UNCHANGED resume
  /\ UNCHANGED <<buffering, decoderPc, lastFrame, session, regulator, pushing, posting,
                 screenSession, pendingSession, windowShown, paused, pauses>>

\* sc_screen_set_paused(): also when paused again, the frame kept is shown.
SetPaused(p) ==
  /\ windowShown /\ pauses < MaxPauses
  /\ p \/ paused
  /\ pauses' = pauses + 1
  /\ IF paused /\ resume # 0 THEN shown' = resume /\ resume' = 0
     ELSE UNCHANGED <<shown, resume>>
  /\ paused' = p
  /\ UNCHANGED <<buffering, decoderPc, lastFrame, session, regulator, screenSink, events,
                 windowShown>>

-----------------------------------------------------------------------------
Decoder == Stop \/ Close \/ ScreenPush("decoder") \/ ScreenPost("decoder")
Regulator == Pop \/ Release \/ Pushed \/ Flush
             \/ ScreenPush("regulator") \/ ScreenPost("regulator")
Main == OpenWindow \/ NewFrame

Next ==
  \/ Open \/ DecodeFrame \/ DecodeSession \/ EndOfStream
  \/ Decoder \/ Regulator \/ Main
  \/ \E p \in Pusher : ScreenPushFails(p)
  \/ \E p \in BOOLEAN : SetPaused(p)

Fairness == WF_voVars(Decoder) /\ WF_voVars(Regulator) /\ WF_voVars(Main)

Spec == Init /\ [][Next]_voVars /\ Fairness

-----------------------------------------------------------------------------
\* A frame in the buffer has exactly one event, posted or about to be, unless the push failed
\* and the stream is ending; so no event finds the buffer empty (the assertion of
\* sc_frame_buffer_consume()) and no frame waits for an event that never comes ("The
\* SC_EVENT_NEW_FRAME triggered for the previous frame will consume this new frame instead").
Takers == {<<"posted", i>> : i \in {j \in DOMAIN events : events[j] = "NEW_FRAME"}}
          \cup {<<"posting", p>> : p \in {q \in Pusher : posting[q]}}
FrameHasItsEvent ==
  \/ pending = NoFrame /\ Takers = {}
  \/ pending # NoFrame /\ \E t \in Takers : Takers = {t}
  \/ Takers = {} /\ (vrStopped \/ decoderPc \in {"closing", "closed"})

\* Whatever is delayed, dropped or kept while paused, an older frame never replaces a newer one
\* on the window or in the buffer.
NeverGoesBack ==
  [][/\ shown' >= shown
     /\ pending # NoFrame /\ pending' # NoFrame => pending'.n >= pending.n]_voVars

\* The window is resized, or not, as the session of the frame says.  Only the first frame,
\* which overtakes what the regulator holds, may meet the session before its own.
SessionOfFrame ==
  pending # NoFrame => pendingSession = pending.session \/ (buffering /\ pending.n = 1)

\* What becomes of a frame: it has its event, and meets its session.
FramesShown == FrameHasItsEvent /\ SessionOfFrame

\* A frame in the buffer is eventually taken from it: shown, or kept if paused, or replaced.
FrameTaken ==
  \A n \in 1..MaxFrames :
    (pending.n = n /\ decoderPc = "streaming")
      ~> (pending.n # n \/ vrStopped \/ decoderPc \in {"closing", "closed"})
=============================================================================
