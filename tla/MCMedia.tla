-------------------------------- MODULE MCMedia --------------------------------
(***************************************************************************)
(* The components that carry what the device captures, and the queue under *)
(* them, for TLC.  They do not interact but through what each models as    *)
(* its environment: `which` chooses the one a behaviour runs, the others   *)
(* keep their initial state.  The ring buffer is EXTENDed, the others are  *)
(* instances; a name shared by two of them is given by WITH.               *)
(***************************************************************************)
EXTENDS VecDeque

CONSTANTS
  MaxPts, MaxPackets, Tick,                                            \* Recorder
  MaxItems,                                                            \* Demuxer
  MaxFrames, MaxSessions, MaxPauses,                                   \* VideoOutput
  Capacity, Target, MaxInitial, MaxBuffered, FrameSize, PullSize, MaxSamples,
                                                                       \* AudioRegulator
  MaxV4l2Frames                                                        \* V4l2Sink

ASSUME AudioAssumption ==
  /\ Capacity \in Nat /\ Target \in Nat
  /\ MaxInitial \in Nat /\ MaxBuffered \in Nat /\ MaxInitial <= MaxBuffered
  /\ FrameSize \subseteq Nat /\ PullSize \subseteq Nat

ASSUME RecorderAssumption == MaxPts \in Nat /\ Tick \in Nat \ {0}

VARIABLES
  which,   \* the component that runs
  uses, known, expects, packets, recStopped, sink, recorder, context, streams, held, previous,
  ptsOrigin, lastPts, muxed, lastLost, pushes, accepted, outcome,                \* Recorder
  codecType, merges, frameSinks, packetSinks, demuxer, config, decoding, opening, opened, opens,
  closed, disabled, got, pushTo, item, passTo, passed, received, status,     \* Demuxer
  buffering, decoderPc, lastFrame, session, vrQueue, vrRange, vrStopped, vrPc, vrItem, pushing,
  posting, screenSession, pending, pendingSession, events, windowShown, paused, shown, resume,
  pauses,                                                              \* VideoOutput
  player, cells, head, tail, mutex, played, arPc, stage, toWrite, frame, room, limit, produced,
  plPc, wanted, readable, out, heard,                                  \* AudioRegulator
  v4Sink, resources, v4Pc, v4Stopped, hasFrame, buffered, v4Frame, encoding, headerWritten,
  v4Written, v4Pushed                                                  \* V4l2Sink

recorderVars ==
  <<uses, known, expects, packets, recStopped, sink, recorder, context, streams, held, previous,
    ptsOrigin, lastPts, muxed, lastLost, pushes, accepted, outcome>>
demuxerVars ==
  <<codecType, merges, frameSinks, packetSinks, demuxer, config, decoding, opening, opened,
    opens, closed, disabled, got, pushTo, item, passTo, passed, received, status>>
screenVars ==
  <<buffering, decoderPc, lastFrame, session, vrQueue, vrRange, vrStopped, vrPc, vrItem, pushing,
    posting, screenSession, pending, pendingSession, events, windowShown, paused, shown, resume,
    pauses>>
audioVars ==
  <<player, cells, head, tail, mutex, played, arPc, stage, toWrite, frame, room, limit, produced,
    plPc, wanted, readable, out, heard>>
v4l2Vars ==
  <<v4Sink, resources, v4Pc, v4Stopped, hasFrame, buffered, v4Frame, encoding, headerWritten,
    v4Written, v4Pushed>>
mediaVars ==
  <<which, dequeVars, recorderVars, demuxerVars, screenVars, audioVars, v4l2Vars>>

Rec == INSTANCE Recorder WITH origin <- ptsOrigin
Dem == INSTANCE Demuxer
Vo == INSTANCE VideoOutput
Ar == INSTANCE AudioRegulator
V4 == INSTANCE V4l2Sink

\* Every component is in an initial state, and an idle one always in the same.
MediaInit ==
  /\ which \in {"deque", "recorder", "demuxer", "screen", "audio", "v4l2"}
  /\ Init /\ Rec!Init /\ Dem!Init /\ Vo!Init /\ Ar!Init /\ V4!Init
  /\ which # "recorder" => \A s \in Rec!Stream : uses[s]
  /\ which # "demuxer" =>
       codecType = "audio" /\ frameSinks = <<>> /\ packetSinks = <<"recorder">>
  /\ which # "screen" => buffering

\* The components but c stay as they are.
Others(c) ==
  /\ which = c /\ UNCHANGED which
  /\ IF c = "deque" THEN TRUE ELSE UNCHANGED dequeVars
  /\ IF c = "recorder" THEN TRUE ELSE UNCHANGED recorderVars
  /\ IF c = "demuxer" THEN TRUE ELSE UNCHANGED demuxerVars
  /\ IF c = "screen" THEN TRUE ELSE UNCHANGED screenVars
  /\ IF c = "audio" THEN TRUE ELSE UNCHANGED audioVars
  /\ IF c = "v4l2" THEN TRUE ELSE UNCHANGED v4l2Vars

MediaNext ==
  \/ Others("deque") /\ Next
  \/ Others("recorder") /\ Rec!Next
  \/ Others("demuxer") /\ Dem!Next
  \/ Others("screen") /\ Vo!Next
  \/ Others("audio") /\ Ar!Next
  \/ Others("v4l2") /\ V4!Next

\* The fairness of each component, as its module states it, in the behaviours where it runs.
MediaSpec ==
  /\ MediaInit /\ [][MediaNext]_mediaVars
  /\ WF_recorderVars(which = "recorder" /\ Rec!Thread)
  /\ WF_screenVars(which = "screen" /\ Vo!Decoder)
  /\ WF_screenVars(which = "screen" /\ Vo!Regulator)
  /\ WF_screenVars(which = "screen" /\ Vo!Main)

-----------------------------------------------------------------------------
\* What the recorder reports as complete is: every packet accepted, of both streams, in order, at
\* timestamps that strictly increase (recorder.c).
RecordingFaithful == Rec!RecordingComplete /\ Rec!TimestampsIncrease

\* However the stream ends and whichever sink fails, the sinks of a demuxer agree on it and are
\* closed as often as opened; the V4L2 thread neither sleeps on a frame nor uses what is freed
\* (demuxer.c, trait/packet_source.c, v4l2_sink.c).
SinksInStep == Dem!SinksAgree /\ Dem!SinksClosed /\ V4!V4l2InStep

\* A frame has exactly one event, and is shown under the session it belongs to (screen.c,
\* frame_buffer.c, video_regulator.c).
FramesShown == Vo!FramesShown

\* No older frame ever replaces a newer one (screen.c, video_regulator.c).
NeverGoesBack == Vo!NeverGoesBack

\* Without a lock between them, the writer that drops samples and the reader keep each sample
\* heard once and in order, the assertions true and the latency bounded (audio_regulator.c,
\* util/audiobuf.c).
AudioHeard == Ar!HeardInOrder /\ Ar!DropMakesRoom /\ Ar!LatencyBounded

\* A stopped recorder ends whichever stream has not started, and a frame in the buffer is taken
\* (recorder.c, screen.c).
MediaProgress == Rec!RecordingEnds /\ Vo!FrameTaken
=============================================================================
