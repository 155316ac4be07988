------------------------------- MODULE V4l2Sink -------------------------------
(***************************************************************************)
(* The sink that copies the video to a v4l2 device (app/src/v4l2_sink.c):  *)
(* the decoder thread leaves each frame in a buffer of one, where the next *)
(* replaces it, and a thread encodes and writes them.                      *)
(***************************************************************************)
EXTENDS Naturals, Sequences, SequencesExt

CONSTANTS MaxV4l2Frames  \* bound: frames pushed

VARIABLES
  v4Sink,      \* "closed", "opening", "open", "closing", "failed", "ended"
  resources,   \* what was allocated and not freed
  v4Pc,        \* the thread: "off", "wait", "encode", "ended"
  v4Stopped,
  hasFrame,    \* the flag the thread waits for
  buffered,    \* the frame in the buffer, 0 if consumed
  v4Frame,     \* the frame being encoded
  encoding,    \* the frames in the encoder
  headerWritten,
  v4Written,   \* the frames written to the device
  v4Pushed     \* the number of the last frame pushed

v4Thread == <<v4Pc, v4Frame, encoding, headerWritten, v4Written>>
v4Vars == <<v4Sink, resources, v4Thread, v4Stopped, hasFrame, buffered, v4Pushed>>

\* In the order they are acquired.
Ladder == <<"frame_buffer", "mutex", "cond", "format", "device", "encoder", "frame", "packet">>

Init ==
  /\ v4Sink = "closed" /\ resources = {} /\ v4Pc = "off" /\ v4Stopped = FALSE
  /\ hasFrame = FALSE /\ buffered = 0 /\ v4Frame = 0 /\ encoding = <<>>
  /\ headerWritten = FALSE /\ v4Written = <<>> /\ v4Pushed = 0

\* sc_v4l2_sink_open().  A failure frees what was acquired, except a missing encoder or format
\* context, which frees nothing.
Open ==
  /\ v4Sink = "closed"
  /\ \/ /\ v4Sink' = "open" /\ resources' = Range(Ladder)
        /\ v4Pc' = "wait"
     \/ /\ v4Sink' = "failed" /\ UNCHANGED v4Pc
        /\ resources' \in {{}, {"frame_buffer", "mutex", "cond"}}
  /\ UNCHANGED <<v4Frame, encoding, headerWritten, v4Written, v4Stopped, hasFrame, buffered,
                 v4Pushed>>

\* A frame not consumed yet is replaced, and the thread is already told.
Signals == buffered = 0

Push ==
  /\ v4Sink = "open" /\ v4Pushed < MaxV4l2Frames
  /\ v4Pushed' = v4Pushed + 1
  /\ buffered' = v4Pushed'
  /\ hasFrame' = (Signals \/ hasFrame)
  /\ UNCHANGED <<v4Sink, resources, v4Thread, v4Stopped>>

StopV4l2 ==
  /\ v4Sink = "open"
  /\ v4Sink' = "closing" /\ v4Stopped' = TRUE
  /\ UNCHANGED <<resources, v4Thread, hasFrame, buffered, v4Pushed>>

\* The thread is joined before anything is freed.
Joined == v4Pc = "ended"

Close ==
  /\ v4Sink = "closing" /\ Joined
  /\ v4Sink' = "ended" /\ resources' = {}
  /\ UNCHANGED <<v4Thread, v4Stopped, hasFrame, buffered, v4Pushed>>

Consume ==
  /\ v4Pc = "wait" /\ (v4Stopped \/ hasFrame)
  /\ IF v4Stopped THEN v4Pc' = "ended" /\ UNCHANGED <<hasFrame, buffered, v4Frame>>
     ELSE v4Pc' = "encode" /\ hasFrame' = FALSE /\ v4Frame' = buffered /\ buffered' = 0
  /\ UNCHANGED <<v4Sink, resources, encoding, headerWritten, v4Written, v4Stopped, v4Pushed>>

\* encode_and_write_frame(): the encoder may keep the frame; the first packet it returns only
\* makes the header.  An error ends the thread; one of av_write_frame() is ignored.
Encode ==
  /\ v4Pc = "encode"
  /\ v4Frame' = 0
  /\ \/ v4Pc' = "ended" /\ UNCHANGED <<encoding, headerWritten, v4Written>>
     \/ /\ v4Pc' = "wait" /\ encoding' = Append(encoding, v4Frame)
        /\ UNCHANGED <<headerWritten, v4Written>>
     \/ /\ v4Pc' = "wait" /\ headerWritten' = TRUE
        /\ LET frames == Append(encoding, v4Frame)
           IN /\ encoding' = Tail(frames)
              /\ IF headerWritten THEN v4Written' = Append(v4Written, Head(frames))
                 ELSE UNCHANGED v4Written
  /\ UNCHANGED <<v4Sink, resources, v4Stopped, hasFrame, buffered, v4Pushed>>

Next == Open \/ Push \/ StopV4l2 \/ Close \/ Consume \/ Encode

Spec == Init /\ [][Next]_v4Vars

-----------------------------------------------------------------------------
\* The thread is told of a frame exactly while one waits for it: it neither sleeps on a frame nor
\* consumes an empty buffer; the frames it writes are in order, and it uses nothing freed.
V4l2InStep ==
  /\ hasFrame = (buffered # 0)
  /\ \A i \in 1..Len(v4Written) - 1 : v4Written[i] < v4Written[i + 1]
  /\ v4Pc \in {"wait", "encode"} => resources = Range(Ladder)
=============================================================================
