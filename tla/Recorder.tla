------------------------------ MODULE Recorder ------------------------------
(***************************************************************************)
(* The recorder (app/src/recorder.c): the video and the audio demuxer push *)
(* packets into two queues under `mutex`; the recorder thread waits until  *)
(* the streams are known, writes the header, then the packets, and the     *)
(* trailer.  A step of the recorder thread ends where it takes the mutex.  *)
(* What it reads without the mutex (`stopped`, `audio`) it reads in the    *)
(* step after, when others may have changed it.                            *)
(*                                                                         *)
(* Every step may also meet a failure of libavformat or of an allocation   *)
(* where the code handles one.  Packets are their pts, or NoPts for a      *)
(* configuration packet.                                                   *)
(*                                                                         *)
(* The sinks open once the file context is allocated: the model assumes    *)
(* it, for the recorder thread is started long before the first packet.    *)
(***************************************************************************)
EXTENDS Integers, Sequences, FiniteSetsExt

CONSTANTS
  MaxPts,      \* bound: pts are 0..MaxPts
  MaxPackets,  \* bound: packets pushed per stream
  Tick         \* microseconds per unit of the time base of the muxer

\* AV_NOPTS_VALUE, and no packet: less than any pts, even counted from the origin.
NoPts == -(MaxPts + 1)
None  == -(MaxPts + 2)

Stream == {"video", "audio"}

VARIABLES
  uses,        \* [Stream -> BOOLEAN]: the fields `video` and `audio`
  known,       \* [Stream -> BOOLEAN]: video_init and audio_init
  expects,     \* [Stream -> BOOLEAN]: ..._expects_config_packet
  packets,     \* [Stream -> Seq(pts)]: the queues
  recStopped,  \* the field stopped
  sink,        \* [Stream -> state of the packet sink, seen by its demuxer]
  recorder,    \* the program point of the recorder thread
  context,     \* AVFormatContext: "unset", "open", "header", "freed"
  streams,     \* the streams created in the context
  held,        \* [Stream -> pts or None]: video_pkt and audio_pkt
  previous,    \* video_pkt_previous
  origin,      \* pts_origin
  lastPts,     \* [Stream -> last_pts]
  muxed,       \* [Stream -> Seq(pts)]: the packets the muxer wrote
  lastLost,    \* history: the last video packet could not be written
  pushes,      \* history: [Stream -> how many packets push() accepted]
  accepted,    \* history: [Stream -> Seq(pts)], the media packets among them
  outcome      \* what on_ended() was told: "none", "success", "failure"

locked   == <<uses, known, expects, packets, recStopped, sink, streams>>
thread   == <<recorder, held, previous, origin, lastPts, muxed, lastLost, outcome>>
recVars  == <<locked, thread, context, pushes, accepted>>

Init ==
  /\ uses \in {u \in [Stream -> BOOLEAN] : \E s \in Stream : u[s]}
  /\ known = [s \in Stream |-> FALSE]
  /\ expects = [s \in Stream |-> FALSE]
  /\ packets = [s \in Stream |-> <<>>]
  /\ recStopped = FALSE
  /\ sink = [s \in Stream |-> IF uses[s] THEN "idle" ELSE "absent"]
  /\ recorder = "open"
  /\ context = "unset"
  /\ streams = {}
  /\ held = [s \in Stream |-> None]
  /\ previous = None
  /\ origin = NoPts
  /\ lastPts = [s \in Stream |-> NoPts]
  /\ muxed = [s \in Stream |-> <<>>]
  /\ lastLost = FALSE
  /\ pushes = [s \in Stream |-> 0]
  /\ accepted = [s \in Stream |-> <<>>]
  /\ outcome = "none"

-----------------------------------------------------------------------------
(* The sinks, called by the demuxers. *)

\* Creating a stream in a context that is freed, or whose header is written, is undefined:
\* the model says no more about such a run.
NewStream(s) ==
  IF context = "open" THEN streams' = streams \cup {s} /\ UNCHANGED recorder
  ELSE recorder' = "undefined" /\ UNCHANGED streams

OpenSucceeds(s, config) ==
  /\ NewStream(s)
  /\ expects' = [expects EXCEPT ![s] = config]
  /\ known' = [known EXCEPT ![s] = TRUE]
  /\ sink' = [sink EXCEPT ![s] = "open"]

OpenFails(s) ==
  /\ sink' = [sink EXCEPT ![s] = "closed"]
  /\ UNCHANGED <<expects, known>>

\* The codec of a video stream expects a configuration packet unless it is VP8 or VP9.
VideoOpen ==
  /\ sink["video"] = "idle" /\ context # "unset"
  /\ \/ /\ ~recStopped
        /\ \E config \in BOOLEAN : OpenSucceeds("video", config)
     \/ OpenFails("video") /\ UNCHANGED <<recorder, streams>>
     \/ ~recStopped /\ OpenFails("video") /\ NewStream("video")
  /\ UNCHANGED <<uses, packets, recStopped, context, held, previous, origin, lastPts, muxed,
                 lastLost, pushes, accepted, outcome>>

\* The audio sink does not look at recStopped.
AudioOpen ==
  /\ sink["audio"] = "idle" /\ context # "unset"
  /\ \/ \E config \in BOOLEAN : OpenSucceeds("audio", config)
     \/ context # "freed" /\ OpenFails("audio") /\ UNCHANGED <<recorder, streams>>
     \/ OpenFails("audio") /\ NewStream("audio")
  /\ UNCHANGED <<uses, packets, recStopped, context, held, previous, origin, lastPts, muxed,
                 lastLost, pushes, accepted, outcome>>

\* The audio is not available: the demuxer disables its sinks.
AudioDisable ==
  /\ sink["audio"] = "idle"
  /\ sink' = [sink EXCEPT !["audio"] = "absent"]
  /\ uses' = [uses EXCEPT !["audio"] = FALSE]
  /\ known' = [known EXCEPT !["audio"] = TRUE]
  /\ UNCHANGED <<expects, packets, recStopped, streams, thread, context, pushes, accepted>>

Accept(s, pts) ==
  /\ packets' = [packets EXCEPT ![s] = Append(@, pts)]
  /\ pushes' = [pushes EXCEPT ![s] = @ + 1]
  /\ accepted' = IF pts = NoPts THEN accepted ELSE [accepted EXCEPT ![s] = Append(@, pts)]
  /\ UNCHANGED sink

Reject(s) ==
  /\ sink' = [sink EXCEPT ![s] = "refused"]
  /\ UNCHANGED <<packets, pushes, accepted>>

Push(s, pts) ==
  /\ sink[s] = "open"
  /\ pushes[s] < MaxPackets
  /\ \/ ~recStopped /\ Accept(s, pts)
     \/ Reject(s)
  /\ UNCHANGED <<uses, known, expects, recStopped, streams, thread, context>>

\* The end of a stream also stops the recorder.
Close(s) ==
  /\ sink[s] \in {"open", "refused"}
  /\ sink' = [sink EXCEPT ![s] = "closed"]
  /\ recStopped' = TRUE
  /\ UNCHANGED <<uses, known, expects, packets, streams, thread, context, pushes, accepted>>

\* sc_recorder_stop(), from the main thread.
Stop ==
  /\ ~recStopped
  /\ recStopped' = TRUE
  /\ UNCHANGED <<uses, known, expects, packets, sink, streams, thread, context, pushes, accepted>>

-----------------------------------------------------------------------------
(* The recorder thread. *)

OpenFile ==
  /\ recorder = "open"
  /\ \/ context' = "open" /\ recorder' = "header"
     \/ context' = "freed" /\ recorder' = "failed"
  /\ UNCHANGED <<locked, held, previous, origin, lastPts, muxed, lastLost, pushes, accepted,
                 outcome>>

MustWaitForConfigPackets ==
  \E s \in Stream : uses[s] /\ expects[s] /\ packets[s] = <<>>

HeaderReadyRunning ==
  (\A s \in Stream : uses[s] => known[s]) /\ ~MustWaitForConfigPackets

HeaderReady ==
  \/ recStopped
  \/ (\A s \in Stream : uses[s] => known[s]) /\ ~MustWaitForConfigPackets

\* The configuration packets taken for the header.
ConfigOf == {s \in Stream : expects[s] /\ packets[s] # <<>>}

\* The header is written from the streams created so far; without one, the muxer refuses.
ProcessHeader ==
  /\ recorder = "header"
  /\ HeaderReady
  /\ IF recStopped /\ uses["video"] /\ packets["video"] = <<>>
     THEN recorder' = "failed" /\ UNCHANGED <<packets, context>>
     ELSE /\ packets' = [s \in Stream |->
                           IF s \in ConfigOf THEN Tail(packets[s]) ELSE packets[s]]
          /\ \/ /\ \A s \in ConfigOf : Head(packets[s]) = NoPts
                /\ streams # {}
                /\ context' = "header" /\ recorder' = "wait"
             \/ recorder' = "failed" /\ UNCHANGED context
  /\ UNCHANGED <<uses, known, expects, recStopped, sink, streams, held, previous, origin,
                 lastPts, muxed, lastLost, pushes, accepted, outcome>>

Ready(s) == uses[s] /\ held[s] = None /\ packets[s] # <<>>

\* What the code pops under the mutex.
Taken(s) == held[s] = None /\ packets[s] # <<>>

DrainedOnStop == recStopped

Drained == recStopped /\ \A s \in Stream : held'[s] = None

Take ==
  /\ recorder = "wait"
  /\ recStopped \/ \E s \in Stream : Ready(s)
  /\ held' = [s \in Stream |-> IF Taken(s) THEN Head(packets[s]) ELSE held[s]]
  /\ packets' = [s \in Stream |-> IF Taken(s) THEN Tail(packets[s]) ELSE packets[s]]
  /\ recorder' = IF Drained THEN "last" ELSE "process"
  /\ UNCHANGED <<uses, known, expects, recStopped, sink, streams, previous, origin, lastPts,
                 muxed, lastLost, context, pushes, accepted, outcome>>

\* Further configuration packets are ignored.
Media(s) == IF held[s] = NoPts THEN None ELSE held[s]

\* The time both streams are recorded from, NoPts if it is not known yet.  The mutex is not
\* held: recStopped and uses may be newer than the packets.
Origin ==
  LET used == {s \in Stream : uses[s]}
  IN IF origin # NoPts THEN origin
     ELSE IF \A s \in used : Media(s) # None THEN Min({Media(s) : s \in used})
     ELSE IF recStopped /\ Media("video") # None THEN Media("video")
     ELSE NoPts

\* Stopped before anything tells the origin.
NoVideo == Origin = NoPts /\ recStopped

Rescale(pts) == pts \div Tick

\* sc_recorder_write_stream(): the pts given to the muxer, which must increase.
MuxedPts(s, pts) ==
  IF lastPts[s] # NoPts /\ Rescale(pts) <= lastPts[s] THEN lastPts[s] + 1 ELSE Rescale(pts)

\* The video packet is written once the next one tells its duration.
ToWrite(o) ==
  [video |-> IF Media("video") = None THEN None ELSE previous,
   audio |-> IF Media("audio") = None THEN None ELSE Media("audio") - o]

Written(w) ==
  /\ muxed' = [s \in Stream |->
                 IF w[s] = None THEN muxed[s] ELSE Append(muxed[s], MuxedPts(s, w[s]))]
  /\ lastPts' = [s \in Stream |-> IF w[s] = None THEN lastPts[s] ELSE MuxedPts(s, w[s])]

Process ==
  /\ recorder = "process"
  /\ origin' = Origin
  /\ IF NoVideo
     THEN recorder' = "failed" /\ UNCHANGED <<held, previous, lastPts, muxed>>
     ELSE IF Origin = NoPts
     THEN /\ held' = [s \in Stream |-> Media(s)]
          /\ recorder' = "wait"
          /\ UNCHANGED <<previous, lastPts, muxed>>
     ELSE /\ held' = [s \in Stream |-> None]
          /\ previous' = IF Media("video") = None THEN previous ELSE Media("video") - Origin
          /\ \/ Written(ToWrite(Origin)) /\ recorder' = "wait"
             \/ /\ \E s \in Stream : ToWrite(Origin)[s] # None
                /\ recorder' = "failed"
                /\ UNCHANGED <<lastPts, muxed>>
  /\ UNCHANGED <<locked, lastLost, context, pushes, accepted, outcome>>

\* The last video packet and the trailer.  If that packet cannot be written the code goes on
\* and may still succeed: no later frame depends on it, and nothing reads last_pts any more.
Finish ==
  /\ recorder = "last"
  /\ \/ Written([video |-> previous, audio |-> None]) /\ UNCHANGED lastLost
     \/ previous # None /\ lastLost' = TRUE /\ UNCHANGED <<muxed, lastPts>>
  /\ previous' = None
  /\ recorder' \in {"complete", "failed"}
  /\ UNCHANGED <<locked, held, origin, context, pushes, accepted, outcome>>

\* run_recorder() after sc_recorder_record(): no packet is accepted any more.
End ==
  /\ recorder \in {"complete", "failed"}
  /\ context' = "freed"
  /\ recStopped' = TRUE
  /\ packets' = [s \in Stream |-> <<>>]
  /\ outcome' = IF recorder = "complete" THEN "success" ELSE "failure"
  /\ recorder' = "ended"
  /\ held' = [s \in Stream |-> None]
  /\ UNCHANGED <<uses, known, expects, sink, streams, previous, origin, lastPts, muxed,
                 lastLost, pushes, accepted>>

Thread == OpenFile \/ ProcessHeader \/ Take \/ Process \/ Finish \/ End

Pushed(s) ==
  \E pts \in 0..MaxPts \cup (IF expects[s] THEN {NoPts} ELSE {}) :
    /\ pts # NoPts => \A i \in DOMAIN accepted[s] : accepted[s][i] <= pts
    /\ Push(s, pts)

Next ==
  \/ Thread
  \/ VideoOpen \/ AudioOpen \/ AudioDisable
  \/ \E s \in Stream : Pushed(s) \/ Close(s)
  \/ Stop

Spec == Init /\ [][Next]_recVars /\ WF_recVars(Thread)

-----------------------------------------------------------------------------
TypeOK ==
  /\ uses \in [Stream -> BOOLEAN] /\ known \in [Stream -> BOOLEAN]
  /\ expects \in [Stream -> BOOLEAN]
  /\ \A s \in Stream : /\ packets[s] \in Seq(0..MaxPts \cup {NoPts})
                       /\ held[s] \in 0..MaxPts \cup {NoPts, None}
  /\ recStopped \in BOOLEAN /\ streams \subseteq Stream
  /\ sink \in [Stream -> {"absent", "idle", "open", "refused", "closed"}]

\* The one packet a complete recording may miss.
Unwritten(s) == IF s = "video" /\ lastLost THEN 1 ELSE 0

\* A recording reported as complete holds every media packet that was accepted, of each
\* stream, in order and not before its time, although the streams start, are disabled and end
\* at different times (sc_recorder_process_packets() drains the queues after `stopped`).  The
\* exception is the last video packet: the code tolerates that it is not written.
RecordingComplete ==
  outcome = "success" =>
    \A s \in Stream :
      /\ Len(muxed[s]) + Unwritten(s) = Len(accepted[s])
      /\ \A i \in DOMAIN muxed[s] : muxed[s][i] >= Rescale(accepted[s][i] - origin)

\* The timestamps given to the muxer strictly increase in each stream, although those of the
\* device may be equal or become so in the time base of the file.
TimestampsIncrease ==
  \A s \in Stream : \A i, j \in DOMAIN muxed[s] : i < j => muxed[s][i] < muxed[s][j]

\* Once stopped, the recorder thread always ends and reports the outcome, whichever stream
\* has not started: sc_recorder_join() does not wait for ever.
RecordingEnds == recStopped ~> (outcome # "none" \/ recorder = "undefined")
=============================================================================
