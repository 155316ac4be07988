------------------------------- MODULE Demuxer -------------------------------
(***************************************************************************)
(* A demuxer thread (app/src/demuxer.c) and what it drives: the packet     *)
(* merger (packet_merger.c), the sinks of its packet source                *)
(* (trait/packet_source.c), one of which may be the decoder (decoder.c)    *)
(* with the sinks of its frame source (trait/frame_source.c).  Whatever a  *)
(* sink does, its functions run on this thread.                            *)
(*                                                                         *)
(* An item of the stream is [kind, n, config]: a session, a configuration  *)
(* packet or a media packet, its rank, and the configuration packet        *)
(* prepended to it (0 for none).  The device may end the stream, or send   *)
(* an invalid item, at any point.                                          *)
(***************************************************************************)
EXTENDS Naturals, Sequences, FiniteSetsExt, SequencesExt

CONSTANTS MaxItems  \* bound: items of the stream

VARIABLES
  codecType,   \* "video" or "audio" (never changes)
  merges,      \* must_merge_setuppacket, true for H.264 and H.265 (never changes)
  frameSinks,  \* the sinks of the decoder, in order; without any, no decoder (never changes)
  packetSinks, \* the sinks of the demuxer, in order (never changes)
  demuxer,     \* program point: "codec", "session", "open", "receive", "push",
               \* "decode", "close", "report" or "ended"
  config,      \* the packet the merger holds, 0 for none
  decoding,    \* the media packets the decoder has taken and not returned
  opening,     \* the sinks that remain to be opened
  opened,      \* the sinks opened and not closed
  opens,       \* history: the sinks that were opened
  closed,      \* [Sink -> how many times it was closed]
  disabled,    \* the sinks told that there is no stream
  got,         \* [Sink -> Seq(item)]: what the sink was given
  pushTo,      \* the sinks of the demuxer that item remains to be pushed to
  item,
  passTo,      \* the sinks of the decoder that passed remains to be pushed to
  passed,
  received,    \* history: the items read from the socket
  status       \* what on_ended() was told

setup == <<codecType, merges, frameSinks, packetSinks>>
pushState == <<config, decoding, pushTo, item, passTo, passed>>
demVars == <<setup, demuxer, pushState, opening, opened, opens, closed, disabled, got, received,
             status>>

Sink == {"screen", "v4l2", "decoder", "recorder"}
AllSinks == frameSinks \o packetSinks
Nothing == [kind |-> "none", n |-> 0, config |-> 0]

Init ==
  /\ codecType \in {"video", "audio"} /\ merges \in BOOLEAN
  /\ merges => codecType = "video"
  /\ frameSinks \in {<<>>, <<"screen">>, <<"screen", "v4l2">>}
  /\ packetSinks \in {<<"decoder">>, <<"recorder">>, <<"decoder", "recorder">>}
  /\ frameSinks = <<>> <=> packetSinks[1] # "decoder"
  /\ demuxer = "codec" /\ config = 0 /\ decoding = <<>>
  /\ opening = <<>> /\ opened = {} /\ opens = {}
  /\ closed = [s \in Sink |-> 0] /\ disabled = {}
  /\ got = [s \in Sink |-> <<>>]
  /\ pushTo = <<>> /\ item = Nothing /\ passTo = <<>> /\ passed = Nothing
  /\ received = <<>>
  /\ status = "none"

Finish(s) == demuxer' = "report" /\ status' = s

-----------------------------------------------------------------------------
(* Before the stream. *)

\* The codec: the stream may be disabled by the device, or by a codec the computer lacks.  The
\* decoder has no `disable` operation: only the recorder is told, and only for the audio.
CodecId ==
  /\ demuxer = "codec"
  /\ \/ /\ demuxer' = (IF codecType = "video" THEN "session" ELSE "open")
        /\ opening' = AllSinks
        /\ UNCHANGED <<disabled, status>>
     \/ /\ disabled' = (IF codecType = "audio" THEN Range(packetSinks) \ {"decoder"} ELSE {})
        /\ \E s \in {"DISABLED", "ERROR"} : Finish(s)
        /\ UNCHANGED opening
     \/ Finish("ERROR") /\ UNCHANGED <<disabled, opening>>
  /\ UNCHANGED <<setup, pushState, opened, opens, closed, got, received>>

\* A video stream starts with a session, of a size that is not empty.
FirstSession ==
  /\ demuxer = "session"
  /\ \/ /\ demuxer' = "open"
        /\ received' = <<[kind |-> "session", n |-> 1, config |-> 0]>>
        /\ UNCHANGED status
     \/ Finish("ERROR") /\ UNCHANGED received
  /\ UNCHANGED <<setup, pushState, opening, opened, opens, closed, disabled, got>>

OpenSink ==
  /\ demuxer = "open" /\ opening # <<>>
  /\ \/ /\ opened' = opened \cup {Head(opening)}
        /\ opens' = opens \cup {Head(opening)}
        /\ got' = [got EXCEPT ![Head(opening)] = received]
        /\ opening' = Tail(opening)
        /\ UNCHANGED demuxer
     \/ /\ Head(opening) # "decoder"  \* opening the decoder may fail before its sinks only
        /\ demuxer' = "close" /\ opening' = <<>>
        /\ UNCHANGED <<opened, opens, got>>
  /\ UNCHANGED <<setup, pushState, closed, disabled, received, status>>

\* The packet itself may not be allocated: ..._sinks_close().
Opened ==
  /\ demuxer = "open" /\ opening = <<>>
  /\ demuxer' \in {"receive", "close"}
  /\ UNCHANGED <<setup, pushState, opening, opened, opens, closed, disabled, got, received,
                 status>>

-----------------------------------------------------------------------------
(* The loop. *)

EndOfStream ==
  /\ demuxer = "receive"
  /\ demuxer' = "close" /\ status' \in {"EOS", "ERROR"}
  /\ UNCHANGED <<setup, pushState, opening, opened, opens, closed, disabled, got, received>>

\* sc_packet_merger_merge(): the media packet takes the configuration packet held.
Merge(i) == IF merges /\ i.kind = "media" THEN [i EXCEPT !.config = config] ELSE i

ConfigKept(i) == IF merges /\ i.kind = "config" THEN i.n ELSE config

\* A configuration packet replaces the one held, a media packet consumes it.
ConfigAfter(i) ==
  CASE merges /\ i.kind = "config" -> i.n
    [] merges /\ i.kind = "media"  -> 0
    [] OTHER -> config

\* Only a video stream has sessions.
Kinds == {"config", "media"} \cup (IF codecType = "video" THEN {"session"} ELSE {})

Receive ==
  /\ demuxer = "receive" /\ Len(received) < MaxItems
  /\ \E kind \in Kinds :
       LET i == [kind |-> kind, n |-> Len(received) + 1, config |-> 0]
       IN /\ received' = Append(received, i)
          /\ config' = ConfigAfter(i)
          /\ \/ /\ demuxer' = "push" /\ pushTo' = packetSinks /\ item' = Merge(i)
                /\ UNCHANGED status
             \/ /\ Merge(i) # i \/ config' # config  \* no memory to merge
                /\ demuxer' = "close" /\ status' = "ERROR"
                /\ UNCHANGED <<pushTo, item>>
  /\ UNCHANGED <<setup, decoding, passTo, passed, opening, opened, opens, closed, disabled, got>>

\* The source skips those that have no push_session(): being given a session stands for that.
\* The decoder leaves configuration packets out itself.
Ignores(s, i) ==
  \/ i.kind = "session" /\ s \in {"recorder", "v4l2"}
  \/ i.kind = "config" /\ s = "decoder"

Give(s, i) == got' = [got EXCEPT ![s] = Append(@, i)]

\* The next sink of the demuxer.  Another follows when this one has returned.
Following(s) == demuxer = "push" /\ passTo = <<>> /\ pushTo # <<>> /\ s = Head(pushTo)

\* The decoder passes a session on at once, and sends a media packet to its codec.
PushDecoder ==
  /\ Following("decoder")
  /\ Give("decoder", item)
  /\ pushTo' = Tail(pushTo)
  /\ IF item.kind = "media"
     THEN demuxer' = "decode" /\ decoding' = Append(decoding, item)
     ELSE UNCHANGED <<demuxer, decoding>>
  /\ IF item.kind = "session"
     THEN passTo' = frameSinks /\ passed' = item
     ELSE UNCHANGED <<passTo, passed>>
  /\ UNCHANGED <<setup, config, item, opening, opened, opens, closed, disabled, received, status>>

\* The codec returns the frame of one of its packets, or has none to return yet.
ReceiveFrame ==
  /\ demuxer = "decode" /\ passTo = <<>>
  /\ \/ /\ decoding # <<>>
        /\ passTo' = frameSinks /\ passed' = Head(decoding)
        /\ decoding' = Tail(decoding)
        /\ UNCHANGED demuxer
     \/ demuxer' = "push" /\ UNCHANGED <<decoding, passTo, passed>>
  /\ UNCHANGED <<setup, config, pushTo, item, opening, opened, opens, closed, disabled, got,
                 received, status>>

PushFrame ==
  /\ passTo # <<>>
  /\ Give(Head(passTo), passed)
  /\ passTo' = Tail(passTo)
  /\ UNCHANGED <<setup, demuxer, config, decoding, pushTo, item, passed, opening, opened, opens,
                 closed, disabled, received, status>>

PushSink ==
  /\ \E s \in Sink \ {"decoder"} : Following(s) /\ Give(s, item)
  /\ pushTo' = Tail(pushTo)
  /\ UNCHANGED <<setup, demuxer, config, decoding, item, passTo, passed, opening, opened, opens,
                 closed, disabled, received, status>>

\* A sink, or the codec, refuses the item: those after it do not get it, and the stream ends.
PushFails ==
  /\ \/ demuxer = "decode" /\ passTo = <<>>
     \/ passTo # <<>> /\ ~Ignores(Head(passTo), passed)
     \/ \E s \in Sink : Following(s) /\ ~Ignores(s, item)
  /\ demuxer' = "close" /\ status' = "ERROR" /\ pushTo' = <<>> /\ passTo' = <<>>
  /\ UNCHANGED <<setup, config, decoding, item, passed, opening, opened, opens, closed, disabled,
                 got, received>>

Pushed ==
  /\ demuxer = "push" /\ pushTo = <<>> /\ passTo = <<>>
  /\ demuxer' = "receive"
  /\ UNCHANGED <<setup, pushState, opening, opened, opens, closed, disabled, got, received,
                 status>>

-----------------------------------------------------------------------------
(* The end. *)

\* The sinks are closed from the last; the decoder closes its own sinks before itself.
LastOpened(sinks) == sinks[Max({k \in DOMAIN sinks : sinks[k] \in opened})]

ToClose ==
  IF opened \cap Range(frameSinks) # {} /\ opened \cap Range(packetSinks) \subseteq {"decoder"}
  THEN LastOpened(frameSinks)
  ELSE LastOpened(packetSinks)

CloseSink ==
  /\ demuxer = "close" /\ opened # {}
  /\ opened' = opened \ {ToClose}
  /\ closed' = [closed EXCEPT ![ToClose] = @ + 1]
  /\ UNCHANGED <<setup, demuxer, pushState, opening, opens, disabled, got, received, status>>

Closed ==
  /\ demuxer = "close" /\ opened = {}
  /\ demuxer' = "report"
  /\ status' = IF status = "none" THEN "ERROR" ELSE status
  /\ UNCHANGED <<setup, pushState, opening, opened, opens, closed, disabled, got, received>>

Report ==
  /\ demuxer = "report"
  /\ demuxer' = "ended"
  /\ UNCHANGED <<setup, pushState, opening, opened, opens, closed, disabled, got, received,
                 status>>

-----------------------------------------------------------------------------
Next ==
  \/ CodecId \/ FirstSession \/ Receive \/ EndOfStream
  \/ OpenSink \/ Opened
  \/ PushDecoder \/ ReceiveFrame \/ PushFrame \/ PushSink \/ PushFails \/ Pushed
  \/ CloseSink \/ Closed \/ Report

Spec == Init /\ [][Next]_demVars

-----------------------------------------------------------------------------
\* The configuration packet that precedes media packet n in the stream, if no other media packet
\* comes between them.
ConfigOf(n) ==
  LET before == {m \in 1..(n - 1) : received[m].kind # "session"}
  IN IF merges /\ before # {} /\ received[Max(before)].kind = "config" THEN Max(before) ELSE 0

Expected == [n \in DOMAIN received |->
               IF received[n].kind = "media" THEN [received[n] EXCEPT !.config = ConfigOf(n)]
               ELSE received[n]]

MediaIn(s) == {i \in DOMAIN got[s] : got[s][i].kind = "media"}

\* Whatever sink fails and whenever the stream ends, every sink of the demuxer was given a prefix
\* of the same stream, in which each media packet starts with the configuration that precedes it,
\* once; a sink is given the items in the order of the sinks.  A sink of the decoder gets the
\* frames of the packets the decoder had, each once, in their order, none skipped.
SinksAgree ==
  /\ \A k \in DOMAIN packetSinks :
       /\ IsPrefix(got[packetSinks[k]], Expected)
       /\ k > 1 => Len(got[packetSinks[k]]) <= Len(got[packetSinks[k - 1]])
  /\ \A s \in Range(frameSinks) : \A i \in MediaIn(s) :
       /\ \A j \in MediaIn(s) : j < i => got[s][j].n < got[s][i].n
       /\ \E d \in MediaIn("decoder") :
            /\ got[s][i] = got["decoder"][d]
            /\ \A e \in MediaIn("decoder") :
                 e < d => \E j \in MediaIn(s) : got[s][j] = got["decoder"][e]

\* When on_ended() is called, no sink is left open and each sink that was opened was closed once,
\* although opening any of them may have failed; a sink whose stream was disabled never opened.
SinksClosed ==
  /\ demuxer \in {"report", "ended"} =>
       opened = {} /\ \A s \in Sink : closed[s] = (IF s \in opens THEN 1 ELSE 0)
  /\ disabled \cap opens = {}
=============================================================================
