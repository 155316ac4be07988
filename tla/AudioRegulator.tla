---------------------------- MODULE AudioRegulator ----------------------------
(***************************************************************************)
(* The audio player and its regulator (app/src/audio_player.c,             *)
(* audio_regulator.c): the decoder thread pushes resampled frames, the     *)
(* callback of the audio device pulls samples, and between them lies a     *)
(* ring buffer (util/audiobuf.c) used without a lock, except that the      *)
(* reader holds `mutex` and so does the writer when it drops old samples.  *)
(*                                                                         *)
(* A sample is its number in the stream, 0 for silence.  The resampler may *)
(* return one sample more or less than it is given: the average of the     *)
(* buffering, what it makes the resampler compensate, and the count of     *)
(* inserted silences which it takes into account, are left out.            *)
(***************************************************************************)
EXTENDS Integers, Sequences, SequencesExt, FiniteSetsExt

CONSTANTS
  Capacity,     \* samples the buffer can hold
  Target,       \* target_buffering
  MaxInitial,   \* max_buffered_samples before playback, at least Target
  MaxBuffered,  \* max_buffered_samples after, at least MaxInitial
  FrameSize,    \* the sizes of a frame
  PullSize,     \* the sizes of a pull
  MaxSamples    \* bound: samples of the stream

VARIABLES
  player,      \* "closed", "open", "failed" or "ended"
  cells,       \* the data of the buffer
  head, tail,  \* its cursors, of the writer and of the reader
  mutex,       \* "free", "pusher" or "puller"
  played,      \* set when the device first got samples
  arPc,        \* writer: "idle", "load", "copy", "publish", "lock", "drop", "limit",
               \* "trim", "refused"; "assert" where an assertion fails
  stage,       \* which write it is at: "silence", "first", "retry", "last"
  toWrite,     \* what remains to be written
  frame,       \* the samples of the frame
  room,        \* the free space it has seen
  limit,       \* max_buffered_samples
  produced,    \* the number of the last sample
  plPc,        \* reader: "idle", "load", "copy", "publish", "after"
  wanted,      \* out_samples
  readable,    \* how many of them it has seen in the buffer
  out,         \* what it has read
  heard        \* history: the last sample the device was given

ring    == <<cells, head, tail>>
pusher  == <<arPc, stage, toWrite, frame, room, limit, produced>>
puller  == <<plPc, wanted, readable, out, heard>>
arVars  == <<player, ring, mutex, played, pusher, puller>>

Size == Capacity + 1

Init ==
  /\ player = "closed"
  /\ cells = [i \in 0..Capacity |-> 0] /\ head = 0 /\ tail = 0
  /\ mutex = "free"
  /\ played = FALSE
  /\ arPc = "idle" /\ stage = "first" /\ toWrite = <<>> /\ frame = <<>> /\ room = 0
  /\ limit = MaxInitial /\ produced = 0
  /\ plPc = "idle" /\ wanted = 0 /\ readable = 0 /\ out = <<>> /\ heard = 0

\* sc_audiobuf_can_read()
CanRead == (Size + head - tail) % Size

\* One cell stays free, so that a full buffer is not an empty one.
Room == (Size + tail - head - 1) % Size

\* The player: whatever fails on opening, all is undone.  The device is stopped, and its callback
\* has returned, before the buffer is freed.
Open ==
  /\ player = "closed"
  /\ player' \in {"open", "failed"}
  /\ UNCHANGED <<ring, mutex, played, pusher, puller>>

Close ==
  /\ player = "open" /\ arPc \in {"idle", "refused"} /\ plPc = "idle"
  /\ player' = "ended"
  /\ UNCHANGED <<ring, mutex, played, pusher, puller>>

-----------------------------------------------------------------------------
(* sc_audio_regulator_push() *)

Silence(k) == [i \in 1..k |-> 0]

Resampled(n) == {m \in {n - 1, n, n + 1} : m > 0}

\* Too long a frame loses its first samples.
Fitting(s) == IF Len(s) > Capacity THEN SubSeq(s, Len(s) - Capacity + 1, Len(s)) ELSE s

Push(n, gap) ==
  /\ player = "open" /\ arPc = "idle"
  /\ \E m \in Resampled(n) :
       /\ produced + m <= MaxSamples
       /\ frame' = Fitting([i \in 1..m |-> produced + i])
       /\ produced' = produced + m
  /\ arPc' = "load"
  /\ \/ /\ gap /\ n + CanRead < Target
        /\ stage' = "silence" /\ toWrite' = Silence(Target - CanRead - n)
     \/ /\ ~(gap /\ n + CanRead < Target)
        /\ stage' = "first" /\ toWrite' = frame'
  /\ UNCHANGED <<player, ring, mutex, played, room, limit, puller>>

\* The resampling buffer cannot grow, or the resampling fails: the stream ends.
PushFails ==
  /\ player = "open" /\ arPc = "idle"
  /\ arPc' = "refused"
  /\ UNCHANGED <<player, ring, mutex, played, stage, toWrite, frame, room, limit, produced,
                 puller>>

\* sc_audiobuf_write(), in three steps.
Load ==
  /\ arPc = "load"
  /\ room' = Room
  /\ arPc' = "copy"
  /\ UNCHANGED <<player, ring, mutex, played, stage, toWrite, frame, limit, produced, puller>>

Fits == Min({room, Len(toWrite)})

Copy ==
  /\ arPc = "copy"
  /\ cells' = [i \in DOMAIN cells |->
                 LET k == (Size + i - head) % Size
                 IN IF k < Fits THEN toWrite[k + 1] ELSE cells[i]]
  /\ arPc' = "publish"
  /\ UNCHANGED <<player, head, tail, mutex, played, stage, toWrite, frame, room, limit,
                 produced, puller>>

Publish ==
  /\ arPc = "publish"
  /\ head' = (head + Fits) % Size
  /\ LET rest == SubSeq(toWrite, Fits + 1, Len(toWrite))
     IN \/ /\ stage = "silence"
           /\ stage' = "first" /\ toWrite' = frame /\ arPc' = "load"
           /\ UNCHANGED mutex
        \/ /\ stage # "silence" /\ rest = <<>>
           /\ toWrite' = <<>> /\ arPc' = "limit"
           /\ mutex' = (IF stage = "retry" THEN "free" ELSE mutex)
           /\ UNCHANGED stage
        \/ /\ stage # "silence" /\ rest # <<>>
           /\ toWrite' = rest
           /\ arPc' = (CASE stage = "first" -> "lock"
                         [] stage = "retry" -> "drop"
                         [] OTHER -> "assert")
           /\ UNCHANGED <<stage, mutex>>
  /\ UNCHANGED <<player, cells, tail, played, frame, room, limit, produced, puller>>

MayDropAnyTime == TRUE

\* The writer may move the cursor of the reader only with the mutex.
MayDrop == mutex = "free"

Lock ==
  /\ arPc = "lock" /\ MayDrop
  /\ mutex' = "pusher"
  /\ stage' = "retry" /\ arPc' = "load"
  /\ UNCHANGED <<player, ring, played, toWrite, frame, room, limit, produced, puller>>

\* Old samples make way: `assert(skipped_samples == remaining)`.
Drop ==
  /\ arPc = "drop"
  /\ tail' = (tail + Min({CanRead, Len(toWrite)})) % Size
  /\ mutex' = "free"
  /\ stage' = "last"
  /\ arPc' = IF CanRead >= Len(toWrite) THEN "load" ELSE "assert"
  /\ UNCHANGED <<player, cells, head, played, toWrite, frame, room, limit, produced, puller>>

\* More is tolerated once the playback has started.
Limit == IF played THEN MaxBuffered ELSE MaxInitial

ReadPlayed ==
  /\ arPc = "limit"
  /\ limit' = Limit
  /\ arPc' = "trim"
  /\ UNCHANGED <<player, ring, mutex, played, stage, toWrite, frame, room,
                 produced, puller>>

Trim ==
  /\ arPc = "trim"
  /\ \/ CanRead <= limit /\ UNCHANGED tail
     \/ /\ CanRead > limit /\ mutex = "free"
        /\ tail' = (tail + CanRead - limit) % Size
  /\ arPc' = "idle"
  /\ UNCHANGED <<player, cells, head, mutex, played, stage, toWrite, frame, room,
                 limit, produced, puller>>

-----------------------------------------------------------------------------
(* sc_audio_regulator_pull() *)

\* Before the playback, silence until the target is reached.
Pull(n) ==
  /\ player = "open" /\ plPc = "idle" /\ mutex = "free"
  /\ wanted' = n
  /\ \/ /\ ~played /\ CanRead < Target
        /\ UNCHANGED <<plPc, mutex>>
     \/ /\ played \/ CanRead >= Target
        /\ plPc' = "load" /\ mutex' = "puller"
  /\ UNCHANGED <<player, ring, played, pusher, readable, out, heard>>

ReadHead ==
  /\ plPc = "load"
  /\ readable' = Min({wanted, CanRead})
  /\ plPc' = "copy"
  /\ UNCHANGED <<player, ring, mutex, played, pusher, wanted, out, heard>>

CopyOut ==
  /\ plPc = "copy"
  /\ out' = [i \in 1..readable |-> cells[(tail + i - 1) % Size]]
  /\ plPc' = "publish"
  /\ UNCHANGED <<player, ring, mutex, played, pusher, wanted, readable, heard>>

PublishTail ==
  /\ plPc = "publish"
  /\ tail' = (tail + readable) % Size
  /\ mutex' = "free"
  /\ plPc' = "after"
  /\ UNCHANGED <<player, cells, head, played, pusher, wanted, readable, out, heard>>

\* Missing samples are replaced by silence.
After ==
  /\ plPc = "after"
  /\ heard' = Max({heard} \cup Range(out))
  /\ played' = TRUE
  /\ out' = <<>>
  /\ plPc' = "idle"
  /\ UNCHANGED <<player, ring, mutex, pusher, wanted, readable>>

-----------------------------------------------------------------------------
Next ==
  \/ Open \/ Close
  \/ \E n \in FrameSize, gap \in BOOLEAN : Push(n, gap)
  \/ PushFails
  \/ Load \/ Copy \/ Publish \/ Lock \/ Drop \/ ReadPlayed \/ Trim
  \/ \E n \in PullSize : Pull(n)
  \/ ReadHead \/ CopyOut \/ PublishTail \/ After

Spec == Init /\ [][Next]_arVars

-----------------------------------------------------------------------------
\* Without a lock between the writer's copy and the reader's, and with a writer that drops what
\* the reader may be reading, the device still hears each sample at most once, in order.
HeardInOrder ==
  \A i \in DOMAIN out :
    out[i] # 0 => out[i] > heard /\ \A j \in 1..(i - 1) : out[i] > out[j]

\* The assertions of sc_audio_regulator_push(): what must be dropped is there, and what was
\* dropped makes room for all that remains.
DropMakesRoom == arPc # "assert"

\* When a push returns, no more is buffered than the latency the user asked for allows, whatever
\* the reader did meanwhile.
LatencyBounded ==
  arPc = "idle" => CanRead <= IF played THEN MaxBuffered ELSE MaxInitial
=============================================================================
