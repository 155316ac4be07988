---------------------------- MODULE RecordingProofs ----------------------------
(***************************************************************************)
(* Of the components that share out what the device captures: what is      *)
(* recorded is all there, and the sinks of a demuxer agree on the stream.  *)
(***************************************************************************)
EXTENDS MCMedia, SequenceTheorems, WellFoundedInduction, TLAPS

-----------------------------------------------------------------------------
(***************************************************************************)
(* The recorder.  Between the packets accepted and those muxed there are   *)
(* the video packet held back for its duration, the packet being processed *)
(* and the queue, where configuration packets do not count: Counted says   *)
(* that the media packets of the queue q are those of a after the m first. *)
(***************************************************************************)
Pts    == 0..MaxPts
Packet == Pts \cup {Rec!NoPts}

Counted(q, m, a) ==
  \E r \in [0..Len(q) -> 0..Len(a)] :
    /\ r[0] = m /\ r[Len(q)] = Len(a)
    /\ \A i \in 1..Len(q) :
         IF q[i] = Rec!NoPts THEN r[i] = r[i - 1] ELSE r[i] = r[i - 1] + 1 /\ a[r[i]] = q[i]

RecTyped ==
  /\ uses \in [Rec!Stream -> BOOLEAN] /\ expects \in [Rec!Stream -> BOOLEAN]
  /\ sink \in [Rec!Stream -> {"absent", "idle", "open", "refused", "closed"}]
  /\ recStopped \in BOOLEAN /\ lastLost \in BOOLEAN /\ streams \subseteq Rec!Stream
  /\ packets \in [Rec!Stream -> Seq(Packet)]
  /\ held \in [Rec!Stream -> Packet \cup {Rec!None}]
  /\ accepted \in [Rec!Stream -> Seq(Pts)]
  /\ muxed \in [Rec!Stream -> Seq(Int)] /\ lastPts \in [Rec!Stream -> Int]
  /\ ptsOrigin \in Packet
  /\ previous \in ((-MaxPts)..MaxPts) \cup {Rec!None}

(* The muxer was given nothing, or last the pts remembered.                *)
LastMuxed ==
  \A s \in Rec!Stream :
    /\ muxed[s] = <<>> => lastPts[s] = Rec!NoPts
    /\ muxed[s] # <<>> => lastPts[s] = muxed[s][Len(muxed[s])] /\ lastPts[s] >= -MaxPts
    /\ \A i, j \in 1..Len(muxed[s]) : i < j => muxed[s][i] < muxed[s][j]

Back(s) == IF s = "video" /\ previous # Rec!None THEN 1 ELSE 0
Hand(s) == IF held[s] \in Pts THEN 1 ELSE 0

(* Every media packet accepted is muxed, held back, in hand or queued.     *)
Kept(s) ==
  /\ Len(muxed[s]) + Back(s) + Hand(s) <= Len(accepted[s])
  /\ \A i \in 1..Len(muxed[s]) : muxed[s][i] >= Rec!Rescale(accepted[s][i] - ptsOrigin)
  /\ Back(s) = 1 => previous = accepted[s][Len(muxed[s]) + 1] - ptsOrigin
  /\ Hand(s) = 1 => held[s] = accepted[s][Len(muxed[s]) + Back(s) + 1]
  /\ Counted(packets[s], Len(muxed[s]) + Back(s) + Hand(s), accepted[s])

NothingLost ==
  recorder \in {"open", "header", "wait", "process", "last"} =>
    \A s \in Rec!Stream : Kept(s)

(* Every media packet accepted is muxed but, perhaps, the last one.        *)
AllMuxed(s) ==
  /\ Len(muxed[s]) + Rec!Unwritten(s) = Len(accepted[s])
  /\ \A i \in 1..Len(muxed[s]) : muxed[s][i] >= Rec!Rescale(accepted[s][i] - ptsOrigin)

RecPhases ==
  /\ ptsOrigin = Rec!NoPts => previous = Rec!None /\ \A s \in Rec!Stream : muxed[s] = <<>>
  /\ recorder \in {"last", "complete"} => recStopped
  /\ recorder = "last" => \A s \in Rec!Stream : held[s] = Rec!None /\ packets[s] = <<>>
  /\ recorder = "complete" => \A s \in Rec!Stream : AllMuxed(s)
  /\ lastLost => recorder \in {"complete", "failed", "ended", "undefined"}
  /\ outcome # "none" => recStopped /\ recorder \in {"ended", "undefined"}

(* There is an origin to find: a stream that is used has started.          *)
RecStarted ==
  /\ \A s \in Rec!Stream : sink[s] = "absent" \/ uses[s]
  /\ \A s \in streams : uses[s] /\ sink[s] # "idle"
  /\ recorder \in {"wait", "process"} => \E s \in Rec!Stream : uses[s] /\ sink[s] # "idle"

RecInv ==
  RecTyped /\ LastMuxed /\ NothingLost /\ RecPhases /\ RecStarted /\ Rec!RecordingComplete

LEMMA RecConstants ==
  /\ MaxPts \in Nat /\ Tick \in Nat \ {0}
  /\ Rec!NoPts = -MaxPts - 1 /\ Rec!None = -MaxPts - 2
  /\ Rec!NoPts \notin Pts /\ Rec!None \notin Packet
<1>1. MaxPts \in Nat /\ Tick \in Nat \ {0}
  BY RecorderAssumption
<1>2. Rec!NoPts = -MaxPts - 1 /\ Rec!None = -MaxPts - 2
  BY <1>1 DEF Rec!NoPts, Rec!None
<1> QED BY <1>1, <1>2 DEF Pts, Packet

LEMMA CountedAll ==
  ASSUME NEW m, NEW a, Counted(<<>>, m, a)
  PROVE  m = Len(a)
BY DEF Counted

LEMMA CountedMedia ==
  ASSUME NEW m, NEW p \in Pts, NEW q \in Seq(Packet), NEW a \in Seq(Pts), Counted(q, m, a)
  PROVE  Counted(Append(q, p), m, Append(a, p))
<1> DEFINE q2 == Append(q, p)  a2 == Append(a, p)
<1>1. PICK r \in [0..Len(q) -> 0..Len(a)] :
        /\ r[0] = m /\ r[Len(q)] = Len(a)
        /\ \A i \in 1..Len(q) :
             IF q[i] = Rec!NoPts THEN r[i] = r[i - 1]
             ELSE r[i] = r[i - 1] + 1 /\ a[r[i]] = q[i]
  BY DEF Counted
<1>2. /\ Len(q) \in Nat /\ Len(a) \in Nat
      /\ Len(q2) = Len(q) + 1 /\ Len(a2) = Len(a) + 1
      /\ \A i \in 1..Len(q) : q2[i] = q[i]
      /\ \A i \in 1..Len(a) : a2[i] = a[i]
      /\ q2[Len(q) + 1] = p /\ a2[Len(a) + 1] = p
  BY AppendProperties, LenProperties DEF Packet
<1> HIDE DEF q2, a2
<1> DEFINE r2 == [i \in 0..Len(q2) |-> IF i <= Len(q) THEN r[i] ELSE Len(a) + 1]
<1>3. r2 \in [0..Len(q2) -> 0..Len(a2)]
  BY <1>2
<1>4. r2[0] = m /\ r2[Len(q2)] = Len(a2)
  BY <1>1, <1>2
<1>5. ASSUME NEW i \in 1..Len(q2)
      PROVE  IF q2[i] = Rec!NoPts THEN r2[i] = r2[i - 1]
             ELSE r2[i] = r2[i - 1] + 1 /\ a2[r2[i]] = q2[i]
  <2>1. CASE i = Len(q) + 1
    BY <2>1, <1>1, <1>2, RecConstants
  <2>2. CASE i # Len(q) + 1
    <3>1. i \in 1..Len(q) /\ i - 1 \in 0..Len(q)
      BY <2>2, <1>2
    <3>2. r2[i] = r[i] /\ r2[i - 1] = r[i - 1] /\ q2[i] = q[i]
      <4>1. /\ i \in 0..Len(q2) /\ i <= Len(q)
            /\ i - 1 \in 0..Len(q2) /\ i - 1 <= Len(q)
        BY <3>1, <1>2
      <4>2. r2[i] = r[i]
        BY <4>1
      <4>3. r2[i - 1] = r[i - 1]
        BY <4>1
      <4> QED BY <4>2, <4>3, <3>1, <1>2
    <3>5. r[i - 1] \in Nat /\ r[i] \in 0..Len(a)
      <4>1. i \in 0..Len(q)
        BY <3>1, <1>2
      <4>2. r[i - 1] \in 0..Len(a) /\ r[i] \in 0..Len(a)
        BY <4>1, <3>1
      <4> QED BY <4>2, <1>2
    <3>3. CASE q[i] = Rec!NoPts
      BY <3>1, <3>2, <3>3, <1>1
    <3>4. CASE q[i] # Rec!NoPts
      <4>1. r[i] = r[i - 1] + 1 /\ a[r[i]] = q[i]
        BY <3>1, <3>4, <1>1
      <4>2. r[i] \in 1..Len(a)
        BY <4>1, <3>5, <1>2
      <4> QED BY <4>1, <4>2, <3>2, <3>4, <1>2
    <3> QED BY <3>3, <3>4
  <2> QED BY <2>1, <2>2
<1> QED BY <1>3, <1>4, <1>5 DEF Counted, q2, a2

LEMMA CountedConfig ==
  ASSUME NEW m, NEW q \in Seq(Packet), NEW a \in Seq(Pts), Counted(q, m, a)
  PROVE  Counted(Append(q, Rec!NoPts), m, a)
<1> DEFINE q2 == Append(q, Rec!NoPts)
<1>1. PICK r \in [0..Len(q) -> 0..Len(a)] :
        /\ r[0] = m /\ r[Len(q)] = Len(a)
        /\ \A i \in 1..Len(q) :
             IF q[i] = Rec!NoPts THEN r[i] = r[i - 1]
             ELSE r[i] = r[i - 1] + 1 /\ a[r[i]] = q[i]
  BY DEF Counted
<1>2. /\ Len(q) \in Nat /\ Len(a) \in Nat
      /\ Len(q2) = Len(q) + 1
      /\ \A i \in 1..Len(q) : q2[i] = q[i]
      /\ q2[Len(q) + 1] = Rec!NoPts
  BY AppendProperties, LenProperties DEF Packet
<1> HIDE DEF q2
<1> DEFINE r2 == [i \in 0..Len(q2) |-> IF i <= Len(q) THEN r[i] ELSE Len(a)]
<1>3. r2 \in [0..Len(q2) -> 0..Len(a)]
  BY <1>2
<1>4. r2[0] = m /\ r2[Len(q2)] = Len(a)
  BY <1>1, <1>2
<1>5. ASSUME NEW i \in 1..Len(q2)
      PROVE  IF q2[i] = Rec!NoPts THEN r2[i] = r2[i - 1]
             ELSE r2[i] = r2[i - 1] + 1 /\ a[r2[i]] = q2[i]
  <2>1. CASE i = Len(q) + 1
    BY <2>1, <1>1, <1>2
  <2>2. CASE i # Len(q) + 1
    <3>1. i \in 1..Len(q) /\ i - 1 \in 0..Len(q)
      BY <2>2, <1>2
    <3>2. r2[i] = r[i] /\ r2[i - 1] = r[i - 1] /\ q2[i] = q[i]
      <4>1. /\ i \in 0..Len(q2) /\ i <= Len(q)
            /\ i - 1 \in 0..Len(q2) /\ i - 1 <= Len(q)
        BY <3>1, <1>2
      <4>2. r2[i] = r[i]
        BY <4>1
      <4>3. r2[i - 1] = r[i - 1]
        BY <4>1
      <4> QED BY <4>2, <4>3, <3>1, <1>2
    <3> QED BY <3>1, <3>2, <1>1
  <2> QED BY <2>1, <2>2
<1> QED BY <1>3, <1>4, <1>5 DEF Counted, q2

LEMMA CountedTail ==
  ASSUME NEW m, NEW q \in Seq(Packet), NEW a \in Seq(Pts), q # <<>>, Counted(q, m, a)
  PROVE  /\ Head(q) = Rec!NoPts => Counted(Tail(q), m, a)
         /\ Head(q) # Rec!NoPts =>
              m \in Nat /\ m + 1 <= Len(a) /\ Head(q) = a[m + 1] /\ Counted(Tail(q), m + 1, a)
<1> DEFINE t == Tail(q)
<1>1. PICK r \in [0..Len(q) -> 0..Len(a)] :
        /\ r[0] = m /\ r[Len(q)] = Len(a)
        /\ \A i \in 1..Len(q) :
             IF q[i] = Rec!NoPts THEN r[i] = r[i - 1]
             ELSE r[i] = r[i - 1] + 1 /\ a[r[i]] = q[i]
  BY DEF Counted
<1>2. /\ Len(q) \in Nat \ {0} /\ Len(a) \in Nat /\ Head(q) = q[1]
      /\ Len(t) = Len(q) - 1 /\ \A i \in 1..Len(t) : t[i] = q[i + 1]
  BY HeadTailProperties, LenProperties, EmptySeq
<1>3. IF q[1] = Rec!NoPts THEN r[1] = m ELSE r[1] = m + 1 /\ a[r[1]] = q[1]
  <2>1. 1 \in 1..Len(q) /\ 1 - 1 = 0
    BY <1>2
  <2> QED BY <2>1, <1>1
<1>4. r[1] \in 0..Len(a) /\ m \in 0..Len(a)
  BY <1>1, <1>2
<1> HIDE DEF t
<1>5. Counted(t, r[1], a)
  <2> DEFINE r2 == [i \in 0..Len(t) |-> r[i + 1]]
  <2>1. r2 \in [0..Len(t) -> 0..Len(a)]
    BY <1>2
  <2>2. r2[0] = r[1] /\ r2[Len(t)] = Len(a)
    BY <1>1, <1>2
  <2>3. ASSUME NEW i \in 1..Len(t)
        PROVE  IF t[i] = Rec!NoPts THEN r2[i] = r2[i - 1]
               ELSE r2[i] = r2[i - 1] + 1 /\ a[r2[i]] = t[i]
    <3>1. i + 1 \in 1..Len(q) /\ (i + 1) - 1 = i /\ i - 1 \in 0..Len(t) /\ (i - 1) + 1 = i
      BY <1>2
    <3>2. r2[i] = r[i + 1] /\ r2[i - 1] = r[i] /\ t[i] = q[i + 1]
      BY <3>1, <1>2
    <3>3. IF q[i + 1] = Rec!NoPts THEN r[i + 1] = r[(i + 1) - 1]
          ELSE r[i + 1] = r[(i + 1) - 1] + 1 /\ a[r[i + 1]] = q[i + 1]
      BY <3>1, <1>1
    <3> QED BY <3>1, <3>2, <3>3
  <2> HIDE DEF r2
  <2> QED BY <2>1, <2>2, <2>3 DEF Counted
<1> QED BY <1>2, <1>3, <1>4, <1>5 DEF t

(* The rounding of a division keeps a lower bound that is not positive.    *)
LEMMA RescaleBound ==
  ASSUME NEW p \in Int, p >= -MaxPts
  PROVE  Rec!Rescale(p) \in Int /\ Rec!Rescale(p) >= -MaxPts
<1>1. MaxPts \in Nat /\ Tick \in Nat \ {0}
  BY RecConstants
<1> DEFINE q == p \div Tick
<1>2. q \in Int /\ Tick * q <= p /\ p < Tick * (q + 1)
  BY <1>1
<1>3. Tick * (q + 1) = Tick * q + Tick
  BY <1>1, <1>2
<1> HIDE DEF q
<1>4. ASSUME q < -MaxPts PROVE FALSE
  <2>1. PICK k \in Nat : q + 1 = -MaxPts - k
    <3>1. -MaxPts - (q + 1) \in Nat
      BY <1>1, <1>2, <1>4
    <3> QED BY <3>1, <1>1, <1>2
  <2>2. Tick * (MaxPts + k) >= MaxPts + k
    BY <1>1, <2>1
  <2>3. Tick * (q + 1) = -(Tick * (MaxPts + k))
    BY <1>1, <2>1
  <2> QED BY <1>1, <1>2, <2>1, <2>2, <2>3
<1> QED BY <1>1, <1>2, <1>4 DEF Rec!Rescale, q

LEMMA InitRecorder == Rec!Init => RecInv
<1> SUFFICES ASSUME Rec!Init PROVE RecInv
  OBVIOUS
<1>1. RecTyped
  <2>1. /\ expects \in [Rec!Stream -> BOOLEAN] /\ recStopped \in BOOLEAN /\ lastLost \in BOOLEAN
        /\ sink \in [Rec!Stream -> {"absent", "idle", "open", "refused", "closed"}]
        /\ uses \in [Rec!Stream -> BOOLEAN] /\ streams \subseteq Rec!Stream
    BY DEF Rec!Init
  <2>2. packets \in [Rec!Stream -> Seq(Packet)] /\ accepted \in [Rec!Stream -> Seq(Pts)]
    BY DEF Rec!Init
  <2>3. held \in [Rec!Stream -> Packet \cup {Rec!None}]
    BY DEF Rec!Init
  <2>4. muxed \in [Rec!Stream -> Seq(Int)] /\ lastPts \in [Rec!Stream -> Int]
    BY RecConstants DEF Rec!Init
  <2>5. ptsOrigin \in Packet /\ previous \in ((-MaxPts)..MaxPts) \cup {Rec!None}
    BY DEF Rec!Init, Packet
  <2> QED BY <2>1, <2>2, <2>3, <2>4, <2>5 DEF RecTyped
<1>2. LastMuxed
  BY DEF Rec!Init, LastMuxed
<1>3. ASSUME NEW s \in Rec!Stream PROVE Kept(s)
  <2>1. Len(muxed[s]) = 0 /\ Len(accepted[s]) = 0 /\ Back(s) = 0 /\ Hand(s) = 0
    BY RecConstants DEF Rec!Init, Back, Hand, Packet
  <2>2. Counted(packets[s], 0, accepted[s])
    <3> DEFINE r == [i \in 0..0 |-> 0]
    <3>1. packets[s] = <<>> /\ accepted[s] = <<>> /\ Len(<<>>) = 0
      BY DEF Rec!Init
    <3>2. r \in [0..0 -> 0..0] /\ r[0] = 0 /\ 1..0 = {}
      OBVIOUS
    <3> QED BY <3>1, <3>2 DEF Counted
  <2> QED BY <2>1, <2>2 DEF Kept
<1>4. NothingLost
  BY <1>3 DEF NothingLost
<1>5. RecPhases
  BY DEF Rec!Init, RecPhases
<1>6. RecStarted
  BY DEF Rec!Init, RecStarted
<1>7. Rec!RecordingComplete
  BY DEF Rec!Init, Rec!RecordingComplete
<1> QED BY <1>1, <1>2, <1>4, <1>5, <1>6, <1>7 DEF RecInv

(* Steps that leave the packets where they are.                            *)
LEMMA SamePackets ==
  ASSUME RecInv, packets' = packets, accepted' = accepted, held' = held,
         previous' = previous, muxed' = muxed, ptsOrigin' = ptsOrigin, lastPts' = lastPts
  PROVE  /\ LastMuxed'
         /\ \A s \in Rec!Stream : Kept(s) => Kept(s)'
<1>1. LastMuxed'
  BY DEF RecInv, LastMuxed
<1>2. ASSUME NEW s \in Rec!Stream, Kept(s) PROVE Kept(s)'
  <2>1. Back(s)' = Back(s) /\ Hand(s)' = Hand(s)
    BY DEF Back, Hand
  <2>2. Counted(packets[s], Len(muxed[s]) + Back(s) + Hand(s), accepted[s])'
    BY <1>2, <2>1 DEF Kept, Counted
  <2> QED BY <1>2, <2>1, <2>2 DEF Kept, Rec!Rescale
<1> QED BY <1>1, <1>2

(* The sinks, the main thread and the failures to open change what is      *)
(* started, and may only go where nothing is claimed.                      *)
LEMMA SinksKeep ==
  ASSUME RecInv, packets' = packets, accepted' = accepted, held' = held,
         previous' = previous, muxed' = muxed, ptsOrigin' = ptsOrigin, lastPts' = lastPts,
         lastLost' = lastLost, outcome' = outcome, recStopped => recStopped',
         recorder' \in {recorder, "undefined"},
         RecTyped', RecStarted'
  PROVE  RecInv'
<1>1. LastMuxed' /\ \A s \in Rec!Stream : Kept(s) => Kept(s)'
  BY SamePackets
<1>2. NothingLost'
  BY <1>1 DEF RecInv, NothingLost
<1>3. \A s \in Rec!Stream : AllMuxed(s) => AllMuxed(s)'
  BY DEF AllMuxed, Rec!Unwritten, Rec!Rescale
<1>4. RecPhases'
  BY <1>3 DEF RecInv, RecPhases
<1>5. Rec!RecordingComplete'
  BY DEF RecInv, Rec!RecordingComplete, Rec!Unwritten, Rec!Rescale
<1> QED BY <1>1, <1>2, <1>4, <1>5 DEF RecInv

LEMMA RecordOpenKeeps ==
  ASSUME RecInv, Rec!VideoOpen \/ Rec!AudioOpen
  PROVE  RecInv'
<1>1. PICK s \in Rec!Stream :
        /\ sink[s] = "idle"
        /\ sink' \in {[sink EXCEPT ![s] = "open"], [sink EXCEPT ![s] = "closed"]}
        /\ expects' = expects \/ \E c \in BOOLEAN : expects' = [expects EXCEPT ![s] = c]
        /\ streams' \in {streams, streams \cup {s}}
        /\ recorder' \in {recorder, "undefined"}
        /\ recStopped' = recStopped
  <2>1. CASE Rec!VideoOpen
    <3>1. "video" \in Rec!Stream
      BY DEF Rec!Stream
    <3> QED BY <2>1, <3>1 DEF Rec!VideoOpen, Rec!OpenSucceeds, Rec!OpenFails, Rec!NewStream
  <2>2. CASE Rec!AudioOpen
    <3>1. "audio" \in Rec!Stream
      BY DEF Rec!Stream
    <3> QED BY <2>2, <3>1 DEF Rec!AudioOpen, Rec!OpenSucceeds, Rec!OpenFails, Rec!NewStream
  <2> QED BY <2>1, <2>2
<1>2. /\ packets' = packets /\ accepted' = accepted /\ held' = held /\ previous' = previous
      /\ muxed' = muxed /\ ptsOrigin' = ptsOrigin /\ lastPts' = lastPts /\ outcome' = outcome
      /\ uses' = uses /\ lastLost' = lastLost
  BY DEF Rec!VideoOpen, Rec!AudioOpen
<1>3. RecTyped'
  <2>1. sink' \in [Rec!Stream -> {"absent", "idle", "open", "refused", "closed"}]
    BY <1>1 DEF RecInv, RecTyped
  <2>2. expects' \in [Rec!Stream -> BOOLEAN] /\ streams' \subseteq Rec!Stream
    BY <1>1 DEF RecInv, RecTyped
  <2> QED BY <1>1, <1>2, <2>1, <2>2 DEF RecInv, RecTyped
<1>4. RecStarted'
  <2>1. /\ \A t \in Rec!Stream : sink'[t] = IF t = s THEN sink'[s] ELSE sink[t]
        /\ sink'[s] \in {"open", "closed"} /\ uses[s]
    BY <1>1 DEF RecInv, RecTyped, RecStarted
  <2>2. streams \subseteq Rec!Stream
    BY DEF RecInv, RecTyped
  <2> QED BY <1>1, <1>2, <2>1, <2>2 DEF RecInv, RecStarted
<1> QED BY <1>1, <1>2, <1>3, <1>4, SinksKeep

LEMMA AudioDisableKeeps ==
  ASSUME RecInv, Rec!AudioDisable
  PROVE  RecInv'
<1>1. "audio" \in Rec!Stream
  BY DEF Rec!Stream
<1>2. RecTyped'
  BY <1>1 DEF RecInv, RecTyped, Rec!AudioDisable, Rec!thread
<1>3. RecStarted'
  <2>1. \A s \in Rec!Stream : /\ sink'[s] = IF s = "audio" THEN "absent" ELSE sink[s]
                              /\ uses'[s] = IF s = "audio" THEN FALSE ELSE uses[s]
    BY DEF RecInv, RecTyped, Rec!AudioDisable
  <2>2. streams \subseteq Rec!Stream /\ "audio" \notin streams
    BY DEF RecInv, RecTyped, RecStarted, Rec!AudioDisable
  <2> QED BY <2>1, <2>2 DEF RecInv, RecStarted, Rec!AudioDisable, Rec!thread
<1> QED BY <1>2, <1>3, SinksKeep DEF Rec!AudioDisable, Rec!thread

LEMMA CloseStopKeeps ==
  ASSUME RecInv, Rec!Stop \/ \E s \in Rec!Stream : Rec!Close(s)
  PROVE  RecInv'
<1>1. RecTyped'
  BY DEF RecInv, RecTyped, Rec!Stop, Rec!Close, Rec!thread
<1>2. RecStarted'
  <2>1. CASE Rec!Stop
    BY <2>1 DEF RecInv, RecStarted, Rec!Stop, Rec!thread
  <2>2. ASSUME NEW s \in Rec!Stream, Rec!Close(s) PROVE RecStarted'
    <3>1. \A t \in Rec!Stream : sink'[t] = IF t = s THEN "closed" ELSE sink[t]
      BY <2>2 DEF RecInv, RecTyped, Rec!Close
    <3>2. streams \subseteq Rec!Stream
      BY DEF RecInv, RecTyped
    <3> QED BY <2>2, <3>1, <3>2 DEF RecInv, RecStarted, Rec!Close, Rec!thread
  <2> QED BY <2>1, <2>2
<1> QED BY <1>1, <1>2, SinksKeep DEF Rec!Stop, Rec!Close, Rec!thread

LEMMA PushKeeps ==
  ASSUME RecInv, NEW s \in Rec!Stream, Rec!Pushed(s)
  PROVE  RecInv'
<1>1. PICK p \in Packet : Rec!Push(s, p)
  BY DEF Rec!Pushed, Packet, Pts
<1>2. CASE Rec!Reject(s)
  <2>1. RecTyped'
    BY <1>1, <1>2 DEF RecInv, RecTyped, Rec!Push, Rec!Reject, Rec!thread
  <2>2. \A t \in Rec!Stream : sink'[t] = IF t = s THEN "refused" ELSE sink[t]
    BY <1>1, <1>2 DEF RecInv, RecTyped, Rec!Push, Rec!Reject
  <2>3. streams \subseteq Rec!Stream /\ sink[s] = "open"
    BY <1>1 DEF RecInv, RecTyped, Rec!Push
  <2>4. RecStarted'
    BY <1>1, <1>2, <2>2, <2>3 DEF RecInv, RecStarted, Rec!Push, Rec!Reject, Rec!thread
  <2> QED BY <1>1, <1>2, <2>1, <2>4, SinksKeep DEF Rec!Push, Rec!Reject, Rec!thread
<1>3. CASE ~recStopped /\ Rec!Accept(s, p)
  <2>1. /\ uses' = uses /\ expects' = expects /\ recStopped' = recStopped /\ streams' = streams
        /\ sink' = sink /\ recorder' = recorder /\ held' = held /\ previous' = previous
        /\ ptsOrigin' = ptsOrigin /\ lastPts' = lastPts /\ muxed' = muxed /\ outcome' = outcome
        /\ lastLost' = lastLost
    BY <1>1, <1>3 DEF Rec!Push, Rec!Accept, Rec!thread
  <2>2. \A t \in Rec!Stream :
          /\ packets'[t] = IF t = s THEN Append(packets[s], p) ELSE packets[t]
          /\ accepted'[t] = IF t = s /\ p # Rec!NoPts THEN Append(accepted[s], p) ELSE accepted[t]
    BY <1>3 DEF Rec!Accept, RecInv, RecTyped
  <2>3. p # Rec!NoPts => p \in Pts
    BY DEF Packet
  <2>4. RecTyped'
    <3>1. packets[s] \in Seq(Packet) /\ accepted[s] \in Seq(Pts)
      BY DEF RecInv, RecTyped
    <3>2. /\ Append(packets[s], p) \in Seq(Packet)
          /\ p # Rec!NoPts => Append(accepted[s], p) \in Seq(Pts)
      BY <2>3, <3>1, AppendProperties
    <3>3. packets' \in [Rec!Stream -> Seq(Packet)] /\ accepted' \in [Rec!Stream -> Seq(Pts)]
      BY <1>3, <3>2 DEF Rec!Accept, RecInv, RecTyped
    <3> QED BY <2>1, <3>3 DEF RecInv, RecTyped
  <2>5. LastMuxed'
    BY <2>1 DEF RecInv, LastMuxed
  <2>6. ASSUME NEW t \in Rec!Stream, Kept(t) PROVE Kept(t)'
    <3>1. Back(t)' = Back(t) /\ Hand(t)' = Hand(t) /\ Back(t) \in {0, 1} /\ Hand(t) \in {0, 1}
      BY <2>1 DEF Back, Hand
    <3>2. packets[t] \in Seq(Packet) /\ accepted[t] \in Seq(Pts) /\ muxed[t] \in Seq(Int)
      BY DEF RecInv, RecTyped
    <3>3. Len(muxed[t]) \in Nat /\ Len(accepted[t]) \in Nat /\ Len(accepted'[t]) >= Len(accepted[t])
          /\ \A i \in 1..Len(accepted[t]) : accepted'[t][i] = accepted[t][i]
      <4>1. Len(muxed[t]) \in Nat /\ Len(accepted[t]) \in Nat
        BY <3>2, LenProperties
      <4>2. CASE t = s /\ p # Rec!NoPts
        <5>1. accepted'[t] = Append(accepted[t], p) /\ p \in Pts /\ accepted[t] \in Seq(Pts)
          BY <4>2, <2>2, <2>3, <3>2
        <5>2. /\ Len(accepted'[t]) = Len(accepted[t]) + 1
              /\ \A i \in 1..Len(accepted[t]) : accepted'[t][i] = accepted[t][i]
          BY <5>1, AppendProperties
        <5> QED BY <4>1, <5>2
      <4>3. CASE ~(t = s /\ p # Rec!NoPts)
        BY <4>1, <4>3, <2>2
      <4> QED BY <4>1, <4>2, <4>3
    <3>4. Counted(packets[t], Len(muxed[t]) + Back(t) + Hand(t), accepted[t])'
      <4>1. Counted(packets[t], Len(muxed[t]) + Back(t) + Hand(t), accepted[t])
        BY <2>6 DEF Kept
      <4>2. Counted(packets'[t], Len(muxed[t]) + Back(t) + Hand(t), accepted'[t])
        <5>1. CASE t = s /\ p # Rec!NoPts
          BY <5>1, <4>1, <3>2, <2>2, <2>3, CountedMedia
        <5>2. CASE t = s /\ p = Rec!NoPts
          BY <5>2, <4>1, <3>2, <2>2, CountedConfig
        <5>3. CASE t # s
          BY <5>3, <4>1, <2>2
        <5> QED BY <5>1, <5>2, <5>3
      <4> QED BY <4>2, <3>1, <2>1 DEF Counted
    <3>5. Len(muxed[t]) + Back(t) + Hand(t) <= Len(accepted[t])
      BY <2>6 DEF Kept
    <3>6. \A i \in 1..Len(muxed[t]) :
            muxed'[t][i] >= Rec!Rescale(accepted'[t][i] - ptsOrigin)
      <4>1. \A i \in 1..Len(muxed[t]) : i \in 1..Len(accepted[t])
        BY <3>1, <3>3, <3>5
      <4> QED BY <2>1, <2>6, <3>3, <4>1 DEF Kept
    <3>7. Back(t) = 1 => previous = accepted'[t][Len(muxed[t]) + 1] - ptsOrigin
      <4>1. Back(t) = 1 => Len(muxed[t]) + 1 \in 1..Len(accepted[t])
        BY <3>1, <3>3, <3>5
      <4> QED BY <2>6, <3>3, <4>1 DEF Kept
    <3>8. Hand(t) = 1 => held[t] = accepted'[t][Len(muxed[t]) + Back(t) + 1]
      <4>1. Hand(t) = 1 => Len(muxed[t]) + Back(t) + 1 \in 1..Len(accepted[t])
        BY <3>1, <3>3, <3>5
      <4> QED BY <2>6, <3>3, <4>1 DEF Kept
    <3> QED BY <2>1, <3>1, <3>3, <3>4, <3>5, <3>6, <3>7, <3>8 DEF Kept, Rec!Rescale
  <2>7. NothingLost'
    BY <2>1, <2>6 DEF RecInv, NothingLost
  <2>8. RecPhases'
    BY <1>3, <2>1 DEF RecInv, RecPhases
  <2>9. RecStarted'
    BY <2>1 DEF RecInv, RecStarted
  <2>10. Rec!RecordingComplete'
    BY <1>3, <2>1 DEF RecInv, RecPhases, Rec!RecordingComplete
  <2> QED BY <2>4, <2>5, <2>7, <2>8, <2>9, <2>10 DEF RecInv
<1> QED BY <1>1, <1>2, <1>3 DEF Rec!Push

(* sc_recorder_write_stream(): what is muxed, and that it increases.       *)
LEMMA WrittenIncreases ==
  ASSUME RecInv, NEW w \in [Rec!Stream -> Int],
         \A s \in Rec!Stream : w[s] = Rec!None \/ w[s] >= -MaxPts, Rec!Written(w)
  PROVE  /\ muxed' \in [Rec!Stream -> Seq(Int)] /\ lastPts' \in [Rec!Stream -> Int]
         /\ LastMuxed'
         /\ \A s \in Rec!Stream :
              IF w[s] = Rec!None THEN muxed'[s] = muxed[s]
              ELSE \E x \in Int : x >= Rec!Rescale(w[s]) /\ muxed'[s] = Append(muxed[s], x)
<1>1. \A s \in Rec!Stream : w[s] # Rec!None =>
        Rec!Rescale(w[s]) \in Int /\ Rec!Rescale(w[s]) >= -MaxPts
  BY RescaleBound
<1>2. \A s \in Rec!Stream : lastPts[s] \in Int /\ muxed[s] \in Seq(Int)
  BY DEF RecInv, RecTyped
<1>3. ASSUME NEW s \in Rec!Stream, w[s] # Rec!None
      PROVE  /\ Rec!MuxedPts(s, w[s]) \in Int
             /\ Rec!MuxedPts(s, w[s]) >= Rec!Rescale(w[s])
             /\ lastPts[s] # Rec!NoPts => Rec!MuxedPts(s, w[s]) > lastPts[s]
  <2>1. lastPts[s] \in Int /\ Rec!Rescale(w[s]) \in Int
    BY <1>1, <1>2, <1>3
  <2> QED BY <2>1 DEF Rec!MuxedPts
<1>4. \A s \in Rec!Stream :
        /\ muxed'[s] = IF w[s] = Rec!None THEN muxed[s]
                       ELSE Append(muxed[s], Rec!MuxedPts(s, w[s]))
        /\ lastPts'[s] = IF w[s] = Rec!None THEN lastPts[s] ELSE Rec!MuxedPts(s, w[s])
  BY DEF Rec!Written
<1>5. muxed' \in [Rec!Stream -> Seq(Int)] /\ lastPts' \in [Rec!Stream -> Int]
  <2>1. \A s \in Rec!Stream : muxed'[s] \in Seq(Int) /\ lastPts'[s] \in Int
    <3> TAKE s \in Rec!Stream
    <3>1. CASE w[s] = Rec!None
      BY <3>1, <1>2, <1>4
    <3>2. CASE w[s] # Rec!None
      BY <3>2, <1>2, <1>3, <1>4, AppendProperties
    <3> QED BY <3>1, <3>2
  <2>2. muxed' = [s \in Rec!Stream |-> muxed'[s]] /\ lastPts' = [s \in Rec!Stream |-> lastPts'[s]]
    BY DEF Rec!Written
  <2> QED BY <2>1, <2>2
<1>6. LastMuxed'
  <2> SUFFICES ASSUME NEW s \in Rec!Stream
               PROVE  /\ muxed'[s] = <<>> => lastPts'[s] = Rec!NoPts
                      /\ muxed'[s] # <<>> => /\ lastPts'[s] = muxed'[s][Len(muxed'[s])]
                                             /\ lastPts'[s] >= -MaxPts
                      /\ \A i, j \in 1..Len(muxed'[s]) : i < j => muxed'[s][i] < muxed'[s][j]
    BY DEF LastMuxed
  <2>1. /\ muxed[s] = <<>> => lastPts[s] = Rec!NoPts
        /\ muxed[s] # <<>> => lastPts[s] = muxed[s][Len(muxed[s])] /\ lastPts[s] >= -MaxPts
        /\ \A i, j \in 1..Len(muxed[s]) : i < j => muxed[s][i] < muxed[s][j]
    BY DEF RecInv, LastMuxed
  <2>2. CASE w[s] = Rec!None
    BY <2>1, <2>2, <1>4
  <2>3. CASE w[s] # Rec!None
    <3> DEFINE x == Rec!MuxedPts(s, w[s])
    <3>1. /\ Len(muxed[s]) \in Nat /\ Len(muxed'[s]) = Len(muxed[s]) + 1
          /\ \A i \in 1..Len(muxed[s]) : muxed'[s][i] = muxed[s][i] /\ muxed[s][i] \in Int
          /\ muxed'[s][Len(muxed[s]) + 1] = x
      <4>1. muxed'[s] = Append(muxed[s], x) /\ x \in Int /\ muxed[s] \in Seq(Int)
        BY <1>2, <1>3, <1>4, <2>3
      <4> HIDE DEF x
      <4>2. /\ Len(muxed'[s]) = Len(muxed[s]) + 1
            /\ \A i \in 1..Len(muxed[s]) : muxed'[s][i] = muxed[s][i]
            /\ muxed'[s][Len(muxed[s]) + 1] = x
        BY <4>1, AppendProperties
      <4>3. Len(muxed[s]) \in Nat /\ \A i \in 1..Len(muxed[s]) : muxed[s][i] \in Int
        BY <4>1, LenProperties, ElementOfSeq
      <4> QED BY <4>2, <4>3
    <3>2. muxed'[s] # <<>> /\ lastPts'[s] = x /\ x \in Int /\ x >= -MaxPts
      <4>1. Rec!Rescale(w[s]) \in Int /\ Rec!Rescale(w[s]) >= -MaxPts /\ MaxPts \in Nat
        BY <1>1, <2>3, RecConstants
      <4>2. x \in Int /\ x >= Rec!Rescale(w[s])
        BY <1>3, <2>3
      <4>3. muxed'[s] # <<>>
        <5>1. Len(<<>>) = 0 /\ Len(muxed'[s]) > 0
          BY <3>1
        <5> QED BY <5>1
      <4> HIDE DEF x
      <4> QED BY <1>4, <2>3, <4>1, <4>2, <4>3 DEF x
    <3>3. ASSUME NEW i \in 1..Len(muxed[s]) PROVE muxed[s][i] < x
      <4>1. muxed[s] # <<>> /\ Len(muxed[s]) \in 1..Len(muxed[s])
        BY <3>1
      <4>2. lastPts[s] # Rec!NoPts
        BY <4>1, <2>1, RecConstants
      <4>3. lastPts[s] < x /\ lastPts[s] \in Int
        BY <4>2, <1>2, <1>3, <2>3
      <4>4. i = Len(muxed[s]) \/ i < Len(muxed[s])
        BY <3>1
      <4>5. muxed[s][i] <= lastPts[s]
        BY <4>1, <4>4, <2>1, <3>1
      <4> HIDE DEF x
      <4> QED BY <4>3, <4>5, <3>1, <3>2
    <3> HIDE DEF x
    <3>4. ASSUME NEW i \in 1..Len(muxed'[s]), NEW j \in 1..Len(muxed'[s]), i < j
          PROVE  muxed'[s][i] < muxed'[s][j]
      <4>1. i \in 1..Len(muxed[s])
        BY <3>1, <3>4
      <4>2. CASE j = Len(muxed[s]) + 1
        BY <4>1, <4>2, <3>1, <3>3
      <4>3. CASE j # Len(muxed[s]) + 1
        <5>1. j \in 1..Len(muxed[s])
          BY <4>3, <3>1
        <5> QED BY <5>1, <4>1, <3>1, <3>4, <2>1
      <4> QED BY <4>2, <4>3
    <3> QED BY <3>1, <3>2, <3>4
  <2> QED BY <2>2, <2>3
<1>7. ASSUME NEW s \in Rec!Stream
      PROVE  IF w[s] = Rec!None THEN muxed'[s] = muxed[s]
             ELSE \E x \in Int : x >= Rec!Rescale(w[s]) /\ muxed'[s] = Append(muxed[s], x)
  BY <1>3, <1>4
<1> QED BY <1>5, <1>6, <1>7

LEMMA OpenFileKeeps ==
  ASSUME RecInv, Rec!OpenFile
  PROVE  RecInv'
<1>1. LastMuxed' /\ \A s \in Rec!Stream : Kept(s) => Kept(s)'
  BY SamePackets DEF Rec!OpenFile, Rec!locked
<1>2. NothingLost'
  BY <1>1 DEF RecInv, NothingLost, Rec!OpenFile
<1>3. RecTyped'
  BY DEF RecInv, RecTyped, Rec!OpenFile, Rec!locked
<1>4. RecPhases' /\ RecStarted'
  BY DEF RecInv, RecPhases, RecStarted, Rec!OpenFile, Rec!locked
<1>5. Rec!RecordingComplete'
  BY DEF RecInv, RecPhases, Rec!RecordingComplete, Rec!OpenFile
<1> QED BY <1>1, <1>2, <1>3, <1>4, <1>5 DEF RecInv

(* A configuration packet leaves a queue for the header.                   *)
LEMMA ProcessHeaderKeeps ==
  ASSUME RecInv, Rec!ProcessHeader
  PROVE  RecInv'
<1>1. /\ recorder = "header" /\ recorder' \in {"wait", "failed"}
      /\ uses' = uses /\ expects' = expects /\ recStopped' = recStopped /\ streams' = streams
      /\ sink' = sink /\ held' = held /\ previous' = previous /\ ptsOrigin' = ptsOrigin
      /\ lastPts' = lastPts /\ muxed' = muxed /\ accepted' = accepted /\ outcome' = outcome
      /\ lastLost' = lastLost
  BY DEF Rec!ProcessHeader
<1>2. ASSUME NEW s \in Rec!Stream
      PROVE  \/ packets'[s] = packets[s]
             \/ /\ packets[s] # <<>> /\ packets'[s] = Tail(packets[s])
                /\ recorder' = "wait" => Head(packets[s]) = Rec!NoPts
  BY <1>1 DEF Rec!ProcessHeader, Rec!ConfigOf
<1>3. packets' \in [Rec!Stream -> Seq(Packet)]
  <2>1. ASSUME NEW s \in Rec!Stream PROVE packets'[s] \in Seq(Packet)
    <3>1. packets[s] \in Seq(Packet)
      BY DEF RecInv, RecTyped
    <3>2. packets[s] # <<>> => Tail(packets[s]) \in Seq(Packet)
      BY <3>1, HeadTailProperties
    <3> QED BY <1>2, <3>1, <3>2
  <2>2. packets' = [s \in Rec!Stream |-> packets'[s]]
    BY DEF Rec!ProcessHeader, RecInv, RecTyped
  <2> QED BY <2>1, <2>2
<1>4. RecTyped' /\ LastMuxed'
  BY <1>1, <1>3 DEF RecInv, RecTyped, LastMuxed
<1>5. ASSUME NEW s \in Rec!Stream, recorder' = "wait" PROVE Kept(s)'
  <2>1. Kept(s)
    BY <1>1 DEF RecInv, NothingLost
  <2>2. Back(s)' = Back(s) /\ Hand(s)' = Hand(s)
    BY <1>1 DEF Back, Hand
  <2>3. packets[s] \in Seq(Packet) /\ accepted[s] \in Seq(Pts)
    BY DEF RecInv, RecTyped
  <2>4. Counted(packets'[s], Len(muxed[s]) + Back(s) + Hand(s), accepted[s])
    BY <1>2, <1>5, <2>1, <2>3, CountedTail DEF Kept
  <2>5. Counted(packets[s], Len(muxed[s]) + Back(s) + Hand(s), accepted[s])'
    BY <1>1, <2>2, <2>4 DEF Counted
  <2> QED BY <1>1, <2>1, <2>2, <2>5 DEF Kept, Rec!Rescale
<1>6. NothingLost'
  BY <1>1, <1>5 DEF NothingLost
<1>7. RecPhases'
  BY <1>1 DEF RecInv, RecPhases
<1>8. RecStarted'
  <2>1. recorder' = "wait" => streams # {}
    BY <1>1 DEF Rec!ProcessHeader
  <2>2. streams \subseteq Rec!Stream
    BY DEF RecInv, RecTyped
  <2> QED BY <1>1, <2>1, <2>2 DEF RecInv, RecStarted
<1>9. Rec!RecordingComplete'
  BY <1>1 DEF RecInv, RecPhases, Rec!RecordingComplete
<1> QED BY <1>4, <1>6, <1>7, <1>8, <1>9 DEF RecInv

(* From the queues into the hands of the recorder thread.                  *)
LEMMA TakeKeeps ==
  ASSUME RecInv, Rec!Take
  PROVE  RecInv'
<1>1. /\ recorder = "wait" /\ recorder' \in {"last", "process"}
      /\ uses' = uses /\ expects' = expects /\ recStopped' = recStopped /\ streams' = streams
      /\ sink' = sink /\ previous' = previous /\ ptsOrigin' = ptsOrigin
      /\ lastPts' = lastPts /\ muxed' = muxed /\ accepted' = accepted /\ outcome' = outcome
      /\ lastLost' = lastLost
  BY DEF Rec!Take
<1>2. \A s \in Rec!Stream :
        IF Rec!Taken(s) THEN held'[s] = Head(packets[s]) /\ packets'[s] = Tail(packets[s])
        ELSE held'[s] = held[s] /\ packets'[s] = packets[s]
  BY DEF Rec!Take
<1>3. \A s \in Rec!Stream :
        /\ packets[s] \in Seq(Packet) /\ accepted[s] \in Seq(Pts)
        /\ packets[s] # <<>> => Tail(packets[s]) \in Seq(Packet) /\ Head(packets[s]) \in Packet
        /\ held[s] \in Packet \cup {Rec!None}
  BY HeadTailProperties DEF RecInv, RecTyped
<1>4. RecTyped'
  <2>1. packets' \in [Rec!Stream -> Seq(Packet)]
    BY <1>2, <1>3 DEF Rec!Take, Rec!Taken
  <2>2. held' \in [Rec!Stream -> Packet \cup {Rec!None}]
    BY <1>2, <1>3 DEF Rec!Take, Rec!Taken
  <2> QED BY <1>1, <2>1, <2>2 DEF RecInv, RecTyped
<1>5. LastMuxed'
  BY <1>1 DEF RecInv, LastMuxed
<1>6. ASSUME NEW s \in Rec!Stream PROVE Kept(s)'
  <2>1. Kept(s)
    BY <1>1 DEF RecInv, NothingLost
  <2>2. Back(s)' = Back(s) /\ Back(s) \in {0, 1} /\ Hand(s) \in {0, 1} /\ Len(muxed[s]) \in Nat
        /\ Len(accepted[s]) \in Nat
    BY <1>1, LenProperties DEF Back, Hand, RecInv, RecTyped
  <2>3. CASE ~Rec!Taken(s)
    <3>1. Hand(s)' = Hand(s) /\ packets'[s] = packets[s] /\ held'[s] = held[s]
      BY <1>2, <2>3 DEF Hand
    <3>2. Counted(packets[s], Len(muxed[s]) + Back(s) + Hand(s), accepted[s])'
      <4>1. Counted(packets'[s], Len(muxed'[s]) + Back(s)' + Hand(s)', accepted'[s])
        BY <1>1, <2>1, <2>2, <3>1 DEF Kept
      <4> QED BY <4>1 DEF Counted
    <3> QED BY <1>1, <2>1, <2>2, <3>1, <3>2 DEF Kept, Rec!Rescale
  <2>4. CASE Rec!Taken(s)
    <3> DEFINE m == Len(muxed[s]) + Back(s)
    <3>1. Hand(s) = 0 /\ packets[s] # <<>>
      BY <2>4, RecConstants DEF Rec!Taken, Hand, Packet
    <3>2. Counted(packets[s], m, accepted[s]) /\ m \in Nat /\ m <= Len(accepted[s])
      BY <2>1, <2>2, <3>1 DEF Kept
    <3>3. held'[s] = Head(packets[s]) /\ packets'[s] = Tail(packets[s])
      BY <1>2, <2>4
    <3> HIDE DEF m
    <3>4. /\ Head(packets[s]) = Rec!NoPts => Counted(Tail(packets[s]), m, accepted[s])
          /\ Head(packets[s]) # Rec!NoPts =>
               /\ m + 1 <= Len(accepted[s]) /\ Head(packets[s]) = accepted[s][m + 1]
               /\ Counted(Tail(packets[s]), m + 1, accepted[s])
      BY <1>3, <3>1, <3>2, CountedTail
    <3>5. Hand(s)' = IF Head(packets[s]) = Rec!NoPts THEN 0 ELSE 1
      BY <1>3, <3>1, <3>3, RecConstants DEF Hand, Packet
    <3>6. /\ m + Hand(s)' <= Len(accepted[s])
          /\ Hand(s)' = 1 => held'[s] = accepted[s][m + 1]
          /\ Counted(packets'[s], m + Hand(s)', accepted[s])
      <4>1. CASE Head(packets[s]) = Rec!NoPts
        BY <4>1, <3>2, <3>3, <3>4, <3>5
      <4>2. CASE Head(packets[s]) # Rec!NoPts
        BY <4>2, <3>2, <3>3, <3>4, <3>5
      <4> QED BY <4>1, <4>2
    <3>7. Counted(packets[s], Len(muxed[s]) + Back(s) + Hand(s), accepted[s])'
      <4>1. Counted(packets'[s], Len(muxed'[s]) + Back(s)' + Hand(s)', accepted'[s])
        BY <1>1, <2>2, <3>6 DEF m
      <4> QED BY <4>1 DEF Counted
    <3> QED BY <1>1, <2>1, <2>2, <3>6, <3>7 DEF Kept, Rec!Rescale, m
  <2> QED BY <2>3, <2>4
<1>7. NothingLost'
  BY <1>6 DEF NothingLost
<1>8. RecPhases'
  <2>1. ASSUME recorder' = "last"
        PROVE  recStopped /\ \A s \in Rec!Stream : held'[s] = Rec!None /\ packets'[s] = <<>>
    <3>1. recStopped /\ \A s \in Rec!Stream : held'[s] = Rec!None
      BY <2>1 DEF Rec!Take, Rec!Drained
    <3>2. ASSUME NEW s \in Rec!Stream PROVE packets'[s] = <<>>
      <4>1. ~Rec!Taken(s)
        BY <1>2, <1>3, <3>1, RecConstants DEF Rec!Taken
      <4> QED BY <1>2, <3>1, <4>1 DEF Rec!Taken
    <3> QED BY <3>1, <3>2
  <2> QED BY <1>1, <2>1 DEF RecInv, RecPhases
<1>9. RecStarted'
  BY <1>1 DEF RecInv, RecStarted
<1>10. Rec!RecordingComplete'
  BY <1>1 DEF RecInv, RecPhases, Rec!RecordingComplete
<1> QED BY <1>4, <1>5, <1>7, <1>8, <1>9, <1>10 DEF RecInv

LEMMA OneOfTwo ==
  ASSUME NEW S, S \subseteq Pts, S # {}, NEW a, NEW b, S \subseteq {a, b}
  PROVE  Rec!Min(S) \in S
<1>1. \E x \in S : \A y \in S : x <= y
  <2>1. PICK x \in S : TRUE
    OBVIOUS
  <2>2. \A y \in S : y \in Int
    BY RecConstants DEF Pts
  <2>3. CASE \A y \in S : x <= y
    BY <2>1, <2>3
  <2>4. CASE ~\A y \in S : x <= y
    <3>1. PICK y \in S : ~(x <= y)
      BY <2>4
    <3>2. y < x /\ \A z \in S : z = x \/ z = y
      BY <2>1, <2>2, <3>1
    <3> QED BY <2>2, <3>1, <3>2
  <2> QED BY <2>3, <2>4
<1> QED BY <1>1 DEF Rec!Min

LEMMA OriginFound ==
  ASSUME RecInv, recorder = "process"
  PROVE  /\ Rec!Origin \in Packet
         /\ ptsOrigin # Rec!NoPts => Rec!Origin = ptsOrigin
         /\ \A s \in Rec!Stream :
              Rec!Media(s) = IF held[s] \in Pts THEN held[s] ELSE Rec!None
<1>1. \A s \in Rec!Stream : Rec!Media(s) = IF held[s] \in Pts THEN held[s] ELSE Rec!None
  BY RecConstants DEF RecInv, RecTyped, Rec!Media, Packet
<1>2. ptsOrigin # Rec!NoPts => Rec!Origin = ptsOrigin
  BY DEF Rec!Origin
<1> DEFINE used == {s \in Rec!Stream : uses[s]}
           S == {Rec!Media(s) : s \in used}
<1>3. used # {}
  BY DEF RecInv, RecStarted
<1>4. ASSUME \A s \in used : Rec!Media(s) # Rec!None
      PROVE  Rec!Min(S) \in Pts
  <2>1. \A s \in used : Rec!Media(s) \in Pts
    BY <1>1, <1>4
  <2>2. S \subseteq Pts /\ S # {} /\ S \subseteq {Rec!Media("video"), Rec!Media("audio")}
    BY <1>3, <2>1 DEF Rec!Stream
  <2> QED BY <2>2, OneOfTwo
<1>5. "video" \in Rec!Stream
  BY DEF Rec!Stream
<1>6. Rec!Origin \in Packet
  <2>1. ptsOrigin \in Packet
    BY DEF RecInv, RecTyped
  <2>2. Rec!Origin = IF ptsOrigin # Rec!NoPts THEN ptsOrigin
                     ELSE IF \A s \in used : Rec!Media(s) # Rec!None THEN Rec!Min(S)
                     ELSE IF recStopped /\ Rec!Media("video") # Rec!None THEN Rec!Media("video")
                     ELSE Rec!NoPts
    BY DEF Rec!Origin
  <2> HIDE DEF used, S
  <2>3. Rec!Media("video") # Rec!None => Rec!Media("video") \in Pts
    BY <1>1, <1>5
  <2> QED BY <1>4, <2>1, <2>2, <2>3 DEF Packet
<1> QED BY <1>1, <1>2, <1>6

(* What sc_recorder_write_stream() is given is written from the origin.    *)
LEMMA ProcessKeeps ==
  ASSUME RecInv, Rec!Process
  PROVE  RecInv'
<1>1. /\ recorder = "process" /\ recorder' \in {"wait", "failed"} /\ ptsOrigin' = Rec!Origin
      /\ uses' = uses /\ expects' = expects /\ recStopped' = recStopped /\ streams' = streams
      /\ sink' = sink /\ packets' = packets /\ accepted' = accepted /\ outcome' = outcome
      /\ lastLost' = lastLost
  BY DEF Rec!Process, Rec!locked
<1> DEFINE o == Rec!Origin
<1>2. /\ o \in Packet
      /\ ptsOrigin # Rec!NoPts => o = ptsOrigin
      /\ \A s \in Rec!Stream : Rec!Media(s) = IF held[s] \in Pts THEN held[s] ELSE Rec!None
  BY <1>1, OriginFound
<1>3. /\ "video" \in Rec!Stream /\ Rec!Stream = {"video", "audio"}
  BY DEF Rec!Stream
<1>4. \A s \in Rec!Stream : Kept(s)
  BY <1>1 DEF RecInv, NothingLost
<1>5. RecStarted'
  BY <1>1 DEF RecInv, RecStarted
<1>6. Rec!RecordingComplete'
  BY <1>1 DEF RecInv, RecPhases, Rec!RecordingComplete
<1>7. CASE /\ held' = held /\ previous' = previous /\ lastPts' = lastPts /\ muxed' = muxed
           /\ recorder' = "failed" /\ o = Rec!NoPts
  <2>1. ptsOrigin' = ptsOrigin
    BY <1>1, <1>2, <1>7
  <2>2. RecTyped' /\ LastMuxed' /\ NothingLost' /\ RecPhases'
    BY <1>1, <1>7, <2>1 DEF RecInv, RecTyped, LastMuxed, NothingLost, RecPhases
  <2> QED BY <1>5, <1>6, <2>2 DEF RecInv
<1>8. CASE /\ o = Rec!NoPts /\ held' = [s \in Rec!Stream |-> Rec!Media(s)]
           /\ previous' = previous /\ lastPts' = lastPts /\ muxed' = muxed /\ recorder' = "wait"
  <2>1. ptsOrigin' = ptsOrigin
    BY <1>1, <1>2, <1>8
  <2>2. held' \in [Rec!Stream -> Packet \cup {Rec!None}]
    BY <1>2, <1>8 DEF Packet
  <2>3. RecTyped' /\ LastMuxed' /\ RecPhases'
    BY <1>1, <1>8, <2>1, <2>2 DEF RecInv, RecTyped, LastMuxed, RecPhases
  <2>4. ASSUME NEW s \in Rec!Stream PROVE Kept(s)'
    <3>1. Back(s)' = Back(s) /\ Hand(s)' = Hand(s) /\ (Hand(s) = 1 => held'[s] = held[s])
      BY <1>2, <1>8, RecConstants DEF Back, Hand, Packet
    <3>2. Counted(packets[s], Len(muxed[s]) + Back(s) + Hand(s), accepted[s])'
      BY <1>1, <1>4, <1>8, <3>1 DEF Kept, Counted
    <3> QED BY <1>1, <1>4, <1>8, <2>1, <3>1, <3>2 DEF Kept, Rec!Rescale
  <2>5. NothingLost'
    BY <2>4 DEF NothingLost
  <2> QED BY <1>5, <1>6, <2>3, <2>5 DEF RecInv
<1> DEFINE w == Rec!ToWrite(o)
<1>9. CASE /\ o # Rec!NoPts /\ held' = [s \in Rec!Stream |-> Rec!None]
           /\ previous' = IF Rec!Media("video") = Rec!None THEN previous ELSE Rec!Media("video") - o
  <2>1. o \in Pts /\ o \in Int /\ MaxPts \in Nat /\ Pts = 0..MaxPts
    BY <1>2, <1>9, RecConstants DEF Packet, Pts
  <2> HIDE DEF o
  <2>2. \A p \in Pts : p \in Int /\ p - o \in (-MaxPts)..MaxPts /\ p - o # Rec!None
    BY <2>1, RecConstants
  <2>3. /\ w["video"] = IF Rec!Media("video") = Rec!None THEN Rec!None ELSE previous
        /\ w["audio"] = IF Rec!Media("audio") = Rec!None THEN Rec!None ELSE Rec!Media("audio") - o
        /\ DOMAIN w = Rec!Stream
    BY <1>3 DEF Rec!ToWrite
  <2>4. /\ previous \in ((-MaxPts)..MaxPts) \cup {Rec!None} /\ Rec!None \in Int
        /\ previous' \in ((-MaxPts)..MaxPts) \cup {Rec!None}
    BY <1>2, <1>3, <1>9, <2>1, <2>2, RecConstants DEF RecInv, RecTyped
  <2>5. \A s \in Rec!Stream : w[s] \in Int /\ (w[s] = Rec!None \/ w[s] >= -MaxPts)
    <3>1. w["video"] \in Int /\ (w["video"] = Rec!None \/ w["video"] >= -MaxPts)
      BY <2>1, <2>3, <2>4
    <3>2. w["audio"] \in Int /\ (w["audio"] = Rec!None \/ w["audio"] >= -MaxPts)
      <4>1. CASE Rec!Media("audio") = Rec!None
        BY <4>1, <2>3, <2>4
      <4>2. CASE Rec!Media("audio") # Rec!None
        <5>1. Rec!Media("audio") \in Pts
          BY <4>2, <1>2, <1>3
        <5> QED BY <4>2, <5>1, <2>1, <2>2, <2>3
      <4> QED BY <4>1, <4>2
    <3> QED BY <3>1, <3>2, <1>3
  <2>6. w \in [Rec!Stream -> Int]
    <3>1. w = [s \in Rec!Stream |-> w[s]]
      BY <1>3 DEF Rec!ToWrite
    <3> QED BY <3>1, <2>5
  <2>7. held' \in [Rec!Stream -> Packet \cup {Rec!None}]
    BY <1>9
  <2>8. ptsOrigin' = o /\ ptsOrigin' \in Packet
    BY <1>1, <1>2 DEF o
  <2> HIDE DEF w
  <2>9. CASE Rec!Written(w) /\ recorder' = "wait"
    <3>1. /\ muxed' \in [Rec!Stream -> Seq(Int)] /\ lastPts' \in [Rec!Stream -> Int]
          /\ LastMuxed'
          /\ \A s \in Rec!Stream :
               IF w[s] = Rec!None THEN muxed'[s] = muxed[s]
               ELSE \E x \in Int : x >= Rec!Rescale(w[s]) /\ muxed'[s] = Append(muxed[s], x)
      BY <2>5, <2>6, <2>9, WrittenIncreases
    <3>2. RecTyped'
      BY <1>1, <2>4, <2>7, <2>8, <3>1 DEF RecInv, RecTyped
    <3>3. RecPhases'
      BY <1>1, <1>9, <2>8, <2>9 DEF RecInv, RecPhases, o
    <3>4. ASSUME NEW s \in Rec!Stream PROVE Kept(s)'
      <4>1. Len(muxed[s]) \in Nat /\ Len(accepted[s]) \in Nat /\ muxed[s] \in Seq(Int)
            /\ accepted[s] \in Seq(Pts)
        BY LenProperties DEF RecInv, RecTyped
      <4>2. Back(s) \in {0, 1} /\ Hand(s) \in {0, 1} /\ Hand(s)' = 0
        BY <1>9, RecConstants DEF Back, Hand, Packet
      <4>3. /\ Len(muxed[s]) + Back(s) + Hand(s) <= Len(accepted[s])
            /\ \A i \in 1..Len(muxed[s]) :
                 muxed[s][i] >= Rec!Rescale(accepted[s][i] - ptsOrigin)
            /\ Back(s) = 1 => previous = accepted[s][Len(muxed[s]) + 1] - ptsOrigin
            /\ Hand(s) = 1 => held[s] = accepted[s][Len(muxed[s]) + Back(s) + 1]
            /\ Counted(packets[s], Len(muxed[s]) + Back(s) + Hand(s), accepted[s])
        BY <1>4 DEF Kept
      <4>4. Back(s) = 1 \/ Len(muxed[s]) > 0 => ptsOrigin = o
        <5>1. ptsOrigin = Rec!NoPts => previous = Rec!None /\ muxed[s] = <<>>
          BY DEF RecInv, RecPhases
        <5> QED BY <5>1, <1>2, <4>1 DEF Back, o
      <4>5. Hand(s) = 1 <=> Rec!Media(s) # Rec!None
        BY <1>2, RecConstants DEF Hand, Packet
      <4>6. Hand(s) = 1 => Rec!Media(s) = held[s] /\ held[s] \in Pts
        BY <1>2 DEF Hand
      <4>7. Back(s)' = IF s = "video" /\ Hand(s) = 1 THEN 1 ELSE Back(s)
        BY <1>3, <1>9, <2>2, <4>5, <4>6 DEF Back
      (* One packet is muxed: the one held back, or the audio in hand.     *)
      <4> DEFINE wrote == IF s = "video" THEN Hand(s) = 1 /\ Back(s) = 1 ELSE Hand(s) = 1
      <4>15. s # "video" => Back(s) = 0 /\ Back(s)' = 0
        BY DEF Back
      <4>8. w[s] # Rec!None <=> wrote
        <5>1. CASE s = "video"
          <6>1. Back(s) = 1 <=> previous # Rec!None
            BY <5>1 DEF Back
          <6> QED BY <5>1, <6>1, <2>3, <4>5
        <5>2. CASE s = "audio"
          BY <5>2, <2>2, <2>3, <4>5, <4>6
        <5> QED BY <5>1, <5>2, <1>3
      <4>9. wrote => w[s] = accepted[s][Len(muxed[s]) + 1] - o
        <5>1. CASE s = "video"
          BY <5>1, <2>3, <4>3, <4>4, <4>5
        <5>2. CASE s = "audio"
          <6>1. Back(s) = 0
            BY <5>2 DEF Back
          <6> QED BY <5>2, <6>1, <2>3, <4>1, <4>3, <4>5, <4>6
        <5> QED BY <5>1, <5>2, <1>3
      <4>10. Len(muxed'[s]) + Back(s)' = Len(muxed[s]) + Back(s) + Hand(s)
        <5>1. CASE wrote
          <6>1. PICK x \in Int : muxed'[s] = Append(muxed[s], x)
            BY <5>1, <4>8, <3>1
          <6>2. Len(muxed'[s]) = Len(muxed[s]) + 1
            BY <6>1, <4>1, AppendProperties
          <6> QED BY <5>1, <6>2, <4>1, <4>2, <4>7, <4>15
        <5>2. CASE ~wrote
          <6>1. muxed'[s] = muxed[s]
            BY <5>2, <4>8, <3>1
          <6> QED BY <5>2, <6>1, <4>1, <4>2, <4>7, <4>15
        <5> QED BY <5>1, <5>2
      <4> HIDE DEF wrote
      <4>11. \A i \in 1..Len(muxed'[s]) :
               muxed'[s][i] >= Rec!Rescale(accepted[s][i] - o)
        <5>1. CASE wrote
          <6>1. PICK x \in Int : x >= Rec!Rescale(w[s]) /\ muxed'[s] = Append(muxed[s], x)
            BY <5>1, <4>8, <3>1
          <6>2. /\ Len(muxed'[s]) = Len(muxed[s]) + 1
                /\ \A i \in 1..Len(muxed[s]) : muxed'[s][i] = muxed[s][i]
                /\ muxed'[s][Len(muxed[s]) + 1] = x
            BY <6>1, <4>1, AppendProperties
          <6>3. ASSUME NEW i \in 1..Len(muxed'[s])
                PROVE  muxed'[s][i] >= Rec!Rescale(accepted[s][i] - o)
            <7>1. CASE i = Len(muxed[s]) + 1
              BY <7>1, <6>1, <6>2, <5>1, <4>9
            <7>2. CASE i # Len(muxed[s]) + 1
              <8>1. i \in 1..Len(muxed[s]) /\ Len(muxed[s]) > 0
                BY <7>2, <6>2, <4>1
              <8> QED BY <8>1, <6>2, <4>3, <4>4
            <7> QED BY <7>1, <7>2
          <6> QED BY <6>3
        <5>2. CASE ~wrote
          <6>1. muxed'[s] = muxed[s]
            BY <5>2, <4>8, <3>1
          <6>2. \A i \in 1..Len(muxed[s]) : Len(muxed[s]) > 0
            BY <4>1
          <6> QED BY <6>1, <6>2, <4>3, <4>4
        <5> QED BY <5>1, <5>2
      <4>12. Back(s)' = 1 => previous' = accepted[s][Len(muxed'[s]) + 1] - o
        <5>1. CASE s = "video" /\ Hand(s) = 1
          <6>1. previous' = held[s] - o
            BY <5>1, <1>9, <4>5, <4>6
          <6>2. Len(muxed'[s]) = Len(muxed[s]) + Back(s)
            BY <5>1, <4>1, <4>2, <4>7, <4>10, <3>1, LenProperties
          <6> QED BY <5>1, <6>1, <6>2, <4>3
        <5>2. CASE s = "video" /\ Hand(s) = 0
          <6>1. previous' = previous /\ Back(s)' = Back(s)
            BY <5>2, <1>9, <4>5, <4>7
          <6>2. muxed'[s] = muxed[s]
            BY <5>2, <4>8, <3>1 DEF wrote
          <6> QED BY <6>1, <6>2, <4>3, <4>4
        <5>3. CASE s # "video"
          BY <5>3 DEF Back
        <5> QED BY <5>1, <5>2, <5>3, <4>2
      <4>13. Counted(packets[s], Len(muxed[s]) + Back(s) + Hand(s), accepted[s])'
        <5>1. Len(muxed'[s]) + Back(s)' + Hand(s)' = Len(muxed[s]) + Back(s) + Hand(s)
          <6>1. Len(muxed'[s]) + Back(s)' \in Int
            BY <4>1, <4>2, <4>10
          <6> QED BY <6>1, <4>2, <4>10
        <5>2. Counted(packets'[s], Len(muxed'[s]) + Back(s)' + Hand(s)', accepted'[s])
          BY <5>1, <4>3, <1>1
        <5> QED BY <5>2 DEF Counted
      <4>14. (Len(muxed[s]) + Back(s) + Hand(s) <= Len(accepted[s]))'
        BY <1>1, <4>1, <4>2, <4>3, <4>10
      <4> QED BY <1>1, <2>8, <4>2, <4>11, <4>12, <4>13, <4>14 DEF Kept, Rec!Rescale
    <3>5. NothingLost'
      BY <3>4 DEF NothingLost
    <3> QED BY <1>5, <1>6, <3>1, <3>2, <3>3, <3>5 DEF RecInv
  <2>10. CASE recorder' = "failed" /\ lastPts' = lastPts /\ muxed' = muxed
    <3>1. RecTyped' /\ LastMuxed' /\ NothingLost'
      BY <1>1, <2>4, <2>7, <2>8, <2>10 DEF RecInv, RecTyped, LastMuxed, NothingLost
    <3>2. RecPhases'
      BY <1>1, <1>9, <2>8, <2>10 DEF RecInv, RecPhases, o
    <3> QED BY <1>5, <1>6, <3>1, <3>2 DEF RecInv
  <2> QED BY <1>1, <1>9, <2>9, <2>10 DEF Rec!Process, Rec!NoVideo, o, w
<1> QED BY <1>1, <1>7, <1>8, <1>9 DEF Rec!Process, Rec!NoVideo

(* The last video packet, written or not.                                  *)
LEMMA FinishKeeps ==
  ASSUME RecInv, Rec!Finish
  PROVE  RecInv'
<1>1. /\ recorder = "last" /\ recorder' \in {"complete", "failed"} /\ previous' = Rec!None
      /\ uses' = uses /\ expects' = expects /\ recStopped' = recStopped /\ streams' = streams
      /\ sink' = sink /\ packets' = packets /\ accepted' = accepted /\ outcome' = outcome
      /\ held' = held /\ ptsOrigin' = ptsOrigin
  BY DEF Rec!Finish, Rec!locked
<1>2. Rec!Stream = {"video", "audio"} /\ lastLost = FALSE
  BY <1>1 DEF RecInv, RecTyped, RecPhases, Rec!Stream
<1>3. ASSUME NEW s \in Rec!Stream
      PROVE  /\ Len(muxed[s]) \in Nat /\ Back(s) \in {0, 1} /\ muxed[s] \in Seq(Int)
             /\ Len(muxed[s]) + Back(s) = Len(accepted[s])
             /\ \A i \in 1..Len(muxed[s]) :
                  muxed[s][i] >= Rec!Rescale(accepted[s][i] - ptsOrigin)
             /\ Back(s) = 1 => previous = accepted[s][Len(muxed[s]) + 1] - ptsOrigin
  <2>1. Kept(s) /\ packets[s] = <<>> /\ Hand(s) = 0
    BY <1>1, RecConstants DEF RecInv, NothingLost, RecPhases, Hand, Packet
  <2>2. Len(muxed[s]) \in Nat /\ Back(s) \in {0, 1} /\ muxed[s] \in Seq(Int)
    BY LenProperties DEF RecInv, RecTyped, Back
  <2>3. Counted(<<>>, Len(muxed[s]) + Back(s), accepted[s])
    BY <2>1, <2>2 DEF Kept
  <2> QED BY <2>1, <2>2, <2>3, CountedAll DEF Kept
<1>4. RecStarted' /\ NothingLost' /\ Rec!RecordingComplete'
  BY <1>1 DEF NothingLost, RecInv, RecStarted, RecPhases, Rec!RecordingComplete
<1> DEFINE w == [video |-> previous, audio |-> Rec!None]
<1>5. CASE Rec!Written(w) /\ lastLost' = lastLost
  <2>1. /\ w["video"] = previous /\ w["audio"] = Rec!None
        /\ w = [s \in Rec!Stream |-> w[s]]
    BY <1>2
  <2>2. previous \in Int /\ Rec!None \in Int /\ (previous = Rec!None \/ previous >= -MaxPts)
    BY RecConstants DEF RecInv, RecTyped
  <2> HIDE DEF w
  <2>3. w \in [Rec!Stream -> Int] /\ \A s \in Rec!Stream : w[s] = Rec!None \/ w[s] >= -MaxPts
    BY <1>2, <2>1, <2>2
  <2>4. /\ muxed' \in [Rec!Stream -> Seq(Int)] /\ lastPts' \in [Rec!Stream -> Int]
        /\ LastMuxed'
        /\ \A s \in Rec!Stream :
             IF w[s] = Rec!None THEN muxed'[s] = muxed[s]
             ELSE \E x \in Int : x >= Rec!Rescale(w[s]) /\ muxed'[s] = Append(muxed[s], x)
    BY <1>5, <2>3, WrittenIncreases
  <2>5. RecTyped'
    BY <1>1, <1>5, <2>4 DEF RecInv, RecTyped
  <2>6. ASSUME NEW s \in Rec!Stream PROVE AllMuxed(s)'
    <3>1. (w[s] # Rec!None <=> Back(s) = 1) /\ (Back(s) = 1 => w[s] = previous)
      BY <1>2, <2>1 DEF Back
    <3>2. /\ Len(muxed'[s]) = Len(muxed[s]) + Back(s)
          /\ \A i \in 1..Len(muxed'[s]) :
               muxed'[s][i] >= Rec!Rescale(accepted[s][i] - ptsOrigin)
      <4>1. CASE Back(s) = 1
        <5>1. PICK x \in Int : x >= Rec!Rescale(w[s]) /\ muxed'[s] = Append(muxed[s], x)
          BY <4>1, <3>1, <2>4
        <5>2. /\ Len(muxed'[s]) = Len(muxed[s]) + 1
              /\ \A i \in 1..Len(muxed[s]) : muxed'[s][i] = muxed[s][i]
              /\ muxed'[s][Len(muxed[s]) + 1] = x
          BY <5>1, <1>3, AppendProperties
        <5>3. ASSUME NEW i \in 1..Len(muxed'[s])
              PROVE  muxed'[s][i] >= Rec!Rescale(accepted[s][i] - ptsOrigin)
          <6>1. CASE i = Len(muxed[s]) + 1
            BY <6>1, <5>1, <5>2, <4>1, <1>3, <3>1
          <6>2. CASE i # Len(muxed[s]) + 1
            <7>1. i \in 1..Len(muxed[s])
              BY <6>2, <5>2, <1>3
            <7> QED BY <7>1, <5>2, <1>3
          <6> QED BY <6>1, <6>2
        <5> QED BY <5>2, <5>3, <4>1
      <4>2. CASE Back(s) = 0
        <5>1. muxed'[s] = muxed[s]
          BY <4>2, <3>1, <2>4
        <5> QED BY <4>2, <5>1, <1>3
      <4> QED BY <4>1, <4>2, <1>3
    <3>3. Rec!Unwritten(s)' = 0
      BY <1>2, <1>5 DEF Rec!Unwritten
    <3>4. (Len(muxed[s]) + Rec!Unwritten(s) = Len(accepted[s]))'
      BY <1>1, <1>3, <3>2, <3>3
    <3> QED BY <1>1, <3>2, <3>4 DEF AllMuxed, Rec!Rescale
  <2>7. ASSUME ptsOrigin = Rec!NoPts PROVE \A s \in Rec!Stream : muxed'[s] = <<>>
    <3>1. previous = Rec!None /\ \A s \in Rec!Stream : muxed[s] = <<>>
      BY <2>7 DEF RecInv, RecPhases
    <3> QED BY <3>1, <1>2, <2>1, <2>4
  <2>8. RecPhases'
    BY <1>1, <2>6, <2>7 DEF RecInv, RecPhases
  <2> QED BY <1>4, <2>4, <2>5, <2>8 DEF RecInv
<1>6. CASE previous # Rec!None /\ lastLost' = TRUE /\ muxed' = muxed /\ lastPts' = lastPts
  <2>1. RecTyped' /\ LastMuxed'
    BY <1>1, <1>6 DEF RecInv, RecTyped, LastMuxed
  <2>2. ASSUME NEW s \in Rec!Stream PROVE AllMuxed(s)'
    <3>1. Rec!Unwritten(s)' = Back(s)
      BY <1>6 DEF Rec!Unwritten, Back
    <3> QED BY <1>1, <1>3, <1>6, <3>1 DEF AllMuxed, Rec!Rescale
  <2>3. RecPhases'
    BY <1>1, <1>6, <2>2 DEF RecInv, RecPhases
  <2> QED BY <1>4, <2>1, <2>3 DEF RecInv
<1> QED BY <1>5, <1>6 DEF Rec!Finish

(* Nothing is queued, in hand or held back when a recording is complete.   *)
LEMMA EndKeeps ==
  ASSUME RecInv, Rec!End
  PROVE  RecInv'
<1>1. /\ recorder \in {"complete", "failed"} /\ recorder' = "ended" /\ recStopped' = TRUE
      /\ uses' = uses /\ expects' = expects /\ streams' = streams /\ sink' = sink
      /\ accepted' = accepted /\ previous' = previous /\ ptsOrigin' = ptsOrigin
      /\ lastPts' = lastPts /\ muxed' = muxed /\ lastLost' = lastLost
      /\ packets' = [s \in Rec!Stream |-> <<>>] /\ held' = [s \in Rec!Stream |-> Rec!None]
      /\ outcome' = IF recorder = "complete" THEN "success" ELSE "failure"
  BY DEF Rec!End
<1>2. RecTyped' /\ LastMuxed'
  BY <1>1 DEF RecInv, RecTyped, LastMuxed
<1>3. NothingLost' /\ RecPhases' /\ RecStarted'
  BY <1>1 DEF RecInv, NothingLost, RecPhases, RecStarted
<1>4. \A s \in Rec!Stream : DOMAIN muxed[s] = 1..Len(muxed[s])
  BY LenProperties DEF RecInv, RecTyped
<1>5. Rec!RecordingComplete'
  BY <1>1, <1>4 DEF RecInv, RecPhases, AllMuxed, Rec!RecordingComplete, Rec!Unwritten,
     Rec!Rescale
<1> QED BY <1>2, <1>3, <1>5 DEF RecInv

LEMMA NextRecorder == RecInv /\ [Rec!Next]_(Rec!recVars) => RecInv'
<1> SUFFICES ASSUME RecInv, [Rec!Next]_(Rec!recVars) PROVE RecInv'
  OBVIOUS
<1>1. CASE Rec!Thread
  BY <1>1, OpenFileKeeps, ProcessHeaderKeeps, TakeKeeps, ProcessKeeps, FinishKeeps, EndKeeps
     DEF Rec!Thread
<1>2. CASE Rec!VideoOpen \/ Rec!AudioOpen \/ Rec!AudioDisable
  BY <1>2, RecordOpenKeeps, AudioDisableKeeps
<1>3. CASE Rec!Stop \/ \E s \in Rec!Stream : Rec!Pushed(s) \/ Rec!Close(s)
  BY <1>3, PushKeeps, CloseStopKeeps
<1>4. CASE UNCHANGED Rec!recVars
  <2>1. RecTyped' /\ RecStarted'
    BY <1>4 DEF RecInv, RecTyped, RecStarted, Rec!recVars, Rec!locked, Rec!thread
  <2> QED BY <1>4, <2>1, SinksKeep DEF Rec!recVars, Rec!locked, Rec!thread
<1> QED BY <1>1, <1>2, <1>3, <1>4 DEF Rec!Next

(* The invariant of the recorder holds for every bound of its packets.     *)
THEOREM RecorderInvariance == Rec!Spec => []RecInv
<1>1. Rec!Init => RecInv
  BY InitRecorder
<1>2. RecInv /\ [Rec!Next]_(Rec!recVars) => RecInv'
  BY NextRecorder
<1> QED BY <1>1, <1>2, PTL DEF Rec!Spec

(* A recording reported as complete has every packet accepted, but perhaps *)
(* the last of the video, in order and at timestamps that increase,        *)
(* whatever the packets, their number, the time base of the file and the   *)
(* moment each stream starts, is disabled or ends (recorder.c).            *)
THEOREM RecordingIsFaithful == Rec!Spec => []RecordingFaithful
<1>1. RecInv => RecordingFaithful
  <2>1. ASSUME RecInv PROVE Rec!TimestampsIncrease
    <3>1. \A s \in Rec!Stream : muxed[s] \in Seq(Int) /\ DOMAIN muxed[s] = 1..Len(muxed[s])
      BY <2>1, LenProperties DEF RecInv, RecTyped
    <3> QED BY <2>1, <3>1 DEF RecInv, LastMuxed, Rec!TimestampsIncrease
  <2> QED BY <2>1 DEF RecInv, RecordingFaithful
<1> QED BY <1>1, RecorderInvariance, PTL

-----------------------------------------------------------------------------
(***************************************************************************)
(* The demuxer.  What remains to be opened or pushed is always the end of  *)
(* the list of sinks: Rest.  A sink of the demuxer was given as many items *)
(* as the stream had, or one less if it is the turn of the last.  For the  *)
(* sinks of the decoder there is a rank b, of the last frame the codec     *)
(* returned: up to it they have every frame, or every frame but that one   *)
(* while it is passed on; the packets above it are in the codec.           *)
(***************************************************************************)
Item == [kind : {"session", "config", "media"}, n : Nat, config : Nat]

Rest(rest, all, j) ==
  /\ j \in 1..(Len(all) + 1) /\ Len(rest) = Len(all) + 1 - j
  /\ \A i \in 1..Len(rest) : rest[i] = all[j + i - 1]

DemSetup ==
  /\ merges \in BOOLEAN
  /\ frameSinks \in {<<>>, <<"screen">>, <<"screen", "v4l2">>}
  /\ packetSinks \in {<<"decoder">>, <<"recorder">>, <<"decoder", "recorder">>}
  /\ frameSinks = <<>> <=> packetSinks[1] # "decoder"

DemTyped ==
  /\ demuxer \in {"codec", "session", "open", "receive", "push", "decode", "close", "report",
                  "ended"}
  /\ received \in Seq(Item) /\ got \in [Dem!Sink -> Seq(Item)] /\ decoding \in Seq(Item)
  /\ opening \in Seq(Dem!Sink) /\ pushTo \in Seq(Dem!Sink) /\ passTo \in Seq(Dem!Sink)
  /\ opens \subseteq Dem!Sink /\ opened \subseteq opens
  /\ item \in Item \cup {Dem!Nothing} /\ passed \in Item \cup {Dem!Nothing}
  /\ config \in Nat

SinksOpened ==
  /\ opens \subseteq {Dem!AllSinks[i] : i \in 1..Len(Dem!AllSinks)}
  /\ demuxer \in {"codec", "session"} => opens = {}
  /\ demuxer = "session" => opening = Dem!AllSinks
  /\ demuxer = "open" => \E j \in 1..(Len(Dem!AllSinks) + 1) :
       Rest(opening, Dem!AllSinks, j) /\ opens = {Dem!AllSinks[i] : i \in 1..(j - 1)}
  /\ demuxer \in {"report", "ended"} => opened = {}
  /\ disabled # {} => demuxer \in {"report", "ended"} /\ opens = {}
  /\ closed = [s \in Dem!Sink |-> IF s \in opens \ opened THEN 1 ELSE 0]

Ranked == \A n \in 1..Len(received) : received[n].n = n /\ received[n].config = 0

Merging == merges => config = Dem!ConfigOf(Len(received) + 1)

Given ==
  /\ \A k \in 1..Len(packetSinks) : \A i \in 1..Len(got[packetSinks[k]]) :
       i <= Len(received) /\ got[packetSinks[k]][i] = Dem!Expected[i]
  /\ Len(packetSinks) = 2 => Len(got[packetSinks[2]]) <= Len(got[packetSinks[1]])
  /\ demuxer = "codec" => received = <<>>
  /\ demuxer \in {"codec", "session", "open"} =>
       /\ \A n \in 1..Len(received) : received[n].kind = "session"
       /\ \A s \in Dem!Sink : got[s] = IF s \in opens THEN received ELSE <<>>
  /\ demuxer = "receive" =>
       \A k \in 1..Len(packetSinks) : Len(got[packetSinks[k]]) = Len(received)
  /\ demuxer \in {"push", "decode"} =>
       /\ received # <<>> /\ item = Dem!Expected[Len(received)]
       /\ \E j \in 1..(Len(packetSinks) + 1) :
            /\ Rest(pushTo, packetSinks, j)
            /\ \A k \in 1..Len(packetSinks) :
                 Len(got[packetSinks[k]]) = IF k < j THEN Len(received) ELSE Len(received) - 1

(* The sinks of the decoder: D is what the decoder was given.              *)
D == got["decoder"]

InCodec(b) ==
  /\ \A i \in 1..Len(decoding) :
       /\ decoding[i].n \in Dem!MediaIn("decoder") /\ decoding[i].n > b
       /\ decoding[i] = D[decoding[i].n]
  /\ \A i, j \in 1..Len(decoding) : i < j => decoding[i].n < decoding[j].n
  /\ \A d \in Dem!MediaIn("decoder") : d > b => \E i \in 1..Len(decoding) : decoding[i].n = d

HasFrames(s, c) ==
  /\ \A i, j \in Dem!MediaIn(s) : i < j => got[s][i].n < got[s][j].n
  /\ \A i \in Dem!MediaIn(s) :
       got[s][i].n \in Dem!MediaIn("decoder") /\ got[s][i].n <= c /\ got[s][i] = D[got[s][i].n]
  /\ \A d \in Dem!MediaIn("decoder") : d <= c => \E i \in Dem!MediaIn(s) : got[s][i] = D[d]

Awaits(s) == passed.kind = "media" /\ \E i \in 1..Len(passTo) : passTo[i] = s

FramesUpTo(b) ==
  /\ InCodec(b)
  /\ \A k \in 1..Len(frameSinks) :
       IF Awaits(frameSinks[k])
       THEN HasFrames(frameSinks[k], b - 1) /\ b \in Dem!MediaIn("decoder") /\ passed = D[b]
       ELSE \/ HasFrames(frameSinks[k], b)
            \/ demuxer \in {"close", "report", "ended"} /\ HasFrames(frameSinks[k], b - 1)

FramesPassed ==
  /\ demuxer \in {"push", "decode"} =>
       \E j \in 1..(Len(frameSinks) + 1) : Rest(passTo, frameSinks, j)
  /\ demuxer \notin {"push", "decode"} => passTo = <<>> /\ pushTo = <<>>
  /\ passTo # <<>> => passed \in Item
  /\ demuxer \in {"codec", "session", "open"} => decoding = <<>>
  /\ frameSinks # <<>> => \E b \in 0..Len(D) : FramesUpTo(b)

DemInv ==
  DemSetup /\ DemTyped /\ SinksOpened /\ Ranked /\ Merging /\ Given /\ FramesPassed

LEMMA SinksNamed ==
  ASSUME DemSetup
  PROVE  /\ frameSinks \in Seq(Dem!Sink) /\ packetSinks \in Seq(Dem!Sink)
         /\ Dem!AllSinks \in Seq(Dem!Sink)
         /\ Len(frameSinks) \in 0..2 /\ Len(packetSinks) \in 1..2
         /\ Len(Dem!AllSinks) = Len(frameSinks) + Len(packetSinks)
         /\ \A k \in 1..Len(frameSinks) :
              /\ Dem!AllSinks[k] = frameSinks[k] /\ frameSinks[k] \in {"screen", "v4l2"}
              /\ \A l \in 1..Len(frameSinks) : k # l => frameSinks[k] # frameSinks[l]
         /\ \A k \in 1..Len(packetSinks) :
              /\ Dem!AllSinks[Len(frameSinks) + k] = packetSinks[k]
              /\ packetSinks[k] \in {"decoder", "recorder"}
              /\ \A l \in 1..Len(packetSinks) : k # l => packetSinks[k] # packetSinks[l]
         /\ frameSinks # <<>> => packetSinks[1] = "decoder"
         /\ \A k \in 1..Len(packetSinks) : packetSinks[k] = "decoder" => k = 1
<1>1. /\ frameSinks \in Seq(Dem!Sink) /\ Len(frameSinks) \in 0..2
      /\ \A k \in 1..Len(frameSinks) :
           /\ frameSinks[k] \in {"screen", "v4l2"}
           /\ \A l \in 1..Len(frameSinks) : k # l => frameSinks[k] # frameSinks[l]
  <2>1. CASE frameSinks = <<>>
    BY <2>1
  <2>2. CASE frameSinks = <<"screen">>
    BY <2>2 DEF Dem!Sink
  <2>3. CASE frameSinks = <<"screen", "v4l2">>
    BY <2>3 DEF Dem!Sink
  <2> QED BY <2>1, <2>2, <2>3 DEF DemSetup
<1>2. /\ packetSinks \in Seq(Dem!Sink) /\ Len(packetSinks) \in 1..2
      /\ \A k \in 1..Len(packetSinks) :
           /\ packetSinks[k] \in {"decoder", "recorder"}
           /\ packetSinks[k] = "decoder" => k = 1
           /\ \A l \in 1..Len(packetSinks) : k # l => packetSinks[k] # packetSinks[l]
  <2>1. CASE packetSinks = <<"decoder">>
    BY <2>1 DEF Dem!Sink
  <2>2. CASE packetSinks = <<"recorder">>
    BY <2>2 DEF Dem!Sink
  <2>3. CASE packetSinks = <<"decoder", "recorder">>
    BY <2>3 DEF Dem!Sink
  <2> QED BY <2>1, <2>2, <2>3 DEF DemSetup
<1>3. /\ Dem!AllSinks \in Seq(Dem!Sink)
      /\ Len(Dem!AllSinks) = Len(frameSinks) + Len(packetSinks)
      /\ \A i \in 1..(Len(frameSinks) + Len(packetSinks)) :
           Dem!AllSinks[i] = IF i <= Len(frameSinks) THEN frameSinks[i]
                             ELSE packetSinks[i - Len(frameSinks)]
  BY <1>1, <1>2, ConcatProperties DEF Dem!AllSinks
<1>4. ASSUME NEW k \in 1..Len(packetSinks)
      PROVE  Dem!AllSinks[Len(frameSinks) + k] = packetSinks[k]
  <2>1. /\ Len(frameSinks) + k \in 1..(Len(frameSinks) + Len(packetSinks))
        /\ ~(Len(frameSinks) + k <= Len(frameSinks)) /\ (Len(frameSinks) + k) - Len(frameSinks) = k
    BY <1>1, <1>2
  <2> QED BY <2>1, <1>3
<1>5. \A k \in 1..Len(frameSinks) : Dem!AllSinks[k] = frameSinks[k]
  BY <1>1, <1>2, <1>3
<1>6. frameSinks # <<>> => packetSinks[1] = "decoder"
  BY DEF DemSetup
<1> QED BY <1>1, <1>2, <1>3, <1>4, <1>5, <1>6

LEMMA SinksDiffer ==
  ASSUME DemSetup, NEW i \in 1..Len(Dem!AllSinks), NEW j \in 1..Len(Dem!AllSinks), i # j
  PROVE  Dem!AllSinks[i] # Dem!AllSinks[j]
<1> DEFINE f == Len(frameSinks)
<1>1. \A k \in 1..Len(Dem!AllSinks) :
        \/ k \in 1..f /\ Dem!AllSinks[k] = frameSinks[k] /\ frameSinks[k] \in {"screen", "v4l2"}
        \/ /\ k - f \in 1..Len(packetSinks) /\ Dem!AllSinks[k] = packetSinks[k - f]
           /\ packetSinks[k - f] \in {"decoder", "recorder"}
  <2> TAKE k \in 1..Len(Dem!AllSinks)
  <2>1. CASE k <= f
    BY <2>1, SinksNamed
  <2>2. CASE k > f
    <3>1. k - f \in 1..Len(packetSinks) /\ f + (k - f) = k
      BY <2>2, SinksNamed
    <3> QED BY <3>1, SinksNamed
  <2> QED BY <2>1, <2>2, SinksNamed
<1>2. f \in Nat /\ i \in Int /\ j \in Int /\ i - f # j - f
  BY SinksNamed
<1>3. CASE i \in 1..f /\ j \in 1..f
  BY <1>3, SinksNamed
<1>4. CASE i \in 1..f /\ j \notin 1..f
  BY <1>4, <1>1
<1>5. CASE i \notin 1..f /\ j \in 1..f
  BY <1>5, <1>1
<1>6. CASE i \notin 1..f /\ j \notin 1..f
  <2>1. /\ i - f \in 1..Len(packetSinks) /\ Dem!AllSinks[i] = packetSinks[i - f]
        /\ j - f \in 1..Len(packetSinks) /\ Dem!AllSinks[j] = packetSinks[j - f]
    BY <1>1, <1>6
  <2> HIDE DEF f
  <2> QED BY <2>1, <1>2, SinksNamed
<1> QED BY <1>3, <1>4, <1>5, <1>6

LEMMA RestTail ==
  ASSUME NEW S, NEW rest \in Seq(S), NEW all \in Seq(S), NEW j, Rest(rest, all, j), rest # <<>>
  PROVE  /\ j \in 1..Len(all) /\ Head(rest) = all[j] /\ Head(rest) \in S /\ Tail(rest) \in Seq(S)
         /\ Rest(Tail(rest), all, j + 1)
<1>1. Len(rest) \in Nat \ {0} /\ Len(all) \in Nat /\ j \in Int
  BY EmptySeq, LenProperties DEF Rest
<1>2. /\ Head(rest) = rest[1] /\ Tail(rest) \in Seq(S) /\ Len(Tail(rest)) = Len(rest) - 1
      /\ \A i \in 1..Len(Tail(rest)) : Tail(rest)[i] = rest[i + 1]
  BY <1>1, HeadTailProperties
<1>3. j \in 1..Len(all) /\ Head(rest) = all[j]
  <2>1. rest[1] = all[j + 1 - 1] /\ j + 1 - 1 = j
    BY <1>1 DEF Rest
  <2> QED BY <2>1, <1>1, <1>2 DEF Rest
<1>4. all[j] \in S
  BY <1>3, ElementOfSeq
<1>5. Rest(Tail(rest), all, j + 1)
  <2>1. ASSUME NEW i \in 1..Len(Tail(rest)) PROVE Tail(rest)[i] = all[(j + 1) + i - 1]
    <3>1. i + 1 \in 1..Len(rest) /\ j + (i + 1) - 1 = (j + 1) + i - 1
      BY <1>1, <1>2
    <3> QED BY <3>1, <1>2 DEF Rest
  <2>2. j + 1 \in 1..(Len(all) + 1) /\ Len(Tail(rest)) = Len(all) + 1 - (j + 1)
    BY <1>1, <1>2, <1>3 DEF Rest
  <2> QED BY <2>1, <2>2 DEF Rest
<1> QED BY <1>2, <1>3, <1>4, <1>5

LEMMA RestWhole ==
  ASSUME NEW S, NEW all \in Seq(S)
  PROVE  Rest(all, all, 1)
BY LenProperties DEF Rest

LEMMA RestNone ==
  ASSUME NEW S, NEW all \in Seq(S), NEW j, Rest(<<>>, all, j)
  PROVE  j = Len(all) + 1
BY LenProperties DEF Rest

(* What is expected of the items received does not change.                 *)
LEMMA SameStream ==
  ASSUME received' = received, merges' = merges
  PROVE  /\ \A n \in 1..(Len(received) + 1) : Dem!ConfigOf(n)' = Dem!ConfigOf(n)
         /\ Dem!Expected' = Dem!Expected
BY DEF Dem!ConfigOf, Dem!Expected, Dem!Max

LEMMA ItemsExpected ==
  ASSUME DemTyped, Ranked
  PROVE  /\ Len(received) \in Nat /\ DOMAIN received = 1..Len(received)
         /\ \A n \in 1..Len(received) :
              /\ received[n] \in Item
              /\ Dem!Expected[n] =
                   IF received[n].kind = "media"
                   THEN [received[n] EXCEPT !.config = Dem!ConfigOf(n)] ELSE received[n]
              /\ Dem!Expected[n].n = n /\ Dem!Expected[n].kind = received[n].kind
<1>1. Len(received) \in Nat /\ DOMAIN received = 1..Len(received)
  BY LenProperties DEF DemTyped
<1>2. \A n \in 1..Len(received) : received[n] \in Item /\ received[n].n = n
  BY <1>1, ElementOfSeq DEF DemTyped, Ranked
<1>3. \A n \in 1..Len(received) : Dem!Expected[n] =
        IF received[n].kind = "media" THEN [received[n] EXCEPT !.config = Dem!ConfigOf(n)]
        ELSE received[n]
  BY <1>1 DEF Dem!Expected
<1>4. \A n \in 1..Len(received) : Dem!Expected[n].n = n /\ Dem!Expected[n].kind = received[n].kind
  BY <1>2, <1>3 DEF Item
<1> QED BY <1>1, <1>2, <1>3, <1>4

LEMMA InitDemuxer == Dem!Init => DemInv
<1> SUFFICES ASSUME Dem!Init PROVE DemInv
  OBVIOUS
<1>1. DemSetup
  BY DEF Dem!Init, DemSetup
<1>2. DemTyped
  BY DEF Dem!Init, DemTyped
<1>3. SinksOpened
  BY DEF Dem!Init, SinksOpened
<1>4. Ranked /\ Merging
  <2>1. ~\E m \in 1..((0 + 1) - 1) : TRUE
    OBVIOUS
  <2>2. Dem!ConfigOf(0 + 1) = 0
    BY <2>1 DEF Dem!ConfigOf
  <2> QED BY <2>2 DEF Dem!Init, Ranked, Merging
<1>5. \A s \in Dem!Sink : got[s] = <<>> /\ Len(got[s]) = 0
  BY DEF Dem!Init
<1>6. \A k \in 1..Len(packetSinks) : packetSinks[k] \in Dem!Sink
  BY <1>1, SinksNamed DEF Dem!Sink
<1>7. Given
  <2>1. Len(packetSinks) = 2 => Len(got[packetSinks[2]]) = 0 /\ Len(got[packetSinks[1]]) = 0
    BY <1>1, <1>5, <1>6
  <2>2. \A k \in 1..Len(packetSinks) : Len(got[packetSinks[k]]) = 0
    BY <1>5, <1>6
  <2>3. received = <<>> /\ Len(received) = 0 /\ demuxer = "codec"
    BY DEF Dem!Init
  <2> QED BY <1>5, <2>1, <2>2, <2>3 DEF Given
<1>8. FramesPassed
  <2>1. \A s \in Dem!Sink : Dem!MediaIn(s) = {}
    BY <1>5 DEF Dem!MediaIn
  <2>2. \A k \in 1..Len(frameSinks) : frameSinks[k] \in Dem!Sink
    BY <1>1, SinksNamed DEF Dem!Sink
  <2>3. decoding = <<>> /\ Len(decoding) = 0 /\ passTo = <<>> /\ Len(passTo) = 0 /\ pushTo = <<>>
        /\ demuxer = "codec" /\ "decoder" \in Dem!Sink
    BY DEF Dem!Init, Dem!Sink
  <2>4. FramesUpTo(0)
    BY <2>1, <2>2, <2>3 DEF FramesUpTo, InCodec, HasFrames, Awaits
  <2>5. 0 \in 0..Len(D)
    BY <1>5, <2>3 DEF D
  <2> QED BY <2>3, <2>4, <2>5 DEF FramesPassed
<1> QED BY <1>1, <1>2, <1>3, <1>4, <1>7, <1>8 DEF DemInv

(* A step that ends the stream, or closes a sink: nothing is given.        *)
LEMMA QuietKeeps ==
  ASSUME DemInv, UNCHANGED Dem!setup, config' = config, decoding' = decoding, item' = item,
         passed' = passed, received' = received, got' = got,
         demuxer' \in {"close", "report", "ended"}, pushTo' = <<>>, passTo' = <<>>
  PROVE  DemSetup' /\ Ranked' /\ Merging' /\ Given' /\ FramesPassed'
<1>1. /\ merges' = merges /\ frameSinks' = frameSinks /\ packetSinks' = packetSinks
      /\ \A n \in 1..(Len(received) + 1) : Dem!ConfigOf(n)' = Dem!ConfigOf(n)
      /\ Dem!Expected' = Dem!Expected
  BY SameStream DEF Dem!setup
<1>2. DemSetup' /\ Ranked'
  BY <1>1 DEF DemInv, DemSetup, Ranked
<1>3. Merging'
  <2>1. Len(received) \in Nat
    BY LenProperties DEF DemInv, DemTyped
  <2>2. Dem!ConfigOf(Len(received) + 1)' = Dem!ConfigOf(Len(received) + 1)
    BY <2>1, <1>1
  <2> QED BY <1>1, <2>2 DEF DemInv, Merging
<1>4. Given'
  BY <1>1 DEF DemInv, Given
<1>5. FramesPassed'
  <2>1. ASSUME frameSinks # <<>>, NEW b \in 0..Len(D), FramesUpTo(b) PROVE FramesUpTo(b)'
    <3>1. InCodec(b)'
      BY <2>1 DEF FramesUpTo, InCodec, Dem!MediaIn, D
    <3>2. \A s, c : HasFrames(s, c) => HasFrames(s, c)'
      BY DEF HasFrames, Dem!MediaIn, D
    <3>3. \A s : ~Awaits(s)'
      BY DEF Awaits
    <3> QED BY <1>1, <2>1, <3>1, <3>2, <3>3 DEF FramesUpTo
  <2> QED BY <1>1, <2>1 DEF DemInv, FramesPassed, D
<1> QED BY <1>2, <1>3, <1>4, <1>5

LEMMA OpeningKeepsFrames ==
  ASSUME DemInv, frameSinks' = frameSinks, got' = got, decoding' = decoding,
         demuxer \in {"codec", "session", "open"}, demuxer' \in {"session", "open", "receive"},
         passTo' = passTo, pushTo' = pushTo
  PROVE  FramesPassed'
<1>1. passTo = <<>> /\ pushTo = <<>>
  BY DEF DemInv, FramesPassed
<1>2. ASSUME frameSinks # <<>>, NEW b \in 0..Len(D), FramesUpTo(b) PROVE FramesUpTo(b)'
  <2>1. InCodec(b)'
    BY <1>2 DEF FramesUpTo, InCodec, Dem!MediaIn, D
  <2>2. \A s, c : HasFrames(s, c) => HasFrames(s, c)'
    BY DEF HasFrames, Dem!MediaIn, D
  <2>3. \A s : ~Awaits(s)' /\ ~Awaits(s)
    BY <1>1 DEF Awaits
  <2> QED BY <1>2, <2>1, <2>2, <2>3 DEF FramesUpTo
<1> QED BY <1>1, <1>2 DEF DemInv, FramesPassed, D

LEMMA CodecIdKeeps ==
  ASSUME DemInv, Dem!CodecId
  PROVE  DemInv'
<1>1. /\ demuxer = "codec" /\ UNCHANGED Dem!setup /\ config' = config /\ decoding' = decoding
      /\ item' = item /\ passed' = passed /\ passTo' = passTo /\ pushTo' = pushTo
      /\ opened' = opened /\ opens' = opens /\ closed' = closed /\ got' = got
      /\ received' = received
  BY DEF Dem!CodecId, Dem!pushState
<1>2. /\ merges' = merges /\ frameSinks' = frameSinks /\ packetSinks' = packetSinks
      /\ \A n \in 1..(Len(received) + 1) : Dem!ConfigOf(n)' = Dem!ConfigOf(n)
      /\ Dem!Expected' = Dem!Expected
  BY <1>1, SameStream DEF Dem!setup
<1>3. /\ opens = {} /\ disabled = {} /\ received = <<>> /\ pushTo = <<>> /\ passTo = <<>>
      /\ DemSetup
  BY <1>1 DEF DemInv, SinksOpened, Given, FramesPassed
<1>4. CASE demuxer' = "report" /\ opening' = opening
  <2>1. DemSetup' /\ Ranked' /\ Merging' /\ Given' /\ FramesPassed'
    BY <1>1, <1>3, <1>4, QuietKeeps
  <2>2. DemTyped' /\ SinksOpened'
    BY <1>1, <1>3, <1>4 DEF DemInv, DemTyped, SinksOpened, Dem!setup, Dem!AllSinks
  <2> QED BY <2>1, <2>2 DEF DemInv
<1>5. CASE /\ demuxer' = (IF codecType = "video" THEN "session" ELSE "open")
           /\ opening' = Dem!AllSinks /\ UNCHANGED <<disabled, status>>
  <2>1. Dem!AllSinks' = Dem!AllSinks /\ Dem!AllSinks \in Seq(Dem!Sink)
    BY <1>2, <1>3, SinksNamed DEF Dem!AllSinks
  <2>2. DemTyped'
    BY <1>1, <1>5, <2>1 DEF DemInv, DemTyped
  <2>3. SinksOpened'
    <3>1. Rest(opening', Dem!AllSinks', 1) /\ 1 \in 1..(Len(Dem!AllSinks) + 1)
      BY <1>5, <2>1, RestWhole, LenProperties
    <3>2. opens' = {Dem!AllSinks'[i] : i \in 1..(1 - 1)}
      BY <1>1, <1>3
    <3> QED BY <1>1, <1>3, <1>5, <2>1, <3>1, <3>2 DEF DemInv, SinksOpened
  <2>4. DemSetup' /\ Ranked'
    BY <1>1, <1>2 DEF DemInv, DemSetup, Ranked
  <2>5. Merging'
    BY <1>1, <1>2, <1>3 DEF DemInv, Merging
  <2>6. Given'
    BY <1>1, <1>2, <1>3, <1>5 DEF DemInv, Given
  <2>7. FramesPassed'
    BY <1>1, <1>2, <1>3, <1>5, OpeningKeepsFrames
  <2> QED BY <2>2, <2>3, <2>4, <2>5, <2>6, <2>7 DEF DemInv
<1> QED BY <1>4, <1>5 DEF Dem!CodecId, Dem!Finish

LEMMA FirstSessionKeeps ==
  ASSUME DemInv, Dem!FirstSession
  PROVE  DemInv'
<1>1. /\ demuxer = "session" /\ UNCHANGED Dem!setup /\ config' = config /\ decoding' = decoding
      /\ item' = item /\ passed' = passed /\ passTo' = passTo /\ pushTo' = pushTo
      /\ opened' = opened /\ opens' = opens /\ closed' = closed /\ got' = got
      /\ opening' = opening /\ disabled' = disabled
  BY DEF Dem!FirstSession, Dem!pushState
<1>2. /\ opens = {} /\ disabled = {} /\ pushTo = <<>> /\ passTo = <<>> /\ DemSetup
      /\ opening = Dem!AllSinks /\ \A s \in Dem!Sink : got[s] = <<>>
  BY <1>1 DEF DemInv, SinksOpened, Given, FramesPassed
<1>3. CASE demuxer' = "report" /\ received' = received
  <2>1. DemSetup' /\ Ranked' /\ Merging' /\ Given' /\ FramesPassed'
    BY <1>1, <1>2, <1>3, QuietKeeps
  <2>2. DemTyped' /\ SinksOpened'
    BY <1>1, <1>2, <1>3 DEF DemInv, DemTyped, SinksOpened, Dem!setup, Dem!AllSinks
  <2> QED BY <2>1, <2>2 DEF DemInv
<1>4. CASE demuxer' = "open" /\ received' = <<[kind |-> "session", n |-> 1, config |-> 0]>>
  <2>1. /\ merges' = merges /\ frameSinks' = frameSinks /\ packetSinks' = packetSinks
        /\ Dem!AllSinks' = Dem!AllSinks /\ Dem!AllSinks \in Seq(Dem!Sink)
    BY <1>1, <1>2, SinksNamed DEF Dem!setup, Dem!AllSinks
  <2>2. /\ Len(received') = 1 /\ received'[1].kind = "session" /\ received'[1].n = 1
        /\ received'[1].config = 0 /\ received' \in Seq(Item)
    BY <1>4 DEF Item
  <2>3. DemTyped'
    BY <1>1, <1>4, <2>2 DEF DemInv, DemTyped
  <2>4. SinksOpened'
    <3>1. Rest(opening', Dem!AllSinks', 1) /\ 1 \in 1..(Len(Dem!AllSinks) + 1)
      BY <1>1, <1>2, <2>1, RestWhole, LenProperties
    <3>2. opens' = {Dem!AllSinks'[i] : i \in 1..(1 - 1)}
      BY <1>1, <1>2
    <3> QED BY <1>1, <1>2, <1>4, <2>1, <3>1, <3>2 DEF DemInv, SinksOpened
  <2>5. DemSetup' /\ Ranked'
    BY <2>1, <2>2 DEF DemInv, DemSetup, Ranked
  <2>6. Merging'
    <3>1. ~\E m \in 1..((Len(received') + 1) - 1) : received'[m].kind # "session"
      BY <2>2
    <3>2. Dem!ConfigOf(Len(received) + 1)' = 0
      BY <3>1 DEF Dem!ConfigOf
    <3>3. Len(received) \in Nat
      BY LenProperties DEF DemInv, DemTyped
    <3>4. ~\E m \in 1..((Len(received) + 1) - 1) : received[m].kind # "session"
      BY <1>1, <3>3 DEF DemInv, Given
    <3>5. Dem!ConfigOf(Len(received) + 1) = 0
      BY <3>4 DEF Dem!ConfigOf
    <3> QED BY <1>1, <2>1, <3>2, <3>5 DEF DemInv, Merging
  <2>7. Given'
    <3>1. \A k \in 1..Len(packetSinks) : got[packetSinks[k]] = <<>> /\ Len(got[packetSinks[k]]) = 0
      BY <1>2, SinksNamed DEF Dem!Sink
    <3> QED BY <1>1, <1>2, <1>4, <2>1, <2>2, <3>1, SinksNamed DEF Given
  <2>8. FramesPassed'
    BY <1>1, <1>4, <2>1, OpeningKeepsFrames
  <2> QED BY <2>3, <2>4, <2>5, <2>6, <2>7, <2>8 DEF DemInv
<1> QED BY <1>3, <1>4 DEF Dem!FirstSession, Dem!Finish

LEMMA OpenSinkKeeps ==
  ASSUME DemInv, Dem!OpenSink
  PROVE  DemInv'
<1> DEFINE s == Head(opening)  all == Dem!AllSinks
<1>1. /\ demuxer = "open" /\ opening # <<>> /\ UNCHANGED Dem!setup /\ config' = config
      /\ decoding' = decoding /\ item' = item /\ passed' = passed /\ passTo' = passTo
      /\ pushTo' = pushTo /\ closed' = closed /\ received' = received /\ disabled' = disabled
  BY DEF Dem!OpenSink, Dem!pushState
<1>2. /\ disabled = {} /\ pushTo = <<>> /\ passTo = <<>> /\ DemSetup /\ decoding = <<>>
      /\ opening \in Seq(Dem!Sink) /\ received \in Seq(Item)
      /\ \A n \in 1..Len(received) : received[n].kind = "session"
      /\ \A t \in Dem!Sink : got[t] = IF t \in opens THEN received ELSE <<>>
  BY <1>1 DEF DemInv, DemTyped, SinksOpened, Given, FramesPassed
<1>3. CASE demuxer' = "close" /\ opening' = <<>> /\ UNCHANGED <<opened, opens, got>>
  <2>1. DemSetup' /\ Ranked' /\ Merging' /\ Given' /\ FramesPassed'
    BY <1>1, <1>2, <1>3, QuietKeeps
  <2>2. DemTyped' /\ SinksOpened'
    BY <1>1, <1>2, <1>3 DEF DemInv, DemTyped, SinksOpened, Dem!setup, Dem!AllSinks
  <2> QED BY <2>1, <2>2 DEF DemInv
<1>4. CASE /\ opened' = opened \cup {s} /\ opens' = opens \cup {s}
           /\ got' = [got EXCEPT ![s] = received] /\ opening' = Tail(opening)
           /\ demuxer' = demuxer
  <2>1. /\ merges' = merges /\ frameSinks' = frameSinks /\ packetSinks' = packetSinks
        /\ Dem!AllSinks' = all /\ all \in Seq(Dem!Sink) /\ Dem!Expected' = Dem!Expected
        /\ \A n \in 1..(Len(received) + 1) : Dem!ConfigOf(n)' = Dem!ConfigOf(n)
    BY <1>1, <1>2, SinksNamed, SameStream DEF Dem!setup, Dem!AllSinks
  <2>2. PICK j \in 1..(Len(all) + 1) :
          Rest(opening, all, j) /\ opens = {all[i] : i \in 1..(j - 1)}
    BY <1>1 DEF DemInv, SinksOpened
  <2> HIDE DEF all
  <2>3. /\ j \in 1..Len(all) /\ s = all[j] /\ s \in Dem!Sink
        /\ Tail(opening) \in Seq(Dem!Sink) /\ Rest(Tail(opening), all, j + 1)
    BY <1>1, <1>2, <2>1, <2>2, RestTail
  <2> HIDE DEF s
  <2>4. opens' = {all[i] : i \in 1..((j + 1) - 1)} /\ Len(all) \in Nat
    <3>1. Len(all) \in Nat
      BY <2>1, LenProperties
    <3> QED BY <3>1, <1>4, <2>2, <2>3
  <2>5. s \notin opens
    <3>1. ASSUME NEW i \in 1..(j - 1) PROVE all[i] # all[j]
      BY <2>3, <2>4, <1>2, SinksDiffer DEF all
    <3> QED BY <3>1, <2>2, <2>3
  <2>6. \A t \in Dem!Sink : got'[t] = IF t \in opens' THEN received ELSE <<>>
    BY <1>2, <1>4, <2>3 DEF DemInv, DemTyped
  <2>7. DemTyped'
    <3>1. got' \in [Dem!Sink -> Seq(Item)]
      BY <1>2, <1>4, <2>3 DEF DemInv, DemTyped
    <3> QED BY <1>1, <1>4, <2>3, <3>1 DEF DemInv, DemTyped
  <2>8. SinksOpened'
    <3>1. opens' \ opened' = opens \ opened
      BY <1>4, <2>5 DEF DemInv, DemTyped
    <3>2. j + 1 \in 1..(Len(all) + 1)
      BY <2>3, <2>4
    <3>3. \E i \in 1..(Len(all) + 1) :
            Rest(opening', all, i) /\ opens' = {all[l] : l \in 1..(i - 1)}
      BY <1>4, <2>3, <2>4, <3>2
    <3>4. closed' = [t \in Dem!Sink |-> IF t \in opens' \ opened' THEN 1 ELSE 0]
      BY <1>1, <3>1 DEF DemInv, SinksOpened
    <3>5. opens' \subseteq {all[i] : i \in 1..Len(all)}
      BY <1>4, <2>3 DEF DemInv, SinksOpened, all
    <3>6. demuxer' = "open" /\ disabled' = {} /\ Dem!AllSinks' = all
      BY <1>1, <1>2, <1>4, <2>1
    <3>7. \E i \in 1..(Len(Dem!AllSinks') + 1) :
            Rest(opening', Dem!AllSinks', i) /\ opens' = {Dem!AllSinks'[l] : l \in 1..(i - 1)}
      BY <3>3, <3>6
    <3>8. opens' \subseteq {Dem!AllSinks'[i] : i \in 1..Len(Dem!AllSinks')}
      BY <3>5, <3>6
    <3> QED BY <3>4, <3>6, <3>7, <3>8 DEF SinksOpened
  <2>9. DemSetup' /\ Ranked'
    BY <1>1, <2>1 DEF DemInv, DemSetup, Ranked
  <2>10. Merging'
    <3>1. Len(received) \in Nat
      BY <1>2, LenProperties
    <3>2. Dem!ConfigOf(Len(received) + 1)' = Dem!ConfigOf(Len(received) + 1)
      BY <1>1, <2>1, <3>1
    <3> QED BY <1>1, <2>1, <3>2 DEF DemInv, Merging
  <2>11. Given'
    <3>1. \A n \in 1..Len(received) : Dem!Expected[n] = received[n]
      BY <1>2, ItemsExpected DEF DemInv
    <3>2. ASSUME NEW k \in 1..Len(packetSinks)
          PROVE  \A i \in 1..Len(got'[packetSinks[k]]) :
                   i <= Len(received) /\ got'[packetSinks[k]][i] = Dem!Expected[i]
      <4>1. packetSinks[k] \in Dem!Sink
        BY <1>2, SinksNamed DEF Dem!Sink
      <4>2. got'[packetSinks[k]] = received \/ got'[packetSinks[k]] = <<>>
        BY <2>6, <4>1
      <4>3. Len(received) \in Nat
        BY <1>2, LenProperties
      <4> QED BY <4>2, <4>3, <3>1
    <3>3. ASSUME Len(packetSinks) = 2
          PROVE  Len(got'[packetSinks[2]]) <= Len(got'[packetSinks[1]])
      <4> DEFINE f == Len(frameSinks)
      <4>1. /\ packetSinks[1] \in Dem!Sink /\ packetSinks[2] \in Dem!Sink
            /\ packetSinks[1] = all[f + 1] /\ packetSinks[2] = all[f + 2]
            /\ f \in Nat /\ Len(all) = f + 2
        BY <1>2, <3>3, SinksNamed DEF Dem!Sink, all
      <4>2. packetSinks[2] \in opens' => packetSinks[1] \in opens'
        <5>1. ASSUME packetSinks[2] \in opens' PROVE packetSinks[1] \in opens'
          <6>1. PICK i \in 1..((j + 1) - 1) : all[f + 2] = all[i]
            BY <4>1, <5>1, <2>4
          <6>2. i \in 1..Len(all) /\ f + 2 \in 1..Len(all)
            BY <2>3, <2>4, <4>1, <6>1
          <6>3. i = f + 2
            BY <6>1, <6>2, <1>2, SinksDiffer DEF all
          <6>4. f + 1 \in 1..((j + 1) - 1)
            BY <6>1, <6>3, <4>1, <2>3
          <6> QED BY <4>1, <6>4, <2>4
        <5> QED BY <5>1
      <4>3. Len(received) \in Nat /\ Len(<<>>) = 0
        BY <1>2, LenProperties
      <4> QED BY <2>6, <4>1, <4>2, <4>3
    <3> QED BY <1>1, <1>2, <1>4, <2>1, <2>6, <3>2, <3>3 DEF Given
  <2>12. FramesPassed'
    <3>1. ASSUME NEW t \in Dem!Sink PROVE Dem!MediaIn(t)' = {}
      <4>1. got'[t] = received \/ got'[t] = <<>>
        BY <2>6
      <4> QED BY <4>1, <1>2, LenProperties DEF Dem!MediaIn
    <3>2. \A k \in 1..Len(frameSinks) : frameSinks[k] \in Dem!Sink
      BY <1>2, SinksNamed DEF Dem!Sink
    <3>3. Len(decoding) = 0 /\ "decoder" \in Dem!Sink /\ Len(passTo) = 0
      BY <1>2 DEF Dem!Sink
    <3>4. FramesUpTo(0)'
      BY <1>1, <2>1, <3>1, <3>2, <3>3 DEF FramesUpTo, InCodec, HasFrames, Awaits
    <3>5. 0 \in 0..Len(D')
      BY <2>7, <3>3, LenProperties DEF DemTyped, D
    <3> QED BY <1>1, <1>2, <1>4, <3>4, <3>5 DEF FramesPassed
  <2> QED BY <2>7, <2>8, <2>9, <2>10, <2>11, <2>12 DEF DemInv
<1> QED BY <1>3, <1>4 DEF Dem!OpenSink

LEMMA OpenedKeeps ==
  ASSUME DemInv, Dem!Opened
  PROVE  DemInv'
<1>1. /\ demuxer = "open" /\ opening = <<>> /\ UNCHANGED Dem!setup /\ config' = config
      /\ decoding' = decoding /\ item' = item /\ passed' = passed /\ passTo' = passTo
      /\ pushTo' = pushTo /\ closed' = closed /\ received' = received /\ disabled' = disabled
      /\ got' = got /\ opened' = opened /\ opens' = opens /\ opening' = opening
  BY DEF Dem!Opened, Dem!pushState
<1>2. /\ disabled = {} /\ pushTo = <<>> /\ passTo = <<>> /\ DemSetup
      /\ \A t \in Dem!Sink : got[t] = IF t \in opens THEN received ELSE <<>>
  BY <1>1 DEF DemInv, SinksOpened, Given, FramesPassed
<1>3. CASE demuxer' = "close"
  <2>1. DemSetup' /\ Ranked' /\ Merging' /\ Given' /\ FramesPassed'
    BY <1>1, <1>2, <1>3, QuietKeeps
  <2>2. DemTyped'
    BY <1>1, <1>2, <1>3 DEF DemInv, DemTyped
  <2>3. SinksOpened'
    BY <1>1, <1>2, <1>3 DEF DemInv, SinksOpened, Dem!setup, Dem!AllSinks
  <2> QED BY <2>1, <2>2, <2>3 DEF DemInv
<1>4. CASE demuxer' = "receive"
  <2>1. /\ merges' = merges /\ frameSinks' = frameSinks /\ packetSinks' = packetSinks
        /\ Dem!Expected' = Dem!Expected
        /\ \A n \in 1..(Len(received) + 1) : Dem!ConfigOf(n)' = Dem!ConfigOf(n)
    BY <1>1, SameStream DEF Dem!setup
  <2>2. DemTyped' /\ SinksOpened' /\ DemSetup' /\ Ranked'
    BY <1>1, <1>2, <1>4, <2>1
       DEF DemInv, DemTyped, SinksOpened, DemSetup, Ranked, Dem!setup, Dem!AllSinks
  <2>3. Merging'
    <3>1. Len(received) \in Nat
      BY LenProperties DEF DemInv, DemTyped
    <3>2. Dem!ConfigOf(Len(received) + 1)' = Dem!ConfigOf(Len(received) + 1)
      BY <1>1, <2>1, <3>1
    <3> QED BY <1>1, <2>1, <3>2 DEF DemInv, Merging
  <2>4. \A k \in 1..Len(packetSinks) : got[packetSinks[k]] = received
    <3> DEFINE all == Dem!AllSinks  f == Len(frameSinks)
    <3>1. PICK j \in 1..(Len(all) + 1) :
            Rest(opening, all, j) /\ opens = {all[i] : i \in 1..(j - 1)}
      BY <1>1 DEF DemInv, SinksOpened
    <3>2. j = Len(all) + 1 /\ Len(all) \in Nat
      BY <1>1, <1>2, <3>1, RestNone, SinksNamed, LenProperties
    <3>3. ASSUME NEW k \in 1..Len(packetSinks) PROVE packetSinks[k] \in opens
      <4>1. f + k \in 1..(j - 1) /\ packetSinks[k] = all[f + k]
        BY <1>2, <3>2, SinksNamed
      <4> QED BY <4>1, <3>1
    <3> QED BY <1>2, <3>3, SinksNamed DEF Dem!Sink
  <2>5. Given'
    <3>1. Len(received) \in Nat /\ Len(packetSinks) = 2 => 2 \in 1..Len(packetSinks) /\ 1 \in 1..Len(packetSinks)
      OBVIOUS
    <3>2. Len(received) \in Nat
      BY LenProperties DEF DemInv, DemTyped
    <3> QED BY <1>1, <1>4, <2>1, <2>4, <3>1, <3>2 DEF DemInv, Given
  <2>6. FramesPassed'
    BY <1>1, <1>4, <2>1, OpeningKeepsFrames
  <2> QED BY <2>2, <2>3, <2>5, <2>6 DEF DemInv
<1> QED BY <1>3, <1>4 DEF Dem!Opened

LEMMA EndOfStreamKeeps ==
  ASSUME DemInv, Dem!EndOfStream
  PROVE  DemInv'
<1>1. /\ demuxer = "receive" /\ demuxer' = "close" /\ UNCHANGED Dem!setup /\ config' = config
      /\ decoding' = decoding /\ item' = item /\ passed' = passed /\ passTo' = passTo
      /\ pushTo' = pushTo /\ closed' = closed /\ received' = received /\ disabled' = disabled
      /\ got' = got /\ opened' = opened /\ opens' = opens /\ opening' = opening
  BY DEF Dem!EndOfStream, Dem!pushState
<1>2. disabled = {} /\ pushTo = <<>> /\ passTo = <<>>
  BY <1>1 DEF DemInv, SinksOpened, FramesPassed
<1>3. DemSetup' /\ Ranked' /\ Merging' /\ Given' /\ FramesPassed'
  BY <1>1, <1>2, QuietKeeps
<1>4. DemTyped'
  BY <1>1, <1>2 DEF DemInv, DemTyped
<1>5. SinksOpened'
  BY <1>1, <1>2 DEF DemInv, SinksOpened, Dem!setup, Dem!AllSinks
<1> QED BY <1>3, <1>4, <1>5 DEF DemInv

(* The sink to close is open: there is a last one.                         *)
LEMMA LastIsOpen ==
  ASSUME NEW S, NEW sinks \in Seq(S), Len(sinks) \in 0..2, NEW k \in 1..Len(sinks),
         sinks[k] \in opened
  PROVE  Dem!LastOpened(sinks) \in opened
<1> DEFINE K == {i \in DOMAIN sinks : sinks[i] \in opened}
<1>1. DOMAIN sinks = 1..Len(sinks) /\ k \in K /\ \A i \in K : i \in {1, 2}
  BY LenProperties
<1>2. \E x \in K : \A y \in K : x >= y
  <2>1. CASE 2 \in K
    BY <2>1, <1>1
  <2>2. CASE 2 \notin K
    BY <2>2, <1>1
  <2> QED BY <2>1, <2>2
<1>3. Dem!Max(K) \in K
  BY <1>2 DEF Dem!Max
<1> QED BY <1>3 DEF Dem!LastOpened

LEMMA OpenedToClose ==
  ASSUME DemInv, opened # {}, opens \subseteq {Dem!AllSinks[i] : i \in 1..Len(Dem!AllSinks)}
  PROVE  Dem!ToClose \in opened
<1>1. DemSetup
  BY DEF DemInv
<1>2. /\ Dem!Range(frameSinks) = {frameSinks[k] : k \in 1..Len(frameSinks)}
      /\ Dem!Range(packetSinks) = {packetSinks[k] : k \in 1..Len(packetSinks)}
  BY <1>1, SinksNamed, LenProperties DEF Dem!Range
<1>3. \A s \in opened : s \in Dem!Range(frameSinks) \/ s \in Dem!Range(packetSinks)
  <2> TAKE s \in opened
  <2>1. PICK i \in 1..Len(Dem!AllSinks) : s = Dem!AllSinks[i]
    BY DEF DemInv, DemTyped
  <2>2. CASE i <= Len(frameSinks)
    <3>1. i \in 1..Len(frameSinks)
      BY <2>2, <1>1, SinksNamed
    <3> QED BY <2>1, <3>1, <1>1, <1>2, SinksNamed
  <2>3. CASE i > Len(frameSinks)
    <3>1. i - Len(frameSinks) \in 1..Len(packetSinks) /\ Len(frameSinks) + (i - Len(frameSinks)) = i
      BY <2>3, <1>1, SinksNamed
    <3> QED BY <2>1, <3>1, <1>1, <1>2, SinksNamed
  <2> QED BY <2>2, <2>3, <1>1, SinksNamed
<1>4. opened \cap Dem!Range(frameSinks) # {} => Dem!LastOpened(frameSinks) \in opened
  BY <1>1, <1>2, SinksNamed, LastIsOpen
<1>5. opened \cap Dem!Range(packetSinks) # {} => Dem!LastOpened(packetSinks) \in opened
  BY <1>1, <1>2, SinksNamed, LastIsOpen
<1> QED BY <1>3, <1>4, <1>5 DEF Dem!ToClose

LEMMA CloseSinkKeeps ==
  ASSUME DemInv, Dem!CloseSink
  PROVE  DemInv'
<1> DEFINE s == Dem!ToClose
<1>1. /\ demuxer = "close" /\ demuxer' = "close" /\ UNCHANGED Dem!setup /\ config' = config
      /\ decoding' = decoding /\ item' = item /\ passed' = passed /\ passTo' = passTo
      /\ pushTo' = pushTo /\ received' = received /\ disabled' = disabled
      /\ got' = got /\ opens' = opens /\ opening' = opening /\ opened # {}
      /\ opened' = opened \ {s} /\ closed' = [closed EXCEPT ![s] = @ + 1]
  BY DEF Dem!CloseSink, Dem!pushState
<1>2. disabled = {} /\ pushTo = <<>> /\ passTo = <<>>
  BY <1>1 DEF DemInv, SinksOpened, FramesPassed
<1>3. s \in opened
  BY <1>1, OpenedToClose DEF DemInv, SinksOpened
<1> HIDE DEF s
<1>4. DemSetup' /\ Ranked' /\ Merging' /\ Given' /\ FramesPassed'
  BY <1>1, <1>2, QuietKeeps
<1>5. DemTyped'
  BY <1>1 DEF DemInv, DemTyped
<1>6. SinksOpened'
  <2>1. closed' = [t \in Dem!Sink |-> IF t \in opens' \ opened' THEN 1 ELSE 0]
    <3>1. s \in opens /\ opened \subseteq opens /\ opens \subseteq Dem!Sink
      BY <1>3 DEF DemInv, DemTyped
    <3>2. closed = [t \in Dem!Sink |-> IF t \in opens \ opened THEN 1 ELSE 0]
      BY DEF DemInv, SinksOpened
    <3>3. \A t \in Dem!Sink : closed'[t] = IF t \in opens' \ opened' THEN 1 ELSE 0
      BY <1>1, <1>3, <3>1, <3>2
    <3>4. closed' = [t \in Dem!Sink |-> closed'[t]]
      BY <1>1, <3>2
    <3> QED BY <3>3, <3>4
  <2> QED BY <1>1, <1>2, <2>1 DEF DemInv, SinksOpened, Dem!setup, Dem!AllSinks
<1> QED BY <1>4, <1>5, <1>6 DEF DemInv

LEMMA ClosedReportKeeps ==
  ASSUME DemInv, Dem!Closed \/ Dem!Report
  PROVE  DemInv'
<1>1. /\ demuxer \in {"close", "report"} /\ demuxer' \in {"report", "ended"}
      /\ UNCHANGED Dem!setup /\ config' = config
      /\ decoding' = decoding /\ item' = item /\ passed' = passed /\ passTo' = passTo
      /\ pushTo' = pushTo /\ closed' = closed /\ received' = received /\ disabled' = disabled
      /\ got' = got /\ opened' = opened /\ opens' = opens /\ opening' = opening /\ opened = {}
  BY DEF Dem!Closed, Dem!Report, Dem!pushState, DemInv, SinksOpened
<1>2. pushTo = <<>> /\ passTo = <<>>
  BY <1>1 DEF DemInv, FramesPassed
<1>3. DemSetup' /\ Ranked' /\ Merging' /\ Given' /\ FramesPassed'
  BY <1>1, <1>2, QuietKeeps
<1>4. DemTyped'
  BY <1>1, <1>2 DEF DemInv, DemTyped
<1>5. SinksOpened'
  BY <1>1, <1>2 DEF DemInv, SinksOpened, Dem!setup, Dem!AllSinks
<1> QED BY <1>3, <1>4, <1>5 DEF DemInv

(* A set of numbers that is bounded and not empty has a greatest one.      *)
LEMMA GreatestNumber ==
  ASSUME NEW T \in SUBSET Nat, T # {}, NEW b \in Nat, \A m \in T : m <= b
  PROVE  \E n \in T : \A m \in T : n >= m
<1> DEFINE U == {b - m : m \in T}
<1> DEFINE Less == {ss \in Nat \X Nat : ss[1] < ss[2]}
<1>1. U \in SUBSET Nat /\ U # {}
  <2> SUFFICES ASSUME NEW m \in T PROVE b - m \in Nat
    OBVIOUS
  <2> QED BY m <= b
<1>2. IsWellFoundedOn(Less, Nat)
  BY NatLessThanWellFounded DEF OpToRel
<1>3. PICK d \in U : \A e \in U : <<e, d>> \notin Less
  <2> HIDE DEF Less, U
  <2> QED BY <1>1, <1>2, WFMin
<1>4. PICK n \in T : d = b - n
  OBVIOUS
<1>5. ASSUME NEW m \in T PROVE n >= m
  <2>1. b - m \in Nat /\ b - n \in Nat /\ m <= b /\ n <= b
    BY <1>1
  <2>2. ~(b - m < b - n)
    BY <1>3, <1>4, <2>1
  <2> QED BY <2>1, <2>2
<1> QED BY <1>5

(* The stream grows: what was expected stays, and the merger holds the     *)
(* configuration of the next media packet.                                 *)
LEMMA StreamGrows ==
  ASSUME DemInv, NEW i \in Item, i.n = Len(received) + 1, i.config = 0,
         received' = Append(received, i), merges' = merges
  PROVE  /\ received' \in Seq(Item) /\ Len(received) \in Nat /\ Len(received') = Len(received) + 1
         /\ Ranked'
         /\ \A n \in 1..Len(received) : Dem!Expected'[n] = Dem!Expected[n]
         /\ Dem!Expected'[Len(received) + 1] =
              IF i.kind = "media" THEN [i EXCEPT !.config = Dem!ConfigOf(Len(received) + 1)] ELSE i
         /\ Dem!ConfigOf(Len(received) + 1)' =
              IF i.kind = "session" THEN Dem!ConfigOf(Len(received) + 1)
              ELSE IF merges /\ i.kind = "config" THEN i.n ELSE 0
<1> DEFINE L == Len(received)
<1>1. /\ L \in Nat /\ received \in Seq(Item)
      /\ received' \in Seq(Item) /\ Len(received') = L + 1
      /\ \A n \in 1..L : received'[n] = received[n]
      /\ received'[L + 1] = i /\ DOMAIN received' = 1..(L + 1) /\ DOMAIN received = 1..L
  BY AppendProperties, LenProperties DEF DemInv, DemTyped
<1>0. i.n = L + 1
  OBVIOUS
<1> HIDE DEF L
<1>2. Ranked'
  <2>1. \A n \in 1..L : received[n].n = n /\ received[n].config = 0
    BY DEF DemInv, Ranked, L
  <2> QED BY <1>0, <1>1, <2>1 DEF Ranked
<1>4. ASSUME NEW B, B # {}, B \subseteq 1..L PROVE Dem!Max(B) \in B
  <2>1. B \in SUBSET Nat /\ \A m \in B : m <= L
    BY <1>1, <1>4
  <2>3. \E m \in B : \A l \in B : m >= l
    BY <1>1, <1>4, <2>1, GreatestNumber
  <2> QED BY <2>3 DEF Dem!Max
<1> DEFINE B(n) == {m \in 1..(n - 1) : received[m].kind # "session"}
<1>5. \A n : Dem!ConfigOf(n) =
        IF merges /\ B(n) # {} /\ received[Dem!Max(B(n))].kind = "config" THEN Dem!Max(B(n)) ELSE 0
  BY DEF Dem!ConfigOf
<1>6. ASSUME NEW n, NEW A, A = {m \in 1..(n - 1) : received'[m].kind # "session"}
      PROVE Dem!ConfigOf(n)' =
              IF merges /\ A # {} /\ received'[Dem!Max(A)].kind = "config" THEN Dem!Max(A) ELSE 0
  BY <1>6 DEF Dem!ConfigOf, Dem!Max
<1>7. ASSUME NEW n \in 1..(L + 1) PROVE Dem!ConfigOf(n)' = Dem!ConfigOf(n)
  <2>1. B(n) \subseteq 1..L /\ B(n) = {m \in 1..(n - 1) : received'[m].kind # "session"}
    BY <1>1
  <2>2. Dem!ConfigOf(n)' =
          IF merges /\ B(n) # {} /\ received'[Dem!Max(B(n))].kind = "config" THEN Dem!Max(B(n)) ELSE 0
    BY <1>6, <2>1
  <2>3. B(n) # {} => Dem!Max(B(n)) \in 1..L
    BY <1>4, <2>1
  <2> HIDE DEF B
  <2> QED BY <1>1, <1>5, <2>2, <2>3
<1>8. \A n \in 1..(L + 1) : Dem!Expected'[n] =
        IF received'[n].kind = "media" THEN [received'[n] EXCEPT !.config = Dem!ConfigOf(n)]
        ELSE received'[n]
  <2>1. Dem!Expected' = [n \in DOMAIN received' |->
          IF received'[n].kind = "media" THEN [received'[n] EXCEPT !.config = Dem!ConfigOf(n)']
          ELSE received'[n]]
    BY DEF Dem!Expected
  <2> QED BY <1>1, <1>7, <2>1
<1>9. \A n \in 1..L : Dem!Expected'[n] = Dem!Expected[n]
  <2>1. \A n \in 1..L : Dem!Expected[n] =
          IF received[n].kind = "media" THEN [received[n] EXCEPT !.config = Dem!ConfigOf(n)]
          ELSE received[n]
    BY <1>1 DEF Dem!Expected
  <2> TAKE n \in 1..L
  <2>2. n \in 1..(L + 1) /\ received'[n] = received[n]
    BY <1>1
  <2>3. Dem!Expected'[n] =
          IF received'[n].kind = "media" THEN [received'[n] EXCEPT !.config = Dem!ConfigOf(n)]
          ELSE received'[n]
    BY <1>8, <2>2
  <2> QED BY <2>1, <2>2, <2>3
<1>10. Dem!Expected'[L + 1] =
         IF i.kind = "media" THEN [i EXCEPT !.config = Dem!ConfigOf(L + 1)] ELSE i
  <2>1. L + 1 \in 1..(L + 1)
    BY <1>1
  <2> QED BY <1>1, <1>8, <2>1
<1>11. ASSUME NEW n, n = L + 2
       PROVE  Dem!ConfigOf(n)' =
                IF i.kind = "session" THEN Dem!ConfigOf(L + 1)
                ELSE IF merges /\ i.kind = "config" THEN i.n ELSE 0
  <2> DEFINE A == {m \in 1..(n - 1) : received'[m].kind # "session"}
  <2>1. Dem!ConfigOf(n)' =
          IF merges /\ A # {} /\ received'[Dem!Max(A)].kind = "config" THEN Dem!Max(A) ELSE 0
    BY <1>6
  <2>2. CASE i.kind = "session"
    <3>1. A = B(L + 1) /\ B(L + 1) \subseteq 1..L
      BY <2>2, <1>1, <1>11
    <3>2. B(L + 1) # {} => Dem!Max(B(L + 1)) \in 1..L
      BY <1>4, <3>1
    <3>3. Dem!ConfigOf(L + 1) =
            IF merges /\ B(L + 1) # {} /\ received[Dem!Max(B(L + 1))].kind = "config"
            THEN Dem!Max(B(L + 1)) ELSE 0
      BY <1>5
    <3> HIDE DEF A, B
    <3> QED BY <1>1, <2>1, <2>2, <3>1, <3>2, <3>3
  <2>3. CASE i.kind # "session"
    <3>1. L + 1 \in A /\ \A m \in A : m \in Int /\ L + 1 >= m
      BY <2>3, <1>1, <1>11
    <3>2. Dem!Max(A) = L + 1
      <4> HIDE DEF A
      <4>1. ASSUME NEW x \in A, \A y \in A : x >= y PROVE x = L + 1
        <5>1. x >= L + 1 /\ L + 1 >= x /\ x \in Int
          BY <3>1, <4>1
        <5> QED BY <5>1, <1>1
      <4> QED BY <3>1, <4>1 DEF Dem!Max
    <3> HIDE DEF A
    <3> QED BY <1>0, <1>1, <2>1, <2>3, <3>1, <3>2
  <2> QED BY <2>2, <2>3
<1>12. Dem!ConfigOf(Len(received) + 1)' =
         IF i.kind = "session" THEN Dem!ConfigOf(L + 1)
         ELSE IF merges /\ i.kind = "config" THEN i.n ELSE 0
  <2>1. Len(received') + 1 = L + 2
    BY <1>1
  <2> QED BY <1>11, <2>1
<1> QED BY <1>1, <1>2, <1>9, <1>10, <1>12 DEF L

LEMMA ReceiveKeeps ==
  ASSUME DemInv, Dem!Receive
  PROVE  DemInv'
<1> DEFINE L == Len(received)
<1>1. /\ demuxer = "receive" /\ UNCHANGED Dem!setup /\ decoding' = decoding
      /\ passed' = passed /\ passTo' = passTo /\ closed' = closed /\ disabled' = disabled
      /\ got' = got /\ opened' = opened /\ opens' = opens /\ opening' = opening
  BY DEF Dem!Receive
<1>2. /\ merges' = merges /\ frameSinks' = frameSinks /\ packetSinks' = packetSinks
      /\ Dem!AllSinks' = Dem!AllSinks
  BY <1>1 DEF Dem!setup, Dem!AllSinks
<1>3. /\ disabled = {} /\ pushTo = <<>> /\ passTo = <<>> /\ DemSetup
      /\ \A k \in 1..Len(packetSinks) : Len(got[packetSinks[k]]) = L
  BY <1>1 DEF DemInv, SinksOpened, Given, FramesPassed
<1>4. PICK i \in Item :
        /\ i.n = L + 1 /\ i.config = 0 /\ received' = Append(received, i)
        /\ config' = Dem!ConfigAfter(i)
        /\ \/ demuxer' = "push" /\ pushTo' = packetSinks /\ item' = Dem!Merge(i)
           \/ demuxer' = "close" /\ pushTo' = pushTo /\ item' = item
  <2>1. PICK kind \in Dem!Kinds :
          LET i == [kind |-> kind, n |-> L + 1, config |-> 0]
          IN /\ received' = Append(received, i)
             /\ config' = Dem!ConfigAfter(i)
             /\ \/ demuxer' = "push" /\ pushTo' = packetSinks /\ item' = Dem!Merge(i)
                \/ demuxer' = "close" /\ pushTo' = pushTo /\ item' = item
    BY DEF Dem!Receive
  <2> DEFINE i == [kind |-> kind, n |-> L + 1, config |-> 0]
  <2>2. i \in Item /\ i.n = L + 1 /\ i.config = 0
    <3>1. kind \in {"session", "config", "media"} /\ L + 1 \in Nat
      BY LenProperties DEF Dem!Kinds, DemInv, DemTyped
    <3> QED BY <3>1 DEF Item
  <2> QED BY <2>1, <2>2
<1>5. /\ received' \in Seq(Item) /\ L \in Nat /\ Len(received') = L + 1
      /\ Ranked'
      /\ \A n \in 1..L : Dem!Expected'[n] = Dem!Expected[n]
      /\ Dem!Expected'[L + 1] =
           IF i.kind = "media" THEN [i EXCEPT !.config = Dem!ConfigOf(L + 1)] ELSE i
      /\ Dem!ConfigOf(Len(received) + 1)' =
           IF i.kind = "session" THEN Dem!ConfigOf(L + 1)
           ELSE IF merges /\ i.kind = "config" THEN i.n ELSE 0
  BY <1>2, <1>4, StreamGrows
<1> HIDE DEF L
<1>6. merges => config = Dem!ConfigOf(L + 1)
  BY DEF DemInv, Merging, L
<1>7. Merging'
  <2>1. ASSUME merges PROVE config' = IF i.kind = "config" THEN i.n
                                      ELSE IF i.kind = "media" THEN 0 ELSE config
    <3>1. i.kind \in {"session", "config", "media"}
      BY DEF Item
    <3> QED BY <2>1, <3>1, <1>4 DEF Dem!ConfigAfter
  <2>2. i.kind \in {"session", "config", "media"}
    BY DEF Item
  <2> QED BY <1>2, <1>5, <1>6, <2>1, <2>2 DEF Merging
<1>8. demuxer' = "push" => item' = Dem!Expected'[L + 1] /\ item' \in Item
  <2>1. ~merges => Dem!ConfigOf(L + 1) = 0
    BY DEF Dem!ConfigOf
  <2>2. [i EXCEPT !.config = 0] = i
    BY <1>4 DEF Item
  <2>3. CASE merges /\ i.kind = "media"
    <3>1. config \in Nat
      BY DEF DemInv, DemTyped
    <3> QED BY <1>4, <1>5, <1>6, <2>3, <3>1 DEF Dem!Merge, Item
  <2>4. CASE ~(merges /\ i.kind = "media")
    BY <1>4, <1>5, <2>1, <2>2, <2>4 DEF Dem!Merge
  <2> QED BY <2>3, <2>4
<1>9. DemTyped'
  <2>1. config' \in Nat /\ config \in Nat
    <3>1. config \in Nat /\ i.n \in Nat
      BY DEF DemInv, DemTyped, Item
    <3> QED BY <3>1, <1>4 DEF Dem!ConfigAfter
  <2>2. pushTo' \in Seq(Dem!Sink)
    BY <1>3, <1>4, SinksNamed DEF DemInv, DemTyped
  <2>3. item' \in Item \cup {Dem!Nothing}
    BY <1>4, <1>8 DEF DemInv, DemTyped
  <2>4. demuxer' \in {"push", "close"}
    BY <1>4
  <2>5. /\ got \in [Dem!Sink -> Seq(Item)] /\ decoding \in Seq(Item) /\ opening \in Seq(Dem!Sink)
        /\ passTo \in Seq(Dem!Sink) /\ opens \subseteq Dem!Sink /\ opened \subseteq opens
        /\ passed \in Item \cup {Dem!Nothing}
    BY DEF DemInv, DemTyped
  <2> QED BY <1>1, <1>5, <2>1, <2>2, <2>3, <2>4, <2>5 DEF DemTyped
<1>10. SinksOpened' /\ DemSetup'
  <2>1. demuxer' \in {"push", "close"}
    BY <1>4
  <2> QED BY <1>1, <1>2, <1>3, <2>1 DEF DemInv, SinksOpened, DemSetup
<1>11. Given'
  <2>1. demuxer' \in {"push", "close"}
    BY <1>4
  <2>2. ASSUME NEW k \in 1..Len(packetSinks), NEW m \in 1..Len(got[packetSinks[k]])
        PROVE  m <= Len(received') /\ got[packetSinks[k]][m] = Dem!Expected'[m]
    <3>1. m \in 1..L
      BY <1>3, <2>2
    <3>2. got[packetSinks[k]][m] = Dem!Expected[m]
      BY DEF DemInv, Given
    <3> QED BY <1>5, <3>1, <3>2
  <2>3. Len(packetSinks) = 2 => Len(got[packetSinks[2]]) <= Len(got[packetSinks[1]])
    BY DEF DemInv, Given
  <2>4. ASSUME demuxer' = "push"
        PROVE  /\ received' # <<>> /\ item' = Dem!Expected'[Len(received')]
               /\ \E j \in 1..(Len(packetSinks) + 1) :
                    /\ Rest(pushTo', packetSinks, j)
                    /\ \A k \in 1..Len(packetSinks) :
                         Len(got[packetSinks[k]]) = IF k < j THEN Len(received') ELSE Len(received') - 1
    <3>1. received' # <<>>
      BY <1>5
    <3>2. pushTo' = packetSinks /\ item' = Dem!Expected'[L + 1]
      BY <1>4, <1>8, <2>4
    <3>3. Rest(pushTo', packetSinks, 1) /\ 1 \in 1..(Len(packetSinks) + 1)
      BY <1>3, <3>2, SinksNamed, RestWhole
    <3>4. \A k \in 1..Len(packetSinks) :
            Len(got[packetSinks[k]]) = IF k < 1 THEN Len(received') ELSE Len(received') - 1
      BY <1>3, <1>5
    <3> QED BY <1>5, <3>1, <3>2, <3>3, <3>4
  <2> QED BY <1>1, <1>2, <2>1, <2>2, <2>3, <2>4 DEF Given
<1>12. FramesPassed'
  <2>1. demuxer' \in {"push", "close"} /\ (demuxer' = "close" => pushTo' = <<>>)
    BY <1>3, <1>4
  <2>2. Rest(passTo', frameSinks, Len(frameSinks) + 1) /\ Len(frameSinks) + 1 \in 1..(Len(frameSinks) + 1)
    BY <1>1, <1>3, SinksNamed DEF Rest
  <2>3. ASSUME frameSinks # <<>>, NEW b \in 0..Len(D), FramesUpTo(b) PROVE FramesUpTo(b)'
    <3>1. InCodec(b)'
      BY <1>1, <2>3 DEF FramesUpTo, InCodec, Dem!MediaIn, D
    <3>2. \A s, c : HasFrames(s, c) => HasFrames(s, c)'
      BY <1>1 DEF HasFrames, Dem!MediaIn, D
    <3>3. \A s : ~Awaits(s)' /\ ~Awaits(s)
      BY <1>1, <1>3 DEF Awaits
    <3> QED BY <1>1, <1>2, <2>1, <2>3, <3>1, <3>2, <3>3 DEF FramesUpTo
  <2>4. /\ demuxer' \in {"push", "decode"} =>
             \E j \in 1..(Len(frameSinks) + 1) : Rest(passTo', frameSinks, j)
        /\ demuxer' \notin {"push", "decode"} => passTo' = <<>> /\ pushTo' = <<>>
        /\ demuxer' \notin {"codec", "session", "open"} /\ passTo' = <<>>
    BY <1>1, <1>3, <2>1, <2>2
  <2>5. frameSinks # <<>> => \E b \in 0..Len(D) : FramesUpTo(b)'
    BY <2>3 DEF DemInv, FramesPassed
  <2> QED BY <1>1, <1>2, <2>4, <2>5 DEF FramesPassed, D
<1> QED BY <1>5, <1>7, <1>9, <1>10, <1>11, <1>12 DEF DemInv

(* A step that passes an item on, or takes the frame of one: the stream    *)
(* and the sinks opened stay as they are.                                  *)
LEMMA StreamKept ==
  ASSUME DemInv, demuxer \in {"push", "decode"}, demuxer' \in {"push", "decode", "receive"},
         UNCHANGED Dem!setup, config' = config, received' = received, opening' = opening,
         opened' = opened, opens' = opens, closed' = closed, disabled' = disabled
  PROVE  /\ DemSetup' /\ SinksOpened' /\ Ranked' /\ Merging' /\ Dem!Expected' = Dem!Expected
         /\ merges' = merges /\ frameSinks' = frameSinks /\ packetSinks' = packetSinks
<1>1. /\ merges' = merges /\ frameSinks' = frameSinks /\ packetSinks' = packetSinks
      /\ Dem!AllSinks' = Dem!AllSinks
      /\ \A n \in 1..(Len(received) + 1) : Dem!ConfigOf(n)' = Dem!ConfigOf(n)
      /\ Dem!Expected' = Dem!Expected
  BY SameStream DEF Dem!setup, Dem!AllSinks
<1>2. DemSetup' /\ Ranked'
  BY <1>1 DEF DemInv, DemSetup, Ranked
<1>3. SinksOpened'
  BY <1>1 DEF DemInv, SinksOpened
<1>4. Merging'
  <2>1. Len(received) \in Nat
    BY LenProperties DEF DemInv, DemTyped
  <2>2. Dem!ConfigOf(Len(received) + 1)' = Dem!ConfigOf(Len(received) + 1)
    BY <1>1, <2>1
  <2> QED BY <1>1, <2>2 DEF DemInv, Merging
<1> QED BY <1>1, <1>2, <1>3, <1>4

LEMMA GiveAppends ==
  ASSUME got \in [Dem!Sink -> Seq(Item)], NEW s \in Dem!Sink, NEW i \in Item, Dem!Give(s, i)
  PROVE  /\ got' \in [Dem!Sink -> Seq(Item)]
         /\ Len(got[s]) \in Nat /\ Len(got'[s]) = Len(got[s]) + 1 /\ got'[s][Len(got[s]) + 1] = i
         /\ \A n \in 1..Len(got[s]) : got'[s][n] = got[s][n]
         /\ DOMAIN got'[s] = 1..(Len(got[s]) + 1) /\ DOMAIN got[s] = 1..Len(got[s])
         /\ \A t \in Dem!Sink : t # s => got'[t] = got[t]
<1>1. got' = [got EXCEPT ![s] = Append(got[s], i)]
  BY DEF Dem!Give
<1>2. got'[s] = Append(got[s], i) /\ got[s] \in Seq(Item)
  BY <1>1
<1>3. /\ Append(got[s], i) \in Seq(Item) /\ Len(Append(got[s], i)) = Len(got[s]) + 1
      /\ Append(got[s], i)[Len(got[s]) + 1] = i
      /\ \A n \in 1..Len(got[s]) : Append(got[s], i)[n] = got[s][n]
  BY <1>2, AppendProperties
<1>4. Len(got[s]) \in Nat /\ DOMAIN got[s] = 1..Len(got[s])
  BY <1>2, LenProperties
<1>5. DOMAIN Append(got[s], i) = 1..(Len(got[s]) + 1)
  BY <1>3, LenProperties
<1> QED BY <1>1, <1>2, <1>3, <1>4, <1>5

(* The item that is pushed is the last of the stream.                      *)
LEMMA ItemPushed ==
  ASSUME DemInv, demuxer \in {"push", "decode"}
  PROVE  /\ Len(received) \in Nat \ {0} /\ item \in Item /\ item.n = Len(received)
         /\ item = Dem!Expected[Len(received)]
<1>1. Len(received) \in Nat \ {0}
  BY LenProperties, EmptySeq DEF DemInv, DemTyped, Given
<1>2. item = Dem!Expected[Len(received)]
  BY DEF DemInv, Given
<1>3. /\ Dem!Expected[Len(received)].n = Len(received)
      /\ Dem!Expected[Len(received)].kind = received[Len(received)].kind
      /\ received[Len(received)] \in Item
  <2>1. Len(received) \in 1..Len(received) /\ DemTyped /\ Ranked
    BY <1>1 DEF DemInv
  <2> QED BY <2>1, ItemsExpected
<1>4. item.kind # "none" /\ item.n = Len(received)
  BY <1>2, <1>3 DEF Item
<1>5. item # Dem!Nothing
  BY <1>4 DEF Dem!Nothing
<1> QED BY <1>1, <1>2, <1>4, <1>5 DEF DemInv, DemTyped

(* Only sinks of the decoder are given something.                          *)
LEMMA GivenSame ==
  ASSUME DemInv, demuxer \in {"push", "decode"}, demuxer' \in {"push", "decode"},
         received' = received, packetSinks' = packetSinks, Dem!Expected' = Dem!Expected,
         pushTo' = pushTo, item' = item,
         \A k \in 1..Len(packetSinks) : got'[packetSinks[k]] = got[packetSinks[k]]
  PROVE  Given'
<1>1. Len(packetSinks) = 2 => 1 \in 1..Len(packetSinks) /\ 2 \in 1..Len(packetSinks)
  OBVIOUS
<1>2. Len(packetSinks) = 2 => Len(got'[packetSinks[2]]) <= Len(got'[packetSinks[1]])
  BY <1>1 DEF DemInv, Given
<1>3. PICK j \in 1..(Len(packetSinks) + 1) :
        /\ Rest(pushTo, packetSinks, j)
        /\ \A k \in 1..Len(packetSinks) :
             Len(got[packetSinks[k]]) = IF k < j THEN Len(received) ELSE Len(received) - 1
  BY DEF DemInv, Given
<1>4. \E l \in 1..(Len(packetSinks) + 1) :
        /\ Rest(pushTo', packetSinks, l)
        /\ \A k \in 1..Len(packetSinks) :
             Len(got'[packetSinks[k]]) = IF k < l THEN Len(received) ELSE Len(received) - 1
  BY <1>3
<1>5. \A k \in 1..Len(packetSinks) : \A i \in 1..Len(got'[packetSinks[k]]) :
        i <= Len(received) /\ got'[packetSinks[k]][i] = Dem!Expected[i]
  BY DEF DemInv, Given
<1>6. received # <<>> /\ item = Dem!Expected[Len(received)]
  BY DEF DemInv, Given
<1> QED BY <1>2, <1>4, <1>5, <1>6 DEF Given

(* The next sink of the demuxer is given the item.                         *)
LEMMA GivenNext ==
  ASSUME DemInv, demuxer = "push", demuxer' \in {"push", "decode"}, pushTo # <<>>,
         received' = received, packetSinks' = packetSinks, Dem!Expected' = Dem!Expected,
         pushTo' = Tail(pushTo), item' = item, Dem!Give(Head(pushTo), item)
  PROVE  /\ Given' /\ pushTo' \in Seq(Dem!Sink)
         /\ Head(pushTo) \in {"decoder", "recorder"}
         /\ Len(got[Head(pushTo)]) = Len(received) - 1
<1> DEFINE L == Len(received)  s == Head(pushTo)
<1>1. DemSetup /\ pushTo \in Seq(Dem!Sink) /\ got \in [Dem!Sink -> Seq(Item)]
  BY DEF DemInv, DemTyped
<1>2. PICK j \in 1..(Len(packetSinks) + 1) :
        /\ Rest(pushTo, packetSinks, j)
        /\ \A k \in 1..Len(packetSinks) : Len(got[packetSinks[k]]) = IF k < j THEN L ELSE L - 1
  BY DEF DemInv, Given
<1>3. /\ j \in 1..Len(packetSinks) /\ s = packetSinks[j] /\ s \in Dem!Sink
      /\ Tail(pushTo) \in Seq(Dem!Sink) /\ Rest(Tail(pushTo), packetSinks, j + 1)
  <2>1. packetSinks \in Seq(Dem!Sink) /\ Rest(pushTo, packetSinks, j)
    BY <1>1, <1>2, SinksNamed
  <2> QED BY <1>1, <2>1, RestTail
<1>4. L \in Nat \ {0} /\ item \in Item /\ item = Dem!Expected[L]
  BY ItemPushed
<1>5. /\ Len(got[s]) \in Nat /\ Len(got'[s]) = Len(got[s]) + 1 /\ got'[s][Len(got[s]) + 1] = item
      /\ \A n \in 1..Len(got[s]) : got'[s][n] = got[s][n]
      /\ \A t \in Dem!Sink : t # s => got'[t] = got[t]
  BY <1>1, <1>3, <1>4, GiveAppends
<1>6. \A k \in 1..Len(packetSinks) : packetSinks[k] \in Dem!Sink /\ (k # j => packetSinks[k] # s)
  <2> TAKE k \in 1..Len(packetSinks)
  <2>1. packetSinks[k] \in {"decoder", "recorder"} /\ (k # j => packetSinks[k] # packetSinks[j])
    BY <1>1, <1>3, SinksNamed
  <2> QED BY <1>3, <2>1 DEF Dem!Sink
<1>7. Len(packetSinks) \in 1..2 /\ s \in {"decoder", "recorder"}
  BY <1>1, <1>3, SinksNamed
<1>8. Len(got[s]) = L - 1
  BY <1>2, <1>3
<1> HIDE DEF L, s
<1>9. \A k \in 1..Len(packetSinks) : Len(got'[packetSinks[k]]) = IF k < j + 1 THEN L ELSE L - 1
  <2> TAKE k \in 1..Len(packetSinks)
  <2>1. CASE k = j
    BY <2>1, <1>3, <1>4, <1>5, <1>8
  <2>2. CASE k # j
    <3>1. got'[packetSinks[k]] = got[packetSinks[k]]
      BY <2>2, <1>5, <1>6
    <3>2. (k < j + 1) <=> (k < j)
      BY <2>2, <1>3
    <3> QED BY <3>1, <3>2, <1>2
  <2> QED BY <2>1, <2>2
<1>10. ASSUME NEW k \in 1..Len(packetSinks), NEW i \in 1..Len(got'[packetSinks[k]])
       PROVE  i <= L /\ got'[packetSinks[k]][i] = Dem!Expected[i]
  <2>1. CASE k # j
    <3>1. got'[packetSinks[k]] = got[packetSinks[k]]
      BY <2>1, <1>5, <1>6
    <3> QED BY <3>1 DEF DemInv, Given, L
  <2>2. CASE k = j /\ i = L
    BY <2>2, <1>3, <1>4, <1>5, <1>8
  <2>3. CASE k = j /\ i # L
    <3>1. i \in 1..Len(got[s]) /\ got'[s][i] = got[s][i] /\ i <= L
      BY <2>3, <1>3, <1>4, <1>5, <1>8
    <3>2. got[packetSinks[k]][i] = Dem!Expected[i]
      BY <2>3, <3>1, <1>3 DEF DemInv, Given
    <3> QED BY <3>1, <3>2, <2>3, <1>3
  <2> QED BY <2>1, <2>2, <2>3
<1>11. Len(packetSinks) = 2 => Len(got'[packetSinks[2]]) <= Len(got'[packetSinks[1]])
  <2>1. ASSUME Len(packetSinks) = 2 PROVE Len(got'[packetSinks[2]]) <= Len(got'[packetSinks[1]])
    <3>1. /\ Len(got'[packetSinks[1]]) = IF 1 < j + 1 THEN L ELSE L - 1
          /\ Len(got'[packetSinks[2]]) = IF 2 < j + 1 THEN L ELSE L - 1
      BY <1>9, <2>1
    <3> QED BY <3>1, <1>3, <1>4
  <2> QED BY <2>1
<1>12. \E l \in 1..(Len(packetSinks) + 1) :
         /\ Rest(pushTo', packetSinks, l)
         /\ \A k \in 1..Len(packetSinks) :
              Len(got'[packetSinks[k]]) = IF k < l THEN Len(received) ELSE Len(received) - 1
  <2>1. j + 1 \in 1..(Len(packetSinks) + 1)
    BY <1>3, <1>7
  <2> QED BY <2>1, <1>3, <1>9 DEF L
<1>13. received # <<>>
  BY DEF DemInv, Given
<1>14. Given'
  BY <1>4, <1>10, <1>11, <1>12, <1>13 DEF Given, L
<1> QED BY <1>3, <1>7, <1>8, <1>14 DEF s, L

LEMMA FramesKept ==
  ASSUME NEW b, FramesUpTo(b), frameSinks' = frameSinks, decoding' = decoding, passed' = passed,
         passTo' = passTo, got'["decoder"] = got["decoder"],
         \A k \in 1..Len(frameSinks) : got'[frameSinks[k]] = got[frameSinks[k]],
         demuxer \in {"push", "decode"}
  PROVE  FramesUpTo(b)'
<1>1. Dem!MediaIn("decoder")' = Dem!MediaIn("decoder") /\ D' = D
  BY DEF Dem!MediaIn, D
<1>2. \A k \in 1..Len(frameSinks) : Dem!MediaIn(frameSinks[k])' = Dem!MediaIn(frameSinks[k])
  BY DEF Dem!MediaIn
<1>3. InCodec(b)'
  BY <1>1 DEF FramesUpTo, InCodec
<1>4. \A k \in 1..Len(frameSinks) : \A c :
        HasFrames(frameSinks[k], c) => HasFrames(frameSinks[k], c)'
  BY <1>1, <1>2 DEF HasFrames
<1>5. \A s : Awaits(s)' <=> Awaits(s)
  BY DEF Awaits
<1> QED BY <1>1, <1>3, <1>4, <1>5 DEF FramesUpTo

LEMMA PushSinkKeeps ==
  ASSUME DemInv, Dem!PushSink
  PROVE  DemInv'
<1>1. PICK s \in Dem!Sink \ {"decoder"} : Dem!Following(s) /\ Dem!Give(s, item)
  BY DEF Dem!PushSink
<1>2. /\ demuxer = "push" /\ demuxer' = demuxer /\ pushTo # <<>> /\ s = Head(pushTo)
      /\ passTo = <<>> /\ pushTo' = Tail(pushTo) /\ UNCHANGED Dem!setup /\ config' = config
      /\ decoding' = decoding /\ item' = item /\ passTo' = passTo /\ passed' = passed
      /\ opening' = opening /\ opened' = opened /\ opens' = opens /\ closed' = closed
      /\ disabled' = disabled /\ received' = received
  BY <1>1 DEF Dem!PushSink, Dem!Following
<1>3. /\ DemSetup' /\ SinksOpened' /\ Ranked' /\ Merging' /\ Dem!Expected' = Dem!Expected
      /\ frameSinks' = frameSinks /\ packetSinks' = packetSinks /\ DemSetup
  BY <1>2, StreamKept DEF DemInv
<1>4. Given' /\ pushTo' \in Seq(Dem!Sink) /\ s \in {"decoder", "recorder"}
  BY <1>1, <1>2, <1>3, GivenNext
<1>5. item \in Item
  BY <1>2, ItemPushed
<1>6. got' \in [Dem!Sink -> Seq(Item)] /\ \A t \in Dem!Sink : t # s => got'[t] = got[t]
  BY <1>1, <1>5, GiveAppends DEF DemInv, DemTyped
<1>7. DemTyped'
  BY <1>2, <1>4, <1>6 DEF DemInv, DemTyped
<1>8. FramesPassed'
  <2>1. "decoder" \in Dem!Sink /\ "decoder" # s
    BY <1>1 DEF Dem!Sink
  <2>2. \A k \in 1..Len(frameSinks) : got'[frameSinks[k]] = got[frameSinks[k]]
    <3> TAKE k \in 1..Len(frameSinks)
    <3>1. frameSinks[k] \in {"screen", "v4l2"}
      BY <1>3, SinksNamed
    <3> QED BY <3>1, <1>4, <1>6 DEF Dem!Sink
  <2>3. got'["decoder"] = got["decoder"]
    BY <2>1, <1>6
  <2>4. ASSUME frameSinks # <<>>, NEW b \in 0..Len(D), FramesUpTo(b) PROVE FramesUpTo(b)'
    BY <1>2, <1>3, <2>2, <2>3, <2>4, FramesKept
  <2> QED BY <1>2, <1>3, <2>3, <2>4 DEF DemInv, FramesPassed, D
<1> QED BY <1>3, <1>4, <1>7, <1>8 DEF DemInv

LEMMA PushFailsKeeps ==
  ASSUME DemInv, Dem!PushFails
  PROVE  DemInv'
<1>0. demuxer \in {"push", "decode"}
  BY DEF Dem!PushFails, Dem!Following, DemInv, FramesPassed
<1>1. /\ demuxer' = "close" /\ pushTo' = <<>> /\ passTo' = <<>>
      /\ UNCHANGED Dem!setup /\ config' = config /\ decoding' = decoding /\ item' = item
      /\ passed' = passed /\ opening' = opening /\ opened' = opened /\ opens' = opens
      /\ closed' = closed /\ disabled' = disabled /\ received' = received /\ got' = got
  BY DEF Dem!PushFails
<1>2. DemSetup' /\ Ranked' /\ Merging' /\ Given' /\ FramesPassed'
  BY <1>0, <1>1, QuietKeeps
<1>3. DemTyped'
  BY <1>1 DEF DemInv, DemTyped
<1>4. SinksOpened'
  BY <1>0, <1>1 DEF DemInv, SinksOpened, Dem!setup, Dem!AllSinks
<1> QED BY <1>2, <1>3, <1>4 DEF DemInv

LEMMA AllPushedKeeps ==
  ASSUME DemInv, Dem!Pushed
  PROVE  DemInv'
<1>1. /\ demuxer = "push" /\ demuxer' = "receive" /\ pushTo = <<>> /\ passTo = <<>>
      /\ UNCHANGED Dem!setup /\ config' = config /\ decoding' = decoding /\ item' = item
      /\ pushTo' = pushTo /\ passTo' = passTo
      /\ passed' = passed /\ opening' = opening /\ opened' = opened /\ opens' = opens
      /\ closed' = closed /\ disabled' = disabled /\ received' = received /\ got' = got
  BY DEF Dem!Pushed, Dem!pushState
<1>2. /\ DemSetup' /\ SinksOpened' /\ Ranked' /\ Merging' /\ Dem!Expected' = Dem!Expected
      /\ frameSinks' = frameSinks /\ packetSinks' = packetSinks /\ DemSetup
  BY <1>1, StreamKept DEF DemInv
<1>3. DemTyped'
  BY <1>1 DEF DemInv, DemTyped
<1>4. Given'
  <2>1. PICK j \in 1..(Len(packetSinks) + 1) :
          /\ Rest(pushTo, packetSinks, j)
          /\ \A k \in 1..Len(packetSinks) :
               Len(got[packetSinks[k]]) = IF k < j THEN Len(received) ELSE Len(received) - 1
    BY <1>1 DEF DemInv, Given
  <2>2. j = Len(packetSinks) + 1 /\ Len(packetSinks) \in Nat
    BY <1>1, <1>2, <2>1, RestNone, SinksNamed
  <2>3. \A k \in 1..Len(packetSinks) : Len(got[packetSinks[k]]) = Len(received)
    BY <2>1, <2>2
  <2>4. /\ \A k \in 1..Len(packetSinks) : \A i \in 1..Len(got[packetSinks[k]]) :
             i <= Len(received) /\ got[packetSinks[k]][i] = Dem!Expected[i]
        /\ Len(packetSinks) = 2 => Len(got[packetSinks[2]]) <= Len(got[packetSinks[1]])
    BY DEF DemInv, Given
  <2> QED BY <1>1, <1>2, <2>3, <2>4 DEF Given
<1>5. FramesPassed'
  <2>1. ASSUME frameSinks # <<>>, NEW b \in 0..Len(D), FramesUpTo(b) PROVE FramesUpTo(b)'
    BY <1>1, <1>2, <2>1, FramesKept
  <2> QED BY <1>1, <1>2, <2>1 DEF DemInv, FramesPassed, D
<1> QED BY <1>2, <1>3, <1>4, <1>5 DEF DemInv

(* The codec returns the frame of the first packet it has, or nothing.     *)
LEMMA FrameReturned ==
  ASSUME DemInv, NEW b \in 0..Len(D), FramesUpTo(b), frameSinks' = frameSinks, got' = got,
         passTo = <<>>, decoding # <<>>, passTo' = frameSinks, passed' = Head(decoding),
         decoding' = Tail(decoding), demuxer = "decode"
  PROVE  passed' \in Item /\ \E c \in 0..Len(D) : FramesUpTo(c)'
<1>0. PICK c : c = decoding[1].n
  OBVIOUS
<1>1. /\ Len(decoding) \in Nat \ {0} /\ Head(decoding) = decoding[1] /\ decoding[1] \in Item
      /\ Len(Tail(decoding)) = Len(decoding) - 1
      /\ \A i \in 1..Len(Tail(decoding)) : Tail(decoding)[i] = decoding[i + 1]
  <2>1. decoding \in Seq(Item)
    BY DEF DemInv, DemTyped
  <2>2. Len(decoding) \in Nat \ {0}
    BY <2>1, EmptySeq, LenProperties
  <2> QED BY <2>1, <2>2, HeadTailProperties, ElementOfSeq
<1>2. /\ D' = D /\ Dem!MediaIn("decoder")' = Dem!MediaIn("decoder")
      /\ \A s : Dem!MediaIn(s)' = Dem!MediaIn(s)
  BY DEF D, Dem!MediaIn
<1>3. InCodec(b)
  BY DEF FramesUpTo
<1>4. c \in Dem!MediaIn("decoder") /\ decoding[1] = D[c] /\ c > b
  BY <1>0, <1>1, <1>3 DEF InCodec
<1>5. c \in 1..Len(D) /\ Len(D) \in Nat /\ D[c].kind = "media"
  <2>1. D \in Seq(Item)
    BY DEF DemInv, DemTyped, D, Dem!Sink
  <2> QED BY <2>1, <1>4, LenProperties DEF Dem!MediaIn, D
<1>6. InCodec(c)'
  <2>1. ASSUME NEW i \in 1..Len(decoding')
        PROVE  /\ i + 1 \in 1..Len(decoding) /\ decoding'[i] = decoding[i + 1]
               /\ decoding'[i].n > c
    <3>1. i + 1 \in 1..Len(decoding) /\ decoding'[i] = decoding[i + 1] /\ 1 \in 1..Len(decoding)
      BY <1>1
    <3>2. decoding[1].n < decoding[i + 1].n
      BY <1>3, <3>1 DEF InCodec
    <3>3. decoding[i + 1] \in Item
      BY <3>1, ElementOfSeq DEF DemInv, DemTyped
    <3> QED BY <3>1, <3>2, <3>3, <1>5, <1>0 DEF Item
  <2>2. \A i \in 1..Len(decoding') :
          decoding'[i].n \in Dem!MediaIn("decoder") /\ decoding'[i] = D[decoding'[i].n]
            /\ decoding'[i].n > c
    <3> TAKE i \in 1..Len(decoding')
    <3>1. /\ i + 1 \in 1..Len(decoding) /\ decoding'[i] = decoding[i + 1]
          /\ decoding'[i].n > c
      BY <2>1
    <3>2. /\ decoding[i + 1].n \in Dem!MediaIn("decoder")
          /\ decoding[i + 1] = D[decoding[i + 1].n]
      BY <3>1, <1>3 DEF InCodec
    <3> QED BY <3>1, <3>2
  <2>3. \A i, j \in 1..Len(decoding') : i < j => decoding'[i].n < decoding'[j].n
    <3> TAKE i, j \in 1..Len(decoding')
    <3> HAVE i < j
    <3>1. i + 1 \in 1..Len(decoding) /\ j + 1 \in 1..Len(decoding) /\ i + 1 < j + 1
      BY <2>1
    <3> QED BY <3>1, <2>1, <1>3 DEF InCodec
  <2>4. ASSUME NEW d \in Dem!MediaIn("decoder"), d > c
        PROVE  \E i \in 1..Len(decoding') : decoding'[i].n = d
    <3>1. d > b /\ d \in Int
      <4>1. d \in Int
        BY LenProperties DEF Dem!MediaIn, DemInv, DemTyped, Dem!Sink
      <4> QED BY <4>1, <1>4, <1>5, <2>4
    <3>2. PICK i \in 1..Len(decoding) : decoding[i].n = d
      BY <1>3, <3>1 DEF InCodec
    <3>3. i # 1
      BY <1>5, <2>4, <3>1, <3>2, <1>0
    <3>4. i - 1 \in 1..Len(decoding') /\ (i - 1) + 1 = i
      BY <1>1, <3>2, <3>3
    <3> QED BY <2>1, <3>2, <3>4
  <2> QED BY <1>2, <2>2, <2>3, <2>4 DEF InCodec
<1>7. ASSUME NEW k \in 1..Len(frameSinks)
      PROVE  Awaits(frameSinks[k])' /\ HasFrames(frameSinks[k], c - 1)'
  <2>0. PICK s : s = frameSinks[k] /\ s = frameSinks'[k]
    OBVIOUS
  <2>1. Awaits(s)'
    BY <2>0, <1>1, <1>4, <1>5 DEF Awaits
  <2>2. HasFrames(s, b)
    BY <2>0, <1>7 DEF FramesUpTo, Awaits
  <2>3. \A e \in Dem!MediaIn("decoder") : e <= b <=> e <= c - 1
    <3> TAKE e \in Dem!MediaIn("decoder")
    <3>1. e \in Int
      BY LenProperties DEF Dem!MediaIn, DemInv, DemTyped, Dem!Sink
    <3>2. e > b => e >= c
      <4>1. ASSUME e > b PROVE e >= c
        <5>1. PICK i \in 1..Len(decoding) : decoding[i].n = e
          BY <1>3, <4>1 DEF InCodec
        <5>2. CASE i = 1
          BY <5>1, <5>2, <3>1, <1>5, <1>0
        <5>3. CASE i # 1
          <6>1. 1 < i /\ 1 \in 1..Len(decoding)
            BY <5>1, <5>3, <1>1
          <6>2. decoding[1].n < decoding[i].n
            BY <1>3, <6>1 DEF InCodec
          <6> QED BY <5>1, <6>2, <3>1, <1>5, <1>0
        <5> QED BY <5>2, <5>3
      <4> QED BY <4>1
    <3> QED BY <3>1, <3>2, <1>4, <1>5
  <2>4. HasFrames(s, c - 1)'
    BY <1>2, <2>2, <2>3 DEF HasFrames
  <2> QED BY <2>0, <2>1, <2>4
<1>8. FramesUpTo(c)'
  BY <1>1, <1>2, <1>4, <1>6, <1>7 DEF FramesUpTo
<1> QED BY <1>1, <1>5, <1>8

LEMMA ReceiveFrameKeeps ==
  ASSUME DemInv, Dem!ReceiveFrame
  PROVE  DemInv'
<1>1. /\ demuxer = "decode" /\ passTo = <<>> /\ demuxer' \in {"push", "decode"}
      /\ UNCHANGED Dem!setup /\ config' = config /\ item' = item /\ pushTo' = pushTo
      /\ opening' = opening /\ opened' = opened /\ opens' = opens
      /\ closed' = closed /\ disabled' = disabled /\ received' = received /\ got' = got
      /\ \/ /\ decoding # <<>> /\ passTo' = frameSinks /\ passed' = Head(decoding)
            /\ decoding' = Tail(decoding)
         \/ UNCHANGED <<decoding, passTo, passed>>
  BY DEF Dem!ReceiveFrame
<1>2. /\ DemSetup' /\ SinksOpened' /\ Ranked' /\ Merging' /\ Dem!Expected' = Dem!Expected
      /\ frameSinks' = frameSinks /\ packetSinks' = packetSinks /\ DemSetup
  BY <1>1, StreamKept DEF DemInv
<1>3. Given'
  BY <1>1, <1>2, GivenSame
<1>4. CASE /\ decoding # <<>> /\ passTo' = frameSinks /\ passed' = Head(decoding)
           /\ decoding' = Tail(decoding)
  <2>1. Head(decoding) \in Item /\ Tail(decoding) \in Seq(Item)
    BY <1>4, HeadTailProperties DEF DemInv, DemTyped
  <2>2. DemTyped'
    BY <1>1, <1>2, <1>4, <2>1, SinksNamed DEF DemInv, DemTyped
  <2>3. Rest(passTo', frameSinks, 1) /\ 1 \in 1..(Len(frameSinks) + 1)
    BY <1>2, <1>4, SinksNamed, RestWhole
  <2>4. ASSUME frameSinks # <<>> PROVE \E c \in 0..Len(D) : FramesUpTo(c)'
    BY <1>1, <1>2, <1>4, <2>4, FrameReturned DEF DemInv, FramesPassed
  <2>5. FramesPassed'
    BY <1>1, <1>2, <1>4, <2>1, <2>3, <2>4 DEF FramesPassed, D
  <2> QED BY <1>2, <1>3, <2>2, <2>5 DEF DemInv
<1>5. CASE UNCHANGED <<decoding, passTo, passed>>
  <2>1. DemTyped'
    BY <1>1, <1>5 DEF DemInv, DemTyped
  <2>2. ASSUME frameSinks # <<>>, NEW b \in 0..Len(D), FramesUpTo(b) PROVE FramesUpTo(b)'
    BY <1>1, <1>2, <1>5, <2>2, FramesKept
  <2>3. FramesPassed'
    BY <1>1, <1>2, <1>5, <2>2 DEF DemInv, FramesPassed, D
  <2> QED BY <1>2, <1>3, <2>1, <2>3 DEF DemInv
<1> QED BY <1>1, <1>4, <1>5

LEMMA DecoderRanked ==
  ASSUME DemInv, frameSinks # <<>>
  PROVE  /\ D \in Seq(Item) /\ Len(D) \in Nat /\ DOMAIN D = 1..Len(D)
         /\ \A i \in 1..Len(D) : D[i].n = i /\ D[i] \in Item
<1>1. D \in Seq(Item) /\ Len(D) \in Nat /\ DOMAIN D = 1..Len(D)
  <2>1. D \in Seq(Item)
    BY DEF DemInv, DemTyped, D, Dem!Sink
  <2> QED BY <2>1, LenProperties
<1>2. packetSinks[1] = "decoder" /\ 1 \in 1..Len(packetSinks)
  BY SinksNamed DEF DemInv
<1>3. \A i \in 1..Len(D) : i <= Len(received) /\ D[i] = Dem!Expected[i]
  BY <1>2 DEF DemInv, Given, D
<1>4. ASSUME NEW i \in 1..Len(D) PROVE D[i].n = i
  <2>1. i \in 1..Len(received)
    BY <1>1, <1>3, ItemsExpected DEF DemInv
  <2>2. Dem!Expected[i].n = i
    BY <2>1, ItemsExpected DEF DemInv
  <2> QED BY <1>3, <2>2
<1> QED BY <1>1, <1>4, ElementOfSeq

LEMMA InRest ==
  ASSUME DemSetup, NEW rest, NEW j, Rest(rest, frameSinks, j), NEW k \in 1..Len(frameSinks)
  PROVE  (\E i \in 1..Len(rest) : rest[i] = frameSinks[k]) <=> k >= j
<1>1. Len(frameSinks) \in Nat /\ j \in Int
  BY SinksNamed DEF Rest
<1>2. ASSUME k >= j PROVE \E i \in 1..Len(rest) : rest[i] = frameSinks[k]
  <2>1. k - j + 1 \in 1..Len(rest) /\ j + (k - j + 1) - 1 = k
    BY <1>1, <1>2 DEF Rest
  <2> QED BY <2>1 DEF Rest
<1>3. ASSUME NEW i \in 1..Len(rest), rest[i] = frameSinks[k] PROVE k >= j
  <2>1. rest[i] = frameSinks[j + i - 1] /\ j + i - 1 \in 1..Len(frameSinks)
    BY <1>1 DEF Rest
  <2>2. j + i - 1 = k
    <3>1. PICK l \in 1..Len(frameSinks) : l = j + i - 1
      BY <2>1
    <3>2. frameSinks[l] = frameSinks[k]
      BY <1>3, <2>1, <3>1
    <3>3. l # k => frameSinks[l] # frameSinks[k]
      BY SinksNamed
    <3> QED BY <3>1, <3>2, <3>3
  <2> QED BY <1>1, <2>2
<1> QED BY <1>2, <1>3

(* A sink of the decoder is given the frame, or the session.               *)
LEMMA FramePassed ==
  ASSUME DemInv, NEW b \in 0..Len(D), FramesUpTo(b), UNCHANGED <<frameSinks, decoding, passed>>,
         passTo # <<>>, passTo' = Tail(passTo), Dem!Give(Head(passTo), passed)
  PROVE  FramesUpTo(b)'
<1>1. /\ DemSetup /\ demuxer \in {"push", "decode"} /\ passed \in Item
      /\ passTo \in Seq(Dem!Sink) /\ got \in [Dem!Sink -> Seq(Item)]
  BY DEF DemInv, DemTyped, FramesPassed
<1>2. PICK j \in 1..(Len(frameSinks) + 1) : Rest(passTo, frameSinks, j)
  BY <1>1 DEF DemInv, FramesPassed
<1>3. PICK s : s = Head(passTo)
  OBVIOUS
<1>4. /\ j \in 1..Len(frameSinks) /\ s = frameSinks[j] /\ s \in Dem!Sink
      /\ Rest(passTo', frameSinks, j + 1)
  <2>1. frameSinks \in Seq(Dem!Sink)
    BY <1>1, SinksNamed
  <2> QED BY <1>1, <1>2, <1>3, <2>1, RestTail
<1>5. frameSinks # <<>> /\ s # "decoder" /\ "decoder" \in Dem!Sink
  <2>1. s \in {"screen", "v4l2"}
    BY <1>1, <1>4, SinksNamed
  <2>2. Len(<<>>) = 0 /\ 1..0 = {}
    OBVIOUS
  <2>3. frameSinks # <<>>
    BY <1>4, <2>2
  <2> QED BY <2>1, <2>3 DEF Dem!Sink
<1>6. /\ Len(got[s]) \in Nat /\ Len(got'[s]) = Len(got[s]) + 1
      /\ got'[s][Len(got[s]) + 1] = passed
      /\ \A n \in 1..Len(got[s]) : got'[s][n] = got[s][n]
      /\ DOMAIN got'[s] = 1..(Len(got[s]) + 1) /\ DOMAIN got[s] = 1..Len(got[s])
      /\ \A t \in Dem!Sink : t # s => got'[t] = got[t]
  BY <1>1, <1>3, <1>4, GiveAppends
<1>7. D' = D /\ Dem!MediaIn("decoder")' = Dem!MediaIn("decoder")
  BY <1>5, <1>6 DEF D, Dem!MediaIn
<1>8. InCodec(b)'
  BY <1>7 DEF FramesUpTo, InCodec
<1>9. \A i \in Dem!MediaIn("decoder") : i \in 1..Len(D) /\ D[i].n = i /\ D[i].kind = "media"
  BY <1>5, DecoderRanked DEF Dem!MediaIn, D
<1>10. Dem!MediaIn(s)' = Dem!MediaIn(s) \cup (IF passed.kind = "media" THEN {Len(got[s]) + 1} ELSE {})
  <2>1. Dem!MediaIn(s)' = {i \in 1..(Len(got[s]) + 1) : got'[s][i].kind = "media"}
    BY <1>6 DEF Dem!MediaIn
  <2>2. Dem!MediaIn(s) = {i \in 1..Len(got[s]) : got[s][i].kind = "media"}
    BY <1>6 DEF Dem!MediaIn
  <2>3. 1..(Len(got[s]) + 1) = 1..Len(got[s]) \cup {Len(got[s]) + 1}
    BY <1>6
  <2> QED BY <2>1, <2>2, <2>3, <1>6
<1>11. \A i \in Dem!MediaIn(s) : i \in 1..Len(got[s]) /\ got'[s][i] = got[s][i]
  BY <1>6 DEF Dem!MediaIn
<1>12. HasFrames(s, b)'
  <2>1. CASE passed.kind # "media"
    <3>1. ~Awaits(s)
      BY <2>1 DEF Awaits
    <3>2. HasFrames(s, b)
      BY <1>1, <1>4, <3>1 DEF FramesUpTo
    <3>3. Dem!MediaIn(s)' = Dem!MediaIn(s)
      BY <1>10, <2>1
    <3> QED BY <1>7, <1>11, <3>2, <3>3 DEF HasFrames
  <2>2. CASE passed.kind = "media"
    <3> DEFINE m == Len(got[s]) + 1
    <3>1. Awaits(s)
      BY <1>1, <1>2, <1>4, <2>2, InRest DEF Awaits
    <3>2. HasFrames(s, b - 1) /\ b \in Dem!MediaIn("decoder") /\ passed = D[b]
      BY <1>4, <3>1 DEF FramesUpTo
    <3>3. b \in Nat /\ b \in 1..Len(D) /\ D[b].n = b /\ D[b] \in Item
      BY <1>5, <1>9, <3>2, DecoderRanked
    <3>4. Dem!MediaIn(s)' = Dem!MediaIn(s) \cup {m} /\ got'[s][m] = D[b]
      BY <1>6, <1>10, <2>2, <3>2
    <3>5. \A i \in Dem!MediaIn(s) : i < m /\ i # m /\ ~(m < i)
      BY <1>6, <1>11
    <3> HIDE DEF m
    <3>6. \A i \in Dem!MediaIn(s) :
            /\ got'[s][i].n \in Dem!MediaIn("decoder") /\ got'[s][i] = D[got'[s][i].n]
            /\ got'[s][i].n <= b /\ got'[s][i].n < b
      <4> TAKE i \in Dem!MediaIn(s)
      <4>1. /\ got[s][i].n \in Dem!MediaIn("decoder") /\ got[s][i].n <= b - 1
            /\ got[s][i] = D[got[s][i].n]
        BY <3>2 DEF HasFrames
      <4>2. got[s][i].n \in Int
        BY <4>1, <1>9
      <4> QED BY <4>1, <4>2, <3>3, <1>11
    <3>7. \A i, l \in Dem!MediaIn(s) \cup {m} : i < l => got'[s][i].n < got'[s][l].n
      <4> TAKE i, l \in Dem!MediaIn(s) \cup {m}
      <4> HAVE i < l
      <4>0. ~(m < m) /\ m \in Int
        BY <1>6 DEF m
      <4>1. i \in Dem!MediaIn(s)
        BY <4>0, <3>5
      <4>2. CASE l = m
        BY <4>1, <4>2, <3>3, <3>4, <3>6
      <4>3. CASE l \in Dem!MediaIn(s)
        BY <4>1, <4>3, <1>11, <3>2 DEF HasFrames
      <4> QED BY <4>2, <4>3
    <3>8. ASSUME NEW d \in Dem!MediaIn("decoder"), d <= b
          PROVE  \E i \in Dem!MediaIn(s) \cup {m} : got'[s][i] = D[d]
      <4>1. CASE d = b
        BY <4>1, <3>4
      <4>2. CASE d # b
        <5>1. d <= b - 1
          BY <4>2, <3>8, <3>3, <1>9
        <5>2. PICK i \in Dem!MediaIn(s) : got[s][i] = D[d]
          BY <5>1, <3>2 DEF HasFrames
        <5> QED BY <5>2, <1>11
      <4> QED BY <4>1, <4>2
    <3>9. \A i \in Dem!MediaIn(s) \cup {m} :
            got'[s][i].n \in Dem!MediaIn("decoder") /\ got'[s][i].n <= b
              /\ got'[s][i] = D[got'[s][i].n]
      BY <3>2, <3>3, <3>4, <3>6
    <3> QED BY <1>7, <3>4, <3>7, <3>8, <3>9 DEF HasFrames
  <2> QED BY <2>1, <2>2
<1>13. ASSUME NEW k \in 1..Len(frameSinks)
       PROVE  IF Awaits(frameSinks[k])'
              THEN /\ HasFrames(frameSinks[k], b - 1)' /\ b \in Dem!MediaIn("decoder")'
                   /\ passed' = D'[b]
              ELSE \/ HasFrames(frameSinks[k], b)'
                   \/ demuxer' \in {"close", "report", "ended"} /\ HasFrames(frameSinks[k], b - 1)'
  <2>1. PICK t : t = frameSinks[k] /\ t = frameSinks'[k]
    OBVIOUS
  <2>2. Awaits(t) <=> passed.kind = "media" /\ k >= j
    <3>1. (\E i \in 1..Len(passTo) : passTo[i] = frameSinks[k]) <=> k >= j
      BY <1>1, <1>2, InRest
    <3> QED BY <2>1, <3>1 DEF Awaits
  <2>3. Awaits(t)' <=> passed.kind = "media" /\ k >= j + 1
    <3>1. (\E i \in 1..Len(passTo') : passTo'[i] = frameSinks[k]) <=> k >= j + 1
      BY <1>1, <1>4, InRest
    <3> QED BY <2>1, <3>1 DEF Awaits
  <2>4. CASE k = j
    <3>1. ~Awaits(t)' /\ t = s
      BY <1>4, <2>1, <2>3, <2>4
    <3> QED BY <1>12, <2>1, <3>1
  <2>5. CASE k # j
    <3>1. Awaits(t)' <=> Awaits(t)
      BY <2>2, <2>3, <2>5
    <3>2. t # s /\ t \in Dem!Sink
      <4>1. frameSinks[k] \in {"screen", "v4l2"} /\ (k # j => frameSinks[k] # frameSinks[j])
        BY <1>1, <1>4, SinksNamed
      <4> QED BY <1>4, <2>1, <2>5, <4>1 DEF Dem!Sink
    <3>3. Dem!MediaIn(t)' = Dem!MediaIn(t) /\ got'[t] = got[t]
      BY <1>6, <3>2 DEF Dem!MediaIn
    <3>4. \A c : HasFrames(t, c) => HasFrames(t, c)'
      BY <1>7, <3>3 DEF HasFrames
    <3>5. IF Awaits(t) THEN HasFrames(t, b - 1) /\ b \in Dem!MediaIn("decoder") /\ passed = D[b]
          ELSE HasFrames(t, b)
      BY <1>1, <2>1 DEF FramesUpTo
    <3> QED BY <1>7, <2>1, <3>1, <3>4, <3>5
  <2> QED BY <2>4, <2>5
<1> QED BY <1>8, <1>13 DEF FramesUpTo

LEMMA PushFrameKeeps ==
  ASSUME DemInv, Dem!PushFrame
  PROVE  DemInv'
<1>1. /\ passTo # <<>> /\ demuxer' = demuxer /\ passTo' = Tail(passTo)
      /\ Dem!Give(Head(passTo), passed)
      /\ UNCHANGED Dem!setup /\ config' = config /\ item' = item /\ pushTo' = pushTo
      /\ opening' = opening /\ opened' = opened /\ opens' = opens /\ decoding' = decoding
      /\ closed' = closed /\ disabled' = disabled /\ received' = received /\ passed' = passed
  BY DEF Dem!PushFrame
<1>2. demuxer \in {"push", "decode"} /\ passed \in Item
  BY <1>1 DEF DemInv, FramesPassed
<1>3. /\ DemSetup' /\ SinksOpened' /\ Ranked' /\ Merging' /\ Dem!Expected' = Dem!Expected
      /\ frameSinks' = frameSinks /\ packetSinks' = packetSinks /\ DemSetup
  BY <1>1, <1>2, StreamKept DEF DemInv
<1>4. PICK j \in 1..(Len(frameSinks) + 1) : Rest(passTo, frameSinks, j)
  BY <1>2 DEF DemInv, FramesPassed
<1>5. /\ j \in 1..Len(frameSinks) /\ Head(passTo) = frameSinks[j] /\ Head(passTo) \in Dem!Sink
      /\ passTo' \in Seq(Dem!Sink) /\ Rest(passTo', frameSinks, j + 1)
  <2>1. frameSinks \in Seq(Dem!Sink) /\ passTo \in Seq(Dem!Sink)
    BY <1>3, SinksNamed DEF DemInv, DemTyped
  <2> QED BY <1>1, <1>4, <2>1, RestTail
<1>6. Head(passTo) \in {"screen", "v4l2"} /\ frameSinks # <<>> /\ Len(frameSinks) \in Nat
  BY <1>3, <1>5, SinksNamed
<1>7. got' \in [Dem!Sink -> Seq(Item)] /\ \A t \in Dem!Sink : t # Head(passTo) => got'[t] = got[t]
  BY <1>1, <1>2, <1>5, GiveAppends DEF DemInv, DemTyped
<1>8. DemTyped'
  BY <1>1, <1>5, <1>7 DEF DemInv, DemTyped
<1>9. Given'
  <2>1. ASSUME NEW k \in 1..Len(packetSinks) PROVE got'[packetSinks[k]] = got[packetSinks[k]]
    <3>1. packetSinks[k] \in {"decoder", "recorder"}
      BY <1>3, SinksNamed
    <3> QED BY <3>1, <1>6, <1>7 DEF Dem!Sink
  <2> QED BY <1>1, <1>2, <1>3, <2>1, GivenSame
<1>10. FramesPassed'
  <2>1. PICK b \in 0..Len(D) : FramesUpTo(b)
    BY <1>6 DEF DemInv, FramesPassed
  <2>2. FramesUpTo(b)'
    BY <1>1, <1>3, <2>1, FramePassed
  <2>3. D' = D
    BY <1>6, <1>7 DEF D, Dem!Sink
  <2>4. j + 1 \in 1..(Len(frameSinks) + 1)
    BY <1>5, <1>6
  <2> QED BY <1>1, <1>2, <1>3, <1>5, <2>2, <2>3, <2>4 DEF FramesPassed
<1> QED BY <1>3, <1>8, <1>9, <1>10 DEF DemInv

(* The decoder is given the item: its codec has the packet.                *)
LEMMA DecoderGiven ==
  ASSUME DemInv, frameSinks # <<>>, NEW b \in 0..Len(D), FramesUpTo(b), frameSinks' = frameSinks,
         demuxer = "push", passTo = <<>>, Dem!Give("decoder", item),
         Len(D) = Len(received) - 1, \A t : ~Awaits(t)',
         decoding' = IF item.kind = "media" THEN Append(decoding, item) ELSE decoding
  PROVE  b \in 0..Len(D') /\ FramesUpTo(b)'
<1>1. PICK m : m = Len(received)
  OBVIOUS
<1>2. m \in Nat \ {0} /\ item \in Item /\ item.n = m /\ Len(D) + 1 = m
  BY <1>1, ItemPushed
<1>3. /\ Len(D') = m /\ D'[m] = item /\ \A n \in 1..Len(D) : D'[n] = D[n]
      /\ DOMAIN D' = 1..m /\ DOMAIN D = 1..Len(D)
      /\ \A t \in Dem!Sink : t # "decoder" => got'[t] = got[t]
  <2>1. "decoder" \in Dem!Sink /\ got \in [Dem!Sink -> Seq(Item)]
    BY DEF Dem!Sink, DemInv, DemTyped
  <2> QED BY <1>2, <2>1, GiveAppends DEF D
<1>4. Dem!MediaIn("decoder")' =
        Dem!MediaIn("decoder") \cup (IF item.kind = "media" THEN {m} ELSE {})
  <2>1. Dem!MediaIn("decoder")' = {i \in 1..m : D'[i].kind = "media"}
    BY <1>3 DEF Dem!MediaIn, D
  <2>2. Dem!MediaIn("decoder") = {i \in 1..Len(D) : D[i].kind = "media"}
    BY <1>3 DEF Dem!MediaIn, D
  <2>3. 1..m = 1..Len(D) \cup {m}
    BY <1>2
  <2> QED BY <2>1, <2>2, <2>3, <1>3
<1>5. \A d \in Dem!MediaIn("decoder") : d \in 1..Len(D) /\ d < m /\ D'[d] = D[d]
  BY <1>2, <1>3 DEF Dem!MediaIn, D
<1>6. b \in Nat /\ b < m /\ b \in 0..Len(D')
  BY <1>2, <1>3
<1>7. InCodec(b)
  BY DEF FramesUpTo
<1>8. /\ Len(decoding) \in Nat
      /\ \A i \in 1..Len(decoding) :
           /\ decoding[i].n \in Dem!MediaIn("decoder") /\ decoding[i] = D'[decoding[i].n]
           /\ decoding[i].n > b /\ decoding[i].n < m
  <2>1. Len(decoding) \in Nat
    BY LenProperties DEF DemInv, DemTyped
  <2> QED BY <2>1, <1>5, <1>7 DEF InCodec
<1>9. InCodec(b)'
  <2>1. CASE item.kind # "media"
    <3>1. decoding' = decoding /\ Dem!MediaIn("decoder")' = Dem!MediaIn("decoder")
      BY <1>4, <2>1
    <3> QED BY <1>7, <1>8, <3>1 DEF InCodec
  <2>2. CASE item.kind = "media"
    <3>1. Dem!MediaIn("decoder")' = Dem!MediaIn("decoder") \cup {m}
      BY <1>4, <2>2
    <3>2. PICK e : e = Len(decoding) + 1
      OBVIOUS
    <3>3. /\ e \in Nat /\ Len(decoding') = e /\ decoding'[e] = item
          /\ \A i \in 1..Len(decoding) : decoding'[i] = decoding[i]
          /\ 1..e = 1..Len(decoding) \cup {e} /\ \A i \in 1..Len(decoding) : i < e
      <4>1. decoding \in Seq(Item) /\ decoding' = Append(decoding, item)
        BY <2>2 DEF DemInv, DemTyped
      <4>2. /\ Len(decoding') = e /\ decoding'[e] = item
            /\ \A i \in 1..Len(decoding) : decoding'[i] = decoding[i]
        BY <1>2, <3>2, <4>1, AppendProperties
      <4> QED BY <1>8, <3>2, <4>2
    <3>4. ASSUME NEW i \in 1..Len(decoding')
          PROVE  /\ decoding'[i].n \in Dem!MediaIn("decoder")'
                 /\ decoding'[i] = D'[decoding'[i].n] /\ decoding'[i].n > b
      <4>1. CASE i = e
        BY <4>1, <1>2, <1>3, <1>6, <3>1, <3>3
      <4>2. CASE i # e
        <5>1. i \in 1..Len(decoding)
          BY <4>2, <3>3
        <5> QED BY <5>1, <1>8, <3>1, <3>3
      <4> QED BY <4>1, <4>2
    <3>5. \A i, j \in 1..Len(decoding') : i < j => decoding'[i].n < decoding'[j].n
      <4> TAKE i, j \in 1..Len(decoding')
      <4> HAVE i < j
      <4>1. i \in 1..Len(decoding)
        BY <3>3, <1>8
      <4>2. CASE j = e
        BY <4>1, <4>2, <1>2, <1>8, <3>3
      <4>3. CASE j # e
        <5>1. j \in 1..Len(decoding)
          BY <4>3, <3>3
        <5> QED BY <4>1, <5>1, <1>7, <3>3 DEF InCodec
      <4> QED BY <4>2, <4>3
    <3>6. ASSUME NEW d \in Dem!MediaIn("decoder")', d > b
          PROVE  \E i \in 1..Len(decoding') : decoding'[i].n = d
      <4>1. CASE d = m
        <5>1. e \in 1..Len(decoding')
          BY <3>3
        <5> QED BY <5>1, <4>1, <1>2, <3>3
      <4>2. CASE d # m
        <5>1. PICK i \in 1..Len(decoding) : decoding[i].n = d
          BY <4>2, <3>1, <3>6, <1>7 DEF InCodec
        <5>2. i \in 1..Len(decoding')
          BY <3>3
        <5> QED BY <5>1, <5>2, <3>3
      <4> QED BY <4>1, <4>2
    <3> QED BY <3>4, <3>5, <3>6 DEF InCodec
  <2> QED BY <2>1, <2>2
<1>10. ASSUME NEW k \in 1..Len(frameSinks) PROVE HasFrames(frameSinks[k], b)'
  <2>1. PICK t : t = frameSinks[k] /\ t = frameSinks'[k]
    OBVIOUS
  <2>2. t \in Dem!Sink /\ t # "decoder"
    <3>1. frameSinks[k] \in {"screen", "v4l2"}
      BY SinksNamed DEF DemInv
    <3> QED BY <2>1, <3>1 DEF Dem!Sink
  <2>3. Dem!MediaIn(t)' = Dem!MediaIn(t) /\ got'[t] = got[t]
    BY <1>3, <2>2 DEF Dem!MediaIn
  <2>4. HasFrames(t, b)
    <3>1. ~Awaits(t)
      BY DEF Awaits
    <3> QED BY <2>1, <3>1 DEF FramesUpTo
  <2>5. \A i \in Dem!MediaIn(t) :
          /\ got[t][i].n \in Dem!MediaIn("decoder")' /\ got[t][i].n <= b
          /\ got[t][i] = D'[got[t][i].n]
    BY <1>4, <1>5, <2>4 DEF HasFrames
  <2>6. \A d \in Dem!MediaIn("decoder")' : d <= b => \E i \in Dem!MediaIn(t) : got[t][i] = D'[d]
    <3> TAKE d \in Dem!MediaIn("decoder")'
    <3> HAVE d <= b
    <3>1. d # m
      BY <1>2, <1>6
    <3>2. d \in Dem!MediaIn("decoder")
      BY <1>4, <3>1
    <3> QED BY <3>2, <1>5, <2>4 DEF HasFrames
  <2>7. HasFrames(t, b)'
    BY <2>3, <2>4, <2>5, <2>6 DEF HasFrames
  <2> QED BY <2>1, <2>7
<1> QED BY <1>6, <1>9, <1>10 DEF FramesUpTo

LEMMA PushDecoderKeeps ==
  ASSUME DemInv, Dem!PushDecoder
  PROVE  DemInv'
<1>1. /\ demuxer = "push" /\ pushTo # <<>> /\ Head(pushTo) = "decoder" /\ passTo = <<>>
      /\ Dem!Give("decoder", item) /\ pushTo' = Tail(pushTo)
      /\ IF item.kind = "media"
         THEN demuxer' = "decode" /\ decoding' = Append(decoding, item)
         ELSE demuxer' = demuxer /\ decoding' = decoding
      /\ IF item.kind = "session"
         THEN passTo' = frameSinks /\ passed' = item
         ELSE passTo' = passTo /\ passed' = passed
      /\ UNCHANGED Dem!setup /\ config' = config /\ item' = item
      /\ opening' = opening /\ opened' = opened /\ opens' = opens
      /\ closed' = closed /\ disabled' = disabled /\ received' = received
  BY DEF Dem!PushDecoder, Dem!Following
<1>2. demuxer' \in {"push", "decode"} /\ item \in Item
  BY <1>1, ItemPushed
<1>3. /\ DemSetup' /\ SinksOpened' /\ Ranked' /\ Merging' /\ Dem!Expected' = Dem!Expected
      /\ frameSinks' = frameSinks /\ packetSinks' = packetSinks /\ DemSetup
  BY <1>1, <1>2, StreamKept DEF DemInv
<1>4. Given' /\ pushTo' \in Seq(Dem!Sink) /\ Len(D) = Len(received) - 1
  BY <1>1, <1>2, <1>3, GivenNext DEF D
<1>5. got' \in [Dem!Sink -> Seq(Item)]
  BY <1>1, <1>2, GiveAppends DEF DemInv, DemTyped, Dem!Sink
<1>6. DemTyped'
  <2>1. decoding' \in Seq(Item)
    <3>1. decoding \in Seq(Item)
      BY DEF DemInv, DemTyped
    <3>2. Append(decoding, item) \in Seq(Item)
      BY <1>2, <3>1, AppendProperties
    <3> QED BY <1>1, <3>1, <3>2
  <2>2. passTo' \in Seq(Dem!Sink) /\ passed' \in Item \cup {Dem!Nothing}
    BY <1>1, <1>2, <1>3, SinksNamed DEF DemInv, DemTyped
  <2> QED BY <1>1, <1>2, <1>4, <1>5, <2>1, <2>2 DEF DemInv, DemTyped
<1>7. FramesPassed'
  <2>1. \E j \in 1..(Len(frameSinks) + 1) : Rest(passTo', frameSinks, j)
    <3>1. frameSinks \in Seq(Dem!Sink) /\ Len(frameSinks) \in Nat
      BY <1>3, SinksNamed
    <3>2. CASE item.kind = "session"
      <4>1. 1 \in 1..(Len(frameSinks) + 1)
        BY <3>1
      <4> QED BY <1>1, <3>1, <3>2, <4>1, RestWhole
    <3>3. CASE item.kind # "session"
      BY <1>1, <3>3 DEF DemInv, FramesPassed
    <3> QED BY <3>2, <3>3
  <2>2. \A t : ~Awaits(t)'
    <3>1. CASE item.kind = "session"
      BY <1>1, <3>1 DEF Awaits
    <3>2. CASE item.kind # "session"
      BY <1>1, <3>2 DEF Awaits
    <3> QED BY <3>1, <3>2
  <2>3. passTo' # <<>> => passed' \in Item
    BY <1>1, <1>2
  <2>4. ASSUME frameSinks # <<>> PROVE \E b \in 0..Len(D') : FramesUpTo(b)'
    <3>1. PICK b \in 0..Len(D) : FramesUpTo(b)
      BY <2>4 DEF DemInv, FramesPassed
    <3>2. decoding' = IF item.kind = "media" THEN Append(decoding, item) ELSE decoding
      BY <1>1
    <3> QED BY <1>1, <1>3, <1>4, <2>2, <2>4, <3>1, <3>2, DecoderGiven
  <2> QED BY <1>2, <1>3, <2>1, <2>3, <2>4 DEF FramesPassed
<1> QED BY <1>3, <1>4, <1>6, <1>7 DEF DemInv

LEMMA NextDemuxer == DemInv /\ [Dem!Next]_Dem!demVars => DemInv'
<1> SUFFICES ASSUME DemInv, [Dem!Next]_Dem!demVars PROVE DemInv'
  OBVIOUS
<1>1. CASE Dem!Next
  BY <1>1, CodecIdKeeps, FirstSessionKeeps, ReceiveKeeps, EndOfStreamKeeps, OpenSinkKeeps,
     OpenedKeeps, PushDecoderKeeps, ReceiveFrameKeeps, PushFrameKeeps, PushSinkKeeps,
     PushFailsKeeps, AllPushedKeeps, CloseSinkKeeps, ClosedReportKeeps DEF Dem!Next
<1>2. CASE UNCHANGED Dem!demVars
  <2>1. /\ UNCHANGED Dem!setup /\ demuxer' = demuxer /\ config' = config /\ decoding' = decoding
        /\ pushTo' = pushTo /\ item' = item /\ passTo' = passTo /\ passed' = passed
        /\ opening' = opening /\ opened' = opened /\ opens' = opens /\ closed' = closed
        /\ disabled' = disabled /\ got' = got /\ received' = received
    BY <1>2 DEF Dem!demVars, Dem!pushState
  <2>2. /\ merges' = merges /\ frameSinks' = frameSinks /\ packetSinks' = packetSinks
        /\ Dem!AllSinks' = Dem!AllSinks
    BY <2>1 DEF Dem!setup, Dem!AllSinks
  <2>3. /\ Dem!Expected' = Dem!Expected
        /\ \A n \in 1..(Len(received) + 1) : Dem!ConfigOf(n)' = Dem!ConfigOf(n)
    BY <2>1, <2>2, SameStream
  <2>4. DemSetup' /\ DemTyped'
    BY <2>1, <2>2 DEF DemInv, DemSetup, DemTyped
  <2>5. SinksOpened' /\ Ranked'
    BY <2>1, <2>2 DEF DemInv, SinksOpened, Ranked
  <2>6. Merging'
    <3>1. Len(received) \in Nat
      BY LenProperties DEF DemInv, DemTyped
    <3>2. Dem!ConfigOf(Len(received) + 1)' = Dem!ConfigOf(Len(received) + 1)
      BY <2>1, <2>3, <3>1
    <3> QED BY <2>1, <2>2, <3>2 DEF DemInv, Merging
  <2>7. Given'
    BY <2>1, <2>2, <2>3 DEF DemInv, Given
  <2>8. FramesPassed'
    <3>1. \A s : Dem!MediaIn(s)' = Dem!MediaIn(s)
      BY <2>1 DEF Dem!MediaIn
    <3>2. D' = D
      BY <2>1 DEF D
    <3>3. \A s : Awaits(s)' <=> Awaits(s)
      BY <2>1 DEF Awaits
    <3>4. \A b : InCodec(b) => InCodec(b)'
      BY <2>1, <3>1, <3>2 DEF InCodec
    <3>5. \A s, b : HasFrames(s, b) => HasFrames(s, b)'
      BY <2>1, <3>1, <3>2 DEF HasFrames
    <3>6. \A b : FramesUpTo(b) => FramesUpTo(b)'
      BY <2>1, <2>2, <3>1, <3>2, <3>3, <3>4, <3>5 DEF FramesUpTo
    <3> QED BY <2>1, <2>2, <3>2, <3>6 DEF DemInv, FramesPassed
  <2> QED BY <2>4, <2>5, <2>6, <2>7, <2>8 DEF DemInv
<1> QED BY <1>1, <1>2

(* The invariant of the demuxer holds for every length of the stream.      *)
THEOREM DemuxerInvariance == Dem!Spec => []DemInv
<1>1. Dem!Init => DemInv
  BY InitDemuxer
<1>2. DemInv /\ [Dem!Next]_Dem!demVars => DemInv'
  BY NextDemuxer
<1> QED BY <1>1, <1>2, PTL DEF Dem!Spec

LEMMA PrefixOf ==
  ASSUME NEW S, NEW s \in Seq(S), NEW T, NEW t \in Seq(T), Len(s) <= Len(t),
         \A i \in 1..Len(s) : s[i] = t[i]
  PROVE  Dem!IsPrefix(s, t)
<1>1. Len(s) \in Nat
  BY LenProperties
<1>2. \A i \in 1..Len(s) : s[i] \in S /\ t[i] \in S
  BY ElementOfSeq
<1>3. /\ SubSeq(s, 1, Len(s)) \in Seq(S) /\ SubSeq(t, 1, Len(s)) \in Seq(S)
      /\ Len(SubSeq(s, 1, Len(s))) = Len(SubSeq(t, 1, Len(s)))
      /\ Len(SubSeq(s, 1, Len(s))) = Len(s)
      /\ \A i \in 1..Len(s) : SubSeq(s, 1, Len(s))[i] = s[i] /\ SubSeq(t, 1, Len(s))[i] = t[i]
  <2>1. /\ SubSeq(s, 1, Len(s)) \in Seq(S)
        /\ Len(SubSeq(s, 1, Len(s))) = IF 1 <= Len(s) THEN Len(s) - 1 + 1 ELSE 0
        /\ \A i \in 1..(Len(s) - 1 + 1) : SubSeq(s, 1, Len(s))[i] = s[1 + i - 1]
    BY <1>1, <1>2, SubSeqProperties
  <2>2. /\ SubSeq(t, 1, Len(s)) \in Seq(S)
        /\ Len(SubSeq(t, 1, Len(s))) = IF 1 <= Len(s) THEN Len(s) - 1 + 1 ELSE 0
        /\ \A i \in 1..(Len(s) - 1 + 1) : SubSeq(t, 1, Len(s))[i] = t[1 + i - 1]
    BY <1>1, <1>2, SubSeqProperties
  <2>3. Len(s) - 1 + 1 = Len(s) /\ \A i \in 1..Len(s) : 1 + i - 1 = i
    BY <1>1
  <2> QED BY <1>1, <2>1, <2>2, <2>3
<1>4. SubSeq(s, 1, Len(s)) = SubSeq(t, 1, Len(s))
  <2> DEFINE u == SubSeq(s, 1, Len(s))  v == SubSeq(t, 1, Len(s))
  <2>1. u \in Seq(S) /\ v \in Seq(S) /\ Len(u) = Len(v) /\ \A i \in 1..Len(u) : u[i] = v[i]
    BY <1>3
  <2> HIDE DEF u, v
  <2>2. u = v
    BY <2>1, SeqEqual
  <2> QED BY <2>2 DEF u, v
<1> QED BY <1>4 DEF Dem!IsPrefix

LEMMA GivenAgree ==
  ASSUME DemInv
  PROVE  Dem!SinksAgree
<1>1. DemSetup /\ Len(received) \in Nat /\ DOMAIN received = 1..Len(received)
  BY ItemsExpected DEF DemInv
<1>2. /\ DOMAIN packetSinks = 1..Len(packetSinks) /\ Len(packetSinks) \in 1..2
      /\ \A k \in 1..Len(packetSinks) : got[packetSinks[k]] \in Seq(Item)
  <2>1. /\ packetSinks \in Seq(Dem!Sink) /\ Len(packetSinks) \in 1..2
        /\ \A k \in 1..Len(packetSinks) : packetSinks[k] \in Dem!Sink
    BY <1>1, SinksNamed DEF Dem!Sink
  <2> QED BY <2>1, LenProperties DEF DemInv, DemTyped
<1>3. ASSUME NEW k \in 1..Len(packetSinks) PROVE Dem!IsPrefix(got[packetSinks[k]], Dem!Expected)
  <2> DEFINE T == {Dem!Expected[n] : n \in 1..Len(received)}
  <2>1. Dem!Expected \in Seq(T) /\ Len(Dem!Expected) = Len(received)
    <3>1. DOMAIN Dem!Expected = 1..Len(received) /\ Dem!Expected = [n \in 1..Len(received) |-> Dem!Expected[n]]
      BY <1>1 DEF Dem!Expected
    <3>2. Dem!Expected \in [1..Len(received) -> T]
      BY <3>1
    <3> HIDE DEF T
    <3>3. Dem!Expected \in Seq(T)
      BY <1>1, <3>2
    <3> QED BY <1>1, <3>1, <3>3, LenProperties
  <2>2. \A i \in 1..Len(got[packetSinks[k]]) :
          i <= Len(received) /\ got[packetSinks[k]][i] = Dem!Expected[i]
    BY DEF DemInv, Given
  <2>3. Len(got[packetSinks[k]]) \in Nat
    BY <1>2, LenProperties
  <2>4. Len(got[packetSinks[k]]) <= Len(received)
    <3>1. CASE Len(got[packetSinks[k]]) = 0
      BY <1>1, <3>1
    <3>2. CASE Len(got[packetSinks[k]]) # 0
      BY <2>2, <2>3, <3>2
    <3> QED BY <3>1, <3>2
  <2> HIDE DEF T
  <2> QED BY <1>2, <2>1, <2>2, <2>4, PrefixOf
<1>4. \A k \in 1..Len(packetSinks) :
        k > 1 => Len(got[packetSinks[k]]) <= Len(got[packetSinks[k - 1]])
  <2> TAKE k \in 1..Len(packetSinks)
  <2> HAVE k > 1
  <2>1. k = 2 /\ k - 1 = 1 /\ Len(packetSinks) = 2
    BY <1>2
  <2> QED BY <2>1 DEF DemInv, Given
<1>5. ASSUME NEW s \in Dem!Range(frameSinks) PROVE \E c \in Int : HasFrames(s, c)
  <2>1. PICK k \in 1..Len(frameSinks) : s = frameSinks[k]
    BY <1>1, SinksNamed, LenProperties DEF Dem!Range
  <2>2. frameSinks # <<>>
    <3>1. Len(<<>>) = 0 /\ 1..0 = {}
      OBVIOUS
    <3> QED BY <2>1, <3>1
  <2>3. PICK b \in 0..Len(D) : FramesUpTo(b)
    BY <2>2 DEF DemInv, FramesPassed
  <2>4. b \in Int /\ b - 1 \in Int
    OBVIOUS
  <2> QED BY <2>1, <2>3, <2>4 DEF FramesUpTo
<1>6. ASSUME NEW s \in Dem!Range(frameSinks), NEW i \in Dem!MediaIn(s)
      PROVE  /\ \A j \in Dem!MediaIn(s) : j < i => got[s][j].n < got[s][i].n
             /\ \E d \in Dem!MediaIn("decoder") :
                  /\ got[s][i] = got["decoder"][d]
                  /\ \A e \in Dem!MediaIn("decoder") :
                       e < d => \E j \in Dem!MediaIn(s) : got[s][j] = got["decoder"][e]
  <2>1. PICK c \in Int : HasFrames(s, c)
    BY <1>5
  <2>2. PICK d \in Dem!MediaIn("decoder") : d = got[s][i].n /\ d <= c /\ got[s][i] = D[d]
    BY <2>1 DEF HasFrames
  <2>3. ASSUME NEW e \in Dem!MediaIn("decoder"), e < d PROVE \E j \in Dem!MediaIn(s) : got[s][j] = D[e]
    <3>1. e \in Int /\ d \in Int
      BY LenProperties DEF Dem!MediaIn, DemInv, DemTyped, Dem!Sink
    <3>2. e <= c
      BY <2>2, <2>3, <3>1
    <3> QED BY <2>1, <3>2 DEF HasFrames
  <2> QED BY <2>1, <2>2, <2>3 DEF HasFrames, D
<1> QED BY <1>2, <1>3, <1>4, <1>6 DEF Dem!SinksAgree

LEMMA OpenedClosed ==
  ASSUME DemInv
  PROVE  Dem!SinksClosed
BY DEF DemInv, SinksOpened, Dem!SinksClosed

-----------------------------------------------------------------------------
(***************************************************************************)
(* The V4L2 sink.  A frame goes from the buffer to the thread, from there  *)
(* to the encoder and to the device: whatever is further on is older.      *)
(***************************************************************************)
Older(s, n)  == \A i \in 1..Len(s) : s[i] < n
Mounting(s)  == \A i, j \in 1..Len(s) : i < j => s[i] < s[j]

V4Typed ==
  /\ v4Pushed \in Nat /\ buffered \in Nat /\ v4Frame \in Nat
  /\ encoding \in Seq(Nat) /\ v4Written \in Seq(Nat)
  /\ hasFrame \in BOOLEAN /\ v4Stopped \in BOOLEAN

V4Ordered ==
  /\ Mounting(v4Written) /\ Mounting(encoding)
  /\ \A i \in 1..Len(encoding) : Older(v4Written, encoding[i])
  /\ v4Frame # 0 => Older(v4Written, v4Frame) /\ Older(encoding, v4Frame)
  /\ buffered # 0 =>
       Older(v4Written, buffered) /\ Older(encoding, buffered) /\ v4Frame < buffered
  /\ Older(v4Written, v4Pushed + 1) /\ Older(encoding, v4Pushed + 1)
  /\ v4Frame <= v4Pushed /\ buffered <= v4Pushed

V4Phases ==
  /\ v4Sink \in {"closed", "failed"} => v4Pc = "off"
  /\ v4Pc = "encode" <=> v4Frame # 0
  /\ hasFrame = (buffered # 0)
  /\ v4Pc \in {"wait", "encode"} => resources = V4!Range(V4!Ladder)

V4Inv == V4Typed /\ V4Ordered /\ V4Phases

LEMMA MountingGrows ==
  ASSUME NEW s \in Seq(Nat), NEW n \in Nat, Mounting(s), Older(s, n)
  PROVE  /\ Append(s, n) \in Seq(Nat) /\ Mounting(Append(s, n))
         /\ \A m \in Nat : n < m => Older(Append(s, n), m)
<1> DEFINE t == Append(s, n)
<1>1. /\ t \in Seq(Nat) /\ Len(s) \in Nat /\ Len(t) = Len(s) + 1 /\ t[Len(s) + 1] = n
      /\ \A i \in 1..Len(s) : t[i] = s[i] /\ s[i] \in Nat
  BY AppendProperties, LenProperties, ElementOfSeq
<1> HIDE DEF t
<1>2. \A i \in 1..Len(t) : i = Len(s) + 1 \/ i \in 1..Len(s)
  BY <1>1
<1>3. ASSUME NEW i \in 1..Len(t), NEW j \in 1..Len(t), i < j PROVE t[i] < t[j]
  <2>1. i \in 1..Len(s)
    BY <1>1, <1>3
  <2> QED BY <2>1, <1>1, <1>2, <1>3 DEF Mounting, Older
<1>4. ASSUME NEW m \in Nat, n < m, NEW i \in 1..Len(t) PROVE t[i] < m
  <2>1. CASE i = Len(s) + 1
    BY <2>1, <1>1, <1>4
  <2>2. CASE i # Len(s) + 1
    <3>1. s[i] < n /\ t[i] = s[i] /\ s[i] \in Nat
      BY <2>2, <1>1, <1>2 DEF Older
    <3> QED BY <3>1, <1>4
  <2> QED BY <2>1, <2>2
<1> QED BY <1>1, <1>3, <1>4 DEF t, Mounting, Older

LEMMA MountingLosesFirst ==
  ASSUME NEW s \in Seq(Nat), s # <<>>, Mounting(s)
  PROVE  /\ Head(s) \in Nat /\ Tail(s) \in Seq(Nat) /\ Mounting(Tail(s))
         /\ \A i \in 1..Len(Tail(s)) : Head(s) < Tail(s)[i]
         /\ \A m \in Nat : Older(s, m) => Older(Tail(s), m) /\ Head(s) < m
         /\ Head(s) = s[1] /\ 1 \in 1..Len(s)
         /\ \A i \in 1..Len(Tail(s)) : i + 1 \in 1..Len(s) /\ Tail(s)[i] = s[i + 1]
<1> DEFINE t == Tail(s)
<1>1. /\ t \in Seq(Nat) /\ Len(s) \in Nat \ {0} /\ Len(t) = Len(s) - 1 /\ Head(s) = s[1]
      /\ Head(s) \in Nat /\ \A i \in 1..Len(t) : t[i] = s[i + 1]
  BY HeadTailProperties, LenProperties, EmptySeq
<1> HIDE DEF t
<1>2. 1 \in 1..Len(s) /\ \A i \in 1..Len(t) : i + 1 \in 1..Len(s) /\ 1 < i + 1
  BY <1>1
<1>3. Mounting(t)
  <2> SUFFICES ASSUME NEW i \in 1..Len(t), NEW j \in 1..Len(t), i < j PROVE t[i] < t[j]
    BY DEF Mounting
  <2>1. i + 1 < j + 1
    BY <1>1
  <2> QED BY <2>1, <1>1, <1>2 DEF Mounting
<1>4. \A i \in 1..Len(t) : Head(s) < t[i]
  BY <1>1, <1>2 DEF Mounting
<1>5. \A m \in Nat : Older(s, m) => Older(t, m) /\ Head(s) < m
  BY <1>1, <1>2 DEF Older
<1> QED BY <1>1, <1>2, <1>3, <1>4, <1>5 DEF t

LEMMA InitV4l2 == V4!Init => V4Inv
<1> SUFFICES ASSUME V4!Init PROVE V4Inv
  OBVIOUS
<1>1. encoding = <<>> /\ v4Written = <<>> /\ Len(<<>>) = 0 /\ 1..0 = {} /\ <<>> \in Seq(Nat)
  BY DEF V4!Init
<1>2. V4Typed
  BY <1>1 DEF V4!Init, V4Typed
<1>4. 1..Len(encoding) = {} /\ 1..Len(v4Written) = {}
  BY <1>1
<1>5. V4Ordered
  BY <1>4 DEF V4!Init, V4Ordered, Mounting, Older
<1>3. V4Phases
  BY DEF V4!Init, V4Phases
<1> QED BY <1>2, <1>3, <1>5 DEF V4Inv

LEMMA SinkStepsKeepV4l2 ==
  ASSUME V4Inv, V4!Open \/ V4!StopV4l2 \/ V4!Close \/ UNCHANGED V4!v4Vars
  PROVE  V4Inv'
<1>1. /\ v4Frame' = v4Frame /\ encoding' = encoding /\ v4Written' = v4Written
      /\ hasFrame' = hasFrame /\ buffered' = buffered /\ v4Pushed' = v4Pushed
      /\ v4Stopped' \in BOOLEAN
  BY DEF V4Inv, V4Typed, V4!Open, V4!StopV4l2, V4!Close, V4!v4Vars, V4!v4Thread
<1>2. V4Typed' /\ V4Ordered'
  BY <1>1 DEF V4Inv, V4Typed, V4Ordered, Mounting, Older
<1>3. V4Phases'
  BY <1>1 DEF V4Inv, V4Phases, V4!Open, V4!StopV4l2, V4!Close, V4!Joined, V4!v4Vars, V4!v4Thread
<1> QED BY <1>2, <1>3 DEF V4Inv

LEMMA PushKeepsV4l2 ==
  ASSUME V4Inv, V4!Push
  PROVE  V4Inv'
<1>1. /\ v4Frame' = v4Frame /\ encoding' = encoding /\ v4Written' = v4Written
      /\ v4Pushed' = v4Pushed + 1 /\ buffered' = v4Pushed + 1 /\ v4Stopped' = v4Stopped
      /\ v4Sink' = v4Sink /\ v4Pc' = v4Pc /\ resources' = resources
      /\ hasFrame' = (buffered = 0 \/ hasFrame)
  BY DEF V4!Push, V4!Signals, V4!v4Thread
<1>2. hasFrame' = TRUE
  <2>1. hasFrame = (buffered # 0)
    BY DEF V4Inv, V4Phases
  <2>2. CASE buffered = 0
    BY <1>1, <2>2
  <2>3. CASE buffered # 0
    BY <1>1, <2>1, <2>3
  <2> QED BY <2>2, <2>3
<1>3. v4Pushed \in Nat /\ v4Pushed + 1 \in Nat /\ v4Pushed + 1 # 0
  BY DEF V4Inv, V4Typed
<1>4. V4Typed'
  BY <1>1, <1>2, <1>3 DEF V4Inv, V4Typed
<1>5. V4Phases'
  BY <1>1, <1>2, <1>3 DEF V4Inv, V4Phases
<1>6. \A s \in Seq(Nat) : Older(s, v4Pushed + 1) => Older(s, v4Pushed + 2)
  <2> SUFFICES ASSUME NEW s \in Seq(Nat), Older(s, v4Pushed + 1), NEW i \in 1..Len(s)
               PROVE  s[i] < v4Pushed + 2
    BY DEF Older
  <2>1. s[i] \in Nat
    BY ElementOfSeq
  <2> QED BY <2>1, <1>3 DEF Older
<1>7. V4Ordered'
  <2>1. v4Frame < v4Pushed + 1 /\ v4Frame <= v4Pushed + 1
    BY <1>3 DEF V4Inv, V4Typed, V4Ordered
  <2>2. Older(v4Written, v4Pushed + 2) /\ Older(encoding, v4Pushed + 2)
    BY <1>6 DEF V4Inv, V4Typed, V4Ordered
  <2>3. (v4Pushed + 1) + 1 = v4Pushed + 2
    BY <1>3
  <2>4. Older(v4Written, v4Pushed + 1)' /\ Older(encoding, v4Pushed + 1)'
    BY <1>1, <2>2, <2>3 DEF Older
  <2>5. Older(v4Written, buffered)' /\ Older(encoding, buffered)'
    BY <1>1 DEF V4Inv, V4Ordered, Older
  <2> QED BY <1>1, <1>3, <2>1, <2>4, <2>5 DEF V4Inv, V4Ordered, Older, Mounting
<1> QED BY <1>4, <1>5, <1>7 DEF V4Inv

LEMMA ConsumeKeepsV4l2 ==
  ASSUME V4Inv, V4!Consume
  PROVE  V4Inv'
<1>1. /\ encoding' = encoding /\ v4Written' = v4Written /\ v4Pushed' = v4Pushed
      /\ v4Stopped' = v4Stopped /\ v4Sink' = v4Sink /\ resources' = resources /\ v4Pc = "wait"
  BY DEF V4!Consume
<1>2. v4Frame = 0
  BY <1>1 DEF V4Inv, V4Phases
<1>3. CASE v4Pc' = "ended" /\ hasFrame' = hasFrame /\ buffered' = buffered /\ v4Frame' = v4Frame
  BY <1>1, <1>2, <1>3 DEF V4Inv, V4Typed, V4Ordered, V4Phases, Older, Mounting
<1>4. CASE /\ v4Pc' = "encode" /\ hasFrame' = FALSE /\ v4Frame' = buffered /\ buffered' = 0
           /\ hasFrame = TRUE
  <2>1. buffered # 0
    BY <1>4 DEF V4Inv, V4Phases
  <2>2. V4Typed' /\ V4Phases'
    BY <1>1, <1>4, <2>1 DEF V4Inv, V4Typed, V4Phases
  <2>3. V4Ordered'
    BY <1>1, <1>4, <2>1 DEF V4Inv, V4Typed, V4Ordered, Older, Mounting
  <2> QED BY <2>2, <2>3 DEF V4Inv
<1>5. hasFrame \in BOOLEAN
  BY DEF V4Inv, V4Typed
<1> QED BY <1>3, <1>4, <1>5 DEF V4!Consume

LEMMA EncodeKeepsV4l2 ==
  ASSUME V4Inv, V4!Encode
  PROVE  V4Inv'
<1>1. /\ hasFrame' = hasFrame /\ buffered' = buffered /\ v4Pushed' = v4Pushed
      /\ v4Stopped' = v4Stopped /\ v4Sink' = v4Sink /\ resources' = resources
      /\ v4Pc = "encode" /\ v4Pc' \in {"wait", "ended"} /\ v4Frame' = 0
  BY DEF V4!Encode
<1>2. V4Phases'
  BY <1>1 DEF V4Inv, V4Phases
<1> DEFINE f == v4Frame  frames == Append(encoding, f)
<1>3. f # 0 /\ f \in Nat /\ v4Pushed + 1 \in Nat /\ f < v4Pushed + 1 /\ buffered \in Nat
  BY <1>1 DEF V4Inv, V4Typed, V4Ordered, V4Phases
<1>4. /\ frames \in Seq(Nat) /\ Mounting(frames)
      /\ \A m \in Nat : f < m => Older(frames, m)
  BY <1>3, MountingGrows DEF V4Inv, V4Typed, V4Ordered
<1>5. Older(frames, v4Pushed + 1) /\ (buffered # 0 => Older(frames, buffered) /\ f < buffered)
  BY <1>3, <1>4 DEF V4Inv, V4Ordered
<1>6. frames # <<>> /\ \A i \in 1..Len(frames) : Older(v4Written, frames[i])
  <2>1. /\ Len(encoding) \in Nat /\ Len(frames) = Len(encoding) + 1
        /\ frames[Len(encoding) + 1] = f
        /\ \A i \in 1..Len(encoding) : frames[i] = encoding[i]
    BY <1>3, AppendProperties, LenProperties DEF V4Inv, V4Typed
  <2>2. Older(v4Written, f) /\ \A i \in 1..Len(encoding) : Older(v4Written, encoding[i])
    BY <1>3 DEF V4Inv, V4Ordered
  <2> HIDE DEF frames
  <2>3. ASSUME NEW i \in 1..Len(frames) PROVE Older(v4Written, frames[i])
    <3>1. i = Len(encoding) + 1 \/ i \in 1..Len(encoding)
      BY <2>1
    <3> QED BY <3>1, <2>1, <2>2
  <2>4. Len(<<>>) = 0 /\ Len(frames) # 0
    BY <2>1
  <2> QED BY <2>3, <2>4
<1> HIDE DEF frames, f
<1>7. CASE encoding' = encoding /\ v4Written' = v4Written
  BY <1>1, <1>2, <1>3, <1>7 DEF V4Inv, V4Typed, V4Ordered, Older, Mounting
<1>8. CASE encoding' = frames /\ v4Written' = v4Written
  <2>1. V4Typed'
    BY <1>1, <1>4, <1>8 DEF V4Inv, V4Typed
  <2>2. V4Ordered'
    BY <1>1, <1>3, <1>4, <1>5, <1>6, <1>8 DEF V4Inv, V4Typed, V4Ordered, Older, Mounting
  <2> QED BY <1>2, <2>1, <2>2 DEF V4Inv
<1>9. CASE encoding' = Tail(frames) /\ v4Written' \in {v4Written, Append(v4Written, Head(frames))}
  <2> DEFINE h == Head(frames)  t == Tail(frames)
  <2>1. /\ h \in Nat /\ t \in Seq(Nat) /\ Mounting(t) /\ \A i \in 1..Len(t) : h < t[i]
        /\ \A m \in Nat : Older(frames, m) => Older(t, m) /\ h < m
        /\ h = frames[1] /\ 1 \in 1..Len(frames)
        /\ \A i \in 1..Len(t) : i + 1 \in 1..Len(frames) /\ t[i] = frames[i + 1]
    BY <1>4, <1>6, MountingLosesFirst
  <2>2. Older(v4Written, h) /\ \A i \in 1..Len(t) : Older(v4Written, t[i])
    BY <1>6, <2>1
  <2>3. \A i \in 1..Len(t) : t[i] \in Nat
    BY <2>1, ElementOfSeq
  <2> HIDE DEF h, t
  <2>4. v4Written \in Seq(Nat) /\ Mounting(v4Written)
    BY DEF V4Inv, V4Typed, V4Ordered
  <2>5. /\ Append(v4Written, h) \in Seq(Nat) /\ Mounting(Append(v4Written, h))
        /\ \A m \in Nat : h < m => Older(Append(v4Written, h), m)
    BY <2>1, <2>2, <2>4, MountingGrows
  <2>6. PICK w \in Seq(Nat) : w = v4Written'
    BY <1>9, <2>4, <2>5 DEF h
  <2>7. /\ Mounting(w) /\ \A i \in 1..Len(t) : Older(w, t[i])
        /\ Older(w, v4Pushed + 1) /\ (buffered # 0 => Older(w, buffered))
    <3>1. CASE w = v4Written
      BY <3>1, <2>2, <2>4 DEF V4Inv, V4Ordered
    <3>2. CASE w = Append(v4Written, h)
      BY <3>2, <1>3, <1>5, <2>1, <2>3, <2>5
    <3> QED BY <3>1, <3>2, <2>6, <1>9 DEF h
  <2>8. /\ Older(t, v4Pushed + 1) /\ (buffered # 0 => Older(t, buffered))
    BY <1>3, <1>5, <2>1
  <2>9. encoding' = t
    BY <1>9 DEF t
  <2>10. V4Typed'
    BY <1>1, <2>1, <2>6, <2>9 DEF V4Inv, V4Typed
  <2>11. V4Ordered'
    <3>1. v4Frame' <= v4Pushed' /\ buffered' <= v4Pushed' /\ (buffered' # 0 => v4Frame' < buffered')
      BY <1>1, <1>3 DEF V4Inv, V4Typed, V4Ordered
    <3> QED BY <1>1, <2>1, <2>6, <2>7, <2>8, <2>9, <3>1 DEF V4Ordered, Older, Mounting
  <2> QED BY <1>2, <2>10, <2>11 DEF V4Inv
<1> QED BY <1>7, <1>8, <1>9 DEF V4!Encode, frames, f

LEMMA NextV4l2 == V4Inv /\ [V4!Next]_(V4!v4Vars) => V4Inv'
BY SinkStepsKeepV4l2, PushKeepsV4l2, ConsumeKeepsV4l2, EncodeKeepsV4l2 DEF V4!Next

LEMMA V4l2IsInStep == V4!Spec => []V4!V4l2InStep
<1>1. V4Inv => V4!V4l2InStep
  <2> SUFFICES ASSUME V4Inv PROVE V4!V4l2InStep
    OBVIOUS
  <2>1. \A i \in 1..Len(v4Written) - 1 : v4Written[i] < v4Written[i + 1]
    <3>1. Len(v4Written) \in Nat
      BY LenProperties DEF V4Inv, V4Typed
    <3>2. \A i \in 1..Len(v4Written) - 1 :
            i \in 1..Len(v4Written) /\ i + 1 \in 1..Len(v4Written) /\ i < i + 1
      BY <3>1
    <3> QED BY <3>2 DEF V4Inv, V4Ordered, Mounting
  <2> QED BY <2>1 DEF V4Inv, V4Phases, V4!V4l2InStep
<1> QED BY <1>1, InitV4l2, NextV4l2, PTL DEF V4!Spec

(* However the stream ends and whichever sink fails, the sinks of a        *)
(* demuxer agree on it and are closed as often as opened, whatever the     *)
(* length of the stream; the V4L2 thread is told of every frame, writes    *)
(* them in order and uses nothing that is freed (demuxer.c, decoder.c,     *)
(* trait/packet_source.c, trait/frame_source.c, v4l2_sink.c).              *)
THEOREM SinksStayInStep == Dem!Spec /\ V4!Spec => []SinksInStep
<1>1. DemInv => Dem!SinksAgree /\ Dem!SinksClosed
  BY GivenAgree, OpenedClosed
<1> QED BY <1>1, DemuxerInvariance, V4l2IsInStep, PTL DEF SinksInStep
=============================================================================
