------------------------------ MODULE InputProofs ------------------------------
(***************************************************************************)
(* What the input components promise, for every value of the constants.    *)
(* Each component has an inductive invariant of its own, proved from its   *)
(* module's Init and Next; a step of the composition is a step of one of   *)
(* them and leaves the others alone, so that the conjunction of these      *)
(* invariants is inductive for the composition.                            *)
(*                                                                         *)
(*   Orientation   what is seen is the pixel, drawn under the orientation  *)
(*   Receiver      the bytes parsed, buffered and in the network are those *)
(*                 of the messages sent                                    *)
(*   KeyboardUhid  the last report on the wire holds the pressed keys      *)
(*   KeyboardSdk   every press is typed already or has its event queued    *)
(*   AoaHid        the opens and closes of a device alternate, from what   *)
(*                 is registered, and an event waits for a clipboard of    *)
(*                 before it                                               *)
(*   InputManager  the pointers of the device are those of the user        *)
(*   Controller    what is pending leads the devices of Android into step  *)
(*                 with the slots                                          *)
(***************************************************************************)
EXTENDS MCInput, FiniteSetTheorems, SequenceTheorems, NaturalsInduction, WellFoundedInduction, TLAPS

-----------------------------------------------------------------------------
(* Orientation.                                                            *)

\* A frame's size, and a point of it, as tuples of naturals.
LEMMA PointsOfSize ==
  ASSUME NEW size \in Nat \X Nat, NEW p \in PointsOf(size)
  PROVE  /\ size = <<size[1], size[2]>> /\ size[1] \in Nat /\ size[2] \in Nat
         /\ p = <<p[1], p[2]>> /\ p[1] \in 0..size[1] /\ p[2] \in 0..size[2]
BY DEF PointsOf

\* sc_screen_convert_window_to_frame_coords() undoes sc_screen_render(), and what is drawn is
\* within the content.
LEMMA CoordsUndoDrawing ==
  ASSUME NEW size \in Nat \X Nat, NEW p \in PointsOf(size), NEW o \in Orientations
  PROVE  /\ Drawn(p, size, o) \in PointsOf(Oriented(size, o))
         /\ FrameCoords(Drawn(p, size, o), Oriented(size, o), o) = p
<1> USE PointsOfSize DEF PointsOf, Drawn, Turned, Flipped, Oriented, FrameCoords, IsMirror, IsSwap, Rotation
<1>1. CASE o = 0
  BY <1>1
<1>2. CASE o = 1
  BY <1>2
<1>3. CASE o = 2
  BY <1>3
<1>4. CASE o = 3
  BY <1>4
<1>5. CASE o = 4
  BY <1>5
<1>6. CASE o = 5
  BY <1>6
<1>7. CASE o = 6
  BY <1>7
<1>8. CASE o = 7
  BY <1>8
<1>9. o \in 0..7
  BY DEF Orientations
<1> HIDE DEF PointsOf, Drawn, Turned, Flipped, Oriented, FrameCoords, IsMirror, IsSwap, Rotation
<1> QED BY <1>1, <1>2, <1>3, <1>4, <1>5, <1>6, <1>7, <1>8, <1>9

\* sc_orientation_apply() composes: the transform of the picture drawn under o is the picture
\* drawn under the composition.
LEMMA DrawnUnderApply ==
  ASSUME NEW size \in Nat \X Nat, NEW p \in PointsOf(size), NEW o \in Orientations,
         NEW t \in Shortcuts
  PROVE  /\ Apply(o, t) \in Orientations
         /\ Oriented(size, Apply(o, t)) = Oriented(Oriented(size, o), t)
         /\ Drawn(Drawn(p, size, o), Oriented(size, o), t) = Drawn(p, size, Apply(o, t))
<1> USE PointsOfSize DEF PointsOf, Drawn, Turned, Flipped, Oriented, Apply, Encoded, IsMirror, IsSwap, Rotation, Orientations
<1>1. CASE o = 0
  <2>1. CASE t = 1
    BY <1>1, <2>1
  <2>2. CASE t = 3
    BY <1>1, <2>2
  <2>3. CASE t = 4
    BY <1>1, <2>3
  <2>4. CASE t = 6
    BY <1>1, <2>4
  <2> QED BY <2>1, <2>2, <2>3, <2>4 DEF Shortcuts
<1>2. CASE o = 1
  <2>1. CASE t = 1
    BY <1>2, <2>1
  <2>2. CASE t = 3
    BY <1>2, <2>2
  <2>3. CASE t = 4
    BY <1>2, <2>3
  <2>4. CASE t = 6
    BY <1>2, <2>4
  <2> QED BY <2>1, <2>2, <2>3, <2>4 DEF Shortcuts
<1>3. CASE o = 2
  <2>1. CASE t = 1
    BY <1>3, <2>1
  <2>2. CASE t = 3
    BY <1>3, <2>2
  <2>3. CASE t = 4
    BY <1>3, <2>3
  <2>4. CASE t = 6
    BY <1>3, <2>4
  <2> QED BY <2>1, <2>2, <2>3, <2>4 DEF Shortcuts
<1>4. CASE o = 3
  <2>1. CASE t = 1
    BY <1>4, <2>1
  <2>2. CASE t = 3
    BY <1>4, <2>2
  <2>3. CASE t = 4
    BY <1>4, <2>3
  <2>4. CASE t = 6
    BY <1>4, <2>4
  <2> QED BY <2>1, <2>2, <2>3, <2>4 DEF Shortcuts
<1>5. CASE o = 4
  <2>1. CASE t = 1
    BY <1>5, <2>1
  <2>2. CASE t = 3
    BY <1>5, <2>2
  <2>3. CASE t = 4
    BY <1>5, <2>3
  <2>4. CASE t = 6
    BY <1>5, <2>4
  <2> QED BY <2>1, <2>2, <2>3, <2>4 DEF Shortcuts
<1>6. CASE o = 5
  <2>1. CASE t = 1
    BY <1>6, <2>1
  <2>2. CASE t = 3
    BY <1>6, <2>2
  <2>3. CASE t = 4
    BY <1>6, <2>3
  <2>4. CASE t = 6
    BY <1>6, <2>4
  <2> QED BY <2>1, <2>2, <2>3, <2>4 DEF Shortcuts
<1>7. CASE o = 6
  <2>1. CASE t = 1
    BY <1>7, <2>1
  <2>2. CASE t = 3
    BY <1>7, <2>2
  <2>3. CASE t = 4
    BY <1>7, <2>3
  <2>4. CASE t = 6
    BY <1>7, <2>4
  <2> QED BY <2>1, <2>2, <2>3, <2>4 DEF Shortcuts
<1>8. CASE o = 7
  <2>1. CASE t = 1
    BY <1>8, <2>1
  <2>2. CASE t = 3
    BY <1>8, <2>2
  <2>3. CASE t = 4
    BY <1>8, <2>3
  <2>4. CASE t = 6
    BY <1>8, <2>4
  <2> QED BY <2>1, <2>2, <2>3, <2>4 DEF Shortcuts
<1>9. o \in 0..7
  OBVIOUS
<1> HIDE DEF PointsOf, Drawn, Turned, Flipped, Oriented, Apply, Encoded, IsMirror, IsSwap, Rotation, Orientations
<1> QED BY <1>1, <1>2, <1>3, <1>4, <1>5, <1>6, <1>7, <1>8, <1>9

-----------------------------------------------------------------------------
\* Inductive: what is seen is the pixel, drawn under the orientation.
SeenAsDrawn ==
  /\ orientation \in Orientations /\ frameSize \in FrameSizes /\ pixel \in PointsOf(frameSize)
  /\ seen = Drawn(pixel, frameSize, orientation)

\* The first frame is shown as it is drawn.
LEMMA InitSeenAsDrawn == Init => SeenAsDrawn
BY DEF Init, SeenAsDrawn

\* Every shortcut and every new frame keeps what is seen in step with the orientation.
LEMMA NextSeenAsDrawn == SeenAsDrawn /\ [Next]_orientationVars => SeenAsDrawn'
<1> SUFFICES ASSUME SeenAsDrawn, [Next]_orientationVars PROVE SeenAsDrawn'
  OBVIOUS
<1>1. frameSize \in Nat \X Nat
  BY FrameSizesAssumption DEF SeenAsDrawn
<1>2. ASSUME NEW t \in Shortcuts, Transform(t) PROVE SeenAsDrawn'
  BY <1>1, <1>2, DrawnUnderApply DEF SeenAsDrawn, Transform
<1>3. CASE NewFrameSize
  BY <1>3 DEF SeenAsDrawn, NewFrameSize
<1>4. CASE UNCHANGED orientationVars
  BY <1>4 DEF SeenAsDrawn, orientationVars
<1> QED BY <1>2, <1>3, <1>4 DEF Next

\* What is seen as drawn is clicked where it is shown.
LEMMA SeenIsClickable == SeenAsDrawn => ClickLandsOnPixel
BY CoordsUndoDrawing, FrameSizesAssumption DEF SeenAsDrawn, ClickLandsOnPixel

-----------------------------------------------------------------------------
(* Receiver.                                                               *)

\* A sequence of numbers that strictly increases.
Increasing(s) == \A i, j \in 1..Len(s) : i < j => s[i] < s[j]

\* A greater number at the end keeps a sequence increasing.
LEMMA AppendIncreases ==
  ASSUME NEW s \in Seq(Nat), NEW n \in Nat, Increasing(s), \A i \in 1..Len(s) : s[i] < n
  PROVE  /\ Append(s, n) \in Seq(Nat) /\ Len(Append(s, n)) = Len(s) + 1
         /\ Increasing(Append(s, n)) /\ \A i \in 1..Len(s) + 1 : Append(s, n)[i] <= n
BY DEF Increasing

\* A number appended to the end of two sequences, and to the first numbers.
LEMMA AppendToBoth ==
  ASSUME NEW s \in Seq(Nat), NEW t \in Seq(Nat), NEW n \in Nat
  PROVE  s \o Append(t, n) = Append(s \o t, n)
OBVIOUS

\* The numbers from 1, and the next one.
LEMMA AppendCounts ==
  ASSUME NEW s \in Seq(Nat), \A i \in 1..Len(s) : s[i] = i, NEW t, t = Append(s, Len(s) + 1)
  PROVE  Len(t) = Len(s) + 1 /\ \A i \in 1..Len(t) : t[i] = i
OBVIOUS

\* What the device writes.
Message == [kind : Kinds, size : Nat \ {0}]

ReceiverTyped ==
  /\ sent \in Seq(Message) /\ recvHead \in Nat /\ inNet \in Nat /\ parsed \in 0..Len(sent)
  /\ recvPc \in {"off", "recv", "parse", "ended"} /\ mainStopped \in BOOLEAN
  /\ dispatched \in Seq(Nat) /\ tasks \in Seq(Nat) /\ applied \in Seq(Nat)
  /\ \A i \in 1..Len(sent) : sent[i].size <= BufferSize

\* end[i] is the place in the stream where the i-th message ends.
Ends(end) ==
  /\ end \in [0..Len(sent) -> Nat]
  /\ \A i \in 1..Len(sent) : end[i] = end[i - 1] + sent[i].size

\* What is read and not parsed, and what is on the way, is exactly the messages that are not
\* parsed: no byte is lost, read twice or skipped.
Conserved ==
  \E end : Ends(end) /\ end[parsed] + (recvHead + inNet) = end[Len(sent)]

Handled ==
  /\ Len(dispatched) = parsed /\ \A i \in 1..Len(dispatched) : dispatched[i] = i
  /\ Increasing(applied \o tasks)
  /\ \A i \in 1..Len(applied \o tasks) : (applied \o tasks)[i] <= parsed
  /\ mainStopped => tasks = <<>>

ReceiverInv ==
  /\ ReceiverTyped /\ Conserved /\ Handled
  /\ recvPc = "off" => recvHead = 0 /\ parsed = 0
  /\ recvPc = "recv" => ~Recv!Complete

\* When every message is parsed, no byte is left.
LEMMA ParsedIsEmpty ==
  ASSUME ReceiverTyped, Conserved, parsed = Len(sent)
  PROVE  recvHead = 0 /\ inNet = 0
<1>1. PICK end : Ends(end) /\ end[parsed] + (recvHead + inNet) = end[Len(sent)]
  BY DEF Conserved
<1>2. end[parsed] \in Nat /\ recvHead \in Nat /\ inNet \in Nat
  BY <1>1 DEF ReceiverTyped, Ends
<1> QED BY <1>1, <1>2

\* A message has bytes, and fits in the buffer.
LEMMA SizesOfSent ==
  ASSUME ReceiverTyped, NEW i \in 1..Len(sent)
  PROVE  sent[i].size \in Nat \ {0} /\ sent[i].size <= BufferSize
<1>1. sent[i] \in Message
  BY DEF ReceiverTyped
<1> QED BY <1>1 DEF ReceiverTyped, Message

\* A message that is not complete leaves room for the rest of it.
LEMMA IncompleteFits ==
  ASSUME ReceiverTyped, Conserved
  PROVE  /\ recvHead = 0 => ~Recv!Complete
         /\ ~Recv!Complete => recvHead < BufferSize
<1>1. recvHead \in Nat /\ parsed \in 0..Len(sent) /\ Len(sent) \in Nat /\ BufferSize \in Nat \ {0}
  BY ReceiverAssumption DEF ReceiverTyped
<1>2. CASE parsed = Len(sent)
  BY <1>1, <1>2, ParsedIsEmpty DEF Recv!Complete
<1>3. CASE parsed < Len(sent)
  <2>1. parsed + 1 \in 1..Len(sent)
    BY <1>1, <1>3
  <2>2. sent[parsed + 1].size \in Nat \ {0} /\ sent[parsed + 1].size <= BufferSize
    BY <2>1, SizesOfSent
  <2> QED BY <1>1, <1>3, <2>2 DEF Recv!Complete
<1> QED BY <1>1, <1>2, <1>3

\* The invariant holds before the first byte.
LEMMA InitReceiver == Recv!Init => ReceiverInv
<1> SUFFICES ASSUME Recv!Init PROVE ReceiverInv
  OBVIOUS
<1>1. ReceiverTyped
  <2>1. sent \in Seq(Message) /\ Len(sent) = 0
    BY EmptySeq DEF Recv!Init
  <2>2. dispatched \in Seq(Nat) /\ tasks \in Seq(Nat) /\ applied \in Seq(Nat)
    BY EmptySeq DEF Recv!Init
  <2>3. /\ recvHead = 0 /\ parsed = 0 /\ inNet = 0 /\ recvPc = "off" /\ mainStopped = FALSE
    BY DEF Recv!Init
  <2>4. recvHead \in Nat /\ inNet \in Nat /\ parsed \in 0..Len(sent)
    BY <2>1, <2>3
  <2>5. \A i \in 1..Len(sent) : sent[i].size <= BufferSize
    BY <2>1
  <2> QED BY <2>1, <2>2, <2>3, <2>4, <2>5 DEF ReceiverTyped
<1>2. Conserved
  <2>1. Ends([i \in {0} |-> 0])
    BY DEF Recv!Init, Ends
  <2> QED BY <2>1 DEF Recv!Init, Conserved
<1>3. Handled
  BY DEF Recv!Init, Handled, Increasing
<1> QED BY <1>1, <1>2, <1>3 DEF ReceiverInv, Recv!Init

\* The device writes a message: the last end moves by its size.
LEMMA DeviceWritesKeeps ==
  ASSUME ReceiverInv, NEW kind \in Kinds, NEW size \in SizeOf[kind], Recv!DeviceWrites(kind, size)
  PROVE  ReceiverInv'
<1> USE DEF ReceiverInv
<1>0. /\ size \in Nat \ {0} /\ size <= BufferSize /\ BufferSize \in Nat /\ inNet' = inNet + size
      /\ sent' = Append(sent, [kind |-> kind, size |-> size])
      /\ UNCHANGED <<recvHead, parsed, recvPc, recvError, dispatched, tasks, mainStopped, applied>>
  BY ReceiverAssumption DEF Recv!DeviceWrites
<1>1. /\ [kind |-> kind, size |-> size] \in Message /\ Len(sent') = Len(sent) + 1
      /\ sent'[Len(sent) + 1] = [kind |-> kind, size |-> size]
      /\ \A i \in 1..Len(sent) : sent'[i] = sent[i]
  BY <1>0 DEF ReceiverTyped, Message
<1>2. ReceiverTyped'
  BY <1>0, <1>1 DEF ReceiverTyped
<1>3. Conserved'
  <2>1. PICK end : Ends(end) /\ end[parsed] + (recvHead + inNet) = end[Len(sent)]
    BY DEF Conserved
  <2> DEFINE more == [i \in 0..Len(sent') |-> IF i = Len(sent') THEN end[Len(sent)] + size ELSE end[i]]
  <2>0. /\ Len(sent) \in Nat /\ parsed \in 0..Len(sent) /\ recvHead \in Nat /\ inNet \in Nat
        /\ size \in Nat /\ end \in [0..Len(sent) -> Nat]
    BY <1>0, <2>1 DEF Ends, ReceiverTyped
  <2>2. more \in [0..Len(sent') -> Nat]
    BY <1>1, <2>0
  <2>3. ASSUME NEW i \in 1..Len(sent') PROVE more[i] = more[i - 1] + sent'[i].size
    <3>1. CASE i = Len(sent')
      BY <1>1, <2>0, <3>1
    <3>2. CASE i \in 1..Len(sent)
      <4>1. i \in 0..Len(sent') /\ i - 1 \in 0..Len(sent') /\ i # Len(sent') /\ i - 1 # Len(sent')
        BY <1>1, <2>0, <3>2
      <4>2. more[i] = end[i] /\ more[i - 1] = end[i - 1] /\ sent'[i].size = sent[i].size
        BY <1>1, <3>2, <4>1
      <4> HIDE DEF more
      <4> QED BY <2>1, <3>2, <4>2 DEF Ends
    <3> QED BY <1>1, <2>0, <3>1, <3>2
  <2>4. more[parsed] + (recvHead + inNet') = more[Len(sent')]
    <3>1. /\ more[parsed] = end[parsed] /\ more[Len(sent')] = end[Len(sent)] + size
          /\ end[parsed] \in Nat /\ end[Len(sent)] \in Nat
      BY <1>1, <2>0
    <3> HIDE DEF more
    <3> QED BY <1>0, <2>0, <2>1, <3>1
  <2> HIDE DEF more
  <2> QED BY <1>0, <2>2, <2>3, <2>4 DEF Conserved, Ends
<1>4. Handled'
  BY <1>0 DEF Handled, Increasing
<1>5. recvPc' = "recv" => ~Recv!Complete'
  <2>1. CASE parsed = Len(sent)
    BY <1>0, <1>1, <2>1, ParsedIsEmpty DEF Recv!Complete
  <2>2. CASE parsed < Len(sent)
    BY <1>0, <1>1, <2>2 DEF Recv!Complete, ReceiverTyped
  <2> QED BY <2>1, <2>2 DEF ReceiverTyped
<1> QED BY <1>0, <1>2, <1>3, <1>4, <1>5

\* recv() moves bytes from the network to the buffer, or ends the receiver.
LEMMA ReceiveKeeps ==
  ASSUME ReceiverInv, Recv!Receive
  PROVE  ReceiverInv'
<1> USE DEF ReceiverInv
<1>0. /\ UNCHANGED <<sent, parsed, recvError, dispatched, tasks, mainStopped, applied>>
      /\ recvPc' \in {"parse", "ended"} /\ recvHead' \in Nat /\ inNet' \in Nat
      /\ recvHead' + inNet' = recvHead + inNet
  <2>1. CASE recvPc' = "ended" /\ UNCHANGED <<recvHead, inNet>>
    BY <2>1 DEF Recv!Receive, ReceiverTyped
  <2>2. ASSUME NEW n \in Int, n <= inNet, 1 <= n, recvHead' = recvHead + n, inNet' = inNet - n,
               recvPc' = "parse"
        PROVE  recvHead' \in Nat /\ inNet' \in Nat /\ recvHead' + inNet' = recvHead + inNet
    BY <2>2 DEF ReceiverTyped
  <2>3. ASSUME NEW n \in 1..Recv!Min({inNet, BufferSize - recvHead})
        PROVE  n \in Int /\ n <= inNet /\ 1 <= n
    <3>1. inNet \in Int /\ BufferSize - recvHead \in Int
      BY ReceiverAssumption DEF ReceiverTyped
    <3>2. Recv!Min({inNet, BufferSize - recvHead}) \in Int
          /\ Recv!Min({inNet, BufferSize - recvHead}) <= inNet
      BY <3>1 DEF Recv!Min
    <3> QED BY <3>1, <3>2
  <2> QED BY <2>1, <2>2, <2>3 DEF Recv!Receive
<1>1. ReceiverTyped'
  BY <1>0 DEF ReceiverTyped
<1>2. Conserved'
  <2>1. PICK end : Ends(end) /\ end[parsed] + (recvHead + inNet) = end[Len(sent)]
    BY DEF Conserved
  <2>2. end[parsed] \in Nat /\ end[Len(sent)] \in Nat /\ recvHead \in Nat /\ inNet \in Nat
    <3>1. parsed \in 0..Len(sent) /\ Len(sent) \in 0..Len(sent) /\ recvHead \in Nat /\ inNet \in Nat
      BY DEF ReceiverTyped
    <3>2. end \in [0..Len(sent) -> Nat]
      BY <2>1 DEF Ends
    <3> QED BY <3>1, <3>2
  <2>3. end[parsed] + (recvHead' + inNet') = end[Len(sent)]
    <3>1. UNCHANGED <<sent, parsed>> /\ recvHead' \in Nat /\ inNet' \in Nat
          /\ recvHead' + inNet' = recvHead + inNet
      BY <1>0
    <3> QED BY <2>1, <2>2, <3>1
  <2> QED BY <1>0, <2>1, <2>3 DEF Conserved, Ends
<1>3. Handled'
  BY <1>0 DEF Handled, Increasing
<1> QED BY <1>0, <1>1, <1>2, <1>3

\* process_msgs() parses a message that is complete, or waits for the rest of it.
LEMMA ProcessKeeps ==
  ASSUME ReceiverInv, Recv!Process
  PROVE  ReceiverInv'
<1> USE DEF ReceiverInv
<1>0. /\ UNCHANGED <<sent, inNet, mainStopped, applied>> /\ recvPc = "parse"
  BY DEF Recv!Process
<1>1. CASE UNCHANGED <<recvHead, parsed, dispatched, tasks>>
  <2>1. recvPc' \in {"recv", "ended"} /\ (recvPc' = "recv" => ~Recv!Complete)
    BY <1>1 DEF Recv!Process, Recv!More, ReceiverTyped
  <2>2. ReceiverTyped'
    BY <1>0, <1>1, <2>1 DEF ReceiverTyped
  <2>3. Conserved'
    BY <1>0, <1>1 DEF Conserved, Ends
  <2>4. Handled'
    BY <1>0, <1>1 DEF Handled, Increasing
  <2> QED BY <1>0, <1>1, <2>1, <2>2, <2>3, <2>4 DEF Recv!Complete
<1>2. CASE /\ Recv!Complete /\ parsed' = parsed + 1 /\ recvPc' = "parse"
           /\ recvHead' = recvHead - sent[parsed + 1].size
           /\ Recv!Dispatch(parsed', sent[parsed + 1].kind)
  <2>0. /\ parsed < Len(sent) /\ sent[parsed + 1].size <= recvHead /\ parsed \in Nat
        /\ sent[parsed + 1].size \in Nat /\ parsed + 1 \in 1..Len(sent)
    <3>1. /\ parsed < Len(sent) /\ sent[parsed + 1].size <= recvHead /\ parsed \in Nat
          /\ Len(sent) \in Nat
      BY <1>2 DEF Recv!Complete, ReceiverTyped
    <3>2. parsed + 1 \in 1..Len(sent)
      BY <3>1
    <3> QED BY <3>1, <3>2, SizesOfSent
  <2>1. /\ dispatched' = Append(dispatched, parsed + 1)
        /\ \/ UNCHANGED tasks
           \/ ~mainStopped /\ tasks' = Append(tasks, parsed + 1)
    BY <1>2 DEF Recv!Dispatch
  <2>2. /\ tasks' \in Seq(Nat) /\ applied \in Seq(Nat) /\ tasks \in Seq(Nat)
        /\ applied \o tasks \in Seq(Nat)
    <3>1. tasks \in Seq(Nat) /\ applied \in Seq(Nat) /\ parsed + 1 \in Nat
      BY <2>0 DEF ReceiverTyped
    <3>2. CASE UNCHANGED tasks
      BY <3>1, <3>2
    <3>3. CASE tasks' = Append(tasks, parsed + 1)
      BY <3>1, <3>3
    <3> QED BY <2>1, <3>2, <3>3
  <2>3. ReceiverTyped'
    BY <1>0, <1>2, <2>0, <2>1, <2>2 DEF ReceiverTyped
  <2>4. Conserved'
    <3>1. PICK end : Ends(end) /\ end[parsed] + (recvHead + inNet) = end[Len(sent)]
      BY DEF Conserved
    <3>2. end[parsed + 1] = end[parsed] + sent[parsed + 1].size /\ end[parsed] \in Nat
      BY <2>0, <3>1 DEF Ends
    <3>3. end[parsed'] + (recvHead' + inNet') = end[Len(sent)]
      <4>0. recvHead \in Nat /\ inNet \in Nat
        BY DEF ReceiverTyped
      <4>1. end[parsed + 1] \in Nat
        BY <2>0, <3>1 DEF Ends
      <4> DEFINE m == sent[parsed + 1].size
      <4>2. /\ parsed' = parsed + 1 /\ recvHead' = recvHead - m /\ inNet' = inNet /\ m \in Nat
            /\ end[parsed + 1] = end[parsed] + m /\ end[parsed] \in Nat
        BY <1>0, <1>2, <2>0, <3>2
      <4> HIDE DEF m
      <4>3. end[parsed + 1] + (recvHead' + inNet') = end[parsed] + (recvHead + inNet)
        BY <4>0, <4>1, <4>2
      <4> QED BY <3>1, <4>2, <4>3
    <3> QED BY <1>0, <3>1, <3>3 DEF Conserved, Ends
  <2>5. Handled'
    <3>1. Len(dispatched') = parsed' /\ \A i \in 1..Len(dispatched') : dispatched'[i] = i
      <4>1. dispatched \in Seq(Nat) /\ Len(dispatched) = parsed /\ \A i \in 1..Len(dispatched) : dispatched[i] = i
        BY DEF Handled, ReceiverTyped
      <4>2. dispatched' = Append(dispatched, Len(dispatched) + 1) /\ parsed' = Len(dispatched) + 1
        BY <1>2, <2>1, <4>1
      <4> QED BY <4>1, <4>2, AppendCounts
    <3>0. /\ \A i \in 1..Len(applied \o tasks) : (applied \o tasks)[i] \in Nat
          /\ Len(applied \o tasks) \in Nat
      BY <2>2
    <3>2. CASE UNCHANGED tasks
      <4>1. \A i \in 1..Len(applied \o tasks) : (applied \o tasks)[i] <= parsed'
        BY <1>2, <2>0, <3>0 DEF Handled
      <4> QED BY <1>0, <3>1, <3>2, <4>1 DEF Handled, Increasing
    <3>3. CASE ~mainStopped /\ tasks' = Append(tasks, parsed + 1)
      <4>1. applied \o tasks' = Append(applied \o tasks, parsed + 1)
        <5>1. parsed + 1 \in Nat
          BY <2>0
        <5>2. applied \o Append(tasks, parsed + 1) = Append(applied \o tasks, parsed + 1)
          BY <2>2, <5>1, AppendToBoth
        <5> QED BY <3>3, <5>2
      <4>2. \A i \in 1..Len(applied \o tasks) : (applied \o tasks)[i] < parsed + 1
        <5>1. parsed \in Nat /\ \A i \in 1..Len(applied \o tasks) : (applied \o tasks)[i] <= parsed
          BY <2>0 DEF Handled
        <5> QED BY <3>0, <5>1
      <4>a. Increasing(applied \o tasks)
        BY DEF Handled
      <4> DEFINE n == parsed + 1  given == applied \o tasks
      <4>b. n \in Nat /\ given \in Seq(Nat) /\ Increasing(given) /\ \A i \in 1..Len(given) : given[i] < n
        BY <2>0, <2>2, <4>2, <4>a
      <4>c. applied \o tasks' = Append(given, n)
        BY <4>1
      <4>3. /\ Increasing(applied \o tasks') /\ Len(applied \o tasks') = Len(applied \o tasks) + 1
            /\ \A i \in 1..Len(applied \o tasks) + 1 : (applied \o tasks')[i] <= parsed + 1
        <5> HIDE DEF n, given
        <5>1. Increasing(Append(given, n)) /\ Len(Append(given, n)) = Len(given) + 1
              /\ \A i \in 1..Len(given) + 1 : Append(given, n)[i] <= n
          BY <4>b, AppendIncreases
        <5> QED BY <4>c, <5>1 DEF n, given
      <4> QED BY <1>0, <1>2, <3>1, <3>3, <4>3 DEF Handled, Increasing
    <3> QED BY <2>1, <3>2, <3>3
  <2> QED BY <1>0, <1>2, <2>3, <2>4, <2>5
<1> QED BY <1>1, <1>2 DEF Recv!Process, Recv!More

\* The main thread applies a task, or stops and drops them.
LEMMA MainKeepsReceiver ==
  ASSUME ReceiverInv, Recv!RunTask \/ Recv!StopMain
  PROVE  ReceiverInv'
<1> USE DEF ReceiverInv
<1>0. /\ UNCHANGED <<sent, recvHead, parsed, inNet, recvPc, dispatched>> /\ ~mainStopped
      /\ mainStopped' \in BOOLEAN
  BY DEF Recv!RunTask, Recv!StopMain, ReceiverTyped
<1>1. /\ applied' \o tasks' = applied \o tasks /\ applied' \in Seq(Nat) /\ tasks' \in Seq(Nat)
      /\ mainStopped' => tasks' = <<>>
  <2>1. CASE Recv!RunTask
    <3>1. applied \in Seq(Nat) /\ tasks \in Seq(Nat) /\ tasks # <<>>
      BY <2>1 DEF Recv!RunTask, ReceiverTyped
    <3>2. Append(applied, Head(tasks)) \o Tail(tasks) = applied \o tasks
      BY <3>1
    <3> QED BY <2>1, <3>1, <3>2, SMTT(30) DEF Recv!RunTask
  <2>2. CASE Recv!StopMain
    <3>1. applied \in Seq(Nat) /\ tasks \in Seq(Nat)
      BY DEF ReceiverTyped
    <3>2. (applied \o tasks) \o <<>> = applied \o tasks
      BY <3>1
    <3> QED BY <2>2, <3>1, <3>2 DEF Recv!StopMain
  <2> QED BY <2>1, <2>2
<1>2. ReceiverTyped'
  BY <1>0, <1>1 DEF ReceiverTyped
<1>3. Conserved'
  BY <1>0 DEF Conserved, Ends
<1>4. Handled'
  BY <1>0, <1>1 DEF Handled, Increasing
<1> QED BY <1>0, <1>2, <1>3, <1>4 DEF Recv!Complete

\* Every step of the receiver, the device and the main thread.
LEMMA NextReceiver == ReceiverInv /\ [Recv!Next]_(Recv!recvVars) => ReceiverInv'
<1> SUFFICES ASSUME ReceiverInv, [Recv!Next]_(Recv!recvVars) PROVE ReceiverInv'
  OBVIOUS
<1>1. CASE Recv!Start
  <2>1. UNCHANGED <<sent, recvHead, parsed, inNet, dispatched, tasks, mainStopped, applied>>
        /\ recvPc' = "recv" /\ recvPc = "off" /\ parsed = 0 /\ recvHead = 0
    BY <1>1 DEF Recv!Start, ReceiverInv
  <2>2. ~Recv!Complete
    BY <2>1, IncompleteFits DEF ReceiverInv
  <2> QED BY <2>1, <2>2 DEF ReceiverInv, ReceiverTyped, Conserved, Ends, Handled, Increasing, Recv!Complete
<1>2. CASE Recv!CloseSocket \/ UNCHANGED Recv!recvVars
  <2>1. UNCHANGED <<sent, recvHead, parsed, inNet, recvPc, dispatched, tasks, mainStopped, applied>>
    BY <1>2 DEF Recv!CloseSocket, Recv!recvVars
  <2> QED
  BY <2>1 DEF ReceiverInv, ReceiverTyped, Conserved, Ends, Handled,
     Increasing, Recv!Complete
<1> QED BY <1>1, <1>2, DeviceWritesKeeps, ReceiveKeeps, ProcessKeeps, MainKeepsReceiver
        DEF Recv!Next, Recv!ReceiverThread

\* From the invariant: the stream is reassembled.
LEMMA ReceiverReassembles == ReceiverInv => StreamReassembled
<1> SUFFICES ASSUME ReceiverInv PROVE StreamReassembled
  OBVIOUS
<1> USE DEF ReceiverInv
<1>1. recvPc = "recv" => recvHead < BufferSize
  BY IncompleteFits
<1>2. \A i \in 1..Len(applied) - 1 : applied[i] < applied[i + 1]
  <2>1. applied \in Seq(Nat) /\ tasks \in Seq(Nat) /\ Increasing(applied \o tasks)
    BY DEF Handled, ReceiverTyped
  <2> QED BY <2>1, SMTT(30) DEF Increasing
<1> QED BY <1>1, <1>2 DEF StreamReassembled, Recv!StreamReassembled, Handled

-----------------------------------------------------------------------------
(* HidMouse.                                                               *)

MouseInv ==
  /\ residual \in Int /\ wheel \in Int /\ asked \in Int /\ clamped \in Int /\ refusedWheel \in Int
  /\ Mouse!ScrollConserved

\* What the truncation leaves is less than a unit, on the side of the value.
LEMMA TruncationLeaves ==
  ASSUME NEW v \in Int
  PROVE  /\ Mouse!Truncate(v) \in Int
         /\ v - Mouse!Truncate(v) * Unit < Unit /\ v - Mouse!Truncate(v) * Unit > -Unit
<1>1. ASSUME NEW n \in Nat
      PROVE  n \div Unit \in Nat /\ n - (n \div Unit) * Unit \in 0..(Unit - 1)
  BY MouseAssumption, <1>1
<1>2. CASE v < 0
  <2>1. -v \in Nat
    BY <1>2
  <2> DEFINE q == (-v) \div Unit
  <2>2. q \in Nat /\ (-v) - q * Unit \in 0..(Unit - 1)
    BY <1>1, <2>1
  <2>3. Mouse!Truncate(v) = -q
    BY <1>2 DEF Mouse!Truncate
  <2> HIDE DEF q
  <2> QED BY MouseAssumption, <2>2, <2>3
<1>3. CASE v >= 0
  <2>1. v \in Nat
    BY <1>3
  <2> DEFINE q == v \div Unit
  <2>2. q \in Nat /\ v - q * Unit \in 0..(Unit - 1)
    BY <1>1, <2>1
  <2>3. Mouse!Truncate(v) = q
    BY <1>3 DEF Mouse!Truncate
  <2> HIDE DEF q
  <2> QED BY MouseAssumption, <2>2, <2>3
<1> QED BY <1>2, <1>3

\* A scroll adds to what is asked, reports or keeps all of it.
LEMMA ScrollKeeps ==
  ASSUME MouseInv, NEW v \in Int, Mouse!Scroll(v)
  PROVE  MouseInv'
<1> DEFINE value == Mouse!Clamp(residual + v)
           consume == Mouse!Truncate(value)
<1>1. value \in Int
  BY MouseAssumption DEF MouseInv, Mouse!Clamp
<1>2. /\ asked' = asked + v /\ clamped' = clamped + (residual + v - value)
      /\ residual' = value - consume * Unit
      /\ \/ wheel' = wheel + consume /\ UNCHANGED refusedWheel
         \/ refusedWheel' = refusedWheel + consume /\ UNCHANGED wheel
  BY DEF Mouse!Scroll, Mouse!Residual
<1> HIDE DEF value
<1>3. consume \in Int /\ value - consume * Unit < Unit /\ value - consume * Unit > -Unit
  BY <1>1, TruncationLeaves
<1> HIDE DEF consume
<1>4. /\ wheel \in Int /\ Unit \in Int /\ residual \in Int /\ asked \in Int /\ clamped \in Int
      /\ refusedWheel \in Int /\ (wheel + refusedWheel) * Unit + clamped + residual = asked
  BY MouseAssumption DEF MouseInv, Mouse!ScrollConserved
<1> DEFINE turned == wheel + refusedWheel
<1>7. /\ turned' = turned + consume /\ turned \in Int
      /\ wheel' \in Int /\ refusedWheel' \in Int
  BY <1>2, <1>3, <1>4
<1>8. turned * Unit + clamped + residual = asked
  BY <1>4
<1> HIDE DEF turned
<1>5. (turned + consume) * Unit = turned * Unit + consume * Unit /\ turned * Unit \in Int
      /\ consume * Unit \in Int
  BY <1>3, <1>4, <1>7
<1>6. turned' * Unit + clamped' + residual' = asked'
  BY <1>1, <1>2, <1>3, <1>4, <1>5, <1>7, <1>8
<1>9. residual' \in Int /\ asked' \in Int /\ clamped' \in Int /\ residual' < Unit /\ residual' > -Unit
  BY <1>1, <1>2, <1>3, <1>4, <1>5
<1>a. (wheel' + refusedWheel') * Unit + clamped' + residual' = asked'
  BY <1>6 DEF turned
<1> QED BY <1>7, <1>9, <1>a DEF MouseInv, Mouse!ScrollConserved

\* Every event of the mouse.
LEMMA NextMouse == MouseInv /\ [Mouse!Next]_(Mouse!mouseVars) => MouseInv'
<1> SUFFICES ASSUME MouseInv, [Mouse!Next]_(Mouse!mouseVars) PROVE MouseInv'
  OBVIOUS
<1>1. ASSUME NEW v \in Scrolls, Mouse!Scroll(v) \/ Mouse!Scroll(-v) PROVE MouseInv'
  BY <1>1, ScrollKeeps, MouseAssumption
<1>2. ASSUME UNCHANGED <<residual, wheel, asked, clamped, refusedWheel>> PROVE MouseInv'
  BY <1>2 DEF MouseInv, Mouse!ScrollConserved
<1> QED BY <1>1, <1>2 DEF Mouse!Next, Mouse!Click, Mouse!Motion, Mouse!mouseVars

\* Nothing is asked at first.
LEMMA InitMouse == Mouse!Init => MouseInv
BY MouseAssumption DEF Mouse!Init, MouseInv, Mouse!ScrollConserved

-----------------------------------------------------------------------------
(* KeyboardUhid.                                                           *)

Reports == [keys : SUBSET (Uhid!Scancodes \cup Uhid!RollOver), mods : SUBSET Modifiers]

\* The reports on their way end with the keys of now, unless that report was refused; with none on
\* its way, Android has them.
KeysInv ==
  /\ wire \in Seq(Reports) /\ hidKeys \subseteq Uhid!Scancodes /\ IsFiniteSet(hidKeys)
  /\ wire # <<>> /\ ~behind => wire[Len(wire)] = Uhid!KeyReport(hidKeys, heldKeys \cap Modifiers)
  /\ Uhid!KeysFollow

\* The first report flips Android's CapsLock to the computer's, or it is there already: no other
\* report presses CapsLock, and every LED answer tells what the keyboard guesses.
CapsInv ==
  /\ hostCaps \in BOOLEAN /\ deviceMod \in BOOLEAN /\ devCaps \in BOOLEAN /\ leds \in Seq(BOOLEAN)
  /\ synced =>
       /\ deviceMod = hostCaps /\ Uhid!Caps \notin hidKeys
       /\ \A i \in 1..Len(leds) : leds[i] = hostCaps
       /\ \A i \in 2..Len(wire) : Uhid!Caps \notin wire[i].keys
       /\ \/ /\ wire # <<>> /\ wire[1] = Uhid!CapsReport
             /\ devCaps # hostCaps /\ Uhid!Caps \notin devKeys
          \/ /\ wire # <<>> => Uhid!Caps \notin wire[1].keys
             /\ devCaps = hostCaps

UhidInv == KeysInv /\ CapsInv

\* A number that is neither 0 nor 1 is above 1.
LEMMA AboveOne ==
  ASSUME NEW n \in Nat, n # 0, n # 1
  PROVE  n > 1
OBVIOUS

\* The instance has the library's cardinality.
LEMMA UhidCardinality ==
  ASSUME NEW S
  PROVE  Uhid!Cardinality(S) = Cardinality(S)
BY DEF Uhid!Cardinality, Cardinality

\* No key is pressed at first.
LEMMA InitUhid == Uhid!Init => UhidInv
<1> SUFFICES ASSUME Uhid!Init PROVE UhidInv
  OBVIOUS
<1>1. KeysInv
  BY EmptySeq, FS_EmptySet DEF Uhid!Init, KeysInv, Uhid!KeysFollow
<1>2. CapsInv
  BY EmptySeq DEF Uhid!Init, CapsInv
<1> QED BY <1>1, <1>2 DEF UhidInv

\* What a report holds.
LEMMA ReportTyped ==
  ASSUME NEW keys \in SUBSET Uhid!Scancodes, NEW m \in SUBSET Modifiers
  PROVE  Uhid!KeyReport(keys, m) \in Reports
BY DEF Reports, Uhid!KeyReport, Uhid!Pressed, Uhid!RollOver

\* Two reports, each pushed or refused, at the end of the wire.
LEMMA PushedReports ==
  ASSUME NEW S, NEW s \in Seq(S), NEW a \in S, NEW b \in S
  PROVE  /\ s \o (<<>> \o <<>>) = s
         /\ s \o (<<a>> \o <<>>) = Append(s, a)
         /\ s \o (<<>> \o <<b>>) = Append(s, b)
         /\ s \o (<<a>> \o <<b>>) = Append(Append(s, a), b)
OBVIOUS

\* An event of a key, CapsLock among them, ends the wire with the keys of now, or is refused.
LEMMA KeyEventKeeps ==
  ASSUME KeysInv, NEW key \in Uhid!Scancodes \cup Modifiers, NEW down \in BOOLEAN,
         Uhid!KeyEvent(key, down)
  PROVE  KeysInv'
<1> DEFINE last == Uhid!KeyReport(hidKeys', heldKeys' \cap Modifiers)
<1>1. /\ heldKeys' = (IF down THEN heldKeys \cup {key} ELSE heldKeys \ {key})
      /\ hidKeys' = (IF key \in Modifiers THEN hidKeys
                     ELSE IF down THEN hidKeys \cup {key} ELSE hidKeys \ {key})
  BY DEF Uhid!KeyEvent, Uhid!ProcessKey
<1>2. \E first \in {<<Uhid!CapsReport>>, <<>>}, report \in {<<last>>, <<>>} :
        wire' = wire \o (first \o report) /\ behind' = (report = <<>>)
  BY DEF Uhid!KeyEvent, Uhid!ProcessKey, Uhid!SyncFirst, Uhid!SendInput
<1>3. hidKeys' \subseteq Uhid!Scancodes /\ hidKeys' = heldKeys' \ Modifiers
  BY <1>1 DEF KeysInv, Uhid!KeysFollow
<1>f. IsFiniteSet(hidKeys')
  BY <1>1, FS_AddElement, FS_RemoveElement DEF KeysInv
<1>4. last \in Reports
  BY <1>3, ReportTyped
<1>5. Uhid!CapsReport \in Reports
  BY DEF Uhid!CapsReport, Reports, Uhid!Scancodes
<1>6. /\ wire' \in Seq(Reports)
      /\ ~behind' => wire' # <<>> /\ wire'[Len(wire')] = last
  <2> HIDE DEF last
  <2>1. wire \in Seq(Reports)
    BY DEF KeysInv
  <2>2. PICK first \in {<<Uhid!CapsReport>>, <<>>}, report \in {<<last>>, <<>>} :
          wire' = wire \o (first \o report) /\ behind' = (report = <<>>)
    BY <1>2
  <2>3. PICK before \in Seq(Reports) :
          \/ behind' /\ wire' = before
          \/ wire' = Append(before, last)
    <3>1. wire \in Seq(Reports) /\ Append(wire, Uhid!CapsReport) \in Seq(Reports)
      BY <1>5, <2>1
    <3>2. /\ wire \o (<<>> \o <<>>) = wire
          /\ wire \o (<<Uhid!CapsReport>> \o <<>>) = Append(wire, Uhid!CapsReport)
          /\ wire \o (<<>> \o <<last>>) = Append(wire, last)
          /\ wire \o (<<Uhid!CapsReport>> \o <<last>>) = Append(Append(wire, Uhid!CapsReport), last)
      BY <1>4, <1>5, <2>1, PushedReports
    <3>3. CASE report = <<>>
      BY <2>2, <3>1, <3>2, <3>3, Zenon
    <3>4. CASE report = <<last>>
      BY <2>2, <3>1, <3>2, <3>4, Zenon
    <3> QED BY <2>2, <3>3, <3>4
  <2> QED BY <1>4, <2>3
<1> QED BY <1>3, <1>6, <1>f DEF KeysInv, Uhid!KeysFollow

\* A key typed with CapsLock at rest is preceded by the report that flips it, if it must flip.
LEMMA KeyEventKeepsCaps ==
  ASSUME KeysInv, CapsInv, NEW key \in Uhid!Scancodes \cup Modifiers, NEW down \in BOOLEAN,
         Uhid!KeyEvent(key, down)
  PROVE  CapsInv'
<1> DEFINE last == Uhid!KeyReport(hidKeys', heldKeys' \cap Modifiers)
           sync == IF key # Uhid!Caps /\ hostCaps # deviceMod THEN <<Uhid!CapsReport>> ELSE <<>>
<1>1. /\ hostCaps' = (IF key = Uhid!Caps /\ down THEN ~hostCaps ELSE hostCaps)
      /\ deviceMod' = (IF key = Uhid!Caps THEN ~deviceMod ELSE hostCaps)
      /\ UNCHANGED <<leds, devKeys, devCaps>>
      /\ hidKeys' \subseteq hidKeys \cup {key}
  BY DEF Uhid!KeyEvent, Uhid!ProcessKey
<1>2. PICK first \in {sync, <<>>}, report \in {<<last>>, <<>>} :
        /\ wire' = wire \o (first \o report)
        /\ synced' = (key # Uhid!Caps /\ (synced \/ (Uhid!CapsAtRest /\ first = sync)))
  BY DEF Uhid!KeyEvent, Uhid!ProcessKey, Uhid!SyncFirst, Uhid!SendInput
<1>3. hostCaps' \in BOOLEAN /\ deviceMod' \in BOOLEAN /\ devCaps' \in BOOLEAN /\ leds' \in Seq(BOOLEAN)
  BY <1>1 DEF CapsInv
<1> SUFFICES ASSUME synced'
             PROVE  /\ deviceMod' = hostCaps' /\ Uhid!Caps \notin hidKeys'
                    /\ \A i \in 1..Len(leds') : leds'[i] = hostCaps'
                    /\ \A i \in 2..Len(wire') : Uhid!Caps \notin wire'[i].keys
                    /\ \/ /\ wire' # <<>> /\ wire'[1] = Uhid!CapsReport
                          /\ devCaps' # hostCaps' /\ Uhid!Caps \notin devKeys'
                       \/ /\ wire' # <<>> => Uhid!Caps \notin wire'[1].keys
                          /\ devCaps' = hostCaps'
  BY <1>3 DEF CapsInv
<1>4. key # Uhid!Caps /\ hostCaps' = hostCaps /\ deviceMod' = hostCaps
  BY <1>1, <1>2
<1>5. Uhid!Caps \notin hidKeys'
  BY <1>1, <1>2, <1>4 DEF CapsInv, Uhid!CapsAtRest
<1>6. Uhid!Caps \notin last.keys
  BY <1>5 DEF Uhid!KeyReport, Uhid!Pressed, Uhid!RollOver, Uhid!Caps
<1>7. wire \in Seq(Reports)
  BY DEF KeysInv
<1>a. last \in Reports /\ Uhid!CapsReport \in Reports
  <2>1. hidKeys' \in SUBSET Uhid!Scancodes /\ heldKeys' \cap Modifiers \in SUBSET Modifiers
    BY DEF Uhid!KeyEvent, Uhid!ProcessKey, KeysInv
  <2>2. Uhid!CapsReport \in Reports
    BY DEF Uhid!CapsReport, Reports, Uhid!Scancodes
  <2> QED BY <2>1, <2>2, ReportTyped
<1>b. /\ wire \o (<<>> \o <<>>) = wire
      /\ wire \o (<<Uhid!CapsReport>> \o <<>>) = Append(wire, Uhid!CapsReport)
      /\ wire \o (<<>> \o <<last>>) = Append(wire, last)
      /\ wire \o (<<Uhid!CapsReport>> \o <<last>>) = Append(Append(wire, Uhid!CapsReport), last)
  <2> HIDE DEF last
  <2> QED BY <1>7, <1>a, PushedReports
<1>8. CASE synced
  <2>1. first = <<>>
    BY <1>2, <1>8 DEF CapsInv
  <2> HIDE DEF last
  <2>2. CASE report = <<>>
    <3>1. wire' = wire
      BY <1>2, <1>b, <2>1, <2>2
    <3> QED BY <1>1, <1>4, <1>5, <1>8, <3>1 DEF CapsInv
  <2>3. CASE report = <<last>>
    <3>1. /\ Len(wire') = Len(wire) + 1 /\ wire'[Len(wire) + 1] = last /\ Len(wire) \in Nat
          /\ \A i \in 1..Len(wire) : wire'[i] = wire[i]
      <4>1. wire' = Append(wire, last)
        BY <1>2, <1>b, <2>1, <2>3
      <4> QED BY <1>7, <1>a, <4>1
    <3>2. \A i \in 2..Len(wire') : Uhid!Caps \notin wire'[i].keys
      BY <1>6, <1>8, <3>1 DEF CapsInv
    <3>3. wire # <<>> => wire' # <<>> /\ wire'[1] = wire[1]
      BY <1>7, <3>1
    <3>4. wire = <<>> => wire'[1] = last
      BY <3>1
    <3> QED BY <1>1, <1>4, <1>5, <1>6, <1>8, <3>2, <3>3, <3>4 DEF CapsInv
  <2> QED BY <1>2, <2>2, <2>3
<1>9. CASE ~synced
  <2>1. /\ wire = <<>> /\ leds = <<>> /\ deviceMod = devCaps /\ Uhid!Caps \notin devKeys
        /\ first = sync
    BY <1>2, <1>9 DEF Uhid!CapsAtRest
  <2>2. \A i \in 1..Len(leds') : leds'[i] = hostCaps'
    BY <1>1, <2>1
  <2>3. CASE hostCaps = deviceMod
    <3>1. first = <<>>
      BY <2>1, <2>3
    <3> HIDE DEF last, sync
    <3>2. wire' = <<>> \/ wire' = <<last>>
      <4>1. wire' = wire \/ wire' = Append(wire, last)
        BY <1>2, <1>b, <3>1
      <4> QED BY <2>1, <4>1
    <3>3. devCaps' = hostCaps'
      BY <1>1, <1>4, <2>1, <2>3
    <3> QED BY <1>4, <1>5, <1>6, <2>2, <3>2, <3>3
  <2>4. CASE hostCaps # deviceMod
    <3>1. first = <<Uhid!CapsReport>>
      BY <1>4, <2>1, <2>4
    <3> HIDE DEF last, sync
    <3>2. wire' = <<Uhid!CapsReport>> \/ wire' = <<Uhid!CapsReport, last>>
      <4>1. \/ wire' = Append(wire, Uhid!CapsReport)
            \/ wire' = Append(Append(wire, Uhid!CapsReport), last)
        BY <1>2, <1>b, <3>1
      <4> QED BY <2>1, <4>1
    <3>3. devCaps' # hostCaps'
      BY <1>1, <1>4, <2>1, <2>4
    <3>4. wire' # <<>> /\ wire'[1] = Uhid!CapsReport /\ \A i \in 2..Len(wire') : wire'[i] = last
      BY <3>2
    <3> QED BY <1>1, <1>4, <1>5, <1>6, <2>1, <2>2, <3>3, <3>4
  <2> QED BY <2>3, <2>4
<1> QED BY <1>8, <1>9

\* Android reads the first report; with none left, it has the keys of the last.
LEMMA DeviceReadsKeeps ==
  ASSUME KeysInv, Uhid!DeviceReads
  PROVE  KeysInv'
<1>1. /\ wire \in Seq(Reports) /\ wire # <<>> /\ wire' = Tail(wire)
      /\ UNCHANGED <<heldKeys, hidKeys, behind>>
      /\ devMods' = Head(wire).mods
      /\ devKeys' = (IF Head(wire).keys = Uhid!RollOver THEN devKeys ELSE Head(wire).keys)
  BY DEF Uhid!DeviceReads, KeysInv
<1>2. CASE Len(wire) = 1
  <2>1. wire' = <<>> /\ (~behind => Head(wire) = Uhid!KeyReport(hidKeys, heldKeys \cap Modifiers))
    BY <1>1, <1>2 DEF KeysInv
  <2>2. ~behind /\ Uhid!Cardinality(hidKeys) <= MaxKeys => devKeys' = hidKeys
    <3> SUFFICES ASSUME ~behind, Uhid!Cardinality(hidKeys) <= MaxKeys PROVE devKeys' = hidKeys
      OBVIOUS
    <3>1. Head(wire).keys = hidKeys
      <4>1. Uhid!Cardinality(hidKeys) \in Nat
        BY FS_CardinalityType, UhidCardinality DEF KeysInv
      <4>2. Uhid!Pressed(hidKeys) = hidKeys
        BY <4>1, KeyboardAssumption DEF Uhid!Pressed
      <4> QED BY <2>1, <4>2 DEF Uhid!KeyReport
    <3>2. hidKeys # Uhid!RollOver
      BY KeyboardAssumption DEF KeysInv, Uhid!RollOver, Uhid!Scancodes, Uhid!Caps
    <3> QED BY <1>1, <3>1, <3>2
  <2>3. ~behind => devMods' = heldKeys \cap Modifiers
    BY <1>1, <2>1 DEF Uhid!KeyReport
  <2>4. wire' \in Seq(Reports)
    BY <2>1, EmptySeq
  <2>5. Uhid!KeysFollow'
    BY <1>1, <2>2, <2>3 DEF KeysInv, Uhid!KeysFollow
  <2> QED BY <1>1, <2>1, <2>4, <2>5 DEF KeysInv, Uhid!KeysFollow
<1>3. CASE Len(wire) # 1
  <2>1. wire' \in Seq(Reports) /\ wire' # <<>> /\ wire'[Len(wire')] = wire[Len(wire)]
    <3>1. Len(wire) \in Nat /\ Len(wire) > 1
      <4>1. Len(wire) \in Nat /\ Len(wire) # 0
        BY <1>1
      <4> QED BY <4>1, <1>3, AboveOne
    <3>2. Tail(wire) \in Seq(Reports) /\ Len(Tail(wire)) = Len(wire) - 1
          /\ \A i \in 1..Len(wire) - 1 : Tail(wire)[i] = wire[i + 1]
      BY <1>1, <3>1
    <3> QED BY <1>1, <3>1, <3>2, SMTT(30)
  <2> QED BY <1>1, <2>1 DEF KeysInv, Uhid!KeysFollow
<1> QED BY <1>2, <1>3

\* Android reads the report that flips its CapsLock, or one that does not.
LEMMA DeviceReadsKeepsCaps ==
  ASSUME KeysInv, CapsInv, Uhid!DeviceReads
  PROVE  CapsInv'
<1> DEFINE keys == IF Head(wire).keys = Uhid!RollOver THEN devKeys ELSE Head(wire).keys
           flips == Uhid!Caps \in keys \ devKeys
<1>1. /\ wire \in Seq(Reports) /\ wire # <<>> /\ wire' = Tail(wire) /\ Head(wire) = wire[1]
      /\ UNCHANGED <<hostCaps, hidKeys, deviceMod, synced>>
      /\ devKeys' = keys /\ devCaps' = (devCaps # flips)
      /\ leds' = (IF flips THEN Append(leds, devCaps') ELSE leds)
  BY DEF Uhid!DeviceReads, KeysInv
<1> HIDE DEF flips
<1>a. devCaps \in BOOLEAN /\ hostCaps \in BOOLEAN
  BY DEF CapsInv
<1>b. /\ flips => devCaps' \in BOOLEAN /\ devCaps' # devCaps
      /\ ~flips => devCaps' = devCaps
  <2>1. devCaps' = (devCaps # flips) /\ flips \in BOOLEAN
    BY <1>1 DEF flips
  <2>2. CASE flips = TRUE
    BY <1>a, <2>1, <2>2, Zenon
  <2>3. CASE flips = FALSE
    BY <1>a, <2>1, <2>3, Zenon
  <2> QED BY <2>1, <2>2, <2>3
<1>2. devCaps' \in BOOLEAN /\ leds' \in Seq(BOOLEAN)
  <2>1. leds \in Seq(BOOLEAN)
    BY DEF CapsInv
  <2>2. CASE flips
    <3>1. devCaps' \in BOOLEAN /\ leds' = Append(leds, devCaps')
      BY <1>1, <1>b, <2>2
    <3> QED BY <2>1, <3>1
  <2>3. CASE ~flips
    <3>1. devCaps' = devCaps /\ leds' = leds
      BY <1>1, <1>b, <2>3
    <3> QED BY <1>a, <2>1, <3>1
  <2> QED BY <2>2, <2>3
<1>3. Len(wire') = Len(wire) - 1 /\ Len(wire) \in Nat /\ \A i \in 1..Len(wire') : wire'[i] = wire[i + 1]
  BY <1>1
<1>4. ASSUME synced
      PROVE  /\ \A i \in 1..Len(leds') : leds'[i] = hostCaps
             /\ \A i \in 1..Len(wire') : Uhid!Caps \notin wire'[i].keys
             /\ devCaps' = hostCaps
  <2>1. \A i \in 1..Len(wire') : Uhid!Caps \notin wire'[i].keys
    <3> SUFFICES ASSUME NEW i \in 1..Len(wire') PROVE Uhid!Caps \notin wire'[i].keys
      OBVIOUS
    <3>1. i + 1 \in 2..Len(wire) /\ wire'[i] = wire[i + 1]
      BY <1>3
    <3> QED BY <1>4, <3>1 DEF CapsInv
  <2>2. CASE flips
    <3>1. wire[1] = Uhid!CapsReport /\ devCaps # hostCaps
      BY <1>1, <1>4, <2>2 DEF CapsInv, flips
    <3>2. devCaps' = hostCaps
      BY <1>a, <1>b, <2>2, <3>1
    <3>3. \A i \in 1..Len(leds') : leds'[i] = hostCaps
      <4>1. leds' = Append(leds, hostCaps) /\ leds \in Seq(BOOLEAN)
            /\ \A i \in 1..Len(leds) : leds[i] = hostCaps
        BY <1>1, <1>4, <2>2, <3>2 DEF CapsInv
      <4> QED BY <4>1
    <3> QED BY <2>1, <3>2, <3>3
  <2>3. CASE ~flips
    <3>1. ~(wire[1] = Uhid!CapsReport /\ Uhid!Caps \notin devKeys)
      BY <1>1, <2>3 DEF flips, Uhid!CapsReport, Uhid!RollOver, Uhid!Caps
    <3>2. devCaps = hostCaps
      BY <1>4, <3>1 DEF CapsInv
    <3>3. devCaps' = hostCaps /\ leds' = leds
      BY <1>1, <1>b, <2>3, <3>2
    <3> QED BY <1>4, <2>1, <3>3 DEF CapsInv
  <2> QED BY <2>2, <2>3
<1>5. ASSUME synced
      PROVE  /\ \A i \in 2..Len(wire') : Uhid!Caps \notin wire'[i].keys
             /\ wire' # <<>> => Uhid!Caps \notin wire'[1].keys
  <2>1. wire' # <<>> => 1 \in 1..Len(wire')
    BY <1>1
  <2>2. \A i \in 2..Len(wire') : i \in 1..Len(wire')
    BY <1>3
  <2> QED BY <1>4, <1>5, <2>1, <2>2
<1> QED BY <1>1, <1>2, <1>4, <1>5 DEF CapsInv

\* A LED answer tells what was guessed, while CapsLock was not pressed since it was at rest.
LEMMA HidOutputKeepsCaps ==
  ASSUME CapsInv, Uhid!HidOutput
  PROVE  CapsInv'
<1>1. /\ leds \in Seq(BOOLEAN) /\ leds # <<>> /\ leds' = Tail(leds) /\ deviceMod' = leds[1]
      /\ UNCHANGED <<hostCaps, hidKeys, wire, devKeys, devCaps, synced>>
  BY DEF Uhid!HidOutput, CapsInv
<1>2. /\ leds' \in Seq(BOOLEAN) /\ Len(leds') = Len(leds) - 1 /\ Len(leds) \in Nat \ {0}
      /\ \A i \in 1..Len(leds') : leds'[i] = leds[i + 1]
  BY <1>1
<1>3. leds[1] \in BOOLEAN
  BY <1>1
<1>4. ASSUME synced
      PROVE  leds[1] = hostCaps /\ \A i \in 1..Len(leds') : leds'[i] = hostCaps
  BY <1>2, <1>4 DEF CapsInv
<1> QED BY <1>1, <1>2, <1>3, <1>4 DEF CapsInv

\* Every step of the keyboard and of Android.
LEMMA NextUhid == UhidInv /\ [Uhid!Next]_(Uhid!kbVars) => UhidInv'
<1> SUFFICES ASSUME KeysInv, CapsInv, [Uhid!Next]_(Uhid!kbVars) PROVE KeysInv' /\ CapsInv'
  BY DEF UhidInv
<1>1. CASE Uhid!HidOutput \/ UNCHANGED Uhid!kbVars
  <2>1. KeysInv'
    BY <1>1 DEF Uhid!HidOutput, Uhid!kbVars, KeysInv, Uhid!KeysFollow
  <2>2. CASE UNCHANGED Uhid!kbVars
    <3>1. UNCHANGED <<hostCaps, hidKeys, deviceMod, wire, leds, devKeys, devCaps, synced>>
      BY <2>2 DEF Uhid!kbVars
    <3> QED BY <2>1, <3>1 DEF CapsInv
  <2> QED BY <1>1, <2>1, <2>2, HidOutputKeepsCaps
<1> QED BY <1>1, KeyEventKeeps, KeyEventKeepsCaps, DeviceReadsKeeps, DeviceReadsKeepsCaps
        DEF Uhid!Next

\* From the invariant: what Android has follows what is pressed and typed.
LEMMA UhidFollows == UhidInv => Uhid!KeysFollow /\ Uhid!TypedInCase
<1> SUFFICES ASSUME KeysInv, CapsInv, synced
             PROVE  devCaps = hostCaps \/ (wire # <<>> /\ Head(wire) = Uhid!CapsReport)
  BY DEF UhidInv, KeysInv, Uhid!TypedInCase
<1>1. wire # <<>> => Head(wire) = wire[1]
  BY DEF KeysInv
<1> QED BY <1>1 DEF CapsInv

-----------------------------------------------------------------------------
(* Sequences without repetition.                                           *)

\* The elements of a sequence, and that none occurs twice.
Elements(s) == {s[i] : i \in 1..Len(s)}
Distinct(s) == \A i, j \in 1..Len(s) : s[i] = s[j] => i = j

\* The elements are in the set of the sequence.
LEMMA ElementsIn ==
  ASSUME NEW S, NEW s \in Seq(S)
  PROVE  Elements(s) \subseteq S
BY DEF Elements

\* An element that is new is appended.
LEMMA AppendElements ==
  ASSUME NEW S, NEW s \in Seq(S), NEW e \in S
  PROVE  /\ Append(s, e) \in Seq(S) /\ Elements(Append(s, e)) = Elements(s) \cup {e}
         /\ Distinct(s) /\ e \notin Elements(s) => Distinct(Append(s, e))
<1>1. /\ Append(s, e) \in Seq(S) /\ Len(Append(s, e)) = Len(s) + 1 /\ Append(s, e)[Len(s) + 1] = e
      /\ \A i \in 1..Len(s) : Append(s, e)[i] = s[i]
  OBVIOUS
<1>2. Elements(Append(s, e)) = Elements(s) \cup {e}
  BY <1>1 DEF Elements
<1>3. ASSUME Distinct(s), e \notin Elements(s) PROVE Distinct(Append(s, e))
  BY <1>1, <1>3 DEF Elements, Distinct
<1> QED BY <1>1, <1>2, <1>3

\* The tail loses the head, and nothing else.
LEMMA TailElements ==
  ASSUME NEW S, NEW s \in Seq(S), s # <<>>
  PROVE  /\ Tail(s) \in Seq(S) /\ Head(s) \in S /\ Head(s) \in Elements(s)
         /\ Elements(s) = Elements(Tail(s)) \cup {Head(s)}
         /\ Distinct(s) => Distinct(Tail(s)) /\ Elements(Tail(s)) = Elements(s) \ {Head(s)}
<1>1. /\ Tail(s) \in Seq(S) /\ Head(s) = s[1] /\ Len(Tail(s)) = Len(s) - 1 /\ Len(s) \in Nat \ {0}
      /\ \A i \in 1..Len(s) - 1 : Tail(s)[i] = s[i + 1]
  OBVIOUS
<1>2. Elements(s) = Elements(Tail(s)) \cup {Head(s)}
  <2>1. ASSUME NEW i \in 1..Len(s), i # 1 PROVE s[i] \in Elements(Tail(s))
    <3>1. i - 1 \in 1..Len(s) - 1 /\ Tail(s)[i - 1] = s[i]
      BY <1>1, <2>1
    <3> QED BY <1>1, <3>1 DEF Elements
  <2>2. ASSUME NEW i \in 1..Len(s) - 1 PROVE i + 1 \in 1..Len(s)
    BY <1>1
  <2> QED BY <1>1, <2>1, <2>2 DEF Elements
<1>3. ASSUME Distinct(s) PROVE Distinct(Tail(s)) /\ Head(s) \notin Elements(Tail(s))
  <2>1. ASSUME NEW i \in 1..Len(s) - 1 PROVE i + 1 \in 1..Len(s) /\ i + 1 # 1
    BY <1>1
  <2>2. 1 \in 1..Len(s)
    BY <1>1
  <2>3. Head(s) \notin Elements(Tail(s))
    BY <1>1, <1>3, <2>1, <2>2 DEF Elements, Distinct
  <2>4. ASSUME NEW i \in 1..Len(s) - 1, NEW j \in 1..Len(s) - 1, Tail(s)[i] = Tail(s)[j] PROVE i = j
    BY <1>1, <1>3, <2>1, <2>4 DEF Distinct
  <2> QED BY <1>1, <2>3, <2>4 DEF Distinct
<1>4. Head(s) \in S
  BY <1>1
<1> QED BY <1>1, <1>2, <1>3, <1>4

-----------------------------------------------------------------------------
(* KeyboardSdk.                                                            *)

SdlEvents == [type : {"key", "text"}, press : Nat \ {0}]
KeyOf(p) == [type |-> "key", press |-> p]
TextOf(p) == [type |-> "text", press |-> p]

\* Whether a key types something under these modifiers, and what is to be made of a press.
TypesUnder(class, m) ==
  /\ "ctrl" \notin m
  /\ class \in {"letter", "punct"} \/ (class = "keypad" /\ m \cap {"num", "shift"} # {})
KeyInjects(press) == "mod" \notin press.mods /\ Sdk!ConvertKeycode(press.class, press.mods)
TextInjects(press) ==
  "mod" \notin press.mods /\ TypesUnder(press.class, press.mods) /\ Sdk!ProcessText(press.class)

SdkTyped ==
  /\ injectMode \in {"mixed", "text", "raw"} /\ modState \subseteq KeyMods
  /\ presses \in Seq([class : Classes, mods : SUBSET KeyMods])
  /\ byKey \in Seq(Nat) /\ byText \in Seq(Nat)
  /\ Len(byKey) = Len(presses) /\ Len(byText) = Len(presses)
  /\ refusedKey \subseteq 1..Len(presses) /\ refusedText \subseteq 1..Len(presses)
  /\ sdlEvents \in Seq(SdlEvents) /\ Distinct(sdlEvents)
  /\ \A e \in Elements(sdlEvents) : e.press <= Len(presses)

\* A press was injected by each of its events that is no longer queued nor was refused, and by no
\* other; only an event that is no longer queued was refused.
Accounts(p) ==
  /\ p \in refusedKey => KeyInjects(presses[p]) /\ KeyOf(p) \notin Elements(sdlEvents)
  /\ byKey[p] = IF /\ KeyOf(p) \notin Elements(sdlEvents) /\ KeyInjects(presses[p])
                   /\ p \notin refusedKey
                THEN 1 ELSE 0
  /\ p \in refusedText => TextOf(p) \notin Elements(sdlEvents)
  /\ p \notin raced =>
       /\ p \in refusedText => TextInjects(presses[p])
       /\ byText[p] = IF /\ TextOf(p) \notin Elements(sdlEvents) /\ TextInjects(presses[p])
                         /\ p \notin refusedText
                      THEN 1 ELSE 0
  /\ TextOf(p) \in Elements(sdlEvents) /\ "mod" \notin presses[p].mods =>
       TypesUnder(presses[p].class, presses[p].mods)

Accounted == \A p \in 1..Len(presses) : Accounts(p)

SdkInv == SdkTyped /\ Accounted

\* No key is pressed at first.
LEMMA InitSdk == Sdk!Init => SdkInv
<1> SUFFICES ASSUME Sdk!Init PROVE SdkInv
  OBVIOUS
<1>1. /\ presses = <<>> /\ byKey = <<>> /\ byText = <<>> /\ sdlEvents = <<>> /\ modState = {}
      /\ injectMode \in {"mixed", "text", "raw"} /\ Len(presses) = 0
      /\ refusedKey = {} /\ refusedText = {}
  BY DEF Sdk!Init
<1>2. Elements(<<>>) = {} /\ Distinct(<<>>)
  BY DEF Elements, Distinct
<1>3. \A S : <<>> \in Seq(S)
  BY EmptySeq
<1> QED BY <1>1, <1>2, <1>3 DEF SdkInv, SdkTyped, Accounted

\* A press queues its event, and that of its text when it types one.
LEMMA PressKeeps ==
  ASSUME SdkInv, NEW class \in Classes, Sdk!Press(class)
  PROVE  SdkInv'
<1> DEFINE n == Len(presses) + 1
           press == [class |-> class, mods |-> modState]
<1> USE DEF SdkInv
<1>1. /\ presses' = Append(presses, press) /\ byKey' = Append(byKey, 0)
      /\ byText' = Append(byText, 0)
      /\ UNCHANGED <<injectMode, modState, raced, refusedKey, refusedText>>
      /\ \/ TypesUnder(class, modState) /\ sdlEvents' = sdlEvents \o <<KeyOf(n), TextOf(n)>>
         \/ /\ ~TypesUnder(class, modState) \/ "mod" \in modState
            /\ sdlEvents' = Append(sdlEvents, KeyOf(n))
  BY DEF Sdk!Press, Sdk!Types, TypesUnder, KeyOf, TextOf
<1>2. n \in Nat \ {0} /\ KeyOf(n) \in SdlEvents /\ TextOf(n) \in SdlEvents /\ KeyOf(n) # TextOf(n)
      /\ KeyOf(n) \notin Elements(sdlEvents) /\ TextOf(n) \notin Elements(sdlEvents)
  BY DEF SdkTyped, SdlEvents, KeyOf, TextOf
<1>3. /\ press \in [class : Classes, mods : SUBSET KeyMods] /\ Len(presses') = n
      /\ presses' \in Seq([class : Classes, mods : SUBSET KeyMods])
      /\ presses'[n] = press /\ \A p \in 1..Len(presses) : presses'[p] = presses[p]
  BY <1>1 DEF SdkTyped
<1>4. /\ byKey' \in Seq(Nat) /\ Len(byKey') = n /\ byKey'[n] = 0
      /\ \A p \in 1..Len(presses) : byKey'[p] = byKey[p]
  BY <1>1 DEF SdkTyped
<1>5. /\ byText' \in Seq(Nat) /\ Len(byText') = n /\ byText'[n] = 0
      /\ \A p \in 1..Len(presses) : byText'[p] = byText[p]
  BY <1>1 DEF SdkTyped
<1> HIDE DEF press
<1>6. /\ sdlEvents' \in Seq(SdlEvents) /\ Distinct(sdlEvents')
      /\ \/ TypesUnder(class, modState) /\ Elements(sdlEvents') = Elements(sdlEvents) \cup {KeyOf(n), TextOf(n)}
         \/ /\ ~TypesUnder(class, modState) \/ "mod" \in modState
            /\ Elements(sdlEvents') = Elements(sdlEvents) \cup {KeyOf(n)}
  <2> DEFINE keyed == Append(sdlEvents, KeyOf(n))
  <2>1. /\ sdlEvents \in Seq(SdlEvents) /\ Distinct(sdlEvents)
    BY DEF SdkTyped
  <2>2. /\ keyed \in Seq(SdlEvents) /\ Distinct(keyed)
        /\ Elements(keyed) = Elements(sdlEvents) \cup {KeyOf(n)}
    BY <1>2, <2>1, AppendElements
  <2>3. sdlEvents \o <<KeyOf(n), TextOf(n)>> = Append(keyed, TextOf(n))
    BY <1>2, <2>1
  <2> HIDE DEF keyed
  <2>4. /\ Append(keyed, TextOf(n)) \in Seq(SdlEvents) /\ Distinct(Append(keyed, TextOf(n)))
        /\ Elements(Append(keyed, TextOf(n))) = Elements(keyed) \cup {TextOf(n)}
    BY <1>2, <2>2, AppendElements
  <2> QED BY <1>1, <2>2, <2>3, <2>4 DEF keyed
<1>7. SdkTyped'
  <2>1. \A e \in Elements(sdlEvents') : e.press <= Len(presses')
    <3>1. ASSUME NEW e \in Elements(sdlEvents) PROVE e.press <= n
      <4>1. e.press <= Len(presses) /\ Len(presses) \in Nat /\ sdlEvents \in Seq(SdlEvents)
        BY DEF SdkTyped
      <4>2. e \in SdlEvents
        BY <4>1, ElementsIn
      <4> QED BY <4>1, <4>2 DEF SdlEvents
    <3>2. KeyOf(n).press <= n /\ TextOf(n).press <= n
      BY <1>2 DEF KeyOf, TextOf
    <3> QED BY <1>3, <1>6, <3>1, <3>2
  <2> QED BY <1>1, <1>3, <1>4, <1>5, <1>6, <2>1 DEF SdkTyped
<1>8. Accounted'
  <2> SUFFICES ASSUME NEW p \in 1..n PROVE Accounts(p)'
    BY <1>3 DEF Accounted
  <2>1. CASE p = n
    <3>1. p \notin refusedKey' /\ p \notin refusedText'
      BY <1>1, <2>1 DEF SdkTyped
    <3>2. presses'[p].class = class /\ presses'[p].mods = modState
      BY <1>3, <2>1 DEF press
    <3>3. KeyOf(p) \in Elements(sdlEvents') /\ byKey'[p] = 0 /\ byText'[p] = 0
      BY <1>4, <1>5, <1>6, <2>1
    <3>4. \/ TextOf(p) \in Elements(sdlEvents') /\ TypesUnder(class, modState)
          \/ /\ TextOf(p) \notin Elements(sdlEvents')
             /\ ~TypesUnder(class, modState) \/ "mod" \in modState
      BY <1>2, <1>6, <2>1
    <3>5. TextOf(p) \notin Elements(sdlEvents') => ~TextInjects(presses[p])'
      BY <3>2, <3>4 DEF TextInjects
    <3> QED BY <3>1, <3>2, <3>3, <3>4, <3>5 DEF Accounts
  <2>2. CASE p \in 1..Len(presses)
    <3>1. KeyOf(p) # KeyOf(n) /\ TextOf(p) # KeyOf(n) /\ TextOf(p) # TextOf(n) /\ KeyOf(p) # TextOf(n)
      BY <2>2 DEF KeyOf, TextOf, SdkTyped
    <3>2. /\ KeyOf(p) \in Elements(sdlEvents') <=> KeyOf(p) \in Elements(sdlEvents)
          /\ TextOf(p) \in Elements(sdlEvents') <=> TextOf(p) \in Elements(sdlEvents)
      BY <1>6, <3>1
    <3>3. /\ KeyInjects(presses[p])' = KeyInjects(presses[p])
          /\ TextInjects(presses[p])' = TextInjects(presses[p])
      BY <1>1, <1>3, <2>2 DEF KeyInjects, TextInjects, Sdk!ConvertKeycode, Sdk!ProcessText
    <3> QED BY <1>1, <1>3, <1>4, <1>5, <2>2, <3>2, <3>3 DEF Accounted, Accounts
  <2> QED BY <2>1, <2>2 DEF SdkTyped
<1> QED BY <1>7, <1>8

\* An event injects its press or not, by the mode and the modifiers.
LEMMA HandleEventKeeps ==
  ASSUME SdkInv, Sdk!HandleEvent
  PROVE  SdkInv'
<1> DEFINE e == Head(sdlEvents)
           p == e.press
<1> USE DEF SdkInv
<1>1. /\ sdlEvents \in Seq(SdlEvents) /\ sdlEvents # <<>> /\ sdlEvents' = Tail(sdlEvents)
      /\ UNCHANGED <<injectMode, modState, presses>>
      /\ IF e.type = "key" THEN Sdk!KeyEvent(p) ELSE Sdk!TextEvent(p)
  BY DEF Sdk!HandleEvent, SdkTyped
<1>2. /\ sdlEvents' \in Seq(SdlEvents) /\ Distinct(sdlEvents') /\ e \in SdlEvents
      /\ Elements(sdlEvents') = Elements(sdlEvents) \ {e} /\ e \in Elements(sdlEvents)
  BY <1>1, TailElements DEF SdkTyped
<1> HIDE DEF e
<1>3. p \in 1..Len(presses) /\ e.type \in {"key", "text"}
  <2>1. p <= Len(presses)
    BY <1>2 DEF SdkTyped
  <2>2. p \in Nat \ {0} /\ Len(presses) \in Nat /\ e.type \in {"key", "text"}
    BY <1>2 DEF SdlEvents, SdkTyped
  <2> QED BY <2>1, <2>2
<1>4. \A q \in 1..Len(presses) : KeyInjects(presses[q])' = KeyInjects(presses[q])
        /\ TextInjects(presses[q])' = TextInjects(presses[q])
  BY <1>1 DEF KeyInjects, TextInjects, Sdk!ConvertKeycode, Sdk!ProcessText
<1>5. CASE e.type = "key"
  <2>1. e = KeyOf(p)
    BY <1>2, <1>5 DEF SdlEvents, KeyOf
  <2>2. /\ UNCHANGED <<byText, raced, refusedText>>
        /\ \/ /\ byKey' = IF KeyInjects(presses[p]) THEN [byKey EXCEPT ![p] = @ + 1] ELSE byKey
              /\ refusedKey' = refusedKey
           \/ KeyInjects(presses[p]) /\ refusedKey' = refusedKey \cup {p} /\ byKey' = byKey
    BY <1>1, <1>5 DEF Sdk!KeyEvent, Sdk!Inject, KeyInjects, Sdk!IsShortcutMod
  <2>3. byKey[p] = 0 /\ p \notin refusedKey
    BY <1>2, <1>3, <2>1 DEF Accounted, Accounts
  <2>4. /\ byKey' \in Seq(Nat) /\ Len(byKey') = Len(presses)
        /\ byKey'[p] = IF KeyInjects(presses[p]) /\ p \notin refusedKey' THEN 1 ELSE 0
        /\ p \in refusedKey' => KeyInjects(presses[p])
        /\ \A q \in 1..Len(presses) : q # p => byKey'[q] = byKey[q]
    <3>1. byKey \in Seq(Nat) /\ Len(byKey) = Len(presses) /\ p \in 1..Len(byKey)
      BY <1>3 DEF SdkTyped
    <3>2. CASE KeyInjects(presses[p]) /\ refusedKey' = refusedKey
      <4>1. CASE byKey' = [byKey EXCEPT ![p] = @ + 1]
        BY <2>3, <3>1, <3>2, <4>1
      <4>2. CASE byKey' # [byKey EXCEPT ![p] = @ + 1]
        BY <2>2, <2>3, <3>2, <4>2
      <4> QED BY <4>1, <4>2
    <3>3. CASE ~(KeyInjects(presses[p]) /\ refusedKey' = refusedKey)
      <4>1. byKey' = byKey
        BY <2>2, <3>3
      <4>2. p \in refusedKey' <=> KeyInjects(presses[p])
        BY <2>2, <2>3, <3>3
      <4> QED BY <2>3, <3>1, <4>1, <4>2
    <3> QED BY <3>2, <3>3
  <2>5. \A q \in 1..Len(presses) :
          /\ KeyOf(q) \in Elements(sdlEvents') <=> KeyOf(q) \in Elements(sdlEvents) /\ q # p
          /\ TextOf(q) \in Elements(sdlEvents') <=> TextOf(q) \in Elements(sdlEvents)
    BY <1>2, <1>3, <2>1 DEF KeyOf, TextOf
  <2>8. /\ \A q \in 1..Len(presses) : q # p => (q \in refusedKey' <=> q \in refusedKey)
        /\ refusedKey' \subseteq 1..Len(presses)
    BY <1>3, <2>2 DEF SdkTyped
  <2>6. SdkTyped'
    BY <1>1, <1>2, <2>2, <2>4, <2>8 DEF SdkTyped
  <2>7. Accounted'
    <3> SUFFICES ASSUME NEW q \in 1..Len(presses) PROVE Accounts(q)'
      BY <1>1 DEF Accounted
    <3>1. CASE q = p
      BY <1>1, <1>3, <1>4, <2>1, <2>2, <2>4, <2>5, <3>1 DEF Accounted, Accounts
    <3>2. CASE q # p
      BY <1>1, <1>4, <2>2, <2>4, <2>5, <2>8, <3>2 DEF Accounted, Accounts
    <3> QED BY <3>1, <3>2
  <2> QED BY <2>6, <2>7
<1>6. CASE e.type = "text"
  <2>1. e = TextOf(p)
    BY <1>2, <1>6 DEF SdlEvents, TextOf
  <2> DEFINE now == "mod" \notin modState /\ Sdk!ProcessText(presses[p].class)
  <2>2. /\ UNCHANGED <<byKey, refusedKey>>
        /\ \/ /\ byText' = (IF now THEN [byText EXCEPT ![p] = @ + 1] ELSE byText)
              /\ refusedText' = refusedText
           \/ now /\ refusedText' = refusedText \cup {p} /\ byText' = byText
        /\ raced' = (IF ("mod" \in modState) # ("mod" \in presses[p].mods) THEN raced \cup {p} ELSE raced)
    BY <1>1, <1>6 DEF Sdk!TextEvent, Sdk!Inject, Sdk!IsShortcutMod
  <2>3. /\ p \notin refusedText
        /\ p \notin raced' => p \notin raced /\ byText[p] = 0 /\ (now <=> TextInjects(presses[p]))
    BY <1>2, <1>3, <2>1, <2>2 DEF Accounted, Accounts, TextInjects
  <2> HIDE DEF now
  <2>4. /\ byText' \in Seq(Nat) /\ Len(byText') = Len(presses)
        /\ p \notin raced' =>
             /\ byText'[p] = IF TextInjects(presses[p]) /\ p \notin refusedText' THEN 1 ELSE 0
             /\ p \in refusedText' => TextInjects(presses[p])
        /\ \A q \in 1..Len(presses) : q # p => byText'[q] = byText[q]
    <3>1. byText \in Seq(Nat) /\ Len(byText) = Len(presses) /\ p \in 1..Len(byText)
      BY <1>3 DEF SdkTyped
    <3>2. CASE now /\ refusedText' = refusedText
      <4>1. CASE byText' = [byText EXCEPT ![p] = @ + 1]
        BY <2>3, <3>1, <3>2, <4>1
      <4>2. CASE byText' # [byText EXCEPT ![p] = @ + 1]
        BY <2>2, <2>3, <3>2, <4>2
      <4> QED BY <4>1, <4>2
    <3>3. CASE ~(now /\ refusedText' = refusedText)
      <4>1. byText' = byText
        BY <2>2, <3>3
      <4>2. p \in refusedText' <=> now
        BY <2>2, <2>3, <3>3
      <4> QED BY <2>3, <3>1, <4>1, <4>2
    <3> QED BY <3>2, <3>3
  <2>5. \A q \in 1..Len(presses) :
          /\ KeyOf(q) \in Elements(sdlEvents') <=> KeyOf(q) \in Elements(sdlEvents)
          /\ TextOf(q) \in Elements(sdlEvents') <=> TextOf(q) \in Elements(sdlEvents) /\ q # p
    BY <1>2, <1>3, <2>1 DEF KeyOf, TextOf
  <2>8. /\ \A q \in 1..Len(presses) : q # p => /\ q \in raced' <=> q \in raced
                                               /\ q \in refusedText' <=> q \in refusedText
        /\ refusedText' \subseteq 1..Len(presses)
    BY <1>3, <2>2 DEF SdkTyped
  <2>6. SdkTyped'
    BY <1>1, <1>2, <2>2, <2>4, <2>8 DEF SdkTyped
  <2>7. Accounted'
    <3> SUFFICES ASSUME NEW q \in 1..Len(presses) PROVE Accounts(q)'
      BY <1>1 DEF Accounted
    <3>1. CASE q = p
      BY <1>1, <1>3, <1>4, <2>1, <2>2, <2>4, <2>5, <2>8, <3>1 DEF Accounted, Accounts
    <3>2. CASE q # p
      BY <1>1, <1>4, <2>2, <2>4, <2>5, <2>8, <3>2 DEF Accounted, Accounts
    <3> QED BY <3>1, <3>2
  <2> QED BY <2>6, <2>7
<1> QED BY <1>3, <1>5, <1>6

\* Every step of the keyboard.
LEMMA NextSdk == SdkInv /\ [Sdk!Next]_(Sdk!kbSdkVars) => SdkInv'
<1> SUFFICES ASSUME SdkInv, [Sdk!Next]_(Sdk!kbSdkVars) PROVE SdkInv'
  OBVIOUS
<1>1. ASSUME modState' \subseteq KeyMods,
             UNCHANGED <<injectMode, sdlEvents, presses, byKey, byText, raced, refusedKey, refusedText>>
      PROVE  SdkInv'
  BY <1>1 DEF SdkInv, SdkTyped, Accounted, Accounts, KeyInjects, TextInjects, Sdk!ConvertKeycode,
     Sdk!ProcessText
<1>2. ASSUME NEW m \in KeyMods, Sdk!Modifier(m) PROVE SdkInv'
  BY <1>1, <1>2 DEF Sdk!Modifier, SdkInv, SdkTyped
<1>3. CASE UNCHANGED Sdk!kbSdkVars
  BY <1>1, <1>3 DEF Sdk!kbSdkVars, SdkInv, SdkTyped
<1> QED BY <1>2, <1>3, PressKeeps, HandleEventKeeps DEF Sdk!Next

\* Whatever the mode, exactly one of the two events of a key that types is for the device: it is
\* injected or refused.
LEMMA SdkTypesOnce == SdkInv => Sdk!TypedOnce
<1> SUFFICES ASSUME SdkInv, sdlEvents = <<>>, NEW p \in 1..Len(presses) \ raced
             PROVE  LET press == presses[p]
                        injected == byKey[p] + byText[p]
                        refused == refusedKey \cup refusedText
                    IN  IF "mod" \in press.mods THEN injected = 0 /\ p \notin refused
                        ELSE "ctrl" \notin press.mods => injected = IF p \in refused THEN 0 ELSE 1
  BY DEF Sdk!TypedOnce
<1>1. Elements(sdlEvents) = {}
  BY DEF Elements
<1>2. /\ byKey[p] = IF KeyInjects(presses[p]) /\ p \notin refusedKey THEN 1 ELSE 0
      /\ byText[p] = IF TextInjects(presses[p]) /\ p \notin refusedText THEN 1 ELSE 0
      /\ p \in refusedKey => KeyInjects(presses[p])
      /\ p \in refusedText => TextInjects(presses[p])
  BY <1>1 DEF SdkInv, Accounted, Accounts
<1>3. /\ presses[p].class \in {"special", "keypad", "letter", "punct"} /\ injectMode \in {"mixed", "text", "raw"}
  <2>1. presses[p] \in [class : Classes, mods : SUBSET KeyMods]
    <3>1. presses \in Seq([class : Classes, mods : SUBSET KeyMods]) /\ p \in 1..Len(presses)
      BY DEF SdkInv, SdkTyped
    <3> QED BY <3>1, ElementOfSeq
  <2> QED BY <2>1, SdkAssumption DEF SdkInv, SdkTyped
<1>4. CASE "mod" \in presses[p].mods
  BY <1>2, <1>4 DEF KeyInjects, TextInjects
<1>5. CASE "mod" \notin presses[p].mods /\ "ctrl" \notin presses[p].mods
  <2>1. KeyInjects(presses[p]) <=> ~TextInjects(presses[p])
    BY <1>3, <1>5 DEF KeyInjects, TextInjects, Sdk!ConvertKeycode, Sdk!ProcessText, TypesUnder
  <2> QED BY <1>2, <1>5, <2>1
<1> QED BY <1>4, <1>5

-----------------------------------------------------------------------------
(* The tail of a sequence.                                                 *)

\* The head and the tail of a sequence that is not empty.
LEMMA TailOf ==
  ASSUME NEW S, NEW s \in Seq(S), s # <<>>
  PROVE  /\ Tail(s) \in Seq(S) /\ Len(Tail(s)) = Len(s) - 1 /\ Head(s) = s[1] /\ Head(s) \in S
         /\ Len(s) \in Nat \ {0} /\ 1 \in 1..Len(s)
         /\ \A i \in 1..Len(Tail(s)) : i + 1 \in 1..Len(s) /\ 1 < i + 1 /\ Tail(s)[i] = s[i + 1]
OBVIOUS

\* The tail of an increasing sequence increases, above its head.
LEMMA TailIncreases ==
  ASSUME NEW s \in Seq(Nat), s # <<>>, Increasing(s)
  PROVE  Increasing(Tail(s)) /\ \A i \in 1..Len(Tail(s)) : Head(s) < Tail(s)[i]
<1>1. ASSUME NEW i \in 1..Len(Tail(s)), NEW j \in 1..Len(Tail(s)), i < j PROVE Tail(s)[i] < Tail(s)[j]
  <2>1. i + 1 \in 1..Len(s) /\ j + 1 \in 1..Len(s) /\ i + 1 < j + 1
    BY <1>1, TailOf
  <2>2. s[i + 1] < s[j + 1]
    BY <2>1 DEF Increasing
  <2> QED BY <2>2, TailOf
<1>2. ASSUME NEW i \in 1..Len(Tail(s)) PROVE Head(s) < Tail(s)[i]
  <2>1. i + 1 \in 1..Len(s) /\ 1 \in 1..Len(s) /\ 1 < i + 1
    BY TailOf
  <2>2. s[1] < s[i + 1]
    BY <2>1 DEF Increasing
  <2> QED BY <2>2, TailOf
<1> QED BY <1>1, <1>2 DEF Increasing

-----------------------------------------------------------------------------
(* AoaHid.                                                                 *)

AoaInputs == {Aoa!Input(id, wait) : id \in Aoa!HidIds, wait \in Nat}
AoaEvents ==
  {Aoa!Open(id) : id \in Aoa!HidIds} \cup {Aoa!Close(id) : id \in Aoa!HidIds} \cup AoaInputs

AoaTyped ==
  /\ aoaQueue \in Seq(AoaEvents)
  /\ aoaPc \in {"off", "wait", "event", "describe", "ack", "closing", "ended"}
  /\ event \in AoaEvents \cup {Aoa!NoEvent}
  /\ aoaPc \in {"off", "wait"} => event = Aoa!NoEvent
  /\ aoaPc = "event" => event \in AoaEvents
  /\ aoaPc = "describe" => \E id \in Aoa!HidIds : event = Aoa!Open(id)
  /\ aoaPc = "ack" => event \in AoaInputs
  /\ aoaPc \in {"closing", "ended"} => event \in AoaInputs \cup {Aoa!NoEvent}

\* The clipboards are numbered in the order they are sent, and what is acknowledged is there.
Synchronized ==
  /\ sequence \in Nat /\ clipboard \in Nat /\ ack \in Nat
  /\ clipboards \in Seq(Nat) /\ acks \in Seq(Nat)
  /\ clipboard <= sequence /\ ack <= clipboard
  /\ Increasing(clipboards)
  /\ \A i \in 1..Len(clipboards) : clipboard < clipboards[i] /\ clipboards[i] <= sequence
  /\ \A i \in 1..Len(acks) : acks[i] <= clipboard
  /\ aoaPc = "event" /\ event.type = "input" => event.wait <= clipboard
  /\ Aoa!PasteIsCurrent

\* Whether the thread has opened a device and is not closing it, now or at an earlier event of
\* the queue.
Opened(id) ==
  \/ event = Aoa!Open(id)
  \/ id \in vecOpen \ stale /\ event # Aoa!Close(id)
OpenedAt(id, i) == IF i = 0 THEN Opened(id) ELSE aoaQueue[i] = Aoa!Open(id)
ClosedIn(id, i, j) == \E k \in 1..Len(aoaQueue) : i < k /\ k < j /\ aoaQueue[k] = Aoa!Close(id)
ClosedLater(id, i) == \E j \in 1..Len(aoaQueue) + 1 : ClosedIn(id, i, j)

\* A device is closed before it is opened again, and one that is unplugged is closed.
Alternate ==
  \A id \in Aoa!HidIds, i \in 0..Len(aoaQueue) :
    OpenedAt(id, i) =>
      /\ \A j \in 1..Len(aoaQueue) : i < j /\ aoaQueue[j] = Aoa!Open(id) => ClosedIn(id, i, j)
      /\ id \in Optional \ plugged => ClosedLater(id, i)

\* What the device has registered is remembered, but for what could not be unregistered.
Remembered ==
  /\ plugged \subseteq Optional
  /\ registered \subseteq vecOpen \cup stale \cup {id \in Aoa!HidIds : aoaPc = "describe" /\ event = Aoa!Open(id)}
  /\ \A id \in Aoa!HidIds : aoaPc = "describe" /\ event = Aoa!Open(id) => id \in registered
  /\ vecOpen \subseteq registered \cup stale
  /\ \A id \in Aoa!HidIds : event = Aoa!Open(id) => id \notin vecOpen \ stale
  /\ aoaPc = "ended" => vecOpen = {}

AoaInv == AoaTyped /\ Synchronized /\ Alternate /\ Remembered

\* The instance has the library's cardinality.
LEMMA AoaCardinality == \A S : Aoa!Cardinality(S) = Cardinality(S)
BY DEF Aoa!Cardinality, Cardinality

\* The three events of a device are different.
LEMMA EventsDiffer ==
  ASSUME NEW id, NEW other, NEW wait
  PROVE  /\ Aoa!Open(id) # Aoa!Close(other) /\ Aoa!Open(id) # Aoa!Input(other, wait)
         /\ Aoa!Open(id) # Aoa!NoEvent /\ Aoa!Close(id) # Aoa!Input(other, wait)
         /\ Aoa!Close(id) # Aoa!NoEvent /\ Aoa!Input(other, wait) # Aoa!NoEvent
         /\ Aoa!Open(id) = Aoa!Open(other) <=> id = other
         /\ Aoa!Close(id) = Aoa!Close(other) <=> id = other
         /\ Aoa!Open(id).type = "open" /\ Aoa!Open(id).id = id
         /\ Aoa!Close(id).type = "close" /\ Aoa!Close(id).id = id
         /\ Aoa!Input(other, wait).type = "input" /\ Aoa!Input(other, wait).wait = wait
         /\ Aoa!NoEvent.type = "none"
BY DEF Aoa!Open, Aoa!Close, Aoa!Input, Aoa!NoEvent

\* The type of an event tells the event.
LEMMA EventTypes ==
  ASSUME NEW e \in AoaEvents \cup {Aoa!NoEvent}
  PROVE  /\ e.type = "open" => \E id \in Aoa!HidIds : e = Aoa!Open(id) /\ e.id = id
         /\ e.type = "close" => \E id \in Aoa!HidIds : e = Aoa!Close(id) /\ e.id = id
         /\ e.type = "input" => e \in AoaInputs /\ e.wait \in Nat
<1>1. CASE e = Aoa!NoEvent
  BY <1>1, EventsDiffer
<1>2. ASSUME NEW id \in Aoa!HidIds, e = Aoa!Open(id) PROVE e.type = "open" /\ e.id = id
  BY <1>2, EventsDiffer
<1>3. ASSUME NEW id \in Aoa!HidIds, e = Aoa!Close(id) PROVE e.type = "close" /\ e.id = id
  BY <1>3, EventsDiffer
<1>4. ASSUME NEW id \in Aoa!HidIds, NEW wait \in Nat, e = Aoa!Input(id, wait)
      PROVE  e.type = "input" /\ e.wait = wait /\ e \in AoaInputs
  BY <1>4, EventsDiffer DEF AoaInputs
<1> QED BY <1>1, <1>2, <1>3, <1>4 DEF AoaEvents, AoaInputs

\* The devices that must open are queued, once each.
LEMMA InitAoa == Aoa!Init => AoaInv
<1> SUFFICES ASSUME Aoa!Init PROVE AoaInv
  OBVIOUS
<1>1. DEFINE Opens == {Aoa!Open(id) : id \in Required}
<1>2. aoaQueue \in [1..Cardinality(Opens) -> Opens] /\ Aoa!IsInjective(aoaQueue) /\ Cardinality(Opens) \in Nat
  <2>1. IsFiniteSet(Opens)
    <3>1. IsFiniteSet(Required)
      BY AoaAssumption
    <3>2. [id \in Required |-> Aoa!Open(id)] \in Surjection(Required, Opens)
      BY DEF Surjection
    <3> QED BY <3>1, <3>2, FS_Surjection
  <2>2. PICK f \in [1..Cardinality(Opens) -> Opens] : f \in Bijection(1..Cardinality(Opens), Opens)
    BY <2>1, FS_CardinalityType DEF ExistsBijection, Bijection, Injection
  <2>3. Aoa!IsInjective(f)
    BY <2>2 DEF Bijection, Injection, IsInjective, Aoa!IsInjective
  <2>4. aoaQueue = CHOOSE g \in [1..Cardinality(Opens) -> Opens] : Aoa!IsInjective(g)
    BY AoaCardinality DEF Aoa!Init, Aoa!SetToSeq
  <2>5. Cardinality(Opens) \in Nat
    BY <2>1, FS_CardinalityType
  <2> QED BY <2>2, <2>3, <2>4, <2>5
<1> HIDE DEF Opens
<1>3. aoaQueue \in Seq(Opens) /\ Len(aoaQueue) = Cardinality(Opens)
  BY <1>2
<1>4. AoaTyped
  <2>1. Opens \subseteq AoaEvents
    BY DEF Opens, AoaEvents, Aoa!HidIds
  <2> QED BY <1>3, <2>1 DEF AoaTyped, Aoa!Init
<1>5. Synchronized
  BY DEF Synchronized, Increasing, Aoa!Init, Aoa!PasteIsCurrent
<1>6. Alternate
  <2>1. ASSUME NEW id \in Aoa!HidIds PROVE ~Opened(id)
    BY EventsDiffer DEF Opened, Aoa!Init
  <2>2. ASSUME NEW i \in 1..Len(aoaQueue), NEW j \in 1..Len(aoaQueue), i # j PROVE aoaQueue[i] # aoaQueue[j]
    BY <1>2, <1>3, <2>2 DEF Aoa!IsInjective
  <2>3. ASSUME NEW i \in 1..Len(aoaQueue), NEW id \in Optional PROVE aoaQueue[i] # Aoa!Open(id)
    <3>1. aoaQueue[i] \in Opens
      BY <1>2, <1>3
    <3> QED BY <3>1, EventsDiffer, AoaAssumption DEF Opens
  <2> QED BY <2>1, <2>2, <2>3 DEF Alternate, OpenedAt
<1>7. Remembered
  BY EventsDiffer DEF Remembered, Aoa!Init
<1> QED BY <1>4, <1>5, <1>6, <1>7 DEF AoaInv

\* What is added to the queue, and what the thread does of the event it has taken.
LEMMA AlternateKept ==
  ASSUME Alternate, aoaQueue \in Seq(AoaEvents), aoaQueue' \in Seq(AoaEvents),
         Len(aoaQueue) <= Len(aoaQueue'), \A i \in 1..Len(aoaQueue) : aoaQueue'[i] = aoaQueue[i],
         \A id \in Aoa!HidIds : Opened(id)' => Opened(id),
         \A id \in Aoa!HidIds, j \in 1..Len(aoaQueue') :
           Len(aoaQueue) < j /\ aoaQueue'[j] = Aoa!Open(id) =>
             j = Len(aoaQueue') /\ id \in Optional \ plugged /\ id \in plugged',
         \A id \in Optional \ plugged' :
           \/ id \in Optional \ plugged
           \/ Len(aoaQueue) < Len(aoaQueue') /\ aoaQueue'[Len(aoaQueue')] = Aoa!Close(id)
  PROVE  Alternate'
<1>1. Len(aoaQueue) \in Nat /\ Len(aoaQueue') \in Nat
  OBVIOUS
<1> SUFFICES ASSUME NEW id \in Aoa!HidIds, NEW i \in 0..Len(aoaQueue'), OpenedAt(id, i)'
             PROVE  /\ \A j \in 1..Len(aoaQueue') : i < j /\ aoaQueue'[j] = Aoa!Open(id) => ClosedIn(id, i, j)'
                    /\ id \in Optional \ plugged' => ClosedLater(id, i)'
  BY DEF Alternate
<1>2. ASSUME NEW j \in 1..Len(aoaQueue') + 1, NEW k \in 1..Len(aoaQueue'), i < k, k < j,
             aoaQueue'[k] = Aoa!Close(id)
      PROVE  ClosedIn(id, i, j)'
  BY <1>2 DEF ClosedIn
<1>3. CASE i <= Len(aoaQueue)
  <2>1. OpenedAt(id, i) /\ i \in 0..Len(aoaQueue)
    BY <1>1, <1>3 DEF OpenedAt
  <2>2. ASSUME NEW j \in 1..Len(aoaQueue) + 1, NEW m \in 1..Len(aoaQueue') + 1, j <= m, ClosedIn(id, i, j)
        PROVE  ClosedIn(id, i, m)'
    <3>1. PICK k \in 1..Len(aoaQueue) : i < k /\ k < j /\ aoaQueue[k] = Aoa!Close(id)
      BY <2>2 DEF ClosedIn
    <3>2. k \in 1..Len(aoaQueue') /\ k < m /\ aoaQueue'[k] = Aoa!Close(id)
      BY <1>1, <2>2, <3>1
    <3> QED BY <1>2, <3>1, <3>2
  <2>3. ASSUME id \in Optional \ plugged PROVE ClosedIn(id, i, Len(aoaQueue) + 1)
    BY <1>1, <2>1, <2>3 DEF Alternate, ClosedLater, ClosedIn
  <2>4. ASSUME NEW j \in 1..Len(aoaQueue'), i < j, aoaQueue'[j] = Aoa!Open(id) PROVE ClosedIn(id, i, j)'
    <3>1. CASE j <= Len(aoaQueue)
      <4>1. ClosedIn(id, i, j)
        BY <1>1, <2>1, <2>4, <3>1 DEF Alternate
      <4> QED BY <1>1, <2>2, <3>1, <4>1
    <3>2. CASE Len(aoaQueue) < j
      <4>1. ClosedIn(id, i, Len(aoaQueue) + 1)
        BY <2>3, <2>4, <3>2
      <4> QED BY <1>1, <2>2, <3>2, <4>1
    <3> QED BY <1>1, <3>1, <3>2
  <2>5. ASSUME id \in Optional \ plugged' PROVE ClosedLater(id, i)'
    <3>1. CASE id \in Optional \ plugged
      BY <1>1, <2>2, <2>3, <3>1 DEF ClosedLater
    <3>2. CASE Len(aoaQueue) < Len(aoaQueue') /\ aoaQueue'[Len(aoaQueue')] = Aoa!Close(id)
      BY <1>1, <1>2, <1>3, <3>2 DEF ClosedLater
    <3> QED BY <2>5, <3>1, <3>2
  <2> QED BY <2>4, <2>5
<1>4. CASE Len(aoaQueue) < i
  <2>1. i \in 1..Len(aoaQueue') /\ aoaQueue'[i] = Aoa!Open(id)
    BY <1>1, <1>4 DEF OpenedAt
  <2>2. i = Len(aoaQueue') /\ id \in plugged'
    BY <1>4, <2>1
  <2> QED BY <1>1, <2>2
<1> QED BY <1>1, <1>3, <1>4

\* The event that is taken leaves the others, one place nearer.
LEMMA TakeAlternates ==
  ASSUME Alternate, AoaTyped, aoaQueue # <<>>, event = Aoa!NoEvent, event' = Head(aoaQueue),
         aoaQueue' = Tail(aoaQueue), UNCHANGED <<vecOpen, stale, plugged>>
  PROVE  /\ Alternate'
         /\ \A id \in Aoa!HidIds : event' = Aoa!Open(id) => id \notin vecOpen \ stale
<1>1. /\ Len(aoaQueue) \in Nat \ {0} /\ Len(aoaQueue') = Len(aoaQueue) - 1
      /\ \A k \in 1..Len(aoaQueue') : aoaQueue'[k] = aoaQueue[k + 1]
      /\ event' = aoaQueue[1] /\ 1 \in 1..Len(aoaQueue)
  BY DEF AoaTyped
<1>2. ASSUME NEW id \in Aoa!HidIds, OpenedAt(id, 0), event' = Aoa!Open(id) PROVE FALSE
  <2>1. ClosedIn(id, 0, 1)
    BY <1>1, <1>2 DEF Alternate
  <2> QED BY <1>1, <2>1 DEF ClosedIn
<1>3. ASSUME NEW id \in Aoa!HidIds, event' = Aoa!Open(id) PROVE id \notin vecOpen \ stale
  BY <1>2, <1>3, EventsDiffer DEF OpenedAt, Opened
<1>4. ASSUME NEW id \in Aoa!HidIds, NEW i \in 0..Len(aoaQueue'), OpenedAt(id, i)'
      PROVE  \E m \in 0..Len(aoaQueue) :
               /\ OpenedAt(id, m) /\ m <= i + 1
               /\ aoaQueue[1] = Aoa!Close(id) => m = i + 1
               /\ m < i + 1 => i = 0 /\ m = 0
  <2>1. CASE i # 0
    BY <1>1, <1>4, <2>1 DEF OpenedAt
  <2>2. CASE i = 0 /\ event' = Aoa!Open(id)
    BY <1>1, <2>2 DEF OpenedAt
  <2>3. CASE i = 0 /\ event' # Aoa!Open(id)
    <3>1. id \in vecOpen \ stale /\ event' # Aoa!Close(id)
      BY <1>4, <2>3 DEF OpenedAt, Opened
    <3>2. OpenedAt(id, 0)
      BY <3>1, EventsDiffer DEF OpenedAt, Opened
    <3> QED BY <1>1, <2>3, <3>1, <3>2
  <2> QED BY <2>1, <2>2, <2>3
<1>5. ASSUME NEW id \in Aoa!HidIds, NEW i \in 0..Len(aoaQueue'), NEW m \in 0..Len(aoaQueue),
             NEW j \in 1..Len(aoaQueue') + 1, ClosedIn(id, m, j + 1), m <= i + 1,
             aoaQueue[1] = Aoa!Close(id) => m = i + 1, m < i + 1 => i = 0 /\ m = 0
      PROVE  ClosedIn(id, i, j)'
  <2>1. PICK k \in 1..Len(aoaQueue) : m < k /\ k < j + 1 /\ aoaQueue[k] = Aoa!Close(id)
    BY <1>5 DEF ClosedIn
  <2>2. k - 1 \in 1..Len(aoaQueue') /\ i < k - 1 /\ k - 1 < j /\ aoaQueue'[k - 1] = Aoa!Close(id)
    BY <1>1, <1>5, <2>1
  <2> QED BY <2>2 DEF ClosedIn
<1>6. Alternate'
  <2> SUFFICES ASSUME NEW id \in Aoa!HidIds, NEW i \in 0..Len(aoaQueue'), OpenedAt(id, i)'
               PROVE  /\ \A j \in 1..Len(aoaQueue') : i < j /\ aoaQueue'[j] = Aoa!Open(id) => ClosedIn(id, i, j)'
                      /\ id \in Optional \ plugged' => ClosedLater(id, i)'
    BY DEF Alternate
  <2>1. PICK m \in 0..Len(aoaQueue) :
               /\ OpenedAt(id, m) /\ m <= i + 1
               /\ aoaQueue[1] = Aoa!Close(id) => m = i + 1
               /\ m < i + 1 => i = 0 /\ m = 0
    BY <1>4
  <2>2. ASSUME NEW j \in 1..Len(aoaQueue'), i < j, aoaQueue'[j] = Aoa!Open(id) PROVE ClosedIn(id, i, j)'
    <3>1. j + 1 \in 1..Len(aoaQueue) /\ aoaQueue[j + 1] = Aoa!Open(id) /\ m < j + 1
      BY <1>1, <2>1, <2>2
    <3>2. ClosedIn(id, m, j + 1)
      BY <2>1, <3>1 DEF Alternate
    <3>3. j \in 1..Len(aoaQueue') + 1
      BY <1>1
    <3> QED BY <1>5, <2>1, <3>2, <3>3
  <2>3. ASSUME id \in Optional \ plugged' PROVE ClosedLater(id, i)'
    <3>1. ClosedIn(id, m, Len(aoaQueue) + 1)
      BY <1>1, <2>1, <2>3 DEF Alternate, ClosedLater, ClosedIn
    <3>2. PICK k \in 1..Len(aoaQueue) : m < k /\ aoaQueue[k] = Aoa!Close(id)
      BY <3>1 DEF ClosedIn
    <3>3. k - 1 \in 1..Len(aoaQueue') /\ i < k - 1 /\ aoaQueue'[k - 1] = Aoa!Close(id)
      BY <1>1, <2>1, <3>2
    <3>4. k \in 1..Len(aoaQueue') + 1 /\ k - 1 < k
      BY <1>1, <3>2
    <3> QED BY <3>3, <3>4 DEF ClosedLater, ClosedIn
  <2> QED BY <2>2, <2>3
<1> QED BY <1>3, <1>6

-----------------------------------------------------------------------------
\* The parts of the invariant speak of few variables.
LEMMA RememberedKept ==
  ASSUME Remembered, aoaPc # "describe", aoaPc' \notin {"describe", "ended"},
         plugged' \subseteq Optional, UNCHANGED <<vecOpen, stale, registered>>,
         \A id \in Aoa!HidIds : event' = Aoa!Open(id) => id \notin vecOpen \ stale
  PROVE  Remembered'
BY DEF Remembered

\* Inputs that are pushed are no opening, and are discarded when the queue is full.
LEMMA PushInputsKeeps ==
  ASSUME AoaTyped, NEW pushed \in Seq(AoaInputs),
         Aoa!PushInputs(pushed)
  PROVE  /\ aoaQueue' \in Seq(AoaEvents) /\ Len(aoaQueue) <= Len(aoaQueue')
         /\ \A i \in 1..Len(aoaQueue) : aoaQueue'[i] = aoaQueue[i]
         /\ \A id \in Aoa!HidIds, j \in 1..Len(aoaQueue') : Len(aoaQueue) < j => aoaQueue'[j] # Aoa!Open(id)
<1> DEFINE room == HidLimit - Len(aoaQueue)
           n == IF Len(pushed) < room THEN Len(pushed) ELSE room
<1>1. aoaQueue \in Seq(AoaEvents) /\ AoaInputs \subseteq AoaEvents /\ HidLimit \in Nat
  BY AoaAssumption DEF AoaTyped, AoaEvents
<1>2. CASE room <= 0
  <2>1. aoaQueue' = aoaQueue
    BY <1>2 DEF Aoa!PushInputs
  <2> QED BY <1>1, <2>1
<1>3. CASE ~(room <= 0)
  <2>1. aoaQueue' = aoaQueue \o SubSeq(pushed, 1, n) /\ n \in 0..Len(pushed)
    BY <1>1, <1>3 DEF Aoa!PushInputs
  <2> DEFINE s == SubSeq(pushed, 1, n)
  <2>2. s \in Seq(AoaInputs) /\ aoaQueue' = aoaQueue \o s
    BY <2>1
  <2>3. \A j \in 1..Len(s), id \in Aoa!HidIds : s[j] # Aoa!Open(id)
    <3>1. \A e \in AoaInputs, id \in Aoa!HidIds : e # Aoa!Open(id)
      BY EventsDiffer DEF AoaInputs
    <3> HIDE DEF s
    <3>2. \A j \in 1..Len(s) : s[j] \in AoaInputs
      BY <2>2
    <3> QED BY <3>1, <3>2
  <2> HIDE DEF s
  <2>4. s \in Seq(AoaEvents)
    BY <1>1, <2>2
  <2>5. Len(aoaQueue') = Len(aoaQueue) + Len(s)
        /\ \A j \in 1..Len(aoaQueue') : aoaQueue'[j] = IF j <= Len(aoaQueue) THEN aoaQueue[j] ELSE s[j - Len(aoaQueue)]
    BY <1>1, <2>2, <2>4
  <2>6. aoaQueue' \in Seq(AoaEvents) /\ Len(aoaQueue) \in Nat /\ Len(s) \in Nat
    BY <1>1, <2>2, <2>4
  <2>7. ASSUME NEW id \in Aoa!HidIds, NEW j \in 1..Len(aoaQueue'), Len(aoaQueue) < j
        PROVE  aoaQueue'[j] # Aoa!Open(id)
    <3>1. j - Len(aoaQueue) \in 1..Len(s) /\ aoaQueue'[j] = s[j - Len(aoaQueue)]
      BY <2>5, <2>6, <2>7
    <3> QED BY <2>3, <3>1
  <2> QED BY <2>5, <2>6, <2>7
<1> QED BY <1>2, <1>3

\* What the main thread pushes.
LEMMA MainKeepsAoa ==
  ASSUME AoaInv, NEW id \in Aoa!HidIds,
         \/ Aoa!PushKey(id) \/ Aoa!Paste(id) \/ Aoa!GamepadAdded(id) \/ Aoa!GamepadRemoved(id)
         \/ Aoa!GamepadInput(id)
  PROVE  AoaInv'
<1>1. UNCHANGED <<aoaStopped, interrupted, ack, aoaPc, event, vecOpen, openError, registered, stale, clipboard, acks, pasted>>
      /\ aoaPc # "off"
  BY DEF Aoa!PushKey, Aoa!Paste, Aoa!GamepadAdded, Aoa!GamepadRemoved, Aoa!GamepadInput, Aoa!MainPushes, Aoa!acksync, Aoa!aoaThread
<1>2. \A i \in Aoa!HidIds : Opened(i)' <=> Opened(i)
  BY <1>1 DEF Opened
<1>3. Synchronized'
  <2>1. CASE UNCHANGED <<sequence, clipboards>>
    BY <1>1, <2>1 DEF AoaInv, Synchronized, Increasing, Aoa!PasteIsCurrent
  <2>2. CASE sequence' = sequence + 1 /\ clipboards' = Append(clipboards, sequence')
    <3>1. /\ sequence \in Nat /\ clipboards \in Seq(Nat) /\ Increasing(clipboards) /\ clipboard \in Nat
          /\ clipboard <= sequence
          /\ \A i \in 1..Len(clipboards) : clipboard < clipboards[i] /\ clipboards[i] <= sequence
      BY DEF AoaInv, Synchronized
    <3>2. clipboards' \in Seq(Nat) /\ Len(clipboards') = Len(clipboards) + 1
          /\ \A i \in 1..Len(clipboards') : clipboards'[i] = IF i <= Len(clipboards) THEN clipboards[i] ELSE sequence + 1
      BY <2>2, <3>1
    <3>3. Increasing(clipboards')
      <4>1. \A i \in 1..Len(clipboards) : clipboards[i] < sequence + 1
        BY <3>1
      <4>2. sequence + 1 \in Nat
        BY <3>1
      <4> QED BY <2>2, <3>1, <4>1, <4>2, AppendIncreases
    <3>4. \A i \in 1..Len(clipboards') : clipboard < clipboards'[i] /\ clipboards'[i] <= sequence + 1
      BY <3>1, <3>2, SMTT(30)
    <3> QED BY <1>1, <2>2, <3>1, <3>2, <3>3, <3>4 DEF AoaInv, Synchronized, Aoa!PasteIsCurrent
  <2> QED BY <2>1, <2>2 DEF Aoa!PushKey, Aoa!Paste, Aoa!GamepadAdded, Aoa!GamepadRemoved, Aoa!GamepadInput
<1>4. CASE Aoa!PushKey(id) \/ Aoa!Paste(id) \/ Aoa!GamepadInput(id)
  <2>1. PICK pushed \in Seq(AoaInputs) : Aoa!PushInputs(pushed)
    <3>1. \A wait \in Nat : Aoa!Input(id, wait) \in AoaInputs
      BY DEF AoaInputs
    <3>2. ASSUME NEW wait \in Nat, Aoa!Key(id, wait)
          PROVE  \E pushed \in Seq(AoaInputs) : Aoa!PushInputs(pushed)
      <4> DEFINE locks == IF lockSynced THEN <<>> ELSE <<Aoa!Input(id, 0)>>
      <4>1. Aoa!PushInputs(locks \o <<Aoa!Input(id, wait)>>)
        BY <3>2 DEF Aoa!Key
      <4>2. locks \o <<Aoa!Input(id, wait)>> \in Seq(AoaInputs)
        BY <3>1
      <4> HIDE DEF locks
      <4> QED BY <4>1, <4>2
    <3>3. sequence' \in Nat /\ 0 \in Nat
      BY <1>3 DEF Synchronized
    <3>4. CASE Aoa!PushKey(id)
      <4>1. Aoa!Key(id, 0)
        BY <3>4 DEF Aoa!PushKey
      <4> QED BY <3>2, <3>3, <4>1
    <3>5. CASE Aoa!Paste(id)
      <4>1. Aoa!Key(id, sequence')
        BY <3>5 DEF Aoa!Paste
      <4> QED BY <3>2, <3>3, <4>1
    <3>6. CASE Aoa!GamepadInput(id)
      <4>1. Aoa!PushInputs(<<Aoa!Input(id, 0)>>)
        BY <3>6 DEF Aoa!GamepadInput
      <4>2. <<Aoa!Input(id, 0)>> \in Seq(AoaInputs)
        BY <3>1, <3>3
      <4> QED BY <4>1, <4>2
    <3> QED BY <1>4, <3>4, <3>5, <3>6
  <2>2. /\ aoaQueue' \in Seq(AoaEvents) /\ Len(aoaQueue) <= Len(aoaQueue')
        /\ \A i \in 1..Len(aoaQueue) : aoaQueue'[i] = aoaQueue[i]
        /\ \A i \in Aoa!HidIds, j \in 1..Len(aoaQueue') : Len(aoaQueue) < j => aoaQueue'[j] # Aoa!Open(i)
    BY <2>1, PushInputsKeeps DEF AoaInv
  <2>3. plugged' = plugged
    BY <1>4 DEF Aoa!PushKey, Aoa!Paste, Aoa!Key, Aoa!GamepadInput
  <2>4. Alternate'
    BY <1>2, <2>2, <2>3, AlternateKept DEF AoaInv, AoaTyped
  <2>5. AoaTyped'
    BY <1>1, <2>2 DEF AoaInv, AoaTyped
  <2>6. Remembered'
    BY <1>1, <2>3 DEF AoaInv, Remembered
  <2> QED BY <1>3, <2>4, <2>5, <2>6 DEF AoaInv
<1>5. CASE Aoa!GamepadAdded(id) \/ Aoa!GamepadRemoved(id)
  <2>1. PICK e \in {Aoa!Open(id), Aoa!Close(id)} :
          /\ aoaQueue' = Append(aoaQueue, e)
          /\ \/ e = Aoa!Open(id) /\ id \in Optional \ plugged /\ plugged' = plugged \cup {id}
             \/ e = Aoa!Close(id) /\ id \in plugged /\ plugged' = plugged \ {id}
    BY <1>5 DEF Aoa!GamepadAdded, Aoa!GamepadRemoved
  <2>2. e \in AoaEvents
    BY DEF AoaEvents
  <2>3. /\ aoaQueue' \in Seq(AoaEvents) /\ Len(aoaQueue') = Len(aoaQueue) + 1
        /\ \A i \in 1..Len(aoaQueue) : aoaQueue'[i] = aoaQueue[i]
        /\ aoaQueue'[Len(aoaQueue) + 1] = e /\ Len(aoaQueue) \in Nat
    BY <2>1, <2>2 DEF AoaInv, AoaTyped
  <2>4. \A i \in Aoa!HidIds, j \in 1..Len(aoaQueue') :
          Len(aoaQueue) < j /\ aoaQueue'[j] = Aoa!Open(i) =>
            j = Len(aoaQueue') /\ i \in Optional \ plugged /\ i \in plugged'
    <3>1. \A i \in Aoa!HidIds : e = Aoa!Open(i) => i = id /\ e = Aoa!Open(id)
      BY EventsDiffer
    <3>2. e = Aoa!Open(id) => id \in Optional \ plugged /\ id \in plugged'
      BY <2>1, EventsDiffer
    <3> QED BY <2>3, <3>1, <3>2
  <2>5. \A i \in Optional \ plugged' :
          \/ i \in Optional \ plugged
          \/ Len(aoaQueue) < Len(aoaQueue') /\ aoaQueue'[Len(aoaQueue')] = Aoa!Close(i)
    BY <2>1, <2>3
  <2>6. Alternate'
    BY <1>2, <2>3, <2>4, <2>5, AlternateKept DEF AoaInv, AoaTyped
  <2>7. AoaTyped'
    BY <1>1, <2>3 DEF AoaInv, AoaTyped
  <2>8. Remembered'
    BY <1>1, <2>1 DEF AoaInv, Remembered
  <2> QED BY <1>3, <2>6, <2>7, <2>8 DEF AoaInv
<1> QED BY <1>4, <1>5

\* What the phone does of the clipboards, and the receiver of their acknowledgements.
LEMMA PhoneKeepsAoa ==
  ASSUME AoaInv, Aoa!SetClipboard \/ Aoa!Ack \/ Aoa!Stop
  PROVE  AoaInv'
<1>1. UNCHANGED <<aoaQueue, aoaPc, event, vecOpen, registered, stale, plugged, sequence, pasted>>
  BY DEF Aoa!SetClipboard, Aoa!Ack, Aoa!Stop, Aoa!PhoneUnchanged, Aoa!aoaThread
<1>2. /\ sequence \in Nat /\ clipboard \in Nat /\ ack \in Nat
      /\ clipboards \in Seq(Nat) /\ acks \in Seq(Nat)
      /\ clipboard <= sequence /\ ack <= clipboard
      /\ Increasing(clipboards)
      /\ \A i \in 1..Len(clipboards) : clipboard < clipboards[i] /\ clipboards[i] <= sequence
      /\ \A i \in 1..Len(acks) : acks[i] <= clipboard
      /\ aoaPc = "event" /\ event.type = "input" => event.wait <= clipboard
  BY DEF AoaInv, Synchronized
<1>3. Synchronized'
  <2>1. CASE Aoa!SetClipboard
    <3>1. /\ clipboards # <<>> /\ clipboards' = Tail(clipboards) /\ clipboard' = Head(clipboards)
          /\ (acks' = Append(acks, Head(clipboards)) \/ acks' = acks) /\ ack' = ack
      BY <2>1 DEF Aoa!SetClipboard, Aoa!acksync
    <3>2. /\ clipboards' \in Seq(Nat) /\ Len(clipboards') = Len(clipboards) - 1
          /\ \A i \in 1..Len(clipboards') : clipboards'[i] = clipboards[i + 1]
          /\ clipboard' = clipboards[1] /\ Len(clipboards) \in Nat \ {0}
      BY <1>2, <3>1
    <3>3. clipboard < clipboard' /\ clipboard' <= sequence /\ clipboard' \in Nat
      BY <1>2, <3>2
    <3>4. Increasing(clipboards') /\ \A i \in 1..Len(clipboards') : clipboard' < clipboards'[i] /\ clipboards'[i] <= sequence
      <4>1. \A i \in 1..Len(clipboards') : i + 1 \in 1..Len(clipboards)
        BY <3>2
      <4>2. Increasing(clipboards') /\ \A i \in 1..Len(clipboards') : clipboard' < clipboards'[i]
        BY <1>2, <3>1, TailIncreases
      <4> QED BY <1>2, <3>2, <4>1, <4>2
    <3>5. acks' \in Seq(Nat) /\ \A i \in 1..Len(acks') : acks'[i] <= clipboard'
      <4>1. CASE acks' = acks
        BY <1>2, <3>3, <4>1
      <4>2. CASE acks' = Append(acks, clipboard')
        <5>1. acks' \in Seq(Nat) /\ Len(acks') = Len(acks) + 1
              /\ \A i \in 1..Len(acks') : acks'[i] = IF i <= Len(acks) THEN acks[i] ELSE clipboard'
          BY <1>2, <3>3, <4>2
        <5>2. ASSUME NEW i \in 1..Len(acks') PROVE acks'[i] <= clipboard'
          <6>1. CASE i \in 1..Len(acks)
            <7>1. acks[i] \in Nat /\ acks[i] <= clipboard
              BY <1>2, <6>1
            <7> QED BY <1>2, <3>3, <5>1, <6>1, <7>1, SMTT(30)
          <6>2. CASE i \notin 1..Len(acks)
            BY <1>2, <3>3, <5>1, <6>2
          <6> QED BY <6>1, <6>2
        <5> QED BY <5>1, <5>2
      <4> QED BY <3>1, <4>1, <4>2
    <3>6. aoaPc = "event" /\ event.type = "input" => event.wait <= clipboard'
      <4>1. ASSUME aoaPc = "event", event.type = "input" PROVE event.wait \in Nat
        BY <4>1, EventTypes DEF AoaInv, AoaTyped
      <4> QED BY <1>2, <3>3, <4>1
    <3>7. ack' <= clipboard'
      BY <1>2, <3>1, <3>3
    <3> QED BY <1>1, <1>2, <3>1, <3>2, <3>3, <3>4, <3>5, <3>6, <3>7 DEF AoaInv, Synchronized, Aoa!PasteIsCurrent
  <2>2. CASE Aoa!Ack
    <3>1. acks # <<>> /\ acks' = Tail(acks) /\ ack' = Head(acks) /\ UNCHANGED <<clipboards, clipboard>>
      BY <2>2 DEF Aoa!Ack
    <3>2. /\ acks' \in Seq(Nat) /\ Len(acks') = Len(acks) - 1 /\ ack' = acks[1] /\ Len(acks) \in Nat \ {0}
          /\ \A i \in 1..Len(acks') : acks'[i] = acks[i + 1]
      BY <1>2, <3>1
    <3>3. ack' \in Nat /\ ack' <= clipboard /\ \A i \in 1..Len(acks') : acks'[i] <= clipboard
      <4>1. 1 \in 1..Len(acks) /\ \A i \in 1..Len(acks') : i + 1 \in 1..Len(acks)
        BY <3>2
      <4>2. \A i \in 1..Len(acks) : acks[i] \in Nat /\ acks[i] <= clipboard
        BY <1>2
      <4>3. ack' = acks[1] /\ \A i \in 1..Len(acks') : acks'[i] = acks[i + 1]
        BY <3>2
      <4> QED BY <4>1, <4>2, <4>3
    <3> QED BY <1>1, <1>2, <3>1, <3>2, <3>3 DEF AoaInv, Synchronized, Increasing, Aoa!PasteIsCurrent
  <2>3. CASE Aoa!Stop
    <3>1. UNCHANGED <<clipboards, clipboard, ack, acks>>
      BY <2>3 DEF Aoa!Stop, Aoa!phone
    <3> QED BY <1>1, <3>1 DEF AoaInv, Synchronized, Increasing, Aoa!PasteIsCurrent
  <2> QED BY <2>1, <2>2, <2>3
<1>4. AoaTyped' /\ Remembered'
  BY <1>1 DEF AoaInv, AoaTyped, Remembered
<1>5. Alternate'
  BY <1>1 DEF AoaInv, Alternate, OpenedAt, Opened, ClosedLater, ClosedIn
<1> QED BY <1>3, <1>4, <1>5 DEF AoaInv

\* The queue stays as it is, and no device is newly open.
LEMMA ThreadAlternates ==
  ASSUME AoaInv, UNCHANGED <<aoaQueue, plugged>>, \A id \in Aoa!HidIds : Opened(id)' => Opened(id)
  PROVE  Alternate'
<1>1. aoaQueue \in Seq(AoaEvents)
  BY DEF AoaInv, AoaTyped
<1>2. Len(aoaQueue) \in Nat
  BY <1>1
<1> QED BY <1>1, <1>2, AlternateKept DEF AoaInv

\* The thread takes an event, and waits for the acknowledgement an input may need.
LEMMA TakeKeepsAoa ==
  ASSUME AoaInv, Aoa!Start \/ Aoa!Take \/ Aoa!WaitAck \/ Aoa!AckTimeout
  PROVE  AoaInv'
<1>1. UNCHANGED <<aoaStopped, interrupted, ack, plugged, sequence, clipboards, clipboard, acks, vecOpen, registered, stale, pasted>>
  BY DEF Aoa!Start, Aoa!Take, Aoa!WaitAck, Aoa!AckTimeout, Aoa!AoaUnchanged, Aoa!acksync, Aoa!phone
<1>2. aoaQueue \in Seq(AoaEvents)
  BY DEF AoaInv, AoaTyped
<1>3. ASSUME aoaPc' = "event" /\ event'.type = "input" => event'.wait <= clipboard PROVE Synchronized'
  BY <1>1, <1>3 DEF AoaInv, Synchronized, Increasing, Aoa!PasteIsCurrent
<1>4. CASE aoaPc = "wait" /\ ~aoaStopped /\ aoaQueue # <<>> /\ event' = Head(aoaQueue) /\ aoaQueue' = Tail(aoaQueue)
           /\ aoaPc' = IF event'.type = "input" /\ event'.wait # 0 THEN "ack" ELSE "event"
  <2>1. event = Aoa!NoEvent
    BY <1>4 DEF AoaInv, AoaTyped
  <2>2. event' \in AoaEvents /\ aoaQueue' \in Seq(AoaEvents)
    BY <1>2, <1>4
  <2>3. Alternate' /\ \A id \in Aoa!HidIds : event' = Aoa!Open(id) => id \notin vecOpen \ stale
    BY <1>1, <1>4, <2>1, TakeAlternates DEF AoaInv
  <2>4. aoaPc' = "ack" => event' \in AoaInputs
    <3>1. event'.type = "input" => event' \in AoaInputs
      BY <2>2, EventsDiffer DEF AoaEvents
    <3> QED BY <1>4, <3>1
  <2>5. AoaTyped'
    BY <1>4, <2>2, <2>4 DEF AoaTyped, AoaInputs
  <2>6. aoaPc' = "event" /\ event'.type = "input" => event'.wait <= clipboard
    BY <1>4 DEF AoaInv, Synchronized
  <2>7. Remembered'
    BY <1>1, <1>4, <2>3, RememberedKept DEF AoaInv, Remembered
  <2> QED BY <1>3, <2>3, <2>5, <2>6, <2>7 DEF AoaInv
<1>5. CASE UNCHANGED <<aoaQueue, event>> /\ Aoa!WaitAck
  <2>1. aoaPc = "ack" /\ aoaPc' \in {"event", "closing"} /\ (aoaPc' = "event" => event.wait <= ack)
    BY <1>5 DEF Aoa!WaitAck, Aoa!Acked
  <2>2. aoaPc' = "event" => event \in AoaInputs
    BY <2>1 DEF AoaInv, AoaTyped
  <2>3. Synchronized'
    <3>1. event.type = "input" => event.wait \in Nat
      BY EventTypes DEF AoaInv, AoaTyped
    <3> QED BY <1>3, <1>5, <2>1, <3>1 DEF AoaInv, Synchronized
  <2>4. AoaTyped'
    BY <1>5, <2>1, <2>2 DEF AoaInv, AoaTyped, AoaEvents
  <2>5. Alternate'
    BY <1>1, <1>5, ThreadAlternates DEF Opened
  <2>6. Remembered'
    BY <1>1, <1>5, <2>1, RememberedKept DEF AoaInv, Remembered
  <2> QED BY <2>3, <2>4, <2>5, <2>6 DEF AoaInv
<1>6. CASE UNCHANGED <<aoaQueue, event>> /\ aoaPc' \in {"wait", "closing"} /\ aoaPc \in {"off", "wait"}
  <2>1. AoaTyped' /\ Synchronized'
    BY <1>1, <1>3, <1>6 DEF AoaInv, AoaTyped
  <2>2. Alternate'
    BY <1>1, <1>6, ThreadAlternates DEF Opened
  <2>3. Remembered'
    BY <1>1, <1>6, RememberedKept DEF AoaInv, Remembered
  <2> QED BY <2>1, <2>2, <2>3 DEF AoaInv
<1>7. CASE Aoa!AckTimeout
  <2>1. aoaPc = "ack" /\ aoaPc' = "wait" /\ event' = Aoa!NoEvent /\ aoaQueue' = aoaQueue
    BY <1>7 DEF Aoa!AckTimeout
  <2>2. AoaTyped' /\ Synchronized'
    BY <1>1, <1>2, <1>3, <2>1 DEF AoaTyped
  <2>3. \A id \in Aoa!HidIds : Opened(id)' => Opened(id)
    BY <1>1, <2>1, EventsDiffer DEF Opened, AoaInv, AoaTyped, AoaInputs
  <2>4. Alternate'
    BY <1>1, <2>1, <2>3, ThreadAlternates
  <2>5. Remembered'
    BY <1>1, <2>1, EventsDiffer, RememberedKept DEF AoaInv, Remembered
  <2> QED BY <2>2, <2>4, <2>5 DEF AoaInv
<1> QED BY <1>4, <1>5, <1>6, <1>7 DEF Aoa!Start, Aoa!Take, Aoa!WaitAck

\* The thread processes its event.
LEMMA ProcessKeepsAoa ==
  ASSUME AoaInv, Aoa!SendInput \/ Aoa!Register \/ Aoa!Describe \/ Aoa!Unregister
  PROVE  AoaInv'
<1>1. UNCHANGED <<aoaQueue, ack, plugged, sequence, clipboards, clipboard, acks>>
      /\ aoaPc \in {"event", "describe"} /\ aoaPc' \in {"wait", "describe"}
  BY DEF Aoa!SendInput, Aoa!Register, Aoa!Describe, Aoa!Unregister, Aoa!OpenFails, Aoa!Done,
         Aoa!AoaUnchanged, Aoa!acksync, Aoa!phone
<1>2. \/ event' = Aoa!NoEvent /\ aoaPc' = "wait"
      \/ event' = event /\ aoaPc' = "describe" /\ Aoa!Register
  BY DEF Aoa!SendInput, Aoa!Register, Aoa!Describe, Aoa!Unregister, Aoa!OpenFails, Aoa!Done
<1>3. event.type = "open" => \E id \in Aoa!HidIds : event = Aoa!Open(id) /\ event.id = id
  BY EventTypes DEF AoaInv, AoaTyped
<1>4. event.type = "close" => \E id \in Aoa!HidIds : event = Aoa!Close(id) /\ event.id = id
  BY EventTypes DEF AoaInv, AoaTyped
<1>5. AoaTyped'
  BY <1>1, <1>2, <1>3 DEF AoaInv, AoaTyped, Aoa!Register
<1>6. Aoa!PasteIsCurrent'
  <2>1. \/ pasted' = pasted
        \/ pasted' = pasted \cup {<<event.wait, clipboard>>} /\ aoaPc = "event" /\ event.type = "input"
    BY DEF Aoa!SendInput, Aoa!Register, Aoa!Describe, Aoa!Unregister
  <2>2. event.type = "input" => event.wait \in Nat
    BY EventTypes DEF AoaInv, AoaTyped
  <2> QED BY <2>1, <2>2 DEF AoaInv, Synchronized, Aoa!PasteIsCurrent
<1>7. Synchronized'
  BY <1>1, <1>6 DEF AoaInv, Synchronized, Increasing
<1>8. ASSUME NEW id \in Aoa!HidIds, Opened(id)' PROVE Opened(id)
  <2>1. CASE event' = event /\ Aoa!Register
    BY <1>8, <2>1 DEF Opened, Aoa!Register
  <2>2. CASE event' = Aoa!NoEvent
    <3>1. id \in vecOpen' \ stale'
      BY <1>8, <2>2, EventsDiffer DEF Opened
    <3>2. CASE Aoa!SendInput \/ Aoa!Register
      BY <3>1, <3>2, EventsDiffer DEF Opened, Aoa!SendInput, Aoa!Register
    <3>3. CASE Aoa!Describe
      <4>1. PICK i \in Aoa!HidIds : event = Aoa!Open(i) /\ event.id = i
        BY <3>3, EventsDiffer DEF Aoa!Describe, AoaInv, AoaTyped
      <4> QED BY <3>1, <3>3, <4>1, EventsDiffer DEF Opened, Aoa!Describe
    <3>4. CASE Aoa!Unregister
      <4>1. PICK i \in Aoa!HidIds : event = Aoa!Close(i) /\ event.id = i
        BY <1>4, <3>4 DEF Aoa!Unregister
      <4>2. id # i /\ id \in vecOpen \ stale
        BY <3>1, <3>4, <4>1 DEF Aoa!Unregister, Aoa!Closed
      <4> QED BY <4>1, <4>2, EventsDiffer DEF Opened
    <3> QED BY <3>2, <3>3, <3>4
  <2> QED BY <1>2, <2>1, <2>2
<1>9. Alternate'
  BY <1>1, <1>8, ThreadAlternates
<1>10. Remembered'
  <2>1. CASE Aoa!SendInput
    <3>1. UNCHANGED <<vecOpen, registered, stale>> /\ event' = Aoa!NoEvent /\ aoaPc = "event" /\ aoaPc' = "wait"
      BY <2>1 DEF Aoa!SendInput, Aoa!Done
    <3> QED BY <1>1, <3>1, EventsDiffer, RememberedKept DEF AoaInv, Remembered
  <2>2. CASE Aoa!Register
    <3>1. PICK id \in Aoa!HidIds : event = Aoa!Open(id) /\ event.id = id
      BY <1>3, <2>2 DEF Aoa!Register
    <3>2. UNCHANGED <<vecOpen, stale>> /\ aoaPc = "event"
      BY <2>2 DEF Aoa!Register
    <3>3. CASE registered' = registered \cup {id} /\ aoaPc' = "describe" /\ event' = event
      BY <1>1, <3>1, <3>2, <3>3, EventsDiffer DEF AoaInv, Remembered
    <3>4. CASE aoaPc' = "wait" /\ event' = Aoa!NoEvent /\ registered' = registered
      BY <1>1, <3>2, <3>4, EventsDiffer, RememberedKept DEF AoaInv, Remembered
    <3> QED BY <2>2, <3>1, <3>3, <3>4 DEF Aoa!Register, Aoa!OpenFails, Aoa!Done
  <2>3. CASE Aoa!Describe
    <3>1. PICK id \in Aoa!HidIds : event = Aoa!Open(id) /\ event.id = id
      BY <2>3, EventsDiffer DEF Aoa!Describe, AoaInv, AoaTyped
    <3>2. event' = Aoa!NoEvent /\ aoaPc' = "wait" /\ aoaPc = "describe"
      BY <2>3 DEF Aoa!Describe, Aoa!OpenFails, Aoa!Done
    <3>3. id \notin vecOpen \ stale /\ registered \subseteq vecOpen \cup (stale \cup {id})
          /\ vecOpen \subseteq registered \cup stale /\ plugged \subseteq Optional
      BY <3>1, EventsDiffer DEF AoaInv, Remembered
    <3>4. id \in registered \cup stale
      BY <3>1, <3>2 DEF AoaInv, Remembered
    <3>5. registered' \subseteq vecOpen' \cup stale' /\ vecOpen' \subseteq registered' \cup stale'
      BY <2>3, <3>1, <3>3, <3>4 DEF Aoa!Describe
    <3> QED BY <1>1, <3>2, <3>3, <3>5, EventsDiffer DEF Remembered
  <2>4. CASE Aoa!Unregister
    <3>1. PICK id \in Aoa!HidIds : event = Aoa!Close(id) /\ event.id = id
      BY <1>4, <2>4 DEF Aoa!Unregister
    <3>2. event' = Aoa!NoEvent /\ aoaPc' = "wait" /\ aoaPc = "event"
      BY <2>4 DEF Aoa!Unregister, Aoa!Done
    <3>3. registered \subseteq vecOpen \cup stale /\ vecOpen \subseteq registered \cup stale /\ plugged \subseteq Optional
      BY <3>1, <3>2, EventsDiffer DEF AoaInv, Remembered
    <3>5. registered' \subseteq vecOpen' \cup stale' /\ vecOpen' \subseteq registered' \cup stale'
      BY <2>4, <3>1, <3>3 DEF Aoa!Unregister, Aoa!Closed
    <3> QED BY <1>1, <3>2, <3>3, <3>5, EventsDiffer DEF Remembered
  <2> QED BY <2>1, <2>2, <2>3, <2>4
<1> QED BY <1>5, <1>7, <1>9, <1>10 DEF AoaInv

\* What is open is unregistered when the thread ends.
LEMMA CloseKeepsAoa ==
  ASSUME AoaInv, Aoa!CloseAll
  PROVE  AoaInv'
<1>1. UNCHANGED <<aoaQueue, event, pasted, ack, plugged, sequence, clipboards, clipboard, acks>>
      /\ aoaPc = "closing" /\ aoaPc' \in {"closing", "ended"}
  BY DEF Aoa!CloseAll, Aoa!AoaUnchanged, Aoa!acksync, Aoa!phone
<1>2. AoaTyped'
  BY <1>1 DEF AoaInv, AoaTyped
<1>3. Synchronized'
  BY <1>1 DEF AoaInv, Synchronized, Increasing, Aoa!PasteIsCurrent
<1>4. \A id \in Aoa!HidIds : Opened(id)' => Opened(id)
  BY <1>1 DEF Opened, Aoa!CloseAll
<1>5. Alternate'
  BY <1>1, <1>4, ThreadAlternates
<1>6. \A id \in Aoa!HidIds : event # Aoa!Open(id)
  BY <1>1, EventsDiffer DEF AoaInv, AoaTyped, AoaInputs
<1>7. Remembered'
  BY <1>1, <1>6 DEF AoaInv, Remembered, Aoa!CloseAll
<1> QED BY <1>2, <1>3, <1>5, <1>7 DEF AoaInv

\* Every step of the main thread, of the thread of AOA and of the phone.
LEMMA NextAoa == AoaInv /\ [Aoa!Next]_(Aoa!aoaVars) => AoaInv'
<1> SUFFICES ASSUME AoaInv, [Aoa!Next]_(Aoa!aoaVars) PROVE AoaInv'
  OBVIOUS
<1>1. CASE UNCHANGED Aoa!aoaVars
  BY <1>1 DEF AoaInv, AoaTyped, Synchronized, Increasing, Alternate, OpenedAt, Opened, ClosedLater,
              ClosedIn, Remembered, Aoa!PasteIsCurrent, Aoa!aoaVars, Aoa!acksync, Aoa!aoaThread, Aoa!phone
<1> QED BY <1>1, MainKeepsAoa, PhoneKeepsAoa, TakeKeepsAoa, ProcessKeepsAoa, CloseKeepsAoa
        DEF Aoa!Next, Aoa!Thread

\* From the invariant: pastes are current, and at the end no device is registered.
LEMMA AoaUnregisters == AoaInv => Aoa!PasteIsCurrent /\ Aoa!AllUnregistered
BY DEF AoaInv, Synchronized, Remembered, Aoa!AllUnregistered

-----------------------------------------------------------------------------
(* InputManager.                                                           *)

Place == (Int \X Int) \cup {Im!NoPoint}

ManagerTyped ==
  /\ mode \in Modes /\ paused \in BOOLEAN /\ disconnected \in BOOLEAN /\ vfinger \in BOOLEAN
  /\ buttons \subseteq Buttons /\ invert \in [x : BOOLEAN, y : BOOLEAN]
  /\ DOMAIN held = Buttons \cup Keys
  /\ contacts \in [{"mouse", "generic", "virtual"} -> Place]
  /\ clips \in [computer : Int, device : Int]

\* No button stays pressed for the code that the user released.
Released == ~disconnected => \A b \in buttons : held[b] # "none"

\* The virtual finger is the other one, mirrored.
Mirrored ==
  contacts["virtual"] =
    <<IF invert.x THEN Width - contacts["generic"][1] ELSE contacts["generic"][1],
      IF invert.y THEN Height - contacts["generic"][2] ELSE contacts["generic"][2]>>

\* While every message was accepted, every release was treated as its press and no gesture was
\* shared: the buttons pressed for the code are those the user clicks with, by the pointer of the
\* mouse or with the finger that the virtual one mirrors.
InTouch ==
  crossings = {} /\ mode.mouse = "sdk" =>
    /\ ~disconnected
    /\ \A b \in Buttons : b \in buttons <=> held[b] = "click"
    /\ buttons # {} <=> contacts["mouse"] # Im!NoPoint \/ vfinger
    /\ vfinger => contacts["mouse"] = Im!NoPoint /\ buttons = {"left"}
    /\ vfinger <=> contacts["generic"] # Im!NoPoint
    /\ vfinger <=> contacts["virtual"] # Im!NoPoint
    /\ vfinger => Mirrored

ManagerInv == ManagerTyped /\ Released /\ InTouch /\ Im!PastesTheComputersClipboard

\* No button is pressed at first.
LEMMA InitManager == Im!Init => ManagerInv
<1> SUFFICES ASSUME Im!Init PROVE ManagerInv
  OBVIOUS
<1>1. ManagerTyped
  <2>1. contacts \in [{"mouse", "generic", "virtual"} -> Place]
    BY DEF Im!Init, Place
  <2>2. paused \in BOOLEAN /\ disconnected \in BOOLEAN /\ vfinger \in BOOLEAN
    BY DEF Im!Init
  <2>3. mode \in Modes /\ buttons = {} /\ DOMAIN held = Buttons \cup Keys
    BY DEF Im!Init
  <2>4. invert \in [x : BOOLEAN, y : BOOLEAN] /\ clips \in [computer : Int, device : Int]
    BY DEF Im!Init
  <2> QED BY <2>1, <2>2, <2>3, <2>4 DEF ManagerTyped
<1>2. Released /\ Im!PastesTheComputersClipboard
  BY DEF Im!Init, Released, Im!PastesTheComputersClipboard
<1>3. InTouch
  BY DEF Im!Init, InTouch, Im!None
<1> QED BY <1>1, <1>2, <1>3 DEF ManagerInv

\* A point, and its mirror, are places of a contact.
LEMMA PointsArePlaces ==
  ASSUME NEW point \in Points, NEW inv \in [x : BOOLEAN, y : BOOLEAN]
  PROVE  /\ point \in Place /\ point # Im!NoPoint
         /\ <<IF inv.x THEN Width - point[1] ELSE point[1],
              IF inv.y THEN Height - point[2] ELSE point[2]>> \in Place \ {Im!NoPoint}
<1>1. point \in Int \X Int /\ point[1] \in Int /\ point[2] \in Int
  BY ManagerAssumption
<1>2. \A a, b \in Int : <<a, b>> # <<>>
  OBVIOUS
<1>3. <<IF inv.x THEN Width - point[1] ELSE point[1],
        IF inv.y THEN Height - point[2] ELSE point[2]>> \in Int \X Int
  BY <1>1, ManagerAssumption
<1> QED BY <1>1, <1>2, <1>3 DEF Place, Im!NoPoint

\* What an event of a button changes of the state, by route.
LEMMA MouseButtonKeeps ==
  ASSUME ManagerInv, NEW button \in Buttons, NEW down \in BOOLEAN, NEW point \in Points,
         NEW border \in BOOLEAN, NEW clicks \in {1, 2}, NEW given \in SUBSET {"click", "virtual"},
         Im!MouseButton(button, down, point, border, clicks, given)
  PROVE  ManagerInv'
<1> DEFINE route == Im!ButtonRoute(button, border, clicks)
<1> USE DEF ManagerInv
<1>1. /\ UNCHANGED <<mode, paused, disconnected, clips, pastes>>
      /\ (held[button] = "none") = down
      /\ held' = [held EXCEPT ![button] = IF down THEN route ELSE "none"]
      /\ buttons' = Im!Tracked(button, down, route)
      /\ Im!Crossing(button, down, route,
                     Im!Refused(given, {"click", "virtual"}) \cup Im!Shared(button, down, route))
  BY DEF Im!MouseButton, Im!Event, Im!Physically, Im!None
<1>2. \/ route = "click" /\ Im!Click(button, down, point, given)
      \/ route # "click" /\ UNCHANGED <<vfinger, invert, contacts>>
  BY DEF Im!MouseButton, Im!Bound, Im!device
<1> HIDE DEF route
<1>3. vfinger' \in BOOLEAN /\ invert' \in [x : BOOLEAN, y : BOOLEAN]
  <2>1. CASE UNCHANGED <<vfinger, invert>>
    BY <2>1 DEF ManagerTyped
  <2>2. CASE Im!Click(button, down, point, given)
    <3>1. vfinger' \in BOOLEAN
      BY <2>2, Zenon DEF Im!Click, Im!Lifts, ManagerTyped
    <3>2. invert' \in [x : BOOLEAN, y : BOOLEAN]
      BY <2>2 DEF Im!Click, Im!Lifts, ManagerTyped
    <3> QED BY <3>1, <3>2
  <2> QED BY <1>2, <2>1, <2>2
<1> DEFINE opposite == Im!Inverse(point)
<1>4. point \in Place \ {Im!NoPoint} /\ opposite \in Place \ {Im!NoPoint}
  BY <1>3, PointsArePlaces DEF Im!Inverse
<1>5. contacts' \in [{"mouse", "generic", "virtual"} -> Place]
  <2>1. CASE UNCHANGED contacts
    BY <2>1 DEF ManagerTyped
  <2>2. CASE Im!Click(button, down, point, given)
    <3> HIDE DEF opposite
    <3> DEFINE pointer == IF Im!UsesFinger(button, down) THEN "generic" ELSE "mouse"
               where == IF ~down /\ (pointer = "mouse" => buttons' = {}) THEN Im!NoPoint ELSE point
               where2 == IF down THEN opposite ELSE Im!NoPoint
               first == Im!Touches(pointer, where, "click" \in given, contacts)
    <3>1. where \in Place /\ where2 \in Place
      BY <1>4 DEF Place
    <3>2. contacts' = contacts \/ \E sure \in BOOLEAN : contacts' = Im!Touches("virtual", where2, sure, first)
      BY <2>2 DEF Im!Click, Im!Lifts, opposite
    <3> HIDE DEF where, where2
    <3>3. first \in [{"mouse", "generic", "virtual"} -> Place]
      BY <3>1 DEF Im!Touches, ManagerTyped
    <3> HIDE DEF first
    <3> QED BY <3>1, <3>2, <3>3 DEF Im!Touches, ManagerTyped
  <2> QED BY <1>2, <2>1, <2>2
<1>6. ManagerTyped'
  <2>1. buttons' \subseteq Buttons
    BY <1>1 DEF Im!Tracked, ManagerTyped
  <2> QED BY <1>1, <1>3, <1>5, <2>1 DEF ManagerTyped
<1>7. Released'
  BY <1>1 DEF Released, Im!Tracked, ManagerTyped
<1>8. Im!PastesTheComputersClipboard'
  BY <1>1 DEF Im!PastesTheComputersClipboard
<1>9. InTouch'
  <2> SUFFICES ASSUME crossings' = {}, mode.mouse = "sdk"
        PROVE  /\ ~disconnected'
               /\ \A b \in Buttons : b \in buttons' <=> held'[b] = "click"
               /\ buttons' # {} <=> contacts'["mouse"] # Im!NoPoint \/ vfinger'
               /\ vfinger' => contacts'["mouse"] = Im!NoPoint /\ buttons' = {"left"}
               /\ vfinger' <=> contacts'["generic"] # Im!NoPoint
               /\ vfinger' <=> contacts'["virtual"] # Im!NoPoint
               /\ vfinger' => Mirrored'
    BY <1>1 DEF InTouch
  <2>1. /\ crossings = {} /\ given = {"click", "virtual"} /\ (down \/ held[button] = route)
        /\ route = "click" /\ Im!UsesFinger(button, down) => buttons' \ {button} = {}
    BY <1>1 DEF Im!Crossing, Im!Refused, Im!Shared
  <2>2. /\ ~disconnected
        /\ \A b \in Buttons : b \in buttons <=> held[b] = "click"
        /\ buttons # {} <=> contacts["mouse"] # Im!NoPoint \/ vfinger
        /\ vfinger => contacts["mouse"] = Im!NoPoint /\ buttons = {"left"}
        /\ vfinger <=> contacts["generic"] # Im!NoPoint
        /\ vfinger <=> contacts["virtual"] # Im!NoPoint
        /\ vfinger => Mirrored
    BY <2>1 DEF InTouch
  <2>3. CASE route # "click"
    <3>1. UNCHANGED <<vfinger, invert, contacts>>
      BY <1>2, <2>3
    <3>2. held[button] # "click" /\ held'[button] # "click" /\ \A b \in Buttons \ {button} : held'[b] = held[b]
      BY <1>1, <2>1, <2>3 DEF ManagerTyped
    <3>3. buttons' = buttons
      <4>1. button \notin buttons
        BY <2>2, <3>2
      <4> QED BY <1>1, <2>3, <4>1 DEF Im!Tracked
    <3> QED BY <1>1, <2>2, <3>1, <3>2, <3>3 DEF Mirrored
  <2>4. CASE route = "click"
    <3> DEFINE change == Im!ChangesVFinger(button, down)
               uses == Im!UsesFinger(button, down)
               where == IF ~down /\ (uses \/ buttons' = {}) THEN Im!NoPoint ELSE point
    <3>1. /\ ~Im!Relative /\ Im!Click(button, down, point, given)
          /\ "click" \in given /\ "virtual" \in given
      BY <1>2, <2>1, <2>4 DEF Im!Relative
    <3>2. /\ vfinger' = (IF change THEN down ELSE vfinger)
          /\ contacts' = LET clicked == [contacts EXCEPT ![IF uses THEN "generic" ELSE "mouse"] = where]
                         IN  IF change THEN [clicked EXCEPT !["virtual"] = IF down THEN opposite ELSE Im!NoPoint]
                             ELSE clicked
      BY <3>1 DEF Im!Click, Im!Lifts, Im!Touches
    <3>3. /\ held'[button] = (IF down THEN "click" ELSE "none") /\ (down <=> held[button] = "none")
          /\ buttons' = (IF down THEN buttons \cup {button} ELSE buttons \ {button})
          /\ \A b \in Buttons : b # button => held'[b] = held[b]
      BY <1>1, <2>2, <2>4 DEF Im!Tracked, ManagerTyped
    <3>4. /\ \A b \in Buttons : b \in buttons' <=> held'[b] = "click"
          /\ button \in buttons <=> ~down
      BY <2>1, <2>2, <2>4, <3>3
    <3>5. opposite = <<IF invert'.x THEN Width - point[1] ELSE point[1],
                       IF invert'.y THEN Height - point[2] ELSE point[2]>>
      BY DEF Im!Inverse
    <3> HIDE DEF opposite
    <3>6. CASE uses
      <4>1. buttons' \ {button} = {} /\ buttons \subseteq {button}
        BY <2>1, <2>4, <3>3, <3>6
      <4>2. CASE down
        <5>1. buttons = {} /\ ~vfinger /\ contacts["mouse"] = Im!NoPoint
          BY <2>2, <3>4, <4>1, <4>2
        <5>2. change /\ button = "left"
          BY <3>6, <5>1 DEF Im!UsesFinger, Im!ChangesVFinger
        <5>3. /\ vfinger' /\ contacts'["mouse"] = Im!NoPoint
              /\ contacts'["generic"] = point /\ contacts'["virtual"] = opposite
          BY <3>2, <3>6, <4>2, <5>1, <5>2 DEF ManagerTyped
        <5>4. Mirrored'
          BY <3>5, <5>3 DEF Mirrored
        <5>5. buttons' = {"left"}
          BY <3>3, <4>2, <5>1, <5>2
        <5> QED BY <1>1, <1>4, <2>2, <3>4, <5>3, <5>4, <5>5
      <4>3. CASE ~down
        <5>1. vfinger
          BY <3>6, <4>3 DEF Im!UsesFinger, Im!ChangesVFinger
        <5>2. button = "left" /\ buttons' = {} /\ contacts["mouse"] = Im!NoPoint
          BY <2>2, <3>3, <3>4, <4>1, <4>3, <5>1
        <5>3. change
          BY <4>3, <5>1, <5>2 DEF Im!ChangesVFinger
        <5>4. /\ ~vfinger' /\ contacts'["mouse"] = Im!NoPoint
              /\ contacts'["generic"] = Im!NoPoint /\ contacts'["virtual"] = Im!NoPoint
          BY <3>2, <3>6, <4>3, <5>2, <5>3 DEF ManagerTyped
        <5> QED BY <1>1, <2>2, <3>4, <5>2, <5>4
      <4> QED BY <4>2, <4>3
    <3>7. CASE ~uses
      <4>1. ~vfinger /\ ~change /\ contacts["generic"] = Im!NoPoint /\ contacts["virtual"] = Im!NoPoint
        BY <2>2, <3>7 DEF Im!UsesFinger
      <4>2. /\ ~vfinger' /\ contacts'["generic"] = Im!NoPoint /\ contacts'["virtual"] = Im!NoPoint
            /\ contacts'["mouse"] = IF ~down /\ buttons' = {} THEN Im!NoPoint ELSE point
        BY <3>2, <3>7, <4>1 DEF ManagerTyped
      <4>3. down => buttons' # {}
        BY <3>3
      <4> QED BY <1>1, <1>4, <2>2, <3>4, <4>2, <4>3
    <3> QED BY <3>6, <3>7
  <2> QED BY <2>3, <2>4
<1> QED BY <1>6, <1>7, <1>8, <1>9

\* A motion moves the contact of the mouse, or the finger and its mirror.
LEMMA MotionKeeps ==
  ASSUME ManagerInv, NEW point \in Points, NEW given \in SUBSET {"click", "virtual"},
         Im!Motion(point, given)
  PROVE  ManagerInv'
<1> DEFINE opposite == Im!Inverse(point)
           pointer == IF vfinger THEN "generic" ELSE "mouse"
           followed == Im!Touches(pointer, point, buttons # {} /\ "click" \in given, contacts)
<1> USE DEF ManagerInv
<1>1. /\ UNCHANGED <<mode, paused, disconnected, buttons, vfinger, invert, held, clips, pastes>>
      /\ contacts' = IF Im!Relative THEN contacts
                     ELSE Im!Touches("virtual", opposite, vfinger /\ "virtual" \in given, followed)
      /\ crossings' = {} => crossings = {} /\ given = {"click", "virtual"}
  BY DEF Im!Motion, Im!Event, Im!user, Im!Refused
<1>2. /\ point \in Place \ {Im!NoPoint} /\ opposite \in Place \ {Im!NoPoint}
      /\ opposite = <<IF invert.x THEN Width - point[1] ELSE point[1],
                      IF invert.y THEN Height - point[2] ELSE point[2]>>
  BY <1>1, PointsArePlaces DEF Im!Inverse, ManagerTyped
<1> HIDE DEF opposite
<1>3. followed \in [{"mouse", "generic", "virtual"} -> Place]
  BY <1>2 DEF Im!Touches, ManagerTyped
<1>4. contacts' \in [{"mouse", "generic", "virtual"} -> Place]
  <2> HIDE DEF followed
  <2> QED BY <1>1, <1>2, <1>3 DEF Im!Touches, ManagerTyped
<1>5. ManagerTyped'
  BY <1>1, <1>4 DEF ManagerTyped
<1>6. Released' /\ Im!PastesTheComputersClipboard'
  BY <1>1 DEF Released, Im!PastesTheComputersClipboard
<1>7. ASSUME crossings' = {}, mode.mouse = "sdk" PROVE InTouch'
  <2>1. /\ ~disconnected
        /\ \A b \in Buttons : b \in buttons <=> held[b] = "click"
        /\ buttons # {} <=> contacts["mouse"] # Im!NoPoint \/ vfinger
        /\ vfinger => contacts["mouse"] = Im!NoPoint /\ buttons = {"left"}
        /\ vfinger <=> contacts["generic"] # Im!NoPoint
        /\ vfinger <=> contacts["virtual"] # Im!NoPoint
        /\ vfinger => Mirrored
    BY <1>1, <1>7 DEF InTouch
  <2>2. ~Im!Relative /\ "click" \in given /\ "virtual" \in given
    BY <1>1, <1>7 DEF Im!Relative
  <2>3. CASE vfinger
    <3>1. /\ contacts'["mouse"] = contacts["mouse"] /\ contacts'["generic"] = point
          /\ contacts'["virtual"] = opposite
      BY <1>1, <2>1, <2>2, <2>3 DEF Im!Touches, ManagerTyped
    <3>2. Mirrored'
      BY <1>1, <1>2, <3>1 DEF Mirrored
    <3> QED BY <1>1, <1>2, <2>1, <2>3, <3>1, <3>2 DEF InTouch
  <2>4. CASE ~vfinger
    <3>1. /\ contacts'["mouse"] = (IF buttons # {} THEN point ELSE contacts["mouse"])
          /\ contacts'["generic"] = contacts["generic"] /\ contacts'["virtual"] = contacts["virtual"]
      BY <1>1, <2>1, <2>2, <2>4 DEF Im!Touches, ManagerTyped
    <3> QED BY <1>1, <1>2, <2>1, <2>4, <3>1 DEF InTouch
  <2> QED BY <2>3, <2>4
<1>8. InTouch'
  BY <1>1, <1>7 DEF InTouch
<1> QED BY <1>5, <1>6, <1>8 

\* What leaves the buttons and the contacts as they are.
LEMMA OthersKeepTouch ==
  ASSUME ManagerInv, UNCHANGED <<mode, disconnected, buttons, vfinger, invert, contacts>>,
         paused' \in BOOLEAN,
         DOMAIN held' = DOMAIN held, \A b \in Buttons : held'[b] = held[b],
         clips' \in [computer : Int, device : Int], Im!PastesTheComputersClipboard',
         crossings' = {} => crossings = {}
  PROVE  ManagerInv'
<1>1. ManagerTyped'
  BY DEF ManagerInv, ManagerTyped
<1>2. Released'
  BY DEF ManagerInv, ManagerTyped, Released
<1>3. InTouch'
  BY DEF ManagerInv, InTouch, Mirrored
<1> QED BY <1>1, <1>2, <1>3 DEF ManagerInv

\* A key changes no button and no contact, and pastes the clipboard of the computer.
LEMMA KeyKeeps ==
  ASSUME ManagerInv, NEW key \in Keys, NEW down \in BOOLEAN, NEW repeat \in BOOLEAN,
         NEW given \in SUBSET {"clipboard", "key"}, Im!Key(key, down, repeat, given)
  PROVE  ManagerInv'
<1>1. /\ UNCHANGED <<mode, disconnected, buttons, vfinger, invert, contacts>>
      /\ \/ UNCHANGED held
         \/ \E route : held' = [held EXCEPT ![key] = route]
      /\ crossings' = {} => crossings = {}
      /\ paused' \in BOOLEAN
  BY DEF Im!Key, Im!Event, Im!Physically, Im!Crossing, ManagerInv, ManagerTyped
<1>2. DOMAIN held' = DOMAIN held /\ \A b \in Buttons : held'[b] = held[b]
  BY <1>1, ManagerAssumption DEF ManagerInv, ManagerTyped
<1>3. clips' \in [computer : Int, device : Int] /\ Im!PastesTheComputersClipboard'
  <2>0. clips \in [computer : Int, device : Int] /\ \A paste \in pastes : paste[1] = paste[2]
    BY DEF ManagerInv, ManagerTyped, Im!PastesTheComputersClipboard
  <2>1. CASE UNCHANGED <<clips, pastes>>
    BY <2>0, <2>1 DEF Im!PastesTheComputersClipboard
  <2>2. CASE Im!CtrlV(given)
    <3>1. /\ clips' = clips \/ clips' = [clips EXCEPT !.device = clips.computer]
          /\ \/ pastes' = pastes
             \/ pastes' = pastes \cup {<<clips.computer, clips.computer>>}
             \/ /\ pastes' = pastes \cup {<<clips.computer, clips'.device>>}
                /\ clips' = [clips EXCEPT !.device = clips.computer]
      BY <2>2 DEF Im!CtrlV, Im!KeyIf
    <3> QED BY <2>0, <3>1 DEF Im!PastesTheComputersClipboard
  <2>3. CASE Im!ModV(given)
    <3>1. /\ clips' = clips \/ clips' = [clips EXCEPT !.device = clips.computer]
          /\ pastes' = pastes \/ pastes' = pastes \cup {<<clips.computer, clips.computer>>}
      BY <2>3 DEF Im!ModV
    <3> QED BY <2>0, <3>1 DEF Im!PastesTheComputersClipboard
  <2>4. UNCHANGED <<clips, pastes>> \/ Im!CtrlV(given) \/ Im!ModV(given)
    BY ZenonT(30) DEF Im!Key
  <2> QED BY <2>1, <2>2, <2>3, <2>4
<1> QED BY <1>1, <1>2, <1>3, OthersKeepTouch

\* Every event of the window.
LEMMA NextManager == ManagerInv /\ [Im!Next]_(Im!imVars) => ManagerInv'
<1> SUFFICES ASSUME ManagerInv, [Im!Next]_(Im!imVars) PROVE ManagerInv'
  OBVIOUS
<1>1. CASE Im!Wheel \/ (\E m \in {"ctrl", "shift", "mod"} : Im!Modifier(m)) \/ UNCHANGED Im!imVars
  <2>1. UNCHANGED <<mode, buttons, vfinger, invert, contacts, paused, disconnected, held, clips, pastes, crossings>>
    BY <1>1 DEF Im!Wheel, Im!Modifier, Im!Event, Im!user, Im!device, Im!imVars
  <2> QED BY <2>1 DEF ManagerInv, ManagerTyped, Released, InTouch, Mirrored, Im!PastesTheComputersClipboard
<1>2. CASE Im!Copy
  <2>1. UNCHANGED <<mode, buttons, vfinger, invert, contacts, paused, disconnected, held, pastes, crossings>>
        /\ clips' = [clips EXCEPT !.computer = @ + 1]
    BY <1>2 DEF Im!Copy, Im!Event, Im!user, Im!device
  <2>2. clips' \in [computer : Int, device : Int]
    BY <2>1 DEF ManagerInv, ManagerTyped
  <2> QED BY <2>1, <2>2 DEF ManagerInv, ManagerTyped, Released, InTouch, Mirrored, Im!PastesTheComputersClipboard
<1>3. CASE Im!Disconnected
  <2>1. UNCHANGED <<mode, buttons, vfinger, invert, contacts, paused, held, clips, pastes>>
        /\ disconnected' = TRUE /\ crossings' # {}
    BY <1>3 DEF Im!Disconnected, Im!Event, Im!user, Im!device
  <2> QED BY <2>1 DEF ManagerInv, ManagerTyped, Released, InTouch, Mirrored, Im!PastesTheComputersClipboard
<1> QED BY <1>1, <1>2, <1>3, MouseButtonKeeps, MotionKeeps, KeyKeeps DEF Im!Next

\* The contacts of an uncrossed gesture are those of what the user holds.
LEMMA TouchIsHeld ==
  ASSUME ManagerInv
  PROVE  HeldTogether
<1> USE DEF ManagerInv
<1>1. ~disconnected => \A b \in buttons : held[b] # "none"
  BY DEF Released
<1>2. ASSUME crossings = {}, mode.mouse = "sdk"
      PROVE  LET clicking == \E b \in Buttons : held[b] = "click"
             IN /\ clicking = (contacts["mouse"] # Im!NoPoint \/ contacts["generic"] # Im!NoPoint)
                /\ vfinger = (contacts["virtual"] # Im!NoPoint)
                /\ vfinger = (contacts["generic"] # Im!NoPoint)
                /\ vfinger => Mirrored
  <2>1. (\E b \in Buttons : held[b] = "click") <=> buttons # {}
    BY <1>2 DEF InTouch, ManagerTyped
  <2>2. (\E b \in Buttons : held[b] = "click") <=> (contacts["mouse"] # Im!NoPoint \/ contacts["generic"] # Im!NoPoint)
    BY <1>2, <2>1 DEF InTouch
  <2>3. vfinger \in BOOLEAN /\ (vfinger => Mirrored)
    BY <1>2 DEF InTouch, ManagerTyped
  <2>4. vfinger = (contacts["virtual"] # Im!NoPoint) /\ vfinger = (contacts["generic"] # Im!NoPoint)
    BY <1>2, <2>3 DEF InTouch
  <2> QED BY <2>2, <2>3, <2>4
<1> QED BY <1>1, <1>2 DEF HeldTogether, Im!HeldTogether, Im!None, Mirrored

-----------------------------------------------------------------------------
(* Controller.                                                             *)

\* A nonempty set of numbers has a least one.
LEMMA LeastSlot ==
  ASSUME NEW T \in SUBSET Nat, T # {}
  PROVE  \E n \in T : \A m \in T : n <= m
<1> DEFINE Less == {pair \in Nat \X Nat : pair[1] < pair[2]}
<1>1. IsWellFoundedOn(Less, Nat)
  BY NatLessThanWellFounded DEF OpToRel
<1>2. PICK n \in T : \A m \in T : <<m, n>> \notin Less
  <2> HIDE DEF Less
  <2> QED BY <1>1, WFMin
<1>3. \A m \in T : ~(m < n)
  BY <1>2
<1> QED BY <1>3

SlotRecord ==
  [gamepad : Gamepads \cup {Ctl!NoGamepad}, buttons : SUBSET Ctl!ButtonIds, stick : Int, trigger : Int]
Devices == {Ctl!Absent} \cup {Ctl!Report(slot) : slot \in SlotRecord}
GamepadMessages ==
  {Ctl!Create(s) : s \in Slots} \cup {Ctl!Destroy(s) : s \in Slots}
  \cup {Ctl!Input(s, Ctl!Report(slot)) : s \in Slots, slot \in SlotRecord}
CtlMessages == GamepadMessages \cup {Ctl!Other}

\* What a message makes of the devices of Android, and whether they can take it.
After(devices, msg) ==
  CASE msg.type = "uhid_create" -> [devices EXCEPT ![msg.id] = Ctl!AtRest]
    [] msg.type = "uhid_input" -> [devices EXCEPT ![msg.id] = msg.report]
    [] msg.type = "uhid_destroy" -> [devices EXCEPT ![msg.id] = Ctl!Absent]
    [] OTHER -> devices
Applies(devices, msg) ==
  /\ msg.type = "uhid_create" => ~devices[msg.id].present
  /\ msg.type \in {"uhid_input", "uhid_destroy"} => devices[msg.id].present

\* The messages of a sequence apply one after the other, and lead from some devices to others.
LeadsFrom(steps, start, msgs, end) ==
  /\ steps \in [0..Len(msgs) -> [Slots -> Devices]]
  /\ steps[0] = start /\ steps[Len(msgs)] = end
  /\ \A i \in 1..Len(msgs) : Applies(steps[i - 1], msgs[i]) /\ steps[i] = After(steps[i - 1], msgs[i])
Leads(start, msgs, end) == \E steps : LeadsFrom(steps, start, msgs, end)

\* No message leads nowhere else.
LEMMA LeadsNowhere ==
  ASSUME NEW start \in [Slots -> Devices], NEW end
  PROVE  Leads(start, <<>>, end) <=> end = start
<1>1. ASSUME Leads(start, <<>>, end) PROVE end = start
  BY <1>1 DEF Leads, LeadsFrom
<1>2. LeadsFrom([i \in 0..0 |-> start], start, <<>>, start)
  BY DEF LeadsFrom
<1> QED BY <1>1, <1>2 DEF Leads

\* One message more at the end.
LEMMA LeadsOn ==
  ASSUME NEW start, NEW end, NEW S, NEW msgs \in Seq(S), NEW msg \in S, Leads(start, msgs, end),
         Applies(end, msg), After(end, msg) \in [Slots -> Devices]
  PROVE  Leads(start, Append(msgs, msg), After(end, msg))
<1>1. PICK steps : LeadsFrom(steps, start, msgs, end)
  BY DEF Leads
<1> DEFINE more == [i \in 0..Len(msgs) + 1 |-> IF i <= Len(msgs) THEN steps[i] ELSE After(end, msg)]
<1>2. /\ Append(msgs, msg) \in Seq(S) /\ Len(Append(msgs, msg)) = Len(msgs) + 1 /\ Len(msgs) \in Nat
      /\ Append(msgs, msg)[Len(msgs) + 1] = msg
      /\ \A i \in 1..Len(msgs) : Append(msgs, msg)[i] = msgs[i]
  OBVIOUS
<1>3. more \in [0..Len(msgs) + 1 -> [Slots -> Devices]]
  BY <1>1, <1>2 DEF LeadsFrom
<1>4. more[0] = start /\ more[Len(msgs)] = end /\ more[Len(msgs) + 1] = After(end, msg)
  BY <1>1, <1>2 DEF LeadsFrom
<1>5. \A i \in 1..Len(msgs) : more[i - 1] = steps[i - 1] /\ more[i] = steps[i]
  BY <1>2
<1> HIDE DEF more
<1>6. ASSUME NEW i \in 1..Len(msgs) + 1
      PROVE  /\ Applies(more[i - 1], Append(msgs, msg)[i])
             /\ more[i] = After(more[i - 1], Append(msgs, msg)[i])
  <2>1. CASE i \in 1..Len(msgs)
    BY <1>1, <1>2, <1>5, <2>1 DEF LeadsFrom
  <2>2. CASE i = Len(msgs) + 1
    <3>1. i - 1 = Len(msgs)
      BY <1>2, <2>2
    <3> QED BY <1>2, <1>4, <2>2, <3>1
  <2> QED BY <1>2, <2>1, <2>2
<1>7. LeadsFrom(more, start, Append(msgs, msg), After(end, msg))
  BY <1>2, <1>3, <1>4, <1>6 DEF LeadsFrom
<1> QED BY <1>7 DEF Leads

\* One message less at the start.
LEMMA LeadsAfter ==
  ASSUME NEW start, NEW end, NEW S, NEW msgs \in Seq(S), NEW msg \in S,
         Leads(start, <<msg>> \o msgs, end)
  PROVE  Applies(start, msg) /\ Leads(After(start, msg), msgs, end)
<1>1. PICK steps : LeadsFrom(steps, start, <<msg>> \o msgs, end)
  BY DEF Leads
<1>2. /\ Len(<<msg>> \o msgs) = Len(msgs) + 1 /\ Len(msgs) \in Nat /\ (<<msg>> \o msgs)[1] = msg
      /\ \A i \in 1..Len(msgs) : (<<msg>> \o msgs)[i + 1] = msgs[i]
  OBVIOUS
<1> DEFINE rest == [i \in 0..Len(msgs) |-> steps[i + 1]]
<1>3. rest \in [0..Len(msgs) -> [Slots -> Devices]]
  BY <1>1, <1>2 DEF LeadsFrom
<1>4. /\ steps \in [0..Len(msgs) + 1 -> [Slots -> Devices]] /\ steps[0] = start
      /\ steps[Len(msgs) + 1] = end
      /\ \A i \in 1..Len(msgs) + 1 : /\ Applies(steps[i - 1], (<<msg>> \o msgs)[i])
                                     /\ steps[i] = After(steps[i - 1], (<<msg>> \o msgs)[i])
  BY <1>1, <1>2 DEF LeadsFrom
<1>5. Applies(start, msg) /\ steps[1] = After(start, msg)
  <2>1. 1 \in 1..Len(msgs) + 1 /\ 1 - 1 = 0
    BY <1>2
  <2> QED BY <1>2, <1>4, <2>1
<1>6. rest[0] = After(start, msg) /\ rest[Len(msgs)] = end
  BY <1>2, <1>4, <1>5
<1>7. ASSUME NEW i \in 1..Len(msgs)
      PROVE  Applies(rest[i - 1], msgs[i]) /\ rest[i] = After(rest[i - 1], msgs[i])
  <2>1. i + 1 \in 1..Len(msgs) + 1 /\ (i + 1) - 1 = i /\ i - 1 \in 0..Len(msgs) /\ i \in 0..Len(msgs)
    BY <1>2
  <2>2. rest[i - 1] = steps[i] /\ rest[i] = steps[i + 1]
    BY <1>2, <2>1
  <2> HIDE DEF rest
  <2> QED BY <1>2, <1>4, <2>1, <2>2
<1> HIDE DEF rest
<1>8. LeadsFrom(rest, After(start, msg), msgs, end)
  BY <1>3, <1>6, <1>7 DEF LeadsFrom
<1> QED BY <1>5, <1>8 DEF Leads

\* A message that no device takes changes nothing.
LEMMA LeadsBefore ==
  ASSUME NEW start, NEW end, NEW S, NEW msgs \in Seq(S), NEW msg \in S, Leads(start, msgs, end),
         Applies(start, msg), After(start, msg) = start
  PROVE  Leads(start, <<msg>> \o msgs, end)
<1>1. PICK steps : LeadsFrom(steps, start, msgs, end)
  BY DEF Leads
<1>2. /\ Len(<<msg>> \o msgs) = Len(msgs) + 1 /\ Len(msgs) \in Nat /\ (<<msg>> \o msgs)[1] = msg
      /\ \A i \in 1..Len(msgs) : (<<msg>> \o msgs)[i + 1] = msgs[i]
  OBVIOUS
<1> DEFINE more == [i \in 0..Len(msgs) + 1 |-> IF i = 0 THEN start ELSE steps[i - 1]]
<1>3. more \in [0..Len(msgs) + 1 -> [Slots -> Devices]]
  BY <1>1, <1>2 DEF LeadsFrom
<1>4. more[0] = start /\ more[1] = start /\ more[Len(msgs) + 1] = end
  BY <1>1, <1>2 DEF LeadsFrom
<1>5. ASSUME NEW i \in 1..Len(msgs)
      PROVE  more[i] = steps[i - 1] /\ more[i + 1] = steps[i] /\ (<<msg>> \o msgs)[i + 1] = msgs[i]
  BY <1>2
<1> HIDE DEF more
<1>6. ASSUME NEW i \in 1..Len(msgs) + 1
      PROVE  /\ Applies(more[i - 1], (<<msg>> \o msgs)[i])
             /\ more[i] = After(more[i - 1], (<<msg>> \o msgs)[i])
  <2>1. CASE i = 1
    BY <1>2, <1>4, <2>1
  <2>2. CASE i # 1
    <3>1. i - 1 \in 1..Len(msgs) /\ (i - 1) + 1 = i
      BY <1>2, <2>2
    <3> DEFINE j == i - 1
    <3>2. Applies(steps[j - 1], msgs[j]) /\ steps[j] = After(steps[j - 1], msgs[j])
      BY <1>1, <3>1 DEF LeadsFrom
    <3>3. more[j] = steps[j - 1] /\ more[j + 1] = steps[j] /\ (<<msg>> \o msgs)[j + 1] = msgs[j]
      BY <1>5, <3>1
    <3> QED BY <3>1, <3>2, <3>3
  <2> QED BY <2>1, <2>2
<1>7. LeadsFrom(more, start, <<msg>> \o msgs, end)
  BY <1>2, <1>3, <1>4, <1>6 DEF LeadsFrom
<1> QED BY <1>7 DEF Leads

-----------------------------------------------------------------------------
\* What the thread has taken and what is queued is still to reach Android.
Pending == IF ctlPc = "send" THEN <<ctlMsg>> \o queue ELSE queue

CtlTyped ==
  /\ slots \in [Slots -> SlotRecord] /\ uhid \in [Slots -> Devices]
  /\ queue \in Seq(CtlMessages)
  /\ ctlPc \in {"off", "check", "waiting", "send", "ended"}
  /\ ctlPc = "send" => ctlMsg \in CtlMessages \/ ctlMsg.type = "resize"
  /\ starting = "idle" => ctlPc = "off"
  /\ oom \in BOOLEAN

\* Devices that are those of the slots, as they were last reported.
InStep(devices) ==
  \A s \in Slots :
    /\ devices[s].present = (slots[s].gamepad # Ctl!NoGamepad)
    /\ devices[s].present /\ s \notin lostInput => devices[s] = Ctl!Report(slots[s])

\* What is pending brings the devices of Android in step with the slots, and every message of it
\* finds the device it is about.
Delivers ==
  ~oom /\ ctlPc # "ended" =>
    \E devices \in [Slots -> Devices] : Leads(uhid, Pending, devices) /\ InStep(devices)

CtlInv == CtlTyped /\ Delivers /\ (~oom => ~uhidErrors)

\* The type of a message, and of what it is about.
LEMMA MessageTypes ==
  /\ \A s \in Slots : Ctl!Create(s).type = "uhid_create" /\ Ctl!Create(s).id = s /\ Ctl!Create(s) \in CtlMessages
  /\ \A s \in Slots : Ctl!Destroy(s).type = "uhid_destroy" /\ Ctl!Destroy(s).id = s /\ Ctl!Destroy(s) \in CtlMessages
  /\ \A s \in Slots, slot \in SlotRecord :
       /\ Ctl!Input(s, Ctl!Report(slot)).type = "uhid_input" /\ Ctl!Input(s, Ctl!Report(slot)).id = s
       /\ Ctl!Input(s, Ctl!Report(slot)).report = Ctl!Report(slot)
       /\ Ctl!Input(s, Ctl!Report(slot)) \in CtlMessages
  /\ Ctl!Other.type = "other" /\ Ctl!Other \in CtlMessages
<1>1. ASSUME NEW s \in Slots
      PROVE  Ctl!Create(s).type = "uhid_create" /\ Ctl!Create(s).id = s /\ Ctl!Create(s) \in CtlMessages
  <2>1. Ctl!Create(s) \in CtlMessages
    BY DEF CtlMessages, GamepadMessages
  <2> QED BY <2>1 DEF Ctl!Create
<1>2. ASSUME NEW s \in Slots
      PROVE  Ctl!Destroy(s).type = "uhid_destroy" /\ Ctl!Destroy(s).id = s /\ Ctl!Destroy(s) \in CtlMessages
  <2>1. Ctl!Destroy(s) \in CtlMessages
    BY DEF CtlMessages, GamepadMessages
  <2> QED BY <2>1 DEF Ctl!Destroy
<1>3. ASSUME NEW s \in Slots, NEW slot \in SlotRecord
      PROVE  /\ Ctl!Input(s, Ctl!Report(slot)).type = "uhid_input" /\ Ctl!Input(s, Ctl!Report(slot)).id = s
             /\ Ctl!Input(s, Ctl!Report(slot)).report = Ctl!Report(slot)
             /\ Ctl!Input(s, Ctl!Report(slot)) \in CtlMessages
  <2>1. Ctl!Input(s, Ctl!Report(slot)) \in CtlMessages
    BY DEF CtlMessages, GamepadMessages
  <2> QED BY <2>1 DEF Ctl!Input
<1>4. Ctl!Other.type = "other" /\ Ctl!Other \in CtlMessages
  BY DEF CtlMessages, Ctl!Other
<1> QED BY <1>1, <1>2, <1>3, <1>4

\* A device that is new is as a slot that is new.
LEMMA SlotTypes ==
  /\ \A g \in Gamepads \cup {Ctl!NoGamepad} : Ctl!NewSlot(g) \in SlotRecord /\ Ctl!Report(Ctl!NewSlot(g)) = Ctl!AtRest
  /\ \A slot \in SlotRecord : Ctl!Report(slot) \in Devices /\ Ctl!Report(slot).present
  /\ Ctl!AtRest \in Devices /\ Ctl!AtRest.present /\ Ctl!Absent \in Devices /\ ~Ctl!Absent.present
<1>1. \A g \in Gamepads \cup {Ctl!NoGamepad} : Ctl!NewSlot(g) \in SlotRecord /\ Ctl!Report(Ctl!NewSlot(g)) = Ctl!AtRest
  BY DEF Ctl!NewSlot, Ctl!Report, Ctl!AtRest, SlotRecord, Ctl!Rescale
<1>2. \A slot \in SlotRecord : Ctl!Report(slot) \in Devices /\ Ctl!Report(slot).present
  BY DEF Devices, Ctl!Report
<1>3. Ctl!Absent \in Devices /\ ~Ctl!Absent.present
  BY DEF Devices, Ctl!Absent
<1> QED BY <1>1, <1>2, <1>3

\* A message leads from devices to devices.
LEMMA AfterTypes ==
  ASSUME NEW devices \in [Slots -> Devices], NEW msg \in CtlMessages
  PROVE  /\ After(devices, msg) \in [Slots -> Devices]
         /\ \A s \in Slots : msg = Ctl!Create(s) => After(devices, msg) = [devices EXCEPT ![s] = Ctl!AtRest]
         /\ \A s \in Slots : msg = Ctl!Destroy(s) => After(devices, msg) = [devices EXCEPT ![s] = Ctl!Absent]
         /\ \A s \in Slots, slot \in SlotRecord :
              msg = Ctl!Input(s, Ctl!Report(slot)) => After(devices, msg) = [devices EXCEPT ![s] = Ctl!Report(slot)]
         /\ msg = Ctl!Other => After(devices, msg) = devices
<1>1. ASSUME NEW s \in Slots, msg = Ctl!Create(s)
      PROVE After(devices, msg) = [devices EXCEPT ![s] = Ctl!AtRest]
  BY <1>1, MessageTypes DEF After
<1>2. ASSUME NEW s \in Slots, msg = Ctl!Destroy(s)
      PROVE After(devices, msg) = [devices EXCEPT ![s] = Ctl!Absent]
  BY <1>2, MessageTypes DEF After
<1>3. ASSUME NEW s \in Slots, NEW slot \in SlotRecord, msg = Ctl!Input(s, Ctl!Report(slot))
      PROVE After(devices, msg) = [devices EXCEPT ![s] = Ctl!Report(slot)]
  <2>1. msg.type = "uhid_input" /\ msg.id = s /\ msg.report = Ctl!Report(slot)
    BY <1>3, MessageTypes
  <2> QED BY <2>1 DEF After
<1>4. ASSUME msg = Ctl!Other PROVE After(devices, msg) = devices
  BY <1>4, MessageTypes DEF After
<1>5. After(devices, msg) \in [Slots -> Devices]
  BY <1>1, <1>2, <1>3, <1>4, SlotTypes DEF CtlMessages, GamepadMessages
<1> QED BY <1>1, <1>2, <1>3, <1>4, <1>5

\* No gamepad is there at first, and nothing is pending.
LEMMA InitCtl == Ctl!Init => CtlInv
<1> SUFFICES ASSUME Ctl!Init PROVE CtlInv
  OBVIOUS
<1>1. CtlTyped
  <2>1. Ctl!NewSlot(Ctl!NoGamepad) \in SlotRecord
    BY SlotTypes
  <2>2. slots \in [Slots -> SlotRecord] /\ uhid \in [Slots -> Devices]
    BY <2>1, SlotTypes DEF Ctl!Init
  <2>3. queue \in Seq(CtlMessages) /\ ctlPc = "off" /\ oom = FALSE
    BY DEF Ctl!Init
  <2> QED BY <2>2, <2>3 DEF CtlTyped
<1>2. InStep(uhid)
  <2>1. Ctl!NewSlot(Ctl!NoGamepad).gamepad = Ctl!NoGamepad
    BY DEF Ctl!NewSlot
  <2>2. \A s \in Slots : slots[s].gamepad = Ctl!NoGamepad /\ uhid[s] = Ctl!Absent
    BY <2>1 DEF Ctl!Init
  <2>3. Ctl!Absent.present = FALSE
    BY DEF Ctl!Absent
  <2> QED BY <2>2, <2>3 DEF InStep
<1>3. Delivers
  BY <1>1, <1>2, LeadsNowhere DEF Ctl!Init, Delivers, Pending, CtlTyped
<1> QED BY <1>1, <1>3 DEF Ctl!Init, CtlInv

\* The slot of a gamepad is one that has it.
LEMMA SlotHasIt ==
  ASSUME CtlTyped, NEW g, Ctl!SlotsOf(g) # {}
  PROVE  Ctl!SlotOf(g) \in Slots /\ slots[Ctl!SlotOf(g)].gamepad = g
<1>1. Ctl!SlotsOf(g) \in SUBSET Nat
  BY ControllerAssumption DEF Ctl!SlotsOf
<1>2. \E s \in Ctl!SlotsOf(g) : \A t \in Ctl!SlotsOf(g) : s <= t
  BY <1>1, LeastSlot
<1>3. Ctl!SlotOf(g) \in Ctl!SlotsOf(g)
  BY <1>2 DEF Ctl!SlotOf
<1> QED BY <1>3 DEF Ctl!SlotsOf

\* A message that is pushed comes last, or is dropped.
LEMMA PushEnds ==
  ASSUME CtlTyped, NEW msg \in CtlMessages, Ctl!Push(msg), UNCHANGED ctlMsg
  PROVE  /\ oom' \in BOOLEAN /\ (oom => oom')
         /\ ctlPc' \in {"off", "check", "waiting", "send", "ended"}
         /\ (ctlPc' = "send" <=> ctlPc = "send") /\ (ctlPc' = "ended" <=> ctlPc = "ended")
         /\ (ctlPc = "off" => ctlPc' = "off")
         /\ queue' \in Seq(CtlMessages)
         /\ \/ /\ queue' = Append(queue, msg) /\ queue' # queue
               /\ Pending' = Append(Pending, msg)
            \/ /\ queue' = queue /\ Pending' = Pending
               /\ Ctl!Droppable(msg) \/ oom'
<1>1. queue \in Seq(CtlMessages) /\ ctlPc \in {"off", "check", "waiting", "send", "ended"} /\ oom \in BOOLEAN
  BY DEF CtlTyped
<1>2. \/ queue' = Append(queue, msg)
      \/ queue' = queue /\ (Ctl!Droppable(msg) \/ oom')
  BY DEF Ctl!Push, Ctl!Enqueue, Ctl!Drop
<1>3. /\ oom' \in BOOLEAN /\ (oom => oom')
      /\ (ctlPc' = ctlPc) \/ (ctlPc = "waiting" /\ ctlPc' = "check")
  BY <1>1 DEF Ctl!Push, Ctl!Enqueue, Ctl!Drop, Ctl!WakeIf, Ctl!Wake
<1>4. CASE queue' = Append(queue, msg)
  <2>1. queue' \in Seq(CtlMessages) /\ Len(queue') = Len(queue) + 1 /\ Len(queue) \in Nat
    BY <1>1, <1>4
  <2>2. Pending' = Append(Pending, msg)
    <3>1. <<ctlMsg>> \o queue' = Append(<<ctlMsg>> \o queue, msg)
      <4> DEFINE S == CtlMessages \cup {ctlMsg}
      <4>1. queue \in Seq(S) /\ msg \in S /\ ctlMsg \in S
        BY <1>1
      <4> HIDE DEF S
      <4> QED BY <1>4, <4>1
    <3> QED BY <1>3, <1>4, <3>1 DEF Pending
  <2> QED BY <1>1, <1>3, <1>4, <2>1, <2>2
<1>5. CASE queue' = queue
  BY <1>1, <1>2, <1>3, <1>5 DEF Pending
<1> QED BY <1>2, <1>4, <1>5

\* A message of a slot that is pushed: the devices it leads to are in step with the new slots.
LEMMA PushDelivers ==
  ASSUME CtlInv, NEW msg \in CtlMessages, Ctl!Push(msg), UNCHANGED <<ctlMsg, uhid>>,
         \A devices \in [Slots -> Devices] :
           InStep(devices) =>
             /\ queue' # queue => Applies(devices, msg) /\ InStep(After(devices, msg))'
             /\ queue' = queue /\ Ctl!Droppable(msg) => InStep(devices)'
  PROVE  Delivers'
<1>1. SUFFICES ASSUME ~oom', ctlPc' # "ended"
               PROVE  \E devices \in [Slots -> Devices] : Leads(uhid, Pending', devices) /\ InStep(devices)'
  BY DEF Delivers
<1>2. PICK devices \in [Slots -> Devices] : Leads(uhid, Pending, devices) /\ InStep(devices)
  BY <1>1, PushEnds DEF CtlInv, Delivers
<1>3. CASE queue' = queue
  BY <1>1, <1>2, <1>3, PushEnds DEF CtlInv
<1>4. CASE queue' # queue
  <2>1. Pending' = Append(Pending, msg)
    BY <1>4, PushEnds DEF CtlInv
  <2>2. After(devices, msg) \in [Slots -> Devices] /\ Applies(devices, msg) /\ InStep(After(devices, msg))'
    BY <1>2, <1>4, AfterTypes
  <2>3. Pending \in Seq(CtlMessages \cup {ctlMsg}) /\ msg \in CtlMessages \cup {ctlMsg}
    <3>1. queue \in Seq(CtlMessages)
      BY DEF CtlInv, CtlTyped
    <3> DEFINE S == CtlMessages \cup {ctlMsg}
    <3>2. queue \in Seq(S) /\ ctlMsg \in S
      BY <3>1
    <3> HIDE DEF S
    <3>3. Pending \in Seq(S)
      BY <3>2 DEF Pending
    <3> QED BY <3>3 DEF S
  <2>4. Leads(uhid, Pending', After(devices, msg))
    BY <1>2, <2>1, <2>2, <2>3, LeadsOn
  <2> QED BY <2>2, <2>4
<1> QED BY <1>3, <1>4

\* The main thread pushes a message that leads the devices in step.
LEMMA MainKeepsCtl ==
  ASSUME CtlInv, Ctl!MainOp, NEW msg \in CtlMessages, Ctl!Push(msg), slots' \in [Slots -> SlotRecord],
         Delivers'
  PROVE  CtlInv'
<1>1. CtlTyped'
  BY PushEnds DEF CtlInv, CtlTyped, Ctl!MainOp, Ctl!device
<1>2. ~oom' => ~uhidErrors'
  BY PushEnds DEF CtlInv, CtlTyped, Ctl!MainOp, Ctl!device
<1> QED BY <1>1, <1>2 DEF CtlInv

\* What is lost is told by what was pushed.
LEMMA LostInputs ==
  ASSUME NEW msg \in GamepadMessages, Ctl!Push(msg)
  PROVE  /\ queue' # queue => lostInput' = lostInput \ {msg.id}
         /\ queue' = queue => lostInput' = IF msg.type = "uhid_input" THEN lostInput \cup {msg.id} ELSE lostInput \ {msg.id}
<1>1. msg.type # "other"
  BY DEF GamepadMessages, Ctl!Create, Ctl!Destroy, Ctl!Input
<1> QED BY <1>1 DEF Ctl!Push

\* A gamepad comes or goes: a creation or a destruction is never dropped.
LEMMA GamepadKeepsCtl ==
  ASSUME CtlInv, NEW g \in Gamepads, Ctl!GamepadAdded(g) \/ Ctl!GamepadRemoved(g)
  PROVE  CtlInv'
<1>1. CASE Ctl!GamepadAdded(g)
  <2>1. PICK s \in Slots : s = Ctl!SlotOf(Ctl!NoGamepad) /\ slots[s].gamepad = Ctl!NoGamepad
    BY <1>1, SlotHasIt DEF Ctl!GamepadAdded, CtlInv
  <2>2. /\ Ctl!MainOp /\ slots' = [slots EXCEPT ![s] = Ctl!NewSlot(g)] /\ Ctl!Push(Ctl!Create(s))
    BY <1>1, <2>1 DEF Ctl!GamepadAdded
  <2>3. /\ UNCHANGED <<ctlMsg, uhid>> /\ Ctl!Create(s) \in CtlMessages /\ Ctl!Create(s) \in GamepadMessages
        /\ Ctl!Create(s).type = "uhid_create" /\ Ctl!Create(s).id = s
    BY <2>1, <2>2, MessageTypes DEF Ctl!MainOp, Ctl!device, GamepadMessages
  <2>4. /\ slots' \in [Slots -> SlotRecord] /\ slots'[s] = Ctl!NewSlot(g)
        /\ \A t \in Slots : t # s => slots'[t] = slots[t]
    BY <2>1, <2>2, SlotTypes DEF CtlInv, CtlTyped
  <2>5. g # Ctl!NoGamepad /\ Ctl!NewSlot(g).gamepad = g
    BY ControllerAssumption DEF Ctl!NoGamepad, Ctl!NewSlot
  <2>6. lostInput' = lostInput \ {s}
    BY <2>2, <2>3, LostInputs
  <2>7. ASSUME NEW devices \in [Slots -> Devices], InStep(devices)
        PROVE  Applies(devices, Ctl!Create(s)) /\ InStep(After(devices, Ctl!Create(s)))'
    <3>1. Applies(devices, Ctl!Create(s))
      BY <2>1, <2>3, <2>7 DEF Applies, InStep
    <3>2. After(devices, Ctl!Create(s)) = [devices EXCEPT ![s] = Ctl!AtRest]
      BY <2>1, <2>3, AfterTypes
    <3>3. Ctl!AtRest.present = TRUE /\ Ctl!AtRest = Ctl!Report(Ctl!NewSlot(g))
      BY SlotTypes DEF Ctl!AtRest, Ctl!Report
    <3>4. InStep([devices EXCEPT ![s] = Ctl!AtRest])'
      BY <2>1, <2>4, <2>5, <2>6, <2>7, <3>3 DEF InStep
    <3> QED BY <3>1, <3>2, <3>4
  <2>8. ~Ctl!Droppable(Ctl!Create(s))
    BY <2>3 DEF Ctl!Droppable
  <2>9. Delivers'
    BY <2>2, <2>3, <2>7, <2>8, PushDelivers
  <2> QED BY <2>2, <2>3, <2>4, <2>9, MainKeepsCtl
<1>2. CASE Ctl!GamepadRemoved(g)
  <2>0. g # Ctl!NoGamepad
    BY ControllerAssumption DEF Ctl!NoGamepad
  <2>1. PICK s \in Slots : s = Ctl!SlotOf(g) /\ slots[s].gamepad = g
    BY <1>2, SlotHasIt DEF Ctl!GamepadRemoved, CtlInv
  <2>2. /\ Ctl!MainOp /\ slots' = [slots EXCEPT ![s] = Ctl!FreeSlot(@)] /\ Ctl!Push(Ctl!Destroy(s))
    BY <1>2, <2>1 DEF Ctl!GamepadRemoved
  <2>3. /\ UNCHANGED <<ctlMsg, uhid>> /\ Ctl!Destroy(s) \in CtlMessages /\ Ctl!Destroy(s) \in GamepadMessages
        /\ Ctl!Destroy(s).type = "uhid_destroy" /\ Ctl!Destroy(s).id = s
    BY <2>1, <2>2, MessageTypes DEF Ctl!MainOp, Ctl!device, GamepadMessages
  <2>4. /\ slots' \in [Slots -> SlotRecord] /\ slots'[s].gamepad = Ctl!NoGamepad
        /\ \A t \in Slots : t # s => slots'[t] = slots[t]
    <3>1. slots \in [Slots -> SlotRecord] /\ slots[s] \in SlotRecord
      BY <2>1 DEF CtlInv, CtlTyped
    <3>2. Ctl!FreeSlot(slots[s]) \in SlotRecord /\ Ctl!FreeSlot(slots[s]).gamepad = Ctl!NoGamepad
      BY <3>1 DEF Ctl!FreeSlot, SlotRecord
    <3> QED BY <2>1, <2>2, <3>1, <3>2
  <2>6. lostInput' = lostInput \ {s}
    BY <2>2, <2>3, LostInputs
  <2>7. ASSUME NEW devices \in [Slots -> Devices], InStep(devices)
        PROVE  Applies(devices, Ctl!Destroy(s)) /\ InStep(After(devices, Ctl!Destroy(s)))'
    <3>1. Applies(devices, Ctl!Destroy(s))
      BY <2>0, <2>1, <2>3, <2>7 DEF Applies, InStep
    <3>2. After(devices, Ctl!Destroy(s)) = [devices EXCEPT ![s] = Ctl!Absent]
      BY <2>1, <2>3, AfterTypes
    <3>3. Ctl!Absent.present = FALSE
      BY DEF Ctl!Absent
    <3>4. InStep([devices EXCEPT ![s] = Ctl!Absent])'
      BY <2>1, <2>4, <2>6, <2>7, <3>3 DEF InStep
    <3> QED BY <3>1, <3>2, <3>4
  <2>8. ~Ctl!Droppable(Ctl!Destroy(s))
    BY <2>3 DEF Ctl!Droppable
  <2>9. Delivers'
    BY <2>2, <2>3, <2>7, <2>8, PushDelivers
  <2> QED BY <2>2, <2>3, <2>4, <2>9, MainKeepsCtl
<1> QED BY <1>1, <1>2

\* A report is the state of its slot, or its loss is known.
LEMMA ReportKeepsCtl ==
  ASSUME CtlInv, NEW g \in Gamepads, NEW slot \in SlotRecord, slot.gamepad = g, Ctl!SlotsOf(g) # {},
         Ctl!MainOp, Ctl!Changed(g, slot)
  PROVE  CtlInv'
<1>0. g # Ctl!NoGamepad
  BY ControllerAssumption DEF Ctl!NoGamepad
<1>1. PICK s \in Slots : s = Ctl!SlotOf(g) /\ slots[s].gamepad = g
  BY SlotHasIt DEF CtlInv
<1> DEFINE msg == Ctl!Input(s, Ctl!Report(slot))
<1>2. slots' = [slots EXCEPT ![s] = slot] /\ Ctl!Push(msg)
  BY <1>1 DEF Ctl!Changed
<1>3. /\ UNCHANGED <<ctlMsg, uhid>> /\ msg \in CtlMessages /\ msg \in GamepadMessages
      /\ msg.type = "uhid_input" /\ msg.id = s /\ msg.report = Ctl!Report(slot)
  BY <1>1, <1>2, MessageTypes DEF Ctl!MainOp, Ctl!device, GamepadMessages
<1>4. /\ slots' \in [Slots -> SlotRecord] /\ slots'[s] = slot
      /\ \A t \in Slots : t # s => slots'[t] = slots[t]
  BY <1>1, <1>2 DEF CtlInv, CtlTyped
<1>5. /\ queue' # queue => lostInput' = lostInput \ {s}
      /\ queue' = queue => lostInput' = lostInput \cup {s}
  BY <1>2, <1>3, LostInputs
<1>6. ASSUME NEW devices \in [Slots -> Devices], InStep(devices)
      PROVE  /\ queue' # queue => Applies(devices, msg) /\ InStep(After(devices, msg))'
             /\ queue' = queue /\ Ctl!Droppable(msg) => InStep(devices)'
  <2>1. Applies(devices, msg)
    BY <1>0, <1>1, <1>3, <1>6 DEF Applies, InStep
  <2>2. After(devices, msg) = [devices EXCEPT ![s] = Ctl!Report(slot)]
    BY <1>1, <1>3, AfterTypes
  <2>3. Ctl!Report(slot).present = TRUE
    BY DEF Ctl!Report
  <2>4. queue' # queue => InStep([devices EXCEPT ![s] = Ctl!Report(slot)])'
    BY <1>0, <1>1, <1>4, <1>5, <1>6, <2>3 DEF InStep
  <2>5. queue' = queue => InStep(devices)'
    BY <1>0, <1>1, <1>4, <1>5, <1>6 DEF InStep
  <2> QED BY <2>1, <2>2, <2>4, <2>5
<1> HIDE DEF msg
<1>7. Delivers'
  BY <1>2, <1>3, <1>6, PushDelivers
<1> QED BY <1>2, <1>3, <1>4, <1>7, MainKeepsCtl

\* A button or an axis of a gamepad: the report is pushed, or known to be lost.
LEMMA InputKeepsCtl ==
  ASSUME CtlInv, NEW g \in Gamepads,
         \/ \E b \in PadButtons, down \in BOOLEAN : Ctl!GamepadButton(g, b, down)
         \/ \E v \in AxisValues : Ctl!GamepadAxis(g, v)
  PROVE  CtlInv'
<1> DEFINE slot == slots[Ctl!SlotOf(g)]
<1>1. Ctl!MainOp /\ Ctl!SlotsOf(g) # {}
  BY DEF Ctl!GamepadButton, Ctl!GamepadAxis
<1>2. slot \in SlotRecord /\ slot.gamepad = g
  BY <1>1, SlotHasIt DEF CtlInv, CtlTyped
<1> HIDE DEF slot
<1>3. ASSUME NEW b \in Ctl!ButtonIds, NEW down \in BOOLEAN
      PROVE  LET new == [slot EXCEPT !.buttons = IF down THEN @ \cup {b} ELSE @ \ {b}]
             IN new \in SlotRecord /\ new.gamepad = g
  BY <1>2 DEF SlotRecord
<1>4. ASSUME NEW v \in AxisValues
      PROVE  /\ [slot EXCEPT !.stick = Ctl!Rescale(v)] \in SlotRecord
             /\ [slot EXCEPT !.stick = Ctl!Rescale(v)].gamepad = g
             /\ [slot EXCEPT !.trigger = Ctl!Trigger(v)] \in SlotRecord
             /\ [slot EXCEPT !.trigger = Ctl!Trigger(v)].gamepad = g
  <2>1. Ctl!Rescale(v) \in Int /\ Ctl!Trigger(v) \in Int
    BY ControllerAssumption DEF Ctl!Rescale, Ctl!Trigger
  <2> QED BY <1>2, <2>1 DEF SlotRecord
<1>5. \E new \in SlotRecord : new.gamepad = g /\ Ctl!Changed(g, new)
  <2>1. ASSUME NEW b \in PadButtons, NEW down \in BOOLEAN, Ctl!GamepadButton(g, b, down)
        PROVE  \E new \in SlotRecord : new.gamepad = g /\ Ctl!Changed(g, new)
    BY <1>3, <2>1 DEF Ctl!GamepadButton, slot
  <2>2. ASSUME NEW v \in AxisValues, Ctl!GamepadAxis(g, v)
        PROVE  \E new \in SlotRecord : new.gamepad = g /\ Ctl!Changed(g, new)
    BY <1>4, <2>2 DEF Ctl!GamepadAxis, slot
  <2> QED BY <2>1, <2>2
<1> QED BY <1>1, <1>5, ReportKeepsCtl

\* A message that is not about a gamepad.
LEMMA OtherKeepsCtl ==
  ASSUME CtlInv, Ctl!SendOther
  PROVE  CtlInv'
<1>1. /\ Ctl!MainOp /\ Ctl!Push(Ctl!Other) /\ UNCHANGED <<slots, ctlMsg, uhid>>
      /\ Ctl!Other \in CtlMessages /\ Ctl!Other.type = "other"
  BY MessageTypes DEF Ctl!SendOther, Ctl!MainOp, Ctl!device
<1>2. lostInput' = lostInput
  BY <1>1 DEF Ctl!Push
<1>3. ASSUME NEW devices \in [Slots -> Devices], InStep(devices)
      PROVE  Applies(devices, Ctl!Other) /\ InStep(After(devices, Ctl!Other))' /\ InStep(devices)'
  <2>1. After(devices, Ctl!Other) = devices /\ Applies(devices, Ctl!Other)
    BY <1>1, AfterTypes DEF Applies
  <2>2. InStep(devices)'
    BY <1>1, <1>2, <1>3 DEF InStep
  <2> QED BY <2>1, <2>2
<1>4. Delivers'
  BY <1>1, <1>3, PushDelivers
<1>5. slots' \in [Slots -> SlotRecord]
  BY <1>1 DEF CtlInv, CtlTyped
<1> QED BY <1>1, <1>4, <1>5, MainKeepsCtl

\* What changes neither the slots nor what is to reach Android.
LEMMA IdleKeepsCtl ==
  ASSUME CtlInv, UNCHANGED <<slots, queue, uhid, uhidErrors, lostInput, oom>>, ctlMsg' = ctlMsg,
         ctlPc' \in {"off", "check", "waiting", "send", "ended"},
         ctlPc' = "send" <=> ctlPc = "send", ctlPc = "ended" => ctlPc' = "ended",
         starting' = "idle" => ctlPc' = "off"
  PROVE  CtlInv'
<1>1. CtlTyped'
  BY DEF CtlInv, CtlTyped
<1>2. Pending' = Pending
  BY DEF Pending
<1>3. \A devices : InStep(devices) => InStep(devices)'
  BY DEF InStep
<1>4. Delivers'
  BY <1>2, <1>3 DEF CtlInv, Delivers
<1> QED BY <1>1, <1>4 DEF CtlInv

\* The threads start and stop.
LEMMA LifecycleKeepsCtl ==
  ASSUME CtlInv,
         \/ \E size \in Sizes : Ctl!ResizeDisplay(size)
         \/ Ctl!StartThread \/ Ctl!StartReceiver \/ Ctl!Stop \/ Ctl!CloseSocket \/ Ctl!Join
         \/ Ctl!ReceiverEnds \/ UNCHANGED Ctl!ctlVars
  PROVE  CtlInv'
<1>1. UNCHANGED <<slots, queue, uhid, uhidErrors, lostInput, oom, ctlMsg>>
  BY DEF Ctl!ResizeDisplay, Ctl!StartThread, Ctl!StartReceiver, Ctl!Stop, Ctl!CloseSocket, Ctl!Join,
         Ctl!ReceiverEnds, Ctl!MainOp, Ctl!UnchangedByLifecycle, Ctl!device, Ctl!ctlVars, Ctl!ctlThread
<1>2. ctlPc \in {"off", "check", "waiting", "send", "ended"} /\ (starting = "idle" => ctlPc = "off")
  BY DEF CtlInv, CtlTyped
<1>3. /\ ctlPc' \in {"off", "check", "waiting", "send", "ended"}
      /\ (ctlPc' = "send" <=> ctlPc = "send")
      /\ (ctlPc = "ended" => ctlPc' = "ended")
      /\ (starting' = "idle" => ctlPc' = "off")
  <2>1. CASE \E size \in Sizes : Ctl!ResizeDisplay(size)
    BY <1>2, <2>1 DEF Ctl!ResizeDisplay, Ctl!MainOp, Ctl!WakeIf, Ctl!Wake
  <2>2. CASE Ctl!StartThread \/ Ctl!StartReceiver
    BY <1>2, <2>2 DEF Ctl!StartThread, Ctl!StartReceiver, Ctl!Wake
  <2>3. CASE Ctl!Stop \/ Ctl!CloseSocket \/ Ctl!Join
    BY <1>2, <2>3 DEF Ctl!Stop, Ctl!CloseSocket, Ctl!Join, Ctl!Wake, Ctl!lifecycle
  <2>4. CASE Ctl!ReceiverEnds \/ UNCHANGED Ctl!ctlVars
    BY <1>2, <2>4 DEF Ctl!ReceiverEnds, Ctl!ctlVars, Ctl!lifecycle, Ctl!ctlThread
  <2> QED BY <2>1, <2>2, <2>3, <2>4
<1> QED BY <1>1, <1>3, IdleKeepsCtl

\* The thread takes the next message: what is pending is the same.
LEMMA CheckKeepsCtl ==
  ASSUME CtlInv, Ctl!Check
  PROVE  CtlInv'
<1>1. /\ UNCHANGED <<slots, starting, uhid, uhidErrors, lostInput, oom>> /\ ctlPc = "check" /\ starting # "idle"
      /\ slots \in [Slots -> SlotRecord] /\ uhid \in [Slots -> Devices] /\ queue \in Seq(CtlMessages)
      /\ oom \in BOOLEAN
  BY DEF Ctl!Check, Ctl!lifecycle, Ctl!device, CtlInv, CtlTyped
<1>2. Pending = queue /\ \A devices : InStep(devices) => InStep(devices)'
  BY <1>1 DEF Pending, InStep
<1>3. CASE ctlPc' = "ended" /\ queue' = queue
  BY <1>1, <1>3 DEF CtlInv, CtlTyped, Delivers
<1>4. CASE ctlPc' = "waiting" /\ queue' = queue
  <2>1. Pending' = Pending
    BY <1>2, <1>4 DEF Pending
  <2> QED BY <1>1, <1>2, <1>4, <2>1 DEF CtlInv, CtlTyped, Delivers
<1>5. CASE ctlPc' = "send" /\ queue # <<>> /\ ctlMsg' = Head(queue) /\ queue' = Tail(queue)
  <2>1. ctlMsg' \in CtlMessages /\ queue' \in Seq(CtlMessages) /\ <<ctlMsg'>> \o queue' = queue
    BY <1>1, <1>5
  <2>2. Pending' = Pending
    BY <1>2, <1>5, <2>1 DEF Pending
  <2> QED BY <1>1, <1>2, <1>5, <2>1, <2>2 DEF CtlInv, CtlTyped, Delivers
<1>6. CASE ctlPc' = "send" /\ ctlMsg' = [type |-> "resize", size |-> resize] /\ queue' = queue
  <2>1. PICK msg : msg = [type |-> "resize", size |-> resize]
    OBVIOUS
  <2>2. msg.type = "resize"
    BY <2>1
  <2>3. Pending' = <<msg>> \o queue
    BY <1>6, <2>1 DEF Pending
  <2>4. \A devices : Leads(uhid, queue, devices) => Leads(uhid, <<msg>> \o queue, devices)
    <3>1. Applies(uhid, msg) /\ After(uhid, msg) = uhid
      BY <2>2 DEF Applies, After
    <3> DEFINE S == CtlMessages \cup {msg}
    <3>2. queue \in Seq(S) /\ msg \in S
      BY <1>1
    <3> HIDE DEF S
    <3> QED BY <3>1, <3>2, LeadsBefore
  <2>5. Delivers'
    BY <1>1, <1>2, <2>3, <2>4 DEF CtlInv, Delivers
  <2>6. CtlTyped'
    BY <1>1, <1>6, <2>1, <2>2 DEF CtlTyped
  <2> QED BY <1>1, <2>5, <2>6 DEF CtlInv
<1> QED BY <1>3, <1>4, <1>5, <1>6 DEF Ctl!Check

\* The thread sends its message: Android applies the first of what is pending.
LEMMA SendKeepsCtl ==
  ASSUME CtlInv, Ctl!Send
  PROVE  CtlInv'
<1>1. /\ UNCHANGED <<slots, queue, starting, lostInput, oom>> /\ ctlPc = "send" /\ starting # "idle"
      /\ slots \in [Slots -> SlotRecord] /\ uhid \in [Slots -> Devices] /\ queue \in Seq(CtlMessages)
      /\ oom \in BOOLEAN
  BY DEF Ctl!Send, Ctl!lifecycle, CtlInv, CtlTyped
<1>2. \A devices : InStep(devices) => InStep(devices)'
  BY <1>1 DEF InStep
<1>3. CASE UNCHANGED <<uhid, uhidErrors>> /\ ctlPc' = "ended"
  BY <1>1, <1>3 DEF CtlInv, CtlTyped, Delivers
<1>4. CASE Ctl!Receive(ctlMsg) /\ ctlPc' = "check"
  <2>1. PICK msg : msg = ctlMsg
    OBVIOUS
  <2>2. uhid' = After(uhid, msg)
    BY <1>4, <2>1 DEF Ctl!Receive, After
  <2>3. uhid' \in [Slots -> Devices]
    <3>1. CASE msg \in CtlMessages
      BY <1>1, <2>2, <3>1, AfterTypes
    <3>2. CASE msg.type = "resize"
      BY <1>1, <2>2, <3>2 DEF After
    <3> QED BY <1>1, <2>1, <3>1, <3>2 DEF CtlInv, CtlTyped
  <2>4. ASSUME NEW devices, Leads(uhid, Pending, devices)
        PROVE  Applies(uhid, msg) /\ Leads(uhid', queue, devices)
    <3>1. Pending = <<msg>> \o queue
      BY <1>1, <2>1 DEF Pending
    <3> DEFINE S == CtlMessages \cup {msg}
    <3>2. queue \in Seq(S) /\ msg \in S
      BY <1>1
    <3> HIDE DEF S
    <3> QED BY <2>2, <2>4, <3>1, <3>2, LeadsAfter
  <2>5. Pending' = queue
    BY <1>1, <1>4 DEF Pending
  <2>6. Delivers'
    BY <1>1, <1>2, <2>4, <2>5 DEF CtlInv, Delivers
  <2>7. ~oom => ~uhidErrors'
    <3>1. ~oom => Applies(uhid, msg) /\ ~uhidErrors
      BY <1>1, <2>4 DEF CtlInv, Delivers
    <3>2. Applies(uhid, msg) => uhidErrors' = uhidErrors \/ ~uhidErrors'
      BY <1>4, <2>1 DEF Ctl!Receive, Applies
    <3> QED BY <3>1, <3>2
  <2>8. CtlTyped'
    BY <1>1, <1>4, <2>3 DEF CtlTyped
  <2> QED BY <1>1, <2>6, <2>7, <2>8 DEF CtlInv
<1> QED BY <1>3, <1>4 DEF Ctl!Send, Ctl!device

\* Every step of the main thread and of the threads of the controller.
LEMMA NextCtl == CtlInv /\ [Ctl!Next]_(Ctl!ctlVars) => CtlInv'
BY OtherKeepsCtl, GamepadKeepsCtl, InputKeepsCtl, LifecycleKeepsCtl, CheckKeepsCtl, SendKeepsCtl
   DEF Ctl!Next, Ctl!Thread

\* From the invariant: Android has the devices of the slots.
LEMMA CtlInSync == CtlInv => Ctl!UhidValid /\ Ctl!GamepadsInSync
<1> SUFFICES ASSUME CtlInv PROVE Ctl!UhidValid /\ Ctl!GamepadsInSync
  OBVIOUS
<1>1. Ctl!UhidValid
  BY DEF CtlInv, Ctl!UhidValid
<1>2. ASSUME queue = <<>>, ctlPc = "waiting", ~oom PROVE InStep(uhid)
  <2>1. PICK devices \in [Slots -> Devices] : Leads(uhid, Pending, devices) /\ InStep(devices)
    BY <1>2 DEF CtlInv, Delivers
  <2>2. Pending = <<>>
    BY <1>2 DEF Pending
  <2>3. devices = uhid
    BY <2>1, <2>2, LeadsNowhere DEF CtlInv, CtlTyped
  <2> QED BY <2>1, <2>3
<1>3. Ctl!GamepadsInSync
  BY <1>2 DEF InStep, Ctl!GamepadsInSync
<1> QED BY <1>1, <1>3

-----------------------------------------------------------------------------
(* The composition.                                                        *)

InputInv ==
  SeenAsDrawn /\ ReceiverInv /\ MouseInv /\ UhidInv /\ SdkInv /\ AoaInv /\ ManagerInv /\ CtlInv

\* Every component starts in its invariant.
LEMMA InitInput == InputInit => InputInv
BY InitSeenAsDrawn, InitReceiver, InitMouse, InitUhid, InitSdk, InitAoa, InitManager, InitCtl
   DEF InputInit, InputInv

\* A component that does not run stutters.
LEMMA IdleStutters ==
  /\ UNCHANGED controllerVars => UNCHANGED Ctl!ctlVars
  /\ UNCHANGED uhidKeyboardVars => UNCHANGED Uhid!kbVars
  /\ UNCHANGED hidMouseVars => UNCHANGED Mouse!mouseVars
  /\ UNCHANGED aoaHidVars => UNCHANGED Aoa!aoaVars
  /\ UNCHANGED receiverVars => UNCHANGED Recv!recvVars
  /\ UNCHANGED managerVars => UNCHANGED Im!imVars
  /\ UNCHANGED sdkKeyboardVars => UNCHANGED Sdk!kbSdkVars
<1>1. UNCHANGED controllerVars => UNCHANGED Ctl!ctlVars
  BY DEF controllerVars, Ctl!ctlVars, Ctl!ctlThread, Ctl!device
<1>2. UNCHANGED uhidKeyboardVars => UNCHANGED Uhid!kbVars
  BY DEF uhidKeyboardVars, Uhid!kbVars
<1>3. UNCHANGED hidMouseVars => UNCHANGED Mouse!mouseVars
  BY DEF hidMouseVars, Mouse!mouseVars
<1>4. UNCHANGED aoaHidVars => UNCHANGED Aoa!aoaVars
  BY DEF aoaHidVars, Aoa!aoaVars, Aoa!acksync, Aoa!aoaThread, Aoa!phone
<1>5. UNCHANGED receiverVars => UNCHANGED Recv!recvVars
  BY DEF receiverVars, Recv!recvVars
<1>6. UNCHANGED managerVars => UNCHANGED Im!imVars
  BY DEF managerVars, Im!imVars, Im!user, Im!device
<1>7. UNCHANGED sdkKeyboardVars => UNCHANGED Sdk!kbSdkVars
  BY DEF sdkKeyboardVars, Sdk!kbSdkVars
<1> QED BY <1>1, <1>2, <1>3, <1>4, <1>5, <1>6, <1>7

\* A step of the composition is a step or a stutter of every component.
LEMMA InputSteps ==
  ASSUME [InputNext]_inputVars
  PROVE  /\ [Next]_orientationVars
         /\ [Ctl!Next]_(Ctl!ctlVars) /\ [Uhid!Next]_(Uhid!kbVars) /\ [Mouse!Next]_(Mouse!mouseVars)
         /\ [Aoa!Next]_(Aoa!aoaVars) /\ [Recv!Next]_(Recv!recvVars) /\ [Im!Next]_(Im!imVars)
         /\ [Sdk!Next]_(Sdk!kbSdkVars)
<1>1. Next \/ UNCHANGED orientationVars
  BY DEF InputNext, Others, inputVars
<1>2. Ctl!Next \/ UNCHANGED controllerVars
  BY DEF InputNext, Others, inputVars
<1>3. Uhid!Next \/ UNCHANGED uhidKeyboardVars
  BY DEF InputNext, Others, inputVars
<1>4. Mouse!Next \/ UNCHANGED hidMouseVars
  BY DEF InputNext, Others, inputVars
<1>5. Aoa!Next \/ UNCHANGED aoaHidVars
  BY DEF InputNext, Others, inputVars
<1>6. Recv!Next \/ UNCHANGED receiverVars
  BY DEF InputNext, Others, inputVars
<1>7. Im!Next \/ UNCHANGED managerVars
  BY DEF InputNext, Others, inputVars
<1>8. Sdk!Next \/ UNCHANGED sdkKeyboardVars
  BY DEF InputNext, Others, inputVars
<1> QED BY <1>1, <1>2, <1>3, <1>4, <1>5, <1>6, <1>7, <1>8, IdleStutters

\* Every component keeps its invariant, whichever runs.
LEMMA NextInput == InputInv /\ [InputNext]_inputVars => InputInv'
<1> SUFFICES ASSUME InputInv, [InputNext]_inputVars PROVE InputInv'
  OBVIOUS
<1>1. SeenAsDrawn' /\ ReceiverInv' /\ MouseInv' /\ UhidInv'
  BY InputSteps, NextSeenAsDrawn, NextReceiver, NextMouse, NextUhid DEF InputInv
<1>2. SdkInv' /\ AoaInv' /\ ManagerInv' /\ CtlInv'
  BY InputSteps, NextSdk, NextAoa, NextManager, NextCtl DEF InputInv
<1> QED BY <1>1, <1>2 DEF InputInv

\* Whatever the input components do, what each keeps is kept: the invariants above hold together.
THEOREM InputInvariant == InputSpec => []InputInv
BY InitInput, NextInput, PTL DEF InputSpec

\* However the stream of the device is cut, and for messages of any sizes that fit the buffer, each
\* message is dispatched whole, once and in order, the buffer has room to read into, and the
\* main thread applies what it is given in order (run_receiver(), process_msgs(), events.c).
THEOREM StreamIsReassembled == InputSpec => []StreamReassembled
BY InputInvariant, ReceiverReassembles, PTL DEF InputInv

\* For any keys, modifiers and fractions of a scroll: no key pressed, text typed or fraction is
\* lost, doubled or left pressed (uhid/keyboard_uhid.c, hid/hid_keyboard.c, keyboard_sdk.c,
\* sc_hid_mouse_generate_input_from_scroll()).
THEOREM InputIsKept == InputSpec => []InputKept
<1>1. InputInv => InputKept
  BY SdkTypesOnce, UhidFollows DEF InputInv, InputKept, MouseInv
<1> QED BY <1>1, InputInvariant, PTL

\* Whatever is late, lost or overtaken, a paste injected by HID is one of a clipboard the device
\* has, and a paste by a shortcut one of the clipboard of the computer (run_aoa_thread(),
\* sc_acksync_wait(), sc_input_manager_process_key()).
THEOREM PastesAreCurrent == InputSpec => []PasteIsCurrent
<1>1. InputInv => PasteIsCurrent
  BY AoaUnregisters DEF InputInv, PasteIsCurrent, ManagerInv
<1> QED BY <1>1, InputInvariant, PTL

\* For all bindings of the buttons and all points: no button stays pressed for the code that the
\* user released, and as long as every message was accepted, every release was treated as its press
\* and no gesture was shared, the pointers of the device are where the user holds them
\* (sc_input_manager_process_mouse_button(), simulate_virtual_finger()).
THEOREM TouchIsHeldTogether == InputSpec => []HeldTogether
<1>1. InputInv => HeldTogether
  BY TouchIsHeld DEF InputInv
<1> QED BY <1>1, InputInvariant, PTL

\* For any limit of the queue, any slots and any gamepads: Android gets no report for a device it
\* has not and no second creation, what is pending leads its devices into step with the slots, and
\* when the thread of AOA is gone, no device of it is registered (sc_controller_push_msg(),
\* sc_gamepad_uhid_send_open(), run_aoa_thread()).
THEOREM DevicesStayInSync == InputSpec => []DevicesInSync
<1>1. InputInv => DevicesInSync
  BY CtlInSync, AoaUnregisters DEF InputInv, DevicesInSync
<1> QED BY <1>1, InputInvariant, PTL

\* For frames of any size, after any sequence of turns and flips, a click lands on the point of
\* the frame shown there (sc_orientation_apply(), sc_screen_convert_window_to_frame_coords()).
THEOREM ClickLands == InputSpec => []ClickLandsOnPixel
BY InputInvariant, SeenIsClickable, PTL DEF InputInv
=============================================================================
