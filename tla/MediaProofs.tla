------------------------------ MODULE MediaProofs ------------------------------
(***************************************************************************)
(* Of the components that carry what the device captures: the ring buffer  *)
(* is a queue, what is shown never goes back, and what is heard is in      *)
(* order, once, and not late.                                              *)
(***************************************************************************)
EXTENDS MCMedia, SequenceTheorems, WellFoundedInduction, TLAPS

-----------------------------------------------------------------------------
(***************************************************************************)
(* The ring buffer of VecDeque is a first in, first out queue for every    *)
(* capacity.  The invariant is the shape of the array; the argument is the *)
(* place of the i-th item before and after a step, where the only modulus  *)
(* is of a number less than twice the capacity (ModOnce).                  *)
(***************************************************************************)
Values == Items \cup {Junk}

(* The shape of the array, for the current one and for one that grew.      *)
Shape(c, o, s, d) ==
  /\ c \in Nat /\ o \in Nat /\ s \in Nat
  /\ s <= c /\ (o < c \/ (c = 0 /\ o = 0))
  /\ d \in [0..(c - 1) -> Values]

RingInv == Shape(cap, origin, size, data) /\ cap <= MaxCap

(* The i-th item of an array.                                              *)
ItemAt(c, o, d, i) == d[(o + i - 1) % c]

LEMMA ModOnce ==
  ASSUME NEW c \in Nat \ {0}, NEW x \in Nat, x < 2 * c
  PROVE  x % c = IF x < c THEN x ELSE x - c
OBVIOUS

LEMMA PlaceOnce ==
  ASSUME NEW c \in Nat \ {0}, NEW o \in 0..(c - 1), NEW s \in 0..c
  PROVE  (o + s) % c = IF o + s < c THEN o + s ELSE o + s - c
OBVIOUS

LEMMA ModSmall ==
  ASSUME NEW c \in Nat, NEW x \in 0..(c - 1)
  PROVE  x % c = x
OBVIOUS

LEMMA PlaceInArray ==
  ASSUME NEW c, NEW o, NEW s, NEW d, Shape(c, o, s, d), NEW i \in 1..c
  PROVE  /\ (o + i - 1) % c = IF o + i - 1 < c THEN o + i - 1 ELSE o + i - 1 - c
         /\ (o + i - 1) % c \in 0..(c - 1)
         /\ ItemAt(c, o, d, i) \in Values
<1>1. c \in Nat \ {0} /\ o \in Nat /\ o < c /\ i \in Nat /\ i >= 1 /\ i <= c
  BY DEF Shape
<1>2. o + i - 1 \in Nat /\ o + i - 1 < 2 * c
  BY <1>1
<1>3. \A x \in Nat : x < 2 * c => x % c = IF x < c THEN x ELSE x - c
  BY <1>1, ModOnce
<1>4. (o + i - 1) % c = IF o + i - 1 < c THEN o + i - 1 ELSE o + i - 1 - c
  <2>1. PICK x \in Nat : x = o + i - 1
    BY <1>2
  <2>2. x % c = IF x < c THEN x ELSE x - c
    BY <1>2, <1>3, <2>1
  <2> QED BY <1>1, <1>2, <2>1, <2>2
<1>5. (o + i - 1) % c \in 0..(c - 1)
  BY <1>1, <1>2, <1>4
<1>6. d[(o + i - 1) % c] \in Values
  BY <1>5 DEF Shape
<1> QED BY <1>4, <1>5, <1>6 DEF ItemAt

(* An array that grows keeps every item in its order, wrapped or not.      *)
LEMMA ReallocKeepsItems ==
  ASSUME RingInv, NEW n \in Nat, n > cap
  PROVE  /\ Realloc(n).cap = n
         /\ Shape(n, Realloc(n).origin, size, Realloc(n).data)
         /\ \A i \in 1..size :
              ItemAt(n, Realloc(n).origin, Realloc(n).data, i) = ItemAt(cap, origin, data, i)
<1> DEFINE new == Realloc(n)
<1>1. /\ cap \in Nat /\ origin \in Nat /\ size \in Nat /\ size <= cap
      /\ (origin < cap \/ (cap = 0 /\ origin = 0)) /\ data \in [0..(cap - 1) -> Values]
  BY DEF RingInv, Shape
<1>2. CASE origin + size <= cap
  <2>1. /\ new.cap = n /\ new.origin = origin
        /\ new.data = [j \in 0..(n - 1) |-> IF j < cap THEN data[j] ELSE Junk]
    BY <1>2 DEF Realloc
  <2>2. new.data \in [0..(n - 1) -> Values]
    BY <1>1, <2>1 DEF Values
  <2>3. Shape(n, new.origin, size, new.data)
    BY <1>1, <2>1, <2>2 DEF Shape
  <2>4. ASSUME NEW i \in 1..size
        PROVE  ItemAt(n, new.origin, new.data, i) = ItemAt(cap, origin, data, i)
    <3>1. origin + i - 1 \in 0..(cap - 1) /\ i \in 1..cap /\ i \in 1..n
      BY <1>1, <1>2
    <3>2. (origin + i - 1) % cap = origin + i - 1
      BY <1>1, <3>1, PlaceInArray DEF Shape
    <3>3. (origin + i - 1) % n = origin + i - 1
      BY <1>1, <3>1, ModSmall
    <3> QED BY <1>1, <2>1, <3>1, <3>2, <3>3 DEF ItemAt
  <2> QED BY <2>1, <2>3, <2>4
<1>3. CASE ~(origin + size <= cap)
  <2>1. /\ new.cap = n /\ new.origin = 0
        /\ new.data = [j \in 0..(n - 1) |->
                         IF j < cap - origin THEN data[origin + j]
                         ELSE IF j < size THEN data[j - (cap - origin)] ELSE Junk]
    BY <1>3 DEF Realloc
  <2>2. new.data \in [0..(n - 1) -> Values]
    <3> SUFFICES ASSUME NEW j \in 0..(n - 1)
                 PROVE  new.data[j] \in Values
      BY <2>1
    <3>1. CASE j < cap - origin
      <4>1. origin + j \in 0..(cap - 1)
        BY <1>1, <3>1
      <4> QED BY <1>1, <2>1, <3>1, <4>1
    <3>2. CASE ~(j < cap - origin) /\ j < size
      <4>1. j - (cap - origin) \in 0..(cap - 1)
        BY <1>1, <3>2
      <4> QED BY <1>1, <2>1, <3>2, <4>1
    <3>3. CASE ~(j < cap - origin) /\ ~(j < size)
      BY <2>1, <3>3 DEF Values
    <3> QED BY <3>1, <3>2, <3>3
  <2>3. Shape(n, new.origin, size, new.data)
    BY <1>1, <2>1, <2>2 DEF Shape
  <2>4. ASSUME NEW i \in 1..size
        PROVE  ItemAt(n, new.origin, new.data, i) = ItemAt(cap, origin, data, i)
    <3>1. i \in 1..cap /\ i \in 1..n /\ i - 1 \in 0..(n - 1)
      BY <1>1
    <3>2. 0 + i - 1 = i - 1 /\ (i - 1) % n = i - 1
      BY <1>1, <3>1, ModSmall
    <3>3. (origin + i - 1) % cap =
            IF origin + i - 1 < cap THEN origin + i - 1 ELSE origin + i - 1 - cap
      BY <1>1, <3>1, PlaceInArray DEF Shape
    <3>4. ItemAt(n, new.origin, new.data, i) =
            IF i - 1 < cap - origin THEN data[origin + (i - 1)]
            ELSE IF i - 1 < size THEN data[(i - 1) - (cap - origin)] ELSE Junk
      BY <2>1, <3>1, <3>2 DEF ItemAt
    <3>5. CASE i - 1 < cap - origin
      <4>1. origin + (i - 1) = (origin + i - 1) % cap
        BY <1>1, <3>3, <3>5
      <4> QED BY <3>4, <3>5, <4>1 DEF ItemAt
    <3>6. CASE ~(i - 1 < cap - origin)
      <4>1. i - 1 < size /\ (i - 1) - (cap - origin) = (origin + i - 1) % cap
        BY <1>1, <3>3, <3>6
      <4> QED BY <3>4, <3>6, <4>1 DEF ItemAt
    <3> QED BY <3>5, <3>6
  <2> QED BY <2>1, <2>3, <2>4
<1> QED BY <1>2, <1>3

-----------------------------------------------------------------------------
(* The items as a sequence.                                                *)

ContentsOf(c, o, s, d) == [i \in 1..s |-> ItemAt(c, o, d, i)]

LEMMA ContentsIsSeq ==
  ASSUME NEW c, NEW o, NEW s, NEW d, Shape(c, o, s, d)
  PROVE  /\ ContentsOf(c, o, s, d) \in Seq(Values)
         /\ Len(ContentsOf(c, o, s, d)) = s
         /\ \A i \in 1..s : ContentsOf(c, o, s, d)[i] = ItemAt(c, o, d, i)
<1>1. s \in Nat /\ \A i \in 1..s : i \in 1..c
  BY DEF Shape
<1>2. \A i \in 1..s : ItemAt(c, o, d, i) \in Values
  BY <1>1, PlaceInArray
<1> QED BY <1>1, <1>2 DEF ContentsOf

LEMMA ContentsAreContentsOf ==
  Contents = ContentsOf(cap, origin, size, data)
BY DEF Contents, ContentsOf, ItemAt

(* The capacity an array grows to.                                         *)
LEMMA GrowsBeyond ==
  ASSUME RingInv, NEW least \in Nat, MinCap <= least, least <= MaxCap,
         cap < MaxCap, cap < least \/ least = MinCap
  PROVE  LET n == Clamp(GrowSize(cap), least, MaxCap)
         IN  n \in Nat /\ n > cap /\ n <= MaxCap
<1>1. cap \in Nat /\ MinCap \in Nat /\ MaxCap \in Nat /\ 2 <= MinCap
  BY VecDequeAssumption DEF RingInv, Shape
<1>2. GrowSize(cap) \in Nat /\ (cap >= 2 => GrowSize(cap) > cap)
  BY <1>1 DEF GrowSize
<1> QED BY <1>1, <1>2 DEF Clamp

-----------------------------------------------------------------------------
(* Every step keeps the shape, and is a step of the queue or shows nowhere. *)

LEMMA InitIsEmpty ==
  Init => RingInv /\ F!Init
<1> SUFFICES ASSUME Init PROVE RingInv /\ F!Init
  OBVIOUS
<1>1. RingInv
  BY VecDequeAssumption DEF Init, RingInv, Shape
<1>2. Contents = <<>>
  <2>1. Contents \in Seq(Values) /\ Len(Contents) = 0
    BY <1>1, ContentsIsSeq, ContentsAreContentsOf DEF RingInv, Init
  <2> QED BY <2>1, EmptySeq
<1> QED BY <1>1, <1>2 DEF F!Init, Init

(* Equal items make equal contents.                                        *)
LEMMA SameContents ==
  ASSUME NEW c, NEW o, NEW s, NEW d, Shape(c, o, s, d),
         NEW e, NEW p, NEW t, NEW f, Shape(e, p, t, f), s = t,
         \A i \in 1..s : ItemAt(c, o, d, i) = ItemAt(e, p, f, i)
  PROVE  ContentsOf(c, o, s, d) = ContentsOf(e, p, t, f)
BY DEF ContentsOf

LEMMA PushAppends ==
  ASSUME RingInv, NEW added \in Items, Push(added)
  PROVE  RingInv' /\ F!Push(added)
<1> DEFINE g == Grown
<1>1. /\ g.cap \in Nat /\ g.cap > size /\ g.cap <= MaxCap
      /\ Shape(g.cap, g.origin, size, g.data)
      /\ \A i \in 1..size : ItemAt(g.cap, g.origin, g.data, i) = ItemAt(cap, origin, data, i)
  <2>1. CASE IsFull
    <3> DEFINE n == Clamp(GrowSize(cap), MinCap, MaxCap)
    <3>1. size = cap /\ cap < MaxCap
      BY <2>1, VecDequeAssumption DEF Push, RingInv, Shape, IsFull
    <3>2. n \in Nat /\ n > cap /\ n <= MaxCap
      BY <3>1, GrowsBeyond, VecDequeAssumption
    <3>3. g = Realloc(n)
      BY <2>1 DEF Grown
    <3> HIDE DEF n, g
    <3> QED BY <3>1, <3>2, <3>3, ReallocKeepsItems
  <2>2. CASE ~IsFull
    <3>1. g = [cap |-> cap, origin |-> origin, data |-> data]
      BY <2>2 DEF Grown
    <3>2. g.cap = cap /\ g.origin = origin /\ g.data = data
      BY <3>1
    <3> HIDE DEF g
    <3> QED BY <2>2, <3>2 DEF RingInv, Shape, IsFull
  <2> QED BY <2>1, <2>2
<1>2. /\ cap' = g.cap /\ origin' = g.origin /\ size' = size + 1 /\ last' = last
      /\ data' = [g.data EXCEPT ![(g.origin + size) % g.cap] = added]
  BY DEF Push
<1> HIDE DEF g
<1>3. /\ size \in Nat /\ g.origin \in Nat /\ g.origin < g.cap
      /\ g.data \in [0..(g.cap - 1) -> Values] /\ added \in Values
  BY <1>1 DEF Shape, Values
<1>4. /\ size + 1 \in 1..g.cap /\ g.origin + (size + 1) - 1 = g.origin + size
      /\ (g.origin + size) % g.cap \in 0..(g.cap - 1)
      /\ (g.origin + size) % g.cap =
           IF g.origin + size < g.cap THEN g.origin + size ELSE g.origin + size - g.cap
  <2>1. size + 1 \in 1..g.cap /\ g.origin + (size + 1) - 1 = g.origin + size
    BY <1>1, <1>3
  <2>2. g.cap \in Nat \ {0} /\ g.origin \in 0..(g.cap - 1) /\ size \in 0..g.cap
    BY <1>1, <1>3
  <2>3. (g.origin + size) % g.cap =
          IF g.origin + size < g.cap THEN g.origin + size ELSE g.origin + size - g.cap
    BY <2>2, PlaceOnce
  <2>4. (IF g.origin + size < g.cap THEN g.origin + size ELSE g.origin + size - g.cap)
          \in 0..(g.cap - 1)
    BY <2>2
  <2> QED BY <2>1, <2>3, <2>4
<1>5. Shape(cap', origin', size', data')
  <2>1. data' \in [0..(g.cap - 1) -> Values]
    BY <1>2, <1>3
  <2> QED BY <1>1, <1>2, <1>3, <2>1 DEF Shape
<1>6. RingInv'
  BY <1>1, <1>2, <1>5 DEF RingInv
<1>7. ItemAt(cap', origin', data', size + 1) = added
  BY <1>2, <1>3, <1>4 DEF ItemAt
<1>8. ASSUME NEW i \in 1..size
      PROVE  ItemAt(cap', origin', data', i) = ItemAt(cap, origin, data, i)
  <2>1. i \in 1..g.cap
    BY <1>1, <1>3
  <2>2. /\ (g.origin + i - 1) % g.cap \in 0..(g.cap - 1)
        /\ (g.origin + i - 1) % g.cap =
             IF g.origin + i - 1 < g.cap THEN g.origin + i - 1 ELSE g.origin + i - 1 - g.cap
    BY <1>1, <2>1, PlaceInArray
  <2>3. (g.origin + i - 1) % g.cap # (g.origin + size) % g.cap
    <3>1. i \in Nat /\ 1 <= i /\ i <= size /\ g.cap \in Nat /\ size < g.cap
      BY <1>1, <1>3
    <3>2. (IF g.origin + i - 1 < g.cap THEN g.origin + i - 1 ELSE g.origin + i - 1 - g.cap)
            # (IF g.origin + size < g.cap THEN g.origin + size ELSE g.origin + size - g.cap)
      BY <1>3, <3>1
    <3> QED BY <1>4, <2>2, <3>2
  <2>4. data'[(g.origin + i - 1) % g.cap] = g.data[(g.origin + i - 1) % g.cap]
    BY <1>2, <1>3, <2>2, <2>3
  <2> QED BY <1>1, <1>2, <2>4 DEF ItemAt
<1>9. Contents' = Append(Contents, added)
  <2>1. /\ Contents \in Seq(Values) /\ Len(Contents) = size
        /\ \A i \in 1..size : Contents[i] = ItemAt(cap, origin, data, i)
    BY ContentsIsSeq, ContentsAreContentsOf DEF RingInv
  <2>2. Contents' = ContentsOf(cap', origin', size', data')
    BY ContentsAreContentsOf DEF Contents, ContentsOf, ItemAt
  <2>3. /\ Contents' \in Seq(Values) /\ Len(Contents') = size + 1
        /\ \A i \in 1..(size + 1) : Contents'[i] = ItemAt(cap', origin', data', i)
    BY <1>2, <1>5, <2>2, ContentsIsSeq
  <2>4. /\ Append(Contents, added) \in Seq(Values) /\ Len(Append(Contents, added)) = size + 1
        /\ \A i \in 1..size : Append(Contents, added)[i] = Contents[i]
        /\ Append(Contents, added)[size + 1] = added
    BY <1>3, <2>1, AppendProperties
  <2>5. \A i \in 1..(size + 1) : Contents'[i] = Append(Contents, added)[i]
    BY <1>3, <1>7, <1>8, <2>1, <2>3, <2>4
  <2> QED BY <2>3, <2>4, <2>5, SeqEqual
<1> QED BY <1>2, <1>6, <1>9 DEF F!Push

LEMMA PopTakesTheOldest ==
  ASSUME RingInv, Pop
  PROVE  RingInv' /\ F!Pop
<1>1. /\ cap \in Nat \ {0} /\ cap <= MaxCap /\ origin \in Nat /\ origin < cap
      /\ size \in Nat /\ size > 0 /\ size <= cap /\ data \in [0..(cap - 1) -> Values]
  BY DEF RingInv, Shape, Pop
<1>2. /\ cap' = cap /\ origin' = (origin + 1) % cap /\ size' = size - 1
      /\ data' = data /\ last' = <<data[origin]>>
  BY DEF Pop
<1>3. origin' = (IF origin + 1 < cap THEN origin + 1 ELSE 0)
  <2>1. PICK x \in Nat : x = origin + 1
    BY <1>1
  <2>2. x < 2 * cap
    BY <1>1, <2>1
  <2>3. x % cap = IF x < cap THEN x ELSE x - cap
    BY <1>1, <2>2, ModOnce
  <2> QED BY <1>1, <1>2, <2>1, <2>3
<1>4. Shape(cap', origin', size', data')
  BY <1>1, <1>2, <1>3 DEF Shape
<1>5. RingInv'
  BY <1>1, <1>2, <1>4 DEF RingInv
<1>6. /\ Contents \in Seq(Values) /\ Len(Contents) = size
      /\ \A i \in 1..size : Contents[i] = ItemAt(cap, origin, data, i)
  BY ContentsIsSeq, ContentsAreContentsOf DEF RingInv
<1>7. Contents # <<>>
  BY <1>1, <1>6
<1>8. Head(Contents) = data[origin]
  <2>1. (origin + 1 - 1) % cap = origin
    BY <1>1, ModSmall
  <2> QED BY <1>1, <1>6, <2>1 DEF ItemAt
<1>9. Contents' = Tail(Contents)
  <2>1. Contents' = ContentsOf(cap', origin', size', data')
    BY ContentsAreContentsOf DEF Contents, ContentsOf, ItemAt
  <2>2. /\ Contents' \in Seq(Values) /\ Len(Contents') = size - 1
        /\ \A i \in 1..(size - 1) : Contents'[i] = ItemAt(cap', origin', data', i)
    BY <1>2, <1>4, <2>1, ContentsIsSeq
  <2>3. /\ Tail(Contents) \in Seq(Values) /\ Len(Tail(Contents)) = size - 1
        /\ \A i \in 1..(size - 1) : Tail(Contents)[i] = Contents[i + 1]
    BY <1>1, <1>6, <1>7, HeadTailProperties
  <2>4. ASSUME NEW i \in 1..(size - 1)
        PROVE  ItemAt(cap', origin', data', i) = ItemAt(cap, origin, data, i + 1)
    <3>1. i \in 1..cap /\ i + 1 \in 1..cap
      BY <1>1
    <3>2. (origin + (i + 1) - 1) % cap =
            IF origin + (i + 1) - 1 < cap THEN origin + (i + 1) - 1
            ELSE origin + (i + 1) - 1 - cap
      BY <3>1, PlaceInArray DEF RingInv
    <3>3. (origin' + i - 1) % cap =
            IF origin' + i - 1 < cap THEN origin' + i - 1 ELSE origin' + i - 1 - cap
      BY <1>2, <1>4, <3>1, PlaceInArray
    <3>4. (origin' + i - 1) % cap = (origin + (i + 1) - 1) % cap
      BY <1>1, <1>3, <3>1, <3>2, <3>3
    <3> QED BY <1>2, <3>4 DEF ItemAt
  <2>5. \A i \in 1..(size - 1) : Contents'[i] = Tail(Contents)[i]
    BY <1>1, <1>6, <2>2, <2>3, <2>4
  <2> QED BY <2>2, <2>3, <2>5, SeqEqual
<1> QED BY <1>2, <1>5, <1>7, <1>8, <1>9 DEF F!Pop

LEMMA ClearEmpties ==
  ASSUME RingInv, Clear
  PROVE  RingInv' /\ F!Clear
<1>1. Shape(cap', origin', size', data') /\ RingInv' /\ size' = 0 /\ last' = last
  BY VecDequeAssumption DEF Clear, RingInv, Shape
<1>2. Contents' = ContentsOf(cap', origin', size', data')
  BY ContentsAreContentsOf DEF Contents, ContentsOf, ItemAt
<1>3. Contents' \in Seq(Values) /\ Len(Contents') = 0
  BY <1>1, <1>2, ContentsIsSeq
<1> QED BY <1>1, <1>3, EmptySeq DEF F!Clear

LEMMA ReserveShowsNowhere ==
  ASSUME RingInv, NEW mincap \in 0..MaxCap, Reserve(mincap)
  PROVE  RingInv' /\ UNCHANGED <<Contents, last>>
<1> DEFINE least == IF mincap < MinCap THEN MinCap ELSE mincap
           n == Clamp(GrowSize(cap), least, MaxCap)
<1>1. /\ cap < least /\ least <= MaxCap
      /\ cap' = Realloc(n).cap /\ origin' = Realloc(n).origin /\ data' = Realloc(n).data
      /\ size' = size /\ last' = last
  BY DEF Reserve
<1>2. least \in Nat /\ MinCap <= least /\ cap \in Nat
  BY VecDequeAssumption DEF RingInv, Shape
<1>3. n \in Nat /\ n > cap /\ n <= MaxCap
  <2> HIDE DEF least
  <2>1. cap < MaxCap
    BY <1>1, <1>2, VecDequeAssumption
  <2> QED BY <1>1, <1>2, <2>1, GrowsBeyond
<1> HIDE DEF n, least
<1>4. /\ Realloc(n).cap = n /\ Shape(n, Realloc(n).origin, size, Realloc(n).data)
      /\ \A i \in 1..size :
           ItemAt(n, Realloc(n).origin, Realloc(n).data, i) = ItemAt(cap, origin, data, i)
  BY <1>3, ReallocKeepsItems
<1>5. Shape(cap', origin', size', data')
  BY <1>1, <1>4
<1>6. ContentsOf(cap', origin', size', data') = ContentsOf(cap, origin, size, data)
  BY <1>1, <1>4 DEF ContentsOf
<1>7. Contents' = ContentsOf(cap', origin', size', data')
  BY ContentsAreContentsOf DEF Contents, ContentsOf, ItemAt
<1> QED BY <1>1, <1>3, <1>4, <1>5, <1>6, <1>7, ContentsAreContentsOf DEF RingInv

LEMMA NextIsQueueStep ==
  RingInv /\ [Next]_dequeVars => RingInv' /\ [F!Next]_(F!fifoVars)
<1> SUFFICES ASSUME RingInv, [Next]_dequeVars
             PROVE  RingInv' /\ [F!Next]_(F!fifoVars)
  OBVIOUS
<1>1. ASSUME NEW added \in Items, Push(added)
      PROVE  RingInv' /\ F!Next
  BY <1>1, PushAppends DEF F!Next
<1>2. CASE Pop
  BY <1>2, PopTakesTheOldest DEF F!Next
<1>3. CASE Clear
  BY <1>3, ClearEmpties DEF F!Next
<1>4. ASSUME NEW mincap \in 0..MaxCap, Reserve(mincap)
      PROVE  RingInv' /\ UNCHANGED F!fifoVars
  BY <1>4, ReserveShowsNowhere DEF F!fifoVars
<1>5. CASE UNCHANGED dequeVars
  BY <1>5 DEF dequeVars, RingInv, Shape, F!fifoVars, Contents
<1> QED BY <1>1, <1>2, <1>3, <1>4, <1>5 DEF Next

\* The array keeps its shape: the first item and every other lie inside it.
THEOREM ShapeKept == Spec => []RingInv
<1>1. Init => RingInv
  BY InitIsEmpty
<1>2. RingInv /\ [Next]_dequeVars => RingInv'
  BY NextIsQueueStep
<1> QED BY <1>1, <1>2, PTL DEF Spec

\* The ring buffer implements the queue: every push, pop and clear is one of the queue, and a
\* growth of the array is a stuttering step of it (vecdeque.h).
THEOREM RingIsFifo == Spec => ImplementsFifo
<1>1. Init => F!Init
  BY InitIsEmpty
<1>2. RingInv /\ [Next]_dequeVars => [F!Next]_(F!fifoVars)
  BY NextIsQueueStep
<1> QED BY <1>1, <1>2, ShapeKept, PTL DEF Spec, ImplementsFifo, F!Spec

-----------------------------------------------------------------------------
(***************************************************************************)
(* VideoOutput: a frame that waits has its event, and the window never goes*)
(* back.                                                                   *)
(*                                                                         *)
(* Both speak of the frame buffer and the window alone, and neither is     *)
(* inductive: what reaches the buffer next is with the decoder, in the     *)
(* queue of the regulator, or in its thread, and which of them may overtake*)
(* which depends on the clock of the regulator.  ScreenInv follows a frame *)
(* along that way: Placed says which thread may hold one, Ordered and      *)
(* Queued that what is behind is not older than what is ahead, FirstDirect *)
(* that only the first frame goes past the queue, SessionsOrdered and      *)
(* Follows that a frame comes after the session it belongs to, Events and  *)
(* OneEvent that the event of a frame is the last one and the only one.    *)
(* Nothing is assumed of the constants.                                    *)
(***************************************************************************)
FrameOrSession == [n : Nat, session : Nat]

ScreenTyped ==
  /\ buffering \in BOOLEAN
  /\ decoderPc \in {"open", "streaming", "closing", "closed"}
  /\ lastFrame \in Nat /\ session \in Nat \ {0}
  /\ vrQueue \in Seq(FrameOrSession) /\ vrRange \in 0..2
  /\ vrStopped \in BOOLEAN /\ vrPc \in {"off", "wait", "delay", "push", "ended"}
  /\ vrItem \in FrameOrSession
  /\ pushing \in [Vo!Pusher -> FrameOrSession] /\ posting \in [Vo!Pusher -> BOOLEAN]
  /\ screenSession \in Nat /\ pending \in FrameOrSession
  /\ pendingSession \in Nat
  /\ windowShown \in BOOLEAN /\ paused \in BOOLEAN
  /\ shown \in Nat /\ resume \in Nat

IsFrame(f) == f # Vo!NoFrame
Numbered(f) == f.n = 0 => f = Vo!NoFrame

(* Where the threads are.                                                  *)
Placed ==
  /\ \A p \in Vo!Pusher : /\ posting[p] => pushing[p] = Vo!NoFrame
                       /\ Numbered(pushing[p])
  /\ Numbered(pending) /\ Numbered(vrItem)
  /\ IsFrame(vrItem) => vrPc = "delay"
  /\ pushing["regulator"] # Vo!NoFrame \/ posting["regulator"] => vrPc = "push"
  /\ ~buffering => vrPc = "off" /\ vrQueue = <<>>
  /\ decoderPc = "open" => vrPc = "off" /\ vrQueue = <<>> /\ Vo!Idle("decoder")
  /\ vrPc = "off" => decoderPc # "streaming" \/ ~buffering
  /\ ~paused => resume = 0

(* The events of the screen: that of a frame is the last one.              *)
EventNames == {"OPEN_WINDOW", "NEW_FRAME"}

Events ==
  /\ events \in Seq(EventNames)
  /\ \A i \in 1..Len(events) : events[i] = "NEW_FRAME" => i = Len(events)
  /\ decoderPc = "open" => events = <<>> /\ pending = Vo!NoFrame

Posted == events # <<>> /\ events[Len(events)] = "NEW_FRAME"

Ending == vrStopped \/ decoderPc \in {"closing", "closed"}

OneEvent ==
  /\ Posted => ~posting["decoder"] /\ ~posting["regulator"]
  /\ ~(posting["decoder"] /\ posting["regulator"])
  /\ Posted \/ posting["decoder"] \/ posting["regulator"] => pending # Vo!NoFrame
  /\ pending # Vo!NoFrame /\ ~Ending =>
       Posted \/ posting["decoder"] \/ posting["regulator"]

(* What is on its way to the window is not older than what is there.       *)
NotOlder(n) == shown <= n /\ resume <= n /\ pending.n <= n

Ordered ==
  /\ resume # 0 => shown <= resume
  /\ pending # Vo!NoFrame => shown <= pending.n /\ resume <= pending.n
  /\ \A p \in Vo!Pusher : /\ pushing[p] # Vo!NoFrame => NotOlder(pushing[p].n)
                       /\ pushing[p].n <= lastFrame
  /\ vrItem # Vo!NoFrame => NotOlder(vrItem.n)
  /\ NotOlder(lastFrame) /\ vrItem.n <= lastFrame

Queued ==
  \A i \in 1..Len(vrQueue) :
    /\ vrQueue[i].n <= lastFrame
    /\ vrQueue[i].n # 0 =>
         /\ NotOlder(vrQueue[i].n)
         /\ pushing["regulator"].n <= vrQueue[i].n /\ vrItem.n <= vrQueue[i].n
         /\ \A j \in i..Len(vrQueue) :
              vrQueue[j].n # 0 => vrQueue[i].n <= vrQueue[j].n

(* Only the first frame overtakes the regulator, before there is another.  *)
FirstDirect ==
  buffering =>
    /\ vrRange = 0 => lastFrame = 0 \/ vrStopped
    /\ pushing["decoder"] # Vo!NoFrame => pushing["decoder"].n = 1 /\ vrRange <= 1
    /\ vrRange <= 1 => /\ vrItem = Vo!NoFrame /\ pushing["regulator"] = Vo!NoFrame
                       /\ \A i \in 1..Len(vrQueue) : vrQueue[i].n = 0

(* A frame follows its session, in the queue and behind it.                *)
LastSession ==
  IF Len(vrQueue) = 0 THEN screenSession ELSE vrQueue[Len(vrQueue)].session

SessionsOrdered ==
  /\ decoderPc = "streaming" /\ ~(buffering /\ vrStopped) => LastSession = session
  /\ pushing["decoder"] # Vo!NoFrame /\ ~buffering =>
       pushing["decoder"].session = screenSession
  /\ pushing["regulator"] # Vo!NoFrame =>
       pushing["regulator"].session = screenSession
  /\ vrItem # Vo!NoFrame => vrItem.session = screenSession
  /\ Vo!SessionOfFrame

Follows ==
  \A i \in 1..Len(vrQueue) :
    vrQueue[i].n # 0 =>
      vrQueue[i].session = IF i = 1 THEN screenSession ELSE vrQueue[i - 1].session

ScreenInv ==
  /\ ScreenTyped /\ Placed /\ Events /\ OneEvent /\ Ordered /\ Queued /\ FirstDirect
  /\ SessionsOrdered /\ Follows

-----------------------------------------------------------------------------
(***************************************************************************)
(* The two queues.                                                         *)
(***************************************************************************)
LEMMA QueueTyped ==
  ASSUME ScreenTyped
  PROVE  /\ Len(vrQueue) \in Nat
         /\ \A i \in 1..Len(vrQueue) : /\ vrQueue[i] \in FrameOrSession
                                      /\ vrQueue[i].n \in Nat
<1>1. /\ Len(vrQueue) \in Nat
      /\ \A i \in 1..Len(vrQueue) : vrQueue[i] \in FrameOrSession
  BY ElementOfSeq DEF ScreenTyped
<1> QED BY <1>1 DEF FrameOrSession

LEMMA QueueAppended ==
  ASSUME ScreenTyped, NEW f \in FrameOrSession, vrQueue' = Append(vrQueue, f)
  PROVE  /\ vrQueue' \in Seq(FrameOrSession) /\ Len(vrQueue') = Len(vrQueue) + 1
         /\ \A i \in 1..Len(vrQueue) : vrQueue'[i] = vrQueue[i]
         /\ vrQueue'[Len(vrQueue) + 1] = f
         /\ Len(vrQueue) \in Nat
BY AppendProperties DEF ScreenTyped

LEMMA QueuePopped ==
  ASSUME ScreenTyped, vrQueue # <<>>, vrQueue' = Tail(vrQueue)
  PROVE  /\ vrQueue' \in Seq(FrameOrSession) /\ Len(vrQueue') = Len(vrQueue) - 1
         /\ \A i \in 1..Len(vrQueue') : vrQueue'[i] = vrQueue[i + 1]
         /\ Head(vrQueue) = vrQueue[1] /\ Len(vrQueue) \in Nat \ {0}
         /\ Head(vrQueue) \in FrameOrSession
BY HeadTailProperties, EmptySeq DEF ScreenTyped

LEMMA EventAppended ==
  ASSUME Events, NEW e \in EventNames, events' = Append(events, e)
  PROVE  /\ events' \in Seq(EventNames) /\ Len(events') = Len(events) + 1
         /\ \A i \in 1..Len(events) : events'[i] = events[i]
         /\ events'[Len(events')] = e
         /\ Len(events) \in Nat
BY AppendProperties DEF Events

LEMMA EventHandled ==
  ASSUME Events, events # <<>>, events' = Tail(events)
  PROVE  /\ events' \in Seq(EventNames) /\ Len(events') = Len(events) - 1
         /\ \A i \in 1..Len(events') : events'[i] = events[i + 1]
         /\ Head(events) = events[1] /\ Len(events) \in Nat \ {0}
BY HeadTailProperties, EmptySeq DEF Events

-----------------------------------------------------------------------------
LEMMA InitScreen == Vo!Init => ScreenInv
<1> SUFFICES ASSUME Vo!Init PROVE ScreenInv
  OBVIOUS
<1>0. vrQueue = <<>> /\ Len(vrQueue) = 0 /\ Len(events) = 0
  BY DEF Vo!Init
<1>1. ScreenTyped
  <2>1. vrQueue \in Seq(FrameOrSession)
    BY <1>0, EmptySeq
  <2>2. buffering \in BOOLEAN /\ vrStopped \in BOOLEAN /\ windowShown \in BOOLEAN
        /\ paused \in BOOLEAN /\ posting \in [Vo!Pusher -> BOOLEAN]
    BY Zenon DEF Vo!Init
  <2> QED BY <2>1, <2>2 DEF ScreenTyped, Vo!Init, Vo!NoFrame, FrameOrSession
<1>2. Placed
  BY DEF Vo!Init, Placed, Vo!Idle, IsFrame, Numbered, Vo!NoFrame, Vo!Pusher
<1>3. Events
  BY EmptySeq, <1>0 DEF Vo!Init, Events, EventNames
<1>4. OneEvent
  BY DEF Vo!Init, OneEvent, Posted, Vo!NoFrame, Vo!Pusher
<1>5. Ordered
  BY DEF Vo!Init, Ordered, NotOlder, Vo!NoFrame, Vo!Pusher
<1>6. Queued
  BY <1>0 DEF Queued
<1>7. FirstDirect
  BY DEF Vo!Init, FirstDirect, Vo!NoFrame, Vo!Pusher
<1>8. SessionsOrdered
  BY DEF Vo!Init, SessionsOrdered, Vo!SessionOfFrame, Vo!NoFrame, Vo!Pusher
<1>9. Follows
  BY <1>0 DEF Follows
<1> QED
  BY <1>1, <1>2, <1>3, <1>4, <1>5, <1>6, <1>7, <1>8, <1>9 DEF ScreenInv

-----------------------------------------------------------------------------
(***************************************************************************)
(* The decoder thread.                                                     *)
(***************************************************************************)
LEMMA OpenKeeps ==
  ASSUME ScreenInv, Vo!Open
  PROVE  ScreenInv'
<1> USE DEF ScreenInv
<1>0. /\ decoderPc = "open" /\ events = <<>> /\ pending = Vo!NoFrame /\ Len(vrQueue) = 0
      /\ Vo!Idle("decoder") /\ vrPc = "off" /\ Len(events) = 0
      /\ UNCHANGED <<buffering, lastFrame, session, vrQueue, vrRange, vrStopped, vrItem,
                     pushing, posting, pending, pendingSession, windowShown, paused, shown,
                     resume>>
  BY DEF Vo!Open, Placed, Events, Vo!window
<1>1. \/ /\ decoderPc' = "streaming" /\ screenSession' = session
         /\ vrPc' = IF buffering THEN "wait" ELSE "off"
         /\ events' = Append(events, "OPEN_WINDOW")
      \/ decoderPc' = "closed" /\ UNCHANGED <<screenSession, events, vrPc>>
  BY DEF Vo!Open
<1>2. pushing["decoder"] = Vo!NoFrame /\ pushing["regulator"] = Vo!NoFrame /\ vrItem = Vo!NoFrame
      /\ ~posting["decoder"] /\ ~posting["regulator"]
  BY <1>0 DEF Placed, Vo!Idle, IsFrame
<1>3. ScreenTyped'
  <2>1. /\ decoderPc' \in {"open", "streaming", "closing", "closed"}
        /\ vrPc' \in {"off", "wait", "delay", "push", "ended"} /\ screenSession' \in Nat
    BY <1>0, <1>1 DEF ScreenTyped
  <2> QED BY <1>0, <2>1 DEF ScreenTyped
<1>4. Placed'
  BY <1>0, <1>1, <1>2 DEF Placed, Vo!Idle, IsFrame, Numbered, ScreenTyped
<1>5. Events' /\ ~Posted'
  <2>1. CASE events' = Append(events, "OPEN_WINDOW")
    <3>1. /\ events' \in Seq(EventNames) /\ Len(events') = 1 /\ events'[1] = "OPEN_WINDOW"
      BY <1>0, <2>1, EventAppended DEF EventNames
    <3> QED BY <1>0, <1>1, <3>1 DEF Events, Posted
  <2>2. CASE UNCHANGED events
    BY <1>0, <1>1, <2>2 DEF Events, Posted
  <2> QED BY <1>1, <2>1, <2>2
<1>6. OneEvent'
  BY <1>0, <1>2, <1>5 DEF OneEvent
<1>7. Ordered' /\ Queued' /\ FirstDirect' /\ Follows'
  BY <1>0 DEF Ordered, Queued, FirstDirect, Follows, NotOlder
<1>8. SessionsOrdered'
  BY <1>0, <1>1, <1>2 DEF SessionsOrdered, LastSession, Vo!SessionOfFrame
<1> QED BY <1>3, <1>4, <1>5, <1>6, <1>7, <1>8

LEMMA DecodeFrameKeeps ==
  ASSUME ScreenInv, Vo!DecodeFrame
  PROVE  ScreenInv'
<1> USE DEF ScreenInv
<1> DEFINE decoded == [n |-> lastFrame + 1, session |-> session]
<1>0. /\ decoderPc = "streaming" /\ pushing["decoder"] = Vo!NoFrame /\ ~posting["decoder"]
      /\ lastFrame' = lastFrame + 1 /\ lastFrame \in Nat
      /\ vrRange' = IF buffering /\ vrStopped THEN vrRange
                    ELSE IF ~buffering THEN 0 ELSE IF vrRange = 0 THEN 1 ELSE 2
      /\ decoded \in FrameOrSession /\ decoded.n = lastFrame + 1 /\ decoded.session = session
      /\ UNCHANGED <<buffering, session, vrStopped, vrPc, vrItem, posting, screenSession,
                     pending, pendingSession, events, windowShown, paused, shown, resume>>
  BY DEF Vo!DecodeFrame, Vo!Idle, Vo!Refused, Vo!RangeAfter, Vo!window, ScreenTyped, FrameOrSession
<1>1. \/ /\ buffering /\ vrStopped /\ decoderPc' = "closing"
         /\ UNCHANGED <<vrQueue, pushing>>
      \/ /\ buffering => ~vrStopped /\ vrRange = 0
         /\ pushing' = [pushing EXCEPT !["decoder"] = decoded]
         /\ UNCHANGED <<decoderPc, vrQueue>>
      \/ /\ buffering /\ ~vrStopped /\ vrRange # 0
         /\ vrQueue' = Append(vrQueue, decoded)
         /\ UNCHANGED <<decoderPc, pushing>>
  BY DEF Vo!DecodeFrame, Vo!Refused, Vo!Direct
<1> HIDE DEF decoded
<1>2. /\ decoderPc' \in {"streaming", "closing"}
      /\ decoderPc' = "streaming" \/ UNCHANGED <<vrQueue, pushing>>
  BY <1>0, <1>1
<1>3. /\ pushing' \in [Vo!Pusher -> FrameOrSession]
      /\ pushing'["regulator"] = pushing["regulator"]
      /\ \/ pushing' = pushing
         \/ /\ pushing'["decoder"] = decoded /\ UNCHANGED <<vrQueue, decoderPc>>
            /\ buffering => ~vrStopped /\ vrRange = 0
  BY <1>0, <1>1 DEF ScreenTyped, Vo!Pusher
<1>4. /\ vrQueue' \in Seq(FrameOrSession)
      /\ \/ vrQueue' = vrQueue
         \/ /\ buffering /\ ~vrStopped /\ vrRange # 0 /\ Len(vrQueue) \in Nat
            /\ Len(vrQueue') = Len(vrQueue) + 1 /\ vrQueue'[Len(vrQueue) + 1] = decoded
            /\ \A i \in 1..Len(vrQueue) : vrQueue'[i] = vrQueue[i]
            /\ pushing' = pushing /\ decoderPc' = "streaming"
  BY <1>0, <1>1, QueueAppended DEF ScreenTyped
<1>5. ScreenTyped'
  <2>1. vrRange' \in 0..2 /\ decoderPc' \in {"open", "streaming", "closing", "closed"}
    BY <1>0, <1>2 DEF ScreenTyped
  <2> QED BY <1>0, <1>3, <1>4, <2>1 DEF ScreenTyped
<1>6. Placed'
  <2>1. Numbered(decoded)
    BY <1>0 DEF Numbered
  <2>2. \A p \in Vo!Pusher : (posting[p] => pushing'[p] = Vo!NoFrame) /\ Numbered(pushing'[p])
    BY <1>0, <1>3, <2>1 DEF Placed, Vo!Pusher
  <2>3. ~buffering => vrQueue' = <<>>
    BY <1>4 DEF Placed
  <2> QED BY <1>0, <1>2, <1>3, <2>2, <2>3 DEF Placed, Vo!Idle, IsFrame, Numbered
<1>7. Events' /\ OneEvent'
  BY <1>0, <1>2, <1>3 DEF Events, OneEvent, Posted, Ending
<1>newest. /\ NotOlder(lastFrame + 1) /\ vrItem.n <= lastFrame + 1
       /\ \A p \in Vo!Pusher : pushing[p].n <= lastFrame + 1
  BY <1>0 DEF Ordered, NotOlder, ScreenTyped, FrameOrSession
<1>8. Ordered'
  <2>1. \A p \in Vo!Pusher : /\ pushing'[p] # Vo!NoFrame => NotOlder(pushing'[p].n)
                         /\ pushing'[p].n <= lastFrame + 1
    BY <1>0, <1>3, <1>newest DEF Ordered, Vo!Pusher
  <2> QED BY <1>0, <1>newest, <2>1 DEF Ordered, NotOlder
<1>9. Queued'
  <2>1. /\ NotOlder(lastFrame + 1) /\ vrItem.n <= lastFrame + 1
        /\ pushing["regulator"].n <= lastFrame + 1
    BY <1>newest DEF Vo!Pusher
  <2>2. CASE vrQueue' = vrQueue
    <3> SUFFICES ASSUME NEW i \in 1..Len(vrQueue)
                 PROVE  vrQueue[i].n <= lastFrame'
      BY <1>0, <1>3, <2>2 DEF Queued, NotOlder
    <3> QED BY <1>0, QueueTyped DEF Queued
  <2>3. CASE vrQueue' # vrQueue
    <3>1. /\ pushing' = pushing /\ Len(vrQueue) \in Nat
          /\ Len(vrQueue') = Len(vrQueue) + 1 /\ vrQueue'[Len(vrQueue) + 1] = decoded
          /\ \A i \in 1..Len(vrQueue) : vrQueue'[i] = vrQueue[i]
      BY <1>4, <2>3
    <3> SUFFICES ASSUME NEW i \in 1..Len(vrQueue')
                 PROVE  /\ vrQueue'[i].n <= lastFrame'
                        /\ vrQueue'[i].n # 0 =>
                             /\ NotOlder(vrQueue'[i].n)
                             /\ pushing["regulator"].n <= vrQueue'[i].n
                             /\ vrItem.n <= vrQueue'[i].n
                             /\ \A j \in i..Len(vrQueue') :
                                  vrQueue'[j].n # 0 => vrQueue'[i].n <= vrQueue'[j].n
      BY <1>0, <3>1 DEF Queued, NotOlder
    <3>2. CASE i = Len(vrQueue) + 1
      BY <1>0, <2>1, <3>1, <3>2 DEF NotOlder
    <3>3. CASE i \in 1..Len(vrQueue)
      <4>1. vrQueue'[i] = vrQueue[i] /\ vrQueue[i].n \in Nat /\ vrQueue[i].n <= lastFrame
        BY <3>1, <3>3, QueueTyped DEF Queued
      <4>2. ASSUME NEW j \in i..Len(vrQueue'), vrQueue'[j].n # 0, vrQueue[i].n # 0
            PROVE  vrQueue[i].n <= vrQueue'[j].n
        <5>1. CASE j = Len(vrQueue) + 1
          BY <1>0, <3>1, <4>1, <5>1
        <5>2. CASE j \in i..Len(vrQueue)
          BY <3>1, <3>3, <4>2, <5>2 DEF Queued
        <5> QED BY <3>1, <3>3, <5>1, <5>2
      <4> QED BY <1>0, <3>3, <4>1, <4>2 DEF Queued, NotOlder
    <3> QED BY <3>1, <3>2, <3>3
  <2> QED BY <2>2, <2>3
<1>10. FirstDirect'
  BY <1>0, <1>3, <1>4 DEF FirstDirect, ScreenTyped
<1>11. SessionsOrdered'
  <2>1. ~buffering => Len(vrQueue) = 0
    BY DEF Placed
  <2>2. LastSession' = IF vrQueue' = vrQueue THEN LastSession ELSE session
    BY <1>0, <1>4 DEF LastSession
  <2> QED BY <1>0, <1>2, <1>3, <1>4, <2>1, <2>2 DEF SessionsOrdered, LastSession, Vo!SessionOfFrame
<1>12. Follows'
  <2>1. CASE vrQueue' = vrQueue
    BY <1>0, <2>1 DEF Follows
  <2>2. CASE vrQueue' # vrQueue
    <3>1. /\ Len(vrQueue) \in Nat /\ Len(vrQueue') = Len(vrQueue) + 1
          /\ vrQueue'[Len(vrQueue) + 1].session = session
          /\ \A i \in 1..Len(vrQueue) : vrQueue'[i] = vrQueue[i]
          /\ LastSession = session
      BY <1>0, <1>4, <2>2 DEF SessionsOrdered
    <3> SUFFICES ASSUME NEW i \in 1..(Len(vrQueue) + 1), vrQueue'[i].n # 0
                 PROVE  vrQueue'[i].session =
                          IF i = 1 THEN screenSession ELSE vrQueue'[i - 1].session
      BY <1>0, <3>1 DEF Follows
    <3>2. CASE i = Len(vrQueue) + 1
      BY <3>1, <3>2 DEF LastSession
    <3>3. CASE i \in 1..Len(vrQueue)
      BY <3>1, <3>3 DEF Follows
    <3> QED BY <3>1, <3>2, <3>3
  <2> QED BY <2>1, <2>2
<1> QED BY <1>5, <1>6, <1>7, <1>8, <1>9, <1>10, <1>11, <1>12

LEMMA DecodeSessionKeeps ==
  ASSUME ScreenInv, Vo!DecodeSession
  PROVE  ScreenInv'
<1> USE DEF ScreenInv
<1>0. /\ decoderPc = "streaming" /\ pushing["decoder"] = Vo!NoFrame
      /\ session' = session + 1 /\ session \in Nat \ {0}
      /\ Vo!SessionOnly(session') \in FrameOrSession /\ Vo!SessionOnly(session').n = 0
      /\ Vo!SessionOnly(session').session = session'
      /\ UNCHANGED <<buffering, lastFrame, vrRange, vrStopped, vrPc, vrItem, pushing,
                     posting, pending, pendingSession, events, windowShown, paused, shown,
                     resume>>
  BY DEF Vo!DecodeSession, Vo!Idle, Vo!window, ScreenTyped, FrameOrSession, Vo!SessionOnly
<1>1. \/ /\ ~buffering /\ screenSession' = session'
         /\ UNCHANGED <<vrQueue, decoderPc>>
      \/ /\ buffering /\ ~vrStopped /\ vrQueue' = Append(vrQueue, Vo!SessionOnly(session'))
         /\ UNCHANGED <<screenSession, decoderPc>>
      \/ /\ buffering /\ vrStopped /\ decoderPc' = "closing"
         /\ UNCHANGED <<screenSession, vrQueue>>
  BY DEF Vo!DecodeSession, Vo!Refused
<1>2. /\ vrQueue' \in Seq(FrameOrSession)
      /\ \/ vrQueue' = vrQueue
         \/ /\ buffering /\ ~vrStopped /\ Len(vrQueue) \in Nat
            /\ Len(vrQueue') = Len(vrQueue) + 1
            /\ vrQueue'[Len(vrQueue) + 1] = Vo!SessionOnly(session')
            /\ \A i \in 1..Len(vrQueue) : vrQueue'[i] = vrQueue[i]
            /\ UNCHANGED <<screenSession, decoderPc>>
  BY <1>0, <1>1, QueueAppended DEF ScreenTyped
<1>3. ~buffering => vrQueue = <<>> /\ Len(vrQueue) = 0 /\ vrQueue' = vrQueue
                    /\ vrPc = "off" /\ vrItem = Vo!NoFrame /\ pushing["regulator"] = Vo!NoFrame
  BY <1>0, <1>1 DEF Placed, IsFrame
<1>4. /\ decoderPc' \in {"streaming", "closing"} /\ screenSession' \in Nat
      /\ buffering => screenSession' = screenSession
  BY <1>0, <1>1 DEF ScreenTyped
<1>5. ScreenTyped'
  BY <1>0, <1>2, <1>4 DEF ScreenTyped
<1>6. Placed'
  BY <1>0, <1>2, <1>3, <1>4 DEF Placed, Vo!Idle, IsFrame, Numbered
<1>7. Events' /\ OneEvent'
  BY <1>0, <1>4 DEF Events, OneEvent, Posted, Ending
<1>8. Ordered'
  BY <1>0 DEF Ordered, NotOlder
<1>9. Queued'
  <2>1. CASE vrQueue' = vrQueue
    BY <1>0, <2>1 DEF Queued, NotOlder
  <2>2. CASE vrQueue' # vrQueue
    <3>1. /\ Len(vrQueue) \in Nat /\ Len(vrQueue') = Len(vrQueue) + 1
          /\ vrQueue'[Len(vrQueue) + 1].n = 0 /\ lastFrame \in Nat
          /\ \A i \in 1..Len(vrQueue) : vrQueue'[i] = vrQueue[i]
      BY <1>0, <1>2, <2>2 DEF ScreenTyped
    <3>2. \A i \in 1..Len(vrQueue') : vrQueue'[i].n # 0 => i \in 1..Len(vrQueue)
      BY <3>1
    <3>3. \A i \in 1..Len(vrQueue') : vrQueue'[i].n <= lastFrame
      BY <3>1, <3>2 DEF Queued
    <3>4. ASSUME NEW i \in 1..Len(vrQueue'), vrQueue'[i].n # 0
          PROVE  /\ NotOlder(vrQueue'[i].n)
                 /\ pushing["regulator"].n <= vrQueue'[i].n /\ vrItem.n <= vrQueue'[i].n
                 /\ \A j \in i..Len(vrQueue') :
                      vrQueue'[j].n # 0 => vrQueue'[i].n <= vrQueue'[j].n
      <4>1. i \in 1..Len(vrQueue) /\ vrQueue'[i] = vrQueue[i]
        BY <3>1, <3>2, <3>4
      <4>2. \A j \in i..Len(vrQueue') :
              vrQueue'[j].n # 0 => j \in i..Len(vrQueue) /\ vrQueue'[j] = vrQueue[j]
        BY <3>1, <4>1
      <4> QED BY <3>4, <4>1, <4>2 DEF Queued
    <3> QED BY <1>0, <3>3, <3>4 DEF Queued, NotOlder
  <2> QED BY <2>1, <2>2
<1>10. FirstDirect'
  BY <1>0, <1>2 DEF FirstDirect, ScreenTyped
<1>11. SessionsOrdered'
  BY <1>0, <1>1, <1>2, <1>3 DEF SessionsOrdered, LastSession, Vo!SessionOfFrame
<1>12. Follows'
  <2>1. CASE vrQueue' = vrQueue
    BY <1>0, <1>3, <1>4, <2>1 DEF Follows
  <2>2. CASE vrQueue' # vrQueue
    <3>1. /\ Len(vrQueue) \in Nat /\ Len(vrQueue') = Len(vrQueue) + 1
          /\ vrQueue'[Len(vrQueue) + 1].n = 0 /\ screenSession' = screenSession
          /\ \A i \in 1..Len(vrQueue) : vrQueue'[i] = vrQueue[i]
      BY <1>0, <1>2, <2>2
    <3>2. \A i \in 1..Len(vrQueue') : vrQueue'[i].n # 0 => i \in 1..Len(vrQueue)
      BY <3>1
    <3> QED BY <3>1, <3>2 DEF Follows
  <2> QED BY <2>1, <2>2
<1> QED BY <1>5, <1>6, <1>7, <1>8, <1>9, <1>10, <1>11, <1>12

(* What ends the stream moves neither a frame nor an event.                *)
LEMMA EndingKeeps ==
  ASSUME ScreenInv, Vo!EndOfStream \/ Vo!Stop \/ Vo!Close
  PROVE  ScreenInv'
<1> USE DEF ScreenInv
<1>0. /\ decoderPc' \in {"closing", "closed"} /\ decoderPc # "open" /\ vrStopped' \in BOOLEAN
      /\ vrStopped => vrStopped'
      /\ UNCHANGED <<buffering, lastFrame, session, vrQueue, vrRange, vrPc, vrItem, pushing,
                     posting, screenSession, pending, pendingSession, events, windowShown,
                     paused, shown, resume>>
  BY DEF Vo!EndOfStream, Vo!Stop, Vo!Close, Vo!regulator, Vo!screenSink, Vo!window, ScreenTyped
<1>1. ScreenTyped'
  BY <1>0 DEF ScreenTyped
<1>2. Placed' /\ Events' /\ OneEvent'
  BY <1>0 DEF Placed, Vo!Idle, IsFrame, Numbered, Events, OneEvent, Posted, Ending
<1>3. Ordered' /\ Queued' /\ FirstDirect'
  BY <1>0 DEF Ordered, Queued, NotOlder, FirstDirect
<1>4. SessionsOrdered' /\ Follows'
  BY <1>0 DEF SessionsOrdered, LastSession, Vo!SessionOfFrame, Follows
<1> QED BY <1>1, <1>2, <1>3, <1>4

-----------------------------------------------------------------------------
(***************************************************************************)
(* The thread of the regulator.                                            *)
(***************************************************************************)
LEMMA PopKeeps ==
  ASSUME ScreenInv, Vo!Pop
  PROVE  ScreenInv'
<1> USE DEF ScreenInv
<1> DEFINE oldest == Head(vrQueue)
<1>0. /\ vrPc = "wait" /\ ~vrStopped /\ buffering /\ vrItem = Vo!NoFrame
      /\ pushing["regulator"] = Vo!NoFrame /\ decoderPc # "open"
      /\ UNCHANGED <<buffering, decoderPc, lastFrame, session, vrRange, vrStopped, pushing,
                     posting, pending, pendingSession, events, windowShown, paused, shown,
                     resume>>
  BY DEF Vo!Pop, Placed, IsFrame, Vo!window
<1>1. /\ vrQueue' \in Seq(FrameOrSession) /\ Len(vrQueue') = Len(vrQueue) - 1
      /\ \A i \in 1..Len(vrQueue') : vrQueue'[i] = vrQueue[i + 1]
      /\ oldest = vrQueue[1] /\ Len(vrQueue) \in Nat \ {0}
      /\ oldest \in FrameOrSession /\ oldest.n \in Nat /\ oldest.session \in Nat
  BY QueuePopped DEF Vo!Pop, FrameOrSession
<1>2. \/ /\ oldest.n = 0 /\ screenSession' = oldest.session
         /\ vrItem' = Vo!NoFrame /\ vrPc' = "wait"
      \/ /\ oldest.n # 0 /\ vrItem' = oldest /\ vrPc' = "delay"
         /\ UNCHANGED screenSession
  BY <1>0 DEF Vo!Pop
<1>3. vrItem'.n = oldest.n /\ (vrItem' # Vo!NoFrame => vrItem' = oldest /\ oldest.n # 0)
  BY <1>2 DEF Vo!NoFrame
<1>4. screenSession' = oldest.session
  <2>1. CASE oldest.n = 0
    BY <1>2, <2>1
  <2>2. CASE oldest.n # 0
    BY <1>1, <1>2, <2>2 DEF Follows
  <2> QED BY <2>1, <2>2
<1>5. ScreenTyped'
  <2>1. Vo!NoFrame \in FrameOrSession
    BY DEF Vo!NoFrame, FrameOrSession
  <2>2. vrItem' \in FrameOrSession
    BY <1>1, <1>2, <2>1
  <2>3. vrPc' \in {"wait", "delay"} /\ screenSession' \in Nat
    BY <1>1, <1>2, <1>4
  <2> QED BY <1>0, <1>1, <2>2, <2>3 DEF ScreenTyped
<1>6. Placed'
  BY <1>0, <1>2, <1>3 DEF Placed, Vo!Idle, IsFrame, Numbered
<1>7. Events' /\ OneEvent'
  BY <1>0 DEF Events, OneEvent, Posted, Ending
<1>8. Ordered'
  <2>1. oldest.n <= lastFrame /\ (oldest.n # 0 => NotOlder(oldest.n))
    BY <1>1 DEF Queued
  <2> QED BY <1>0, <1>1, <1>3, <2>1 DEF Ordered, NotOlder
<1>9. Queued'
  <2> SUFFICES ASSUME NEW i \in 1..Len(vrQueue')
               PROVE  /\ vrQueue'[i].n <= lastFrame
                      /\ vrQueue'[i].n # 0 =>
                           /\ NotOlder(vrQueue'[i].n)
                           /\ pushing["regulator"].n <= vrQueue'[i].n
                           /\ oldest.n <= vrQueue'[i].n
                           /\ \A j \in i..Len(vrQueue') :
                                vrQueue'[j].n # 0 => vrQueue'[i].n <= vrQueue'[j].n
    BY <1>0, <1>3 DEF Queued, NotOlder
  <2>1. i + 1 \in 1..Len(vrQueue) /\ vrQueue'[i] = vrQueue[i + 1] /\ 1 \in 1..Len(vrQueue)
        /\ i + 1 \in 1..Len(vrQueue)
    BY <1>1
  <2>2. \A j \in i..Len(vrQueue') :
          j + 1 \in (i + 1)..Len(vrQueue) /\ vrQueue'[j] = vrQueue[j + 1]
    BY <1>1
  <2>3. vrQueue[i + 1].n # 0 => oldest.n <= vrQueue[i + 1].n
    <3>1. CASE oldest.n = 0
      BY <2>1, <3>1, QueueTyped
    <3>2. CASE oldest.n # 0
      BY <1>1, <2>1, <3>2 DEF Queued
    <3> QED BY <3>1, <3>2
  <2> QED BY <2>1, <2>2, <2>3 DEF Queued
<1>10. FirstDirect'
  BY <1>0, <1>1, <1>2 DEF FirstDirect
<1>11. SessionsOrdered'
  <2>1. LastSession' = LastSession
    <3>1. CASE Len(vrQueue) = 1
      BY <1>1, <1>4, <3>1 DEF LastSession
    <3>2. CASE Len(vrQueue) > 1
      <4>1. /\ Len(vrQueue') \in 1..Len(vrQueue') /\ Len(vrQueue') # 0
            /\ vrQueue'[Len(vrQueue')] = vrQueue[Len(vrQueue)]
        BY <1>1, <3>2
      <4> QED BY <1>1, <3>2, <4>1 DEF LastSession
    <3> QED BY <1>1, <3>1, <3>2
  <2> QED BY <1>0, <1>3, <1>4, <2>1 DEF SessionsOrdered, Vo!SessionOfFrame
<1>12. Follows'
  <2> SUFFICES ASSUME NEW i \in 1..Len(vrQueue'), vrQueue'[i].n # 0
               PROVE  vrQueue'[i].session =
                        IF i = 1 THEN screenSession' ELSE vrQueue'[i - 1].session
    BY DEF Follows
  <2>1. /\ i + 1 \in 1..Len(vrQueue) /\ vrQueue'[i] = vrQueue[i + 1]
        /\ i # 1 => vrQueue'[i - 1] = vrQueue[i]
    BY <1>1
  <2>2. vrQueue[i + 1].session = vrQueue[i].session
    <3>1. i + 1 # 1 /\ i + 1 - 1 = i
      OBVIOUS
    <3> QED BY <2>1, <3>1 DEF Follows
  <2> QED BY <1>1, <1>4, <2>1, <2>2
<1> QED BY <1>5, <1>6, <1>7, <1>8, <1>9, <1>10, <1>11, <1>12

LEMMA ReleaseKeeps ==
  ASSUME ScreenInv, Vo!Release
  PROVE  ScreenInv'
<1> USE DEF ScreenInv
<1>0. /\ vrPc = "delay" /\ vrPc' = "push" /\ vrItem' = Vo!NoFrame /\ vrItem'.n = 0
      /\ pushing' \in [Vo!Pusher -> FrameOrSession] /\ pushing'["regulator"] = vrItem
      /\ pushing'["decoder"] = pushing["decoder"]
      /\ UNCHANGED <<buffering, decoderPc, lastFrame, session, vrQueue, vrRange, vrStopped,
                     posting, screenSession, pending, pendingSession, events, windowShown,
                     paused, shown, resume>>
  BY DEF Vo!Release, Vo!window, ScreenTyped, Vo!Pusher, Vo!NoFrame
<1>1. pushing["regulator"] = Vo!NoFrame /\ ~posting["regulator"] /\ Numbered(vrItem)
  BY <1>0 DEF Placed
<1>2. ScreenTyped'
  BY <1>0 DEF ScreenTyped, FrameOrSession, Vo!NoFrame
<1>3. Placed'
  BY <1>0, <1>1 DEF Placed, Vo!Idle, IsFrame, Numbered, Vo!Pusher, Vo!NoFrame
<1>4. Events' /\ OneEvent'
  BY <1>0 DEF Events, OneEvent, Posted, Ending
<1>5. Ordered'
  BY <1>0 DEF Ordered, NotOlder, Vo!Pusher, ScreenTyped
<1>6. Queued'
  BY <1>0, QueueTyped DEF Queued, NotOlder
<1>7. FirstDirect'
  BY <1>0 DEF FirstDirect
<1>8. SessionsOrdered' /\ Follows'
  BY <1>0 DEF SessionsOrdered, LastSession, Vo!SessionOfFrame, Follows
<1> QED BY <1>2, <1>3, <1>4, <1>5, <1>6, <1>7, <1>8

LEMMA PushedKeeps ==
  ASSUME ScreenInv, Vo!Pushed
  PROVE  ScreenInv'
<1> USE DEF ScreenInv
<1>0. /\ vrPc = "push" /\ vrPc' = "wait" /\ Vo!Idle("regulator")
      /\ UNCHANGED <<buffering, decoderPc, lastFrame, session, vrQueue, vrRange, vrStopped,
                     vrItem, pushing, posting, screenSession, pending, pendingSession, events,
                     windowShown, paused, shown, resume>>
  BY DEF Vo!Pushed, Vo!screenSink, Vo!window
<1>1. ScreenTyped'
  BY <1>0 DEF ScreenTyped
<1>2. Placed'
  BY <1>0 DEF Placed, Vo!Idle, IsFrame, Numbered
<1>3. Events' /\ OneEvent' /\ Ordered' /\ Queued' /\ FirstDirect'
  BY <1>0 DEF Events, OneEvent, Posted, Ending, Ordered, Queued, NotOlder, FirstDirect
<1>4. SessionsOrdered' /\ Follows'
  BY <1>0 DEF SessionsOrdered, LastSession, Vo!SessionOfFrame, Follows
<1> QED BY <1>1, <1>2, <1>3, <1>4

LEMMA FlushKeeps ==
  ASSUME ScreenInv, Vo!Flush
  PROVE  ScreenInv'
<1> USE DEF ScreenInv
<1>0. /\ vrPc \in {"wait", "delay"} /\ vrStopped /\ vrPc' = "ended" /\ vrQueue' = <<>>
      /\ Len(vrQueue') = 0 /\ vrItem' = Vo!NoFrame /\ vrItem'.n = 0 /\ buffering
      /\ UNCHANGED <<buffering, decoderPc, lastFrame, session, vrRange, vrStopped, pushing,
                     posting, screenSession, pending, pendingSession, events, windowShown,
                     paused, shown, resume>>
  BY DEF Vo!Flush, Vo!screenSink, Vo!window, Vo!NoFrame, Placed
<1>1. ScreenTyped'
  <2>1. vrQueue' \in Seq(FrameOrSession)
    BY <1>0, EmptySeq
  <2>2. vrItem' \in FrameOrSession
    BY <1>0 DEF Vo!NoFrame, FrameOrSession
  <2> QED BY <1>0, <2>1, <2>2 DEF ScreenTyped
<1>2. Placed'
  BY <1>0 DEF Placed, Vo!Idle, IsFrame, Numbered
<1>3. Events' /\ OneEvent'
  BY <1>0 DEF Events, OneEvent, Posted, Ending
<1>4. Ordered'
  BY <1>0 DEF Ordered, NotOlder, ScreenTyped
<1>5. Queued' /\ Follows'
  BY <1>0 DEF Queued, Follows
<1>6. FirstDirect'
  BY <1>0 DEF FirstDirect
<1>7. SessionsOrdered'
  BY <1>0 DEF SessionsOrdered, Vo!SessionOfFrame
<1> QED BY <1>1, <1>2, <1>3, <1>4, <1>5, <1>6, <1>7

-----------------------------------------------------------------------------
(***************************************************************************)
(* The push to the screen, by either thread.                               *)
(***************************************************************************)
LEMMA ScreenPushKeeps ==
  ASSUME ScreenInv, NEW p \in Vo!Pusher, Vo!ScreenPush(p)
  PROVE  ScreenInv'
<1> USE DEF ScreenInv
<1>0. /\ pushing[p] # Vo!NoFrame /\ pending' = pushing[p] /\ pendingSession' = screenSession
      /\ posting' = [posting EXCEPT ![p] = (pending = Vo!NoFrame)]
      /\ pushing' \in [Vo!Pusher -> FrameOrSession] /\ pushing'[p] = Vo!NoFrame
      /\ \A q \in Vo!Pusher : q # p => pushing'[q] = pushing[q]
      /\ UNCHANGED <<buffering, decoderPc, lastFrame, session, vrQueue, vrRange, vrStopped,
                     vrPc, vrItem, screenSession, events, windowShown, paused, shown, resume>>
  BY DEF Vo!ScreenPush, Vo!Posts, Vo!regulator, Vo!window, ScreenTyped, Vo!NoFrame, FrameOrSession
<1>1. posting' \in [Vo!Pusher -> BOOLEAN]
  BY <1>0, Zenon DEF ScreenTyped
<1>2. /\ posting'[p] <=> pending = Vo!NoFrame
      /\ \A q \in Vo!Pusher : q # p => (posting'[q] <=> posting[q])
  BY <1>0, Zenon DEF ScreenTyped
<1>3. /\ ~posting[p] /\ Numbered(pushing[p]) /\ decoderPc # "open"
      /\ NotOlder(pushing[p].n) /\ pushing[p].n \in Nat /\ pushing[p] \in FrameOrSession
      /\ p = "regulator" => buffering
  BY <1>0 DEF Placed, Vo!Idle, Ordered, ScreenTyped, FrameOrSession, Vo!Pusher
<1> DEFINE n == pushing[p].n
<1>alone. /\ \A q \in Vo!Pusher : q # p => pushing[q] = Vo!NoFrame
      /\ vrItem = Vo!NoFrame /\ n <= lastFrame
      /\ \A i \in 1..Len(vrQueue) : vrQueue[i].n # 0 => n <= vrQueue[i].n
  <2>1. n <= lastFrame
    BY DEF Ordered
  <2>2. CASE p = "regulator"
    <3>1. vrPc = "push" /\ vrItem = Vo!NoFrame
      BY <1>0, <2>2 DEF Placed, IsFrame
    <3>2. pushing["decoder"] = Vo!NoFrame
      BY <1>0, <1>3, <2>2 DEF FirstDirect
    <3> QED BY <2>1, <2>2, <3>1, <3>2 DEF Queued, Vo!Pusher
  <2>3. CASE p = "decoder" /\ buffering
    BY <1>0, <2>1, <2>3 DEF FirstDirect, Vo!Pusher, ScreenTyped
  <2>4. CASE p = "decoder" /\ ~buffering
    <3>1. vrPc = "off" /\ Len(vrQueue) = 0
      BY <2>4 DEF Placed
    <3> QED BY <2>1, <2>4, <3>1 DEF Placed, IsFrame, Vo!Pusher
  <2> QED BY <2>2, <2>3, <2>4 DEF Vo!Pusher
<1>4. ScreenTyped'
  BY <1>0, <1>1, <1>3 DEF ScreenTyped
<1>5. Placed'
  BY <1>0, <1>2 DEF Placed, Vo!Idle, IsFrame, Numbered, Vo!Pusher
<1>6. Events'
  BY <1>0, <1>3 DEF Events
<1>7. OneEvent'
  BY <1>0, <1>2, <1>3 DEF OneEvent, Posted, Ending, Vo!Pusher
<1>8. Ordered'
  BY <1>0, <1>3, <1>alone DEF Ordered, NotOlder, Vo!NoFrame
<1>9. Queued'
  <2>1. pushing'["regulator"] = Vo!NoFrame /\ Vo!NoFrame.n = 0 /\ pending'.n = n
    BY <1>0, <1>alone DEF Vo!Pusher, Vo!NoFrame
  <2> QED BY <1>0, <1>alone, <2>1, QueueTyped DEF Queued, NotOlder
<1>10. FirstDirect'
  BY <1>0 DEF FirstDirect, Vo!Pusher
<1>11. SessionsOrdered' /\ Follows'
  BY <1>0, <1>3 DEF SessionsOrdered, LastSession, Vo!SessionOfFrame, Follows, FirstDirect, Vo!Pusher
<1> QED BY <1>4, <1>5, <1>6, <1>7, <1>8, <1>9, <1>10, <1>11

LEMMA ScreenPostKeeps ==
  ASSUME ScreenInv, NEW p \in Vo!Pusher, Vo!ScreenPost(p)
  PROVE  ScreenInv'
<1> USE DEF ScreenInv
<1>0. /\ posting[p] /\ posting' = [posting EXCEPT ![p] = FALSE]
      /\ events' = Append(events, "NEW_FRAME")
      /\ UNCHANGED <<buffering, decoderPc, lastFrame, session, vrQueue, vrRange, vrStopped,
                     vrPc, vrItem, pushing, screenSession, pending, pendingSession,
                     windowShown, paused, shown, resume>>
  BY DEF Vo!ScreenPost, Vo!regulator, Vo!window
<1>1. posting' \in [Vo!Pusher -> BOOLEAN]
  BY <1>0, Zenon DEF ScreenTyped
<1>2. ~posting'[p] /\ \A q \in Vo!Pusher : q # p => (posting'[q] <=> posting[q])
  BY <1>0, Zenon DEF ScreenTyped
<1>3. /\ ~Posted /\ pending # Vo!NoFrame /\ decoderPc # "open"
      /\ ~posting'["decoder"] /\ ~posting'["regulator"]
  BY <1>0, <1>2 DEF OneEvent, Placed, Vo!Idle, Vo!Pusher
<1>4. Events' /\ Posted'
  <2>1. /\ events' \in Seq(EventNames) /\ Len(events') = Len(events) + 1
        /\ \A i \in 1..Len(events) : events'[i] = events[i]
        /\ events'[Len(events')] = "NEW_FRAME" /\ Len(events) \in Nat
    BY <1>0, EventAppended DEF EventNames
  <2>2. events' # <<>>
    BY <2>1
  <2>3. \A i \in 1..Len(events) : events[i] # "NEW_FRAME"
    BY <1>3, EmptySeq DEF Events, Posted
  <2>4. \A i \in 1..Len(events') : events'[i] = "NEW_FRAME" => i = Len(events')
    BY <2>1, <2>3
  <2> QED BY <1>0, <1>3, <2>1, <2>2, <2>4 DEF Events, Posted
<1>5. ScreenTyped'
  BY <1>0, <1>1 DEF ScreenTyped
<1>6. Placed'
  BY <1>0, <1>2, <1>3 DEF Placed, Vo!Idle, IsFrame, Numbered, Vo!Pusher
<1>7. OneEvent'
  BY <1>0, <1>3, <1>4 DEF OneEvent
<1>8. Ordered' /\ Queued' /\ FirstDirect'
  BY <1>0 DEF Ordered, Queued, NotOlder, FirstDirect
<1>9. SessionsOrdered' /\ Follows'
  BY <1>0 DEF SessionsOrdered, LastSession, Vo!SessionOfFrame, Follows
<1> QED BY <1>4, <1>5, <1>6, <1>7, <1>8, <1>9

LEMMA ScreenPushFailsKeeps ==
  ASSUME ScreenInv, NEW p \in Vo!Pusher, Vo!ScreenPushFails(p)
  PROVE  ScreenInv'
<1> USE DEF ScreenInv
<1>0. /\ ~Vo!Idle(p) /\ posting' = [posting EXCEPT ![p] = FALSE]
      /\ pushing' \in [Vo!Pusher -> FrameOrSession] /\ pushing'[p] = Vo!NoFrame
      /\ \A q \in Vo!Pusher : q # p => pushing'[q] = pushing[q]
      /\ UNCHANGED <<buffering, lastFrame, session, vrQueue, vrRange, vrItem, screenSession,
                     pending, pendingSession, events, windowShown, paused, shown, resume>>
  BY DEF Vo!ScreenPushFails, Vo!window, ScreenTyped, Vo!NoFrame, FrameOrSession
<1>1. \/ p = "decoder" /\ decoderPc' = "closing" /\ UNCHANGED <<vrStopped, vrPc>>
      \/ p = "regulator" /\ vrStopped' = TRUE /\ vrPc' = "wait" /\ UNCHANGED decoderPc
  BY DEF Vo!ScreenPushFails
<1>2. posting' \in [Vo!Pusher -> BOOLEAN]
  BY <1>0, Zenon DEF ScreenTyped
<1>3. ~posting'[p] /\ \A q \in Vo!Pusher : q # p => (posting'[q] <=> posting[q])
  BY <1>0, Zenon DEF ScreenTyped
<1>4. /\ p = "decoder" => decoderPc # "open"
      /\ p = "regulator" => vrPc = "push" /\ buffering /\ decoderPc # "open"
      /\ Ending' /\ (vrStopped => vrStopped') /\ vrStopped' \in BOOLEAN
      /\ decoderPc' \in {"open", "streaming", "closing", "closed"}
      /\ vrPc' \in {"off", "wait", "delay", "push", "ended"}
  <2>1. CASE p = "decoder"
    BY <1>0, <1>1, <2>1 DEF Placed, Vo!Idle, Ending, ScreenTyped
  <2>2. CASE p = "regulator"
    <3>1. vrPc = "push"
      BY <1>0, <2>2 DEF Placed, Vo!Idle
    <3> QED BY <1>0, <1>1, <2>2, <3>1 DEF Placed, Ending, ScreenTyped
  <2> QED BY <2>1, <2>2 DEF Vo!Pusher
<1>5. ScreenTyped'
  BY <1>0, <1>2, <1>4 DEF ScreenTyped
<1>6. Placed'
  BY <1>0, <1>1, <1>3, <1>4 DEF Placed, Vo!Idle, IsFrame, Numbered, Vo!Pusher
<1>7. Events'
  BY <1>0, <1>1, <1>4 DEF Events
<1>8. OneEvent'
  BY <1>0, <1>3, <1>4 DEF OneEvent, Posted, Vo!Pusher
<1>9. Ordered'
  BY <1>0 DEF Ordered, NotOlder, Vo!Pusher, Vo!NoFrame, ScreenTyped
<1>10. Queued'
  <2>1. pushing'["regulator"].n <= pushing["regulator"].n /\ pushing'["regulator"].n \in Nat
        /\ pushing["regulator"].n \in Nat
    BY <1>0 DEF ScreenTyped, Vo!Pusher, Vo!NoFrame, FrameOrSession
  <2> QED BY <1>0, <2>1, QueueTyped DEF Queued, NotOlder
<1>11. FirstDirect'
  BY <1>0, <1>4 DEF FirstDirect, Vo!Pusher
<1>12. SessionsOrdered' /\ Follows'
  BY <1>0, <1>1, <1>4 DEF SessionsOrdered, LastSession, Vo!SessionOfFrame, Follows, Vo!Pusher
<1> QED BY <1>5, <1>6, <1>7, <1>8, <1>9, <1>10, <1>11, <1>12

-----------------------------------------------------------------------------
(***************************************************************************)
(* The main thread.                                                        *)
(***************************************************************************)
LEMMA OpenWindowKeeps ==
  ASSUME ScreenInv, Vo!OpenWindow
  PROVE  ScreenInv'
<1> USE DEF ScreenInv
<1>0. /\ events # <<>> /\ Head(events) = "OPEN_WINDOW" /\ events' = Tail(events)
      /\ windowShown' = TRUE
      /\ UNCHANGED <<buffering, decoderPc, lastFrame, session, vrQueue, vrRange, vrStopped,
                     vrPc, vrItem, pushing, posting, screenSession, pending, pendingSession,
                     paused, shown, resume>>
  BY DEF Vo!OpenWindow, Vo!regulator, Vo!screenSink
<1>1. /\ events' \in Seq(EventNames) /\ Len(events') = Len(events) - 1
      /\ \A i \in 1..Len(events') : events'[i] = events[i + 1]
      /\ events[1] = "OPEN_WINDOW" /\ Len(events) \in Nat \ {0}
  BY <1>0, EventHandled
<1>2. Events'
  <2>1. ASSUME NEW i \in 1..Len(events'), events'[i] = "NEW_FRAME"
        PROVE  i = Len(events')
    <3>1. i + 1 \in 1..Len(events) /\ events[i + 1] = "NEW_FRAME"
      BY <1>1, <2>1
    <3> QED BY <1>1, <3>1 DEF Events
  <2> QED BY <1>0, <1>1, <2>1 DEF Events
<1>3. Posted' <=> Posted
  <2>1. CASE Len(events) = 1
    BY <1>0, <1>1, <2>1, EmptySeq DEF Posted
  <2>2. CASE Len(events) > 1
    <3>1. events'[Len(events')] = events[Len(events)] /\ events' # <<>>
      BY <1>1, <2>2
    <3> QED BY <1>0, <3>1 DEF Posted
  <2> QED BY <1>1, <2>1, <2>2
<1>4. ScreenTyped'
  BY <1>0 DEF ScreenTyped
<1>5. Placed' /\ OneEvent'
  BY <1>0, <1>3 DEF Placed, Vo!Idle, IsFrame, Numbered, OneEvent, Ending
<1>6. Ordered' /\ Queued' /\ FirstDirect'
  BY <1>0 DEF Ordered, Queued, NotOlder, FirstDirect
<1>7. SessionsOrdered' /\ Follows'
  BY <1>0 DEF SessionsOrdered, LastSession, Vo!SessionOfFrame, Follows
<1> QED BY <1>2, <1>4, <1>5, <1>6, <1>7

(* The frame that is taken is the newest on the window, or kept.           *)
LEMMA NewFrameKeeps ==
  ASSUME ScreenInv, Vo!NewFrame
  PROVE  ScreenInv'
<1> USE DEF ScreenInv
<1>0. /\ events # <<>> /\ Head(events) = "NEW_FRAME" /\ events' = Tail(events)
      /\ pending' = Vo!NoFrame /\ pending'.n = 0
      /\ IF paused THEN resume' = pending.n /\ shown' = shown
         ELSE shown' = pending.n /\ resume' = resume
      /\ UNCHANGED <<buffering, decoderPc, lastFrame, session, vrQueue, vrRange, vrStopped,
                     vrPc, vrItem, pushing, posting, screenSession, pendingSession,
                     windowShown, paused>>
  BY DEF Vo!NewFrame, Vo!Consumed, Vo!ResumeFrame, Vo!regulator, Vo!NoFrame
<1>1. /\ events' \in Seq(EventNames) /\ Len(events') = Len(events) - 1
      /\ events[1] = "NEW_FRAME" /\ Len(events) \in Nat \ {0}
  BY <1>0, EventHandled
<1>2. Len(events) = 1 /\ events' = <<>> /\ Len(events') = 0 /\ Posted
  <2>1. 1 \in 1..Len(events)
    BY <1>1
  <2>2. Len(events) = 1
    BY <1>1, <2>1 DEF Events
  <2>3. Len(events') = 0
    BY <1>1, <2>2
  <2>4. events' = <<>>
    BY <1>1, <2>3, EmptySeq
  <2> QED BY <1>0, <1>1, <2>2, <2>3, <2>4 DEF Posted
<1>3. /\ pending # Vo!NoFrame /\ ~posting["decoder"] /\ ~posting["regulator"]
      /\ pending.n \in Nat \ {0} /\ shown \in Nat /\ resume \in Nat /\ decoderPc # "open"
      /\ shown <= pending.n /\ resume <= pending.n
  BY <1>2 DEF OneEvent, Placed, Numbered, ScreenTyped, FrameOrSession, Events, Ordered
<1>4. /\ shown' \in Nat /\ resume' \in Nat /\ (~paused => resume = 0)
      /\ shown' <= pending.n /\ resume' <= pending.n /\ (resume' # 0 => shown' <= resume')
  BY <1>0, <1>3 DEF Placed, Ordered
<1>5. ScreenTyped'
  BY <1>0, <1>4 DEF ScreenTyped, Vo!NoFrame, FrameOrSession
<1>6. Placed'
  BY <1>0, <1>4 DEF Placed, Vo!Idle, IsFrame, Numbered
<1>7. Events' /\ OneEvent'
  <2>1. \A i \in 1..Len(events') : FALSE
    BY <1>2
  <2>2. Events'
    BY <1>0, <1>1, <1>2, <1>3, <2>1 DEF Events
  <2>3. OneEvent'
    BY <1>0, <1>2, <1>3 DEF OneEvent, Posted
  <2> QED BY <2>2, <2>3
<1>8. \A n \in Nat : NotOlder(n) => shown' <= n /\ resume' <= n /\ pending'.n <= n
  BY <1>0, <1>3, <1>4 DEF NotOlder
<1>9. Ordered'
  BY <1>0, <1>4, <1>8 DEF Ordered, NotOlder, ScreenTyped, FrameOrSession, Vo!Pusher
<1>10. Queued'
  BY <1>0, <1>8, QueueTyped DEF Queued, NotOlder
<1>11. FirstDirect'
  BY <1>0 DEF FirstDirect
<1>12. SessionsOrdered' /\ Follows'
  BY <1>0 DEF SessionsOrdered, LastSession, Vo!SessionOfFrame, Follows
<1> QED BY <1>5, <1>6, <1>7, <1>9, <1>10, <1>11, <1>12

LEMMA SetPausedKeeps ==
  ASSUME ScreenInv, NEW p \in BOOLEAN, Vo!SetPaused(p)
  PROVE  ScreenInv'
<1> USE DEF ScreenInv
<1>0. /\ paused' = p /\ (p \/ paused)
      /\ UNCHANGED <<buffering, decoderPc, lastFrame, session, vrQueue, vrRange, vrStopped,
                     vrPc, vrItem, pushing, posting, screenSession, pending, pendingSession,
                     events, windowShown>>
  BY DEF Vo!SetPaused, Vo!regulator, Vo!screenSink
<1>1. \/ paused /\ resume # 0 /\ shown' = resume /\ resume' = 0
      \/ (~paused \/ resume = 0) /\ shown' = shown /\ resume' = resume
  BY DEF Vo!SetPaused
<1>2. shown \in Nat /\ resume \in Nat /\ (~paused => resume = 0)
  BY DEF ScreenTyped, Placed
<1>3. shown' \in Nat /\ resume' \in Nat /\ (resume' # 0 => paused /\ resume = 0)
  BY <1>1, <1>2
<1>4. resume' = 0
  BY <1>1, <1>2
<1>5. ScreenTyped'
  BY <1>0, <1>3 DEF ScreenTyped
<1>6. Placed'
  BY <1>0, <1>4 DEF Placed, Vo!Idle, IsFrame, Numbered
<1>7. Events' /\ OneEvent'
  BY <1>0 DEF Events, OneEvent, Posted, Ending
<1>8. \A n \in Nat : NotOlder(n) => shown' <= n /\ resume' <= n /\ pending'.n <= n
  BY <1>0, <1>1, <1>2 DEF NotOlder
<1>9. Ordered'
  BY <1>0, <1>1, <1>4, <1>8 DEF Ordered, NotOlder, ScreenTyped, FrameOrSession, Vo!Pusher
<1>10. Queued'
  BY <1>0, <1>8, QueueTyped DEF Queued, NotOlder
<1>11. FirstDirect'
  BY <1>0 DEF FirstDirect
<1>12. SessionsOrdered' /\ Follows'
  BY <1>0 DEF SessionsOrdered, LastSession, Vo!SessionOfFrame, Follows
<1> QED BY <1>5, <1>6, <1>7, <1>9, <1>10, <1>11, <1>12

-----------------------------------------------------------------------------
LEMMA NextScreen == ScreenInv /\ [Vo!Next]_(Vo!voVars) => ScreenInv'
<1> SUFFICES ASSUME ScreenInv, [Vo!Next]_(Vo!voVars) PROVE ScreenInv'
  OBVIOUS
<1>1. CASE UNCHANGED Vo!voVars
  <2> USE DEF ScreenInv, Vo!voVars, Vo!regulator, Vo!screenSink, Vo!window
  <2>1. ScreenTyped' /\ Placed' /\ Events' /\ OneEvent'
    BY <1>1 DEF ScreenTyped, Placed, Vo!Idle, IsFrame, Numbered, Events, OneEvent, Posted, Ending
  <2>2. Ordered' /\ Queued' /\ FirstDirect' /\ SessionsOrdered' /\ Follows'
    BY <1>1 DEF Ordered, Queued, NotOlder, FirstDirect, SessionsOrdered, LastSession,
                Vo!SessionOfFrame, Follows
  <2> QED BY <2>1, <2>2
<1>2. CASE Vo!Next
  <2>1. CASE Vo!Open \/ Vo!DecodeFrame \/ Vo!DecodeSession \/ Vo!EndOfStream \/ Vo!Stop \/ Vo!Close
    BY <2>1, OpenKeeps, DecodeFrameKeeps, DecodeSessionKeeps, EndingKeeps
  <2>2. CASE Vo!Pop \/ Vo!Release \/ Vo!Pushed \/ Vo!Flush
    BY <2>2, PopKeeps, ReleaseKeeps, PushedKeeps, FlushKeeps
  <2>3. CASE \E p \in Vo!Pusher : Vo!ScreenPush(p) \/ Vo!ScreenPost(p) \/ Vo!ScreenPushFails(p)
    BY <2>3, ScreenPushKeeps, ScreenPostKeeps, ScreenPushFailsKeeps
  <2>4. CASE Vo!Main \/ \E p \in BOOLEAN : Vo!SetPaused(p)
    BY <2>4, OpenWindowKeeps, NewFrameKeeps, SetPausedKeeps DEF Vo!Main
  <2> QED BY <1>2, <2>1, <2>2, <2>3, <2>4 DEF Vo!Next, Vo!Decoder, Vo!Regulator, Vo!Pusher
<1> QED BY <1>1, <1>2

(* The invariant holds in every reachable state of every instance.         *)
THEOREM ScreenInvariance == Vo!Spec => []ScreenInv
BY InitScreen, NextScreen, PTL DEF Vo!Spec

(* A frame that waits in the buffer has one event that will take it, unless*)
(* the push failed and the stream ends, and is shown with the session it   *)
(* was encoded in, but for a first frame that overtook the regulator.      *)
THEOREM FramesAreShown == Vo!Spec => []FramesShown
<1>1. ScreenInv => FramesShown
  <2> SUFFICES ASSUME ScreenInv PROVE FramesShown
    OBVIOUS
  <2> USE DEF ScreenInv
  <2>1. /\ DOMAIN events = 1..Len(events) /\ Len(events) \in Nat
        /\ events # <<>> <=> Len(events) # 0
    <3>1. events \in Seq(EventNames)
      BY DEF Events
    <3> QED BY <3>1, EmptySeq
  <2>2. CASE Posted
    <3>1. Vo!Takers = {<<"posted", Len(events)>>}
      <4>1. Len(events) \in 1..Len(events) /\ events[Len(events)] = "NEW_FRAME"
        BY <2>1, <2>2 DEF Posted
      <4>2. \A i \in 1..Len(events) : events[i] = "NEW_FRAME" => i = Len(events)
        BY DEF Events
      <4>3. {q \in Vo!Pusher : posting[q]} = {}
        BY <2>2, Zenon DEF OneEvent, Vo!Pusher
      <4> QED BY <2>1, <4>1, <4>2, <4>3 DEF Vo!Takers
    <3> QED BY <2>2, <3>1
      DEF FramesShown, Vo!FramesShown, Vo!FrameHasItsEvent, OneEvent, SessionsOrdered
  <2>3. CASE ~Posted
    <3>1. {j \in DOMAIN events : events[j] = "NEW_FRAME"} = {}
      <4>1. ASSUME NEW i \in 1..Len(events), events[i] = "NEW_FRAME"
            PROVE  FALSE
        <5>1. i = Len(events)
          BY <4>1 DEF Events
        <5>2. events # <<>>
          BY <2>1
        <5> QED BY <2>3, <4>1, <5>1, <5>2 DEF Posted
      <4> QED BY <2>1, <4>1
    <3>2. Vo!Takers = {<<"posting", p>> : p \in {q \in Vo!Pusher : posting[q]}}
      BY <3>1 DEF Vo!Takers
    <3>3. CASE \E p \in Vo!Pusher : posting[p]
      <4>1. PICK p \in Vo!Pusher : posting[p]
        BY <3>3
      <4>2. \A q \in Vo!Pusher : posting[q] => q = p
        <5>1. ~(posting["decoder"] /\ posting["regulator"])
          BY DEF OneEvent
        <5> QED BY <4>1, <5>1 DEF Vo!Pusher
      <4>3. Vo!Takers = {<<"posting", p>>}
        BY <3>2, <4>1, <4>2
      <4> QED BY <4>1, <4>3
        DEF FramesShown, Vo!FramesShown, Vo!FrameHasItsEvent, OneEvent, SessionsOrdered,
            Vo!Pusher
    <3>4. CASE ~\E p \in Vo!Pusher : posting[p]
      <4>1. Vo!Takers = {}
        BY <3>2, <3>4
      <4>2. pending = Vo!NoFrame \/ Ending
        BY <2>3, <3>4 DEF OneEvent, Vo!Pusher
      <4> QED BY <4>1, <4>2
        DEF FramesShown, Vo!FramesShown, Vo!FrameHasItsEvent, SessionsOrdered, Ending
    <3> QED BY <3>3, <3>4
  <2> QED BY <2>2, <2>3
<1> QED BY <1>1, ScreenInvariance, PTL

(* Neither the delay of the regulator, nor a frame replaced in the buffer, *)
(* nor a pause puts an older frame in the place of a newer one.            *)
THEOREM WindowNeverGoesBack == Vo!Spec => NeverGoesBack
<1> DEFINE Forward ==
             /\ shown' >= shown
             /\ pending # Vo!NoFrame /\ pending' # Vo!NoFrame => pending'.n >= pending.n
<1>1. ScreenInv /\ [Vo!Next]_(Vo!voVars) => [Forward]_(Vo!voVars)
  <2> SUFFICES ASSUME ScreenInv, Vo!Next PROVE Forward
    OBVIOUS
  <2> USE DEF ScreenInv
  <2>0. shown \in Nat /\ pending.n \in Nat
    BY DEF ScreenTyped, FrameOrSession
  <2>1. CASE UNCHANGED <<shown, pending>>
    BY <2>0, <2>1
  <2>2. ASSUME NEW p \in Vo!Pusher, Vo!ScreenPush(p)
        PROVE  Forward
    BY <2>0, <2>2 DEF Vo!ScreenPush, Vo!window, Ordered, NotOlder
  <2>3. CASE Vo!NewFrame
    <3>1. pending # Vo!NoFrame
      <4>1. Head(events) = events[1] /\ Len(events) \in Nat \ {0}
        BY <2>3, EventHandled DEF Vo!NewFrame
      <4> QED BY <2>3, <4>1 DEF Vo!NewFrame, Events, Posted, OneEvent
    <3> QED BY <2>0, <2>3, <3>1 DEF Vo!NewFrame, Vo!Consumed, Ordered
  <2>4. ASSUME NEW p \in BOOLEAN, Vo!SetPaused(p)
        PROVE  Forward
    BY <2>0, <2>4 DEF Vo!SetPaused, Vo!screenSink, Ordered
  <2>5. (Vo!Open \/ Vo!DecodeFrame \/ Vo!DecodeSession \/ Vo!EndOfStream \/ Vo!Stop
         \/ Vo!Close \/ Vo!OpenWindow)
          => UNCHANGED <<shown, pending>>
    BY DEF Vo!Open, Vo!DecodeFrame, Vo!DecodeSession, Vo!EndOfStream, Vo!Stop, Vo!Close,
           Vo!OpenWindow, Vo!window, Vo!screenSink
  <2>6. Vo!Pop \/ Vo!Release \/ Vo!Pushed \/ Vo!Flush => UNCHANGED <<shown, pending>>
    BY DEF Vo!Pop, Vo!Release, Vo!Pushed, Vo!Flush, Vo!window, Vo!screenSink
  <2>7. \A p \in Vo!Pusher :
          Vo!ScreenPost(p) \/ Vo!ScreenPushFails(p) => UNCHANGED <<shown, pending>>
    BY DEF Vo!ScreenPost, Vo!ScreenPushFails, Vo!window
  <2> QED
    BY <2>1, <2>2, <2>3, <2>4, <2>5, <2>6, <2>7
    DEF Vo!Next, Vo!Decoder, Vo!Regulator, Vo!Main, Vo!Pusher
<1>2. Vo!Spec => [][Forward]_(Vo!voVars)
  BY <1>1, ScreenInvariance, PTL DEF Vo!Spec
<1> QED BY <1>2 DEF NeverGoesBack, Vo!NeverGoesBack

-----------------------------------------------------------------------------
(***************************************************************************)
(* The audio regulator.  The samples from the last one heard to the last   *)
(* one received stand in line: those the reader has copied, those in the   *)
(* buffer, those the writer still has to write.  Every step moves samples  *)
(* along the line or takes some out, so that their order is kept whatever  *)
(* the interleaving; what it needs is that neither thread touches the      *)
(* cells of the other.                                                     *)
(***************************************************************************)
(* A set of numbers that is not empty has a least one, and a greatest one  *)
(* when it is bounded.                                                     *)
LEMMA LeastNumber ==
  ASSUME NEW T \in SUBSET Nat, T # {}
  PROVE  \E n \in T : \A m \in T : n <= m
<1> DEFINE Less == {ss \in Nat \X Nat : ss[1] < ss[2]}
<1>1. IsWellFoundedOn(Less, Nat)
  BY NatLessThanWellFounded DEF OpToRel
<1>2. PICK n \in T : \A m \in T : <<m, n>> \notin Less
  <2> HIDE DEF Less
  <2> QED BY <1>1, WFMin
<1>3. \A m \in T : ~(m < n)
  BY <1>2
<1> QED BY <1>3

LEMMA GreatestNumber ==
  ASSUME NEW T \in SUBSET Nat, T # {}, NEW b \in Nat, \A m \in T : m <= b
  PROVE  \E n \in T : \A m \in T : n >= m
<1> DEFINE U == {b - m : m \in T}
<1>1. PICK d \in U : \A e \in U : d <= e
  <2>1. U \in SUBSET Nat
    <3> SUFFICES ASSUME NEW m \in T PROVE b - m \in Nat
      OBVIOUS
    <3> QED BY m <= b
  <2>2. U # {}
    OBVIOUS
  <2> HIDE DEF U
  <2> QED BY <2>1, <2>2, LeastNumber
<1>2. PICK n \in T : d = b - n
  BY <1>1
<1>3. ASSUME NEW m \in T PROVE n >= m
  <2>1. d <= b - m
    BY <1>1
  <2> QED BY <1>2, <2>1
<1> QED BY <1>3

(* A concatenation, item by item.                                          *)
LEMMA Chained ==
  ASSUME NEW p \in Seq(Nat), NEW q \in Seq(Nat)
  PROVE  p \o q = [k \in 1..(Len(p) + Len(q)) |->
                     IF k <= Len(p) THEN p[k] ELSE q[k - Len(p)]]
<1>1. /\ p \o q \in Seq(Nat) /\ Len(p \o q) = Len(p) + Len(q)
      /\ \A i \in 1..(Len(p) + Len(q)) : (p \o q)[i] = IF i <= Len(p) THEN p[i] ELSE q[i - Len(p)]
  BY ConcatProperties, Zenon
<1>2. p \o q = [k \in 1..Len(p \o q) |-> (p \o q)[k]]
  <2> DEFINE r == p \o q
  <2>1. r \in Seq(Nat)
    BY <1>1
  <2> HIDE DEF r
  <2>2. r = [k \in 1..Len(r) |-> r[k]]
    BY <2>1
  <2> QED BY <2>2 DEF r
<1> QED BY <1>1, <1>2

-----------------------------------------------------------------------------
(* The ring, by its cells and its two cursors.                             *)
Filled(h, t) == (Capacity + 1 + h - t) % (Capacity + 1)
Place(t, k) == (t + k) % (Capacity + 1)
Line(c, h, t) == [k \in 1..Filled(h, t) |-> c[Place(t, k - 1)]]

(* The moduli of the ring wrap once at most.                               *)
LEMMA PlaceIs ==
  ASSUME NEW t \in 0..Capacity, NEW k \in 0..Capacity
  PROVE  /\ Place(t, k) = IF t + k <= Capacity THEN t + k ELSE t + k - (Capacity + 1)
         /\ Place(t, k) \in 0..Capacity
<1>1. PICK c \in Nat \ {0} : c = Capacity + 1
  BY AudioAssumption
<1>2. t \in 0..(c - 1) /\ k \in 0..c
  BY <1>1, AudioAssumption
<1>3. (t + k) % c = IF t + k < c THEN t + k ELSE t + k - c
  BY <1>2, PlaceOnce
<1> QED BY <1>1, <1>3, AudioAssumption DEF Place

LEMMA FilledIs ==
  ASSUME NEW h \in 0..Capacity, NEW t \in 0..Capacity
  PROVE  /\ Filled(h, t) = IF h >= t THEN h - t ELSE h - t + Capacity + 1
         /\ Filled(h, t) \in 0..Capacity
<1>1. PICK c \in Nat \ {0} : c = Capacity + 1
  BY AudioAssumption
<1>2. \A x \in Nat : x < 2 * c => x % c = IF x < c THEN x ELSE x - c
  BY ModOnce
<1>3. Filled(h, t) = IF h >= t THEN h - t ELSE h - t + Capacity + 1
  <2>1. PICK x \in Nat : x = Capacity + 1 + h - t
    BY AudioAssumption
  <2>2. x < 2 * c
    BY <1>1, <2>1, AudioAssumption
  <2>3. x % c = IF x < c THEN x ELSE x - c
    BY <1>2, <2>2
  <2> QED BY <1>1, <2>1, <2>3, AudioAssumption DEF Filled
<1>4. Filled(h, t) \in 0..Capacity
  BY <1>3, AudioAssumption
<1> QED BY <1>3, <1>4

(* The room the writer computes is what is not filled.                     *)
LEMMA RoomIs ==
  ASSUME NEW h \in 0..Capacity, NEW t \in 0..Capacity
  PROVE  (Capacity + 1 + t - h - 1) % (Capacity + 1) = Capacity - Filled(h, t)
<1>1. PICK c \in Nat \ {0} : c = Capacity + 1
  BY AudioAssumption
<1>2. \A x \in Nat : x < 2 * c => x % c = IF x < c THEN x ELSE x - c
  BY ModOnce
<1>3. Filled(h, t) = IF h >= t THEN h - t ELSE h - t + Capacity + 1
  BY FilledIs
<1>4. PICK x \in Nat : x = Capacity + 1 + t - h - 1
  BY AudioAssumption
<1>5. x < 2 * c
  BY <1>1, <1>4, AudioAssumption
<1>6. x % c = IF x < c THEN x ELSE x - c
  BY <1>2, <1>5
<1>7. (Capacity + 1 + t - h - 1) % (Capacity + 1) = IF x < c THEN x ELSE x - c
  BY <1>1, <1>4, <1>6
<1> QED BY <1>1, <1>3, <1>4, <1>7, AudioAssumption

LEMMA LineTyped ==
  ASSUME NEW c \in [0..Capacity -> Nat], NEW h \in 0..Capacity, NEW t \in 0..Capacity
  PROVE  /\ Line(c, h, t) \in Seq(Nat)
         /\ Len(Line(c, h, t)) = Filled(h, t)
         /\ DOMAIN Line(c, h, t) = 1..Filled(h, t)
         /\ Filled(h, t) \in Nat
<1>1. Filled(h, t) \in 0..Capacity
  BY FilledIs
<1>2. \A k \in 1..Filled(h, t) : c[Place(t, k - 1)] \in Nat
  <2> SUFFICES ASSUME NEW k \in 1..Filled(h, t) PROVE c[Place(t, k - 1)] \in Nat
    OBVIOUS
  <2>1. PICK j \in 0..Capacity : j = k - 1
    BY <1>1, AudioAssumption
  <2>2. Place(t, j) \in 0..Capacity
    BY PlaceIs
  <2> QED BY <2>1, <2>2
<1>3. PICK n \in Nat : n = Filled(h, t)
  BY <1>1, AudioAssumption
<1>4. Line(c, h, t) = [k \in 1..n |-> c[Place(t, k - 1)]]
  BY <1>3 DEF Line
<1> QED BY <1>2, <1>3, <1>4

(* The cursor of the reader advances: the first ones leave.                *)
LEMMA LineAdvances ==
  ASSUME NEW c, NEW h \in 0..Capacity, NEW t \in 0..Capacity, NEW d \in 0..Filled(h, t)
  PROVE  /\ Place(t, d) \in 0..Capacity
         /\ Filled(h, Place(t, d)) = Filled(h, t) - d
         /\ Line(c, h, Place(t, d)) = SubSeq(Line(c, h, t), d + 1, Filled(h, t))
<1>1. Filled(h, t) \in 0..Capacity /\ d \in 0..Capacity
  BY FilledIs, AudioAssumption
<1>2. Place(t, d) \in 0..Capacity
  BY <1>1, PlaceIs
<1>3. Filled(h, Place(t, d)) = Filled(h, t) - d
  <2>1. Place(t, d) = IF t + d <= Capacity THEN t + d ELSE t + d - (Capacity + 1)
    BY <1>1, PlaceIs
  <2>2. Filled(h, t) = IF h >= t THEN h - t ELSE h - t + Capacity + 1
    BY FilledIs
  <2>3. PICK u \in 0..Capacity : u = Place(t, d)
    BY <1>2
  <2>4. Filled(h, u) = IF h >= u THEN h - u ELSE h - u + Capacity + 1
    BY FilledIs
  <2> QED BY <1>1, <2>1, <2>2, <2>3, <2>4, AudioAssumption
<1>4. \A k \in 1..(Filled(h, t) - d) : Place(Place(t, d), k - 1) = Place(t, d + k - 1)
  <2> SUFFICES ASSUME NEW k \in 1..(Filled(h, t) - d)
               PROVE  Place(Place(t, d), k - 1) = Place(t, d + k - 1)
    OBVIOUS
  <2>1. k - 1 \in 0..Capacity /\ d + k - 1 \in 0..Capacity
    BY <1>1, AudioAssumption
  <2>2. PICK u \in 0..Capacity : u = Place(t, d)
    BY <1>2
  <2>3. PICK i \in 0..Capacity : i = k - 1
    BY <2>1
  <2>4. PICK j \in 0..Capacity : j = d + k - 1
    BY <2>1
  <2>5. Place(u, i) = IF u + i <= Capacity THEN u + i ELSE u + i - (Capacity + 1)
    BY PlaceIs
  <2>6. Place(t, j) = IF t + j <= Capacity THEN t + j ELSE t + j - (Capacity + 1)
    BY PlaceIs
  <2>7. u = IF t + d <= Capacity THEN t + d ELSE t + d - (Capacity + 1)
    BY <1>1, <2>2, PlaceIs
  <2> QED BY <1>1, <2>2, <2>3, <2>4, <2>5, <2>6, <2>7, AudioAssumption
<1>5. Line(c, h, Place(t, d)) = [k \in 1..(Filled(h, t) - d) |-> c[Place(t, d + k - 1)]]
  BY <1>3, <1>4 DEF Line
<1>6. SubSeq(Line(c, h, t), d + 1, Filled(h, t))
        = [k \in 1..(Filled(h, t) - d) |-> Line(c, h, t)[k + (d + 1) - 1]]
  BY <1>1, AudioAssumption
<1>7. \A k \in 1..(Filled(h, t) - d) :
        Line(c, h, t)[k + (d + 1) - 1] = c[Place(t, d + k - 1)]
  <2> SUFFICES ASSUME NEW k \in 1..(Filled(h, t) - d)
               PROVE  Line(c, h, t)[k + (d + 1) - 1] = c[Place(t, d + k - 1)]
    OBVIOUS
  <2>1. PICK m \in 1..Filled(h, t) : m = k + (d + 1) - 1
    BY <1>1, AudioAssumption
  <2>2. Line(c, h, t)[m] = c[Place(t, m - 1)]
    BY DEF Line
  <2>3. m - 1 = d + k - 1
    BY <1>1, <2>1, AudioAssumption
  <2> QED BY <2>1, <2>2, <2>3
<1> QED BY <1>2, <1>3, <1>5, <1>6, <1>7

(* The cursor of the writer advances: what was copied is appended.         *)
LEMMA LineGrows ==
  ASSUME NEW c \in [0..Capacity -> Nat], NEW h \in 0..Capacity, NEW t \in 0..Capacity,
         NEW f \in 0..(Capacity - Filled(h, t))
  PROVE  /\ Place(h, f) \in 0..Capacity
         /\ Filled(Place(h, f), t) = Filled(h, t) + f
         /\ Line(c, Place(h, f), t)
              = Line(c, h, t) \o [k \in 1..f |-> c[Place(h, k - 1)]]
<1>1. Filled(h, t) \in 0..Capacity /\ f \in 0..Capacity
  <2>1. PICK n \in 0..Capacity : n = Filled(h, t)
    BY FilledIs
  <2> QED BY <2>1, AudioAssumption
<1>2. Place(h, f) \in 0..Capacity
  BY <1>1, PlaceIs
<1>0. Filled(h, t) = IF h >= t THEN h - t ELSE h - t + Capacity + 1
  BY FilledIs
<1>3. Filled(Place(h, f), t) = Filled(h, t) + f
  <2>1. Place(h, f) = IF h + f <= Capacity THEN h + f ELSE h + f - (Capacity + 1)
    BY <1>1, PlaceIs
  <2>3. PICK u \in 0..Capacity : u = Place(h, f)
    BY <1>2
  <2>4. Filled(u, t) = IF u >= t THEN u - t ELSE u - t + Capacity + 1
    BY FilledIs
  <2> QED BY <1>0, <1>1, <2>1, <2>3, <2>4, AudioAssumption
<1>4. \A k \in 1..f : Place(h, k - 1) = Place(t, Filled(h, t) + k - 1)
  <2> SUFFICES ASSUME NEW k \in 1..f
               PROVE  Place(h, k - 1) = Place(t, Filled(h, t) + k - 1)
    OBVIOUS
  <2>1. PICK i \in 0..Capacity : i = k - 1
    BY <1>1, AudioAssumption
  <2>2. PICK j \in 0..Capacity : j = Filled(h, t) + k - 1
    BY <1>1, AudioAssumption
  <2>3. Place(h, i) = IF h + i <= Capacity THEN h + i ELSE h + i - (Capacity + 1)
    BY PlaceIs
  <2>4. Place(t, j) = IF t + j <= Capacity THEN t + j ELSE t + j - (Capacity + 1)
    BY PlaceIs
  <2> QED BY <1>0, <1>1, <2>1, <2>2, <2>3, <2>4, AudioAssumption
<1>5. Line(c, Place(h, f), t) = [k \in 1..(Filled(h, t) + f) |-> c[Place(t, k - 1)]]
  BY <1>3 DEF Line
<1> DEFINE old == Line(c, h, t)
           new == [k \in 1..f |-> c[Place(h, k - 1)]]
<1>6. /\ old \in Seq(Nat) /\ Len(old) = Filled(h, t)
      /\ new \in Seq(Nat) /\ Len(new) = f
  <2>1. \A k \in 1..f : c[Place(h, k - 1)] \in Nat
    <3> SUFFICES ASSUME NEW k \in 1..f PROVE c[Place(h, k - 1)] \in Nat
      OBVIOUS
    <3>1. PICK j \in 0..Capacity : j = k - 1
      BY <1>1, AudioAssumption
    <3>2. Place(h, j) \in 0..Capacity
      BY PlaceIs
    <3> QED BY <3>1, <3>2
  <2> QED BY <1>1, <2>1, LineTyped
<1>7. old \o new = [k \in 1..(Filled(h, t) + f) |->
                      IF k <= Filled(h, t) THEN old[k] ELSE new[k - Filled(h, t)]]
  <2> HIDE DEF old, new
  <2>1. PICK n \in Nat : n = Filled(h, t)
    BY LineTyped
  <2>2. PICK p \in Seq(Nat), q \in Seq(Nat) : p = old /\ q = new
    BY <1>6
  <2>3. Len(p) = n /\ Len(q) = f
    BY <1>6, <2>1, <2>2
  <2>4. p \o q = [k \in 1..(Len(p) + Len(q)) |->
                    IF k <= Len(p) THEN p[k] ELSE q[k - Len(p)]]
    BY Chained
  <2>5. p \o q = [k \in 1..(n + f) |-> IF k <= n THEN p[k] ELSE q[k - n]]
    BY <2>3, <2>4, Zenon
  <2> QED BY <2>1, <2>2, <2>5, Zenon
<1>8. ASSUME NEW k \in 1..(Filled(h, t) + f)
      PROVE  c[Place(t, k - 1)]
               = IF k <= Filled(h, t) THEN old[k] ELSE new[k - Filled(h, t)]
  <2>1. CASE k <= Filled(h, t)
    BY <1>1, <2>1 DEF Line
  <2>2. CASE k > Filled(h, t)
    <3>1. PICK m \in 1..f : m = k - Filled(h, t)
      BY <1>1, <2>2, AudioAssumption, SMTT(30)
    <3>2. new[m] = c[Place(t, Filled(h, t) + m - 1)]
      BY <1>4
    <3>3. Filled(h, t) + m - 1 = k - 1
      <4>1. Filled(h, t) \in Nat
        BY <1>1, AudioAssumption
      <4> QED BY <3>1, <4>1
    <3> QED BY <1>1, <2>2, <3>1, <3>2, <3>3, AudioAssumption
  <2> QED BY <1>1, <2>1, <2>2, AudioAssumption
<1> HIDE DEF old, new
<1>9. Line(c, Place(h, f), t) = old \o new
  BY <1>5, <1>7, <1>8
<1> QED BY <1>2, <1>3, <1>9 DEF old, new

(* A cell that is filled is as far from the writer's cursor as there are   *)
(* free ones at least.                                                     *)
LEMMA FilledCell ==
  ASSUME NEW h \in 0..Capacity, NEW t \in 0..Capacity,
         NEW f \in 0..(Capacity - Filled(h, t)), NEW k \in 1..Filled(h, t)
  PROVE  Place(t, k - 1) \in 0..Capacity /\ Filled(Place(t, k - 1), h) >= f
<1>0. Filled(h, t) = IF h >= t THEN h - t ELSE h - t + Capacity + 1
  BY FilledIs
<1>1. Filled(h, t) \in 0..Capacity
  BY FilledIs
<1>2. PICK j \in 0..Capacity : j = k - 1
  BY <1>1, AudioAssumption
<1>3. /\ Place(t, j) = IF t + j <= Capacity THEN t + j ELSE t + j - (Capacity + 1)
      /\ Place(t, j) \in 0..Capacity
  BY PlaceIs
<1>4. PICK i \in 0..Capacity : i = Place(t, j)
  BY <1>3
<1>5. Filled(i, h) = IF i >= h THEN i - h ELSE i - h + Capacity + 1
  BY FilledIs
<1> QED BY <1>0, <1>1, <1>2, <1>3, <1>4, <1>5, AudioAssumption

(* The k-th cell from the cursor of the writer is k - 1 away from it.      *)
LEMMA FreeCell ==
  ASSUME NEW h \in 0..Capacity, NEW k \in 1..Capacity
  PROVE  Place(h, k - 1) \in 0..Capacity /\ Filled(Place(h, k - 1), h) = k - 1
<1>1. PICK j \in 0..Capacity : j = k - 1
  BY AudioAssumption
<1>2. /\ Place(h, j) = IF h + j <= Capacity THEN h + j ELSE h + j - (Capacity + 1)
      /\ Place(h, j) \in 0..Capacity
  BY PlaceIs
<1>3. PICK i \in 0..Capacity : i = Place(h, j)
  BY <1>2
<1>4. Filled(i, h) = IF i >= h THEN i - h ELSE i - h + Capacity + 1
  BY FilledIs
<1> QED BY <1>1, <1>2, <1>3, <1>4, AudioAssumption

Stored(c, h, w, f) ==
  [i \in 0..Capacity |-> IF Filled(i, h) < f THEN w[Filled(i, h) + 1] ELSE c[i]]

(* Copying into the free cells leaves the others.                          *)
LEMMA LineStored ==
  ASSUME NEW c \in [0..Capacity -> Nat], NEW h \in 0..Capacity, NEW t \in 0..Capacity,
         NEW w \in Seq(Nat), NEW f \in 0..(Capacity - Filled(h, t)), f <= Len(w),
         NEW c2, c2 = Stored(c, h, w, f)
  PROVE  /\ c2 \in [0..Capacity -> Nat]
         /\ Line(c2, h, t) = Line(c, h, t)
         /\ \A k \in 1..f : c2[Place(h, k - 1)] = w[k]
<1>a. c2 = [i \in 0..Capacity |-> IF Filled(i, h) < f THEN w[Filled(i, h) + 1] ELSE c[i]]
  BY DEF Stored
<1>0. f \in 0..Capacity
  <2>1. PICK n \in 0..Capacity : n = Filled(h, t)
    BY FilledIs
  <2> QED BY <2>1, AudioAssumption
<1>1. \A i \in 0..Capacity : Filled(i, h) \in 0..Capacity
  BY FilledIs
<1>2. \A i \in 0..Capacity :
        (IF Filled(i, h) < f THEN w[Filled(i, h) + 1] ELSE c[i]) \in Nat
  <2> SUFFICES ASSUME NEW i \in 0..Capacity, NEW n \in 0..Capacity, n = Filled(i, h), n < f
               PROVE  w[n + 1] \in Nat
    BY <1>1
  <2>1. n + 1 \in 1..Len(w)
    <3>1. f \in Nat /\ Len(w) \in Nat /\ n \in Nat
      BY <1>0, AudioAssumption
    <3> QED BY <3>1
  <2> QED BY <2>1
<1>3. c2 \in [0..Capacity -> Nat]
  BY <1>a, <1>2
<1>4. \A k \in 1..Filled(h, t) : c2[Place(t, k - 1)] = c[Place(t, k - 1)]
  <2> SUFFICES ASSUME NEW k \in 1..Filled(h, t)
               PROVE  c2[Place(t, k - 1)] = c[Place(t, k - 1)]
    OBVIOUS
  <2>1. PICK i \in 0..Capacity : i = Place(t, k - 1) /\ Filled(i, h) >= f
    BY FilledCell
  <2>2. ~(Filled(i, h) < f)
    <3>1. PICK n \in 0..Capacity : n = Filled(i, h)
      <4>1. i \in 0..Capacity
        BY <2>1, FilledCell
      <4> QED BY <1>1, <4>1
    <3>2. f \in Int /\ n \in Int
      BY <1>0, AudioAssumption
    <3> QED BY <2>1, <3>1, <3>2
  <2> QED BY <1>a, <2>1, <2>2
<1>5. Line(c2, h, t) = Line(c, h, t)
  BY <1>4 DEF Line
<1>6. ASSUME NEW k \in 1..f PROVE c2[Place(h, k - 1)] = w[k]
  <2>1. f \in 0..Capacity
    BY <1>0
  <2>2. k \in 1..Capacity
    BY <2>1, AudioAssumption
  <2>3. PICK i \in 0..Capacity : i = Place(h, k - 1) /\ Filled(i, h) = k - 1
    BY <2>2, FreeCell
  <2>4. Filled(i, h) < f /\ Filled(i, h) + 1 = k
    BY <2>1, <2>3
  <2> QED BY <1>a, <2>3, <2>4
<1> QED BY <1>3, <1>5, <1>6

-----------------------------------------------------------------------------
(* Samples in their order, silence apart.                                  *)
Rises(q) == \A i \in 1..Len(q) : q[i] # 0 => \A j \in 1..(i - 1) : q[j] < q[i]

Precedes(p, q) == \A i \in 1..Len(p), j \in 1..Len(q) : q[j] # 0 => p[i] < q[j]

ComesAfter(n, q) == \A i \in 1..Len(q) : q[i] # 0 => n < q[i]

Within(q, n) == \A i \in 1..Len(q) : q[i] <= n

(* The line of samples: the last one heard, those the reader has copied    *)
(* and not handed over, those in the buffer, those still to be written,    *)
(* the last one produced.                                                  *)
OrderOf(he, le, bu, co, pr) ==
  /\ Rises(le) /\ Rises(bu) /\ Rises(co)
  /\ ComesAfter(he, le) /\ ComesAfter(he, bu) /\ ComesAfter(he, co)
  /\ Precedes(le, bu) /\ Precedes(le, co) /\ Precedes(bu, co)
  /\ he <= pr /\ Within(le, pr) /\ Within(bu, pr) /\ Within(co, pr)
  /\ \A i \in 1..Len(co) : co[i] # 0

(* Three facts the lemmas below are short of: transitivity, when two       *)
(* sequences are equal, and the items of a part of one.                    *)
LEMMA Between ==
  ASSUME NEW a \in Nat, NEW b \in Nat, NEW c \in Nat, a <= b, b < c
  PROVE  a < c
OBVIOUS

LEMMA SameItems ==
  ASSUME NEW p \in Seq(Nat), NEW q \in Seq(Nat), Len(p) = Len(q),
         \A i \in 1..Len(p) : p[i] = q[i]
  PROVE  p = q
OBVIOUS

LEMMA Suffix ==
  ASSUME NEW q \in Seq(Nat), NEW d \in 0..Len(q)
  PROVE  \E r \in Seq(Nat) :
           /\ r = SubSeq(q, d + 1, Len(q)) /\ Len(r) = Len(q) - d
           /\ \A i \in 1..Len(r) : i + d \in 1..Len(q) /\ r[i] = q[i + d]
<1>1. /\ SubSeq(q, d + 1, Len(q)) \in Seq(Nat)
      /\ Len(SubSeq(q, d + 1, Len(q))) = Len(q) - d
  OBVIOUS
<1>2. \A i \in 1..(Len(q) - d) : i + d \in 1..Len(q) /\ SubSeq(q, d + 1, Len(q))[i] = q[i + d]
  BY SMTT(30)
<1> QED BY <1>1, <1>2

LEMMA Prefix ==
  ASSUME NEW q \in Seq(Nat), NEW d \in 0..Len(q)
  PROVE  \E r \in Seq(Nat) :
           /\ r = SubSeq(q, 1, d) /\ Len(r) = d
           /\ \A i \in 1..d : i \in 1..Len(q) /\ r[i] = q[i]
<1>1. SubSeq(q, 1, d) \in Seq(Nat) /\ Len(SubSeq(q, 1, d)) = d
  OBVIOUS
<1>2. \A i \in 1..d : i \in 1..Len(q) /\ SubSeq(q, 1, d)[i] = q[i]
  OBVIOUS
<1> QED BY <1>1, <1>2

LEMMA Chain ==
  ASSUME NEW p \in Seq(Nat), NEW q \in Seq(Nat)
  PROVE  \E r \in Seq(Nat) :
           /\ r = p \o q /\ Len(r) = Len(p) + Len(q)
           /\ \A i \in 1..Len(p) : r[i] = p[i]
           /\ \A i \in (Len(p) + 1)..(Len(p) + Len(q)) :
                i - Len(p) \in 1..Len(q) /\ r[i] = q[i - Len(p)]
<1>1. /\ p \o q \in Seq(Nat) /\ Len(p \o q) = Len(p) + Len(q)
      /\ \A i \in 1..(Len(p) + Len(q)) : (p \o q)[i] = IF i <= Len(p) THEN p[i] ELSE q[i - Len(p)]
  BY ConcatProperties, Zenon
<1> DEFINE r == p \o q
<1> HIDE DEF r
<1>2. /\ r \in Seq(Nat) /\ Len(r) = Len(p) + Len(q)
      /\ \A i \in 1..(Len(p) + Len(q)) : r[i] = IF i <= Len(p) THEN p[i] ELSE q[i - Len(p)]
  BY <1>1 DEF r
<1>3. \A i \in 1..Len(p) : r[i] = p[i]
  BY <1>2
<1>4. \A i \in (Len(p) + 1)..(Len(p) + Len(q)) : i - Len(p) \in 1..Len(q) /\ r[i] = q[i - Len(p)]
  BY <1>2, SMTT(30)
<1>5. r = p \o q
  BY DEF r
<1> QED BY <1>2, <1>3, <1>4, <1>5

(* The oldest leave.                                                       *)
LEMMA OrderDrops ==
  ASSUME NEW he \in Nat, NEW le \in Seq(Nat), NEW bu \in Seq(Nat), NEW co \in Seq(Nat),
         NEW pr \in Nat, OrderOf(he, le, bu, co, pr), NEW d \in 0..Len(bu)
  PROVE  OrderOf(he, le, SubSeq(bu, d + 1, Len(bu)), co, pr)
<1>1. PICK r \in Seq(Nat) :
        /\ r = SubSeq(bu, d + 1, Len(bu)) /\ Len(r) = Len(bu) - d
        /\ \A i \in 1..Len(r) : i + d \in 1..Len(bu) /\ r[i] = bu[i + d]
  BY Suffix, Zenon
<1>2. Rises(r)
  BY <1>1 DEF OrderOf, Rises
<1>3. ComesAfter(he, r) /\ Precedes(le, r) /\ Precedes(r, co) /\ Within(r, pr)
  BY <1>1 DEF OrderOf, ComesAfter, Precedes, Within
<1> QED BY <1>1, <1>2, <1>3 DEF OrderOf

(* The first of those to be written enter the buffer.                      *)
LEMMA OrderWrites ==
  ASSUME NEW he \in Nat, NEW le \in Seq(Nat), NEW bu \in Seq(Nat), NEW co \in Seq(Nat),
         NEW pr \in Nat, OrderOf(he, le, bu, co, pr), NEW f \in 0..Len(co)
  PROVE  OrderOf(he, le, bu \o SubSeq(co, 1, f), SubSeq(co, f + 1, Len(co)), pr)
<1>1. PICK r \in Seq(Nat) :
        /\ r = SubSeq(co, f + 1, Len(co)) /\ Len(r) = Len(co) - f
        /\ \A i \in 1..Len(r) : i + f \in 1..Len(co) /\ r[i] = co[i + f]
  BY Suffix, Zenon
<1>2. PICK w \in Seq(Nat) :
        /\ w = SubSeq(co, 1, f) /\ Len(w) = f
        /\ \A i \in 1..f : i \in 1..Len(co) /\ w[i] = co[i]
  BY Prefix, Zenon
<1>3. PICK b \in Seq(Nat) :
        /\ b = bu \o w /\ Len(b) = Len(bu) + Len(w)
        /\ \A i \in 1..Len(bu) : b[i] = bu[i]
        /\ \A i \in (Len(bu) + 1)..(Len(bu) + Len(w)) :
             i - Len(bu) \in 1..Len(w) /\ b[i] = w[i - Len(bu)]
  BY Chain, Zenon
<1>4. /\ \A i \in 1..Len(b) :
           \/ i \in 1..Len(bu) /\ b[i] = bu[i]
           \/ i \in (Len(bu) + 1)..(Len(bu) + f) /\ i - Len(bu) \in 1..Len(co)
              /\ i - Len(bu) <= f /\ b[i] = co[i - Len(bu)]
  <2> SUFFICES ASSUME NEW i \in 1..Len(b)
               PROVE  \/ i \in 1..Len(bu) /\ b[i] = bu[i]
                      \/ i \in (Len(bu) + 1)..(Len(bu) + f) /\ i - Len(bu) \in 1..Len(co)
                         /\ i - Len(bu) <= f /\ b[i] = co[i - Len(bu)]
    OBVIOUS
  <2>1. CASE i <= Len(bu)
    BY <1>3, <2>1
  <2>2. CASE i > Len(bu)
    <3>1. i - Len(bu) \in 1..f /\ b[i] = w[i - Len(bu)]
      BY <1>2, <1>3, <2>2
    <3> QED BY <1>2, <1>3, <2>2, <3>1
  <2> QED BY <2>1, <2>2
<1>5. Rises(r) /\ ComesAfter(he, r) /\ Precedes(le, r) /\ Within(r, pr) /\ \A i \in 1..Len(r) : r[i] # 0
  <2>1. Rises(r)
    BY <1>1, SMTT(30) DEF OrderOf, Rises
  <2>2. ComesAfter(he, r) /\ Within(r, pr) /\ \A i \in 1..Len(r) : r[i] # 0
    BY <1>1 DEF OrderOf, ComesAfter, Within
  <2>3. Precedes(le, r)
    BY <1>1 DEF OrderOf, Precedes
  <2> QED BY <2>1, <2>2, <2>3
<1>6. Rises(b)
  <2> SUFFICES ASSUME NEW i \in 1..Len(b), b[i] # 0, NEW j \in 1..(i - 1)
               PROVE  b[j] < b[i]
    BY DEF Rises
  <2>1. j \in 1..Len(b)
    OBVIOUS
  <2>2. CASE i \in 1..Len(bu) /\ b[i] = bu[i]
    BY <1>3, <2>2, SMTT(30) DEF OrderOf, Rises
  <2>3. CASE i \in (Len(bu) + 1)..(Len(bu) + f) /\ i - Len(bu) \in 1..Len(co)
             /\ b[i] = co[i - Len(bu)]
    <3>1. CASE j \in 1..Len(bu)
      BY <1>2, <1>3, <2>3, <3>1 DEF OrderOf, Precedes
    <3>2. CASE j \in (Len(bu) + 1)..(Len(bu) + f)
      <4>1. b[j] = co[j - Len(bu)] /\ j - Len(bu) \in 1..((i - Len(bu)) - 1)
        BY <1>2, <1>3, <2>3, <3>2
      <4> QED BY <2>3, <4>1 DEF OrderOf, Rises
    <3> QED BY <1>4, <2>1, <3>1, <3>2
  <2> QED BY <1>4, <2>2, <2>3
<1>7. ComesAfter(he, b)
  BY <1>4 DEF OrderOf, ComesAfter
<1>8. Precedes(le, b)
  BY <1>4 DEF OrderOf, Precedes
<1>9. Within(b, pr)
  BY <1>4 DEF OrderOf, Within
<1>10. Precedes(b, r)
  <2> SUFFICES ASSUME NEW i \in 1..Len(b), NEW j \in 1..Len(r)
               PROVE  b[i] < r[j]
    BY DEF Precedes
  <2>1. r[j] = co[j + f] /\ j + f \in 1..Len(co) /\ co[j + f] # 0
    BY <1>1 DEF OrderOf
  <2>2. CASE i \in 1..Len(bu) /\ b[i] = bu[i]
    BY <2>1, <2>2 DEF OrderOf, Precedes
  <2>3. CASE i - Len(bu) \in 1..Len(co) /\ i - Len(bu) <= f /\ b[i] = co[i - Len(bu)]
    <3>1. i - Len(bu) \in 1..((j + f) - 1)
      BY <2>3
    <3> QED BY <2>1, <2>3, <3>1 DEF OrderOf, Rises
  <2> QED BY <1>4, <2>2, <2>3
<1> QED
  BY <1>1, <1>2, <1>3, <1>5, <1>6, <1>7, <1>8, <1>9, <1>10 DEF OrderOf

(* Silence enters the buffer.                                              *)
LEMMA OrderSilence ==
  ASSUME NEW he \in Nat, NEW le \in Seq(Nat), NEW bu \in Seq(Nat), NEW co \in Seq(Nat),
         NEW pr \in Nat, OrderOf(he, le, bu, co, pr),
         NEW z \in Seq(Nat), \A i \in 1..Len(z) : z[i] = 0
  PROVE  OrderOf(he, le, bu \o z, co, pr)
<1>1. PICK b \in Seq(Nat) :
        /\ b = bu \o z /\ Len(b) = Len(bu) + Len(z)
        /\ \A i \in 1..Len(bu) : b[i] = bu[i]
        /\ \A i \in (Len(bu) + 1)..(Len(bu) + Len(z)) :
             i - Len(bu) \in 1..Len(z) /\ b[i] = z[i - Len(bu)]
  BY Chain, Zenon
<1>2. \A i \in 1..Len(b) : (i \in 1..Len(bu) /\ b[i] = bu[i]) \/ b[i] = 0
  BY <1>1
<1>3. Rises(b)
  <2> SUFFICES ASSUME NEW i \in 1..Len(b), b[i] # 0, NEW j \in 1..(i - 1)
               PROVE  b[j] < b[i]
    BY DEF Rises
  <2>1. i \in 1..Len(bu) /\ b[i] = bu[i] /\ j \in 1..Len(bu)
    BY <1>2
  <2> QED BY <1>1, <2>1 DEF OrderOf, Rises
<1>4. ComesAfter(he, b) /\ Precedes(le, b) /\ Within(b, pr)
  <2>1. ComesAfter(he, b)
    BY <1>2 DEF OrderOf, ComesAfter
  <2>2. Precedes(le, b)
    BY <1>2 DEF OrderOf, Precedes
  <2>3. Within(b, pr)
    <3> SUFFICES ASSUME NEW i \in 1..Len(b) PROVE b[i] <= pr
      BY DEF Within
    <3>1. \A j \in 1..Len(bu) : bu[j] <= pr
      BY DEF OrderOf, Within
    <3>2. CASE b[i] = 0
      BY <3>2
    <3> QED BY <1>2, <3>1, <3>2
  <2> QED BY <2>1, <2>2, <2>3
<1>5. Precedes(b, co)
  <2> SUFFICES ASSUME NEW i \in 1..Len(b), NEW j \in 1..Len(co), co[j] # 0
               PROVE  b[i] < co[j]
    BY DEF Precedes
  <2>1. co[j] \in Nat
    BY SMTT(30)
  <2>2. \A k \in 1..Len(bu) : bu[k] < co[j]
    BY DEF OrderOf, Precedes
  <2>3. CASE i \in 1..Len(bu) /\ b[i] = bu[i]
    BY <2>2, <2>3
  <2>4. CASE b[i] = 0
    BY <2>1, <2>4, SMTT(30)
  <2> QED BY <1>2, <2>3, <2>4
<1> QED BY <1>1, <1>3, <1>4, <1>5 DEF OrderOf

(* The oldest are taken by the reader.                                     *)
LEMMA OrderTakes ==
  ASSUME NEW he \in Nat, NEW bu \in Seq(Nat), NEW co \in Seq(Nat),
         NEW pr \in Nat, OrderOf(he, <<>>, bu, co, pr), NEW d \in 0..Len(bu)
  PROVE  /\ OrderOf(he, SubSeq(bu, 1, d), SubSeq(bu, d + 1, Len(bu)), co, pr)
         /\ Rises(SubSeq(bu, 1, d)) /\ ComesAfter(he, SubSeq(bu, 1, d))
<1>1. PICK r \in Seq(Nat) :
        /\ r = SubSeq(bu, d + 1, Len(bu)) /\ Len(r) = Len(bu) - d
        /\ \A i \in 1..Len(r) : i + d \in 1..Len(bu) /\ r[i] = bu[i + d]
  BY Suffix, Zenon
<1>2. PICK l \in Seq(Nat) :
        /\ l = SubSeq(bu, 1, d) /\ Len(l) = d
        /\ \A i \in 1..d : i \in 1..Len(bu) /\ l[i] = bu[i]
  BY Prefix, Zenon
<1>3. Rises(r) /\ ComesAfter(he, r) /\ Within(r, pr) /\ Precedes(r, co)
  <2>1. Rises(r)
    BY <1>1 DEF OrderOf, Rises
  <2>2. ComesAfter(he, r) /\ Within(r, pr) /\ Precedes(r, co)
    BY <1>1 DEF OrderOf, ComesAfter, Precedes, Within
  <2> QED BY <2>1, <2>2
<1>4. Rises(l) /\ ComesAfter(he, l) /\ Within(l, pr) /\ Precedes(l, co)
  <2>1. Rises(l)
    BY <1>2 DEF OrderOf, Rises
  <2>2. ComesAfter(he, l) /\ Within(l, pr) /\ Precedes(l, co)
    BY <1>2 DEF OrderOf, ComesAfter, Precedes, Within
  <2> QED BY <2>1, <2>2
<1>5. Precedes(l, r)
  <2> SUFFICES ASSUME NEW i \in 1..d, NEW j \in 1..Len(r), r[j] # 0
               PROVE  l[i] < r[j]
    BY <1>2 DEF Precedes
  <2>1. l[i] = bu[i] /\ r[j] = bu[j + d] /\ j + d \in 1..Len(bu) /\ i \in 1..((j + d) - 1)
    BY <1>1, <1>2
  <2> QED BY <2>1 DEF OrderOf, Rises
<1> QED BY <1>1, <1>2, <1>3, <1>4, <1>5 DEF OrderOf

(* What the reader has taken is heard.                                     *)
LEMMA OrderHears ==
  ASSUME NEW he \in Nat, NEW le \in Seq(Nat), NEW bu \in Seq(Nat), NEW co \in Seq(Nat),
         NEW pr \in Nat, OrderOf(he, le, bu, co, pr),
         NEW n, n = he \/ \E i \in 1..Len(le) : n = le[i]
  PROVE  OrderOf(n, <<>>, bu, co, pr)
<1>1. n <= pr
  BY DEF OrderOf, Within
<1>2. ComesAfter(n, bu) /\ ComesAfter(n, co)
  BY DEF OrderOf, Precedes, ComesAfter
<1>3. /\ Rises(<<>>) /\ ComesAfter(n, <<>>) /\ Precedes(<<>>, bu) /\ Precedes(<<>>, co)
      /\ Within(<<>>, pr)
  BY DEF Rises, ComesAfter, Precedes, Within
<1> QED BY <1>1, <1>2, <1>3 DEF OrderOf

(* A new frame, or the end of one.                                         *)
Fresh(q, a, b) == \A i \in 1..Len(q) : a < q[i] /\ q[i] <= b

LEMMA OrderComes ==
  ASSUME NEW he \in Nat, NEW le \in Seq(Nat), NEW bu \in Seq(Nat), NEW co \in Seq(Nat),
         NEW pr \in Nat, OrderOf(he, le, bu, co, pr), NEW ps \in Nat, pr <= ps,
         NEW n \in Seq(Nat), Rises(n), Fresh(n, pr, ps)
  PROVE  OrderOf(he, le, bu, n, ps)
<1>1. he <= ps /\ Within(le, ps) /\ Within(bu, ps) /\ Within(n, ps)
  BY DEF OrderOf, Within, Fresh
<1>2. ComesAfter(he, n) /\ Precedes(le, n) /\ Precedes(bu, n) /\ \A i \in 1..Len(n) : n[i] # 0
  <2>1. ComesAfter(he, n) /\ \A i \in 1..Len(n) : n[i] # 0
    BY SMTT(30) DEF OrderOf, ComesAfter, Fresh
  <2>2. Precedes(le, n)
    <3> SUFFICES ASSUME NEW i \in 1..Len(le), NEW j \in 1..Len(n)
                 PROVE  le[i] < n[j]
      BY DEF Precedes
    <3>1. le[i] <= pr
      BY DEF OrderOf, Within
    <3>2. pr < n[j]
      BY DEF Fresh
    <3>3. le[i] \in Nat /\ n[j] \in Nat
      BY SMTT(30)
    <3> QED BY <3>1, <3>2, <3>3, Between
  <2>3. Precedes(bu, n)
    <3> SUFFICES ASSUME NEW i \in 1..Len(bu), NEW j \in 1..Len(n)
                 PROVE  bu[i] < n[j]
      BY DEF Precedes
    <3>1. bu[i] <= pr
      BY DEF OrderOf, Within
    <3>2. pr < n[j]
      BY DEF Fresh
    <3>3. bu[i] \in Nat /\ n[j] \in Nat
      OBVIOUS
    <3> QED BY <3>1, <3>2, <3>3, Between
  <2> QED BY <2>1, <2>2, <2>3
<1> QED BY <1>1, <1>2 DEF OrderOf

LEMMA OrderEnds ==
  ASSUME NEW he \in Nat, NEW le \in Seq(Nat), NEW bu \in Seq(Nat), NEW co \in Seq(Nat),
         NEW pr \in Nat, OrderOf(he, le, bu, co, pr)
  PROVE  OrderOf(he, le, bu, <<>>, pr)
BY DEF OrderOf, Rises, ComesAfter, Precedes, Within

-----------------------------------------------------------------------------
(* What is in the buffer, in order.                                        *)
Buffered == Line(cells, head, tail)

(* What the writer is still to write: after the silence, the frame.        *)
Writing == arPc \in {"load", "copy", "publish", "lock", "drop"}

Coming ==
  IF ~Writing THEN <<>> ELSE IF stage = "silence" THEN frame ELSE toWrite

(* What the reader has taken and not handed over.                          *)
Leaving == IF plPc = "after" THEN out ELSE <<>>

AudioTyped ==
  /\ player \in {"closed", "open", "failed", "ended"}
  /\ cells \in [0..Capacity -> Nat] /\ head \in 0..Capacity /\ tail \in 0..Capacity
  /\ mutex \in {"free", "pusher", "puller"} /\ played \in BOOLEAN
  /\ arPc \in {"idle", "load", "copy", "publish", "lock", "drop", "limit", "trim", "refused"}
  /\ stage \in {"silence", "first", "retry", "last"}
  /\ toWrite \in Seq(Nat) /\ frame \in Seq(Nat)
  /\ room \in Nat /\ limit \in Nat /\ produced \in Nat
  /\ plPc \in {"idle", "load", "copy", "publish", "after"}
  /\ wanted \in Nat /\ readable \in Nat /\ out \in Seq(Nat) /\ heard \in Nat

InLine == OrderOf(heard, Leaving, Buffered, Coming, produced)

(* The reader holds the mutex while it reads: what it has copied is still  *)
(* in the buffer.                                                          *)
Reading ==
  /\ mutex = "puller" <=> plPc \in {"load", "copy", "publish"}
  /\ plPc \in {"copy", "publish"} => readable <= Filled(head, tail)
  /\ plPc = "publish" => out = SubSeq(Buffered, 1, readable)
  /\ plPc \in {"idle", "load", "copy"} => out = <<>>

(* The writer has the mutex when it drops, for which it knows how much     *)
(* room there is; the reader can only make more.                           *)
Dropping ==
  /\ mutex = "pusher" <=>
       arPc = "drop" \/ (arPc \in {"load", "copy", "publish"} /\ stage = "retry")
  /\ Writing /\ stage = "silence" =>
       /\ arPc \in {"load", "copy", "publish"}
       /\ \A i \in 1..Len(toWrite) : toWrite[i] = 0
  /\ Len(Coming) <= Capacity
  /\ arPc = "lock" => stage = "first"
  /\ arPc = "drop" => stage = "retry" /\ Len(toWrite) <= Filled(head, tail)
  /\ arPc \in {"copy", "publish"} =>
       /\ room <= Capacity - Filled(head, tail)
       /\ stage = "retry" => room = Capacity - Filled(head, tail)
       /\ stage = "last" => Len(toWrite) <= room
  /\ arPc = "load" /\ stage = "last" => Len(toWrite) <= Capacity - Filled(head, tail)

(* What was copied is where it will be published.                          *)
Copied ==
  arPc = "publish" =>
    \A k \in 1..Ar!Fits : cells[Place(head, k - 1)] = toWrite[k]

Limited ==
  /\ arPc = "trim" => limit <= IF played THEN MaxBuffered ELSE MaxInitial
  /\ arPc = "idle" => Filled(head, tail) <= IF played THEN MaxBuffered ELSE MaxInitial

AudioInv == AudioTyped /\ InLine /\ Reading /\ Dropping /\ Copied /\ Limited

LEMMA LeastOfTwo ==
  ASSUME NEW a \in Nat, NEW b \in Nat
  PROVE  Ar!Min({a, b}) = IF a <= b THEN a ELSE b
<1>1. \E x \in {a, b} : \A y \in {a, b} : x <= y
  OBVIOUS
<1>2. PICK m : m = Ar!Min({a, b})
  OBVIOUS
<1>3. m \in {a, b} /\ \A y \in {a, b} : m <= y
  BY <1>1, <1>2 DEF Ar!Min
<1> QED BY <1>2, <1>3

LEMMA Measured ==
  ASSUME AudioTyped
  PROVE  /\ Ar!Size = Capacity + 1
         /\ Ar!CanRead = Filled(head, tail)
         /\ Ar!Room = Capacity - Filled(head, tail)
         /\ Ar!Fits = IF room <= Len(toWrite) THEN room ELSE Len(toWrite)
         /\ Filled(head, tail) \in 0..Capacity
         /\ Buffered \in Seq(Nat) /\ Len(Buffered) = Filled(head, tail)
         /\ Coming \in Seq(Nat) /\ Leaving \in Seq(Nat)
<1>1. head \in 0..Capacity /\ tail \in 0..Capacity /\ cells \in [0..Capacity -> Nat]
  BY DEF AudioTyped
<1>2. Ar!Size = Capacity + 1
  BY DEF Ar!Size
<1>3. Ar!CanRead = Filled(head, tail)
  BY DEF Ar!CanRead, Ar!Size, Filled
<1>4. Ar!Room = Capacity - Filled(head, tail)
  <2>1. PICK h \in 0..Capacity, t \in 0..Capacity : h = head /\ t = tail
    BY <1>1
  <2>2. (Capacity + 1 + t - h - 1) % (Capacity + 1) = Capacity - Filled(h, t)
    BY RoomIs
  <2> QED BY <2>1, <2>2 DEF Ar!Room, Ar!Size
<1>5. Ar!Fits = IF room <= Len(toWrite) THEN room ELSE Len(toWrite)
  <2>1. PICK a \in Nat, b \in Nat : a = room /\ b = Len(toWrite)
    BY SMTT(30) DEF AudioTyped
  <2>2. Ar!Min({a, b}) = IF a <= b THEN a ELSE b
    BY LeastOfTwo
  <2> QED BY <2>1, <2>2 DEF Ar!Fits
<1>6. /\ Filled(head, tail) \in 0..Capacity
      /\ Buffered \in Seq(Nat) /\ Len(Buffered) = Filled(head, tail)
  <2>1. PICK h \in 0..Capacity, t \in 0..Capacity, c \in [0..Capacity -> Nat] :
          h = head /\ t = tail /\ c = cells
    BY <1>1
  <2>2. Filled(h, t) \in 0..Capacity /\ Line(c, h, t) \in Seq(Nat) /\ Len(Line(c, h, t)) = Filled(h, t)
    BY FilledIs, LineTyped
  <2> QED BY <2>1, <2>2 DEF Buffered
<1>7. Coming \in Seq(Nat) /\ Leaving \in Seq(Nat)
  BY DEF AudioTyped, Coming, Leaving
<1> QED BY <1>2, <1>3, <1>4, <1>5, <1>6, <1>7

LEMMA AudioStarts == Ar!Init => AudioInv
<1> SUFFICES ASSUME Ar!Init PROVE AudioInv
  OBVIOUS
<1> USE AudioAssumption DEF Ar!Init
<1>1. AudioTyped
  <2>1. cells \in [0..Capacity -> Nat] /\ head \in 0..Capacity /\ tail \in 0..Capacity
    OBVIOUS
  <2>2. /\ toWrite \in Seq(Nat) /\ frame \in Seq(Nat) /\ out \in Seq(Nat)
        /\ room \in Nat /\ limit \in Nat /\ produced \in Nat
        /\ wanted \in Nat /\ readable \in Nat /\ heard \in Nat
    OBVIOUS
  <2> QED BY <2>1, <2>2, Zenon DEF AudioTyped
<1>2. Filled(head, tail) = 0 /\ Buffered = <<>> /\ Leaving = <<>> /\ Coming = <<>>
  <2>1. Filled(0, 0) = 0
    BY FilledIs
  <2> QED BY <2>1, <1>1, Measured DEF Leaving, Coming, Writing
<1>3. OrderOf(0, <<>>, <<>>, <<>>, 0)
  BY DEF OrderOf, Rises, ComesAfter, Precedes, Within
<1>4. InLine
  BY <1>2, <1>3 DEF InLine
<1>5. Reading /\ Dropping /\ Copied /\ Limited
  BY <1>2 DEF Reading, Dropping, Copied, Limited, Writing
<1> QED BY <1>1, <1>4, <1>5 DEF AudioInv


(* Steps that leave the buffer and the writer.                             *)
LEMMA OpenKeepsAudio ==
  ASSUME AudioInv, Ar!Open \/ Ar!Close \/ UNCHANGED Ar!arVars
  PROVE  AudioInv'
<1>1. /\ player' \in {player, "open", "failed", "ended"}
      /\ UNCHANGED <<cells, head, tail, mutex, played, arPc, stage, toWrite, frame, room, limit,
                     produced, plPc, wanted, readable, out, heard>>
  BY DEF Ar!Open, Ar!Close, Ar!arVars, Ar!ring, Ar!pusher, Ar!puller
<1>2. Buffered' = Buffered /\ Leaving' = Leaving /\ Coming' = Coming /\ Writing' = Writing
  BY <1>1 DEF Buffered, Leaving, Coming, Writing
<1>3. AudioTyped'
  BY <1>1 DEF AudioInv, AudioTyped
<1>4. InLine'
  BY <1>1, <1>2 DEF AudioInv, InLine
<1>5. Reading' /\ Limited'
  BY <1>1, <1>2 DEF AudioInv, Reading, Limited
<1>6. Dropping' /\ Copied'
  BY <1>1, <1>2 DEF AudioInv, Dropping, Copied, Ar!Fits
<1> QED BY <1>3, <1>4, <1>5, <1>6 DEF AudioInv

(* A frame that is too long keeps its last samples.                        *)
LEMMA FittingIs ==
  ASSUME NEW m \in Nat, NEW p \in Nat
  PROVE  \E r \in Seq(Nat) :
           /\ r = Ar!Fitting([i \in 1..m |-> p + i]) /\ Len(r) <= Capacity /\ Rises(r)
           /\ Fresh(r, p, p + m)
<1>1. PICK s \in Seq(Nat) :
        /\ s = [i \in 1..m |-> p + i] /\ Len(s) = m /\ \A i \in 1..m : s[i] = p + i
  <2> DEFINE r == [i \in 1..m |-> p + i]
  <2>1. r \in Seq(Nat) /\ Len(r) = m /\ \A i \in 1..m : r[i] = p + i
    OBVIOUS
  <2> QED BY <2>1
<1>2. CASE m <= Capacity
  <2>1. Ar!Fitting(s) = s
    BY <1>1, <1>2, AudioAssumption DEF Ar!Fitting
  <2>2. Rises(s) /\ Fresh(s, p, p + m)
    BY <1>1 DEF Rises, Fresh
  <2> QED BY <1>1, <1>2, <2>1, <2>2
<1>3. CASE m > Capacity
  <2>1. PICK d \in 0..Len(s) : d = m - Capacity
    BY <1>1, <1>3, AudioAssumption
  <2>2. Ar!Fitting(s) = SubSeq(s, d + 1, Len(s))
    BY <1>1, <1>3, <2>1, AudioAssumption DEF Ar!Fitting
  <2>3. PICK r \in Seq(Nat) :
          /\ r = SubSeq(s, d + 1, Len(s)) /\ Len(r) = Len(s) - d
          /\ \A i \in 1..Len(r) : i + d \in 1..Len(s) /\ r[i] = s[i + d]
    BY Suffix, Zenon
  <2>4. Len(r) = Capacity /\ \A i \in 1..Len(r) : r[i] = p + i + d /\ i + d <= m
    BY <1>1, <2>1, <2>3, AudioAssumption
  <2>5. /\ r \in Seq(Nat) /\ Len(r) <= Capacity /\ Rises(r)
        /\ Fresh(r, p, p + m)
    BY <1>1, <2>1, <2>4, AudioAssumption DEF Rises, Fresh
  <2> QED BY <1>1, <2>2, <2>3, <2>5
<1>4. m <= Capacity \/ m > Capacity
  BY AudioAssumption
<1> QED BY <1>2, <1>3, <1>4

LEMMA PushKeepsAudio ==
  ASSUME AudioInv, NEW n \in FrameSize, NEW gap \in BOOLEAN, Ar!Push(n, gap)
  PROVE  AudioInv'
<1> USE DEF AudioInv
<1>1. /\ arPc = "idle" /\ arPc' = "load"
      /\ UNCHANGED <<player, cells, head, tail, mutex, played, room, limit, plPc, wanted,
                     readable, out, heard>>
      /\ \/ stage' = "silence" /\ toWrite' = Ar!Silence(Target - Ar!CanRead - n)
            /\ n + Ar!CanRead < Target
         \/ stage' = "first" /\ toWrite' = frame'
  BY DEF Ar!Push, Ar!ring, Ar!puller
<1>2. PICK m \in Nat, p \in Nat :
        /\ p = produced /\ produced' = p + m
        /\ frame' = Ar!Fitting([i \in 1..m |-> p + i])
  <2>1. PICK m \in Ar!Resampled(n) :
          frame' = Ar!Fitting([i \in 1..m |-> produced + i]) /\ produced' = produced + m
    BY DEF Ar!Push
  <2>2. n \in Nat
    BY AudioAssumption
  <2>3. m \in Nat
    BY <2>1, <2>2 DEF Ar!Resampled
  <2>4. produced \in Nat
    BY DEF AudioTyped
  <2> QED BY <2>1, <2>3, <2>4
<1>3. PICK f \in Seq(Nat) :
        /\ f = frame' /\ Len(f) <= Capacity /\ Rises(f)
        /\ Fresh(f, p, p + m)
  BY <1>2, FittingIs, Zenon
<1>4. stage' = "silence" => toWrite' \in Seq(Nat) /\ \A i \in 1..Len(toWrite') : toWrite'[i] = 0
  <2> SUFFICES ASSUME stage' = "silence"
               PROVE  toWrite' \in Seq(Nat) /\ \A i \in 1..Len(toWrite') : toWrite'[i] = 0
    OBVIOUS
  <2>1. PICK k \in Nat : k = Target - Ar!CanRead - n
    <3>1. PICK r \in 0..Capacity : r = Ar!CanRead
      BY Measured
    <3>2. n + r < Target
      BY <1>1, <3>1
    <3> QED BY <3>1, <3>2, AudioAssumption
  <2>2. toWrite' = [i \in 1..k |-> 0]
    BY <1>1, <2>1 DEF Ar!Silence
  <2> QED BY <2>2
<1>5. AudioTyped'
  <2>1. toWrite' \in Seq(Nat)
    BY <1>1, <1>3, <1>4
  <2>2. frame' \in Seq(Nat) /\ produced' \in Nat /\ stage' \in {"silence", "first"}
    BY <1>1, <1>2, <1>3
  <2> QED BY <1>1, <2>1, <2>2 DEF AudioTyped
<1>6. Buffered' = Buffered /\ Leaving' = Leaving /\ Coming' = f /\ Coming = <<>>
  BY <1>1, <1>3 DEF Buffered, Leaving, Coming, Writing
<1>7. InLine'
  <2>1. PICK he \in Nat, le \in Seq(Nat), bu \in Seq(Nat) :
          he = heard /\ le = Leaving /\ bu = Buffered
    BY Measured DEF AudioTyped
  <2>2. OrderOf(he, le, bu, <<>>, p)
    BY <1>2, <1>6, <2>1 DEF InLine
  <2>3. OrderOf(he, le, bu, f, p + m)
    <3>1. PICK ps \in Nat : ps = p + m /\ p <= ps
      OBVIOUS
    <3>2. Rises(f) /\ Fresh(f, p, ps)
      BY <1>3, <3>1
    <3>3. <<>> \in Seq(Nat)
      OBVIOUS
    <3>4. OrderOf(he, le, bu, f, ps)
      BY <2>2, <3>1, <3>2, <3>3, OrderComes
    <3> QED BY <3>1, <3>4
  <2> QED BY <1>1, <1>2, <1>6, <2>1, <2>3 DEF InLine
<1>8. Reading'
  BY <1>1, <1>6 DEF Reading
<1>9. Dropping'
  <2>1. mutex # "pusher"
    BY <1>1 DEF Dropping
  <2>2. Len(Coming') <= Capacity
    BY <1>3, <1>6
  <2> QED BY <1>1, <1>4, <2>1, <2>2 DEF Dropping
<1>10. Copied' /\ Limited'
  BY <1>1 DEF Copied, Limited
<1> QED BY <1>5, <1>7, <1>8, <1>9, <1>10

LEMMA PushFailsKeepsAudio ==
  ASSUME AudioInv, Ar!PushFails
  PROVE  AudioInv'
<1> USE DEF AudioInv
<1>1. /\ arPc = "idle" /\ arPc' = "refused"
      /\ UNCHANGED <<player, cells, head, tail, mutex, played, stage, toWrite, frame, room, limit,
                     produced, plPc, wanted, readable, out, heard>>
  BY DEF Ar!PushFails, Ar!ring, Ar!puller
<1>2. Buffered' = Buffered /\ Leaving' = Leaving /\ Coming' = Coming
  BY <1>1 DEF Buffered, Leaving, Coming, Writing
<1>3. AudioTyped'
  BY <1>1 DEF AudioTyped
<1>4. InLine'
  BY <1>1, <1>2 DEF InLine
<1>5. Reading' /\ Limited' /\ Copied'
  BY <1>1, <1>2 DEF Reading, Limited, Copied
<1>6. Dropping'
  BY <1>1, <1>2 DEF Dropping, Writing
<1> QED BY <1>3, <1>4, <1>5, <1>6

LEMMA LoadKeepsAudio ==
  ASSUME AudioInv, Ar!Load
  PROVE  AudioInv'
<1> USE DEF AudioInv
<1>1. /\ arPc = "load" /\ arPc' = "copy"
      /\ UNCHANGED <<player, cells, head, tail, mutex, played, stage, toWrite, frame, limit,
                     produced, plPc, wanted, readable, out, heard>>
  BY DEF Ar!Load, Ar!ring, Ar!puller
<1>2. room' = Capacity - Filled(head, tail) /\ Filled(head, tail) \in 0..Capacity
  BY Measured DEF Ar!Load
<1>3. Buffered' = Buffered /\ Leaving' = Leaving /\ Coming' = Coming
  BY <1>1 DEF Buffered, Leaving, Coming, Writing
<1>4. AudioTyped'
  <2>1. room' \in Nat
    BY <1>2, AudioAssumption
  <2> QED BY <1>1, <2>1 DEF AudioTyped
<1>5. InLine'
  BY <1>1, <1>3 DEF InLine
<1>6. Reading' /\ Limited' /\ Copied'
  BY <1>1, <1>3 DEF Reading, Limited, Copied
<1>7. Dropping'
  <2>1. room' <= Capacity - Filled(head, tail)
    BY <1>2, AudioAssumption
  <2> QED BY <1>1, <1>2, <1>3, <2>1 DEF Dropping, Writing
<1> QED BY <1>4, <1>5, <1>6, <1>7

LEMMA CopyKeepsAudio ==
  ASSUME AudioInv, Ar!Copy
  PROVE  AudioInv'
<1> USE DEF AudioInv
<1>1. /\ arPc = "copy" /\ arPc' = "publish"
      /\ UNCHANGED <<player, head, tail, mutex, played, stage, toWrite, frame, room, limit,
                     produced, plPc, wanted, readable, out, heard>>
  BY DEF Ar!Copy, Ar!puller
<1>2. PICK c \in [0..Capacity -> Nat], h \in 0..Capacity, t \in 0..Capacity, w \in Seq(Nat) :
        c = cells /\ h = head /\ t = tail /\ w = toWrite
  BY DEF AudioTyped
<1>3. PICK f \in 0..(Capacity - Filled(h, t)) : f = Ar!Fits /\ f <= Len(w)
  <2>1. PICK r \in Nat : r = room /\ r <= Capacity - Filled(h, t)
    BY <1>1, <1>2 DEF AudioTyped, Dropping
  <2>2. Ar!Fits = IF r <= Len(w) THEN r ELSE Len(w)
    BY <1>2, <2>1, Measured
  <2>3. PICK n \in 0..Capacity : n = Filled(h, t)
    BY FilledIs
  <2>4. PICK e \in Nat : e = Len(w)
    OBVIOUS
  <2>5. PICK g \in 0..(Capacity - n) : g = (IF r <= e THEN r ELSE e) /\ g <= e
    BY <2>1, <2>3, AudioAssumption, SMTT(30)
  <2> QED BY <2>2, <2>3, <2>4, <2>5
<1>4. cells' = Stored(c, h, w, f)
  BY <1>2, <1>3 DEF Ar!Copy, Ar!Size, Filled, Stored
<1>5. /\ cells' \in [0..Capacity -> Nat]
      /\ Line(cells', h, t) = Line(c, h, t)
      /\ \A k \in 1..f : cells'[Place(h, k - 1)] = w[k]
  <2>1. PICK c2 : c2 = cells'
    OBVIOUS
  <2>2. c2 = Stored(c, h, w, f)
    BY <1>4, <2>1
  <2>3. /\ c2 \in [0..Capacity -> Nat]
        /\ Line(c2, h, t) = Line(c, h, t)
        /\ \A k \in 1..f : c2[Place(h, k - 1)] = w[k]
    BY <1>3, <2>2, LineStored
  <2> QED BY <2>1, <2>3
<1>6. Buffered' = Buffered /\ Leaving' = Leaving /\ Coming' = Coming
  BY <1>1, <1>2, <1>5 DEF Buffered, Leaving, Coming, Writing
<1>7. AudioTyped'
  BY <1>1, <1>5 DEF AudioTyped
<1>8. InLine'
  BY <1>1, <1>6 DEF InLine
<1>9. Reading' /\ Limited'
  BY <1>1, <1>6 DEF Reading, Limited
<1>10. Dropping'
  BY <1>1, <1>6 DEF Dropping, Writing
<1>11. Copied'
  <2>1. Ar!Fits' = f
    BY <1>1, <1>3 DEF Ar!Fits
  <2> QED BY <1>1, <1>2, <1>5, <2>1 DEF Copied
<1> QED BY <1>7, <1>8, <1>9, <1>10, <1>11


LEMMA PublishKeepsAudio ==
  ASSUME AudioInv, Ar!Publish
  PROVE  AudioInv'
<1> USE DEF AudioInv
<1>1. /\ arPc = "publish"
      /\ UNCHANGED <<player, cells, tail, played, frame, room, limit, produced, plPc, wanted,
                     readable, out, heard>>
  BY DEF Ar!Publish, Ar!puller
<1>2. PICK c \in [0..Capacity -> Nat], h \in 0..Capacity, t \in 0..Capacity, w \in Seq(Nat) :
        c = cells /\ h = head /\ t = tail /\ w = toWrite
  BY DEF AudioTyped
<1>3. PICK f \in 0..(Capacity - Filled(h, t)) :
        /\ f = Ar!Fits /\ f \in 0..Len(w) /\ f <= room
        /\ f < Len(w) => f = room
        /\ Len(w) <= room => f = Len(w)
  <2>1. PICK r \in Nat : r = room /\ r <= Capacity - Filled(h, t)
    BY <1>1, <1>2 DEF AudioTyped, Dropping
  <2>2. Ar!Fits = IF r <= Len(w) THEN r ELSE Len(w)
    BY <1>2, <2>1, Measured
  <2>3. PICK n \in 0..Capacity : n = Filled(h, t)
    BY FilledIs
  <2>4. PICK e \in Nat : e = Len(w)
    OBVIOUS
  <2>5. PICK g \in 0..(Capacity - n) :
          /\ g = (IF r <= e THEN r ELSE e) /\ g \in 0..e /\ g <= r
          /\ g < e => g = r
          /\ e <= r => g = e
    BY <2>1, <2>3, AudioAssumption, SMTT(30)
  <2> QED BY <2>1, <2>2, <2>3, <2>4, <2>5
<1>4. PICK u \in Seq(Nat) :
        /\ u = SubSeq(w, 1, f) /\ Len(u) = f /\ \A i \in 1..f : i \in 1..Len(w) /\ u[i] = w[i]
  BY <1>3, Prefix, Zenon
<1>5. PICK rest \in Seq(Nat) :
        /\ rest = SubSeq(w, f + 1, Len(w)) /\ Len(rest) = Len(w) - f
        /\ \A i \in 1..Len(rest) : i + f \in 1..Len(w) /\ rest[i] = w[i + f]
  BY <1>3, Suffix, Zenon
<1>6. /\ head' \in 0..Capacity
      /\ Filled(head', t) = Filled(h, t) + f
      /\ Buffered' = Buffered \o u
  <2>1. head' = Place(h, f)
    BY <1>2, <1>3 DEF Ar!Publish, Ar!Size, Place
  <2>2. /\ Place(h, f) \in 0..Capacity
        /\ Filled(Place(h, f), t) = Filled(h, t) + f
        /\ Line(c, Place(h, f), t) = Line(c, h, t) \o [k \in 1..f |-> c[Place(h, k - 1)]]
    BY LineGrows
  <2>3. [k \in 1..f |-> c[Place(h, k - 1)]] = u
    <3>1. \A k \in 1..f : c[Place(h, k - 1)] = u[k]
      BY <1>1, <1>2, <1>3, <1>4 DEF Copied
    <3>2. u = [k \in 1..f |-> u[k]]
      BY <1>4
    <3> QED BY <3>1, <3>2
  <2>4. Buffered' = Line(c, head', t) /\ Buffered = Line(c, h, t)
    BY <1>1, <1>2 DEF Buffered
  <2> QED BY <2>1, <2>2, <2>3, <2>4
<1>7. PICK n \in 0..Capacity, n2 \in 0..Capacity :
        /\ n = Filled(head, tail) /\ n2 = Filled(head', tail') /\ n2 = n + f
  <2>1. PICK n \in 0..Capacity : n = Filled(h, t)
    BY FilledIs
  <2>2. n + f \in 0..Capacity
    <3>1. f \in 0..(Capacity - n)
      BY <2>1
    <3> QED BY <3>1, AudioAssumption
  <2> QED BY <1>1, <1>2, <1>6, <2>1, <2>2
<1>8. PICK he \in Nat, le \in Seq(Nat), bu \in Seq(Nat), co \in Seq(Nat), pr \in Nat :
        /\ he = heard /\ le = Leaving /\ bu = Buffered /\ co = Coming /\ pr = produced
        /\ OrderOf(he, le, bu, co, pr) /\ Len(bu) = n
  <2>1. heard \in Nat /\ produced \in Nat
    BY DEF AudioTyped
  <2> QED BY <1>7, <2>1, Measured DEF InLine
<1>9. heard' = he /\ Leaving' = le /\ produced' = pr /\ Buffered' = bu \o u
  BY <1>1, <1>6, <1>8 DEF Leaving
<1>10. Reading' \/ mutex' # mutex
  <2>1. plPc = "publish" => SubSeq(Buffered', 1, readable) = SubSeq(Buffered, 1, readable)
    <3> SUFFICES ASSUME plPc = "publish"
                 PROVE  SubSeq(bu \o u, 1, readable) = SubSeq(bu, 1, readable)
      BY <1>8, <1>9
    <3>1. PICK r \in Nat : r = readable /\ r <= Len(bu)
      BY <1>7, <1>8 DEF Reading, AudioTyped
    <3>2. PICK b \in Seq(Nat) :
            /\ b = bu \o u /\ Len(b) = Len(bu) + Len(u)
            /\ \A i \in 1..Len(bu) : b[i] = bu[i]
            /\ \A i \in (Len(bu) + 1)..(Len(bu) + Len(u)) :
                 i - Len(bu) \in 1..Len(u) /\ b[i] = u[i - Len(bu)]
      BY Chain, Zenon
    <3>3. r \in 0..Len(bu) /\ r \in 0..Len(b)
      BY <3>1, <3>2
    <3>4. PICK p \in Seq(Nat) :
            /\ p = SubSeq(bu, 1, r) /\ Len(p) = r /\ \A i \in 1..r : i \in 1..Len(bu) /\ p[i] = bu[i]
      BY <3>3, Prefix, Zenon
    <3>5. PICK q \in Seq(Nat) :
            /\ q = SubSeq(b, 1, r) /\ Len(q) = r /\ \A i \in 1..r : i \in 1..Len(b) /\ q[i] = b[i]
      BY <3>3, Prefix, Zenon
    <3>6. p = q
      <4>1. \A i \in 1..r : p[i] = q[i]
        BY <3>2, <3>4, <3>5
      <4> QED BY <3>4, <3>5, <4>1, SameItems, SMTT(30)
    <3> QED BY <3>1, <3>2, <3>4, <3>5, <3>6
  <2>2. readable <= n => readable <= n2
    <3>1. readable \in Nat
      BY DEF AudioTyped
    <3> QED BY <1>3, <1>7, <3>1, AudioAssumption
  <2> QED BY <1>1, <1>7, <2>1, <2>2 DEF Reading
<1>11. Copied' \/ arPc' = "publish"
  BY DEF Copied
<1>12. Limited' \/ arPc' \in {"trim", "idle"}
  BY DEF Limited
<1>13. CASE stage = "silence"
  <2>1. /\ stage' = "first" /\ toWrite' = frame /\ arPc' = "load" /\ mutex' = mutex
    BY <1>13 DEF Ar!Publish
  <2>2. AudioTyped'
    BY <1>1, <1>6, <2>1 DEF AudioTyped
  <2>3. Coming = frame /\ Coming' = frame
    BY <1>1, <1>13, <2>1 DEF Coming, Writing
  <2>4. InLine'
    <3>1. \A i \in 1..Len(u) : u[i] = 0
      BY <1>1, <1>2, <1>4, <1>13 DEF Dropping, Writing
    <3>2. OrderOf(he, le, bu \o u, co, pr)
      BY <1>8, <3>1, OrderSilence
    <3> QED BY <1>8, <1>9, <2>3, <3>2 DEF InLine
  <2>5. Dropping'
    BY <1>1, <1>13, <2>1, <2>3 DEF Dropping, Writing
  <2> QED BY <1>10, <1>11, <1>12, <2>1, <2>2, <2>4, <2>5
<1>14. CASE stage # "silence"
  <2>0. co = w /\ OrderOf(he, le, bu \o u, rest, pr)
    <3>1. co = w
      BY <1>1, <1>2, <1>8, <1>14 DEF Coming, Writing
    <3> QED BY <1>3, <1>4, <1>5, <1>8, <3>1, OrderWrites
  <2>1. Len(w) <= Capacity
    BY <1>8, <2>0 DEF Dropping
  <2>2. CASE rest = <<>>
    <3>1. /\ stage' = stage /\ toWrite' = <<>> /\ arPc' = "limit"
          /\ mutex' = (IF stage = "retry" THEN "free" ELSE mutex)
      BY <1>2, <1>3, <1>5, <1>14, <2>2 DEF Ar!Publish
    <3>2. AudioTyped'
      <4>1. toWrite' \in Seq(Nat)
        BY <3>1
      <4> QED BY <1>1, <1>6, <3>1, <4>1 DEF AudioTyped
    <3>3. Coming' = rest
      BY <2>2, <3>1 DEF Coming, Writing
    <3>4. InLine'
      BY <1>9, <2>0, <3>3 DEF InLine
    <3>5. Dropping'
      <4>1. mutex' # "pusher"
        BY <1>1, <3>1 DEF Dropping
      <4>2. Len(Coming') <= Capacity
        BY <2>2, <3>3, AudioAssumption
      <4> QED BY <3>1, <4>1, <4>2 DEF Dropping, Writing
    <3>6. Reading'
      <4>1. CASE stage = "retry"
        <5>1. mutex = "pusher" /\ mutex' = "free"
          BY <1>1, <3>1, <4>1 DEF Dropping
        <5>2. plPc \in {"idle", "after"}
          BY <5>1 DEF Reading, AudioTyped
        <5> QED BY <1>1, <5>1, <5>2 DEF Reading
      <4> QED BY <1>10, <3>1, <4>1
    <3> QED BY <1>11, <1>12, <3>1, <3>2, <3>4, <3>5, <3>6
  <2>3. CASE rest # <<>>
    <3>1. f < Len(w) /\ f = room
      <4>1. Len(rest) # 0
        BY <2>3
      <4>2. f \in Nat /\ Len(w) \in Nat
        BY <1>3
      <4>3. f < Len(w)
        <5>1. f <= Len(w) /\ Len(w) - f # 0
          BY <1>3, <1>5, <4>1
        <5> QED BY <4>2, <5>1
      <4> QED BY <1>3, <4>3
    <3>2. /\ stage' = stage /\ toWrite' = rest /\ mutex' = mutex
          /\ arPc' = (CASE stage = "first" -> "lock"
                        [] stage = "retry" -> "drop"
                        [] OTHER -> "assert")
      BY <1>2, <1>3, <1>5, <1>14, <2>3 DEF Ar!Publish
    <3>3. stage \in {"first", "retry"}
      <4>1. stage # "last"
        <5>1. ASSUME stage = "last" PROVE FALSE
          <6>1. Len(w) <= room
            BY <1>1, <1>2, <5>1 DEF Dropping
          <6>2. f \in Nat /\ Len(w) \in Nat
            BY <1>3
          <6> QED BY <1>3, <3>1, <6>1, <6>2
        <5> QED BY <5>1
      <4> QED BY <1>14, <4>1 DEF AudioTyped
    <3>4. arPc' = IF stage = "first" THEN "lock" ELSE "drop"
      BY <3>2, <3>3
    <3>5. AudioTyped'
      BY <1>1, <1>6, <3>2, <3>4 DEF AudioTyped
    <3>6. Coming' = rest
      BY <1>14, <3>2, <3>4 DEF Coming, Writing
    <3>7. InLine'
      BY <1>9, <2>0, <3>6 DEF InLine
    <3>8. Len(rest) <= Capacity
      <4>1. f \in Nat /\ Len(w) \in Nat
        BY <1>3
      <4> QED BY <1>5, <2>1, <4>1, AudioAssumption
    <3>9. stage = "retry" => Len(rest) <= n2
      <4> SUFFICES ASSUME stage = "retry" PROVE n2 = Capacity
        BY <3>8
      <4>1. f = Capacity - n
        BY <1>1, <1>7, <3>1 DEF Dropping
      <4> QED BY <1>7, <4>1, AudioAssumption
    <3>10. Dropping'
      BY <1>1, <1>7, <1>14, <3>2, <3>3, <3>4, <3>6, <3>8, <3>9 DEF Dropping, Writing
    <3> QED BY <1>10, <1>11, <1>12, <3>2, <3>4, <3>5, <3>7, <3>10
  <2> QED BY <2>2, <2>3
<1> QED BY <1>13, <1>14


LEMMA LockKeepsAudio ==
  ASSUME AudioInv, Ar!Lock
  PROVE  AudioInv'
<1> USE DEF AudioInv
<1>1. /\ arPc = "lock" /\ arPc' = "load" /\ mutex = "free" /\ mutex' = "pusher"
      /\ stage' = "retry"
      /\ UNCHANGED <<player, cells, head, tail, played, toWrite, frame, room, limit,
                     produced, plPc, wanted, readable, out, heard>>
  BY DEF Ar!Lock, Ar!MayDrop, Ar!ring, Ar!puller
<1>2. Buffered' = Buffered /\ Leaving' = Leaving /\ Coming' = Coming
  BY <1>1 DEF Buffered, Leaving, Coming, Writing, Dropping
<1>3. AudioTyped'
  BY <1>1 DEF AudioTyped
<1>4. InLine'
  BY <1>1, <1>2 DEF InLine
<1>5. Reading' /\ Limited' /\ Copied'
  BY <1>1, <1>2 DEF Reading, Limited, Copied
<1>6. Dropping'
  BY <1>1, <1>2 DEF Dropping, Writing
<1> QED BY <1>3, <1>4, <1>5, <1>6

(* The cursor of the reader advances, and the oldest leave the buffer.     *)
LEMMA TailAdvances ==
  ASSUME AudioTyped, NEW d \in 0..Filled(head, tail),
         tail' = Place(tail, d), UNCHANGED <<cells, head>>
  PROVE  /\ tail' \in 0..Capacity
         /\ Filled(head', tail') = Filled(head, tail) - d
         /\ Buffered' = SubSeq(Buffered, d + 1, Len(Buffered))
<1>1. PICK c \in [0..Capacity -> Nat], h \in 0..Capacity, t \in 0..Capacity :
        c = cells /\ h = head /\ t = tail
  BY DEF AudioTyped
<1>2. d \in 0..Filled(h, t)
  BY <1>1
<1>3. /\ Place(t, d) \in 0..Capacity
      /\ Filled(h, Place(t, d)) = Filled(h, t) - d
      /\ Line(c, h, Place(t, d)) = SubSeq(Line(c, h, t), d + 1, Filled(h, t))
  BY <1>2, LineAdvances
<1>4. Len(Buffered) = Filled(h, t)
  BY <1>1, Measured
<1> QED BY <1>1, <1>3, <1>4 DEF Buffered

(* A step of the writer that only drops samples, with the mutex.           *)
LEMMA LineDrops ==
  ASSUME AudioTyped, InLine, NEW d \in 0..Filled(head, tail),
         tail' = Place(tail, d), Coming' = Coming,
         UNCHANGED <<cells, head, heard, produced, plPc, out>>
  PROVE  InLine'
<1>1. PICK he \in Nat, le \in Seq(Nat), bu \in Seq(Nat), co \in Seq(Nat), pr \in Nat :
        /\ he = heard /\ le = Leaving /\ bu = Buffered /\ co = Coming /\ pr = produced
        /\ OrderOf(he, le, bu, co, pr) /\ Len(bu) = Filled(head, tail)
  <2>1. heard \in Nat /\ produced \in Nat
    BY DEF AudioTyped
  <2> QED BY <2>1, Measured DEF InLine
<1>2. d \in 0..Len(bu)
  BY <1>1
<1>3. OrderOf(he, le, SubSeq(bu, d + 1, Len(bu)), co, pr)
  BY <1>1, <1>2, OrderDrops
<1>4. Buffered' = SubSeq(bu, d + 1, Len(bu)) /\ Leaving' = le
  BY <1>1, TailAdvances DEF Leaving
<1> QED BY <1>1, <1>3, <1>4 DEF InLine

LEMMA DropKeepsAudio ==
  ASSUME AudioInv, Ar!Drop
  PROVE  AudioInv'
<1> USE DEF AudioInv
<1>1. /\ arPc = "drop" /\ mutex' = "free" /\ stage' = "last"
      /\ UNCHANGED <<player, cells, head, played, toWrite, frame, room, limit, produced,
                     plPc, wanted, readable, out, heard>>
  BY DEF Ar!Drop, Ar!puller
<1>2. PICK n \in 0..Capacity, d \in Nat :
        n = Filled(head, tail) /\ d = Len(toWrite) /\ n = Ar!CanRead /\ d <= n
  <2>1. PICK n \in 0..Capacity : n = Filled(head, tail) /\ n = Ar!CanRead
    BY Measured
  <2>2. Len(toWrite) \in Nat /\ Len(toWrite) <= n
    BY <1>1, <2>1 DEF Dropping, AudioTyped
  <2> QED BY <2>1, <2>2
<1>3. tail' = Place(tail, d) /\ arPc' = "load"
  <2>1. Ar!Min({n, d}) = d
    BY <1>2, LeastOfTwo
  <2> QED BY <1>1, <1>2, <2>1 DEF Ar!Drop, Ar!Size, Place
<1>4. /\ d \in 0..Filled(head, tail)
      /\ tail' \in 0..Capacity /\ Filled(head', tail') = n - d
  <2>1. d \in 0..n
    BY <1>2
  <2> QED BY <1>1, <1>2, <1>3, <2>1, TailAdvances
<1>5. Coming' = Coming /\ Coming = toWrite
  BY <1>1, <1>3 DEF Coming, Writing, Dropping
<1>6. AudioTyped'
  BY <1>1, <1>3, <1>4 DEF AudioTyped
<1>7. InLine'
  BY <1>1, <1>2, <1>3, <1>4, <1>5, LineDrops
<1>8. mutex = "pusher" /\ plPc \in {"idle", "after"}
  BY <1>1 DEF Dropping, Reading, AudioTyped
<1>9. Reading'
  BY <1>1, <1>8 DEF Reading
<1>10. Dropping'
  <2>1. Len(toWrite) <= Capacity - (n - d)
    BY <1>2, AudioAssumption
  <2> QED BY <1>1, <1>3, <1>4, <1>5, <2>1 DEF Dropping, Writing
<1>11. Copied' /\ Limited'
  BY <1>3 DEF Copied, Limited
<1> QED BY <1>6, <1>7, <1>9, <1>10, <1>11

LEMMA ReadPlayedKeepsAudio ==
  ASSUME AudioInv, Ar!ReadPlayed
  PROVE  AudioInv'
<1> USE DEF AudioInv
<1>1. /\ arPc = "limit" /\ arPc' = "trim"
      /\ limit' = IF played THEN MaxBuffered ELSE MaxInitial
      /\ UNCHANGED <<player, cells, head, tail, mutex, played, stage, toWrite, frame, room,
                     produced, plPc, wanted, readable, out, heard>>
  BY DEF Ar!ReadPlayed, Ar!Limit, Ar!ring, Ar!puller
<1>2. Buffered' = Buffered /\ Leaving' = Leaving /\ Coming' = Coming
  BY <1>1 DEF Buffered, Leaving, Coming, Writing
<1>3. AudioTyped'
  BY <1>1, AudioAssumption DEF AudioTyped
<1>4. InLine'
  BY <1>1, <1>2 DEF InLine
<1>5. Reading' /\ Copied'
  BY <1>1, <1>2 DEF Reading, Copied
<1>6. Limited'
  BY <1>1, <1>3 DEF Limited, AudioTyped
<1>7. Dropping'
  BY <1>1, <1>2 DEF Dropping, Writing
<1> QED BY <1>3, <1>4, <1>5, <1>6, <1>7

LEMMA TrimKeepsAudio ==
  ASSUME AudioInv, Ar!Trim
  PROVE  AudioInv'
<1> USE DEF AudioInv
<1>1. /\ arPc = "trim" /\ arPc' = "idle"
      /\ UNCHANGED <<player, cells, head, mutex, played, stage, toWrite, frame, room, limit,
                     produced, plPc, wanted, readable, out, heard>>
  BY DEF Ar!Trim, Ar!puller
<1>2. PICK n \in 0..Capacity, l \in Nat :
        n = Filled(head, tail) /\ l = limit /\ n = Ar!CanRead
  BY Measured DEF AudioTyped
<1>3. Coming = <<>> /\ Coming' = <<>>
  BY <1>1 DEF Coming, Writing
<1>4. Dropping'
  BY <1>1, <1>3, AudioAssumption DEF Dropping, Writing
<1>5. Copied'
  BY <1>1 DEF Copied
<1>6. CASE n <= l /\ tail' = tail
  <2>1. Buffered' = Buffered /\ Leaving' = Leaving
    BY <1>1, <1>6 DEF Buffered, Leaving
  <2>2. AudioTyped'
    BY <1>1, <1>6 DEF AudioTyped
  <2>3. InLine'
    BY <1>1, <1>3, <2>1 DEF InLine
  <2>4. Reading'
    BY <1>1, <1>6, <2>1 DEF Reading
  <2>5. Limited'
    <3>1. PICK b \in Nat : b = (IF played THEN MaxBuffered ELSE MaxInitial) /\ l <= b
      BY <1>1, <1>2, AudioAssumption DEF Limited, AudioTyped
    <3>2. n <= b
      BY <1>2, <1>6, <3>1
    <3> QED BY <1>1, <1>2, <1>6, <3>1, <3>2 DEF Limited
  <2> QED BY <1>4, <1>5, <2>2, <2>3, <2>4, <2>5
<1>7. CASE n > l /\ mutex = "free" /\ tail' = (tail + n - l) % (Capacity + 1)
  <2>1. PICK d \in 0..n : d = n - l
    BY <1>7
  <2>2. tail' = Place(tail, d)
    <3>1. tail \in Int
      BY DEF AudioTyped
    <3>2. tail + n - l = tail + d
      BY <2>1, <3>1
    <3> QED BY <1>7, <3>2 DEF Place
  <2>3. tail' \in 0..Capacity /\ Filled(head', tail') = n - d
    BY <1>1, <1>2, <2>2, TailAdvances
  <2>4. AudioTyped'
    BY <1>1, <2>3 DEF AudioTyped
  <2>5. InLine'
    BY <1>1, <1>2, <1>3, <2>2, LineDrops
  <2>6. Reading'
    <3>1. plPc \in {"idle", "after"}
      BY <1>7 DEF Reading, AudioTyped
    <3> QED BY <1>1, <1>7, <3>1 DEF Reading
  <2>7. Limited'
    <3>1. n - d = l
      BY <2>1
    <3> QED BY <1>1, <1>2, <2>3, <3>1 DEF Limited
  <2> QED BY <1>4, <1>5, <2>4, <2>5, <2>6, <2>7
<1> QED BY <1>2, <1>6, <1>7 DEF Ar!Trim, Ar!Size

LEMMA PullKeepsAudio ==
  ASSUME AudioInv, NEW n \in PullSize, Ar!Pull(n)
  PROVE  AudioInv'
<1> USE DEF AudioInv
<1>1. /\ plPc = "idle" /\ mutex = "free" /\ wanted' = n
      /\ UNCHANGED <<player, cells, head, tail, played, arPc, stage, toWrite, frame, room, limit,
                     produced, readable, out, heard>>
      /\ \/ plPc' = "idle" /\ mutex' = "free"
         \/ plPc' = "load" /\ mutex' = "puller"
  BY DEF Ar!Pull, Ar!ring, Ar!pusher
<1>2. Buffered' = Buffered /\ Leaving' = Leaving /\ Coming' = Coming
  BY <1>1 DEF Buffered, Leaving, Coming, Writing
<1>3. AudioTyped'
  BY <1>1, AudioAssumption DEF AudioTyped
<1>4. InLine'
  BY <1>1, <1>2 DEF InLine
<1>5. Reading' /\ Limited'
  BY <1>1, <1>2 DEF Reading, Limited
<1>6. Copied'
  BY <1>1 DEF Copied, Ar!Fits
<1>7. Dropping'
  BY <1>1, <1>2 DEF Dropping, Writing
<1> QED BY <1>3, <1>4, <1>5, <1>6, <1>7

LEMMA ReadHeadKeepsAudio ==
  ASSUME AudioInv, Ar!ReadHead
  PROVE  AudioInv'
<1> USE DEF AudioInv
<1>1. /\ plPc = "load" /\ plPc' = "copy"
      /\ UNCHANGED <<player, cells, head, tail, mutex, played, arPc, stage, toWrite, frame, room,
                     limit, produced, wanted, out, heard>>
  BY DEF Ar!ReadHead, Ar!ring, Ar!pusher
<1>2. readable' \in Nat /\ readable' <= Filled(head, tail)
  <2>1. PICK w \in Nat, n \in Nat : w = wanted /\ n = Ar!CanRead /\ n = Filled(head, tail)
    <3>1. PICK n \in 0..Capacity : n = Ar!CanRead /\ n = Filled(head, tail)
      BY Measured
    <3>2. n \in Nat
      OBVIOUS
    <3> QED BY <3>1, <3>2 DEF AudioTyped
  <2>2. readable' = IF w <= n THEN w ELSE n
    BY <2>1, LeastOfTwo DEF Ar!ReadHead
  <2> QED BY <2>1, <2>2
<1>3. Buffered' = Buffered /\ Leaving' = Leaving /\ Coming' = Coming
  BY <1>1 DEF Buffered, Leaving, Coming, Writing
<1>4. AudioTyped'
  BY <1>1, <1>2 DEF AudioTyped
<1>5. InLine'
  BY <1>1, <1>3 DEF InLine
<1>6. Reading' /\ Limited'
  BY <1>1, <1>2, <1>3 DEF Reading, Limited
<1>7. Copied'
  BY <1>1 DEF Copied, Ar!Fits
<1>8. Dropping'
  BY <1>1, <1>3 DEF Dropping, Writing
<1> QED BY <1>4, <1>5, <1>6, <1>7, <1>8

LEMMA CopyOutKeepsAudio ==
  ASSUME AudioInv, Ar!CopyOut
  PROVE  AudioInv'
<1> USE DEF AudioInv
<1>1. /\ plPc = "copy" /\ plPc' = "publish"
      /\ UNCHANGED <<player, cells, head, tail, mutex, played, arPc, stage, toWrite, frame, room,
                     limit, produced, wanted, readable, heard>>
  BY DEF Ar!CopyOut, Ar!ring, Ar!pusher
<1>2. Buffered' = Buffered /\ Leaving' = Leaving /\ Coming' = Coming
  BY <1>1 DEF Buffered, Leaving, Coming, Writing
<1>3. out' = SubSeq(Buffered, 1, readable) /\ out' \in Seq(Nat)
  <2>1. PICK bu \in Seq(Nat) : bu = Buffered /\ Len(bu) = Filled(head, tail)
    BY Measured
  <2>2. PICK r \in 0..Len(bu) : r = readable
    <3>1. readable \in Nat /\ readable <= Len(bu) /\ Len(bu) \in Nat
      BY <1>1, <2>1 DEF Reading, AudioTyped
    <3> QED BY <3>1
  <2>3. PICK p \in Seq(Nat) :
          /\ p = SubSeq(bu, 1, r) /\ Len(p) = r /\ \A i \in 1..r : i \in 1..Len(bu) /\ p[i] = bu[i]
    BY Prefix, Zenon
  <2>4. \A i \in 1..r : cells[(tail + i - 1) % (Capacity + 1)] = p[i]
    <3> SUFFICES ASSUME NEW i \in 1..r
                 PROVE  cells[(tail + i - 1) % (Capacity + 1)] = p[i]
      OBVIOUS
    <3>1. i \in 1..Filled(head, tail)
      BY <2>1, <2>3
    <3>2. bu[i] = cells[Place(tail, i - 1)]
      BY <2>1, <3>1 DEF Buffered, Line
    <3>3. tail + i - 1 = tail + (i - 1)
      <4>1. tail \in Int
        BY DEF AudioTyped
      <4> QED BY <4>1
    <3> QED BY <2>3, <3>2, <3>3 DEF Place
  <2>5. out' = [i \in 1..r |-> cells[(tail + i - 1) % (Capacity + 1)]]
    BY <2>2 DEF Ar!CopyOut, Ar!Size
  <2>6. out' = p
    <3>1. p = [i \in 1..r |-> p[i]]
      BY <2>3
    <3> QED BY <2>4, <2>5, <3>1
  <2> QED BY <2>1, <2>2, <2>3, <2>6
<1>4. AudioTyped'
  BY <1>1, <1>3 DEF AudioTyped
<1>5. InLine'
  BY <1>1, <1>2 DEF InLine
<1>6. Reading' /\ Limited'
  BY <1>1, <1>2, <1>3 DEF Reading, Limited
<1>7. Copied'
  BY <1>1 DEF Copied, Ar!Fits
<1>8. Dropping'
  BY <1>1, <1>2 DEF Dropping, Writing
<1> QED BY <1>4, <1>5, <1>6, <1>7, <1>8


LEMMA PublishTailKeepsAudio ==
  ASSUME AudioInv, Ar!PublishTail
  PROVE  AudioInv'
<1> USE DEF AudioInv
<1>1. /\ plPc = "publish" /\ plPc' = "after" /\ mutex' = "free"
      /\ UNCHANGED <<player, cells, head, played, arPc, stage, toWrite, frame, room,
                     limit, produced, wanted, readable, out, heard>>
  BY DEF Ar!PublishTail, Ar!pusher
<1>2. PICK n \in 0..Capacity, d \in Nat :
        n = Filled(head, tail) /\ d = readable /\ d <= n /\ d \in 0..n
  <2>1. PICK n \in 0..Capacity : n = Filled(head, tail)
    BY Measured
  <2>2. readable \in Nat /\ readable <= n
    BY <1>1, <2>1 DEF Reading, AudioTyped
  <2> QED BY <2>1, <2>2
<1>3. tail' = Place(tail, d)
  BY <1>2 DEF Ar!PublishTail, Ar!Size, Place
<1>4. /\ tail' \in 0..Capacity /\ Filled(head', tail') = n - d
      /\ Buffered' = SubSeq(Buffered, d + 1, Len(Buffered))
  BY <1>1, <1>2, <1>3, TailAdvances
<1>5. AudioTyped'
  BY <1>1, <1>4 DEF AudioTyped
<1>6. Coming' = Coming
  BY <1>1 DEF Coming, Writing
<1>7. InLine'
  <2>1. PICK he \in Nat, bu \in Seq(Nat), co \in Seq(Nat), pr \in Nat :
          /\ he = heard /\ bu = Buffered /\ co = Coming /\ pr = produced
          /\ OrderOf(he, <<>>, bu, co, pr) /\ Len(bu) = n
    <3>1. heard \in Nat /\ produced \in Nat /\ Leaving = <<>>
      BY <1>1 DEF AudioTyped, Leaving
    <3> QED BY <1>2, <3>1, Measured DEF InLine
  <2>2. d \in 0..Len(bu)
    BY <1>2, <2>1
  <2>3. OrderOf(he, SubSeq(bu, 1, d), SubSeq(bu, d + 1, Len(bu)), co, pr)
    BY <2>1, <2>2, OrderTakes
  <2>4. Leaving' = SubSeq(bu, 1, d)
    BY <1>1, <1>2, <2>1 DEF Leaving, Reading
  <2> QED BY <1>1, <1>4, <1>6, <2>1, <2>3, <2>4 DEF InLine
<1>8. mutex = "puller"
  BY <1>1 DEF Reading
<1>9. Reading'
  BY <1>1 DEF Reading
<1>10. Dropping'
  <2>1. ~(arPc = "drop" \/ (arPc \in {"load", "copy", "publish"} /\ stage = "retry"))
    BY <1>8 DEF Dropping
  <2>2. arPc \in {"copy", "publish"} => room <= Capacity - (n - d)
    <3> SUFFICES ASSUME arPc \in {"copy", "publish"} PROVE room <= Capacity - (n - d)
      OBVIOUS
    <3>1. room <= Capacity - n /\ room \in Nat
      BY <1>2 DEF Dropping, AudioTyped
    <3> QED BY <1>2, <3>1, AudioAssumption
  <2>3. arPc = "load" /\ stage = "last" => Len(toWrite) <= Capacity - (n - d)
    <3> SUFFICES ASSUME arPc = "load" /\ stage = "last"
                 PROVE  Len(toWrite) <= Capacity - (n - d)
      OBVIOUS
    <3>1. Len(toWrite) <= Capacity - n /\ Len(toWrite) \in Nat
      BY <1>2 DEF Dropping, AudioTyped
    <3> QED BY <1>2, <3>1, AudioAssumption
  <2> QED BY <1>1, <1>4, <1>6, <2>1, <2>2, <2>3 DEF Dropping, Writing
<1>11. Copied'
  BY <1>1 DEF Copied, Ar!Fits
<1>12. Limited'
  <2>1. PICK b \in Nat : b = IF played THEN MaxBuffered ELSE MaxInitial
    BY AudioAssumption DEF AudioTyped
  <2>2. n <= b => n - d <= b
    BY <1>2, <2>1, AudioAssumption
  <2> QED BY <1>1, <1>2, <1>4, <2>1, <2>2 DEF Limited
<1> QED BY <1>5, <1>7, <1>9, <1>10, <1>11, <1>12

LEMMA AfterKeepsAudio ==
  ASSUME AudioInv, Ar!After
  PROVE  AudioInv'
<1> USE DEF AudioInv
<1>1. /\ plPc = "after" /\ plPc' = "idle" /\ out' = <<>> /\ played' = TRUE
      /\ heard' = Ar!Max({heard} \cup Ar!Range(out))
      /\ UNCHANGED <<player, cells, head, tail, mutex, arPc, stage, toWrite, frame, room,
                     limit, produced, wanted, readable>>
  BY DEF Ar!After, Ar!ring, Ar!pusher
<1>2. PICK he \in Nat, le \in Seq(Nat), bu \in Seq(Nat), co \in Seq(Nat), pr \in Nat :
        /\ he = heard /\ le = Leaving /\ bu = Buffered /\ co = Coming /\ pr = produced
        /\ OrderOf(he, le, bu, co, pr) /\ le = out
  <2>1. heard \in Nat /\ produced \in Nat
    BY DEF AudioTyped
  <2>2. Leaving = out
    BY <1>1 DEF Leaving
  <2> QED BY <2>1, <2>2, Measured DEF InLine
<1>3. PICK m \in Nat : m = heard' /\ (m = he \/ \E i \in 1..Len(le) : m = le[i])
  <2> DEFINE T == {he} \cup {le[i] : i \in 1..Len(le)}
  <2>1. heard' = Ar!Max(T)
    <3>1. Ar!Range(out) = {le[i] : i \in 1..Len(le)}
      BY <1>2 DEF Ar!Range
    <3> QED BY <1>1, <1>2, <3>1
  <2>2. T \in SUBSET Nat /\ he \in T
    OBVIOUS
  <2>3. \A x \in T : x <= pr
    BY <1>2 DEF OrderOf, Within
  <2> HIDE DEF T
  <2>4. \E x \in T : \A y \in T : x >= y
    BY <2>2, <2>3, GreatestNumber
  <2>5. Ar!Max(T) \in T
    BY <2>4 DEF Ar!Max
  <2> QED BY <2>1, <2>2, <2>5 DEF T
<1>4. AudioTyped'
  <2>1. heard' \in Nat /\ out' \in Seq(Nat)
    BY <1>1, <1>3
  <2> QED BY <1>1, <2>1 DEF AudioTyped
<1>5. Buffered' = Buffered /\ Leaving' = <<>> /\ Coming' = Coming
  BY <1>1 DEF Buffered, Leaving, Coming, Writing
<1>6. InLine'
  <2>1. OrderOf(m, <<>>, bu, co, pr)
    BY <1>2, <1>3, OrderHears
  <2> QED BY <1>1, <1>2, <1>3, <1>5, <2>1 DEF InLine
<1>7. Reading'
  BY <1>1 DEF Reading
<1>8. Copied'
  BY <1>1 DEF Copied, Ar!Fits
<1>9. Dropping'
  BY <1>1, <1>5 DEF Dropping, Writing
<1>10. Limited'
  <2>1. \A x \in Nat : x <= MaxInitial => x <= MaxBuffered
    BY AudioAssumption
  <2>2. PICK n \in Nat, l \in Nat : n = Filled(head, tail) /\ l = limit
    <3>1. PICK n \in 0..Capacity : n = Filled(head, tail)
      BY Measured
    <3>2. n \in Nat
      OBVIOUS
    <3> QED BY <3>1, <3>2 DEF AudioTyped
  <2> QED BY <1>1, <2>1, <2>2 DEF Limited, AudioTyped
<1> QED BY <1>4, <1>6, <1>7, <1>8, <1>9, <1>10

LEMMA NextAudio == AudioInv /\ [Ar!Next]_(Ar!arVars) => AudioInv'
<1> SUFFICES ASSUME AudioInv, [Ar!Next]_(Ar!arVars) PROVE AudioInv'
  OBVIOUS
<1>1. CASE Ar!Open \/ Ar!Close \/ UNCHANGED Ar!arVars
  BY <1>1, OpenKeepsAudio
<1>2. ASSUME NEW n \in FrameSize, NEW gap \in BOOLEAN, Ar!Push(n, gap) PROVE AudioInv'
  BY <1>2, PushKeepsAudio
<1>3. CASE Ar!PushFails
  BY <1>3, PushFailsKeepsAudio
<1>4. CASE Ar!Load
  BY <1>4, LoadKeepsAudio
<1>5. CASE Ar!Copy
  BY <1>5, CopyKeepsAudio
<1>6. CASE Ar!Publish
  BY <1>6, PublishKeepsAudio
<1>7. CASE Ar!Lock
  BY <1>7, LockKeepsAudio
<1>8. CASE Ar!Drop
  BY <1>8, DropKeepsAudio
<1>9. CASE Ar!ReadPlayed
  BY <1>9, ReadPlayedKeepsAudio
<1>10. CASE Ar!Trim
  BY <1>10, TrimKeepsAudio
<1>11. ASSUME NEW n \in PullSize, Ar!Pull(n) PROVE AudioInv'
  BY <1>11, PullKeepsAudio
<1>12. CASE Ar!ReadHead
  BY <1>12, ReadHeadKeepsAudio
<1>13. CASE Ar!CopyOut
  BY <1>13, CopyOutKeepsAudio
<1>14. CASE Ar!PublishTail
  BY <1>14, PublishTailKeepsAudio
<1>15. CASE Ar!After
  BY <1>15, AfterKeepsAudio
<1> QED
  BY <1>1, <1>2, <1>3, <1>4, <1>5, <1>6, <1>7, <1>8, <1>9, <1>10, <1>11, <1>12, <1>13, <1>14,
     <1>15 DEF Ar!Next

(* Each sample is heard at most once and in order, the assertion of the    *)
(* writer that drops never fails, and no push leaves more buffered than    *)
(* the latency allows, whatever the sizes of the buffer, of the frames and *)
(* of what the device asks for (audio_regulator.c, util/audiobuf.c).       *)
THEOREM AudioIsHeard == Ar!Spec => []AudioHeard
<1>1. AudioInv => AudioHeard
  <2> SUFFICES ASSUME AudioInv PROVE AudioHeard
    OBVIOUS
  <2> USE DEF AudioInv
  <2>1. Rises(out) /\ ComesAfter(heard, out) /\ out \in Seq(Nat)
    <3>1. CASE plPc = "after"
      BY <3>1 DEF InLine, OrderOf, Leaving, AudioTyped
    <3>2. CASE plPc = "publish"
      <4>1. PICK he \in Nat, bu \in Seq(Nat), co \in Seq(Nat), pr \in Nat :
              /\ he = heard /\ bu = Buffered /\ co = Coming /\ pr = produced
              /\ OrderOf(he, <<>>, bu, co, pr) /\ Len(bu) = Filled(head, tail)
        <5>1. heard \in Nat /\ produced \in Nat /\ Leaving = <<>>
          BY <3>2 DEF AudioTyped, Leaving
        <5> QED BY <5>1, Measured DEF InLine
      <4>2. PICK d \in 0..Len(bu) : d = readable
        <5>1. readable \in Nat /\ readable <= Len(bu)
          BY <3>2, <4>1 DEF Reading, AudioTyped
        <5> QED BY <5>1
      <4>3. Rises(SubSeq(bu, 1, d)) /\ ComesAfter(he, SubSeq(bu, 1, d))
        BY <4>1, OrderTakes
      <4> QED BY <3>2, <4>1, <4>2, <4>3 DEF Reading, AudioTyped
    <3>3. CASE plPc \in {"idle", "load", "copy"}
      <4>1. out = <<>>
        BY <3>3 DEF Reading
      <4>2. Rises(<<>>) /\ ComesAfter(heard, <<>>)
        BY DEF Rises, ComesAfter
      <4> QED BY <4>1, <4>2
    <3> QED BY <3>1, <3>2, <3>3 DEF AudioTyped
  <2>2. Ar!HeardInOrder
    <3> SUFFICES ASSUME NEW i \in 1..Len(out), out[i] # 0
                 PROVE  out[i] > heard /\ \A j \in 1..(i - 1) : out[i] > out[j]
      BY <2>1 DEF Ar!HeardInOrder
    <3>1. \A k \in 1..Len(out) : out[k] \in Nat
      BY <2>1
    <3>2. heard < out[i] /\ \A j \in 1..(i - 1) : out[j] < out[i]
      BY <2>1 DEF Rises, ComesAfter
    <3>3. heard \in Nat /\ out[i] \in Nat /\ \A j \in 1..(i - 1) : out[j] \in Nat
      BY <2>1, <3>1 DEF AudioTyped
    <3> QED BY <3>2, <3>3
  <2>3. Ar!DropMakesRoom
    BY DEF Ar!DropMakesRoom, AudioTyped
  <2>4. Ar!LatencyBounded
    BY Measured DEF Ar!LatencyBounded, Limited
  <2> QED BY <2>2, <2>3, <2>4 DEF AudioHeard
<1> QED BY <1>1, AudioStarts, NextAudio, PTL DEF Ar!Spec
=============================================================================
