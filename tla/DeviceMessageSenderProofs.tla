--------------------- MODULE DeviceMessageSenderProofs ----------------------
(***************************************************************************)
(* The phone's control queue keeps its bounds and its order, and what it   *)
(* removes never leaves the computer in disagreement with the phone.       *)
(***************************************************************************)
EXTENDS DeviceMessageSender, FiniteSetTheorems, SequenceTheorems,
        WellFoundedInduction, NaturalsInduction, TLAPS

(***************************************************************************)
(* What removing leaves.                                                   *)
(***************************************************************************)
(* A nonempty set of natural numbers has a least element: the well-        *)
(* foundedness of < used as a minimal counterexample.                      *)
LEMMA LeastPlace ==
  ASSUME NEW T \in SUBSET Nat, T # {}
  PROVE  \E n \in T : \A m \in T : n <= m
<1> DEFINE Less == {ss \in Nat \X Nat : ss[1] < ss[2]}
<1>1. IsWellFoundedOn(Less, Nat)
  BY NatLessThanWellFounded DEF OpToRel
<1>2. PICK n \in T : \A m \in T : <<m, n>> \notin Less
  <2> HIDE DEF Less
  <2> QED BY <1>1, WFMin
<1>3. \A m \in T : ~(m < n)
  BY <1>2
<1> QED BY <1>3

(* left, up to place N: a function that satisfies its recursive equation.  *)
LeftOf(f, q, removed, n) ==
  IF n = 0 THEN <<>>
  ELSE IF n \in removed THEN f[n - 1] ELSE Append(f[n - 1], q[n])

IsLeft(f, q, removed, N) == f = [n \in 0..N |-> LeftOf(f, q, removed, n)]

(* The equation has a solution: one for the places up to N extends to the  *)
(* next one.                                                               *)
LEMMA LeftExists ==
  ASSUME NEW q, NEW removed, NEW N \in Nat
  PROVE  \E f : IsLeft(f, q, removed, N)
<1> DEFINE T == {n \in Nat : ~ \E f : IsLeft(f, q, removed, n)}
<1>1. SUFFICES ASSUME T # {} PROVE FALSE
  OBVIOUS
<1>2. PICK n \in T : \A m \in T : n <= m
  <2>1. T \in SUBSET Nat
    OBVIOUS
  <2> HIDE DEF T
  <2> QED BY <1>1, <2>1, LeastPlace
<1>3. n \in Nat /\ ~ \E f : IsLeft(f, q, removed, n)
  OBVIOUS
<1>4. CASE n = 0
  <2> DEFINE f == [i \in 0..0 |-> <<>>]
  <2>1. IsLeft(f, q, removed, 0)
    BY DEF IsLeft, LeftOf
  <2> QED BY <1>3, <1>4, <2>1
<1>5. CASE n # 0
  <2>1. n - 1 \in Nat /\ ~(n <= n - 1)
    BY <1>3, <1>5
  <2>2. n - 1 \notin T
    <3> HIDE DEF T
    <3> QED BY <1>2, <2>1
  <2>3. PICK f : IsLeft(f, q, removed, n - 1)
    BY <2>1, <2>2
  <2> DEFINE g == [i \in 0..n |-> IF i < n THEN f[i] ELSE LeftOf(f, q, removed, n)]
  <2>4. \A i \in 0..(n - 1) : f[i] = LeftOf(f, q, removed, i)
    BY <2>3 DEF IsLeft
  <2>5. \A i \in 0..(n - 1) : g[i] = f[i]
    BY <1>3
  <2>6. ASSUME NEW i \in 0..n PROVE LeftOf(g, q, removed, i) = LeftOf(f, q, removed, i)
    <3>1. CASE i = 0
      BY <3>1 DEF LeftOf
    <3>2. CASE i # 0
      <4>1. i - 1 \in 0..(n - 1)
        BY <3>2, <1>3
      <4>2. g[i - 1] = f[i - 1]
        BY <4>1, <2>5
      <4> QED BY <4>2 DEF LeftOf
    <3> QED BY <3>1, <3>2
  <2>7. ASSUME NEW i \in 0..n PROVE g[i] = LeftOf(g, q, removed, i)
    <3>1. CASE i = n
      BY <3>1, <2>6, <1>3
    <3>2. CASE i # n
      <4>1. i \in 0..(n - 1)
        BY <3>2, <1>3
      <4> QED BY <4>1, <2>4, <2>5, <2>6
    <3> QED BY <3>1, <3>2
  <2>8. IsLeft(g, q, removed, n)
    <3>1. g = [i \in 0..n |-> g[i]]
      OBVIOUS
    <3> HIDE DEF g
    <3> QED BY <3>1, <2>7 DEF IsLeft
  <2> QED BY <1>3, <2>8
<1> QED BY <1>4, <1>5

(* e finds in q, in their order, the entries of r: those at the places kept. *)
Embeds(e, q, r, kept) ==
  /\ e \in [1..Len(r) -> kept]
  /\ \A k \in 1..Len(r) : r[k] = q[e[k]]
  /\ \A j, k \in 1..Len(r) : j < k => e[j] < e[k]
  /\ \A n \in kept : \E k \in 1..Len(r) : e[k] = n

(* The recursion of Removed leaves the kept entries in their order: the    *)
(* least place at which it would not does not exist.                       *)
LEMMA RemovedKeeps ==
  ASSUME NEW S, NEW q \in Seq(S), NEW removed
  PROVE  /\ Removed(q, removed) \in Seq(S)
         /\ \E e : Embeds(e, q, Removed(q, removed), (1..Len(q)) \ removed)
<1> DEFINE f == CHOOSE g : IsLeft(g, q, removed, Len(q))
           Done(n) == /\ f[n] \in Seq(S)
                      /\ \E e : Embeds(e, q, f[n], (1..n) \ removed)
           T == {n \in 0..Len(q) : ~Done(n)}
<1>1. Removed(q, removed) = f[Len(q)]
  BY DEF Removed, IsLeft, LeftOf
<1>2. Len(q) \in Nat /\ \A i \in 1..Len(q) : q[i] \in S
  BY LenProperties, ElementOfSeq
<1>3. IsLeft(f, q, removed, Len(q))
  BY <1>2, LeftExists
<1> HIDE DEF f
<1>4. \A n \in 0..Len(q) : f[n] = LeftOf(f, q, removed, n)
  BY <1>3 DEF IsLeft
<1>5. SUFFICES T = {}
  <2>1. Len(q) \in 0..Len(q)
    BY <1>2
  <2>2. Len(q) \notin T => Done(Len(q))
    BY <2>1
  <2>3. Done(Len(q)) => /\ Removed(q, removed) \in Seq(S)
                        /\ \E e : Embeds(e, q, Removed(q, removed), (1..Len(q)) \ removed)
    BY <1>1
  <2> HIDE DEF T, Done
  <2> QED BY <2>2, <2>3
<1>6. SUFFICES ASSUME T # {} PROVE FALSE
  OBVIOUS
<1>7. PICK n \in T : \A m \in T : n <= m
  <2>1. T \in SUBSET Nat
    BY <1>2
  <2> HIDE DEF T
  <2> QED BY <1>6, <2>1, LeastPlace
<1>8. n \in 0..Len(q) /\ ~Done(n)
  OBVIOUS
<1>9. CASE n = 0
  <2>1. f[0] = <<>>
    BY <1>4, <1>2 DEF LeftOf
  <2>2. <<>> \in Seq(S) /\ Len(<<>>) = 0
    OBVIOUS
  <2>3. Embeds([k \in {} |-> 0], q, <<>>, (1..0) \ removed)
    BY DEF Embeds
  <2> QED BY <1>8, <1>9, <2>1, <2>2, <2>3
<1>10. CASE n # 0
  <2>1. n \in 1..Len(q) /\ n - 1 \in 0..Len(q) /\ ~(n <= n - 1)
    BY <1>8, <1>10, <1>2
  <2>2. n - 1 \notin T
    <3> HIDE DEF T
    <3> QED BY <1>7, <2>1
  <2>3. f[n - 1] \in Seq(S)
    BY <2>1, <2>2
  <2>4. PICK e : Embeds(e, q, f[n - 1], (1..(n - 1)) \ removed)
    BY <2>1, <2>2
  <2>5. Len(f[n - 1]) \in Nat
    BY <2>3, LenProperties
  <2>6. CASE n \in removed
    <3>1. f[n] = f[n - 1]
      BY <1>4, <1>8, <1>10, <2>6 DEF LeftOf
    <3>2. (1..n) \ removed = (1..(n - 1)) \ removed
      BY <2>1, <2>6, <1>2
    <3> QED BY <1>8, <2>3, <2>4, <3>1, <3>2
  <2>7. CASE n \notin removed
    <3> DEFINE r == f[n - 1]
               d == [k \in 1..(Len(r) + 1) |-> IF k <= Len(r) THEN e[k] ELSE n]
    <3>1. f[n] = Append(r, q[n])
      BY <1>4, <1>8, <1>10, <2>7 DEF LeftOf
    <3> HIDE DEF r
    <3>2. r \in Seq(S) /\ Len(r) \in Nat /\ q[n] \in S
      BY <2>1, <2>3, <2>5, <1>2 DEF r
    <3>3. /\ f[n] \in Seq(S) /\ Len(f[n]) = Len(r) + 1
          /\ \A k \in 1..Len(r) : f[n][k] = r[k]
          /\ f[n][Len(r) + 1] = q[n]
      BY <3>1, <3>2, AppendProperties
    <3>4. /\ e \in [1..Len(r) -> (1..(n - 1)) \ removed]
          /\ \A k \in 1..Len(r) : r[k] = q[e[k]]
          /\ \A j, k \in 1..Len(r) : j < k => e[j] < e[k]
          /\ \A m \in (1..(n - 1)) \ removed : \E k \in 1..Len(r) : e[k] = m
      BY <2>4 DEF Embeds, r
    <3>5. /\ \A k \in 1..Len(r) : d[k] = e[k] /\ e[k] \in 1..(n - 1) /\ e[k] \notin removed
          /\ d[Len(r) + 1] = n
          /\ d = [k \in 1..(Len(r) + 1) |-> d[k]]
      BY <3>2, <3>4
    <3> HIDE DEF d
    <3>6. \A k \in 1..(Len(r) + 1) :
             d[k] \in (1..n) \ removed /\ f[n][k] = q[d[k]]
      <4> SUFFICES ASSUME NEW k \in 1..(Len(r) + 1)
                   PROVE  d[k] \in (1..n) \ removed /\ f[n][k] = q[d[k]]
        OBVIOUS
      <4>1. CASE k = Len(r) + 1
        BY <4>1, <3>3, <3>5, <2>1, <2>7
      <4>2. CASE k # Len(r) + 1
        <5>1. k \in 1..Len(r)
          BY <4>2, <3>2
        <5>2. d[k] = e[k] /\ e[k] \in 1..(n - 1) /\ e[k] \notin removed
          BY <5>1, <3>5
        <5>3. f[n][k] = q[d[k]]
          BY <5>1, <5>2, <3>3, <3>4
        <5> QED BY <5>2, <5>3, <2>1
      <4> QED BY <4>1, <4>2
    <3>8. \A j, k \in 1..(Len(r) + 1) : j < k => d[j] < d[k]
      <4> SUFFICES ASSUME NEW j \in 1..(Len(r) + 1), NEW k \in 1..(Len(r) + 1), j < k
                   PROVE  d[j] < d[k]
        OBVIOUS
      <4>1. j \in 1..Len(r) /\ d[j] = e[j] /\ d[j] < n
        <5>1. j \in 1..Len(r)
          BY <3>2
        <5>2. d[j] = e[j] /\ e[j] \in 1..(n - 1)
          BY <5>1, <3>5
        <5>3. n \in Nat
          BY <2>1, <1>2
        <5> QED BY <5>1, <5>2, <5>3
      <4>2. CASE k = Len(r) + 1
        BY <4>1, <4>2, <3>5
      <4>3. CASE k # Len(r) + 1
        <5>1. k \in 1..Len(r)
          BY <4>3, <3>2
        <5> QED BY <5>1, <4>1, <3>4, <3>5
      <4> QED BY <4>2, <4>3
    <3>9. \A m \in (1..n) \ removed : \E k \in 1..(Len(r) + 1) : d[k] = m
      <4> SUFFICES ASSUME NEW m \in (1..n) \ removed
                   PROVE  \E k \in 1..(Len(r) + 1) : d[k] = m
        OBVIOUS
      <4>1. CASE m = n
        <5>1. Len(r) + 1 \in 1..(Len(r) + 1)
          BY <3>2
        <5> QED BY <4>1, <5>1, <3>5
      <4>2. CASE m # n
        <5>1. m \in (1..(n - 1)) \ removed
          BY <4>2, <2>1
        <5>2. PICK k \in 1..Len(r) : e[k] = m
          BY <5>1, <3>4
        <5>3. d[k] = m /\ k \in 1..(Len(r) + 1)
          <6>1. d[k] = e[k]
            BY <5>2, <3>5
          <6>2. k \in 1..(Len(r) + 1)
            BY <3>2
          <6> QED BY <5>2, <6>1, <6>2
        <5> QED BY <5>3
      <4> QED BY <4>1, <4>2
    <3>10. Embeds(d, q, f[n], (1..n) \ removed)
      BY <3>3, <3>5, <3>6, <3>8, <3>9 DEF Embeds
    <3> QED BY <1>8, <3>3, <3>10
  <2> QED BY <2>6, <2>7
<1> QED BY <1>9, <1>10

(* What is left of a queue: messages it held, all but the removed ones, in *)
(* their order.                                                            *)
Left(q, r, removed) ==
  /\ r \in Seq(Message)
  /\ \A k \in 1..Len(r) : \E n \in 1..Len(q) : n \notin removed /\ r[k] = q[n]
  /\ \A n \in 1..Len(q) : n \notin removed => \E k \in 1..Len(r) : r[k] = q[n]

LEMMA RemovedIsLeft ==
  ASSUME NEW q \in Seq(Message), NEW removed
  PROVE  Left(q, Removed(q, removed), removed)
<1>1. PICK e : Embeds(e, q, Removed(q, removed), (1..Len(q)) \ removed)
  BY RemovedKeeps
<1>2. Removed(q, removed) \in Seq(Message)
  BY RemovedKeeps
<1> DEFINE r == Removed(q, removed)
<1> HIDE DEF r
<1>3. ASSUME NEW k \in 1..Len(r)
      PROVE  \E n \in 1..Len(q) : n \notin removed /\ r[k] = q[n]
  <2>1. e[k] \in (1..Len(q)) \ removed /\ r[k] = q[e[k]]
    BY <1>1 DEF Embeds, r
  <2> QED BY <2>1
<1>4. ASSUME NEW n \in 1..Len(q), n \notin removed
      PROVE  \E k \in 1..Len(r) : r[k] = q[n]
  <2>1. PICK k \in 1..Len(r) : e[k] = n
    BY <1>1, <1>4 DEF Embeds, r
  <2>2. r[k] = q[e[k]]
    BY <1>1 DEF Embeds, r
  <2> QED BY <2>1, <2>2
<1> QED BY <1>2, <1>3, <1>4 DEF Left, r

(* A queue with a new first message.                                       *)
LEMMA Prepended ==
  ASSUME NEW S, NEW q \in Seq(S), NEW m \in S
  PROVE  /\ <<m>> \o q \in Seq(S)
         /\ Len(<<m>> \o q) = Len(q) + 1 /\ Len(q) \in Nat
         /\ (<<m>> \o q)[1] = m
         /\ \A i \in 1..Len(q) : (<<m>> \o q)[i + 1] = q[i]
         /\ \A i \in 1..(Len(q) + 1) : i # 1 => i - 1 \in 1..Len(q) /\ (<<m>> \o q)[i] = q[i - 1]
<1>1. <<m>> \in Seq(S) /\ Len(<<m>>) = 1 /\ <<m>>[1] = m
  OBVIOUS
<1>2. Len(q) \in Nat
  BY LenProperties
<1>3. /\ <<m>> \o q \in Seq(S) /\ Len(<<m>> \o q) = 1 + Len(q)
      /\ \A i \in 1..(1 + Len(q)) :
           (<<m>> \o q)[i] = IF i <= 1 THEN <<m>>[i] ELSE q[i - 1]
  BY <1>1, <1>2, ConcatProperties
<1>4. \A i \in 1..Len(q) : (<<m>> \o q)[i + 1] = q[i]
  <2> TAKE i \in 1..Len(q)
  <2>1. i + 1 \in 1..(1 + Len(q)) /\ ~(i + 1 <= 1) /\ i + 1 - 1 = i
    BY <1>2
  <2> QED BY <2>1, <1>3
<1>5. \A i \in 1..(Len(q) + 1) : i # 1 => i - 1 \in 1..Len(q) /\ (<<m>> \o q)[i] = q[i - 1]
  <2> TAKE i \in 1..(Len(q) + 1)
  <2> HAVE i # 1
  <2>1. i - 1 \in 1..Len(q) /\ i - 1 + 1 = i
    BY <1>2
  <2> QED BY <2>1, <1>4
<1> QED BY <1>1, <1>2, <1>3, <1>4, <1>5

(***************************************************************************)
(* The order of the queue: what may wait ahead of what.                    *)
(***************************************************************************)
Urgent == AckTypes \cup SessionTypes

PairOK(a, b) ==
  /\ b.type \in Urgent => a.type \in Urgent
  /\ a.type \in Urgent => a.type # b.type
  /\ ~(a.type \in AudioTypes /\ b.type \in AudioTypes)
  /\ a.type = "STOP_SESSION" => b.type \notin SessionTypes
  /\ b.type = "STOP_SESSION" => a.type \notin SessionTypes
  /\ ~(a.type = "RESUME_VIDEO" /\ b.type = "PAUSE_VIDEO")

Paired(q) == \A i, j \in 1..Len(q) : i < j => PairOK(q[i], q[j])

(* The order survives removing, adding at either end, and taking.          *)
LEMMA PairedRemoved ==
  ASSUME NEW q \in Seq(Message), NEW removed, Paired(q)
  PROVE  Paired(Removed(q, removed))
<1>1. PICK e : Embeds(e, q, Removed(q, removed), (1..Len(q)) \ removed)
  BY RemovedKeeps
<1> DEFINE r == Removed(q, removed)
<1> HIDE DEF r
<1>2. SUFFICES ASSUME NEW i \in 1..Len(r), NEW j \in 1..Len(r), i < j
               PROVE  PairOK(r[i], r[j])
  BY DEF Paired, r
<1>3. e[i] \in 1..Len(q) /\ e[j] \in 1..Len(q) /\ e[i] < e[j] /\ r[i] = q[e[i]] /\ r[j] = q[e[j]]
  BY <1>1, <1>2 DEF Embeds, r
<1> QED BY <1>3 DEF Paired

LEMMA PairedPrepended ==
  ASSUME NEW q \in Seq(Message), NEW m \in Message, Paired(q),
         \A i \in 1..Len(q) : PairOK(m, q[i])
  PROVE  Paired(<<m>> \o q)
<1> DEFINE r == <<m>> \o q
<1> HIDE DEF r
<1>1. /\ Len(r) = Len(q) + 1 /\ r[1] = m /\ Len(q) \in Nat
      /\ \A i \in 1..(Len(q) + 1) : i # 1 => i - 1 \in 1..Len(q) /\ r[i] = q[i - 1]
  BY Prepended DEF r
<1>2. SUFFICES ASSUME NEW i \in 1..Len(r), NEW j \in 1..Len(r), i < j
               PROVE  PairOK(r[i], r[j])
  BY DEF Paired, r
<1>3. j - 1 \in 1..Len(q) /\ r[j] = q[j - 1]
  <2>1. j # 1 /\ j \in 1..(Len(q) + 1)
    BY <1>1, <1>2
  <2> QED BY <2>1, <1>1
<1>4. CASE i = 1
  BY <1>1, <1>3, <1>4
<1>5. CASE i # 1
  <2>1. i - 1 \in 1..Len(q) /\ r[i] = q[i - 1] /\ i - 1 < j - 1
    BY <1>1, <1>2, <1>5
  <2> QED BY <2>1, <1>3 DEF Paired
<1> QED BY <1>4, <1>5

LEMMA PairedAppended ==
  ASSUME NEW q \in Seq(Message), NEW m \in Message, Paired(q),
         \A i \in 1..Len(q) : PairOK(q[i], m)
  PROVE  Paired(Append(q, m))
<1> DEFINE r == Append(q, m)
<1> HIDE DEF r
<1>1. /\ Len(r) = Len(q) + 1 /\ r[Len(q) + 1] = m /\ Len(q) \in Nat
      /\ \A i \in 1..Len(q) : r[i] = q[i]
  BY AppendProperties, LenProperties DEF r
<1>2. SUFFICES ASSUME NEW i \in 1..Len(r), NEW j \in 1..Len(r), i < j
               PROVE  PairOK(r[i], r[j])
  BY DEF Paired, r
<1>3. i \in 1..Len(q) /\ r[i] = q[i]
  BY <1>1, <1>2
<1>4. CASE j = Len(q) + 1
  BY <1>1, <1>3, <1>4
<1>5. CASE j # Len(q) + 1
  <2>1. j \in 1..Len(q) /\ r[j] = q[j]
    BY <1>1, <1>5
  <2> QED BY <2>1, <1>2, <1>3 DEF Paired
<1> QED BY <1>4, <1>5

LEMMA PairedTail ==
  ASSUME NEW q \in Seq(Message), q # <<>>, Paired(q)
  PROVE  /\ Tail(q) \in Seq(Message) /\ Head(q) \in Message
         /\ Paired(Tail(q))
         /\ \A i \in 1..Len(Tail(q)) : PairOK(Head(q), Tail(q)[i])
<1>1. /\ Tail(q) \in Seq(Message) /\ Len(Tail(q)) = Len(q) - 1
      /\ Head(q) = q[1] /\ Head(q) \in Message /\ Len(q) \in Nat \ {0}
      /\ \A i \in 1..Len(Tail(q)) : Tail(q)[i] = q[i + 1]
  BY HeadTailProperties, EmptySeq, LenProperties
<1>2. \A i \in 1..Len(Tail(q)) : i + 1 \in 1..Len(q) /\ 1 \in 1..Len(q) /\ 1 < i + 1
  BY <1>1
<1>3. \A i \in 1..Len(Tail(q)) : PairOK(Head(q), Tail(q)[i])
  BY <1>1, <1>2 DEF Paired
<1>4. ASSUME NEW i \in 1..Len(Tail(q)), NEW j \in 1..Len(Tail(q)), i < j
      PROVE  PairOK(Tail(q)[i], Tail(q)[j])
  <2>1. i + 1 < j + 1
    BY <1>1, <1>4
  <2> QED BY <2>1, <1>1, <1>2 DEF Paired
<1> QED BY <1>1, <1>3, <1>4 DEF Paired

(***************************************************************************)
(* How many inputs wait.                                                   *)
(***************************************************************************)
Inputs(q) == Cardinality(Places(q, InputTypes))

(* Places are finitely many, and not more than the queue is long.          *)
LEMMA PlacesFinite ==
  ASSUME NEW q \in Seq(Message), NEW types
  PROVE  /\ IsFiniteSet(Places(q, types)) /\ Cardinality(Places(q, types)) \in Nat
         /\ Cardinality(Places(q, types)) <= Len(q)
<1>1. Len(q) \in Nat /\ DOMAIN q = 1..Len(q)
  BY LenProperties
<1>2. IsFiniteSet(1..Len(q)) /\ Cardinality(1..Len(q)) = Len(q)
  <2>1. 1 \in Int /\ Len(q) \in Int
    BY <1>1
  <2>2. IsFiniteSet(1..Len(q)) /\ Cardinality(1..Len(q)) = IF 1 > Len(q) THEN 0 ELSE Len(q) - 1 + 1
    BY <2>1, FS_Interval, Zenon
  <2> QED BY <2>2, <1>1
<1>3. Places(q, types) \in SUBSET (1..Len(q))
  BY <1>1 DEF Places
<1>4. IsFiniteSet(Places(q, types)) /\ Cardinality(Places(q, types)) <= Len(q)
  BY <1>2, <1>3, FS_Subset
<1> QED BY <1>4, FS_CardinalityType

(* A message removed, added or taken changes the number of inputs as       *)
(* expected; e, or a shift by one, maps the places of one queue into those *)
(* of the other.                                                           *)
LEMMA InputsRemoved ==
  ASSUME NEW q \in Seq(Message), NEW removed
  PROVE  /\ Inputs(Removed(q, removed)) <= Cardinality(Places(q, InputTypes) \ removed)
         /\ Inputs(Removed(q, removed)) <= Inputs(q)
<1> DEFINE r == Removed(q, removed)
           kept == Places(q, InputTypes) \ removed
<1>1. PICK e : Embeds(e, q, r, (1..Len(q)) \ removed)
  BY RemovedKeeps
<1>2. r \in Seq(Message)
  BY RemovedKeeps
<1>3. DOMAIN r = 1..Len(r) /\ DOMAIN q = 1..Len(q) /\ Len(r) \in Nat /\ Len(q) \in Nat
  BY <1>2, LenProperties
<1> DEFINE g == [k \in Places(r, InputTypes) |-> e[k]]
<1>4. ASSUME NEW k \in Places(r, InputTypes) PROVE e[k] \in kept /\ k \in 1..Len(r)
  <2>1. k \in 1..Len(r) /\ r[k].type \in InputTypes
    BY <1>3 DEF Places
  <2>2. e[k] \in 1..Len(q) /\ e[k] \notin removed /\ r[k] = q[e[k]]
    BY <2>1, <1>1 DEF Embeds
  <2> QED BY <2>1, <2>2, <1>3 DEF Places
<1>5. ASSUME NEW j \in Places(r, InputTypes), NEW k \in Places(r, InputTypes), e[j] = e[k]
      PROVE  j = k
  <2>1. j \in 1..Len(r) /\ k \in 1..Len(r) /\ e[j] \in 1..Len(q) /\ e[k] \in 1..Len(q)
    BY <1>4, <1>3 DEF Places
  <2>2. ~(e[j] < e[k]) /\ ~(e[k] < e[j])
    BY <2>1, <1>5, <1>3
  <2>3. ~(j < k) /\ ~(k < j)
    BY <2>1, <2>2, <1>1 DEF Embeds
  <2> QED BY <2>1, <2>3
<1>6. g \in Injection(Places(r, InputTypes), kept)
  <2>1. g \in [Places(r, InputTypes) -> kept]
    BY <1>4
  <2>2. \A j, k \in Places(r, InputTypes) : g[j] = g[k] => j = k
    BY <1>5
  <2> HIDE DEF g, kept, r
  <2> QED BY <2>1, <2>2 DEF Injection, IsInjective
<1>7. IsFiniteSet(Places(q, InputTypes))
  BY PlacesFinite
<1>8. IsFiniteSet(kept) /\ Cardinality(kept) <= Inputs(q)
  <2>1. kept \in SUBSET Places(q, InputTypes)
    OBVIOUS
  <2> HIDE DEF kept
  <2> QED BY <2>1, <1>7, FS_Subset DEF Inputs
<1>9. Inputs(r) <= Cardinality(kept)
  <2> HIDE DEF g, kept, r
  <2> QED BY <1>6, <1>8, FS_Injection DEF Inputs
<1>10. Inputs(r) \in Nat /\ Inputs(q) \in Nat /\ Cardinality(kept) \in Nat
  <2> HIDE DEF kept, r
  <2> QED BY <1>2, <1>8, PlacesFinite, FS_CardinalityType DEF Inputs
<1> HIDE DEF kept, r
<1>11. Inputs(r) <= Cardinality(kept) /\ Inputs(r) <= Inputs(q)
  BY <1>8, <1>9, <1>10
<1> QED BY <1>11 DEF kept, r

LEMMA InputsPrepended ==
  ASSUME NEW q \in Seq(Message), NEW m \in Message, m.type \notin InputTypes
  PROVE  Inputs(<<m>> \o q) <= Inputs(q)
<1> DEFINE r == <<m>> \o q
           g == [k \in Places(r, InputTypes) |-> k - 1]
<1>1. /\ r \in Seq(Message) /\ Len(r) = Len(q) + 1 /\ r[1] = m /\ Len(q) \in Nat
      /\ \A i \in 1..(Len(q) + 1) : i # 1 => i - 1 \in 1..Len(q) /\ r[i] = q[i - 1]
  BY Prepended
<1>2. DOMAIN r = 1..Len(r) /\ DOMAIN q = 1..Len(q)
  BY <1>1, LenProperties
<1> HIDE DEF r
<1>3. ASSUME NEW k \in Places(r, InputTypes) PROVE k - 1 \in Places(q, InputTypes) /\ k \in Int
  <2>1. k \in 1..(Len(q) + 1) /\ r[k].type \in InputTypes
    BY <1>1, <1>2 DEF Places
  <2>2. k # 1
    BY <2>1, <1>1
  <2>3. k - 1 \in 1..Len(q) /\ r[k] = q[k - 1]
    BY <2>1, <2>2, <1>1
  <2>4. k \in Int
    BY <2>1, <1>1
  <2> QED BY <2>1, <2>3, <2>4, <1>2 DEF Places
<1>4. g \in [Places(r, InputTypes) -> Places(q, InputTypes)]
  BY <1>3
<1>5. \A j, k \in Places(r, InputTypes) : g[j] = g[k] => j = k
  <2>1. \A j, k \in Places(r, InputTypes) : j \in Int /\ k \in Int /\ (j - 1 = k - 1 => j = k)
    BY <1>3
  <2> QED BY <2>1
<1>6. g \in Injection(Places(r, InputTypes), Places(q, InputTypes))
  <2> HIDE DEF g
  <2> QED BY <1>4, <1>5 DEF Injection, IsInjective
<1>7. IsFiniteSet(Places(q, InputTypes))
  BY PlacesFinite
<1> HIDE DEF g
<1>8. Inputs(r) <= Inputs(q)
  BY <1>6, <1>7, FS_Injection DEF Inputs
<1> QED BY <1>8 DEF r

LEMMA InputsTail ==
  ASSUME NEW q \in Seq(Message), q # <<>>
  PROVE  Inputs(Tail(q)) <= Inputs(q)
<1> DEFINE r == Tail(q)
           g == [k \in Places(r, InputTypes) |-> k + 1]
<1>1. /\ r \in Seq(Message) /\ Len(r) = Len(q) - 1 /\ Len(q) \in Nat \ {0}
      /\ \A i \in 1..Len(r) : r[i] = q[i + 1]
  BY HeadTailProperties, EmptySeq, LenProperties
<1>2. DOMAIN r = 1..Len(r) /\ DOMAIN q = 1..Len(q)
  BY <1>1, LenProperties
<1> HIDE DEF r
<1>3. ASSUME NEW k \in Places(r, InputTypes) PROVE k + 1 \in Places(q, InputTypes) /\ k \in Int
  <2>1. k \in 1..Len(r) /\ r[k].type \in InputTypes
    BY <1>2 DEF Places
  <2>2. k + 1 \in 1..Len(q) /\ k \in Int
    BY <2>1, <1>1
  <2> QED BY <2>1, <2>2, <1>1, <1>2 DEF Places
<1>4. g \in [Places(r, InputTypes) -> Places(q, InputTypes)]
  BY <1>3
<1>5. \A j, k \in Places(r, InputTypes) : g[j] = g[k] => j = k
  <2>1. \A j, k \in Places(r, InputTypes) : j \in Int /\ k \in Int /\ (j + 1 = k + 1 => j = k)
    BY <1>3
  <2> QED BY <2>1
<1>6. g \in Injection(Places(r, InputTypes), Places(q, InputTypes))
  <2> HIDE DEF g
  <2> QED BY <1>4, <1>5 DEF Injection, IsInjective
<1>7. IsFiniteSet(Places(q, InputTypes))
  BY PlacesFinite
<1> HIDE DEF g
<1>8. Inputs(r) <= Inputs(q)
  BY <1>6, <1>7, FS_Injection DEF Inputs
<1> QED BY <1>8 DEF r

LEMMA InputsAppended ==
  ASSUME NEW q \in Seq(Message), NEW m \in Message
  PROVE  /\ Inputs(Append(q, m)) <= Inputs(q) + 1
         /\ m.type \notin InputTypes => Inputs(Append(q, m)) = Inputs(q)
<1> DEFINE r == Append(q, m)
<1>1. /\ r \in Seq(Message) /\ Len(r) = Len(q) + 1 /\ r[Len(q) + 1] = m /\ Len(q) \in Nat
      /\ \A i \in 1..Len(q) : r[i] = q[i]
  BY AppendProperties, LenProperties
<1>2. DOMAIN r = 1..(Len(q) + 1) /\ DOMAIN q = 1..Len(q)
  BY <1>1, LenProperties
<1> HIDE DEF r
<1>3. IF m.type \in InputTypes
      THEN Places(r, InputTypes) = Places(q, InputTypes) \cup {Len(q) + 1}
      ELSE Places(r, InputTypes) = Places(q, InputTypes)
  <2>1. \A i \in 1..(Len(q) + 1) : i \in 1..Len(q) \/ i = Len(q) + 1
    BY <1>1
  <2>2. 1..Len(q) \subseteq 1..(Len(q) + 1) /\ Len(q) + 1 \in 1..(Len(q) + 1)
        /\ Len(q) + 1 \notin 1..Len(q)
    BY <1>1
  <2> QED BY <2>1, <2>2, <1>1, <1>2 DEF Places
<1>4. IsFiniteSet(Places(q, InputTypes)) /\ Inputs(q) \in Nat
  BY PlacesFinite DEF Inputs
<1>5. Cardinality(Places(q, InputTypes) \cup {Len(q) + 1}) <= Inputs(q) + 1
  <2>1. Cardinality(Places(q, InputTypes) \cup {Len(q) + 1})
          = IF Len(q) + 1 \in Places(q, InputTypes) THEN Inputs(q) ELSE Inputs(q) + 1
    BY <1>4, FS_AddElement, Zenon DEF Inputs
  <2> QED BY <2>1, <1>4
<1>6. /\ Inputs(r) <= Inputs(q) + 1
      /\ m.type \notin InputTypes => Inputs(r) = Inputs(q)
  <2>1. CASE m.type \in InputTypes
    BY <2>1, <1>3, <1>5 DEF Inputs
  <2>2. CASE m.type \notin InputTypes
    <3>1. Inputs(r) = Inputs(q)
      BY <2>2, <1>3 DEF Inputs
    <3> QED BY <2>2, <3>1, <1>4
  <2> QED BY <2>1, <2>2
<1> QED BY <1>6 DEF r

(***************************************************************************)
(* send() keeps the order and the bound of the queue.                      *)
(***************************************************************************)
Orderly(q) == q \in Seq(Message) /\ Paired(q) /\ Inputs(q) <= Capacity

(* Each way send() edits the queue keeps it orderly.                       *)
LEMMA RemovedOrderly ==
  ASSUME SenderAssumption, NEW q, NEW removed, Orderly(q)
  PROVE  Orderly(Removed(q, removed))
<1>1. q \in Seq(Message) /\ Inputs(q) <= Capacity /\ Paired(q)
  BY DEF Orderly
<1>2. Removed(q, removed) \in Seq(Message)
  BY <1>1, RemovedKeeps
<1>3. Inputs(Removed(q, removed)) <= Inputs(q)
  BY <1>1, InputsRemoved
<1>4. Inputs(Removed(q, removed)) \in Nat /\ Inputs(q) \in Nat /\ Capacity \in Nat
  BY <1>1, <1>2, PlacesFinite DEF Inputs, SenderAssumption
<1>5. Paired(Removed(q, removed))
  BY <1>1, PairedRemoved
<1> QED BY <1>1, <1>2, <1>3, <1>4, <1>5 DEF Orderly

LEMMA PrependedOrderly ==
  ASSUME SenderAssumption, NEW q, Orderly(q), NEW m \in Message, m.type \notin InputTypes,
         \A i \in 1..Len(q) : PairOK(m, q[i])
  PROVE  Orderly(<<m>> \o q)
<1>1. q \in Seq(Message) /\ Inputs(q) <= Capacity /\ Paired(q)
  BY DEF Orderly
<1>2. <<m>> \o q \in Seq(Message)
  BY <1>1, Prepended
<1>3. Inputs(<<m>> \o q) <= Inputs(q)
  BY <1>1, InputsPrepended
<1>4. Inputs(<<m>> \o q) \in Nat /\ Inputs(q) \in Nat /\ Capacity \in Nat
  BY <1>1, <1>2, PlacesFinite DEF Inputs, SenderAssumption
<1>5. Paired(<<m>> \o q)
  BY <1>1, PairedPrepended
<1> QED BY <1>1, <1>2, <1>3, <1>4, <1>5 DEF Orderly

(* What stays has none of the types, and everything of other types stays.  *)
LEMMA WithoutTypes ==
  ASSUME NEW q \in Seq(Message), NEW types
  PROVE  /\ Without(q, types) \in Seq(Message)
         /\ \A k \in 1..Len(Without(q, types)) :
              /\ Without(q, types)[k].type \notin types
              /\ \E n \in 1..Len(q) : Without(q, types)[k] = q[n]
         /\ \A n \in 1..Len(q) :
              q[n].type \notin types =>
                \E k \in 1..Len(Without(q, types)) : Without(q, types)[k] = q[n]
<1>1. Left(q, Without(q, types), Places(q, types))
  BY RemovedIsLeft DEF Without
<1>2. DOMAIN q = 1..Len(q)
  BY LenProperties
<1> QED BY <1>1, <1>2 DEF Left, Places

LEMMA SessionOrderly ==
  ASSUME SenderAssumption, NEW q, Orderly(q), NEW m \in Message, m.type \in SessionTypes
  PROVE  Orderly(WithSession(q, m))
<1> DEFINE r == Without(q, Purged)
<1>1. q \in Seq(Message)
  BY DEF Orderly
<1>2. Orderly(r)
  BY RemovedOrderly DEF Without
<1>3. r \in Seq(Message) /\ \A k \in 1..Len(r) : r[k].type \notin Purged
  BY <1>1, WithoutTypes
<1> HIDE DEF r
<1>4. m.type \notin InputTypes /\ \A k \in 1..Len(r) : PairOK(m, r[k])
  BY <1>3 DEF PairOK, SessionTypes, Purged, InputTypes, TouchTypes, Urgent, AckTypes, AudioTypes
<1>5. Orderly(<<m>> \o r)
  BY <1>2, <1>4, PrependedOrderly
<1>6. CASE Holds(q, "STOP_SESSION")
  <2>1. WithSession(q, m) = Removed(q, Places(q, Purged) \cap AheadOfStop(q))
    BY <1>6 DEF WithSession
  <2> QED BY <2>1, RemovedOrderly
<1>7. CASE ~Holds(q, "STOP_SESSION") /\ m.type = "RESUME_VIDEO" /\ Holds(q, "PAUSE_VIDEO")
  <2> DEFINE pause == [type |-> "PAUSE_VIDEO"]
             s == <<m>> \o r
  <2>1. WithSession(q, m) = <<pause, m>> \o r
    BY <1>7 DEF WithSession, r
  <2>2. pause \in Message /\ pause.type = "PAUSE_VIDEO"
    BY DEF Message, SessionTypes
  <2>3. <<pause, m>> \o r = <<pause>> \o s
    BY <1>3, <2>2
  <2>4. /\ Len(s) = Len(r) + 1 /\ s[1] = m /\ Len(r) \in Nat
        /\ \A i \in 1..(Len(r) + 1) : i # 1 => i - 1 \in 1..Len(r) /\ s[i] = r[i - 1]
    BY <1>3, Prepended
  <2> HIDE DEF s, pause
  <2>5. ASSUME NEW i \in 1..Len(s)
        PROVE  s[i].type = "RESUME_VIDEO" \/ s[i].type \notin Purged
    <3>1. CASE i = 1
      BY <3>1, <2>4, <1>7
    <3>2. CASE i # 1
      BY <3>2, <2>4, <1>3
    <3> QED BY <3>1, <3>2
  <2>6. pause.type \notin InputTypes /\ \A i \in 1..Len(s) : PairOK(pause, s[i])
    BY <2>2, <2>5 DEF PairOK, SessionTypes, Purged, InputTypes, TouchTypes, Urgent, AckTypes, AudioTypes
  <2>7. Orderly(<<pause>> \o s)
    BY <1>5, <2>2, <2>6, PrependedOrderly DEF s
  <2> QED BY <2>1, <2>3, <2>7
<1>8. CASE ~Holds(q, "STOP_SESSION") /\ ~(m.type = "RESUME_VIDEO" /\ Holds(q, "PAUSE_VIDEO"))
  <2>1. WithSession(q, m) = <<m>> \o r
    BY <1>8 DEF WithSession, r
  <2> QED BY <2>1, <1>5
<1> QED BY <1>6, <1>7, <1>8

LEMMA AckOrderly ==
  ASSUME SenderAssumption, NEW q, Orderly(q), NEW m \in Message, m.type \in AckTypes
  PROVE  Orderly(WithAck(q, m))
<1> DEFINE r == Without(q, {m.type})
<1>1. q \in Seq(Message)
  BY DEF Orderly
<1>2. Orderly(r)
  BY RemovedOrderly DEF Without
<1>3. \A k \in 1..Len(r) : r[k].type # m.type
  BY <1>1, WithoutTypes
<1> HIDE DEF r
<1>4. m.type \notin InputTypes /\ \A k \in 1..Len(r) : PairOK(m, r[k])
  BY <1>3 DEF PairOK, SessionTypes, InputTypes, TouchTypes, Urgent, AckTypes, AudioTypes
<1>5. Orderly(<<m>> \o r)
  BY <1>2, <1>4, PrependedOrderly
<1> QED BY <1>5 DEF WithAck, r

LEMMA AudioOrderly ==
  ASSUME SenderAssumption, NEW q, Orderly(q), NEW m \in Message, m.type \in AudioTypes
  PROVE  Orderly(WithAudioSwitch(q, m))
<1> DEFINE r == Without(q, AudioTypes)
<1>1. q \in Seq(Message)
  BY DEF Orderly
<1>2. Orderly(r)
  BY RemovedOrderly DEF Without
<1>3. r \in Seq(Message) /\ \A k \in 1..Len(r) : r[k].type \notin AudioTypes
  BY <1>1, WithoutTypes
<1> HIDE DEF r
<1>4. m.type \notin InputTypes /\ \A k \in 1..Len(r) : PairOK(r[k], m)
  BY <1>3 DEF PairOK, SessionTypes, InputTypes, TouchTypes, Urgent, AckTypes, AudioTypes
<1>5. Append(r, m) \in Seq(Message) /\ Paired(Append(r, m)) /\ Inputs(Append(r, m)) <= Capacity
  <2>1. Paired(r) /\ Inputs(r) <= Capacity
    BY <1>2 DEF Orderly
  <2>2. Inputs(Append(r, m)) = Inputs(r)
    BY <1>3, <1>4, InputsAppended
  <2> QED BY <1>3, <1>4, <2>1, <2>2, PairedAppended, AppendProperties
<1> QED BY <1>5 DEF WithAudioSwitch, r, Orderly

(* A full queue that holds a move has exactly one oldest move.             *)
LEMMA OldestMoveIs ==
  ASSUME NEW q \in Seq(Message), Holds(q, "MOVE")
  PROVE  \E i \in Places(q, {"MOVE"}) : OldestMove(q) = {i}
<1>1. Places(q, {"MOVE"}) \in SUBSET Nat /\ Places(q, {"MOVE"}) # {}
  <2>1. DOMAIN q \subseteq Nat
    BY LenProperties
  <2> QED BY <2>1 DEF Places, Holds
<1>2. PICK i \in Places(q, {"MOVE"}) : \A j \in Places(q, {"MOVE"}) : i <= j
  BY <1>1, LeastPlace
<1>3. \A j \in Places(q, {"MOVE"}) : j <= i => j = i
  BY <1>1, <1>2
<1> QED BY <1>1, <1>2, <1>3 DEF OldestMove

LEMMA InputOrderly ==
  ASSUME SenderAssumption, NEW q, Orderly(q), NEW m \in Message, m.type \in InputTypes
  PROVE  Orderly(WithInput(Coalesced(q, m), m))
<1>1. PICK c : c = Coalesced(q, m)
  OBVIOUS
<1>2. Orderly(c)
  <2>1. c = q \/ \E removed : c = Removed(q, removed)
    BY <1>1 DEF Coalesced
  <2> QED BY <2>1, RemovedOrderly
<1>3. c \in Seq(Message) /\ Inputs(c) <= Capacity /\ Capacity \in Nat \ {0} /\ Len(c) \in Nat
  BY <1>2, LenProperties DEF Orderly, SenderAssumption
<1>4. ASSUME NEW r, Orderly(r), Inputs(r) < Capacity PROVE Orderly(Append(r, m))
  <2>1. r \in Seq(Message) /\ Paired(r) /\ Inputs(r) \in Nat
    BY <1>4, PlacesFinite DEF Orderly, Inputs
  <2>2. \A i \in 1..Len(r) : PairOK(r[i], m)
    BY DEF PairOK, SessionTypes, InputTypes, TouchTypes, Urgent, AckTypes, AudioTypes
  <2>3. Paired(Append(r, m)) /\ Append(r, m) \in Seq(Message)
    BY <2>1, <2>2, PairedAppended, AppendProperties
  <2>4. Inputs(Append(r, m)) \in Nat
    BY <2>3, PlacesFinite DEF Inputs
  <2>5. Inputs(Append(r, m)) <= Inputs(r) + 1
    BY <2>1, InputsAppended
  <2>6. Inputs(Append(r, m)) <= Capacity
    BY <1>3, <1>4, <2>1, <2>4, <2>5
  <2> QED BY <2>3, <2>6 DEF Orderly
<1>5. CASE Len(c) < Capacity
  <2>1. Inputs(c) \in Nat /\ Inputs(c) <= Len(c)
    BY <1>3, PlacesFinite DEF Inputs
  <2>2. Inputs(c) < Capacity
    BY <1>3, <1>5, <2>1
  <2>3. Orderly(Append(c, m))
    BY <1>2, <1>4, <2>2
  <2> QED BY <1>1, <1>5, <2>3 DEF WithInput
<1>6. CASE ~(Len(c) < Capacity) /\ Holds(c, "MOVE")
  <2> DEFINE r == Removed(c, OldestMove(c))
  <2>1. PICK i \in Places(c, {"MOVE"}) : OldestMove(c) = {i}
    BY <1>3, <1>6, OldestMoveIs
  <2>2. i \in Places(c, InputTypes)
    BY <2>1 DEF Places, InputTypes, TouchTypes
  <2>3. IsFiniteSet(Places(c, InputTypes)) /\ Inputs(c) \in Nat
    BY <1>3, PlacesFinite DEF Inputs
  <2>4. Cardinality(Places(c, InputTypes) \ {i}) = Inputs(c) - 1
    BY <2>2, <2>3, FS_RemoveElement DEF Inputs
  <2>5. Inputs(r) <= Inputs(c) - 1
    BY <1>3, <2>1, <2>4, InputsRemoved
  <2>6. Orderly(r)
    BY <1>2, RemovedOrderly
  <2>7. Inputs(r) \in Nat
    BY <2>6, PlacesFinite DEF Orderly, Inputs
  <2> HIDE DEF r
  <2>8. Inputs(r) < Capacity
    BY <1>3, <2>3, <2>5, <2>7
  <2>9. Orderly(Append(r, m))
    BY <1>4, <2>6, <2>8
  <2> QED BY <1>1, <1>6, <2>9 DEF WithInput, r
<1>7. CASE ~(Len(c) < Capacity) /\ ~Holds(c, "MOVE")
  BY <1>1, <1>2, <1>7 DEF WithInput
<1> QED BY <1>5, <1>6, <1>7

(* What the order means for the length of the queue and for where urgent   *)
(* messages are.                                                           *)
Slot(m) == CASE m.type = "FRAME_ACK" -> 1 [] m.type = "AUDIO_ACK" -> 2
             [] m.type \in {"PAUSE_VIDEO", "STOP_SESSION"} -> 3
             [] m.type = "RESUME_VIDEO" -> 4 [] m.type \in AudioTypes -> 5
             [] OTHER -> 6

(* Urgent messages and the audio switch have a slot each, and two in a     *)
(* sorted pair never the same one: so there are five at most besides the   *)
(* inputs, four of them urgent and in front.                               *)
LEMMA OrderlyIsBounded ==
  ASSUME SenderAssumption, NEW q, Orderly(q)
  PROVE  /\ Len(q) <= Capacity + 5
         /\ \A i \in DOMAIN q : q[i].type \in Urgent => i <= 4
         /\ Holds(q, "STOP_SESSION") => ~Holds(q, "RESUME_VIDEO") /\ ~Holds(q, "PAUSE_VIDEO")
<1>1. /\ q \in Seq(Message) /\ Inputs(q) <= Capacity /\ Paired(q) /\ Capacity \in Nat
      /\ Len(q) \in Nat /\ DOMAIN q = 1..Len(q) /\ Inputs(q) \in Nat
      /\ \A i \in 1..Len(q) : q[i] \in Message
  BY PlacesFinite, LenProperties, ElementOfSeq DEF Orderly, SenderAssumption, Inputs
<1> DEFINE others == (1..Len(q)) \ Places(q, InputTypes)
           slot == [i \in others |-> Slot(q[i])]
<1>2. \A a, b \in Message : PairOK(a, b) /\ a.type \notin InputTypes => Slot(a) # Slot(b)
  BY DEF PairOK, SessionTypes, InputTypes, TouchTypes, Urgent, AckTypes, AudioTypes, Slot, Message
<1>3. \A a \in Message : a.type \notin InputTypes => Slot(a) \in 1..5
  BY DEF SessionTypes, InputTypes, TouchTypes, AckTypes, AudioTypes, Slot, Message
<1>4. \A i \in others : i \in 1..Len(q) /\ q[i] \in Message /\ q[i].type \notin InputTypes
  BY <1>1 DEF Places
<1>5. slot \in Injection(others, 1..5)
  <2>1. slot \in [others -> 1..5]
    BY <1>3, <1>4
  <2>2. ASSUME NEW i \in others, NEW j \in others, slot[i] = slot[j] PROVE i = j
    <3>1. i \in 1..Len(q) /\ j \in 1..Len(q) /\ Slot(q[i]) = Slot(q[j])
      BY <2>2
    <3>2. ~(i < j)
      BY <3>1, <1>1, <1>2, <1>4 DEF Paired
    <3>3. ~(j < i)
      BY <3>1, <1>1, <1>2, <1>4 DEF Paired
    <3> QED BY <3>1, <3>2, <3>3, <1>1
  <2> HIDE DEF slot, others
  <2> QED BY <2>1, <2>2 DEF Injection, IsInjective
<1>6. IsFiniteSet(1..5) /\ Cardinality(1..5) = 5
  <2>1. 1 \in Int /\ 5 \in Int
    OBVIOUS
  <2>2. IsFiniteSet(1..5) /\ Cardinality(1..5) = IF 1 > 5 THEN 0 ELSE 5 - 1 + 1
    BY <2>1, FS_Interval, Zenon
  <2> QED BY <2>2
<1>7. IsFiniteSet(others) /\ Cardinality(others) <= 5
  <2> HIDE DEF slot, others
  <2> QED BY <1>5, <1>6, FS_Injection
<1>8. Len(q) <= Capacity + 5
  <2>1. IsFiniteSet(Places(q, InputTypes))
    BY <1>1, PlacesFinite
  <2>2. others \cap Places(q, InputTypes) = {} /\ others \cup Places(q, InputTypes) = 1..Len(q)
    BY <1>1 DEF Places
  <2>3. Cardinality(1..Len(q)) = Len(q)
    <3>1. 1 \in Int /\ Len(q) \in Int
      BY <1>1
    <3>2. Cardinality(1..Len(q)) = IF 1 > Len(q) THEN 0 ELSE Len(q) - 1 + 1
      BY <3>1, FS_Interval, Zenon
    <3> QED BY <3>2, <1>1
  <2> HIDE DEF slot, others
  <2>4. Cardinality(others \cup Places(q, InputTypes))
          = Cardinality(others) + Cardinality(Places(q, InputTypes))
              - Cardinality(others \cap Places(q, InputTypes))
    BY <1>7, <2>1, FS_Union
  <2>5. Cardinality(others) \in Nat
    BY <1>7, FS_CardinalityType
  <2>6. Len(q) = Cardinality(others) + Inputs(q) - 0
    BY <2>2, <2>3, <2>4, FS_EmptySet DEF Inputs
  <2> QED BY <1>1, <1>7, <2>5, <2>6
<1>9. ASSUME NEW i \in 1..Len(q), q[i].type \in Urgent PROVE i <= 4
  <2>1. SUFFICES ASSUME i > 4 PROVE FALSE
    BY <1>1
  <2>2. /\ 1 \in 1..Len(q) /\ 2 \in 1..Len(q) /\ 3 \in 1..Len(q) /\ 4 \in 1..Len(q)
        /\ i > 1 /\ i > 2 /\ i > 3
    BY <2>1, <1>1
  <2>3. /\ q[1].type \in Urgent /\ q[2].type \in Urgent /\ q[3].type \in Urgent
        /\ q[4].type \in Urgent
    BY <2>1, <2>2, <1>1, <1>9 DEF Paired, PairOK
  <2>4. /\ Slot(q[1]) # Slot(q[2]) /\ Slot(q[1]) # Slot(q[3]) /\ Slot(q[1]) # Slot(q[4])
        /\ Slot(q[2]) # Slot(q[3]) /\ Slot(q[2]) # Slot(q[4]) /\ Slot(q[3]) # Slot(q[4])
        /\ Slot(q[1]) # Slot(q[i]) /\ Slot(q[2]) # Slot(q[i])
        /\ Slot(q[3]) # Slot(q[i]) /\ Slot(q[4]) # Slot(q[i])
    <3>1. \A a \in Message : a.type \in Urgent => a.type \notin InputTypes
      BY DEF Urgent, AckTypes, SessionTypes, InputTypes, TouchTypes
    <3>2. \A j, k \in 1..Len(q) : j < k /\ q[j].type \in Urgent => Slot(q[j]) # Slot(q[k])
      BY <3>1, <1>1, <1>2 DEF Paired
    <3> QED BY <3>2, <2>1, <2>2, <2>3
  <2>5. ASSUME NEW a \in Message, a.type \in Urgent PROVE Slot(a) \in {1, 2, 3, 4}
    <3>1. \/ a.type = "FRAME_ACK" \/ a.type = "AUDIO_ACK" \/ a.type = "PAUSE_VIDEO"
          \/ a.type = "STOP_SESSION" \/ a.type = "RESUME_VIDEO"
      BY <2>5 DEF Urgent, AckTypes, SessionTypes
    <3>2. CASE a.type = "FRAME_ACK"
      BY <3>2 DEF Slot, AudioTypes
    <3>3. CASE a.type = "AUDIO_ACK"
      BY <3>3 DEF Slot, AudioTypes
    <3>4. CASE a.type = "PAUSE_VIDEO"
      BY <3>4 DEF Slot, AudioTypes
    <3>5. CASE a.type = "STOP_SESSION"
      BY <3>5 DEF Slot, AudioTypes
    <3>6. CASE a.type = "RESUME_VIDEO"
      BY <3>6 DEF Slot, AudioTypes
    <3> QED BY <3>1, <3>2, <3>3, <3>4, <3>5, <3>6
  <2>6. /\ Slot(q[1]) \in {1, 2, 3, 4} /\ Slot(q[2]) \in {1, 2, 3, 4}
        /\ Slot(q[3]) \in {1, 2, 3, 4} /\ Slot(q[4]) \in {1, 2, 3, 4}
        /\ Slot(q[i]) \in {1, 2, 3, 4}
    BY <2>2, <2>3, <2>5, <1>1, <1>9
  <2> QED BY <2>4, <2>6
<1>10. Holds(q, "STOP_SESSION") => ~Holds(q, "RESUME_VIDEO") /\ ~Holds(q, "PAUSE_VIDEO")
  <2>1. SUFFICES ASSUME NEW i \in 1..Len(q), NEW j \in 1..Len(q),
                        q[i].type = "STOP_SESSION", q[j].type \in {"RESUME_VIDEO", "PAUSE_VIDEO"}
                 PROVE  FALSE
    BY <1>1 DEF Holds
  <2>2. i < j \/ j < i
    BY <2>1, <1>1
  <2> QED BY <2>1, <2>2, <1>1 DEF Paired, PairOK, SessionTypes
<1> QED BY <1>1, <1>8, <1>9, <1>10

(***************************************************************************)
(* What send() adds to and keeps of the queue.                             *)
(***************************************************************************)
(* Messages of other types than these are waiting in both queues.          *)
SameBut(q, r, types) ==
  /\ \A k \in 1..Len(r) : r[k].type \notin types => \E n \in 1..Len(q) : q[n] = r[k]
  /\ \A n \in 1..Len(q) : q[n].type \notin types => \E k \in 1..Len(r) : r[k] = q[n]

(* A contact that a waiting message begins at the computer is ended there  *)
(* by a later one.                                                         *)
Begins(m, p) == m.type \in {"DOWN", "POINTER_DOWN"} /\ m.pointer = p
Ends(m, p) == \/ m.type \in {"CANCEL", "PAUSE_VIDEO", "STOP_SESSION"}
              \/ m.type = "UP" /\ m.pointer = p

HasEnd(q, p) == \E i \in 1..Len(q) : Ends(q[i], p)
Covered(q, p) == \A i \in 1..Len(q) :
                   Begins(q[i], p) => \E j \in 1..Len(q) : i < j /\ Ends(q[j], p)

(* An edit that only removes and adds messages of some types keeps all     *)
(* others.                                                                 *)
LEMMA SameButRemoved ==
  ASSUME NEW q \in Seq(Message), NEW removed, NEW types,
         \A n \in 1..Len(q) : n \in removed => q[n].type \in types
  PROVE  SameBut(q, Removed(q, removed), types)
<1>1. Left(q, Removed(q, removed), removed)
  BY RemovedIsLeft
<1> QED BY <1>1 DEF Left, SameBut

LEMMA SameButPrepended ==
  ASSUME NEW q \in Seq(Message), NEW r \in Seq(Message), NEW m \in Message, NEW types,
         SameBut(q, r, types), m.type \in types
  PROVE  SameBut(q, <<m>> \o r, types) /\ Holds(<<m>> \o r, m.type)
<1> DEFINE s == <<m>> \o r
<1>1. /\ s \in Seq(Message) /\ Len(s) = Len(r) + 1 /\ Len(r) \in Nat /\ s[1] = m
      /\ \A i \in 1..Len(r) : s[i + 1] = r[i]
      /\ \A i \in 1..(Len(r) + 1) : i # 1 => i - 1 \in 1..Len(r) /\ s[i] = r[i - 1]
  BY Prepended
<1> HIDE DEF s
<1>2. ASSUME NEW k \in 1..Len(s), s[k].type \notin types PROVE \E n \in 1..Len(q) : q[n] = s[k]
  <2>1. k # 1 /\ k \in 1..(Len(r) + 1)
    BY <1>1, <1>2
  <2> QED BY <2>1, <1>1, <1>2 DEF SameBut
<1>3. ASSUME NEW n \in 1..Len(q), q[n].type \notin types PROVE \E k \in 1..Len(s) : s[k] = q[n]
  <2>1. PICK k \in 1..Len(r) : r[k] = q[n]
    BY <1>3 DEF SameBut
  <2>2. k + 1 \in 1..Len(s) /\ s[k + 1] = q[n]
    BY <1>1, <2>1
  <2> QED BY <2>2
<1>4. Holds(s, m.type)
  <2>1. 1 \in DOMAIN s
    BY <1>1, LenProperties
  <2> QED BY <1>1, <2>1 DEF Holds
<1>5. SameBut(q, s, types) /\ Holds(s, m.type)
  BY <1>2, <1>3, <1>4 DEF SameBut
<1> QED BY <1>5 DEF s

LEMMA SameButAppended ==
  ASSUME NEW q \in Seq(Message), NEW r \in Seq(Message), NEW m \in Message, NEW types,
         SameBut(q, r, types), m.type \in types
  PROVE  SameBut(q, Append(r, m), types) /\ Holds(Append(r, m), m.type)
<1> DEFINE s == Append(r, m)
<1>1. /\ s \in Seq(Message) /\ Len(s) = Len(r) + 1 /\ Len(r) \in Nat /\ s[Len(r) + 1] = m
      /\ \A i \in 1..Len(r) : s[i] = r[i]
  BY AppendProperties, LenProperties
<1> HIDE DEF s
<1>2. ASSUME NEW k \in 1..Len(s), s[k].type \notin types PROVE \E n \in 1..Len(q) : q[n] = s[k]
  <2>1. k # Len(r) + 1 /\ k \in 1..(Len(r) + 1)
    BY <1>1, <1>2
  <2>2. k \in 1..Len(r) /\ s[k] = r[k]
    BY <2>1, <1>1
  <2> QED BY <2>2, <1>2 DEF SameBut
<1>3. ASSUME NEW n \in 1..Len(q), q[n].type \notin types PROVE \E k \in 1..Len(s) : s[k] = q[n]
  <2>1. PICK k \in 1..Len(r) : r[k] = q[n]
    BY <1>3 DEF SameBut
  <2>2. k \in 1..Len(s) /\ s[k] = q[n]
    BY <1>1, <2>1
  <2> QED BY <2>2
<1>4. Holds(s, m.type)
  <2>1. Len(r) + 1 \in DOMAIN s
    BY <1>1, LenProperties
  <2> QED BY <1>1, <2>1 DEF Holds
<1>5. SameBut(q, s, types) /\ Holds(s, m.type)
  BY <1>2, <1>3, <1>4 DEF SameBut
<1> QED BY <1>5 DEF s

(* Removing ends of a contact does no harm where a later end stays.        *)
LEMMA CoveredRemoved ==
  ASSUME NEW q \in Seq(Message), NEW removed, NEW p,
         \A n \in 1..Len(q) : n \in removed /\ Ends(q[n], p) =>
           \E s \in 1..Len(q) : s \notin removed /\ n < s /\ Ends(q[s], p)
  PROVE  /\ HasEnd(q, p) => HasEnd(Removed(q, removed), p)
         /\ Covered(q, p) => Covered(Removed(q, removed), p)
<1> DEFINE r == Removed(q, removed)
<1>1. PICK e : Embeds(e, q, r, (1..Len(q)) \ removed)
  BY RemovedKeeps
<1>2. r \in Seq(Message) /\ Len(r) \in Nat /\ Len(q) \in Nat
  BY RemovedKeeps, LenProperties
<1> HIDE DEF r
<1>3. ASSUME NEW n \in 1..Len(q), Ends(q[n], p)
      PROVE  \E k \in 1..Len(r) : Ends(r[k], p) /\ e[k] \in 1..Len(q) /\ n <= e[k]
  <2>1. PICK s \in 1..Len(q) : s \notin removed /\ n <= s /\ Ends(q[s], p)
    <3>1. CASE n \in removed
      <4>1. PICK s \in 1..Len(q) : s \notin removed /\ n < s /\ Ends(q[s], p)
        BY <1>3, <3>1
      <4> QED BY <4>1, <1>2
    <3>2. CASE n \notin removed
      BY <1>3, <3>2, <1>2
    <3> QED BY <3>1, <3>2
  <2>2. PICK k \in 1..Len(r) : e[k] = s
    BY <2>1, <1>1 DEF Embeds
  <2>3. r[k] = q[s]
    BY <2>2, <1>1 DEF Embeds
  <2> QED BY <2>1, <2>2, <2>3
<1>4. HasEnd(q, p) => HasEnd(r, p)
  BY <1>3 DEF HasEnd
<1>5. ASSUME Covered(q, p), NEW i \in 1..Len(r), Begins(r[i], p)
      PROVE  \E j \in 1..Len(r) : i < j /\ Ends(r[j], p)
  <2>1. e[i] \in 1..Len(q) /\ r[i] = q[e[i]]
    BY <1>1 DEF Embeds
  <2>2. PICK n \in 1..Len(q) : e[i] < n /\ Ends(q[n], p)
    BY <2>1, <1>5 DEF Covered
  <2>3. PICK j \in 1..Len(r) : Ends(r[j], p) /\ e[j] \in 1..Len(q) /\ n <= e[j]
    BY <2>2, <1>3
  <2>4. e[i] < e[j]
    BY <2>1, <2>2, <2>3, <1>2
  <2>5. ~(j < i) /\ j # i
    <3>1. j < i => e[j] < e[i]
      BY <1>1 DEF Embeds
    <3> QED BY <3>1, <2>1, <2>3, <2>4, <1>2
  <2> QED BY <2>3, <2>5, <1>2
<1>6. Covered(q, p) => Covered(r, p)
  BY <1>5 DEF Covered
<1> QED BY <1>4, <1>6 DEF r

(* A message that begins no contact leaves the contacts covered, one that  *)
(* ends a contact covers it.                                               *)
LEMMA CoveredPrepended ==
  ASSUME NEW q \in Seq(Message), NEW m \in Message, NEW p, ~Begins(m, p)
  PROVE  /\ HasEnd(q, p) => HasEnd(<<m>> \o q, p)
         /\ Covered(q, p) => Covered(<<m>> \o q, p)
<1> DEFINE r == <<m>> \o q
<1>1. /\ r \in Seq(Message) /\ Len(r) = Len(q) + 1 /\ Len(q) \in Nat /\ r[1] = m
      /\ \A i \in 1..Len(q) : r[i + 1] = q[i]
      /\ \A i \in 1..(Len(q) + 1) : i # 1 => i - 1 \in 1..Len(q) /\ r[i] = q[i - 1]
  BY Prepended
<1> HIDE DEF r
<1>2. \A i \in 1..Len(q) : i + 1 \in 1..Len(r)
  BY <1>1
<1>3. HasEnd(q, p) => HasEnd(r, p)
  BY <1>1, <1>2 DEF HasEnd
<1>4. ASSUME Covered(q, p), NEW i \in 1..Len(r), Begins(r[i], p)
      PROVE  \E j \in 1..Len(r) : i < j /\ Ends(r[j], p)
  <2>1. i # 1
    BY <1>1, <1>4
  <2>2. i - 1 \in 1..Len(q) /\ r[i] = q[i - 1]
    BY <2>1, <1>1
  <2>3. PICK j \in 1..Len(q) : i - 1 < j /\ Ends(q[j], p)
    BY <2>2, <1>4 DEF Covered
  <2>4. j + 1 \in 1..Len(r) /\ i < j + 1 /\ Ends(r[j + 1], p)
    BY <2>3, <1>1
  <2> QED BY <2>4
<1>5. Covered(q, p) => Covered(r, p)
  BY <1>4 DEF Covered
<1> QED BY <1>3, <1>5 DEF r

LEMMA CoveredAppended ==
  ASSUME NEW q \in Seq(Message), NEW m \in Message, NEW p
  PROVE  /\ HasEnd(q, p) => HasEnd(Append(q, m), p)
         /\ Covered(q, p) /\ ~Begins(m, p) => Covered(Append(q, m), p)
         /\ Ends(m, p) => HasEnd(Append(q, m), p) /\ Covered(Append(q, m), p)
<1> DEFINE r == Append(q, m)
<1>1. /\ r \in Seq(Message) /\ Len(r) = Len(q) + 1 /\ Len(q) \in Nat /\ r[Len(q) + 1] = m
      /\ \A i \in 1..Len(q) : r[i] = q[i]
  BY AppendProperties, LenProperties
<1> HIDE DEF r
<1>2. \A i \in 1..Len(q) : i \in 1..Len(r)
  BY <1>1
<1>3. HasEnd(q, p) => HasEnd(r, p)
  BY <1>1, <1>2 DEF HasEnd
<1>4. Len(q) + 1 \in 1..Len(r) /\ \A i \in 1..Len(r) : i = Len(q) + 1 \/ (i \in 1..Len(q) /\ i < Len(q) + 1)
  BY <1>1
<1>5. ASSUME Covered(q, p), ~Begins(m, p), NEW i \in 1..Len(r), Begins(r[i], p)
      PROVE  \E j \in 1..Len(r) : i < j /\ Ends(r[j], p)
  <2>1. i \in 1..Len(q) /\ r[i] = q[i]
    BY <1>1, <1>4, <1>5
  <2>2. PICK j \in 1..Len(q) : i < j /\ Ends(q[j], p)
    BY <2>1, <1>5 DEF Covered
  <2> QED BY <2>2, <1>1, <1>2
<1>6. ASSUME Ends(m, p) PROVE HasEnd(r, p) /\ Covered(r, p)
  <2>1. ~Begins(m, p)
    BY <1>6 DEF Begins, Ends
  <2>2. Ends(r[Len(q) + 1], p)
    BY <1>1, <1>6
  <2>3. \A i \in 1..Len(r) : Begins(r[i], p) => i < Len(q) + 1
    BY <2>1, <1>1, <1>4
  <2> QED BY <2>2, <2>3, <1>4 DEF HasEnd, Covered
<1> QED BY <1>3, <1>5, <1>6 DEF r, Covered

LEMMA CoveredTail ==
  ASSUME NEW q \in Seq(Message), q # <<>>, NEW p
  PROVE  /\ HasEnd(q, p) => Ends(Head(q), p) \/ HasEnd(Tail(q), p)
         /\ Covered(q, p) => /\ Covered(Tail(q), p)
                             /\ Begins(Head(q), p) => HasEnd(Tail(q), p)
<1> DEFINE r == Tail(q)
<1>1. /\ r \in Seq(Message) /\ Len(r) = Len(q) - 1 /\ Head(q) = q[1] /\ Len(q) \in Nat \ {0}
      /\ \A i \in 1..Len(r) : r[i] = q[i + 1]
  BY HeadTailProperties, EmptySeq, LenProperties
<1> HIDE DEF r
<1>2. \A i \in 1..Len(q) : i = 1 \/ (i - 1 \in 1..Len(r) /\ r[i - 1] = q[i])
  <2> TAKE i \in 1..Len(q)
  <2>1. i # 1 => i - 1 \in 1..Len(r) /\ i - 1 + 1 = i
    BY <1>1
  <2> QED BY <2>1, <1>1
<1>3. HasEnd(q, p) => Ends(Head(q), p) \/ HasEnd(r, p)
  BY <1>1, <1>2 DEF HasEnd
<1>4. ASSUME NEW i \in 1..Len(q), NEW j \in 1..Len(q), i < j, Ends(q[j], p)
      PROVE  j - 1 \in 1..Len(r) /\ Ends(r[j - 1], p)
  <2>1. j # 1
    BY <1>1, <1>4
  <2> QED BY <2>1, <1>2, <1>4
<1>5. ASSUME Covered(q, p), Begins(Head(q), p) PROVE HasEnd(r, p)
  <2>1. 1 \in 1..Len(q)
    BY <1>1
  <2>2. PICK j \in 1..Len(q) : 1 < j /\ Ends(q[j], p)
    BY <2>1, <1>1, <1>5 DEF Covered
  <2> QED BY <2>1, <2>2, <1>4 DEF HasEnd
<1>6. ASSUME Covered(q, p), NEW i \in 1..Len(r), Begins(r[i], p)
      PROVE  \E j \in 1..Len(r) : i < j /\ Ends(r[j], p)
  <2>1. i + 1 \in 1..Len(q) /\ r[i] = q[i + 1]
    BY <1>1
  <2>2. PICK j \in 1..Len(q) : i + 1 < j /\ Ends(q[j], p)
    BY <2>1, <1>6 DEF Covered
  <2>3. j - 1 \in 1..Len(r) /\ Ends(r[j - 1], p)
    BY <2>1, <2>2, <1>4
  <2>4. i < j - 1
    BY <2>2, <1>1
  <2> QED BY <2>3, <2>4
<1> QED BY <1>3, <1>5, <1>6 DEF r, Covered

(* What each branch of send() does to the queue, in these terms.           *)
LEMMA AckFacts ==
  ASSUME NEW q \in Seq(Message), NEW m \in Message, m.type \in AckTypes
  PROVE  LET r == WithAck(q, m)
         IN  /\ SameBut(q, r, {m.type}) /\ Holds(r, m.type)
             /\ \A k \in 1..Len(r) : r[k].type = m.type => r[k] = m
             /\ \A p : (HasEnd(q, p) => HasEnd(r, p)) /\ (Covered(q, p) => Covered(r, p))
<1> DEFINE w == Without(q, {m.type})
           s == <<m>> \o w
<1>1. DOMAIN q = 1..Len(q)
  BY LenProperties
<1>2. SameBut(q, w, {m.type})
  <2>1. \A n \in 1..Len(q) : n \in Places(q, {m.type}) => q[n].type \in {m.type}
    BY DEF Places
  <2> QED BY <2>1, SameButRemoved DEF Without
<1>3. w \in Seq(Message) /\ \A k \in 1..Len(w) : w[k].type # m.type
  BY WithoutTypes
<1>4. ASSUME NEW p
      PROVE  (HasEnd(q, p) => HasEnd(w, p)) /\ (Covered(q, p) => Covered(w, p))
  <2>1. \A n \in 1..Len(q) : n \in Places(q, {m.type}) => ~Ends(q[n], p)
    BY DEF Places, Ends, AckTypes
  <2> QED BY <2>1, CoveredRemoved DEF Without
<1> HIDE DEF w
<1>5. SameBut(q, s, {m.type}) /\ Holds(s, m.type)
  BY <1>2, <1>3, SameButPrepended
<1>6. ASSUME NEW p
      PROVE  (HasEnd(q, p) => HasEnd(s, p)) /\ (Covered(q, p) => Covered(s, p))
  <2>1. ~Begins(m, p)
    BY DEF Begins, AckTypes
  <2> QED BY <2>1, <1>3, <1>4, CoveredPrepended
<1>7. ASSUME NEW k \in 1..Len(s), s[k].type = m.type PROVE s[k] = m
  <2>1. /\ Len(s) = Len(w) + 1 /\ s[1] = m
        /\ \A i \in 1..(Len(w) + 1) : i # 1 => i - 1 \in 1..Len(w) /\ s[i] = w[i - 1]
    BY <1>3, Prepended
  <2> HIDE DEF s
  <2> QED BY <2>1, <1>3, <1>7
<1>8. WithAck(q, m) = s
  BY DEF WithAck, w
<1> HIDE DEF s
<1> QED BY <1>5, <1>6, <1>7, <1>8

LEMMA AudioFacts ==
  ASSUME NEW q \in Seq(Message), NEW m \in Message, m.type \in AudioTypes
  PROVE  LET r == WithAudioSwitch(q, m)
         IN  /\ SameBut(q, r, AudioTypes) /\ Holds(r, m.type)
             /\ \A k \in 1..Len(r) : r[k].type \in AudioTypes => r[k] = m
             /\ \A p : (HasEnd(q, p) => HasEnd(r, p)) /\ (Covered(q, p) => Covered(r, p))
<1> DEFINE w == Without(q, AudioTypes)
           s == Append(w, m)
<1>1. DOMAIN q = 1..Len(q)
  BY LenProperties
<1>2. SameBut(q, w, AudioTypes)
  <2>1. \A n \in 1..Len(q) : n \in Places(q, AudioTypes) => q[n].type \in AudioTypes
    BY DEF Places
  <2> QED BY <2>1, SameButRemoved DEF Without
<1>3. w \in Seq(Message) /\ \A k \in 1..Len(w) : w[k].type \notin AudioTypes
  BY WithoutTypes
<1>4. ASSUME NEW p
      PROVE  (HasEnd(q, p) => HasEnd(w, p)) /\ (Covered(q, p) => Covered(w, p))
  <2>1. \A n \in 1..Len(q) : n \in Places(q, AudioTypes) => ~Ends(q[n], p)
    BY DEF Places, Ends, AudioTypes
  <2> QED BY <2>1, CoveredRemoved DEF Without
<1> HIDE DEF w
<1>5. SameBut(q, s, AudioTypes) /\ Holds(s, m.type)
  BY <1>2, <1>3, SameButAppended
<1>6. ASSUME NEW p
      PROVE  (HasEnd(q, p) => HasEnd(s, p)) /\ (Covered(q, p) => Covered(s, p))
  <2>1. ~Begins(m, p)
    BY DEF Begins, AudioTypes
  <2> QED BY <2>1, <1>3, <1>4, CoveredAppended
<1>7. ASSUME NEW k \in 1..Len(s), s[k].type \in AudioTypes PROVE s[k] = m
  <2>1. /\ Len(s) = Len(w) + 1 /\ s[Len(w) + 1] = m /\ Len(w) \in Nat
        /\ \A i \in 1..Len(w) : s[i] = w[i]
    BY <1>3, AppendProperties, LenProperties
  <2> HIDE DEF s
  <2>2. k \in 1..Len(w) \/ k = Len(w) + 1
    BY <2>1
  <2> QED BY <2>1, <2>2, <1>3, <1>7
<1>8. WithAudioSwitch(q, m) = s
  BY DEF WithAudioSwitch, w
<1> HIDE DEF s
<1> QED BY <1>5, <1>6, <1>7, <1>8

(* Only moves make room for an input: no end of a contact is evicted.      *)
LEMMA InputFacts ==
  ASSUME NEW q \in Seq(Message), NEW m \in Message, m.type \in InputTypes
  PROVE  LET c == Coalesced(q, m)
             r == WithInput(c, m)
         IN  /\ SameBut(q, r, InputTypes)
             /\ \A p : /\ HasEnd(q, p) => HasEnd(r, p)
                       /\ Covered(q, p) /\ ~Begins(m, p) => Covered(r, p)
                       /\ Ends(m, p) /\ Fits(c) => HasEnd(r, p) /\ Covered(r, p)
<1> DEFINE Kept(s) == /\ s \in Seq(Message) /\ SameBut(q, s, InputTypes)
                      /\ \A p : /\ HasEnd(q, p) => HasEnd(s, p)
                                /\ Covered(q, p) => Covered(s, p)
           c == Coalesced(q, m)
<1>1. ASSUME NEW s, Kept(s), NEW removed, removed \subseteq Places(s, {"MOVE"})
      PROVE  Kept(Removed(s, removed))
  <2> DEFINE t == Removed(s, removed)
  <2>1. t \in Seq(Message)
    BY <1>1, RemovedKeeps
  <2>2. \A n \in 1..Len(s) : n \in removed => s[n].type = "MOVE"
    BY <1>1 DEF Places
  <2>3. SameBut(s, t, InputTypes)
    <3>1. \A n \in 1..Len(s) : n \in removed => s[n].type \in InputTypes
      BY <2>2 DEF InputTypes, TouchTypes
    <3> QED BY <3>1, <1>1, SameButRemoved
  <2>4. ASSUME NEW p
        PROVE  (HasEnd(s, p) => HasEnd(t, p)) /\ (Covered(s, p) => Covered(t, p))
    <3>1. \A n \in 1..Len(s) : n \in removed => ~Ends(s[n], p)
      BY <2>2 DEF Ends
    <3> QED BY <3>1, <1>1, CoveredRemoved
  <2> HIDE DEF t
  <2>5. SameBut(q, t, InputTypes)
    <3>1. ASSUME NEW k \in 1..Len(t), t[k].type \notin InputTypes PROVE \E n \in 1..Len(q) : q[n] = t[k]
      <4>1. PICK i \in 1..Len(s) : s[i] = t[k]
        BY <2>3, <3>1 DEF SameBut
      <4> QED BY <4>1, <1>1, <3>1 DEF SameBut
    <3>2. ASSUME NEW n \in 1..Len(q), q[n].type \notin InputTypes PROVE \E k \in 1..Len(t) : t[k] = q[n]
      <4>1. PICK i \in 1..Len(s) : s[i] = q[n]
        BY <1>1, <3>2 DEF SameBut
      <4> QED BY <4>1, <2>3, <3>2 DEF SameBut
    <3> QED BY <3>1, <3>2 DEF SameBut
  <2>6. Kept(t)
    BY <1>1, <2>1, <2>4, <2>5
  <2> QED BY <2>6 DEF t
<1>2. Kept(q)
  BY DEF SameBut
<1>3. Kept(c)
  <2>1. {i \in Places(q, {"MOVE"}) : q[i].pointer = m.pointer} \subseteq Places(q, {"MOVE"})
    OBVIOUS
  <2> HIDE DEF Kept
  <2> QED BY <2>1, <1>1, <1>2 DEF Coalesced
<1>4. ASSUME NEW s, Kept(s)
      PROVE  LET r == Append(s, m)
             IN  /\ SameBut(q, r, InputTypes)
                 /\ \A p : /\ HasEnd(q, p) => HasEnd(r, p)
                           /\ Covered(q, p) /\ ~Begins(m, p) => Covered(r, p)
                           /\ Ends(m, p) => HasEnd(r, p) /\ Covered(r, p)
  <2>1. s \in Seq(Message) /\ SameBut(q, s, InputTypes)
    BY <1>4
  <2>2. SameBut(q, Append(s, m), InputTypes)
    BY <2>1, SameButAppended
  <2>3. ASSUME NEW p
        PROVE  /\ HasEnd(q, p) => HasEnd(Append(s, m), p)
               /\ Covered(q, p) /\ ~Begins(m, p) => Covered(Append(s, m), p)
               /\ Ends(m, p) => HasEnd(Append(s, m), p) /\ Covered(Append(s, m), p)
    BY <1>4, CoveredAppended
  <2> QED BY <2>2, <2>3
<1>5. CASE Len(c) < Capacity
  <2>1. WithInput(c, m) = Append(c, m)
    BY <1>5 DEF WithInput
  <2> HIDE DEF Kept, c
  <2> QED BY <2>1, <1>3, <1>4 DEF c
<1>6. CASE ~(Len(c) < Capacity) /\ Holds(c, "MOVE")
  <2> DEFINE s == Removed(c, OldestMove(c))
  <2>1. WithInput(c, m) = Append(s, m)
    BY <1>6 DEF WithInput
  <2>2. OldestMove(c) \subseteq Places(c, {"MOVE"})
    BY DEF OldestMove
  <2> HIDE DEF Kept, c
  <2>3. Kept(s)
    BY <2>2, <1>1, <1>3
  <2> HIDE DEF s
  <2> QED BY <2>1, <2>3, <1>4 DEF c
<1>7. CASE ~(Len(c) < Capacity) /\ ~Holds(c, "MOVE")
  <2>1. WithInput(c, m) = c /\ ~Fits(c)
    BY <1>7 DEF WithInput, Fits
  <2> HIDE DEF c
  <2> QED BY <2>1, <1>3 DEF c
<1> QED BY <1>5, <1>6, <1>7

(* Behind a pending STOP_SESSION nothing is removed, ahead of it only      *)
(* touches, whose contacts the stop ends.                                  *)
LEMMA SessionFactsStop ==
  ASSUME NEW q \in Seq(Message), NEW m \in Message, Paired(q), Holds(q, "STOP_SESSION")
  PROVE  LET r == WithSession(q, m)
         IN  /\ SameBut(q, r, TouchTypes)
             /\ \A p : HasEnd(r, p) /\ (Covered(q, p) => Covered(r, p))
<1> DEFINE removed == Places(q, Purged) \cap AheadOfStop(q)
           r == Removed(q, removed)
<1>1. DOMAIN q = 1..Len(q) /\ Len(q) \in Nat
  BY LenProperties
<1>2. PICK s \in 1..Len(q) : q[s].type = "STOP_SESSION"
  BY <1>1 DEF Holds
<1>3. \A n \in 1..Len(q) : n \in removed => n < s
  <2> SUFFICES ASSUME NEW n \in 1..Len(q), n \in removed PROVE n < s
    OBVIOUS
  <2>1. \A j \in 1..n : q[j].type # "STOP_SESSION"
    BY DEF AheadOfStop
  <2>2. s \notin 1..n
    BY <1>2, <2>1
  <2> QED BY <2>2, <1>1
<1>4. \A n \in 1..Len(q) : n \in removed => q[n].type \in TouchTypes
  <2> SUFFICES ASSUME NEW n \in 1..Len(q), n \in removed PROVE q[n].type \in TouchTypes
    OBVIOUS
  <2>1. PairOK(q[n], q[s])
    BY <1>3 DEF Paired
  <2>2. q[n].type \notin SessionTypes
    BY <2>1, <1>2 DEF PairOK
  <2>3. q[n].type \in Purged
    BY DEF Places
  <2> QED BY <2>2, <2>3 DEF Purged
<1>5. s \notin removed
  BY <1>2, <1>4 DEF TouchTypes
<1>6. SameBut(q, r, TouchTypes)
  <2> HIDE DEF removed
  <2> QED BY <1>4, SameButRemoved
<1>7. ASSUME NEW p PROVE HasEnd(r, p) /\ (Covered(q, p) => Covered(r, p))
  <2>1. Ends(q[s], p)
    BY <1>2 DEF Ends
  <2> HIDE DEF removed
  <2>2. HasEnd(q, p)
    BY <2>1 DEF HasEnd
  <2> QED BY <2>1, <2>2, <1>3, <1>5, CoveredRemoved
<1>8. WithSession(q, m) = r
  BY DEF WithSession
<1> HIDE DEF r
<1> QED BY <1>6, <1>7, <1>8

(* Otherwise no touch is left, and of the session actions only a PAUSE     *)
(* that the RESUME follows.                                                *)
LEMMA SessionFacts ==
  ASSUME NEW q \in Seq(Message), NEW m \in Message, m.type \in SessionTypes,
         ~Holds(q, "STOP_SESSION")
  PROVE  LET r == WithSession(q, m)
         IN  /\ SameBut(q, r, Purged)
             /\ \A k \in 1..Len(r) : r[k].type \notin TouchTypes
             /\ \A t \in SessionTypes : Holds(r, t) <=>
                  \/ t = m.type
                  \/ t = "PAUSE_VIDEO" /\ m.type = "RESUME_VIDEO" /\ Holds(q, "PAUSE_VIDEO")
<1> DEFINE w == Without(q, Purged)
           s == <<m>> \o w
           pause == [type |-> "PAUSE_VIDEO"]
           u == <<pause>> \o s
<1>1. DOMAIN q = 1..Len(q)
  BY LenProperties
<1>2. SameBut(q, w, Purged)
  <2>1. \A n \in 1..Len(q) : n \in Places(q, Purged) => q[n].type \in Purged
    BY DEF Places
  <2> QED BY <2>1, SameButRemoved DEF Without
<1>3. w \in Seq(Message) /\ \A k \in 1..Len(w) : w[k].type \notin Purged
  BY WithoutTypes
<1> HIDE DEF w
<1>4. /\ s \in Seq(Message) /\ Len(s) = Len(w) + 1 /\ s[1] = m /\ Len(w) \in Nat
      /\ \A i \in 1..(Len(w) + 1) : i # 1 => i - 1 \in 1..Len(w) /\ s[i] = w[i - 1]
  BY <1>3, Prepended
<1>5. m.type \in Purged /\ m.type \notin TouchTypes
  BY DEF Purged, SessionTypes, TouchTypes
<1>6. SameBut(q, s, Purged) /\ Holds(s, m.type)
  BY <1>2, <1>3, <1>5, SameButPrepended
<1> HIDE DEF s
<1>7. \A k \in 1..Len(s) : s[k].type = m.type \/ s[k].type \notin Purged
  BY <1>3, <1>4
<1>8. pause \in Message /\ pause.type = "PAUSE_VIDEO" /\ pause.type \in Purged
  BY DEF Message, SessionTypes, Purged
<1>9. /\ u \in Seq(Message) /\ Len(u) = Len(s) + 1 /\ u[1] = pause
      /\ \A i \in 1..Len(s) : u[i + 1] = s[i]
      /\ \A i \in 1..(Len(s) + 1) : i # 1 => i - 1 \in 1..Len(s) /\ u[i] = s[i - 1]
  BY <1>4, <1>8, Prepended
<1>10. SameBut(q, u, Purged) /\ Holds(u, "PAUSE_VIDEO")
  BY <1>4, <1>6, <1>8, SameButPrepended
<1>11. <<pause, m>> \o w = u
  BY <1>3, <1>8 DEF s
<1> HIDE DEF pause, u
<1>12. \A k \in 1..Len(u) :
         u[k].type = "PAUSE_VIDEO" \/ u[k].type = m.type \/ u[k].type \notin Purged
  BY <1>7, <1>8, <1>9
<1>13. DOMAIN s = 1..Len(s) /\ DOMAIN u = 1..Len(u) /\ Len(s) \in Nat
  BY <1>4, <1>9, LenProperties
<1>14. Holds(u, m.type)
  <2>1. PICK i \in 1..Len(s) : s[i].type = m.type
    BY <1>6, <1>13 DEF Holds
  <2>2. i + 1 \in 1..Len(u) /\ u[i + 1].type = m.type
    BY <2>1, <1>9, <1>13
  <2> QED BY <2>2, <1>13 DEF Holds
<1>15. CASE m.type = "RESUME_VIDEO" /\ Holds(q, "PAUSE_VIDEO")
  <2>1. WithSession(q, m) = u
    BY <1>11, <1>15 DEF WithSession, pause, w
  <2>2. \A k \in 1..Len(u) : u[k].type \notin TouchTypes
    BY <1>5, <1>12 DEF Purged, TouchTypes
  <2>3. \A t \in SessionTypes : Holds(u, t) <=> t = m.type \/ t = "PAUSE_VIDEO"
    BY <1>10, <1>12, <1>13, <1>14 DEF Holds, Purged
  <2> QED BY <2>1, <2>2, <2>3, <1>10, <1>15
<1>16. CASE ~(m.type = "RESUME_VIDEO" /\ Holds(q, "PAUSE_VIDEO"))
  <2>1. WithSession(q, m) = s
    BY <1>16 DEF WithSession, w, s
  <2>2. \A k \in 1..Len(s) : s[k].type \notin TouchTypes
    BY <1>5, <1>7 DEF Purged
  <2>3. \A t \in SessionTypes : Holds(s, t) <=> t = m.type
    BY <1>6, <1>7, <1>13 DEF Holds, Purged
  <2> QED BY <2>1, <2>2, <2>3, <1>6, <1>16
<1> QED BY <1>15, <1>16

(***************************************************************************)
(* What is written, what waits and what the computer knows agree with the  *)
(* phone.                                                                  *)
(***************************************************************************)
Writing(types) == writing # <<>> /\ Head(writing).type \in types

(* A stop is on its way, or has arrived, exactly if it was requested.      *)
StopAgrees ==
  /\ ending => Holds(queue, "STOP_SESSION") \/ Writing({"STOP_SESSION"}) \/ host.stopped
  /\ ~ending => ~Holds(queue, "STOP_SESSION") /\ ~Writing({"STOP_SESSION"}) /\ ~host.stopped

(* The last visibility change, wherever it is, is what the phone is.       *)
VideoAgrees == ~ending =>
  /\ Holds(queue, "RESUME_VIDEO") => visible
  /\ Holds(queue, "PAUSE_VIDEO") /\ ~Holds(queue, "RESUME_VIDEO") => ~visible
  /\ ~Holds(queue, "PAUSE_VIDEO") /\ ~Holds(queue, "RESUME_VIDEO") =>
       /\ Writing({"RESUME_VIDEO"}) => visible
       /\ Writing({"PAUSE_VIDEO"}) => ~visible
       /\ ~Writing({"PAUSE_VIDEO", "RESUME_VIDEO"}) => host.paused = ~visible

AudioAgrees == ~ending =>
  /\ \A i \in 1..Len(queue) :
       queue[i].type \in AudioTypes => (audio <=> queue[i].type = "AUDIO_ENABLE")
  /\ (\A i \in 1..Len(queue) : queue[i].type \notin AudioTypes) =>
       /\ Writing(AudioTypes) => (audio <=> Head(writing).type = "AUDIO_ENABLE")
       /\ ~Writing(AudioTypes) => host.audio = audio

AcksAgree == ~ending => \A t \in AckTypes :
  /\ host.acked[t] <= acked[t]
  /\ \A i \in 1..Len(queue) : queue[i].type = t => queue[i].pts = acked[t]
  /\ Writing({t}) => Head(writing).pts <= acked[t]
  /\ ~Holds(queue, t) =>
       /\ Writing({t}) => Head(writing).pts = acked[t]
       /\ ~Writing({t}) => host.acked[t] = acked[t]

(* What a message being written begins, or the computer holds, of a finger *)
(* that left the screen, a message still waiting ends.                     *)
ContactsAgree ==
  /\ host.paused \/ host.stopped => host.contacts = {}
  /\ ~dropped => \A p \in Pointers \ fingers :
       /\ p \in host.contacts =>
            HasEnd(queue, p) \/ (writing # <<>> /\ Ends(Head(writing), p))
       /\ writing # <<>> /\ Begins(Head(writing), p) /\ ~host.paused /\ ~host.stopped =>
            HasEnd(queue, p)
       /\ Covered(queue, p)

Live == ~stopped /\ thread # "ended"
Agreed == StopAgrees /\ VideoAgrees /\ AudioAgrees /\ AcksAgree /\ ContactsAgree

IInv ==
  /\ TypeOK /\ Orderly(queue)
  /\ thread = "new" => ~stopped
  /\ Live => Agreed

LEMMA SameHolds ==
  ASSUME NEW q \in Seq(Message), NEW r \in Seq(Message), NEW types, SameBut(q, r, types),
         NEW t, t \notin types
  PROVE  Holds(r, t) <=> Holds(q, t)
<1>1. DOMAIN q = 1..Len(q) /\ DOMAIN r = 1..Len(r)
  BY LenProperties
<1> QED BY <1>1 DEF Holds, SameBut

(* What a step that sends one kind of message leaves as it was about the   *)
(* others.                                                                 *)
LEMMA StopKept ==
  ASSUME StopAgrees, queue \in Seq(Message), queue' \in Seq(Message), NEW types,
         SameBut(queue, queue', types), "STOP_SESSION" \notin types,
         UNCHANGED <<writing, host, ending>>
  PROVE  StopAgrees'
<1>1. Holds(queue', "STOP_SESSION") <=> Holds(queue, "STOP_SESSION")
  BY SameHolds
<1> QED BY <1>1 DEF StopAgrees, Writing

LEMMA VideoKept ==
  ASSUME VideoAgrees, queue \in Seq(Message), queue' \in Seq(Message), NEW types,
         SameBut(queue, queue', types), types \cap {"PAUSE_VIDEO", "RESUME_VIDEO"} = {},
         UNCHANGED <<writing, host, ending, visible>>
  PROVE  VideoAgrees'
<1>1. Holds(queue', "PAUSE_VIDEO") <=> Holds(queue, "PAUSE_VIDEO")
  BY SameHolds
<1>2. Holds(queue', "RESUME_VIDEO") <=> Holds(queue, "RESUME_VIDEO")
  BY SameHolds
<1> QED BY <1>1, <1>2 DEF VideoAgrees, Writing

LEMMA AudioKept ==
  ASSUME AudioAgrees, NEW types,
         SameBut(queue, queue', types), types \cap AudioTypes = {},
         UNCHANGED <<writing, host, ending, audio>>
  PROVE  AudioAgrees'
<1>1. SUFFICES ASSUME ~ending
               PROVE  /\ \A i \in 1..Len(queue') : queue'[i].type \in AudioTypes =>
                           (audio <=> queue'[i].type = "AUDIO_ENABLE")
                      /\ (\A i \in 1..Len(queue') : queue'[i].type \notin AudioTypes) =>
                           /\ Writing(AudioTypes) => (audio <=> Head(writing).type = "AUDIO_ENABLE")
                           /\ ~Writing(AudioTypes) => host.audio = audio
  BY DEF AudioAgrees, Writing
<1>2. ASSUME NEW i \in 1..Len(queue'), queue'[i].type \in AudioTypes
      PROVE  audio <=> queue'[i].type = "AUDIO_ENABLE"
  <2>1. PICK n \in 1..Len(queue) : queue[n] = queue'[i]
    BY <1>2 DEF SameBut
  <2> QED BY <1>1, <1>2, <2>1 DEF AudioAgrees
<1>3. ASSUME \A i \in 1..Len(queue') : queue'[i].type \notin AudioTypes
      PROVE  \A i \in 1..Len(queue) : queue[i].type \notin AudioTypes
  BY <1>3 DEF SameBut
<1> QED BY <1>1, <1>2, <1>3 DEF AudioAgrees

LEMMA AcksKept ==
  ASSUME AcksAgree, queue \in Seq(Message), queue' \in Seq(Message), NEW types,
         SameBut(queue, queue', types), types \cap AckTypes = {},
         UNCHANGED <<writing, host, ending, acked>>
  PROVE  AcksAgree'
<1>1. ASSUME ~ending, NEW t \in AckTypes
      PROVE  /\ host.acked[t] <= acked[t]
             /\ \A i \in 1..Len(queue') : queue'[i].type = t => queue'[i].pts = acked[t]
             /\ Writing({t}) => Head(writing).pts <= acked[t]
             /\ ~Holds(queue', t) =>
                  /\ Writing({t}) => Head(writing).pts = acked[t]
                  /\ ~Writing({t}) => host.acked[t] = acked[t]
  <2>1. Holds(queue', t) <=> Holds(queue, t)
    BY SameHolds
  <2>2. ASSUME NEW i \in 1..Len(queue'), queue'[i].type = t PROVE queue'[i].pts = acked[t]
    <3>1. PICK n \in 1..Len(queue) : queue[n] = queue'[i]
      BY <2>2 DEF SameBut
    <3> QED BY <1>1, <2>2, <3>1 DEF AcksAgree
  <2> QED BY <1>1, <2>1, <2>2 DEF AcksAgree
<1> QED BY <1>1 DEF AcksAgree, Writing

LEMMA ContactsKept ==
  ASSUME ContactsAgree,
         \A p \in Pointers \ fingers :
           (HasEnd(queue, p) => HasEnd(queue', p)) /\ (Covered(queue, p) => Covered(queue', p)),
         UNCHANGED <<writing, host, fingers, dropped>>
  PROVE  ContactsAgree'
BY DEF ContactsAgree

HostTyped(h) == h \in [contacts : SUBSET Pointers, paused : BOOLEAN,
                       audio : BOOLEAN, acked : [AckTypes -> -1..MaxPts],
                       stopped : BOOLEAN]

(* What a message changes at the computer, one field at a time.            *)
LEMMA HostFacts ==
  ASSUME SenderAssumption, HostTyped(host), NEW m \in Message
  PROVE  LET h == HostAfter(m)
         IN  /\ HostTyped(h)
             /\ host.stopped => h = host
             /\ ~host.stopped =>
                  /\ h.stopped = (m.type = "STOP_SESSION")
                  /\ m.type = "PAUSE_VIDEO" => h.paused
                  /\ m.type = "RESUME_VIDEO" => ~h.paused
                  /\ m.type \notin {"PAUSE_VIDEO", "RESUME_VIDEO"} => h.paused = host.paused
                  /\ m.type \in AudioTypes => (h.audio <=> m.type = "AUDIO_ENABLE")
                  /\ m.type \notin AudioTypes => h.audio = host.audio
                  /\ \A t \in AckTypes :
                       h.acked[t] = IF m.type = t /\ m.pts > host.acked[t]
                                    THEN m.pts ELSE host.acked[t]
                  /\ m.type \in {"PAUSE_VIDEO", "STOP_SESSION"} => h.contacts = {}
                  /\ ~host.paused => \A p \in Pointers :
                       /\ Ends(m, p) => p \notin h.contacts
                       /\ p \in h.contacts => p \in host.contacts \/ Begins(m, p)
                  /\ host.paused /\ m.type \notin {"PAUSE_VIDEO", "STOP_SESSION"} =>
                       h.contacts = host.contacts
<1> DEFINE h == HostAfter(m)
<1>1. /\ host.contacts \subseteq Pointers /\ host.paused \in BOOLEAN /\ host.audio \in BOOLEAN
      /\ host.acked \in [AckTypes -> -1..MaxPts] /\ host.stopped \in BOOLEAN
      /\ host = [contacts |-> host.contacts, paused |-> host.paused, audio |-> host.audio,
                 acked |-> host.acked, stopped |-> host.stopped]
  BY DEF HostTyped
<1>2. CASE host.stopped
  BY <1>2 DEF HostAfter
<1>3. CASE ~host.stopped /\ m.type \in AckTypes
  <2>1. h = [host EXCEPT !.acked[m.type] = IF m.pts > @ THEN m.pts ELSE @]
    BY <1>3 DEF HostAfter, AckTypes, AudioTypes, TouchTypes
  <2>2. m.pts \in 0..MaxPts
    BY <1>3 DEF Message, AckTypes, TouchTypes, SessionTypes, AudioTypes
  <2>3. /\ h.contacts = host.contacts /\ h.paused = host.paused /\ h.audio = host.audio
        /\ h.stopped = host.stopped
        /\ h.acked = [host.acked EXCEPT ![m.type] = IF m.pts > @ THEN m.pts ELSE @]
    BY <2>1, <1>1
  <2>4. h.acked \in [AckTypes -> -1..MaxPts]
    BY <2>2, <2>3, <1>1, <1>3 DEF SenderAssumption
  <2>5. HostTyped(h)
    BY <2>1, <2>4, <1>1 DEF HostTyped
  <2>6. \A t \in AckTypes : h.acked[t] = IF m.type = t /\ m.pts > host.acked[t]
                                         THEN m.pts ELSE host.acked[t]
    BY <2>3, <1>1, <1>3
  <2> HIDE DEF h
  <2> QED BY <2>3, <2>5, <2>6, <1>1, <1>3 DEF Ends, AckTypes, AudioTypes, h
<1>4. CASE ~host.stopped /\ m.type \in AudioTypes
  <2>1. h = [host EXCEPT !.audio = (m.type = "AUDIO_ENABLE")]
    BY <1>4 DEF HostAfter, AckTypes, AudioTypes, TouchTypes
  <2>2. /\ h.contacts = host.contacts /\ h.paused = host.paused
        /\ h.audio = (m.type = "AUDIO_ENABLE")
        /\ h.stopped = host.stopped /\ h.acked = host.acked
    BY <2>1, <1>1
  <2>3. HostTyped(h)
    BY <2>1, <1>1 DEF HostTyped
  <2> HIDE DEF h
  <2> QED BY <2>2, <2>3, <1>1, <1>4 DEF Ends, AckTypes, AudioTypes, h
<1>5. CASE ~host.stopped /\ m.type = "RESUME_VIDEO"
  <2>1. h = [host EXCEPT !.paused = FALSE]
    BY <1>5 DEF HostAfter, AckTypes, AudioTypes, TouchTypes
  <2>2. /\ h.contacts = host.contacts /\ h.paused = FALSE /\ h.audio = host.audio
        /\ h.stopped = host.stopped /\ h.acked = host.acked
    BY <2>1, <1>1
  <2>3. HostTyped(h)
    BY <2>1, <1>1 DEF HostTyped
  <2> HIDE DEF h
  <2> QED BY <2>2, <2>3, <1>1, <1>5 DEF Ends, AckTypes, AudioTypes, h
<1>6. CASE ~host.stopped /\ m.type = "PAUSE_VIDEO"
  <2>1. h = [host EXCEPT !.paused = TRUE, !.contacts = {}]
    BY <1>6 DEF HostAfter, AckTypes, AudioTypes, TouchTypes
  <2>2. /\ h.contacts = {} /\ h.paused = TRUE /\ h.audio = host.audio
        /\ h.stopped = host.stopped /\ h.acked = host.acked
    BY <2>1, <1>1
  <2>3. HostTyped(h)
    BY <2>1, <1>1 DEF HostTyped
  <2> HIDE DEF h
  <2> QED BY <2>2, <2>3, <1>1, <1>6 DEF Ends, AckTypes, AudioTypes, h
<1>7. CASE ~host.stopped /\ m.type = "STOP_SESSION"
  <2>1. h = [host EXCEPT !.stopped = TRUE, !.contacts = {}]
    BY <1>7 DEF HostAfter, AckTypes, AudioTypes, TouchTypes
  <2>2. /\ h.contacts = {} /\ h.paused = host.paused /\ h.audio = host.audio
        /\ h.stopped = TRUE /\ h.acked = host.acked
    BY <2>1, <1>1
  <2>3. HostTyped(h)
    BY <2>1, <1>1 DEF HostTyped
  <2> HIDE DEF h
  <2> QED BY <2>2, <2>3, <1>1, <1>7 DEF Ends, AckTypes, AudioTypes, h
<1>8. CASE ~host.stopped /\ (m.type = "OTHER" \/ (m.type \in TouchTypes /\ host.paused))
  <2>1. h = host
    BY <1>8 DEF HostAfter, AckTypes, AudioTypes, TouchTypes
  <2> HIDE DEF h
  <2> QED BY <2>1, <1>1, <1>8 DEF Ends, AckTypes, AudioTypes, TouchTypes, HostTyped, h
<1>9. CASE ~host.stopped /\ m.type \in TouchTypes /\ ~host.paused
  <2>1. m.pointer \in Pointers
    BY <1>9 DEF Message, AckTypes, TouchTypes, SessionTypes, AudioTypes
  <2>2. h = [host EXCEPT !.contacts =
               CASE m.type = "DOWN" -> {m.pointer}
                 [] m.type = "POINTER_DOWN" -> host.contacts \cup {m.pointer}
                 [] m.type = "MOVE" -> host.contacts
                 [] m.type = "UP" -> host.contacts \ {m.pointer}
                 [] m.type = "CANCEL" -> {}]
    <3>1. CASE m.type = "DOWN"
      BY <3>1, <1>1, <1>9 DEF HostAfter, AckTypes, AudioTypes, TouchTypes
    <3>2. CASE m.type = "POINTER_DOWN"
      BY <3>2, <1>1, <1>9 DEF HostAfter, AckTypes, AudioTypes, TouchTypes
    <3>3. CASE m.type = "MOVE"
      BY <3>3, <1>1, <1>9 DEF HostAfter, AckTypes, AudioTypes, TouchTypes
    <3>4. CASE m.type = "UP"
      BY <3>4, <1>1, <1>9 DEF HostAfter, AckTypes, AudioTypes, TouchTypes
    <3>5. CASE m.type = "CANCEL"
      BY <3>5, <1>1, <1>9 DEF HostAfter, AckTypes, AudioTypes, TouchTypes
    <3> QED BY <3>1, <3>2, <3>3, <3>4, <3>5, <1>9 DEF TouchTypes
  <2>3. h.contacts = CASE m.type = "DOWN" -> {m.pointer}
                       [] m.type = "POINTER_DOWN" -> host.contacts \cup {m.pointer}
                       [] m.type = "MOVE" -> host.contacts
                       [] m.type = "UP" -> host.contacts \ {m.pointer}
                       [] m.type = "CANCEL" -> {}
    BY <2>2, <1>1
  <2>4. /\ h.paused = host.paused /\ h.audio = host.audio
        /\ h.stopped = host.stopped /\ h.acked = host.acked
    BY <2>2, <1>1
  <2>5. h.contacts \subseteq Pointers
    BY <2>1, <2>3, <1>1, <1>9 DEF TouchTypes
  <2>6. HostTyped(h)
    BY <2>2, <2>3, <2>5, <1>1 DEF HostTyped
  <2>7. \A p \in Pointers : /\ Ends(m, p) => p \notin h.contacts
                            /\ p \in h.contacts => p \in host.contacts \/ Begins(m, p)
    BY <2>3, <1>9 DEF TouchTypes, Ends, Begins
  <2> HIDE DEF h
  <2> QED BY <2>4, <2>6, <2>7, <1>1, <1>9 DEF AckTypes, AudioTypes, TouchTypes, h
<1> QED BY <1>2, <1>3, <1>4, <1>5, <1>6, <1>7, <1>8, <1>9
        DEF Message, SessionTypes

(***************************************************************************)
(* send() as a step.                                                       *)
(***************************************************************************)
LEMMA SendOrderly ==
  ASSUME SenderAssumption, Orderly(queue), NEW m \in Message, Send(m)
  PROVE  Orderly(queue') /\ queue' \in Seq(Message)
<1>1. CASE stopped
  BY <1>1 DEF Send, Orderly
<1>2. CASE ~stopped /\ m.type \in SessionTypes
  BY <1>2, SessionOrderly DEF Send, Orderly
<1>3. CASE ~stopped /\ m.type \notin SessionTypes /\ m.type \in AckTypes
  BY <1>3, AckOrderly DEF Send, Orderly
<1>4. CASE ~stopped /\ m.type \notin SessionTypes /\ m.type \notin AckTypes /\ m.type \in AudioTypes
  BY <1>4, AudioOrderly DEF Send, Orderly
<1>5. CASE /\ ~stopped
           /\ m.type \notin SessionTypes /\ m.type \notin AckTypes /\ m.type \notin AudioTypes
  <2>1. m.type \in InputTypes
    BY <1>5 DEF Message, InputTypes
  <2>2. queue' = WithInput(Coalesced(queue, m), m)
    BY <1>5 DEF Send
  <2> QED BY <2>1, <2>2, InputOrderly DEF Orderly
<1> QED BY <1>1, <1>2, <1>3, <1>4, <1>5

(* An input disturbs nothing but the contacts, and those only if it begins *)
(* one; one that ends a contact covers it unless it is dropped.            *)
LEMMA SendInput ==
  ASSUME SenderAssumption, TypeOK, Orderly(queue), Agreed, ~stopped,
         NEW m \in Message, m.type \in InputTypes, Send(m),
         UNCHANGED <<visible, audio, acked, ending>>,
         \A p \in Pointers \ fingers' : ~Begins(m, p) /\ (p \in fingers => Ends(m, p)),
         \A p \in Pointers : Ends(m, p) => m.type \in {"UP", "CANCEL"}
  PROVE  Agreed'
<1> DEFINE c == Coalesced(queue, m)
<1>1. m.type \notin SessionTypes /\ m.type \notin AckTypes /\ m.type \notin AudioTypes
  BY DEF InputTypes, TouchTypes, SessionTypes, AckTypes, AudioTypes
<1>2. /\ queue' = WithInput(c, m) /\ UNCHANGED <<writing, host>>
      /\ dropped' = (dropped \/ (~Fits(c) /\ m.type \in {"UP", "CANCEL"}))
  BY <1>1 DEF Send
<1>3. queue \in Seq(Message) /\ queue' \in Seq(Message)
  BY SendOrderly DEF Orderly
<1>4. /\ SameBut(queue, queue', InputTypes)
      /\ \A p : /\ HasEnd(queue, p) => HasEnd(queue', p)
                /\ Covered(queue, p) /\ ~Begins(m, p) => Covered(queue', p)
                /\ Ends(m, p) /\ Fits(c) => HasEnd(queue', p) /\ Covered(queue', p)
  BY <1>2, <1>3, InputFacts
<1> HIDE DEF c
<1>5. StopAgrees'
  BY <1>2, <1>3, <1>4, StopKept DEF Agreed, InputTypes, TouchTypes
<1>6. VideoAgrees'
  <2>1. InputTypes \cap {"PAUSE_VIDEO", "RESUME_VIDEO"} = {}
    BY DEF InputTypes, TouchTypes
  <2> QED BY <1>2, <1>3, <1>4, <2>1, VideoKept DEF Agreed
<1>7. AudioAgrees'
  <2>1. InputTypes \cap AudioTypes = {}
    BY DEF InputTypes, TouchTypes, AudioTypes
  <2> QED BY <1>2, <1>4, <2>1, AudioKept DEF Agreed
<1>8. AcksAgree'
  <2>1. InputTypes \cap AckTypes = {}
    BY DEF InputTypes, TouchTypes, AckTypes
  <2> QED BY <1>2, <1>3, <1>4, <2>1, AcksKept DEF Agreed
<1>9. ContactsAgree'
  <2>1. host'.paused \/ host'.stopped => host'.contacts = {}
    BY <1>2 DEF Agreed, ContactsAgree
  <2>2. ASSUME ~dropped', NEW p \in Pointers \ fingers'
        PROVE  /\ p \in host'.contacts =>
                    HasEnd(queue', p) \/ (writing' # <<>> /\ Ends(Head(writing'), p))
               /\ writing' # <<>> /\ Begins(Head(writing'), p) /\ ~host'.paused /\ ~host'.stopped =>
                    HasEnd(queue', p)
               /\ Covered(queue', p)
    <3>1. ~dropped /\ (m.type \in {"UP", "CANCEL"} => Fits(c)) /\ ~Begins(m, p)
      BY <1>2, <2>2
    <3>2. CASE p \in fingers
      <4>1. HasEnd(queue', p) /\ Covered(queue', p)
        BY <1>4, <3>1, <3>2
      <4> QED BY <4>1
    <3>3. CASE p \notin fingers
      <4>1. /\ p \in host.contacts => HasEnd(queue, p) \/ (writing # <<>> /\ Ends(Head(writing), p))
            /\ writing # <<>> /\ Begins(Head(writing), p) /\ ~host.paused /\ ~host.stopped =>
                 HasEnd(queue, p)
            /\ Covered(queue, p)
        BY <3>1, <3>3 DEF Agreed, ContactsAgree
      <4> QED BY <4>1, <3>1, <1>2, <1>4
    <3> QED BY <3>2, <3>3
  <2> QED BY <2>1, <2>2 DEF ContactsAgree
<1> QED BY <1>5, <1>6, <1>7, <1>8, <1>9 DEF Agreed

(***************************************************************************)
(* The invariant is inductive.                                             *)
(***************************************************************************)
(* A send that a stopped sender ignores.                                   *)
LEMMA SendInvariant ==
  ASSUME SenderAssumption, IInv, NEW m \in Message, Send(m), TypeOK', Live => Agreed'
  PROVE  IInv'
<1>1. Orderly(queue')
  BY SendOrderly DEF IInv
<1>2. UNCHANGED <<stopped, thread>>
  BY DEF Send
<1> QED BY <1>1, <1>2 DEF IInv, Live

(* send() keeps the types; its callers account for their own variables.    *)
LEMMA SendTyped ==
  ASSUME SenderAssumption, IInv, NEW m \in Message, Send(m),
         fingers' \subseteq Pointers, {visible', audio', ending'} \subseteq BOOLEAN,
         acked' \in [AckTypes -> -1..MaxPts], switches' \in 0..MaxSwitches
  PROVE  TypeOK'
<1>1. queue' \in Seq(Message)
  BY SendOrderly DEF IInv
<1>2. UNCHANGED <<stopped, thread, writing, host>> /\ dropped' \in BOOLEAN
  BY DEF Send, IInv, TypeOK
<1> QED BY <1>1, <1>2 DEF IInv, TypeOK

(* One lemma per action.                                                   *)
LEMMA SendTouchStep ==
  ASSUME SenderAssumption, IInv, NEW type \in TouchTypes, NEW pointer \in Pointers,
         SendTouch(type, pointer)
  PROVE  IInv'
<1> DEFINE m == [type |-> type, pointer |-> pointer]
<1>1. m \in Message /\ m.type = type /\ m.pointer = pointer
  BY DEF Message
<1>2. Send(m) /\ UNCHANGED <<visible, audio, acked, ending, switches>>
  BY DEF SendTouch
<1> HIDE DEF m
<1>3. \/ type = "DOWN" /\ fingers' = {pointer} /\ fingers = {}
      \/ type = "POINTER_DOWN" /\ fingers' = fingers \cup {pointer}
      \/ type = "MOVE" /\ fingers' = fingers
      \/ type = "UP" /\ fingers' = fingers \ {pointer}
      \/ type = "CANCEL" /\ fingers' = {}
  BY DEF SendTouch, TouchTypes
<1>4. TypeOK'
  <2>1. fingers' \subseteq Pointers
    BY <1>3 DEF IInv, TypeOK
  <2> QED BY <1>1, <1>2, <2>1, SendTyped DEF IInv, TypeOK
<1>5. ASSUME Live PROVE Agreed'
  <2>1. m.type \in InputTypes
    BY <1>1 DEF InputTypes
  <2>2. \A p \in Pointers \ fingers' : ~Begins(m, p) /\ (p \in fingers => Ends(m, p))
    BY <1>1, <1>3 DEF Begins, Ends
  <2>3. \A p \in Pointers : Ends(m, p) => m.type \in {"UP", "CANCEL"}
    BY <1>1 DEF Ends, TouchTypes
  <2> QED BY <1>1, <1>2, <1>5, <2>1, <2>2, <2>3, SendInput DEF IInv, Live
<1> QED BY <1>1, <1>2, <1>4, <1>5, SendInvariant

LEMMA SendOtherStep ==
  ASSUME SenderAssumption, IInv, SendOther
  PROVE  IInv'
<1> DEFINE m == [type |-> "OTHER"]
<1>1. m \in Message /\ m.type = "OTHER"
  BY DEF Message
<1>2. /\ Send(m) /\ UNCHANGED <<fingers, visible, audio, acked, ending>>
      /\ switches' = switches + 1 /\ switches < MaxSwitches
  BY DEF SendOther, Switch
<1> HIDE DEF m
<1>3. TypeOK'
  <2>1. switches' \in 0..MaxSwitches
    BY <1>2 DEF IInv, TypeOK, SenderAssumption
  <2> QED BY <1>1, <1>2, <2>1, SendTyped DEF IInv, TypeOK
<1>4. ASSUME Live PROVE Agreed'
  <2>1. m.type \in InputTypes
    BY <1>1 DEF InputTypes
  <2>2. \A p : ~Begins(m, p) /\ ~Ends(m, p)
    BY <1>1 DEF Begins, Ends
  <2> QED BY <1>1, <1>2, <1>4, <2>1, <2>2, SendInput DEF IInv, Live
<1> QED BY <1>1, <1>2, <1>3, <1>4, SendInvariant

LEMMA SendAckStep ==
  ASSUME SenderAssumption, IInv, NEW type \in AckTypes, SendAck(type)
  PROVE  IInv'
<1> DEFINE m == [type |-> type, pts |-> acked'[type]]
<1>1. /\ acked[type] < MaxPts /\ acked' = [acked EXCEPT ![type] = acked[type] + 1]
      /\ Send(m) /\ UNCHANGED <<fingers, visible, audio, ending, switches>>
  BY DEF SendAck
<1>2. /\ acked \in [AckTypes -> -1..MaxPts] /\ MaxPts \in Int
      /\ acked'[type] = acked[type] + 1 /\ acked[type] \in Int
      /\ \A t \in AckTypes : t # type => acked'[t] = acked[t]
      /\ acked' \in [AckTypes -> -1..MaxPts] /\ acked'[type] \in 0..MaxPts
  BY <1>1 DEF IInv, TypeOK, SenderAssumption
<1>3. m \in Message /\ m.type = type /\ m.pts = acked'[type]
  BY <1>2 DEF Message
<1> HIDE DEF m
<1>4. TypeOK'
  BY <1>1, <1>2, <1>3, SendTyped DEF IInv, TypeOK
<1>5. ASSUME Live PROVE Agreed'
  <2>1. m.type \notin SessionTypes /\ m.type \in AckTypes
    BY <1>3 DEF SessionTypes, AckTypes
  <2>2. queue' = WithAck(queue, m) /\ UNCHANGED <<dropped, writing, host>>
    BY <1>1, <1>5, <2>1 DEF Send, Live
  <2>3. queue \in Seq(Message) /\ queue' \in Seq(Message)
    BY <1>1, <1>3, SendOrderly DEF IInv, Orderly
  <2>4. /\ SameBut(queue, queue', {type}) /\ Holds(queue', type)
        /\ \A k \in 1..Len(queue') : queue'[k].type = type => queue'[k] = m
        /\ \A p : /\ HasEnd(queue, p) => HasEnd(queue', p)
                  /\ Covered(queue, p) => Covered(queue', p)
    BY <1>3, <2>1, <2>2, <2>3, AckFacts
  <2>5. Agreed
    BY <1>5 DEF IInv
  <2>6. StopAgrees'
    <3>1. "STOP_SESSION" \notin {type}
      BY DEF AckTypes
    <3> QED BY <1>1, <2>2, <2>3, <2>4, <2>5, <3>1, StopKept DEF Agreed
  <2>7. VideoAgrees'
    <3>1. {type} \cap {"PAUSE_VIDEO", "RESUME_VIDEO"} = {}
      BY DEF AckTypes
    <3> QED BY <1>1, <2>2, <2>3, <2>4, <2>5, <3>1, VideoKept DEF Agreed
  <2>8. AudioAgrees'
    <3>1. {type} \cap AudioTypes = {}
      BY DEF AckTypes, AudioTypes
    <3> QED BY <1>1, <2>2, <2>4, <2>5, <3>1, AudioKept DEF Agreed
  <2>9. ContactsAgree'
    BY <1>1, <2>2, <2>4, <2>5, ContactsKept DEF Agreed
  <2>10. AcksAgree'
    <3>1. ASSUME ~ending, NEW t \in AckTypes
          PROVE  /\ host.acked[t] <= acked'[t]
                 /\ \A i \in 1..Len(queue') : queue'[i].type = t => queue'[i].pts = acked'[t]
                 /\ Writing({t}) => Head(writing).pts <= acked'[t]
                 /\ ~Holds(queue', t) =>
                      /\ Writing({t}) => Head(writing).pts = acked'[t]
                      /\ ~Writing({t}) => host.acked[t] = acked'[t]
      <4>1. /\ host.acked[t] <= acked[t]
            /\ \A i \in 1..Len(queue) : queue[i].type = t => queue[i].pts = acked[t]
            /\ Writing({t}) => Head(writing).pts <= acked[t]
            /\ ~Holds(queue, t) =>
                 /\ Writing({t}) => Head(writing).pts = acked[t]
                 /\ ~Writing({t}) => host.acked[t] = acked[t]
        BY <3>1, <2>5 DEF Agreed, AcksAgree
      <4>2. CASE t = type
        <5>1. host.acked[t] \in Int /\ (Writing({t}) => Head(writing).pts \in Int)
          <6>1. host.acked[t] \in Int
            BY DEF IInv, TypeOK
          <6>2. ASSUME Writing({t}) PROVE Head(writing).pts \in Int
            <7>1. Head(writing) \in Message /\ Head(writing).type \in AckTypes
              BY <6>2, HeadTailProperties DEF IInv, TypeOK, Writing
            <7> QED BY <7>1 DEF Message, AckTypes, SessionTypes, AudioTypes, TouchTypes
          <6> QED BY <6>1, <6>2
        <5>2. \A i \in 1..Len(queue') : queue'[i].type = t => queue'[i].pts = acked'[t]
          BY <4>2, <2>4, <1>3
        <5>3. host.acked[t] <= acked'[t] /\ (Writing({t}) => Head(writing).pts <= acked'[t])
          BY <4>1, <4>2, <5>1, <1>2
        <5> QED BY <4>2, <5>2, <5>3, <2>4
      <4>3. CASE t # type
        <5>1. acked'[t] = acked[t]
          BY <4>3, <1>2
        <5>2. Holds(queue', t) <=> Holds(queue, t)
          BY <4>3, <2>3, <2>4, SameHolds
        <5>3. ASSUME NEW i \in 1..Len(queue'), queue'[i].type = t PROVE queue'[i].pts = acked[t]
          <6>1. PICK n \in 1..Len(queue) : queue[n] = queue'[i]
            BY <4>3, <5>3, <2>4 DEF SameBut
          <6> QED BY <4>1, <5>3, <6>1
        <5> QED BY <4>1, <5>1, <5>2, <5>3
      <4> QED BY <4>2, <4>3
    <3> QED BY <1>1, <2>2, <3>1 DEF AcksAgree, Writing
  <2> QED BY <2>6, <2>7, <2>8, <2>9, <2>10 DEF Agreed
<1> QED BY <1>1, <1>3, <1>4, <1>5, SendInvariant

LEMMA SendAudioStep ==
  ASSUME SenderAssumption, IInv, SendAudioSwitch
  PROVE  IInv'
<1> DEFINE m == [type |-> IF audio' THEN "AUDIO_ENABLE" ELSE "AUDIO_DISABLE"]
<1>1. /\ Send(m) /\ audio' = ~audio /\ UNCHANGED <<fingers, visible, acked, ending>>
      /\ switches' = switches + 1 /\ switches < MaxSwitches
  BY DEF SendAudioSwitch, Switch
<1>2. m \in Message /\ m.type \in AudioTypes /\ (audio' <=> m.type = "AUDIO_ENABLE")
  BY DEF Message, AudioTypes
<1> HIDE DEF m
<1>3. TypeOK'
  <2>1. switches' \in 0..MaxSwitches
    BY <1>1 DEF IInv, TypeOK, SenderAssumption
  <2>2. {visible', audio', ending'} \subseteq BOOLEAN
    BY <1>1 DEF IInv, TypeOK
  <2> QED BY <1>1, <1>2, <2>1, <2>2, SendTyped DEF IInv, TypeOK
<1>4. ASSUME Live PROVE Agreed'
  <2>1. m.type \notin SessionTypes /\ m.type \notin AckTypes
    BY <1>2 DEF SessionTypes, AckTypes, AudioTypes
  <2>2. queue' = WithAudioSwitch(queue, m) /\ UNCHANGED <<dropped, writing, host>>
    BY <1>1, <1>2, <1>4, <2>1 DEF Send, Live
  <2>3. queue \in Seq(Message) /\ queue' \in Seq(Message)
    BY <1>1, <1>2, SendOrderly DEF IInv, Orderly
  <2>4. /\ SameBut(queue, queue', AudioTypes) /\ Holds(queue', m.type)
        /\ \A k \in 1..Len(queue') : queue'[k].type \in AudioTypes => queue'[k] = m
        /\ \A p : /\ HasEnd(queue, p) => HasEnd(queue', p)
                  /\ Covered(queue, p) => Covered(queue', p)
    BY <1>2, <2>2, <2>3, AudioFacts
  <2>5. Agreed
    BY <1>4 DEF IInv
  <2>6. StopAgrees'
    <3>1. "STOP_SESSION" \notin AudioTypes
      BY DEF AudioTypes
    <3> QED BY <1>1, <2>2, <2>3, <2>4, <2>5, <3>1, StopKept DEF Agreed
  <2>7. VideoAgrees'
    <3>1. AudioTypes \cap {"PAUSE_VIDEO", "RESUME_VIDEO"} = {}
      BY DEF AudioTypes
    <3> QED BY <1>1, <2>2, <2>3, <2>4, <2>5, <3>1, VideoKept DEF Agreed
  <2>8. AcksAgree'
    <3>1. AudioTypes \cap AckTypes = {}
      BY DEF AckTypes, AudioTypes
    <3> QED BY <1>1, <2>2, <2>3, <2>4, <2>5, <3>1, AcksKept DEF Agreed
  <2>9. ContactsAgree'
    BY <1>1, <2>2, <2>4, <2>5, ContactsKept DEF Agreed
  <2>10. AudioAgrees'
    <3>1. \A i \in 1..Len(queue') :
            queue'[i].type \in AudioTypes => (audio' <=> queue'[i].type = "AUDIO_ENABLE")
      BY <1>2, <2>4
    <3>2. \E i \in 1..Len(queue') : queue'[i].type \in AudioTypes
      BY <1>2, <2>3, <2>4, LenProperties DEF Holds
    <3> QED BY <3>1, <3>2 DEF AudioAgrees
  <2> QED BY <2>6, <2>7, <2>8, <2>9, <2>10 DEF Agreed
<1> QED BY <1>1, <1>2, <1>3, <1>4, SendInvariant

(* A session action that leaves no touch waiting leaves a contact only     *)
(* where the computer will be told to end it.                              *)
LEMMA SessionContacts ==
  ASSUME IInv, Live, NEW m \in Message, m.type \in SessionTypes, Send(m),
         m.type = "RESUME_VIDEO" /\ ~ending => ~visible,
         UNCHANGED fingers
  PROVE  ContactsAgree'
<1>1. queue' = WithSession(queue, m) /\ UNCHANGED <<dropped, writing, host>>
  BY DEF Send, Live
<1>2. queue \in Seq(Message) /\ Paired(queue) /\ Agreed
  BY DEF IInv, Orderly
<1>3. CASE Holds(queue, "STOP_SESSION")
  <2>1. \A p : HasEnd(queue', p) /\ (Covered(queue, p) => Covered(queue', p))
    BY <1>1, <1>2, <1>3, SessionFactsStop
  <2> QED BY <1>1, <1>2, <2>1, ContactsKept DEF Agreed
<1>4. CASE ~Holds(queue, "STOP_SESSION")
  <2>1. /\ \A k \in 1..Len(queue') : queue'[k].type \notin TouchTypes
        /\ \A t \in SessionTypes : Holds(queue', t) <=>
             \/ t = m.type
             \/ t = "PAUSE_VIDEO" /\ m.type = "RESUME_VIDEO" /\ Holds(queue, "PAUSE_VIDEO")
    BY <1>1, <1>2, <1>4, SessionFacts
  <2>2. \A p : Covered(queue', p)
    BY <2>1 DEF Covered, Begins, TouchTypes
  <2>3. Holds(queue', "PAUSE_VIDEO") \/ Holds(queue', "STOP_SESSION") => \A p : HasEnd(queue', p)
    <3>1. \A i \in DOMAIN queue' : i \in 1..Len(queue')
      <4>1. CASE Holds(queue, "PAUSE_VIDEO") /\ m.type = "RESUME_VIDEO"
        <5>1. queue' = <<[type |-> "PAUSE_VIDEO"], m>> \o Without(queue, Purged)
          BY <1>1, <1>4, <4>1 DEF WithSession
        <5>2. <<[type |-> "PAUSE_VIDEO"], m>> \in Seq(Message)
          BY DEF Message, SessionTypes
        <5>3. queue' \in Seq(Message)
          BY <5>1, <5>2, <1>2, WithoutTypes, ConcatProperties
        <5> QED BY <5>3, LenProperties
      <4>2. CASE ~(Holds(queue, "PAUSE_VIDEO") /\ m.type = "RESUME_VIDEO")
        <5>1. queue' = <<m>> \o Without(queue, Purged)
          BY <1>1, <1>4, <4>2 DEF WithSession
        <5>2. queue' \in Seq(Message)
          BY <5>1, <1>2, WithoutTypes, Prepended
        <5> QED BY <5>2, LenProperties
      <4> QED BY <4>1, <4>2
    <3> QED BY <3>1 DEF Holds, HasEnd, Ends
  <2>4. CASE Holds(queue', "PAUSE_VIDEO") \/ Holds(queue', "STOP_SESSION")
    BY <1>1, <1>2, <2>2, <2>3, <2>4 DEF Agreed, ContactsAgree
  <2>5. CASE ~Holds(queue', "PAUSE_VIDEO") /\ ~Holds(queue', "STOP_SESSION")
    <3>1. m.type = "RESUME_VIDEO" /\ ~Holds(queue, "PAUSE_VIDEO")
      BY <2>1, <2>5 DEF SessionTypes
    <3>2. CASE ending
      <4>1. Writing({"STOP_SESSION"}) \/ host.stopped
        BY <1>2, <1>4, <3>2 DEF Agreed, StopAgrees
      <4> QED BY <1>1, <1>2, <2>2, <4>1 DEF Agreed, ContactsAgree, Writing, Ends, Begins
    <3>3. CASE ~ending
      <4>1. ~visible
        BY <3>1, <3>3
      <4>2. Writing({"PAUSE_VIDEO"}) \/ host.paused
        BY <1>2, <3>1, <3>3, <4>1 DEF Agreed, VideoAgrees, Writing
      <4> QED BY <1>1, <1>2, <2>2, <4>2 DEF Agreed, ContactsAgree, Writing, Ends, Begins
    <3> QED BY <3>2, <3>3
  <2> QED BY <2>4, <2>5
<1> QED BY <1>3, <1>4

LEMMA SendVisibilityStep ==
  ASSUME SenderAssumption, IInv, SendVisibility
  PROVE  IInv'
<1> DEFINE m == [type |-> IF visible' THEN "RESUME_VIDEO" ELSE "PAUSE_VIDEO"]
<1>1. /\ Send(m) /\ visible' = ~visible /\ UNCHANGED <<fingers, audio, acked, ending>>
      /\ switches' = switches + 1 /\ switches < MaxSwitches
  BY DEF SendVisibility, Switch
<1>2. /\ m \in Message /\ m.type \in SessionTypes
      /\ m.type = IF visible' THEN "RESUME_VIDEO" ELSE "PAUSE_VIDEO"
  BY DEF Message, SessionTypes
<1> HIDE DEF m
<1>3. TypeOK'
  <2>1. switches' \in 0..MaxSwitches
    BY <1>1 DEF IInv, TypeOK, SenderAssumption
  <2>2. {visible', audio', ending'} \subseteq BOOLEAN
    BY <1>1 DEF IInv, TypeOK
  <2> QED BY <1>1, <1>2, <2>1, <2>2, SendTyped DEF IInv, TypeOK
<1>4. ASSUME Live PROVE Agreed'
  <2>1. queue' = WithSession(queue, m) /\ UNCHANGED <<dropped, writing, host>>
    BY <1>1, <1>2, <1>4 DEF Send, Live
  <2>2. queue \in Seq(Message) /\ queue' \in Seq(Message) /\ Paired(queue)
    BY <1>1, <1>2, SendOrderly DEF IInv, Orderly
  <2>3. Agreed
    BY <1>4 DEF IInv
  <2>4. ContactsAgree'
    BY <1>1, <1>2, <1>4, SessionContacts
  <2>5. PICK types : /\ SameBut(queue, queue', types) /\ types \cap AckTypes = {}
                     /\ types \cap AudioTypes = {}
                     /\ Holds(queue, "STOP_SESSION") => types = TouchTypes
    <3>1. /\ TouchTypes \cap AckTypes = {} /\ TouchTypes \cap AudioTypes = {}
          /\ Purged \cap AckTypes = {} /\ Purged \cap AudioTypes = {}
      BY DEF TouchTypes, Purged, SessionTypes, AckTypes, AudioTypes
    <3>2. CASE Holds(queue, "STOP_SESSION")
      BY <1>2, <2>1, <2>2, <3>1, <3>2, SessionFactsStop
    <3>3. CASE ~Holds(queue, "STOP_SESSION")
      BY <1>2, <2>1, <2>2, <3>1, <3>3, SessionFacts
    <3> QED BY <3>2, <3>3
  <2>6. AcksAgree'
    BY <1>1, <2>1, <2>2, <2>3, <2>5, AcksKept DEF Agreed
  <2>7. AudioAgrees'
    BY <1>1, <2>1, <2>3, <2>5, AudioKept DEF Agreed
  <2>8. CASE Holds(queue, "STOP_SESSION")
    <3>1. ending
      BY <2>3, <2>8 DEF Agreed, StopAgrees
    <3>2. "STOP_SESSION" \notin types
      BY <2>5, <2>8 DEF TouchTypes
    <3>3. StopAgrees'
      BY <1>1, <2>1, <2>2, <2>3, <2>5, <3>2, StopKept DEF Agreed
    <3>4. VideoAgrees'
      BY <1>1, <3>1 DEF VideoAgrees
    <3> QED BY <2>4, <2>6, <2>7, <3>3, <3>4 DEF Agreed
  <2>9. CASE ~Holds(queue, "STOP_SESSION")
    <3>1. \A t \in SessionTypes : Holds(queue', t) <=>
             \/ t = m.type
             \/ t = "PAUSE_VIDEO" /\ m.type = "RESUME_VIDEO" /\ Holds(queue, "PAUSE_VIDEO")
      BY <1>2, <2>1, <2>2, <2>9, SessionFacts
    <3>2. /\ ~Holds(queue', "STOP_SESSION")
          /\ Holds(queue', "RESUME_VIDEO") <=> visible'
          /\ ~visible' => Holds(queue', "PAUSE_VIDEO")
      BY <1>2, <3>1 DEF SessionTypes
    <3>3. StopAgrees'
      BY <1>1, <2>1, <2>3, <2>9, <3>2 DEF Agreed, StopAgrees, Writing
    <3>4. VideoAgrees'
      BY <3>2 DEF VideoAgrees
    <3> QED BY <2>4, <2>6, <2>7, <3>3, <3>4 DEF Agreed
  <2> QED BY <2>8, <2>9
<1> QED BY <1>1, <1>2, <1>3, <1>4, SendInvariant

LEMMA SendStopStep ==
  ASSUME SenderAssumption, IInv, SendStop
  PROVE  IInv'
<1> DEFINE m == [type |-> "STOP_SESSION"]
<1>1. ~ending /\ ending' /\ Send(m) /\ UNCHANGED <<fingers, visible, audio, acked, switches>>
      /\ ending' \in BOOLEAN
  BY DEF SendStop
<1>2. m \in Message /\ m.type = "STOP_SESSION" /\ m.type \in SessionTypes
  BY DEF Message, SessionTypes
<1> HIDE DEF m
<1>3. TypeOK'
  <2>1. {visible', audio', ending'} \subseteq BOOLEAN
    BY <1>1 DEF IInv, TypeOK
  <2> QED BY <1>1, <1>2, <2>1, SendTyped DEF IInv, TypeOK
<1>4. ASSUME Live PROVE Agreed'
  <2>1. queue' = WithSession(queue, m) /\ ~Holds(queue, "STOP_SESSION") /\ queue \in Seq(Message)
    BY <1>1, <1>2, <1>4 DEF Send, Live, IInv, Agreed, StopAgrees, Orderly
  <2>2. ContactsAgree'
    BY <1>1, <1>2, <1>4, SessionContacts
  <2>3. Holds(queue', "STOP_SESSION")
    BY <1>2, <2>1, SessionFacts
  <2>4. StopAgrees' /\ VideoAgrees' /\ AudioAgrees' /\ AcksAgree'
    BY <1>1, <2>3 DEF StopAgrees, VideoAgrees, AudioAgrees, AcksAgree
  <2> QED BY <2>2, <2>4 DEF Agreed
<1> QED BY <1>1, <1>2, <1>3, <1>4, SendInvariant

LEMMA StartStep ==
  ASSUME IInv, Start
  PROVE  IInv'
<1>1. Live /\ Agreed
  BY DEF IInv, Start, Live
<1>2. UNCHANGED <<queue, writing, callerVars, host, dropped>>
  BY DEF Start
<1>3. Agreed'
  BY <1>1, <1>2 DEF Agreed, StopAgrees, VideoAgrees, AudioAgrees, AcksAgree, ContactsAgree,
                    Writing, callerVars
<1>4. TypeOK' /\ Orderly(queue') /\ thread' = "running"
  BY <1>2 DEF IInv, Start, TypeOK, callerVars
<1> QED BY <1>3, <1>4 DEF IInv

LEMMA StopStep ==
  ASSUME SenderAssumption, IInv, Stop
  PROVE  IInv'
<1>1. <<>> \in Seq(Message) /\ Len(<<>>) = 0
  OBVIOUS
<1>2. Paired(<<>>)
  BY DEF Paired
<1>3. Inputs(<<>>) <= Capacity
  <2>1. Inputs(<<>>) <= 0 /\ Inputs(<<>>) \in Nat
    BY <1>1, PlacesFinite DEF Inputs
  <2> QED BY <2>1 DEF SenderAssumption
<1>4. Orderly(queue')
  BY <1>1, <1>2, <1>3 DEF Stop, Orderly
<1>5. TypeOK'
  BY <1>1 DEF IInv, TypeOK, Stop, callerVars
<1> QED BY <1>4, <1>5 DEF IInv, Stop, Live

(* Taking moves the oldest message from the queue to the connection.       *)
LEMMA TakeStep ==
  ASSUME SenderAssumption, IInv, Take
  PROVE  IInv'
<1>1. CASE stopped
  <2>1. thread' = "ended" /\ UNCHANGED <<queue, writing, stopped, callerVars, host, dropped>>
    BY <1>1 DEF Take
  <2> QED BY <2>1 DEF IInv, TypeOK, Orderly, Live, callerVars
<1>2. CASE ~stopped
  <2> DEFINE m == Head(queue)
  <2>1. /\ thread = "running" /\ writing = <<>> /\ queue # <<>>
        /\ writing' = <<m>> /\ queue' = Tail(queue)
        /\ UNCHANGED <<thread, stopped, callerVars, host, dropped>>
    BY <1>2 DEF Take
  <2>2. /\ queue \in Seq(Message) /\ Paired(queue) /\ Inputs(queue) <= Capacity
        /\ Capacity \in Nat /\ Agreed
    BY <1>2, <2>1 DEF IInv, Orderly, SenderAssumption, Live
  <2>3. /\ queue' \in Seq(Message) /\ m \in Message /\ Paired(queue')
        /\ \A i \in 1..Len(queue') : PairOK(m, queue'[i])
    BY <2>1, <2>2, PairedTail
  <2>4. Inputs(queue') <= Capacity
    <3>1. Inputs(queue') <= Inputs(queue)
      BY <2>1, <2>2, InputsTail
    <3>2. Inputs(queue') \in Nat /\ Inputs(queue) \in Nat
      BY <2>2, <2>3, PlacesFinite DEF Inputs
    <3> QED BY <2>2, <3>1, <3>2
  <2> HIDE DEF m
  <2>5. Head(writing') = m /\ writing' # <<>> /\ writing' \in Seq(Message) /\ Len(writing') = 1
    BY <2>1, <2>3
  <2>6. /\ Len(queue) \in Nat \ {0} /\ Len(queue') = Len(queue) - 1 /\ queue[1] = m
        /\ DOMAIN queue = 1..Len(queue) /\ DOMAIN queue' = 1..Len(queue')
        /\ \A i \in 1..Len(queue') : queue'[i] = queue[i + 1]
    BY <2>1, <2>2, <2>3, HeadTailProperties, EmptySeq, LenProperties DEF m
  <2>7. /\ 1 \in 1..Len(queue)
        /\ \A i \in 1..Len(queue') : i + 1 \in 1..Len(queue)
        /\ \A n \in 1..Len(queue) : n = 1 \/ (n - 1 \in 1..Len(queue') /\ queue'[n - 1] = queue[n])
    <3>1. \A n \in 1..Len(queue) : n # 1 => n - 1 \in 1..Len(queue') /\ n - 1 + 1 = n
      BY <2>6
    <3> QED BY <3>1, <2>6
  <2>8. \A t : Holds(queue, t) <=> Holds(queue', t) \/ m.type = t
    <3>1. ASSUME NEW t, Holds(queue, t) PROVE Holds(queue', t) \/ m.type = t
      <4>1. PICK n \in 1..Len(queue) : queue[n].type = t
        BY <2>6, <3>1 DEF Holds
      <4> QED BY <4>1, <2>6, <2>7 DEF Holds
    <3>2. ASSUME NEW t, Holds(queue', t) PROVE Holds(queue, t)
      <4>1. PICK i \in 1..Len(queue') : queue'[i].type = t
        BY <2>6, <3>2 DEF Holds
      <4>2. i + 1 \in DOMAIN queue /\ queue[i + 1].type = t
        BY <4>1, <2>6, <2>7
      <4> QED BY <4>2 DEF Holds
    <3>3. ASSUME NEW t, m.type = t PROVE Holds(queue, t)
      BY <2>6, <2>7, <3>3 DEF Holds
    <3> QED BY <3>1, <3>2, <3>3
  <2>9. \A t \in AckTypes \cup SessionTypes : m.type = t => ~Holds(queue', t)
    BY <2>3, <2>6 DEF PairOK, Urgent, Holds
  <2>10. StopAgrees'
    BY <2>1, <2>2, <2>5, <2>8 DEF Agreed, StopAgrees, Writing, callerVars
  <2>11. VideoAgrees'
    <3>1. m.type = "RESUME_VIDEO" => ~Holds(queue', "PAUSE_VIDEO")
      BY <2>3, <2>6 DEF PairOK, Holds
    <3>2. /\ m.type = "PAUSE_VIDEO" => ~Holds(queue', "PAUSE_VIDEO")
          /\ m.type = "RESUME_VIDEO" => ~Holds(queue', "RESUME_VIDEO")
      BY <2>9 DEF SessionTypes
    <3> QED BY <2>1, <2>2, <2>5, <2>8, <3>1, <3>2 DEF Agreed, VideoAgrees, Writing, callerVars
  <2>12. AudioAgrees'
    <3>1. SUFFICES ASSUME ~ending
                   PROVE  /\ \A i \in 1..Len(queue') :
                               queue'[i].type \in AudioTypes =>
                                 (audio <=> queue'[i].type = "AUDIO_ENABLE")
                          /\ (\A i \in 1..Len(queue') : queue'[i].type \notin AudioTypes) =>
                               /\ m.type \in AudioTypes => (audio <=> m.type = "AUDIO_ENABLE")
                               /\ m.type \notin AudioTypes => host.audio = audio
      BY <2>1, <2>5 DEF AudioAgrees, Writing, callerVars
    <3>2. /\ \A i \in 1..Len(queue) :
               queue[i].type \in AudioTypes => (audio <=> queue[i].type = "AUDIO_ENABLE")
          /\ (\A i \in 1..Len(queue) : queue[i].type \notin AudioTypes) => host.audio = audio
      BY <2>1, <2>2, <3>1 DEF Agreed, AudioAgrees, Writing
    <3>3. \A i \in 1..Len(queue') :
            queue'[i].type \in AudioTypes => (audio <=> queue'[i].type = "AUDIO_ENABLE")
      BY <3>2, <2>6, <2>7
    <3>4. m.type \in AudioTypes => (audio <=> m.type = "AUDIO_ENABLE")
      BY <3>2, <2>6, <2>7
    <3>5. ASSUME \A i \in 1..Len(queue') : queue'[i].type \notin AudioTypes, m.type \notin AudioTypes
          PROVE  host.audio = audio
      <4>1. \A n \in 1..Len(queue) : queue[n].type \notin AudioTypes
        BY <2>6, <2>7, <3>5
      <4> QED BY <4>1, <3>2
    <3> QED BY <3>3, <3>4, <3>5
  <2>13. AcksAgree'
    <3>1. ASSUME ~ending, NEW t \in AckTypes
          PROVE  /\ host.acked[t] <= acked[t]
                 /\ \A i \in 1..Len(queue') : queue'[i].type = t => queue'[i].pts = acked[t]
                 /\ m.type = t => m.pts <= acked[t]
                 /\ ~Holds(queue', t) =>
                      /\ m.type = t => m.pts = acked[t]
                      /\ m.type # t => host.acked[t] = acked[t]
      <4>1. /\ host.acked[t] <= acked[t]
            /\ \A i \in 1..Len(queue) : queue[i].type = t => queue[i].pts = acked[t]
            /\ ~Holds(queue, t) => host.acked[t] = acked[t]
        BY <2>1, <2>2, <3>1 DEF Agreed, AcksAgree, Writing
      <4>2. acked[t] \in Int
        BY DEF IInv, TypeOK, SenderAssumption
      <4>3. m.type = t => m.pts = acked[t]
        BY <4>1, <2>6, <2>7
      <4>4. \A i \in 1..Len(queue') : queue'[i].type = t => queue'[i].pts = acked[t]
        BY <4>1, <2>6, <2>7
      <4>5. m.type = t => m.pts <= acked[t]
        BY <4>2, <4>3
      <4> QED BY <4>1, <4>3, <4>4, <4>5, <2>8
    <3> QED BY <2>1, <2>5, <3>1 DEF AcksAgree, Writing, callerVars
  <2>14. ContactsAgree'
    <3>1. ASSUME ~dropped, NEW p \in Pointers \ fingers
          PROVE  /\ p \in host.contacts => HasEnd(queue', p) \/ Ends(m, p)
                 /\ Begins(m, p) => HasEnd(queue', p)
                 /\ Covered(queue', p)
      <4>1. (p \in host.contacts => HasEnd(queue, p)) /\ Covered(queue, p)
        BY <2>1, <2>2, <3>1 DEF Agreed, ContactsAgree
      <4> QED BY <4>1, <2>1, <2>2, CoveredTail DEF m
    <3> QED BY <2>1, <2>2, <2>5, <3>1 DEF Agreed, ContactsAgree, callerVars
  <2>15. TypeOK' /\ Orderly(queue')
    BY <2>1, <2>3, <2>4, <2>5 DEF IInv, TypeOK, Orderly, callerVars
  <2> QED BY <2>1, <2>10, <2>11, <2>12, <2>13, <2>14, <2>15 DEF IInv, Agreed
<1> QED BY <1>1, <1>2

(* What is written passes to the computer, or the connection fails.        *)
LEMMA WriteStep ==
  ASSUME SenderAssumption, IInv, Write
  PROVE  IInv'
<1> DEFINE m == Head(writing)
<1>1. /\ thread = "running" /\ writing # <<>> /\ writing' = <<>>
      /\ UNCHANGED <<queue, stopped, callerVars, dropped>>
  BY DEF Write
<1>2. m \in Message /\ HostTyped(host) /\ writing' \in Seq(Message) /\ Len(writing') = 0
      /\ queue \in Seq(Message) /\ Orderly(queue)
  BY <1>1, HeadTailProperties DEF IInv, TypeOK, HostTyped
<1>3. CASE thread' = "ended" /\ UNCHANGED host
  BY <1>1, <1>2, <1>3 DEF IInv, TypeOK, Live, Orderly, callerVars
<1>4. CASE host' = HostAfter(m) /\ UNCHANGED thread
  <2> HIDE DEF m
  <2>1. /\ HostTyped(host')
        /\ host.stopped => host' = host
        /\ ~host.stopped =>
             /\ host'.stopped = (m.type = "STOP_SESSION")
             /\ m.type = "PAUSE_VIDEO" => host'.paused
             /\ m.type = "RESUME_VIDEO" => ~host'.paused
             /\ m.type \notin {"PAUSE_VIDEO", "RESUME_VIDEO"} => host'.paused = host.paused
             /\ m.type \in AudioTypes => (host'.audio <=> m.type = "AUDIO_ENABLE")
             /\ m.type \notin AudioTypes => host'.audio = host.audio
             /\ \A t \in AckTypes :
                  host'.acked[t] = IF m.type = t /\ m.pts > host.acked[t]
                                   THEN m.pts ELSE host.acked[t]
             /\ m.type \in {"PAUSE_VIDEO", "STOP_SESSION"} => host'.contacts = {}
             /\ ~host.paused => \A p \in Pointers :
                  /\ Ends(m, p) => p \notin host'.contacts
                  /\ p \in host'.contacts => p \in host.contacts \/ Begins(m, p)
             /\ host.paused /\ m.type \notin {"PAUSE_VIDEO", "STOP_SESSION"} =>
                  host'.contacts = host.contacts
    BY <1>2, <1>4, HostFacts
  <2>2. TypeOK' /\ Orderly(queue')
    BY <1>1, <1>2, <1>4, <2>1 DEF IInv, TypeOK, HostTyped, callerVars
  <2>3. ASSUME Live PROVE Agreed'
    <3>1. Agreed
      BY <2>3 DEF IInv
    <3>2. \A types : ~Writing(types)'
      BY <1>1 DEF Writing
    <3>3. \A types : Writing(types) <=> m.type \in types
      BY <1>1 DEF Writing, m
    <3>4. StopAgrees'
      BY <1>1, <2>1, <3>1, <3>2, <3>3 DEF Agreed, StopAgrees, callerVars, Writing
    <3>5. ~ending => ~host.stopped
      BY <3>1 DEF Agreed, StopAgrees
    <3>6. VideoAgrees'
      <4>1. SUFFICES ASSUME ~ending, ~Holds(queue, "PAUSE_VIDEO"), ~Holds(queue, "RESUME_VIDEO")
                     PROVE  host'.paused = ~visible
        BY <1>1, <3>1, <3>2 DEF Agreed, VideoAgrees, callerVars, Writing
      <4>2. /\ m.type = "RESUME_VIDEO" => visible
            /\ m.type = "PAUSE_VIDEO" => ~visible
            /\ m.type \notin {"PAUSE_VIDEO", "RESUME_VIDEO"} => host.paused = ~visible
        BY <3>1, <3>3, <4>1 DEF Agreed, VideoAgrees
      <4>3. visible \in BOOLEAN /\ host'.paused \in BOOLEAN
        BY <2>1 DEF HostTyped, IInv, TypeOK
      <4> QED BY <2>1, <3>5, <4>1, <4>2, <4>3
    <3>7. AudioAgrees'
      <4>1. SUFFICES ASSUME ~ending, \A i \in 1..Len(queue) : queue[i].type \notin AudioTypes
                     PROVE  host'.audio = audio
        BY <1>1, <3>1, <3>2 DEF Agreed, AudioAgrees, callerVars, Writing
      <4>2. /\ m.type \in AudioTypes => (audio <=> m.type = "AUDIO_ENABLE")
            /\ m.type \notin AudioTypes => host.audio = audio
        BY <3>1, <3>3, <4>1 DEF Agreed, AudioAgrees, m
      <4>3. audio \in BOOLEAN /\ host'.audio \in BOOLEAN
        BY <2>1 DEF HostTyped, IInv, TypeOK
      <4> QED BY <2>1, <3>5, <4>1, <4>2, <4>3
    <3>8. AcksAgree'
      <4>1. ASSUME ~ending, NEW t \in AckTypes
            PROVE  /\ host'.acked[t] <= acked[t]
                   /\ \A i \in 1..Len(queue) : queue[i].type = t => queue[i].pts = acked[t]
                   /\ ~Holds(queue, t) => host'.acked[t] = acked[t]
        <5>1. /\ host.acked[t] <= acked[t]
              /\ \A i \in 1..Len(queue) : queue[i].type = t => queue[i].pts = acked[t]
              /\ m.type = t => m.pts <= acked[t]
              /\ ~Holds(queue, t) => /\ m.type = t => m.pts = acked[t]
                                     /\ m.type # t => host.acked[t] = acked[t]
          BY <3>1, <3>3, <4>1 DEF Agreed, AcksAgree, m
        <5>2. host'.acked[t] = IF m.type = t /\ m.pts > host.acked[t] THEN m.pts ELSE host.acked[t]
          BY <2>1, <3>5, <4>1
        <5>3. host.acked[t] \in Int /\ acked[t] \in Int
          BY DEF IInv, TypeOK, SenderAssumption
        <5>4. ASSUME m.type = t, m.pts = acked[t] PROVE host'.acked[t] = acked[t]
          BY <5>1, <5>2, <5>3, <5>4
        <5> QED BY <5>1, <5>2, <5>4
      <4> QED BY <1>1, <3>2, <4>1 DEF AcksAgree, callerVars, Writing
    <3>9. ContactsAgree'
      <4>1. host.paused \/ host.stopped => host.contacts = {}
        BY <3>1 DEF Agreed, ContactsAgree
      <4>2. host'.contacts \subseteq Pointers
        BY <2>1 DEF HostTyped
      <4>3. host'.paused \/ host'.stopped => host'.contacts = {}
        BY <2>1, <4>1
      <4>4. ASSUME ~dropped, NEW p \in Pointers \ fingers
            PROVE  (p \in host'.contacts => HasEnd(queue, p)) /\ Covered(queue, p)
        <5>1. /\ p \in host.contacts => HasEnd(queue, p) \/ Ends(m, p)
              /\ Begins(m, p) /\ ~host.paused /\ ~host.stopped => HasEnd(queue, p)
              /\ Covered(queue, p)
          BY <1>1, <3>1, <4>4 DEF Agreed, ContactsAgree, m
        <5>2. ASSUME p \in host'.contacts PROVE HasEnd(queue, p)
          <6>1. ~host.stopped
            BY <2>1, <4>1, <5>2
          <6>2. m.type \notin {"PAUSE_VIDEO", "STOP_SESSION"}
            BY <2>1, <5>2, <6>1
          <6>3. ~host.paused
            BY <2>1, <4>1, <5>2, <6>1, <6>2
          <6>4. ~Ends(m, p) /\ (p \in host.contacts \/ Begins(m, p))
            BY <2>1, <5>2, <6>1, <6>3
          <6> QED BY <5>1, <6>1, <6>3, <6>4
        <5> QED BY <5>1, <5>2
      <4> QED BY <1>1, <4>3, <4>4 DEF ContactsAgree, callerVars
    <3> QED BY <3>4, <3>6, <3>7, <3>8, <3>9 DEF Agreed
  <2> QED BY <1>1, <1>4, <2>2, <2>3 DEF IInv, Live
<1> QED BY <1>3, <1>4 DEF Write, m

LEMMA InvariantInit ==
  ASSUME SenderAssumption, Init
  PROVE  IInv
<1>1. <<>> \in Seq(Message) /\ Len(<<>>) = 0 /\ DOMAIN <<>> = {}
  OBVIOUS
<1>2. Inputs(<<>>) <= Capacity
  <2>1. Inputs(<<>>) <= 0 /\ Inputs(<<>>) \in Nat
    BY <1>1, PlacesFinite DEF Inputs
  <2> QED BY <2>1 DEF SenderAssumption
<1>3. Orderly(queue)
  BY <1>1, <1>2 DEF Init, Orderly, Paired
<1>4. acked \in [AckTypes -> -1..MaxPts] /\ \A t \in AckTypes : acked[t] = -1
  <2>1. -1 \in -1..MaxPts
    BY DEF SenderAssumption
  <2> QED BY <2>1 DEF Init
<1>5. /\ host.contacts = {} /\ ~host.paused /\ ~host.audio /\ host.acked = acked
      /\ ~host.stopped /\ host.paused = FALSE /\ host.audio = FALSE
  BY DEF Init
<1>6. host \in [contacts : SUBSET Pointers, paused : BOOLEAN, audio : BOOLEAN,
                acked : [AckTypes -> -1..MaxPts], stopped : BOOLEAN]
  <2>1. host = [contacts |-> {}, paused |-> FALSE, audio |-> FALSE, acked |-> acked,
                stopped |-> FALSE]
    BY DEF Init
  <2> QED BY <2>1, <1>4
<1>7. TypeOK
  <2>1. queue \in Seq(Message) /\ writing \in Seq(Message) /\ Len(writing) <= 1
    BY <1>1 DEF Init
  <2>2. switches \in 0..MaxSwitches
    BY DEF Init, SenderAssumption
  <2>3. /\ stopped \in BOOLEAN /\ thread \in {"new", "running", "ended"}
        /\ fingers \subseteq Pointers /\ {visible, audio, ending} \subseteq BOOLEAN
        /\ dropped \in BOOLEAN
    BY DEF Init
  <2> QED BY <2>1, <2>2, <2>3, <1>4, <1>6 DEF TypeOK
<1>8. /\ queue = <<>> /\ ~ending /\ visible /\ audio = FALSE /\ visible \in BOOLEAN
      /\ \A t : ~Holds(queue, t)
      /\ \A types : ~Writing(types)
      /\ Len(queue) = 0 /\ writing = <<>>
  BY <1>1 DEF Init, Holds, Writing
<1>9. StopAgrees /\ VideoAgrees /\ AudioAgrees
  <2>1. host.paused = ~visible
    BY <1>5, <1>8
  <2>2. host.audio = audio
    BY <1>5, <1>8
  <2> QED BY <2>1, <2>2, <1>5, <1>8 DEF StopAgrees, VideoAgrees, AudioAgrees
<1>10. AcksAgree
  BY <1>4, <1>5, <1>8 DEF AcksAgree
<1>11. ContactsAgree
  BY <1>5, <1>8 DEF ContactsAgree, Covered
<1> QED BY <1>3, <1>7, <1>9, <1>10, <1>11 DEF IInv, Init, Agreed

LEMMA InvariantStep ==
  ASSUME SenderAssumption, IInv, [Next]_vars
  PROVE  IInv'
<1>1. CASE Next
  BY <1>1, StartStep, SendTouchStep, SendAckStep, SendVisibilityStep, SendAudioStep,
     SendOtherStep, SendStopStep, TakeStep, WriteStep, StopStep
     DEF Next, Callers, Thread
<1>2. CASE UNCHANGED vars
  BY <1>2 DEF vars, senderVars, callerVars, IInv, TypeOK, Orderly, Live, Agreed, StopAgrees,
              VideoAgrees, AudioAgrees, AcksAgree, ContactsAgree, Writing
<1> QED BY <1>1, <1>2

(* The inductive invariant holds for any capacity and number of pointers.  *)
THEOREM Invariance == Spec => []IInv
<1>1. Init => IInv
  BY SenderAssumption, InvariantInit
<1>2. IInv /\ [Next]_vars => IInv'
  BY SenderAssumption, InvariantStep
<1> QED BY <1>1, <1>2, PTL DEF Spec

(* Whatever send() purges, coalesces or evicts, the queue never holds more *)
(* than five messages beyond QUEUE_CAPACITY, acknowledgements and session  *)
(* actions wait for no touch, and nothing waits that would revive a        *)
(* session whose stop is waiting.                                          *)
THEOREM QueueIsOrdered == Spec => []QueueOrdered
<1>1. IInv => QueueOrdered
  <2>1. ASSUME IInv PROVE QueueOrdered
    <3>1. TypeOK /\ Orderly(queue)
      BY <2>1 DEF IInv
    <3>2. QueueBounded /\ UrgentFirst /\ StopIsLastSessionAction
      BY <3>1, SenderAssumption, OrderlyIsBounded
         DEF QueueBounded, UrgentFirst, StopIsLastSessionAction, Orderly, Inputs, Urgent
    <3> QED BY <3>1, <3>2 DEF QueueOrdered
  <2> QED BY <2>1
<1> QED BY <1>1, Invariance, PTL

(* Once the sender has written everything, the computer is paused, mute,   *)
(* stopped and acknowledged as the phone last announced, and it holds no   *)
(* contact whose finger left the screen, unless a full queue of other      *)
(* input dropped the end of that contact.                                  *)
THEOREM ComputerAgreesWithPhone == Spec => []ComputerAgrees
<1>1. IInv => ComputerAgrees
  <2>1. ASSUME IInv, Drained
        PROVE  /\ host.stopped = ending
               /\ ~ending => host.paused = ~visible /\ host.audio = audio /\ host.acked = acked
               /\ ~dropped => host.contacts \subseteq fingers
    <3>1. /\ Agreed /\ queue = <<>> /\ writing = <<>>
          /\ Len(queue) = 0 /\ DOMAIN queue = {}
      BY <2>1 DEF IInv, Live, Drained
    <3>2. \A t : ~Holds(queue, t)
      BY <3>1 DEF Holds
    <3>3. \A types : ~Writing(types)
      BY <3>1 DEF Writing
    <3>4. /\ ending \in BOOLEAN /\ host.stopped \in BOOLEAN
          /\ host.acked \in [AckTypes -> -1..MaxPts] /\ acked \in [AckTypes -> -1..MaxPts]
          /\ host.contacts \subseteq Pointers
      BY <2>1 DEF IInv, TypeOK
    <3>5. host.stopped = ending
      BY <3>1, <3>2, <3>3, <3>4 DEF Agreed, StopAgrees
    <3>6. ~ending => host.paused = ~visible
      BY <3>1, <3>2, <3>3 DEF Agreed, VideoAgrees
    <3>7. ~ending => host.audio = audio
      BY <3>1, <3>3 DEF Agreed, AudioAgrees
    <3>8. ~ending => host.acked = acked
      <4>1. ~ending => \A t \in AckTypes : host.acked[t] = acked[t]
        BY <3>1, <3>2, <3>3 DEF Agreed, AcksAgree
      <4> QED BY <4>1, <3>4
    <3>9. ~dropped => \A p \in Pointers \ fingers : p \notin host.contacts
      BY <3>1 DEF Agreed, ContactsAgree, HasEnd
    <3> QED BY <3>4, <3>5, <3>6, <3>7, <3>8, <3>9
  <2> QED BY <2>1 DEF ComputerAgrees, StateDelivered, NoGhostContact
<1> QED BY <1>1, Invariance, PTL
=============================================================================
