-------------------------- MODULE ReverseTouchProofs --------------------------
(***************************************************************************)
(* Theorems about ReverseTouch, and about the instance of it that the run  *)
(* checks with one finger.  The invariant speaks of the touch record alone,*)
(* so each operation of TouchOps gets a lemma, for calls of Windows that   *)
(* may fail (tf, mf) or not, and the steps only cite it.                   *)
(***************************************************************************)
EXTENDS MCReverseTouch, FiniteSetTheorems, TLAPS

\* The outcomes of InjectTouchInput and SendInput, when they may fail and when not.
Possible(tf, mf) == {o \in Outcome : (o.touch \/ tf) /\ (o.mouse \/ mf)}

NativeMatch(s, tf) == ~s.fallback => /\ s.contacts \subseteq s.pressed
                                     /\ ~tf => s.pressed = s.contacts

ButtonKnown(s, mf) == /\ s.active => s.button
                      /\ ~mf => s.button = s.active

Consistent(s) == /\ Cardinality(s.contacts) <= MaxTouches
                 /\ s.primary # NoPrimary => s.primary \in s.contacts

Good(s, tf, mf) == /\ s \in TouchState
                   /\ NativeMatch(s, tf) /\ ButtonKnown(s, mf) /\ Consistent(s)

(* Forgetting every contact keeps the record good, provided that in native *)
(* mode Windows holds none either when no call can fail.                   *)
LEMMA ForgetGood ==
  ASSUME NEW tf \in BOOLEAN, NEW mf \in BOOLEAN,
         NEW s \in TouchState, ButtonKnown(s, mf),
         ~s.fallback /\ ~tf => s.pressed = {}
  PROVE  Good(Forget(s), tf, mf) /\ Forget(s).contacts = {}
<1>1. /\ Forget(s) \in TouchState
      /\ Forget(s).contacts = {} /\ Forget(s).primary = NoPrimary
      /\ Forget(s).fallback = s.fallback /\ Forget(s).active = s.active
      /\ Forget(s).pressed = s.pressed /\ Forget(s).button = s.button
  BY DEF Forget, TouchState
<1>2. Cardinality({}) = 0 /\ 0 <= MaxTouches
  BY TouchAssumption, FS_EmptySet
<1> QED BY <1>1, <1>2 DEF Good, NativeMatch, ButtonKnown, Consistent

(* A mouse frame only touches the button and what the host believes of it. *)
LEMMA MouseFrameGood ==
  ASSUME NEW tf \in BOOLEAN, NEW mf \in BOOLEAN,
         NEW s \in TouchState, ButtonKnown(s, mf),
         NEW pointer, NEW flag, NEW outcome \in Possible(tf, mf)
  PROVE  LET t == MouseFrame(s, pointer, flag, outcome).state
         IN  /\ t \in TouchState /\ ButtonKnown(t, mf)
             /\ t.contacts = s.contacts /\ t.primary = s.primary
             /\ t.fallback = s.fallback /\ t.pressed = s.pressed
<1> DEFINE t == MouseFrame(s, pointer, flag, outcome).state
<1>0. /\ outcome.mouse \in BOOLEAN
      /\ ~mf => outcome.mouse
  BY DEF Possible, Outcome
<1>1. CASE pointer = s.primary /\ flag = "UP"
  <2>1. t = [s EXCEPT !.active = FALSE,
                      !.button = @ /\ ~(s.active /\ outcome.mouse)]
    BY <1>1 DEF MouseFrame
  <2>2. /\ t \in TouchState
        /\ t.active = FALSE
        /\ t.button = (s.button /\ ~(s.active /\ outcome.mouse))
        /\ t.contacts = s.contacts /\ t.primary = s.primary
        /\ t.fallback = s.fallback /\ t.pressed = s.pressed
    BY <2>1, <1>0 DEF TouchState
  <2> QED BY <2>2, <1>0 DEF ButtonKnown
<1>2. CASE ~(pointer = s.primary /\ flag = "UP") /\ ~s.active
  <2>1. t = [s EXCEPT !.active = outcome.mouse, !.button = @ \/ outcome.mouse]
    BY <1>2 DEF MouseFrame
  <2>2. /\ t \in TouchState
        /\ t.active = outcome.mouse
        /\ t.button = (s.button \/ outcome.mouse)
        /\ t.contacts = s.contacts /\ t.primary = s.primary
        /\ t.fallback = s.fallback /\ t.pressed = s.pressed
    BY <2>1, <1>0 DEF TouchState
  <2> QED BY <2>2, <1>0 DEF ButtonKnown
<1>3. CASE ~(pointer = s.primary /\ flag = "UP") /\ s.active
  BY <1>3 DEF MouseFrame
<1> QED BY <1>1, <1>2, <1>3

(* A frame, native or not, keeps contacts and primary; accepted natively,  *)
(* it leaves Windows with the tracked contacts, but for a lifted one.      *)
LEMMA TouchFrameGood ==
  ASSUME NEW tf \in BOOLEAN, NEW mf \in BOOLEAN,
         NEW s \in TouchState, ButtonKnown(s, mf),
         NEW pointer, NEW flag, NEW outcome \in Possible(tf, mf)
  PROVE  LET t == TouchFrame(s, pointer, flag, outcome).state
         IN  /\ t \in TouchState /\ ButtonKnown(t, mf)
             /\ t.contacts = s.contacts /\ t.primary = s.primary
             /\ \/ t.fallback
                \/ /\ ~s.fallback /\ ~t.fallback
                   /\ TouchFrame(s, pointer, flag, outcome).ok
                   /\ t.pressed = IF flag = "UP" THEN s.pressed \ {pointer}
                                  ELSE s.pressed \cup s.contacts
                   /\ FrameAccepted(s, pointer, flag, outcome)
<1> DEFINE t == TouchFrame(s, pointer, flag, outcome).state
<1>1. CASE ~s.fallback /\ FrameAccepted(s, pointer, flag, outcome)
  BY <1>1 DEF TouchFrame, TouchState, ButtonKnown
<1>2. CASE ~(~s.fallback /\ FrameAccepted(s, pointer, flag, outcome))
  <2> DEFINE u == [s EXCEPT !.fallback = TRUE]
  <2>1. u \in TouchState /\ ButtonKnown(u, mf) /\ u.fallback = TRUE
        /\ u.contacts = s.contacts /\ u.primary = s.primary
    BY DEF TouchState, ButtonKnown
  <2>2. t = MouseFrame(u, pointer, flag, outcome).state
    BY <1>2 DEF TouchFrame
  <2> HIDE DEF u
  <2>3. /\ t \in TouchState /\ ButtonKnown(t, mf)
        /\ t.contacts = u.contacts /\ t.primary = u.primary
        /\ t.fallback = u.fallback
    BY <2>1, <2>2, MouseFrameGood
  <2> QED BY <2>1, <2>3
<1> QED BY <1>1, <1>2

(* Before a frame Windows holds no more than the host tracks, if no call   *)
(* can fail.                                                               *)
Covered(s, tf) == ~s.fallback /\ ~tf => s.pressed \subseteq s.contacts

LEMMA CancelGood ==
  ASSUME NEW tf \in BOOLEAN, NEW mf \in BOOLEAN,
         NEW s \in TouchState, Good(s, tf, mf), NEW outcome \in Possible(tf, mf)
  PROVE  Good(CancelTouches(s, outcome), tf, mf) /\ CancelTouches(s, outcome).contacts = {}
<1>0. /\ outcome.mouse \in BOOLEAN /\ outcome.touch \in BOOLEAN
      /\ ~mf => outcome.mouse
      /\ ~tf => outcome.touch
  BY DEF Possible, Outcome
<1>1. CASE s.contacts = {}
  BY <1>1 DEF CancelTouches
<1>2. CASE s.contacts # {} /\ s.fallback
  <2> DEFINE u == [s EXCEPT !.active = FALSE,
                            !.button = @ /\ ~(s.active /\ outcome.mouse)]
  <2>1. u \in TouchState /\ u.fallback = TRUE /\ u.active = FALSE
        /\ u.button = (s.button /\ ~(s.active /\ outcome.mouse))
    BY <1>2 DEF TouchState
  <2>2. ButtonKnown(u, mf)
    BY <2>1, <1>0 DEF Good, ButtonKnown
  <2>3. CancelTouches(s, outcome) = Forget(u)
    BY <1>2 DEF CancelTouches
  <2> HIDE DEF u
  <2> QED BY <2>1, <2>2, <2>3, ForgetGood
<1>3. CASE s.contacts # {} /\ ~s.fallback
  <2> DEFINE held == IF outcome.touch /\ s.contacts \subseteq s.pressed
                     THEN s.pressed \ s.contacts ELSE s.pressed
             u == [s EXCEPT !.pressed = held]
  <2>1. held \in SUBSET Pointers /\ (~tf => held = {})
    BY <1>0, <1>3 DEF Good, NativeMatch, TouchState
  <2>2. CancelTouches(s, outcome) = Forget(u)
    BY <1>3 DEF CancelTouches
  <2> HIDE DEF held
  <2>3. u \in TouchState /\ u.pressed = held
        /\ u.active = s.active /\ u.button = s.button
    BY <2>1 DEF TouchState
  <2>4. ButtonKnown(u, mf)
    BY <2>3 DEF Good, ButtonKnown
  <2> HIDE DEF u
  <2> QED BY <2>1, <2>2, <2>3, <2>4, ForgetGood
<1> QED BY <1>1, <1>2, <1>3

LEMMA InjectedGood ==
  ASSUME NEW tf \in BOOLEAN, NEW mf \in BOOLEAN,
         NEW s \in TouchState, ButtonKnown(s, mf), Consistent(s), Covered(s, tf),
         NEW pointer \in Pointers, NEW flag, NEW outcome \in Possible(tf, mf)
  PROVE  Good(Injected(s, pointer, flag, outcome), tf, mf)
<1> DEFINE frame == TouchFrame(s, pointer, flag, outcome)
           t == frame.state
<1>1. /\ t \in TouchState /\ ButtonKnown(t, mf)
      /\ t.contacts = s.contacts /\ t.primary = s.primary
      /\ \/ t.fallback
         \/ /\ ~s.fallback /\ ~t.fallback
            /\ frame.ok
            /\ t.pressed = IF flag = "UP" THEN s.pressed \ {pointer}
                           ELSE s.pressed \cup s.contacts
            /\ FrameAccepted(s, pointer, flag, outcome)
  BY TouchFrameGood, ZenonT(60)
<1>2. Injected(s, pointer, flag, outcome) =
        IF ~frame.ok THEN Forget(t)
        ELSE IF flag # "UP" THEN t
        ELSE [t EXCEPT !.contacts = @ \ {pointer},
                       !.primary = IF @ = pointer THEN NoPrimary ELSE @]
  BY DEF Injected
<1> HIDE DEF frame
<1>3. CASE ~frame.ok
  BY <1>1, <1>2, <1>3, ForgetGood
<1>4. CASE frame.ok /\ flag # "UP"
  <2>1. Consistent(t)
    BY <1>1 DEF Consistent
  <2>2. NativeMatch(t, tf)
    BY <1>1, <1>4 DEF NativeMatch, Covered, FrameAccepted
  <2> QED BY <1>1, <1>2, <1>4, <2>1, <2>2 DEF Good
<1>5. CASE frame.ok /\ flag = "UP"
  <2> DEFINE u == [t EXCEPT !.contacts = @ \ {pointer},
                            !.primary = IF @ = pointer THEN NoPrimary ELSE @]
  <2>1. /\ u \in TouchState
        /\ u.contacts = s.contacts \ {pointer}
        /\ u.primary = IF s.primary = pointer THEN NoPrimary ELSE s.primary
        /\ u.active = t.active /\ u.button = t.button
        /\ u.fallback = t.fallback /\ u.pressed = t.pressed
    BY <1>1 DEF TouchState
  <2>2. ButtonKnown(u, mf)
    BY <1>1, <2>1 DEF ButtonKnown
  <2>3. NativeMatch(u, tf)
    BY <1>1, <1>5, <2>1 DEF NativeMatch, Covered, FrameAccepted
  <2>4. Cardinality(s.contacts \ {pointer}) <= MaxTouches
    <3>1. IsFiniteSet(s.contacts)
      BY TouchAssumption, FS_Subset DEF TouchState
    <3>2. /\ Cardinality(s.contacts \ {pointer}) \in Nat
          /\ Cardinality(s.contacts) \in Nat
          /\ Cardinality(s.contacts \ {pointer}) <= Cardinality(s.contacts)
      BY <3>1, FS_Subset, FS_CardinalityType
    <3> QED BY <3>2, TouchAssumption DEF Consistent
  <2>5. Consistent(u)
    BY <2>1, <2>4 DEF Consistent
  <2>6. Injected(s, pointer, flag, outcome) = u
    BY <1>2, <1>5
  <2> HIDE DEF u
  <2> QED BY <2>1, <2>2, <2>3, <2>5, <2>6 DEF Good
<1> QED BY <1>3, <1>4, <1>5

LEMMA AddedReady ==
  ASSUME NEW tf \in BOOLEAN, NEW mf \in BOOLEAN,
         NEW s \in TouchState, Good(s, tf, mf), NEW pointer \in Pointers,
         pointer \in s.contacts \/ Room(s)
  PROVE  LET t == Added(s, pointer)
         IN  /\ t \in TouchState /\ ButtonKnown(t, mf) /\ Consistent(t)
             /\ Covered(t, tf) /\ t.contacts = s.contacts \cup {pointer}
<1> DEFINE t == Added(s, pointer)
<1>1. /\ t \in TouchState /\ t.contacts = s.contacts \cup {pointer}
      /\ t.primary = s.primary /\ t.fallback = s.fallback
      /\ t.active = s.active /\ t.button = s.button /\ t.pressed = s.pressed
  BY DEF Added, TouchState
<1>2. IsFiniteSet(s.contacts)
  BY TouchAssumption, FS_Subset DEF TouchState
<1>3. Cardinality(s.contacts \cup {pointer}) <= MaxTouches
  <2>1. CASE pointer \in s.contacts
    <3>1. s.contacts \cup {pointer} = s.contacts
      BY <2>1
    <3> QED BY <3>1 DEF Good, Consistent
  <2>2. CASE pointer \notin s.contacts
    <3>1. Cardinality(s.contacts \cup {pointer}) = Cardinality(s.contacts) + 1
      BY <1>2, <2>2, FS_AddElement
    <3>2. Cardinality(s.contacts) \in Nat /\ Cardinality(s.contacts) < MaxTouches
      BY <1>2, <2>2, FS_CardinalityType DEF Room
    <3> QED BY <3>1, <3>2, TouchAssumption
  <2> QED BY <2>1, <2>2
<1>4. ButtonKnown(t, mf)
  BY <1>1 DEF Good, ButtonKnown
<1>5. Consistent(t)
  BY <1>1, <1>3 DEF Good, Consistent
<1>6. Covered(t, tf)
  BY <1>1 DEF Good, NativeMatch, Covered
<1> QED BY <1>1, <1>4, <1>5, <1>6

LEMMA DownGood ==
  ASSUME NEW tf \in BOOLEAN, NEW mf \in BOOLEAN,
         NEW s \in TouchState, Good(s, tf, mf), NEW pointer \in Pointers,
         NEW mapped, NEW cancelled \in Possible(tf, mf), NEW outcome \in Possible(tf, mf)
  PROVE  Good(OnDown(s, pointer, mapped, cancelled, outcome), tf, mf)
<1> DEFINE clean == CancelTouches(s, cancelled)
           first == [Added(clean, pointer) EXCEPT !.primary = pointer]
<1>1. Good(clean, tf, mf) /\ clean.contacts = {}
  BY CancelGood
<1>2. CASE ~mapped \/ ~Room(clean)
  BY <1>1, <1>2 DEF OnDown
<1>3. CASE mapped /\ Room(clean)
  <2>1. OnDown(s, pointer, mapped, cancelled, outcome)
          = Injected(first, pointer, "DOWN", outcome)
    BY <1>3 DEF OnDown
  <2>2. LET t == Added(clean, pointer)
        IN  /\ t \in TouchState /\ ButtonKnown(t, mf) /\ Consistent(t)
            /\ Covered(t, tf) /\ t.contacts = clean.contacts \cup {pointer}
    <3> HIDE DEF clean
    <3> QED BY <1>1, <1>3, AddedReady DEF Good
  <2>3. first \in TouchState /\ ButtonKnown(first, mf) /\ Covered(first, tf)
        /\ Consistent(first)
    <3> DEFINE t == Added(clean, pointer)
    <3>0. /\ t \in TouchState /\ ButtonKnown(t, mf) /\ Consistent(t)
          /\ Covered(t, tf) /\ pointer \in t.contacts
      BY <2>2
    <3> HIDE DEF t
    <3>1. /\ first \in TouchState
          /\ first.contacts = t.contacts /\ first.primary = pointer
          /\ first.fallback = t.fallback /\ first.pressed = t.pressed
          /\ first.active = t.active /\ first.button = t.button
      <4>1. first = [t EXCEPT !.primary = pointer]
        BY DEF t
      <4> QED BY <4>1, <3>0 DEF TouchState
    <3> QED BY <3>0, <3>1 DEF ButtonKnown, Covered, Consistent
  <2> HIDE DEF first, clean
  <2> QED BY <2>1, <2>3, InjectedGood
<1> QED BY <1>2, <1>3

LEMMA PointerDownGood ==
  ASSUME NEW tf \in BOOLEAN, NEW mf \in BOOLEAN,
         NEW s \in TouchState, Good(s, tf, mf), NEW pointer \in Pointers,
         NEW mapped, NEW outcome \in Possible(tf, mf)
  PROVE  Good(OnPointerDown(s, pointer, mapped, outcome), tf, mf)
<1>1. CASE ~mapped \/ (pointer \notin s.contacts /\ ~Room(s))
  BY <1>1 DEF OnPointerDown
<1>2. CASE ~(~mapped \/ (pointer \notin s.contacts /\ ~Room(s)))
  <2>1. OnPointerDown(s, pointer, mapped, outcome)
          = Injected(Added(s, pointer), pointer, "DOWN", outcome)
    BY <1>2 DEF OnPointerDown
  <2> QED BY <1>2, <2>1, AddedReady, InjectedGood
<1> QED BY <1>1, <1>2

LEMMA MoveGood ==
  ASSUME NEW tf \in BOOLEAN, NEW mf \in BOOLEAN,
         NEW s \in TouchState, Good(s, tf, mf), NEW pointer \in Pointers,
         NEW mapped, NEW outcome \in Possible(tf, mf)
  PROVE  Good(OnMove(s, pointer, mapped, outcome), tf, mf)
<1>1. Covered(s, tf) /\ ButtonKnown(s, mf) /\ Consistent(s)
  BY DEF Good, NativeMatch, Covered
<1> QED BY <1>1, InjectedGood DEF OnMove

LEMMA UpGood ==
  ASSUME NEW tf \in BOOLEAN, NEW mf \in BOOLEAN,
         NEW s \in TouchState, Good(s, tf, mf), NEW pointer \in Pointers,
         NEW outcome \in Possible(tf, mf)
  PROVE  Good(OnUp(s, pointer, outcome), tf, mf)
<1>1. Covered(s, tf) /\ ButtonKnown(s, mf) /\ Consistent(s)
  BY DEF Good, NativeMatch, Covered
<1> QED BY <1>1, InjectedGood DEF OnUp

-----------------------------------------------------------------------------
(* The inductive invariant.                                                *)
IInv == /\ TypeOK /\ Good(touch, TouchFails, MouseFails)
        /\ Away => touch.contacts = {}

LEMMA InitIInv == Init => IInv
<1> SUFFICES ASSUME Init PROVE IInv
  OBVIOUS
<1>1. PICK fallback \in BOOLEAN :
        touch = NoTouch(fallback) /\ session = "live" /\ fingers = {}
  BY DEF Init
<1>2. /\ NoTouch(fallback) \in TouchState
      /\ NoTouch(fallback).contacts = {}
      /\ NoTouch(fallback).primary = NoPrimary
      /\ NoTouch(fallback).pressed = {}
      /\ NoTouch(fallback).active = FALSE
      /\ NoTouch(fallback).button = FALSE
  BY DEF NoTouch, TouchState
<1>3. Cardinality({}) = 0 /\ 0 <= MaxTouches
  BY TouchAssumption, FS_EmptySet
<1> QED BY <1>1, <1>2, <1>3
        DEF IInv, TypeOK, Good, NativeMatch, ButtonKnown, Consistent, Away

LEMMA StepIInv == IInv /\ [Next]_vars => IInv'
<1> SUFFICES ASSUME IInv, [Next]_vars PROVE IInv'
  OBVIOUS
<1>0. touch \in TouchState /\ Good(touch, TouchFails, MouseFails)
      /\ fingers \in SUBSET Pointers
      /\ session \in {"live", "paused", "stopped", "ended"}
      /\ Outcomes = Possible(TouchFails, MouseFails)
      /\ TouchFails \in BOOLEAN /\ MouseFails \in BOOLEAN
  BY GestureAssumption DEF IInv, TypeOK, Good, Outcomes, Possible
<1>a. Away => touch.contacts = {}
  BY DEF IInv
<1> DEFINE Kept == /\ Good(touch', TouchFails, MouseFails)
                   /\ fingers' \in SUBSET Pointers
                   /\ session' \in {"live", "paused", "stopped", "ended"}
                   /\ Away' => touch'.contacts = {}
<1>1. SUFFICES Kept
  BY DEF IInv, TypeOK, Good
<1>2. ASSUME NEW pointer \in Pointers, Down(pointer)
      PROVE  Kept
  <2>1. Good(touch', TouchFails, MouseFails)
    BY <1>0, <1>2, DownGood DEF Down, Ignored
  <2> QED BY <1>0, <1>a, <1>2, <2>1 DEF Down, Ignored, Received, Away
<1>3. ASSUME NEW pointer \in Pointers, PointerDown(pointer)
      PROVE  Kept
  <2>1. Good(touch', TouchFails, MouseFails)
    BY <1>0, <1>3, PointerDownGood DEF PointerDown, Ignored
  <2> QED BY <1>0, <1>a, <1>3, <2>1 DEF PointerDown, Ignored, Received, Away
<1>4. ASSUME NEW pointer \in Pointers, Move(pointer)
      PROVE  Kept
  BY <1>0, <1>a, <1>4, MoveGood DEF Move, Received, Away
<1>5. ASSUME NEW pointer \in Pointers, Up(pointer)
      PROVE  Kept
  <2>1. Good(touch', TouchFails, MouseFails)
    BY <1>0, <1>5, UpGood DEF Up, Ignored
  <2> QED BY <1>0, <1>a, <1>5, <2>1 DEF Up, Ignored, Received, Away
<1>6. CASE Cancel
  <2>1. Good(touch', TouchFails, MouseFails)
    BY <1>0, <1>6, CancelGood DEF Cancel, Ignored
  <2> QED BY <1>0, <1>a, <1>6, <2>1 DEF Cancel, Ignored, Received, Away
<1>7. CASE Scroll
  BY <1>0, <1>a, <1>7, CancelGood DEF Scroll, Received, Away
<1>8. CASE Leaves
  BY <1>0, <1>a, <1>8, CancelGood DEF Leaves, Away
<1>9. CASE Resume \/ HostStops \/ Ended \/ UNCHANGED vars
  BY <1>0, <1>a, <1>9 DEF Resume, HostStops, Ended, Away, vars
<1> QED BY <1>2, <1>3, <1>4, <1>5, <1>6, <1>7, <1>8, <1>9 DEF Next

LEMMA Invariance == Spec => []IInv
BY InitIInv, StepIInv, PTL DEF Spec

(* Every variable keeps its type, whatever the phone sends and whichever   *)
(* Windows call fails.                                                     *)
THEOREM TypeCorrect == Spec => []TypeOK
<1>1. IInv => TypeOK
  BY DEF IInv
<1> QED BY <1>1, Invariance, PTL

(* The contact array of reverse_add_touch() never overflows and its        *)
(* primary contact is always found.                                        *)
THEOREM ContactsAreConsistent == Spec => []ContactsConsistent
<1>1. IInv => ContactsConsistent
  BY DEF IInv, Good, Consistent, ContactsConsistent
<1> QED BY <1>1, Invariance, PTL

(* Windows holds down what the host tracks, for any number of fingers and  *)
(* any messages lost.                                                      *)
THEOREM NativeContactsAgree == Spec => []NativeContactsMatch
<1>1. IInv => NativeContactsMatch
  BY DEF IInv, Good, NativeMatch, NativeContactsMatch
<1> QED BY <1>1, Invariance, PTL

(* The host never believes the left button down while it is up.            *)
THEOREM ButtonIsTracked == Spec => []ButtonTracked
<1>1. IInv => ButtonTracked
  BY DEF IInv, Good, ButtonKnown, ButtonTracked
<1> QED BY <1>1, Invariance, PTL

(* Pause, stop and disconnect release every native contact, if no call of  *)
(* Windows fails (reverse_cancel_touches).                                 *)
THEOREM NativeContactsReleased ==
  ASSUME ~TouchFails
  PROVE  Spec => []TouchReleased
<1>1. IInv => TouchReleased
  BY DEF IInv, Good, NativeMatch, TouchReleased
<1> QED BY <1>1, Invariance, PTL

-----------------------------------------------------------------------------
(***************************************************************************)
(* One finger.  What the mouse fallback gets right: the contact it presses *)
(* the button for is the primary one as long as it is there.               *)
(* InjectTouchInput may fail at any call, SendInput works.                 *)
(***************************************************************************)
Single(s) == /\ s.contacts \subseteq {s.primary}
             /\ s.active => s.fallback /\ s.contacts # {}

LEMMA CancelSingle ==
  ASSUME NEW s \in TouchState, Single(s), NEW outcome \in Possible(TRUE, FALSE)
  PROVE  LET t == CancelTouches(s, outcome)
         IN  /\ t.contacts = {} /\ ~t.active /\ Single(t)
<1>1. CASE s.contacts = {}
  BY <1>1 DEF CancelTouches, Single, TouchState
<1>2. CASE s.contacts # {}
  BY <1>2 DEF CancelTouches, Forget, Single, TouchState
<1> QED BY <1>1, <1>2

LEMMA InjectedSingle ==
  ASSUME NEW s \in TouchState, ButtonKnown(s, FALSE),
         s.contacts \subseteq {s.primary}, s.active => s.fallback,
         NEW pointer \in s.contacts, NEW flag, NEW outcome \in Possible(TRUE, FALSE)
  PROVE  Single(Injected(s, pointer, flag, outcome))
<1> DEFINE frame == TouchFrame(s, pointer, flag, outcome)
           t == frame.state
<1>0. outcome.mouse = TRUE /\ pointer = s.primary /\ pointer \in Pointers
  BY DEF Possible, Outcome, TouchState
<1>1. /\ t.contacts = s.contacts /\ t.primary = s.primary
      /\ t.active => t.fallback /\ flag # "UP"
      /\ frame.ok
  <2>1. CASE ~s.fallback /\ FrameAccepted(s, pointer, flag, outcome)
    BY <2>1 DEF TouchFrame, TouchState
  <2>2. CASE ~(~s.fallback /\ FrameAccepted(s, pointer, flag, outcome))
    <3> DEFINE u == [s EXCEPT !.fallback = TRUE]
    <3>1. u \in TouchState /\ u.fallback = TRUE /\ u.contacts = s.contacts
          /\ u.primary = s.primary /\ u.active = s.active
      BY DEF TouchState
    <3>2. frame = MouseFrame(u, pointer, flag, outcome)
      BY <2>2 DEF TouchFrame
    <3> HIDE DEF u
    <3>3. CASE flag = "UP"
      <4>1. t = [u EXCEPT !.active = FALSE,
                          !.button = @ /\ ~(u.active /\ outcome.mouse)]
        BY <1>0, <3>1, <3>2, <3>3 DEF MouseFrame
      <4>2. frame.ok = (~u.active \/ outcome.mouse)
        BY <1>0, <3>1, <3>2, <3>3 DEF MouseFrame
      <4>3. t.contacts = u.contacts /\ t.primary = u.primary /\ t.active = FALSE
        BY <3>1, <4>1 DEF TouchState
      <4> QED BY <1>0, <3>1, <3>3, <4>2, <4>3
    <3>4. CASE flag # "UP" /\ ~u.active
      <4>1. t = [u EXCEPT !.active = outcome.mouse,
                          !.button = @ \/ outcome.mouse]
        BY <3>2, <3>4 DEF MouseFrame
      <4>2. frame.ok
        BY <1>0, <3>2, <3>4 DEF MouseFrame
      <4>3. t.contacts = u.contacts /\ t.primary = u.primary /\ t.fallback = TRUE
        BY <3>1, <4>1 DEF TouchState
      <4> QED BY <3>1, <3>4, <4>2, <4>3
    <3>5. CASE flag # "UP" /\ u.active
      <4>1. t = u
        BY <3>2, <3>5 DEF MouseFrame
      <4>2. frame.ok = (u.primary \in u.contacts /\ flag = "UPDATE"
                           => outcome.mouse)
        BY <3>2, <3>5 DEF MouseFrame
      <4> QED BY <1>0, <3>1, <3>5, <4>1, <4>2
    <3> QED BY <3>3, <3>4, <3>5
  <2> QED BY <2>1, <2>2
<1>2. t \in TouchState
  BY TouchFrameGood
<1>3. Injected(s, pointer, flag, outcome) =
        IF flag # "UP" THEN t
        ELSE [t EXCEPT !.contacts = @ \ {pointer},
                       !.primary = IF @ = pointer THEN NoPrimary ELSE @]
  BY <1>1 DEF Injected
<1> HIDE DEF frame
<1>4. CASE flag # "UP"
  BY <1>1, <1>3, <1>4 DEF Single
<1>5. CASE flag = "UP"
  BY <1>0, <1>1, <1>2, <1>3, <1>5 DEF Single, TouchState
<1> QED BY <1>4, <1>5

LEMMA DownSingle ==
  ASSUME NEW s \in TouchState, Good(s, TRUE, FALSE), Single(s),
         NEW pointer \in Pointers, NEW mapped, NEW cancelled \in Possible(TRUE, FALSE),
         NEW outcome \in Possible(TRUE, FALSE)
  PROVE  Single(OnDown(s, pointer, mapped, cancelled, outcome))
<1> DEFINE clean == CancelTouches(s, cancelled)
           first == [Added(clean, pointer) EXCEPT !.primary = pointer]
<1>1. Good(clean, TRUE, FALSE) /\ clean.contacts = {} /\ ~clean.active /\ Single(clean)
  BY CancelGood, CancelSingle
<1>2. OnDown(s, pointer, mapped, cancelled, outcome) =
        IF ~mapped \/ ~Room(clean) THEN clean
        ELSE Injected(first, pointer, "DOWN", outcome)
  BY DEF OnDown
<1>3. /\ first \in TouchState /\ first.contacts = {pointer}
      /\ first.primary = pointer /\ ~first.active /\ ButtonKnown(first, FALSE)
  <2> DEFINE t == Added(clean, pointer)
  <2>1. clean \in TouchState /\ ButtonKnown(clean, FALSE)
    BY <1>1 DEF Good
  <2> HIDE DEF clean
  <2>2. /\ t \in TouchState /\ t.contacts = {pointer}
        /\ t.active = clean.active /\ t.button = clean.button
    BY <1>1, <2>1 DEF Added, TouchState
  <2> HIDE DEF t
  <2>3. /\ first \in TouchState /\ first.contacts = t.contacts
        /\ first.primary = pointer /\ first.active = t.active
        /\ first.button = t.button
    <3>1. first = [t EXCEPT !.primary = pointer]
      BY DEF t
    <3> QED BY <2>2, <3>1 DEF TouchState
  <2> QED BY <1>1, <2>1, <2>2, <2>3 DEF ButtonKnown
<1> HIDE DEF first, clean
<1>4. CASE ~mapped \/ ~Room(clean)
  BY <1>1, <1>2, <1>4
<1>5. CASE mapped /\ Room(clean)
  <2>1. Single(Injected(first, pointer, "DOWN", outcome))
    BY <1>3, InjectedSingle
  <2> QED BY <1>2, <1>5, <2>1
<1> QED BY <1>4, <1>5

(* The instance of the run is of the same operations.                      *)
LEMMA SameOperations ==
  /\ One!Outcomes = Possible(TRUE, FALSE)
  /\ \A s, o : One!CancelTouches(s, o) = CancelTouches(s, o)
  /\ \A s, p, m, c, o : One!OnDown(s, p, m, c, o) = OnDown(s, p, m, c, o)
  /\ \A s, p, m, o : One!OnMove(s, p, m, o) = OnMove(s, p, m, o)
  /\ \A s, p, o : One!OnUp(s, p, o) = OnUp(s, p, o)
<1>1. One!Outcomes = Possible(TRUE, FALSE)
  BY DEF One!Outcomes, One!Outcome, Possible, Outcome
<1>2. \A s, o : One!CancelTouches(s, o) = CancelTouches(s, o)
  BY DEF One!CancelTouches, CancelTouches, One!Forget, Forget
<1>3. \A s, p, f, o : One!TouchFrame(s, p, f, o) = TouchFrame(s, p, f, o)
  BY DEF One!TouchFrame, TouchFrame, One!MouseFrame, MouseFrame, One!FrameAccepted, FrameAccepted
<1>4. \A s, p, f, o : One!Injected(s, p, f, o) = Injected(s, p, f, o)
  <2>1. \A s : One!Forget(s) = Forget(s)
    BY DEF One!Forget, Forget
  <2> SUFFICES ASSUME NEW s, NEW p, NEW f, NEW o
               PROVE  One!Injected(s, p, f, o) = Injected(s, p, f, o)
    OBVIOUS
  <2>2. One!TouchFrame(s, p, f, o) = TouchFrame(s, p, f, o)
    BY <1>3
  <2> QED BY <2>1, <2>2 DEF One!Injected, Injected
<1>5. \A s : One!Room(s) <=> Room(s)
  BY DEF One!Room, Room, One!Cardinality, Cardinality
<1>6. \A s, p : One!Added(s, p) = Added(s, p)
  BY DEF One!Added, Added
<1>7. \A s, p, m, c, o : One!OnDown(s, p, m, c, o) = OnDown(s, p, m, c, o)
  BY <1>2, <1>4, <1>5, <1>6 DEF One!OnDown, OnDown
<1> QED BY <1>1, <1>2, <1>4, <1>7 DEF One!OnMove, OnMove, One!OnUp, OnUp

(* With one finger PointerDown never fires, and a DOWN cancels what is left*)
(* of the gesture before, so only the primary contact is ever tracked.     *)
OneInv ==
  /\ Good(touch1, TRUE, FALSE) /\ Single(touch1)
  /\ fingers1 \in SUBSET Pointers
  /\ One!Away => touch1.contacts = {}

LEMMA InitOne == One!Init => OneInv
<1> SUFFICES ASSUME One!Init PROVE OneInv
  OBVIOUS
<1>1. PICK fallback \in BOOLEAN :
        touch1 = NoTouch(fallback) /\ session1 = "live" /\ fingers1 = {}
  BY DEF One!Init, One!NoTouch, NoTouch
<1>2. Cardinality({}) = 0 /\ 0 <= MaxTouches
  BY TouchAssumption, FS_EmptySet
<1>3. NoTouch(fallback) \in TouchState
  BY DEF NoTouch, TouchState
<1> QED BY <1>1, <1>2, <1>3
        DEF OneInv, NoTouch, Good, NativeMatch, ButtonKnown, Consistent, Single, One!Away

LEMMA StepOne == OneInv /\ [One!Next]_oneVars => OneInv'
<1> SUFFICES ASSUME OneInv, [One!Next]_oneVars PROVE OneInv'
  OBVIOUS
<1>0. /\ touch1 \in TouchState /\ Good(touch1, TRUE, FALSE) /\ Single(touch1)
      /\ fingers1 \in SUBSET Pointers /\ One!Outcomes = Possible(TRUE, FALSE)
  BY SameOperations DEF OneInv, Good
<1>a. /\ ButtonKnown(touch1, FALSE) /\ touch1.contacts \subseteq {touch1.primary}
      /\ touch1.active => touch1.fallback
  BY <1>0 DEF Good, Single
<1>b. One!Away => touch1.contacts = {}
  BY DEF OneInv
<1>1. ASSUME UNCHANGED touch1, fingers1' \in SUBSET Pointers, One!Away' => touch1.contacts = {}
      PROVE  OneInv'
  BY <1>0, <1>1 DEF OneInv
<1>2. ASSUME One!Ignored, fingers1' \in SUBSET Pointers PROVE OneInv'
  BY <1>b, <1>1, <1>2 DEF One!Ignored, One!Away
<1>3. ASSUME NEW t, touch1' = t, Good(t, TRUE, FALSE), Single(t), fingers1' \in SUBSET Pointers,
             session1' = "live" \/ t.contacts = {}
      PROVE  OneInv'
  BY <1>3 DEF OneInv, One!Away
<1>4. ASSUME NEW pointer \in Pointers, One!Down(pointer) PROVE OneInv'
  <2>1. fingers1' \in SUBSET Pointers
    BY <1>4 DEF One!Down
  <2>2. CASE ~One!Ignored
    <3>1. PICK mapped \in One!Mappings, cancelled \in Possible(TRUE, FALSE), outcome \in Possible(TRUE, FALSE) :
            touch1' = OnDown(touch1, pointer, mapped, cancelled, outcome) /\ session1' = "live"
      BY <1>0, <1>4, <2>2, SameOperations DEF One!Down, One!Received
    <3>2. /\ Good(OnDown(touch1, pointer, mapped, cancelled, outcome), TRUE, FALSE)
          /\ Single(OnDown(touch1, pointer, mapped, cancelled, outcome))
      BY <1>0, DownGood, DownSingle
    <3> QED BY <1>3, <2>1, <3>1, <3>2
  <2> QED BY <1>2, <2>1, <2>2
<1>5. ASSUME NEW pointer \in Pointers, One!PointerDown(pointer) PROVE FALSE
  <2>1. IsFiniteSet(fingers1) /\ fingers1 # {} /\ Cardinality(fingers1) < 1
    BY <1>0, <1>5, TouchAssumption, FS_Subset DEF One!PointerDown, One!Cardinality, Cardinality
  <2>2. Cardinality(fingers1) \in Nat /\ Cardinality(fingers1) # 0
    BY <2>1, FS_CardinalityType, FS_EmptySet
  <2> QED BY <2>1, <2>2
<1>6. ASSUME NEW pointer \in Pointers, One!Move(pointer) PROVE OneInv'
  <2>1. PICK mapped \in One!Mappings, outcome \in Possible(TRUE, FALSE) :
          touch1' = OnMove(touch1, pointer, mapped, outcome)
    BY <1>0, <1>6, SameOperations DEF One!Move
  <2>2. Good(OnMove(touch1, pointer, mapped, outcome), TRUE, FALSE)
    BY <1>0, MoveGood
  <2>3. Single(OnMove(touch1, pointer, mapped, outcome))
    BY <1>0, <1>a, InjectedSingle DEF OnMove
  <2> QED BY <1>0, <1>3, <1>6, <2>1, <2>2, <2>3 DEF One!Move, One!Received
<1>7. ASSUME NEW pointer \in Pointers, One!Up(pointer) PROVE OneInv'
  <2>1. fingers1' \in SUBSET Pointers
    BY <1>0, <1>7 DEF One!Up
  <2>2. CASE ~One!Ignored
    <3>1. PICK outcome \in Possible(TRUE, FALSE) :
            touch1' = OnUp(touch1, pointer, outcome) /\ session1' = "live"
      BY <1>0, <1>7, <2>2, SameOperations DEF One!Up, One!Received
    <3>2. Good(OnUp(touch1, pointer, outcome), TRUE, FALSE)
      BY <1>0, UpGood
    <3>3. Single(OnUp(touch1, pointer, outcome))
      BY <1>0, <1>a, InjectedSingle DEF OnUp
    <3> QED BY <1>3, <2>1, <3>1, <3>2, <3>3
  <2> QED BY <1>2, <2>1, <2>2
<1>8. CASE One!Cancel \/ One!Scroll \/ One!Leaves
  <2>1. fingers1' \in SUBSET Pointers
    BY <1>0, <1>8 DEF One!Cancel, One!Scroll, One!Leaves
  <2>2. CASE ~One!Ignored
    <3>1. PICK outcome \in Possible(TRUE, FALSE) : touch1' = CancelTouches(touch1, outcome)
      BY <1>0, <1>8, <2>2, SameOperations DEF One!Cancel, One!Scroll, One!Leaves
    <3>2. /\ Good(CancelTouches(touch1, outcome), TRUE, FALSE)
          /\ CancelTouches(touch1, outcome).contacts = {}
      BY <1>0, CancelGood
    <3>3. Single(CancelTouches(touch1, outcome))
      BY <1>0, CancelSingle
    <3> QED BY <1>3, <2>1, <3>1, <3>2, <3>3
  <2> QED BY <1>2, <2>1, <2>2
<1>9. CASE One!Resume \/ One!HostStops \/ One!Ended \/ UNCHANGED oneVars
  <2>1. UNCHANGED <<touch1, fingers1>> /\ (One!Away' => One!Away)
    BY <1>9 DEF One!Resume, One!HostStops, One!Ended, One!vars, One!Away, oneVars
  <2> QED BY <1>0, <1>1, <1>b, <2>1
<1> QED BY <1>4, <1>5, <1>6, <1>7, <1>8, <1>9 DEF One!Next

(* One finger never leaves the left button pressed behind: with a single   *)
(* contact at a time the documented release holds for the mouse fallback,  *)
(* whenever it starts (reverse_cancel_touches).  The run touch_two_fingers *)
(* shows that it does not for two.                                         *)
THEOREM OneFingerReleases == TouchSpec => []OneFingerReleased
<1>1. TouchInit => OneInv
  BY InitOne DEF TouchInit
<1>2. OneInv /\ [TouchNext]_<<oneFinger, oneVars, vars>> => OneInv'
  <2>1. [TouchNext]_<<oneFinger, oneVars, vars>> => [One!Next]_oneVars
    BY DEF TouchNext
  <2> QED BY <2>1, StepOne
<1>3. OneInv => OneFingerReleased
  <2> SUFFICES ASSUME OneInv, One!Away PROVE ~touch1.button
    BY DEF OneFingerReleased, One!MouseReleased
  <2>1. touch1.contacts = {} /\ ButtonKnown(touch1, FALSE) /\ Single(touch1)
    BY DEF OneInv, Good
  <2> QED BY <2>1 DEF ButtonKnown, Single
<1> QED BY <1>1, <1>2, <1>3, PTL DEF TouchSpec
=============================================================================
