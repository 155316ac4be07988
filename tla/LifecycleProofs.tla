-------------------------- MODULE LifecycleProofs --------------------------
(***************************************************************************)
(* What the components that find a device, connect to it and end keep      *)
(* true, whatever fails and whenever the end comes: those of the lifecycle *)
(* each, and all of them together.                                         *)
(*                                                                         *)
(* The session service: ServiceOwnsSession speaks of the states between two*)
(* handlers.  It is not inductive: what a callback may do to them depends  *)
(* on what the thread that posts it still knows, and what the rest of      *)
(* stopSession() finds depends on a thread that publishes its transport    *)
(* before it.  IInv adds both: what each thread may still do with its      *)
(* transport (Published), in which order a thread, its report and its      *)
(* decoder follow each other (Aged, Finished, ConnectedOnce, Awaited), and *)
(* what holds inside a handler (Phased, Bounded).                          *)
(*                                                                         *)
(* The others: each has an invariant of its own (ServerInv, SessionInv,    *)
(* PusherInv, IconInv, OtgInv, DevicesInv), which says what every point of *)
(* the program has acquired and which steps still to come release it.      *)
(* LifecycleInv is their conjunction, kept because a step of one component *)
(* leaves the others as they are (LifecycleSteps).                         *)
(***************************************************************************)
EXTENDS MCLifecycle, FiniteSetTheorems, SequenceTheorems, WellFoundedInduction,
        NaturalsInduction, TLAPS

(* stopSession() waits for the lock, or a start goes on after it.          *)
Closing == mainPc \in {"stop", "destroy", "internet", "usb"}
Starting == mainPc \in {"failed", "receive", "connect"}

(* A generation past the bound is that of a session that is over.          *)
Bounded ==
  /\ generation <= MaxGeneration + 2
  /\ IsActive => generation \in 1..(MaxGeneration + 1)
  /\ mainPc \in {"internet", "usb"} => generation <= MaxGeneration

(* What the handlers know of the session, by where the main thread is.     *)
Phased ==
  /\ Closing => phase = "IDLE" /\ decoder = None /\ ~vpnCheck
  /\ Starting => /\ phase = "WAITING" /\ decoder = None /\ ~vpnCheck
                 /\ transport = None /\ ~foreground
                 /\ mainPc = "receive" => vpnAddress
                 /\ mainPc = "connect" => ~vpnAddress
  /\ Handling => /\ decoder # None <=> phase = "CONNECTED"
                 /\ foreground <=> IsActive
                 /\ vpnCheck <=> IsActive /\ vpnAddress
                 /\ transport # None => IsActive /\ transport = generation
  /\ decoder # None => decoder = generation /\ transport = generation

(* What the computer of the connected session was told last.               *)
Told ==
  IF decoder = None THEN lastVideoVisible = "unknown"
  ELSE /\ lastVideoVisible = Shown /\ announced = Shown
       /\ resumable \/ visible

(* The only open transport is the published one, which every thread that   *)
(* may still open or publish one respects.                                 *)
Published ==
  /\ open \subseteq {transport} \ {None}
  /\ \A t \in Tokens :
       /\ worker[t] = "receiver" => transport = t \/ t \in closed
       /\ worker[t] = "publish" =>
            /\ transport = None /\ (Closing \/ IsCurrent(t))
            /\ \A u \in Tokens : worker[u] = "publish" => t = u
       /\ worker[t] = "usb" /\ IsCurrent(t) => transport = None
       /\ worker[t] = "connecting" /\ IsCurrent(t) => transport = t

(* No thread is older than its session.                                    *)
Aged ==
  \A t \in Tokens :
    worker[t] # "none" => t <= generation /\ (Starting => t # generation)

(* A session is decoded, and reported on, once its connecting thread ended.*)
Finished ==
  /\ decoder # None => worker[decoder] = "done"
  /\ \A t \in decoders : worker[t] = "done"
  /\ \A i \in 1..Len(posts) : worker[posts[i].token] = "done"

(* A session connects once.                                                *)
ConnectedOnce ==
  \A i, j \in 1..Len(posts) :
    /\ posts[i].kind = "connected" /\ posts[j].kind = "connected"
    /\ posts[i].token = posts[j].token
    => i = j

(* A current session that connected has its transport, and no decoder yet. *)
Awaited ==
  \A i \in 1..Len(posts) :
    posts[i].kind = "connected" /\ IsCurrent(posts[i].token)
      => transport = generation /\ decoder = None

IInv ==
  /\ TypeOK /\ Bounded /\ Phased /\ Told /\ Published
  /\ Aged /\ Finished /\ ConnectedOnce /\ Awaited

-----------------------------------------------------------------------------
(***************************************************************************)
(* Posts and the threads that make them.                                   *)
(***************************************************************************)
Kinds == {"connected", "failed"}
Report(kind, token) == [kind |-> kind, token |-> token]

(* A post has a kind and the token of its session.                         *)
LEMMA PostsTyped ==
  ASSUME TypeOK
  PROVE  \A i \in 1..Len(posts) :
           posts[i].token \in Tokens /\ posts[i].kind \in Kinds
<1>1. posts \in Seq([kind : Kinds, token : Tokens])
  BY DEF TypeOK, Kinds
<1>2. \A i \in 1..Len(posts) : posts[i] \in [kind : Kinds, token : Tokens]
  BY <1>1, ElementOfSeq
<1> QED BY <1>2

(* What was posted stays in order; a handler takes the first or none.      *)
Handled ==
  \/ posts' = posts
  \/ posts # <<>> /\ posts' = Tail(posts)

(* A post that is left is one that was there, and two are still two.       *)
LEMMA HandledPosts ==
  ASSUME TypeOK, Handled
  PROVE  /\ posts' \in Seq([kind : Kinds, token : Tokens])
         /\ \E d \in {0, 1} :
              \A i \in 1..Len(posts') :
                i + d \in 1..Len(posts) /\ posts'[i] = posts[i + d]
<1>1. posts \in Seq([kind : Kinds, token : Tokens])
  BY DEF TypeOK, Kinds
<1> HIDE DEF Kinds
<1>2. CASE posts' = posts
  BY <1>1, <1>2
<1>3. CASE posts # <<>> /\ posts' = Tail(posts)
  <2>1. /\ posts' \in Seq([kind : Kinds, token : Tokens])
        /\ Len(posts') = Len(posts) - 1
    BY <1>1, <1>3, HeadTailProperties
  <2>2. \A i \in 1..Len(posts') :
          i + 1 \in 1..Len(posts) /\ posts'[i] = posts[i + 1]
    BY <1>1, <1>3, <2>1
  <2> QED BY <2>1, <2>2
<1> QED BY <1>2, <1>3 DEF Handled

(* ... of which one at most is of a session that connected.                *)
LEMMA HandledOnce ==
  ASSUME TypeOK, ConnectedOnce, Handled
  PROVE  ConnectedOnce'
<1>1. PICK d \in {0, 1} :
        \A i \in 1..Len(posts') :
          i + d \in 1..Len(posts) /\ posts'[i] = posts[i + d]
  BY HandledPosts
<1> SUFFICES ASSUME NEW i \in 1..Len(posts'), NEW j \in 1..Len(posts'),
                    posts'[i].kind = "connected", posts'[j].kind = "connected",
                    posts'[i].token = posts'[j].token
             PROVE  i = j
  BY DEF ConnectedOnce
<1>2. i + d = j + d
  BY <1>1 DEF ConnectedOnce
<1> QED BY <1>2

-----------------------------------------------------------------------------
(***************************************************************************)
(* The steps of the main thread.                                           *)
(***************************************************************************)
(* stopSession() up to its lock ends any session, from any handler.        *)
LEMMA StopKeeps ==
  ASSUME IInv, NEW next \in {"stop", "destroy", "internet", "usb"},
         StopSession(next), Handled, UNCHANGED resumable,
         Handling \/ mainPc = "failed",
         generation < MaxGeneration \/ (IsActive /\ next = "stop"),
         visible' \in BOOLEAN, surface' \in BOOLEAN,
         delayedStops' \subseteq Tokens
  PROVE  IInv'
<1> USE ServiceAssumption DEF IInv
<1>0. /\ generation' = generation + 1 /\ phase' = "IDLE" /\ vpnCheck' = FALSE
      /\ vpnAddress' = FALSE /\ lastVideoVisible' = "unknown" /\ decoder' = None
      /\ open' = open \ ({decoder} \ {None})
      /\ closed' = closed \cup ({decoder} \ {None}) /\ mainPc' = next
      /\ UNCHANGED <<transport, foreground, worker, decoders, announced>>
  BY DEF StopSession, Closes, locked, threads
<1>1. ~IsActive' /\ Closing' /\ ~Starting' /\ ~Handling'
  BY <1>0 DEF IsActive, Closing, Starting, Handling
<1>2. TypeOK'
  <2>1. posts' \in Seq([kind : {"connected", "failed"}, token : Tokens])
    BY HandledPosts DEF Kinds
  <2>2. closed' \subseteq Tokens /\ open' \subseteq Tokens
    BY <1>0 DEF TypeOK
  <2>3. /\ resumable' \in BOOLEAN /\ foreground' \in BOOLEAN
        /\ vpnAddress' \in BOOLEAN /\ vpnCheck' \in BOOLEAN
    BY <1>0, Zenon DEF TypeOK
  <2>4. /\ decoder' \in Tokens \cup {None} /\ transport' \in Tokens \cup {None}
        /\ lastVideoVisible' \in {"unknown", "shown", "hidden"}
        /\ decoders' \subseteq Tokens /\ announced' \in {"shown", "hidden"}
        /\ phase' \in {"IDLE", "WAITING", "CONNECTED"} /\ generation' \in Nat
    BY <1>0 DEF TypeOK
  <2> QED BY <1>0, <2>1, <2>2, <2>3, <2>4 DEF TypeOK
<1>3. Bounded'
  BY <1>0, <1>1 DEF Bounded, TypeOK
<1>4. Phased'
  BY <1>0, <1>1 DEF Phased
<1>5. Told'
  BY <1>0 DEF Told
<1>6. Published'
  BY <1>0, <1>1 DEF Published, IsCurrent
<1>7. Aged'
  BY <1>0, <1>1 DEF Aged, TypeOK, Tokens
<1>8. Finished'
  BY <1>0, HandledPosts DEF Finished
<1>9. ConnectedOnce'
  BY HandledOnce
<1>10. Awaited'
  BY <1>1 DEF Awaited, IsCurrent
<1> QED
  BY <1>2, <1>3, <1>4, <1>5, <1>6, <1>7, <1>8, <1>9, <1>10

(* Its end leaves no transport open, and the next session may start.       *)
LEMMA CloseKeeps ==
  ASSUME IInv, Close \/ Destroyed \/ Restart, UNCHANGED resumable
  PROVE  IInv'
<1> USE ServiceAssumption DEF IInv
<1>0. /\ Closing /\ \A t \in Tokens : worker[t] # "publish"
      /\ open' = open \ ({transport} \ {None})
      /\ closed' = closed \cup ({transport} \ {None})
      /\ transport' = None /\ foreground' = FALSE
      /\ UNCHANGED <<visible, surface, decoder, lastVideoVisible, vpnCheck,
                     worker, decoders, announced>>
  BY DEF Close, Destroyed, Restart, CloseTransport, Closes, Closing, TypeOK,
         threads
<1>1. phase = "IDLE" /\ decoder = None /\ ~vpnCheck
  BY <1>0 DEF Phased
<1>2. posts' = posts \/ posts' = <<>>
  BY DEF Close, Destroyed, Restart
<1>3. \/ /\ phase' = "IDLE" /\ UNCHANGED generation /\ Handling'
         /\ ~Starting'
      \/ /\ mainPc \in {"internet", "usb"} /\ phase' = "WAITING"
         /\ generation' = generation + 1 /\ Starting' /\ ~Handling'
         /\ mainPc' = "receive" => vpnAddress'
         /\ mainPc' = "connect" => ~vpnAddress'
  BY <1>1 DEF Close, Destroyed, Restart, Handling, Starting
<1>4. ~Closing' /\ mainPc' \notin {"internet", "usb"}
  BY DEF Close, Destroyed, Restart, Closing
<1>5. TypeOK'
  <2>1. closed' \subseteq Tokens /\ open' \subseteq Tokens
    BY <1>0 DEF TypeOK
  <2>2. /\ mainPc' \in {"idle", "destroyed", "failed", "receive", "connect"}
        /\ delayedStops' \subseteq Tokens /\ vpnAddress' \in BOOLEAN
    BY DEF Close, Destroyed, Restart, TypeOK
  <2>3. posts' \in Seq([kind : {"connected", "failed"}, token : Tokens])
    BY <1>2, EmptySeq DEF TypeOK
  <2>4. /\ resumable' \in BOOLEAN /\ foreground' \in BOOLEAN
        /\ visible' \in BOOLEAN /\ surface' \in BOOLEAN
        /\ vpnCheck' \in BOOLEAN
    BY <1>0, Zenon DEF TypeOK
  <2>5. /\ phase' \in {"IDLE", "WAITING", "CONNECTED"} /\ generation' \in Nat
    BY <1>3 DEF TypeOK
  <2> QED BY <1>0, <2>1, <2>2, <2>3, <2>4, <2>5 DEF TypeOK
<1>6. Bounded'
  BY <1>1, <1>3, <1>4 DEF Bounded, TypeOK, IsActive
<1>7. Phased'
  BY <1>0, <1>1, <1>3, <1>4 DEF Phased, IsActive
<1>8. Told'
  BY <1>0, <1>1 DEF Told
<1>9. Published'
  BY <1>0, <1>1, <1>3 DEF Published, IsCurrent, IsActive, Aged, Bounded, TypeOK
<1>10. Aged'
  BY <1>0, <1>3 DEF Aged, TypeOK, Tokens
<1>11. Finished'
  BY <1>0, <1>2 DEF Finished
<1>12. ConnectedOnce'
  BY <1>2 DEF ConnectedOnce
<1>13. Awaited'
  <2>1. \A i \in 1..Len(posts') : posts'[i].token <= generation
    BY <1>2, PostsTyped DEF Finished, Aged
  <2> QED
    BY <1>3, <2>1 DEF Awaited, IsCurrent, IsActive, TypeOK
<1> QED
  BY <1>5, <1>6, <1>7, <1>8, <1>9, <1>10, <1>11, <1>12, <1>13

(* A session that starts has its receiver published, or will publish the   *)
(* transport its thread opens.                                             *)
LEMMA StartedKeeps ==
  ASSUME IInv, Started, UNCHANGED resumable
  PROVE  IInv'
<1> USE ServiceAssumption DEF IInv
<1>0. /\ Starting /\ foreground' /\ mainPc' = "idle"
      /\ UNCHANGED <<generation, phase, visible, surface, decoder,
                     lastVideoVisible, vpnAddress, posts, delayedStops, open,
                     closed, decoders, announced>>
  BY DEF Started, Starting
<1>1. /\ phase = "WAITING" /\ decoder = None /\ transport = None
      /\ generation \in Tokens /\ open = {} /\ worker[generation] = "none"
  BY <1>0 DEF Phased, Bounded, IsActive, Tokens, Published, Aged
<1>2. /\ vpnCheck' <=> vpnAddress
      /\ \/ transport' = generation
            /\ worker' = [worker EXCEPT ![generation] = "receiver"]
         \/ transport' = None
            /\ worker' = [worker EXCEPT ![generation] = "usb"]
  BY <1>0, <1>1 DEF Started, Phased, TypeOK
<1>3. /\ worker'[generation] \in {"receiver", "usb"}
      /\ worker'[generation] = "receiver" <=> transport' = generation
      /\ \A t \in Tokens : t # generation => worker'[t] = worker[t]
  BY <1>1, <1>2 DEF TypeOK, Tokens, None
<1>4. TypeOK'
  BY <1>0, <1>1, <1>2 DEF TypeOK, Started
<1>5. Bounded'
  BY <1>0, <1>1 DEF Bounded, IsActive
<1>6. Phased'
  BY <1>0, <1>1, <1>2
  DEF Phased, IsActive, Handling, Starting, Closing, None
<1>7. Told'
  BY <1>0, <1>1 DEF Told
<1>8. Published'
  BY <1>0, <1>1, <1>2, <1>3
  DEF Published, IsCurrent, IsActive, Starting, Closing, None, Tokens
<1>9. Aged'
  BY <1>0, <1>1, <1>3 DEF Aged, Starting, Tokens
<1>10. Finished'
  BY <1>0, <1>1, <1>3, PostsTyped DEF Finished, TypeOK
<1>11. ConnectedOnce'
  BY <1>0 DEF ConnectedOnce
<1>12. Awaited'
  BY <1>0, <1>1, PostsTyped DEF Awaited, IsCurrent, IsActive, Finished
<1> QED
  BY <1>4, <1>5, <1>6, <1>7, <1>8, <1>9, <1>10, <1>11, <1>12

(* A handler that changes nothing but what it took.                        *)
LEMMA NothingKeeps ==
  ASSUME IInv, NothingToDo, Handled, UNCHANGED <<resumable, visible, surface>>,
         delayedStops' \subseteq Tokens
  PROVE  IInv'
<1> USE DEF IInv
<1>0. UNCHANGED <<generation, phase, decoder, lastVideoVisible, vpnAddress,
                  vpnCheck, open, closed, mainPc, transport, foreground, worker,
                  decoders, announced>>
  BY DEF NothingToDo, stopped, locked, threads
<1>1. TypeOK'
  <2>1. posts' \in Seq([kind : {"connected", "failed"}, token : Tokens])
    BY HandledPosts DEF Kinds
  <2>2. /\ resumable' \in BOOLEAN /\ visible' \in BOOLEAN
        /\ surface' \in BOOLEAN /\ foreground' \in BOOLEAN
        /\ vpnAddress' \in BOOLEAN /\ vpnCheck' \in BOOLEAN
    BY <1>0, Zenon DEF TypeOK
  <2> QED BY <1>0, <2>1, <2>2 DEF TypeOK
<1>2. Bounded' /\ Phased'
  BY <1>0
  DEF Bounded, Phased, IsActive, Handling, Starting, Closing
<1>3. Told'
  BY <1>0 DEF Told, Shown
<1>4. Published' /\ Aged'
  BY <1>0 DEF Published, Aged, IsCurrent, IsActive, Starting, Closing
<1>5. Finished' /\ Awaited'
  BY <1>0, HandledPosts DEF Finished, Awaited, IsCurrent, IsActive
<1>6. ConnectedOnce'
  BY HandledOnce
<1> QED BY <1>1, <1>2, <1>3, <1>4, <1>5, <1>6

(* A handler that may close the transport of its decoder or of a session   *)
(* that is over, and then tells the computer what can be seen.             *)
LEMMA VisibilityKeeps ==
  ASSUME IInv, Handling, Handled, visible' \in BOOLEAN, surface' \in BOOLEAN,
         UNCHANGED <<resumable, generation, phase, decoder, vpnAddress, vpnCheck,
                     mainPc, delayedStops, worker, decoders, locked>>,
         open' \subseteq open, closed \subseteq closed', closed' \subseteq Tokens,
         \/ UNCHANGED <<visible, surface, lastVideoVisible, announced>>
         \/ /\ decoder # None /\ ~resumable => visible'
            /\ UpdateVideoVisibility(announced)
  PROVE  IInv'
<1> USE DEF IInv, locked
<1>1. TypeOK'
  <2>1. posts' \in Seq([kind : {"connected", "failed"}, token : Tokens])
    BY HandledPosts DEF Kinds
  <2>2. Shown' \in {"shown", "hidden"}
    BY DEF Shown
  <2>3. /\ lastVideoVisible' \in {"unknown", "shown", "hidden"}
        /\ announced' \in {"shown", "hidden"}
    BY <2>2 DEF UpdateVideoVisibility, TypeOK
  <2>4. open' \subseteq Tokens
    BY DEF TypeOK
  <2> HIDE DEF Shown
  <2> QED BY <2>1, <2>3, <2>4, ZenonT(30) DEF TypeOK
<1>2. Bounded' /\ Phased'
  BY DEF Bounded, Phased, IsActive, Handling, Starting, Closing
<1>3. Told'
  BY DEF Told, Shown, UpdateVideoVisibility
<1>4. Published' /\ Aged'
  BY DEF Published, Aged, IsCurrent, IsActive, Starting, Closing
<1>5. Finished' /\ Awaited'
  BY HandledPosts DEF Finished, Awaited, IsCurrent, IsActive
<1>6. ConnectedOnce'
  BY HandledOnce
<1> QED BY <1>1, <1>2, <1>3, <1>4, <1>5, <1>6

(* The handler of a connection gives the session its decoder.              *)
LEMMA ConnectedKeeps ==
  ASSUME IInv, Handling, posts # <<>>, posts' = Tail(posts),
         posts[1].kind = "connected", IsCurrent(posts[1].token),
         visible \/ resumable, Connected,
         UNCHANGED <<resumable, visible, surface, delayedStops>>
  PROVE  IInv'
<1> USE DEF IInv
<1>0. /\ phase' = "CONNECTED" /\ decoder' = transport
      /\ decoders' = decoders \cup {transport}
      /\ UNCHANGED <<generation, vpnAddress, vpnCheck, open, closed, mainPc,
                     transport, foreground, worker>>
      /\ UpdateVideoVisibility("shown")
  BY DEF Connected, locked
<1>1. Handled
  BY DEF Handled
<1>2. /\ 1 \in 1..Len(posts) /\ Len(posts') = Len(posts) - 1
      /\ \A i \in 1..Len(posts') :
           i + 1 \in 1..Len(posts) /\ posts'[i] = posts[i + 1]
  <2>1. posts \in Seq([kind : Kinds, token : Tokens])
    BY DEF TypeOK, Kinds
  <2> QED BY <2>1, HeadTailProperties, LenProperties
<1>3. /\ posts[1].token \in Tokens /\ posts[1].token = generation /\ IsActive
      /\ transport = generation /\ decoder = None /\ generation \in Tokens
      /\ worker[generation] = "done" /\ generation # None
  BY <1>2, PostsTyped DEF IsCurrent, Awaited, Finished, Tokens, None
<1>4. TypeOK'
  <2>1. posts' \in Seq([kind : {"connected", "failed"}, token : Tokens])
    BY <1>1, HandledPosts DEF Kinds
  <2>2. /\ lastVideoVisible' \in {"shown", "hidden"}
        /\ announced' \in {"shown", "hidden"}
    BY <1>0, <1>3 DEF UpdateVideoVisibility, Shown
  <2>3. decoders' \subseteq Tokens /\ decoder' \in Tokens
    BY <1>0, <1>3 DEF TypeOK
  <2> QED BY <1>0, <2>1, <2>2, <2>3, ZenonT(30) DEF TypeOK
<1>5. IsActive' /\ Handling'
  BY <1>0 DEF IsActive, Handling
<1>6. Bounded' /\ Phased'
  BY <1>0, <1>3, <1>5 DEF Bounded, Phased, Handling, Starting, Closing
<1>7. Told'
  BY <1>0, <1>3 DEF Told, Shown, UpdateVideoVisibility
<1>8. Published' /\ Aged'
  BY <1>0, <1>3, <1>5 DEF Published, Aged, IsCurrent, Starting, Closing
<1>9. Finished'
  BY <1>0, <1>2, <1>3 DEF Finished
<1>10. ConnectedOnce'
  BY <1>1, HandledOnce
<1>11. Awaited'
  <2> SUFFICES ASSUME NEW i \in 1..Len(posts'), posts'[i].kind = "connected",
                      posts'[i].token = generation
               PROVE  FALSE
    BY <1>0 DEF Awaited, IsCurrent
  <2>1. i + 1 = 1
    BY <1>2, <1>3 DEF ConnectedOnce
  <2> QED BY <2>1
<1> QED BY <1>4, <1>6, <1>7, <1>8, <1>9, <1>10, <1>11

-----------------------------------------------------------------------------
(***************************************************************************)
(* The steps of the other threads.                                         *)
(***************************************************************************)
(* They leave the session as it is, ...                                    *)
LEMMA ThreadsFootprint ==
  ASSUME NEW token \in Tokens, Threads(token)
  PROVE  /\ decoders' \subseteq decoders
         /\ UNCHANGED <<resumable, generation, phase, visible, surface, decoder,
                        foreground, lastVideoVisible, vpnAddress, vpnCheck,
                        mainPc, delayedStops, announced>>
BY DEF Threads, DecoderEnds

(* ... each thread goes on from where it is, ...                           *)
LEMMA WorkerFootprint ==
  ASSUME NEW token \in Tokens, Threads(token)
  PROVE  \/ DecoderEnds(token) /\ UNCHANGED worker
         \/ \E pc \in {"publish", "connecting", "done"} :
              /\ worker[token] \notin {"none", "done"}
              /\ worker' = [worker EXCEPT ![token] = pc]
<1> USE DEF Threads, Worker
<1>1. CASE UsbChecks(token)
  BY <1>1 DEF UsbChecks
<1>2. CASE UsbPublishes(token)
  BY <1>2 DEF UsbPublishes
<1>3. CASE ReceiverOpens(token)
  BY <1>3 DEF ReceiverOpens
<1>4. CASE Connects(token)
  BY <1>4 DEF Connects
<1>5. CASE ConnectFails(token)
  BY <1>5 DEF ConnectFails
<1>6. CASE DecoderEnds(token)
  BY <1>6 DEF DecoderEnds
<1> QED BY <1>1, <1>2, <1>3, <1>4, <1>5, <1>6

LEMMA DoneForGood ==
  ASSUME TypeOK, NEW token \in Tokens, Threads(token)
  PROVE  /\ \A t \in Tokens : worker[t] = "done" => worker'[t] = "done"
         /\ \A t \in Tokens : worker[t] = "none" => worker'[t] = "none"
BY WorkerFootprint DEF TypeOK

(* ... and posts at its end.                                               *)
LEMMA PostFootprint ==
  ASSUME TypeOK, Finished, NEW token \in Tokens, Threads(token)
  PROVE  \/ posts' = posts
         \/ \E kind \in Kinds :
              /\ posts' = Append(posts, Report(kind, token))
              /\ worker'[token] = "done"
              /\ kind = "connected" => Connects(token)
<1> USE DEF Threads, Worker, Post, Report, Kinds
<1>0. \A pc : worker' = [worker EXCEPT ![token] = pc] => worker'[token] = pc
  BY DEF TypeOK
<1>1. CASE UsbChecks(token)
  BY <1>1 DEF UsbChecks
<1>2. CASE UsbPublishes(token)
  BY <1>0, <1>2 DEF UsbPublishes
<1>3. CASE ReceiverOpens(token)
  BY <1>3 DEF ReceiverOpens
<1>4. CASE Connects(token)
  BY <1>0, <1>4 DEF Connects
<1>5. CASE ConnectFails(token)
  BY <1>0, <1>5 DEF ConnectFails
<1>6. CASE DecoderEnds(token)
  BY <1>6 DEF DecoderEnds, Finished
<1> QED BY <1>1, <1>2, <1>3, <1>4, <1>5, <1>6

(* A transport is opened and published by the thread of its session, and   *)
(* closed by whoever ends the session before.                              *)
LEMMA ThreadsPublished ==
  ASSUME IInv, NEW token \in Tokens, Threads(token)
  PROVE  Published' /\ Phased'
<1> USE DEF IInv
<1> USE DEF TypeOK, Published, Closing, IsActive, IsCurrent, None, Tokens,
            Threads, Worker
<1>0. ASSUME UNCHANGED transport PROVE Phased'
  BY <1>0 DEF Phased, Handling, Starting
<1>1. CASE UsbChecks(token)
  BY <1>0, <1>1 DEF UsbChecks, Phased
<1>2. CASE UsbPublishes(token) /\ worker'[token] = "connecting"
  <2>1. /\ transport = None /\ transport' = token /\ open' = {token}
        /\ UNCHANGED <<closed, mainPc, phase, generation, decoder, foreground,
                       vpnCheck, vpnAddress>>
        /\ worker' = [worker EXCEPT ![token] = "connecting"]
        /\ worker[token] = "publish"
    BY <1>2 DEF UsbPublishes
  <2>2. /\ \A t \in Tokens : worker[t] = "publish" => t = token
        /\ Closing \/ IsCurrent(token)
    BY <2>1
  <2>3. \A t \in Tokens :
          worker'[t] = IF t = token THEN "connecting" ELSE worker[t]
    BY <2>1
  <2>4. IsActive => token = generation
    BY <2>1, <2>2 DEF Phased
  <2>5. Published'
    BY <2>1, <2>2, <2>3, <2>4
  <2>6. Phased'
    BY <2>1, <2>2, <2>4 DEF Phased, Handling, Starting, Aged
  <2> QED BY <2>5, <2>6
<1>3. CASE UsbPublishes(token) /\ worker'[token] = "done"
  BY <1>0, <1>3 DEF UsbPublishes
<1>4. CASE ReceiverOpens(token)
  BY <1>0, <1>4 DEF ReceiverOpens
<1>5. CASE Connects(token)
  BY <1>0, <1>5 DEF Connects
<1>6. CASE ConnectFails(token)
  BY <1>0, <1>6 DEF ConnectFails
<1>7. CASE DecoderEnds(token)
  BY <1>0, <1>7 DEF DecoderEnds
<1>8. UsbPublishes(token) => worker'[token] \in {"connecting", "done"}
  BY DEF UsbPublishes
<1> QED BY <1>1, <1>2, <1>3, <1>4, <1>5, <1>6, <1>7, <1>8

(* A step of a thread keeps the invariant.                                 *)
LEMMA ThreadsKeep ==
  ASSUME IInv, NEW token \in Tokens, Threads(token)
  PROVE  IInv'
<1> USE DEF IInv
<1>0. UNCHANGED <<resumable, generation, phase, visible, surface, decoder,
                  foreground, lastVideoVisible, vpnAddress, vpnCheck,
                  mainPc, delayedStops, announced>>
  BY ThreadsFootprint
<1>1. \/ posts' = posts
      \/ \E kind \in Kinds :
           /\ posts' = Append(posts, Report(kind, token))
           /\ worker'[token] = "done"
           /\ kind = "connected" => Connects(token)
  BY PostFootprint
<1>2. \A i \in 1..Len(posts) :
        /\ posts[i].token \in Tokens /\ worker[posts[i].token] = "done"
        /\ worker'[posts[i].token] = "done"
  BY PostsTyped, DoneForGood DEF Finished
<1>3. TypeOK'
  <2>1. posts' \in Seq([kind : {"connected", "failed"}, token : Tokens])
    <3> DEFINE Posts == [kind : {"connected", "failed"}, token : Tokens]
    <3>1. \A kind \in Kinds : Report(kind, token) \in Posts
      BY DEF Kinds, Report
    <3>2. posts \in Seq(Posts)
      BY DEF TypeOK
    <3> HIDE DEF Posts
    <3>3. posts' \in Seq(Posts)
      BY <1>1, <3>1, <3>2, AppendProperties
    <3> QED BY <3>3 DEF Posts
  <2>2. worker' \in [Tokens -> {"none", "usb", "publish", "receiver",
                                "connecting", "done"}]
    BY WorkerFootprint DEF TypeOK
  <2>3. /\ open' \subseteq Tokens /\ closed' \subseteq Tokens
        /\ decoders' \subseteq Tokens /\ transport' \in Tokens \cup {None}
    BY ThreadsFootprint
    DEF Threads, UsbChecks, UsbPublishes, ReceiverOpens, Connects, ConnectFails,
        DecoderEnds, TypeOK
  <2>4. /\ resumable' \in BOOLEAN /\ foreground' \in BOOLEAN
        /\ visible' \in BOOLEAN /\ surface' \in BOOLEAN
        /\ vpnAddress' \in BOOLEAN /\ vpnCheck' \in BOOLEAN
    BY <1>0, Zenon DEF TypeOK
  <2> QED BY <1>0, <2>1, <2>2, <2>3, <2>4 DEF TypeOK
<1>4. Bounded' /\ Told'
  BY <1>0 DEF Bounded, Told, IsActive, Shown
<1>5. Published' /\ Phased'
  BY ThreadsPublished
<1>6. Aged'
  BY <1>0, DoneForGood DEF Aged, Starting
<1>7. Finished'
  <2>1. decoder' # None => worker'[decoder'] = "done"
    BY <1>0, DoneForGood DEF Finished, TypeOK
  <2>2. \A t \in decoders' : worker'[t] = "done"
    BY ThreadsFootprint, DoneForGood DEF Finished, TypeOK
  <2>3. \A i \in 1..Len(posts') : worker'[posts'[i].token] = "done"
    <3>1. CASE posts' = posts
      BY <1>2, <3>1
    <3>2. ASSUME NEW kind \in Kinds, worker'[token] = "done",
                 posts' = Append(posts, Report(kind, token))
          PROVE  \A i \in 1..Len(posts') : worker'[posts'[i].token] = "done"
      <4>1. Report(kind, token).token = token
        BY DEF Report
      <4>2. \A i \in 1..Len(posts') :
              \/ i \in 1..Len(posts) /\ posts'[i] = posts[i]
              \/ posts'[i] = Report(kind, token)
        BY <3>2 DEF TypeOK
      <4> QED BY <1>2, <3>2, <4>1, <4>2
    <3> QED BY <1>1, <3>1, <3>2
  <2> QED BY <2>1, <2>2, <2>3 DEF Finished
<1>8. ConnectedOnce' /\ Awaited'
  <2>1. CASE \A i \in 1..Len(posts') :
               posts'[i].kind = "connected" =>
                 i \in 1..Len(posts) /\ posts'[i] = posts[i]
    <3>1. ConnectedOnce'
      BY <2>1 DEF ConnectedOnce
    <3>2. \A i \in 1..Len(posts) :
            posts[i].kind = "connected" /\ IsCurrent(posts[i].token)
              => transport' = transport
      <4>1. CASE UsbPublishes(token)
        <5>1. transport = None
          BY <4>1 DEF UsbPublishes, Worker, Published
        <5>2. generation \in Nat /\ (IsActive => generation # None)
          BY DEF Bounded, TypeOK, None
        <5> QED BY <5>1, <5>2 DEF Awaited, IsCurrent
      <4>2. CASE ~UsbPublishes(token)
        BY <4>2
        DEF Threads, UsbChecks, ReceiverOpens, Connects, ConnectFails,
            DecoderEnds
      <4> QED BY <4>1, <4>2
    <3>3. Awaited'
      BY <1>0, <2>1, <3>2 DEF Awaited, IsCurrent, IsActive
    <3> QED BY <3>1, <3>3
  <2>2. CASE /\ posts' = Append(posts, Report("connected", token))
             /\ Connects(token)
    <3>1. /\ worker[token] = "connecting" /\ UNCHANGED transport
          /\ \A i \in 1..Len(posts) : posts[i].token # token
      BY <1>2, <2>2 DEF Connects, Worker
    <3>2. /\ Report("connected", token).token = token
          /\ \A i \in 1..Len(posts') :
               \/ i \in 1..Len(posts) /\ posts'[i] = posts[i]
               \/ i = Len(posts) + 1 /\ posts'[i] = Report("connected", token)
      BY <2>2 DEF TypeOK, Report
    <3>3. ConnectedOnce'
      BY <3>1, <3>2 DEF ConnectedOnce
    <3>4. IsCurrent(token) => transport = generation /\ decoder = None
      BY <3>1 DEF Published, IsCurrent, Finished, Phased
    <3>5. Awaited'
      BY <1>0, <3>1, <3>2, <3>4 DEF Awaited, IsCurrent, IsActive
    <3> QED BY <3>3, <3>5
  <2>3. CASE posts' = Append(posts, Report("failed", token))
    BY <2>1, <2>3 DEF Report, TypeOK
  <2> QED BY <1>1, <2>1, <2>2, <2>3 DEF Kinds
<1> QED BY <1>3, <1>4, <1>5, <1>6, <1>7, <1>8

-----------------------------------------------------------------------------
(***************************************************************************)
(* The invariant and the theorems.                                         *)
(***************************************************************************)
(* The service starts without a session.                                   *)
LEMMA InitIInv == Init => IInv
<1> SUFFICES ASSUME Init PROVE IInv
  OBVIOUS
<1> USE ServiceAssumption
<1>1. TypeOK
  BY EmptySeq DEF Init, TypeOK
<1>2. Bounded /\ Phased /\ Told
  BY DEF Init, Bounded, Phased, Told, IsActive, Closing, Starting, Handling,
         None
<1>3. Published /\ Aged
  BY DEF Init, Published, Aged
<1>4. Finished /\ ConnectedOnce /\ Awaited
  BY DEF Init, Finished, ConnectedOnce, Awaited
<1> QED BY <1>1, <1>2, <1>3, <1>4 DEF IInv

(* Every handler, and every step of a thread, keeps the invariant.         *)
LEMMA NextIInv == IInv /\ [Next]_vars => IInv'
<1> SUFFICES ASSUME IInv, [Next]_vars PROVE IInv'
  OBVIOUS
<1> USE ServiceAssumption
<1>0. /\ delayedStops \subseteq Tokens /\ open \subseteq Tokens
      /\ closed \subseteq Tokens /\ visible \in BOOLEAN /\ surface \in BOOLEAN
      /\ decoder \in Tokens \cup {None}
      /\ decoder # None => IsActive \/ ~Handling
  BY DEF IInv, TypeOK, Phased, IsActive
<1>1. ASSUME UNCHANGED resumable,
             \/ \E kind \in {"internet", "usb"} : Start(kind)
             \/ TaskRemoved \/ Destroy
      PROVE  IInv'
  <2>1. PICK next \in {"stop", "destroy", "internet", "usb"} : StopSession(next)
    BY <1>1 DEF Start, TaskRemoved, Destroy
  <2>2. /\ User /\ UNCHANGED <<visible, surface, posts, delayedStops>>
    BY <1>1 DEF Start, TaskRemoved, Destroy
  <2> QED BY <1>0, <1>1, <2>1, <2>2, StopKeeps DEF User, Handling, Handled
<1>2. ASSUME UNCHANGED resumable, SetVisible
      PROVE  IInv'
  <2>1. User /\ visible' = ~visible /\ UNCHANGED <<surface, posts, delayedStops>>
    BY <1>2 DEF SetVisible
  <2>2. CASE StopSession("stop")
    BY <1>0, <1>2, <2>1, <2>2, StopKeeps DEF User, Handling, Handled
  <2>3. CASE ~(~visible' /\ decoder # None /\ ~resumable)
    <3>1. /\ UNCHANGED <<generation, phase, decoder, vpnAddress, vpnCheck, open,
                         closed, mainPc, locked, worker, decoders>>
          /\ UpdateVideoVisibility(announced)
      BY <1>2, <2>3 DEF SetVisible
    <3> QED
      BY <1>0, <1>2, <2>1, <2>3, <3>1, VisibilityKeeps
      DEF User, Handling, Handled
  <2> QED BY <1>2, <2>2, <2>3 DEF SetVisible
<1>3. ASSUME UNCHANGED resumable, ChangeSurface
      PROVE  IInv'
  <2>1. User /\ surface' = ~surface /\ UNCHANGED <<visible, posts, delayedStops>>
    BY <1>3 DEF ChangeSurface
  <2>2. CASE StopSession("stop")
    BY <1>0, <1>3, <2>1, <2>2, StopKeeps DEF User, Handling, Handled
  <2>3. CASE ~StopSession("stop")
    <3>1. /\ UNCHANGED <<generation, phase, decoder, vpnAddress, vpnCheck,
                         mainPc, locked, worker, decoders>>
          /\ Closes(IF ~surface' /\ ~resumable THEN {decoder} \ {None} ELSE {})
          /\ UpdateVideoVisibility(announced)
      BY <1>3, <2>3 DEF ChangeSurface
    <3>2. /\ open' \subseteq open /\ closed \subseteq closed'
          /\ closed' \subseteq Tokens
      BY <1>0, <3>1 DEF Closes
    <3>3. decoder # None /\ ~resumable => visible'
      BY <2>1 DEF IInv, Told
    <3> QED
      BY <1>0, <1>3, <2>1, <3>1, <3>2, <3>3, VisibilityKeeps
      DEF User, Handling, Handled
  <2> QED BY <2>2, <2>3
<1>4. ASSUME UNCHANGED resumable, RequestStop
      PROVE  IInv'
  <2>1. /\ User /\ UNCHANGED <<visible, surface, posts>>
        /\ delayedStops' \subseteq Tokens
        /\ StopSession("stop") \/ NothingToDo
    BY <1>0, <1>4 DEF RequestStop
  <2> QED
    BY <1>0, <1>4, <2>1, StopKeeps, NothingKeeps DEF User, Handling, Handled
<1>5. ASSUME UNCHANGED resumable, Close \/ Destroyed \/ Restart
      PROVE  IInv'
  BY <1>5, CloseKeeps
<1>6. ASSUME UNCHANGED resumable, RestartFails
      PROVE  IInv'
  <2>1. /\ mainPc = "failed" /\ StopSession("stop")
        /\ UNCHANGED <<visible, surface, posts, delayedStops>>
    BY <1>6 DEF RestartFails
  <2>2. IsActive
    BY <2>1 DEF IInv, Phased, Starting, IsActive
  <2> QED BY <1>0, <1>6, <2>1, <2>2, StopKeeps DEF Handled
<1>7. ASSUME UNCHANGED resumable, Started
      PROVE  IInv'
  BY <1>7, StartedKeeps
<1>8. CASE CheckVpn
  <2>1. /\ Handling /\ IsActive
        /\ StopSession("stop") \/ NothingToDo
        /\ UNCHANGED <<resumable, visible, surface, posts, delayedStops>>
    BY <1>8 DEF CheckVpn, IInv, Phased
  <2> QED BY <1>0, <2>1, StopKeeps, NothingKeeps DEF Handled
<1>9. CASE Callback
  <2>1. /\ Handling /\ posts # <<>> /\ posts' = Tail(posts)
        /\ UNCHANGED <<resumable, visible, surface, delayedStops>>
    BY <1>9 DEF Callback
  <2>2. Head(posts) = posts[1] /\ 1 \in 1..Len(posts) /\ posts[1].token \in Tokens
        /\ Handled
    BY <2>1, PostsTyped DEF IInv, TypeOK, Handled
  <2>3. CASE ~IsCurrent(posts[1].token)
    <3>1. /\ UNCHANGED <<generation, phase, decoder, lastVideoVisible,
                         vpnAddress, vpnCheck, mainPc, locked, threads>>
          /\ \E tokens \in SUBSET Tokens : Closes(tokens)
      BY <1>9, <2>2, <2>3 DEF Callback
    <3>2. /\ open' \subseteq open /\ closed \subseteq closed'
          /\ closed' \subseteq Tokens
      BY <1>0, <3>1 DEF Closes
    <3> QED BY <1>0, <2>1, <2>2, <3>1, <3>2, VisibilityKeeps DEF threads
  <2>4. CASE IsCurrent(posts[1].token) /\ StopSession("stop")
    BY <1>0, <2>1, <2>2, <2>4, StopKeeps DEF IsCurrent
  <2>5. CASE IsCurrent(posts[1].token) /\ ~StopSession("stop")
    BY <1>9, <2>1, <2>2, <2>5, ConnectedKeeps DEF Callback, Connected
  <2> QED BY <2>3, <2>4, <2>5
<1>10. ASSUME NEW token \in Tokens, DelayedStop(token)
       PROVE  IInv'
  <2>1. /\ Handling
        /\ (StopSession("stop") /\ decoder = token) \/ NothingToDo
        /\ UNCHANGED <<resumable, visible, surface, posts>>
        /\ delayedStops' \subseteq Tokens
    BY <1>0, <1>10 DEF DelayedStop
  <2>2. token # None
    BY DEF Tokens, None
  <2> QED BY <1>0, <2>1, <2>2, StopKeeps, NothingKeeps DEF Handled
<1>11. ASSUME NEW token \in Tokens, Threads(token)
       PROVE  IInv'
  BY <1>11, ThreadsKeep
<1>12. CASE UNCHANGED vars
  BY <1>0, <1>12, NothingKeeps
  DEF vars, NothingToDo, Handled, stopped, locked, threads
<1> QED
  BY <1>1, <1>2, <1>3, <1>4, <1>5, <1>6, <1>7, <1>8, <1>9, <1>10, <1>11, <1>12
  DEF Next, UserActs, Continues

(* The invariant holds in every reachable state of every instance.         *)
THEOREM Invariance == Spec => []IInv
BY InitIInv, NextIInv, PTL DEF Spec

(* However late a thread opens its transport or posts its callback, and    *)
(* whatever the user does meanwhile, between two handlers the service has  *)
(* the decoder, the transport, the watch of the VPN and the visibility of  *)
(* its current session and of no other.                                    *)
THEOREM ServiceOwnsItsSession == Spec => []ServiceOwnsSession
<1>1. IInv => ServiceOwnsSession
  <2> SUFFICES ASSUME IInv PROVE ServiceOwnsSession
    OBVIOUS
  <2> USE DEF IInv
  <2>1. SessionOwned
    BY DEF SessionOwned, Phased
  <2>2. NoLeakedTransport
    BY DEF NoLeakedTransport, Published, Phased, IsCurrent
  <2>3. VisibilityAnnounced /\ NoHiddenSession
    BY DEF VisibilityAnnounced, NoHiddenSession, Told
  <2>4. VpnWatched
    BY DEF VpnWatched, Phased
  <2> QED BY <2>1, <2>2, <2>3, <2>4 DEF ServiceOwnsSession
<1> QED BY <1>1, Invariance, PTL

(* A session is ended only by its user, the loss of its VPN, a failure its *)
(* own threads reported, or a stop requested for its own decoder: never by *)
(* a callback or a delayed stop an earlier session left behind.            *)
THEOREM SessionEndsForItsOwnReason == Spec => EndsForItsOwnReason
<1> DEFINE OwnReason ==
             \/ UserActs \/ RestartFails
             \/ CheckVpn /\ vpnAddress
             \/ Callback /\ Head(posts).token = generation
             \/ generation \in delayedStops
           Ends == IsActive /\ generation' # generation => OwnReason
<1>1. IInv /\ [Next]_vars => [Ends]_vars
  <2> SUFFICES ASSUME IInv, Next, IsActive, generation' # generation
               PROVE  OwnReason
    OBVIOUS
  <2> USE DEF IInv
  <2>1. ~Close /\ ~Destroyed /\ ~Restart /\ ~Started
    BY DEF Close, Destroyed, Restart, Started, Phased, Closing, IsActive
  <2>2. CASE CheckVpn
    BY <2>2 DEF CheckVpn, NothingToDo, stopped
  <2>3. CASE Callback
    BY <2>3 DEF Callback, IsCurrent
  <2>4. ASSUME NEW token \in Tokens, DelayedStop(token)
        PROVE  generation \in delayedStops
    <3>1. decoder = token /\ token \in delayedStops
      BY <2>4 DEF DelayedStop, NothingToDo, stopped
    <3>2. decoder # None
      BY <3>1 DEF Tokens, None
    <3> QED BY <3>1, <3>2 DEF Phased
  <2>5. \A token \in Tokens : ~Threads(token)
    BY DEF Threads
  <2> QED BY <2>1, <2>2, <2>3, <2>4, <2>5 DEF Next, Continues
<1>2. Spec => [][Ends]_vars
  BY <1>1, Invariance, PTL DEF Spec
<1> QED BY <1>2 DEF EndsForItsOwnReason

-----------------------------------------------------------------------------
(* The server.                                                             *)
SelectingPcs ==
  {"start", "select", "get_ip", "enable_tcpip", "wait_tcpip", "connect_tcpip", "push"}
ListPcs == {"execute_list", "wait_list"}
TunnelPcs == {"reverse", "listen", "forward", "execute"}
RunPcs == {"observe", "connect", "connected", "wait_stop", "watchdog", "join", "terminate", "reap"}
SrvPcs == SelectingPcs \cup ListPcs \cup TunnelPcs \cup RunPcs \cup {"failed", "done"}

SrvTyped ==
  /\ srvPc \in SrvPcs
  /\ params.list \in BOOLEAN /\ params.streams \in Seq({"video", "audio", "control"})
  /\ ~params.list => Len(params.streams) > 0
  /\ cut \in BOOLEAN
  /\ process \in {"none", "running", "killed", "dead", "reaped"}
  /\ observer \in {"off", "running", "ended"}
  /\ devConns \in Nat /\ backlog \in Seq(Nat) /\ sockets \in Seq(Nat)
  /\ stored \in Seq(Nat) /\ closedConns \in Seq(Nat)
  /\ reported \in Seq({"connected", "failed"})

(* A list and a session part after the server is pushed.                   *)
SrvPaths ==
  /\ srvPc \in ListPcs => params.list
  /\ srvPc \in TunnelPcs \cup RunPcs => ~params.list

(* Every end passes where the process is reaped and its observer joined.   *)
ProcessOwned ==
  /\ srvPc \in SelectingPcs \cup TunnelPcs \cup {"execute_list"} => process = "none"
  /\ srvPc \in SelectingPcs \cup TunnelPcs \cup ListPcs \cup {"observe"} => observer = "off"
  /\ srvPc \in {"failed", "done"} => process \in {"none", "reaped"} /\ observer # "running"

(* The rules adb has are those of the port being tried, or were left behind*)
(* by an interruption.                                                     *)
TunnelOwned ==
  /\ srvPc \notin {"observe", "connect", "execute"} => tunnel = Srv!NoTunnel
  /\ cut \/ rules \subseteq
       (CASE srvPc = "listen" -> {<<"reverse", port>>}
          [] srvPc \in {"execute", "observe", "connect"} ->
               {<<IF tunnel.forward THEN "forward" ELSE "reverse", port>>}
          [] OTHER -> {})

(* The sockets and the report go together.                                 *)
SocketsOwned ==
  /\ srvPc # "connect" => sockets = <<>>
  /\ srvPc \notin {"terminate", "reap", "failed", "done"} => closedConns = <<>>
  /\ stored = <<>> \/ closedConns = <<>>
  /\ srvPc \in {"connected", "wait_stop", "watchdog", "join"} => stored # <<>>
  /\ srvPc \notin {"connected", "wait_stop", "watchdog", "join", "done"} => stored = <<>>
  /\ srvPc \in {"wait_stop", "watchdog", "join"} => reported = <<"connected">>
  /\ srvPc \notin {"wait_stop", "watchdog", "join", "done"} => reported = <<>>
  /\ srvPc = "done" =>
       /\ reported \in {<<"connected">>, <<"failed">>}
       /\ ~params.list => (reported = <<"connected">>) = (stored # <<>>)

(* The connections are numbered in the order the device opens them: through*)
(* a reverse tunnel those accepted come before those that wait; through a  *)
(* forward one a socket leads nowhere only if the device has fewer of them.*)
AcceptedFirst(s, b, n) ==
  /\ n = Len(s) + Len(b)
  /\ \A i \in 1..Len(s) : s[i] = i
  /\ \A i \in 1..Len(b) : b[i] = Len(s) + i

NowhereApart(s, n) == n <= Len(s) /\ (n = Len(s) => \A i \in 1..Len(s) : s[i] = i)

InOrder ==
  /\ \A i \in 1..Len(stored) : stored[i] = i
  /\ srvPc \in SelectingPcs \cup TunnelPcs => backlog = <<>> /\ devConns = 0
  /\ srvPc \in {"execute", "observe", "connect"} =>
       IF tunnel.forward THEN NowhereApart(sockets, devConns)
       ELSE AcceptedFirst(sockets, backlog, devConns)

ServerInv == SrvTyped /\ SrvPaths /\ ProcessOwned /\ TunnelOwned /\ SocketsOwned /\ InOrder

USE DEF Srv!At, Srv!Goto, Srv!Rest, Srv!tunnelVars, Srv!processVars, Srv!connecting

(* The actions that keep each part by their guards and assignments.        *)
USE DEF ServerInv, SrvTyped, SrvPaths, ProcessOwned, TunnelOwned, SocketsOwned, InOrder,
        SelectingPcs, ListPcs, TunnelPcs, RunPcs, SrvPcs

LEMMA ExecuteListKeeps ==
  ASSUME ServerInv, Srv!ExecuteList
  PROVE  ServerInv'
<1> USE DEF Srv!ExecuteList
<1>1. SrvTyped'
  OBVIOUS
<1>2. SrvPaths'
  OBVIOUS
<1>3. ProcessOwned'
  OBVIOUS
<1>4. TunnelOwned'
  OBVIOUS
<1>5. SocketsOwned'
  OBVIOUS
<1>6. InOrder'
  OBVIOUS
<1> QED BY <1>1, <1>2, <1>3, <1>4, <1>5, <1>6

LEMMA WaitListKeeps ==
  ASSUME ServerInv, Srv!WaitList
  PROVE  ServerInv'
<1> USE DEF Srv!WaitList
<1>1. SrvTyped'
  OBVIOUS
<1>2. SrvPaths'
  OBVIOUS
<1>3. ProcessOwned'
  OBVIOUS
<1>4. TunnelOwned'
  OBVIOUS
<1>5. SocketsOwned'
  OBVIOUS
<1>6. InOrder'
  OBVIOUS
<1> QED BY <1>1, <1>2, <1>3, <1>4, <1>5, <1>6

LEMMA ReverseKeeps ==
  ASSUME ServerInv, Srv!Reverse
  PROVE  ServerInv'
<1> USE DEF Srv!Reverse, Srv!MayDo
<1>1. SrvTyped'
  OBVIOUS
<1>2. SrvPaths'
  OBVIOUS
<1>3. ProcessOwned'
  OBVIOUS
<1>4. TunnelOwned'
  OBVIOUS
<1>5. SocketsOwned'
  OBVIOUS
<1>6. InOrder'
  OBVIOUS
<1> QED BY <1>1, <1>2, <1>3, <1>4, <1>5, <1>6

LEMMA ListenKeeps ==
  ASSUME ServerInv, Srv!Listen
  PROVE  ServerInv'
<1> USE DEF Srv!Listen, Srv!NoTunnel, AcceptedFirst, NowhereApart
<1>1. SrvTyped'
  OBVIOUS
<1>2. SrvPaths'
  OBVIOUS
<1>3. ProcessOwned'
  OBVIOUS
<1>4. TunnelOwned'
  OBVIOUS
<1>5. SocketsOwned'
  OBVIOUS
<1>6. InOrder'
  OBVIOUS
<1> QED BY <1>1, <1>2, <1>3, <1>4, <1>5, <1>6

LEMMA ForwardKeeps ==
  ASSUME ServerInv, Srv!Forward
  PROVE  ServerInv'
<1> USE DEF Srv!Forward, Srv!MayDo, Srv!NextPort, AcceptedFirst, NowhereApart
<1>1. SrvTyped'
  OBVIOUS
<1>2. SrvPaths'
  OBVIOUS
<1>3. ProcessOwned'
  OBVIOUS
<1>4. TunnelOwned'
  OBVIOUS
<1>5. SocketsOwned'
  OBVIOUS
<1>6. InOrder'
  OBVIOUS
<1> QED BY <1>1, <1>2, <1>3, <1>4, <1>5, <1>6

LEMMA ExecuteServerKeeps ==
  ASSUME ServerInv, Srv!ExecuteServer
  PROVE  ServerInv'
<1> USE DEF Srv!ExecuteServer, Srv!CloseTunnel, Srv!NoTunnel, AcceptedFirst, NowhereApart
<1>1. SrvTyped'
  OBVIOUS
<1>2. SrvPaths'
  OBVIOUS
<1>3. ProcessOwned'
  OBVIOUS
<1>4. TunnelOwned'
  OBVIOUS
<1>5. SocketsOwned'
  OBVIOUS
<1>6. InOrder'
  OBVIOUS
<1> QED BY <1>1, <1>2, <1>3, <1>4, <1>5, <1>6

LEMMA ObserveKeeps ==
  ASSUME ServerInv, Srv!Observe
  PROVE  ServerInv'
<1> USE DEF Srv!Observe, Srv!CloseTunnel, Srv!NoTunnel, Srv!Terminate, AcceptedFirst, NowhereApart
<1>1. SrvTyped'
  OBVIOUS
<1>2. SrvPaths'
  OBVIOUS
<1>3. ProcessOwned'
  OBVIOUS
<1>4. TunnelOwned'
  OBVIOUS
<1>5. SocketsOwned'
  OBVIOUS
<1>6. InOrder'
  OBVIOUS
<1> QED BY <1>1, <1>2, <1>3, <1>4, <1>5, <1>6

LEMMA ObserverEndsKeeps ==
  ASSUME ServerInv, Srv!ObserverEnds
  PROVE  ServerInv'
<1> USE DEF Srv!ObserverEnds, Srv!OnTerminated
<1>1. SrvTyped'
  OBVIOUS
<1>2. SrvPaths'
  OBVIOUS
<1>3. ProcessOwned'
  OBVIOUS
<1>4. TunnelOwned'
  OBVIOUS
<1>5. SocketsOwned'
  OBVIOUS
<1>6. InOrder'
  OBVIOUS
<1> QED BY <1>1, <1>2, <1>3, <1>4, <1>5, <1>6

LEMMA TerminateProcessKeeps ==
  ASSUME ServerInv, Srv!TerminateProcess
  PROVE  ServerInv'
<1> USE DEF Srv!TerminateProcess, Srv!Terminate
<1>1. SrvTyped'
  OBVIOUS
<1>2. SrvPaths'
  OBVIOUS
<1>3. ProcessOwned'
  OBVIOUS
<1>4. TunnelOwned'
  OBVIOUS
<1>5. SocketsOwned'
  OBVIOUS
<1>6. InOrder'
  OBVIOUS
<1> QED BY <1>1, <1>2, <1>3, <1>4, <1>5, <1>6

LEMMA ReapKeeps ==
  ASSUME ServerInv, Srv!Reap
  PROVE  ServerInv'
<1> USE DEF Srv!Reap
<1>1. SrvTyped'
  OBVIOUS
<1>2. SrvPaths'
  OBVIOUS
<1>3. ProcessOwned'
  OBVIOUS
<1>4. TunnelOwned'
  OBVIOUS
<1>5. SocketsOwned'
  OBVIOUS
<1>6. InOrder'
  OBVIOUS
<1> QED BY <1>1, <1>2, <1>3, <1>4, <1>5, <1>6

LEMMA OnConnectedKeeps ==
  ASSUME ServerInv, Srv!OnConnected
  PROVE  ServerInv'
<1> USE DEF Srv!OnConnected
<1>1. SrvTyped'
  OBVIOUS
<1>2. SrvPaths'
  OBVIOUS
<1>3. ProcessOwned'
  OBVIOUS
<1>4. TunnelOwned'
  OBVIOUS
<1>5. SocketsOwned'
  OBVIOUS
<1>6. InOrder'
  OBVIOUS
<1> QED BY <1>1, <1>2, <1>3, <1>4, <1>5, <1>6

LEMMA WaitStopKeeps ==
  ASSUME ServerInv, Srv!WaitStop
  PROVE  ServerInv'
<1> USE DEF Srv!WaitStop
<1>1. SrvTyped'
  OBVIOUS
<1>2. SrvPaths'
  OBVIOUS
<1>3. ProcessOwned'
  OBVIOUS
<1>4. TunnelOwned'
  OBVIOUS
<1>5. SocketsOwned'
  OBVIOUS
<1>6. InOrder'
  OBVIOUS
<1> QED BY <1>1, <1>2, <1>3, <1>4, <1>5, <1>6

LEMMA WatchdogKeeps ==
  ASSUME ServerInv, Srv!Watchdog
  PROVE  ServerInv'
<1> USE DEF Srv!Watchdog, Srv!Terminate
<1>1. SrvTyped'
  OBVIOUS
<1>2. SrvPaths'
  OBVIOUS
<1>3. ProcessOwned'
  OBVIOUS
<1>4. TunnelOwned'
  OBVIOUS
<1>5. SocketsOwned'
  OBVIOUS
<1>6. InOrder'
  OBVIOUS
<1> QED BY <1>1, <1>2, <1>3, <1>4, <1>5, <1>6

LEMMA JoinObserverKeeps ==
  ASSUME ServerInv, Srv!JoinObserver
  PROVE  ServerInv'
<1> USE DEF Srv!JoinObserver
<1>1. SrvTyped'
  OBVIOUS
<1>2. SrvPaths'
  OBVIOUS
<1>3. ProcessOwned'
  OBVIOUS
<1>4. TunnelOwned'
  OBVIOUS
<1>5. SocketsOwned'
  OBVIOUS
<1>6. InOrder'
  OBVIOUS
<1> QED BY <1>1, <1>2, <1>3, <1>4, <1>5, <1>6

LEMMA OnConnectionFailedKeeps ==
  ASSUME ServerInv, Srv!OnConnectionFailed
  PROVE  ServerInv'
<1> USE DEF Srv!OnConnectionFailed
<1>1. SrvTyped'
  OBVIOUS
<1>2. SrvPaths'
  OBVIOUS
<1>3. ProcessOwned'
  OBVIOUS
<1>4. TunnelOwned'
  OBVIOUS
<1>5. SocketsOwned'
  OBVIOUS
<1>6. InOrder'
  OBVIOUS
<1> QED BY <1>1, <1>2, <1>3, <1>4, <1>5, <1>6

LEMMA StopServerKeeps ==
  ASSUME ServerInv, Srv!StopServer
  PROVE  ServerInv'
<1> USE DEF Srv!StopServer
<1>1. SrvTyped'
  OBVIOUS
<1>2. SrvPaths'
  OBVIOUS
<1>3. ProcessOwned'
  OBVIOUS
<1>4. TunnelOwned'
  OBVIOUS
<1>5. SocketsOwned'
  OBVIOUS
<1>6. InOrder'
  OBVIOUS
<1> QED BY <1>1, <1>2, <1>3, <1>4, <1>5, <1>6

LEMMA DeviceListensKeeps ==
  ASSUME ServerInv, Srv!DeviceListens
  PROVE  ServerInv'
<1> USE DEF Srv!DeviceListens, Srv!DeviceUnchanged
<1>1. SrvTyped'
  OBVIOUS
<1>2. SrvPaths'
  OBVIOUS
<1>3. ProcessOwned'
  OBVIOUS
<1>4. TunnelOwned'
  OBVIOUS
<1>5. SocketsOwned'
  OBVIOUS
<1>6. InOrder'
  OBVIOUS
<1> QED BY <1>1, <1>2, <1>3, <1>4, <1>5, <1>6

LEMMA ProcessDiesKeeps ==
  ASSUME ServerInv, Srv!ProcessDies
  PROVE  ServerInv'
<1> USE DEF Srv!ProcessDies, Srv!DeviceUnchanged
<1>1. SrvTyped'
  OBVIOUS
<1>2. SrvPaths'
  OBVIOUS
<1>3. ProcessOwned'
  OBVIOUS
<1>4. TunnelOwned'
  OBVIOUS
<1>5. SocketsOwned'
  OBVIOUS
<1>6. InOrder'
  OBVIOUS
<1> QED BY <1>1, <1>2, <1>3, <1>4, <1>5, <1>6

HIDE DEF ServerInv, SrvTyped, SrvPaths, ProcessOwned, TunnelOwned, SocketsOwned, InOrder,
        SelectingPcs, ListPcs, TunnelPcs, RunPcs, SrvPcs

(* What the two kinds of tunnel do to the order of the connections.        *)
LEMMA OneConnects ==
  ASSUME NEW s \in Seq(Nat), NEW b \in Seq(Nat), NEW n \in Nat, AcceptedFirst(s, b, n)
  PROVE  Append(b, n + 1) \in Seq(Nat) /\ AcceptedFirst(s, Append(b, n + 1), n + 1)
BY DEF AcceptedFirst

LEMMA OneAccepted ==
  ASSUME NEW s \in Seq(Nat), NEW b \in Seq(Nat), NEW n \in Nat, AcceptedFirst(s, b, n), b # <<>>
  PROVE  /\ Append(s, Head(b)) \in Seq(Nat) /\ Tail(b) \in Seq(Nat)
         /\ AcceptedFirst(Append(s, Head(b)), Tail(b), n)
<1>1. PICK k \in Nat : k = Len(b)
  OBVIOUS
<1>2. k > 0 /\ Head(b) = b[1] /\ b[1] = Len(s) + 1 /\ Head(b) \in Nat
  BY <1>1 DEF AcceptedFirst
<1>3. Tail(b) \in Seq(Nat) /\ Len(Tail(b)) = k - 1 /\ \A i \in 1..(k - 1) : Tail(b)[i] = b[i + 1]
  BY <1>1, <1>2
<1>4. PICK a \in Seq(Nat) : /\ a = Append(s, Head(b)) /\ Len(a) = Len(s) + 1
                           /\ a[Len(s) + 1] = Head(b) /\ \A i \in 1..Len(s) : a[i] = s[i]
  <2>1. PICK h \in Nat : h = Head(b)
    BY <1>2
  <2>2. /\ Append(s, h) \in Seq(Nat) /\ Len(Append(s, h)) = Len(s) + 1
        /\ Append(s, h)[Len(s) + 1] = h /\ \A i \in 1..Len(s) : Append(s, h)[i] = s[i]
    OBVIOUS
  <2> QED BY <2>1, <2>2
<1>5. \A i \in 1..Len(a) : a[i] = i
  BY <1>2, <1>4 DEF AcceptedFirst
<1>6. \A i \in 1..(k - 1) : Tail(b)[i] = Len(a) + i
  BY <1>1, <1>3, <1>4 DEF AcceptedFirst
<1> QED BY <1>1, <1>2, <1>3, <1>4, <1>5, <1>6 DEF AcceptedFirst

LEMMA OneForwarded ==
  ASSUME NEW s \in Seq(Nat), NEW n \in Nat, NowhereApart(s, n)
  PROVE  /\ Append(s, n + 1) \in Seq(Nat) /\ NowhereApart(Append(s, n + 1), n + 1)
         /\ Append(s, 0) \in Seq(Nat) /\ NowhereApart(Append(s, 0), n)
BY DEF NowhereApart

(* A failure closes the sockets and the tunnel.                            *)
LEMMA FailConnectingKeeps ==
  ASSUME ServerInv, srvPc = "connect", Srv!FailConnecting, Srv!ConnectUnchanged,
         devConns' \in Nat, backlog' \in Seq(Nat)
  PROVE  ServerInv'
<1> USE DEF Srv!FailConnecting, Srv!ConnectUnchanged, Srv!CloseTunnel, Srv!NoTunnel
<1>1. SrvTyped'
  BY DEF ServerInv, SrvTyped, SocketsOwned, SrvPcs, RunPcs
<1>2. SrvPaths' /\ ProcessOwned' /\ TunnelOwned' /\ InOrder'
  BY DEF ServerInv, SrvPaths, ProcessOwned, TunnelOwned, InOrder, SocketsOwned, SelectingPcs,
     ListPcs, TunnelPcs, RunPcs
<1>3. SocketsOwned'
  BY DEF ServerInv, SocketsOwned
<1> QED BY <1>1, <1>2, <1>3 DEF ServerInv

(* A connection leaves everything but the connections.                     *)
LEMMA HandedOverKeeps ==
  ASSUME ServerInv, srvPc = "connect", srvPc' = srvPc, Srv!ConnectUnchanged,
         UNCHANGED <<tunnel, port, rules, cut, closedConns>>,
         devConns' \in Nat, backlog' \in Seq(Nat), sockets' \in Seq(Nat),
         IF tunnel.forward THEN NowhereApart(sockets', devConns')
         ELSE AcceptedFirst(sockets', backlog', devConns')
  PROVE  ServerInv'
<1> USE DEF Srv!ConnectUnchanged
<1>1. SrvTyped'
  BY DEF ServerInv, SrvTyped, SrvPcs, RunPcs
<1>2. SrvPaths' /\ ProcessOwned' /\ TunnelOwned'
  BY DEF ServerInv, SrvPaths, ProcessOwned, TunnelOwned, SelectingPcs, ListPcs, TunnelPcs, RunPcs
<1>3. SocketsOwned'
  BY DEF ServerInv, SocketsOwned
<1>4. InOrder'
  BY DEF ServerInv, InOrder, SelectingPcs, TunnelPcs
<1> QED BY <1>1, <1>2, <1>3, <1>4 DEF ServerInv

LEMMA AcceptKeeps ==
  ASSUME ServerInv, Srv!Accept
  PROVE  ServerInv'
<1>1. srvPc = "connect" /\ ~tunnel.forward /\ Srv!ConnectUnchanged
  BY DEF Srv!Accept
<1>2. /\ devConns \in Nat /\ devConns' \in Nat /\ sockets \in Seq(Nat) /\ backlog \in Seq(Nat)
      /\ AcceptedFirst(sockets, backlog, devConns)
  BY <1>1 DEF Srv!Accept, ServerInv, SrvTyped, InOrder
<1>3. CASE Srv!FailConnecting /\ UNCHANGED backlog
  BY <1>1, <1>2, <1>3, FailConnectingKeeps
<1>4. CASE /\ backlog # <<>> /\ sockets' = Append(sockets, Head(backlog)) /\ backlog' = Tail(backlog)
           /\ UNCHANGED <<srvPc, tunnel, port, rules, cut, closedConns>>
  <2>1. sockets' \in Seq(Nat) /\ backlog' \in Seq(Nat) /\ AcceptedFirst(sockets', backlog', devConns)
    BY <1>2, <1>4, OneAccepted
  <2> QED BY <1>1, <1>2, <1>4, <2>1, HandedOverKeeps DEF Srv!Accept
<1> QED BY <1>3, <1>4 DEF Srv!Accept

LEMMA ConnectFirstKeeps ==
  ASSUME ServerInv, Srv!ConnectFirst
  PROVE  ServerInv'
<1>1. srvPc = "connect" /\ tunnel.forward /\ sockets = <<>> /\ Srv!ConnectUnchanged
  BY DEF Srv!ConnectFirst
<1>2. /\ devConns = 0 /\ devConns' \in Nat /\ backlog' \in Seq(Nat) /\ sockets \in Seq(Nat)
      /\ NowhereApart(sockets, devConns)
  BY <1>1 DEF Srv!ConnectFirst, ServerInv, SrvTyped, InOrder, NowhereApart
<1>3. CASE Srv!FailConnecting
  BY <1>1, <1>2, <1>3, FailConnectingKeeps
<1>4. CASE /\ devConns' = devConns + 1 /\ sockets' = <<devConns'>>
           /\ UNCHANGED <<srvPc, tunnel, port, rules, cut, closedConns>>
  <2>1. sockets' \in Seq(Nat) /\ NowhereApart(sockets', devConns')
    BY <1>2, <1>4 DEF NowhereApart
  <2> QED BY <1>1, <1>2, <1>4, <2>1, HandedOverKeeps
<1>5. CASE UNCHANGED <<srvPc, tunnel, port, rules, cut, sockets, closedConns, devConns>>
  BY <1>1, <1>2, <1>5, HandedOverKeeps
<1> QED BY <1>3, <1>4, <1>5 DEF Srv!ConnectFirst

LEMMA ConnectOtherKeeps ==
  ASSUME ServerInv, Srv!ConnectOther
  PROVE  ServerInv'
<1>1. srvPc = "connect" /\ tunnel.forward /\ Srv!ConnectUnchanged
  BY DEF Srv!ConnectOther
<1>2. /\ devConns \in Nat /\ devConns' \in Nat /\ backlog' \in Seq(Nat) /\ sockets \in Seq(Nat)
      /\ NowhereApart(sockets, devConns)
  BY <1>1 DEF Srv!ConnectOther, ServerInv, SrvTyped, InOrder
<1>3. CASE Srv!FailConnecting
  BY <1>1, <1>2, <1>3, FailConnectingKeeps
<1>4. CASE /\ \/ devConns' = devConns + 1 /\ sockets' = Append(sockets, devConns')
              \/ devConns' = devConns /\ sockets' = Append(sockets, 0)
           /\ UNCHANGED <<srvPc, tunnel, port, rules, cut, closedConns>>
  <2>1. sockets' \in Seq(Nat) /\ NowhereApart(sockets', devConns')
    BY <1>2, <1>4, OneForwarded
  <2> QED BY <1>1, <1>2, <1>4, <2>1, HandedOverKeeps
<1> QED BY <1>3, <1>4 DEF Srv!ConnectOther, Srv!Nowhere

LEMMA ReadInfoKeeps ==
  ASSUME ServerInv, Srv!ReadInfo
  PROVE  ServerInv'
<1>1. srvPc = "connect" /\ Len(sockets) = Len(params.streams)
  BY DEF Srv!ReadInfo, Srv!Streams
<1>2. CASE srvPc' = "terminate"
  <2>1. Srv!FailConnecting /\ Srv!ConnectUnchanged
    BY <1>2 DEF Srv!ReadInfo, Srv!FailConnecting, Srv!ConnectUnchanged
  <2>2. devConns' \in Nat /\ backlog' \in Seq(Nat)
    BY DEF Srv!ReadInfo, ServerInv, SrvTyped
  <2> QED BY <1>1, <2>1, <2>2, FailConnectingKeeps
<1>3. CASE srvPc' = "connected"
  <2>1. /\ devConns = Len(sockets) /\ stored' = sockets /\ sockets' = <<>> /\ UNCHANGED closedConns
        /\ tunnel' = Srv!NoTunnel
        /\ rules' = rules \ {<<IF tunnel.forward THEN "forward" ELSE "reverse", port>>}
        /\ UNCHANGED <<port, cut, params, process, observer, reported, devConns, backlog>>
    BY <1>1, <1>3 DEF Srv!ReadInfo, Srv!Info, Srv!Streams, Srv!CloseTunnel
  <2>2. sockets # <<>> /\ \A i \in 1..Len(sockets) : sockets[i] = i
    BY <1>1, <2>1
       DEF ServerInv, SrvTyped, SrvPaths, RunPcs, InOrder, NowhereApart, AcceptedFirst
  <2>3. SrvTyped'
    BY <1>3, <2>1 DEF ServerInv, SrvTyped, SrvPcs, RunPcs
  <2>4. SrvPaths' /\ ProcessOwned' /\ TunnelOwned'
    BY <1>1, <1>3, <2>1 DEF ServerInv, SrvPaths, ProcessOwned, TunnelOwned, SelectingPcs,
       ListPcs, TunnelPcs,
       RunPcs
  <2>5. SocketsOwned' /\ InOrder'
    BY <1>1, <1>3, <2>1, <2>2 DEF ServerInv, SocketsOwned, InOrder, SelectingPcs, TunnelPcs
  <2> QED BY <2>3, <2>4, <2>5 DEF ServerInv
<1> QED BY <1>2, <1>3 DEF Srv!ReadInfo

LEMMA DeviceConnectsKeeps ==
  ASSUME ServerInv, Srv!DeviceConnects
  PROVE  ServerInv'
<1> USE DEF Srv!DeviceConnects, Srv!DeviceUnchanged
<1>1. devConns' \in Nat /\ backlog' \in Seq(Nat)
  BY OneConnects DEF ServerInv, SrvTyped
<1>2. SrvTyped'
  BY <1>1 DEF ServerInv, SrvTyped
<1>3. SrvPaths' /\ ProcessOwned' /\ TunnelOwned' /\ SocketsOwned'
  BY DEF ServerInv, SrvPaths, ProcessOwned, TunnelOwned, SocketsOwned
<1>4. InOrder'
  <2>1. srvPc \in {"observe", "connect", "execute"}
    BY DEF ServerInv, TunnelOwned, Srv!NoTunnel
  <2>2. AcceptedFirst(sockets, backlog', devConns')
    BY <2>1, OneConnects DEF ServerInv, SrvTyped, InOrder
  <2> QED BY <2>1, <2>2 DEF ServerInv, ProcessOwned, InOrder, SelectingPcs, TunnelPcs
<1> QED BY <1>2, <1>3, <1>4 DEF ServerInv

(* Until the server is pushed, only the thread's place changes.            *)
LEMMA SelectingKeeps ==
  ASSUME ServerInv,
         \/ Srv!StartServer \/ Srv!SelectDevice \/ Srv!GetIp \/ Srv!EnableTcpip \/ Srv!WaitTcpip
         \/ Srv!ConnectTcpip \/ Srv!PushServer
  PROVE  ServerInv'
<1>1. /\ srvPc \in SelectingPcs
      /\ srvPc' \in SelectingPcs \cup {"failed"} \cup
                    (IF params.list THEN {"execute_list"} ELSE {"forward", "reverse"})
      /\ UNCHANGED <<params, tunnel, rules, cut, port, process, observer, devConns, backlog, sockets,
                     stored, closedConns, reported>>
  BY DEF Srv!StartServer, Srv!SelectDevice, Srv!GetIp, Srv!EnableTcpip, Srv!WaitTcpip,
     Srv!ConnectTcpip, Srv!PushServer, Srv!Command, SelectingPcs
<1>2. SrvTyped'
  BY <1>1 DEF ServerInv, SrvTyped, SelectingPcs, ListPcs, TunnelPcs, RunPcs, SrvPcs
<1>3. SrvPaths' /\ ProcessOwned'
  BY <1>1 DEF ServerInv, SrvPaths, ProcessOwned, SelectingPcs, ListPcs, TunnelPcs, RunPcs
<1>4. TunnelOwned'
  BY <1>1 DEF ServerInv, TunnelOwned, SelectingPcs
<1>5. SocketsOwned' /\ InOrder'
  BY <1>1 DEF ServerInv, SocketsOwned, InOrder, SelectingPcs, ListPcs, TunnelPcs, RunPcs
<1> QED BY <1>2, <1>3, <1>4, <1>5 DEF ServerInv

LEMMA InitServer == Srv!Init => ServerInv
<1> SUFFICES ASSUME Srv!Init PROVE ServerInv
  OBVIOUS
<1>1. SrvTyped
  <2>1. /\ params.list \in BOOLEAN /\ params.streams \in Seq({"video", "audio", "control"})
        /\ ~params.list => Len(params.streams) > 0
    <3>1. \/ params = Parameters(TRUE, "no", FALSE, <<>>)
          \/ params = Parameters(FALSE, "switch", FALSE, <<"video", "control">>)
          \/ params = Parameters(FALSE, "address", TRUE, <<"video", "audio", "control">>)
      BY DEF Srv!Init, ServerParams
    <3>2. CASE params = Parameters(TRUE, "no", FALSE, <<>>)
      BY <3>2 DEF Parameters
    <3>3. CASE params = Parameters(FALSE, "switch", FALSE, <<"video", "control">>)
      BY <3>3 DEF Parameters
    <3>4. CASE params = Parameters(FALSE, "address", TRUE, <<"video", "audio", "control">>)
      BY <3>4 DEF Parameters
    <3> QED BY <3>1, <3>2, <3>3, <3>4
  <2>2. <<>> \in Seq(Nat) /\ <<>> \in Seq({"connected", "failed"})
    OBVIOUS
  <2> QED BY <2>1, <2>2 DEF Srv!Init, SrvTyped, SelectingPcs, SrvPcs
<1>2. SrvPaths /\ ProcessOwned /\ TunnelOwned
  BY DEF Srv!Init, SrvPaths, ProcessOwned, TunnelOwned, SelectingPcs, ListPcs, TunnelPcs, RunPcs
<1>3. SocketsOwned /\ InOrder
  BY DEF Srv!Init, SocketsOwned, InOrder, SelectingPcs, TunnelPcs
<1> QED BY <1>1, <1>2, <1>3 DEF ServerInv

LEMMA NextServer == ServerInv /\ [Srv!Next]_serverVars => ServerInv'
<1> SUFFICES ASSUME ServerInv, [Srv!Next]_serverVars PROVE ServerInv'
  OBVIOUS
<1>1. CASE UNCHANGED serverVars
  BY <1>1 DEF serverVars, ServerInv, SrvTyped, SrvPaths, ProcessOwned, TunnelOwned, SocketsOwned,
     InOrder
<1>2. CASE \/ Srv!StartServer \/ Srv!SelectDevice \/ Srv!GetIp \/ Srv!EnableTcpip
           \/ Srv!WaitTcpip \/ Srv!ConnectTcpip \/ Srv!PushServer
  BY <1>2, SelectingKeeps
<1>3. CASE Srv!ExecuteList \/ Srv!WaitList \/ Srv!Reverse \/ Srv!Listen \/ Srv!Forward
  BY <1>3, ExecuteListKeeps, WaitListKeeps, ReverseKeeps, ListenKeeps, ForwardKeeps
<1>4. CASE Srv!ExecuteServer \/ Srv!Observe \/ Srv!ObserverEnds
  BY <1>4, ExecuteServerKeeps, ObserveKeeps, ObserverEndsKeeps
<1>5. CASE Srv!Accept \/ Srv!ConnectFirst \/ Srv!ConnectOther \/ Srv!ReadInfo
  BY <1>5, AcceptKeeps, ConnectFirstKeeps, ConnectOtherKeeps, ReadInfoKeeps
<1>6. CASE \/ Srv!TerminateProcess \/ Srv!Reap \/ Srv!OnConnected \/ Srv!WaitStop \/ Srv!Watchdog
           \/ Srv!JoinObserver \/ Srv!OnConnectionFailed
  BY <1>6, TerminateProcessKeeps, ReapKeeps, OnConnectedKeeps, WaitStopKeeps, WatchdogKeeps,
     JoinObserverKeeps, OnConnectionFailedKeeps
<1>7. CASE Srv!StopServer \/ Srv!DeviceListens \/ Srv!DeviceConnects \/ Srv!ProcessDies
  BY <1>7, StopServerKeeps, DeviceListensKeeps, DeviceConnectsKeeps, ProcessDiesKeeps
<1> QED BY <1>1, <1>2, <1>3, <1>4, <1>5, <1>6, <1>7 DEF Srv!Next, Srv!ServerThread

LEMMA ServerOwns == ServerInv => Srv!EndsClean /\ Srv!SocketsAreStreams
<1> SUFFICES ASSUME ServerInv PROVE Srv!EndsClean /\ Srv!SocketsAreStreams
  OBVIOUS
<1>1. Srv!SocketsAreStreams
  BY DEF ServerInv, InOrder, Srv!SocketsAreStreams
<1>2. Srv!EndsClean
  BY DEF ServerInv, ProcessOwned, TunnelOwned, SocketsOwned, Srv!EndsClean, Srv!NoTunnel
<1> QED BY <1>1, <1>2

HIDE DEF Srv!At, Srv!Goto, Srv!Rest, Srv!tunnelVars, Srv!processVars, Srv!connecting

-----------------------------------------------------------------------------
(* The main program.                                                       *)
Objects == {"server", "file_pusher", "recorder", "controller", "acksync", "usb", "aoa", "screen",
            "v4l2", "timeout"}
AoaObjects == {"acksync", "usb", "aoa"}

(* How far the cleanup is.                                                 *)
Reached == CASE mainStage = "cleanup" -> step [] mainStage = "exited" -> 26 [] OTHER -> 1

ToJoin(t) ==
  \E k \in Reached..25 : Main!Cleanup[k][1] = "join" /\ t \in Main!ThreadsOf(Main!Cleanup[k][2])
ToDestroy(o) == \E k \in Reached..25 : Main!Cleanup[k] = <<"destroy", o>>

SessionTyped ==
  /\ mainStage \in {"init", "loop", "cleanup", "exited"}
  /\ mainStage = "init" => step \in 1..19
  /\ mainStage = "cleanup" => step \in 1..25
  /\ thread \in [Main!Threads -> {"off", "running", "ended"}]
  /\ alive \subseteq Objects

(* The steps passed have made what they were to.                           *)
Made ==
  mainStage \in {"init", "loop"} =>
    /\ failedAt = "none" /\ ret = "failure"
    /\ initialized \cap Objects \subseteq alive
    /\ alive \ initialized \subseteq AoaObjects
    /\ mainStage = "loop" => alive \subseteq initialized
    /\ mainStage = "init" =>
         /\ \A o \in alive : \E k \in 1..(step - 1) : Main!Ladder[k] = o /\ Main!Wanted(o)
         /\ step <= 12 => initialized \cap AoaObjects = {}
         /\ step > 12 => alive \subseteq initialized
         /\ step <= 12 => \A k \in 1..(step - 1) : Main!Wanted(Main!Ladder[k]) =>
              Main!Makes(Main!Ladder[k]) \subseteq alive

(* In the cleanup, what is alive has its turn still to come, and what was  *)
(* destroyed has had it.                                                   *)
Leaked == IF failedAt = "usb_select" THEN {"acksync"} ELSE {}
Cleaned ==
  /\ mainStage \in {"cleanup", "exited"} =>
       /\ Leaked \subseteq alive /\ Leaked \cap initialized = {}
       /\ \A o \in alive \ Leaked : ToDestroy(o) /\ (o \in initialized \/ o = "server")
       /\ \A o \in initialized \cap Objects :
            o \in alive \/ \E k \in 1..(Reached - 1) : Main!Cleanup[k] = <<"destroy", o>>
       /\ ret = "disconnected" => failedAt = "none"
  /\ \A t \in Main!Threads : thread[t] = "running" => ToJoin(t)

SessionInv == SessionTyped /\ Made /\ Cleaned

LEMMA LadderIs ==
  /\ Len(Main!Ladder) = 19
  /\ Main!Ladder[1] = "server" /\ Main!Ladder[2] = "connection"
  /\ Main!Ladder[3] = "file_pusher" /\ Main!Ladder[4] = "recorder"
  /\ Main!Ladder[5] = "recorder_thread" /\ Main!Ladder[6] = "controller"
  /\ Main!Ladder[7] = "acksync" /\ Main!Ladder[8] = "usb"
  /\ Main!Ladder[9] = "usb_select" /\ Main!Ladder[10] = "usb_connect"
  /\ Main!Ladder[11] = "aoa" /\ Main!Ladder[12] = "aoa_thread"
  /\ Main!Ladder[13] = "controller_threads" /\ Main!Ladder[14] = "screen"
  /\ Main!Ladder[15] = "v4l2" /\ Main!Ladder[16] = "video"
  /\ Main!Ladder[17] = "audio" /\ Main!Ladder[18] = "timeout"
  /\ Main!Ladder[19] = "timeout_thread"
BY DEF Main!Ladder

(* When the cleanup joins and destroys.                                    *)
Destroys(k, o) ==
  \/ k = 9 /\ o = "timeout"
  \/ k = 12 /\ o = "v4l2"
  \/ k = 14 /\ o = "aoa"
  \/ k = 15 /\ o = "usb"
  \/ k = 16 /\ o = "acksync"
  \/ k = 17 /\ o = "screen"
  \/ k = 19 /\ o = "controller"
  \/ k = 21 /\ o = "recorder"
  \/ k = 23 /\ o = "file_pusher"
  \/ k = 25 /\ o = "server"

Joins(k, c) ==
  \/ k = 8 /\ c = "timeout"
  \/ k = 10 /\ c = "video"
  \/ k = 11 /\ c = "audio"
  \/ k = 13 /\ c = "aoa"
  \/ k = 18 /\ c = "controller"
  \/ k = 20 /\ c = "recorder"
  \/ k = 22 /\ c = "file_pusher"
  \/ k = 24 /\ c = "server"

LEMMA CleanupIs ==
  /\ Len(Main!Cleanup) = 25
  /\ \A k \in 1..25 : \A o : Main!Cleanup[k] = <<"destroy", o>> <=> Destroys(k, o)
  /\ \A k \in 1..25 : \A c : Main!Cleanup[k] = <<"join", c>> <=> Joins(k, c)
  /\ \A k \in 1..25 : Main!Cleanup[k] = <<Main!Cleanup[k][1], Main!Cleanup[k][2]>>
<1>1. Len(Main!Cleanup) = 25
  BY DEF Main!Cleanup
<1>2. \A k \in 1..25 :
        \/ k = 1 /\ Main!Cleanup[k] = <<"stop", "timeout">>
        \/ k = 2 /\ Main!Cleanup[k] = <<"stop", "aoa">>
        \/ k = 3 /\ Main!Cleanup[k] = <<"stop", "controller">>
        \/ k = 4 /\ Main!Cleanup[k] = <<"stop", "file_pusher">>
        \/ k = 5 /\ Main!Cleanup[k] = <<"stop", "recorder">>
        \/ k = 6 /\ Main!Cleanup[k] = <<"stop", "screen">>
        \/ k = 7 /\ Main!Cleanup[k] = <<"stop", "server">>
        \/ k = 8 /\ Main!Cleanup[k] = <<"join", "timeout">>
        \/ k = 9 /\ Main!Cleanup[k] = <<"destroy", "timeout">>
        \/ k = 10 /\ Main!Cleanup[k] = <<"join", "video">>
        \/ k = 11 /\ Main!Cleanup[k] = <<"join", "audio">>
        \/ k = 12 /\ Main!Cleanup[k] = <<"destroy", "v4l2">>
        \/ k = 13 /\ Main!Cleanup[k] = <<"join", "aoa">>
        \/ k = 14 /\ Main!Cleanup[k] = <<"destroy", "aoa">>
        \/ k = 15 /\ Main!Cleanup[k] = <<"destroy", "usb">>
        \/ k = 16 /\ Main!Cleanup[k] = <<"destroy", "acksync">>
        \/ k = 17 /\ Main!Cleanup[k] = <<"destroy", "screen">>
        \/ k = 18 /\ Main!Cleanup[k] = <<"join", "controller">>
        \/ k = 19 /\ Main!Cleanup[k] = <<"destroy", "controller">>
        \/ k = 20 /\ Main!Cleanup[k] = <<"join", "recorder">>
        \/ k = 21 /\ Main!Cleanup[k] = <<"destroy", "recorder">>
        \/ k = 22 /\ Main!Cleanup[k] = <<"join", "file_pusher">>
        \/ k = 23 /\ Main!Cleanup[k] = <<"destroy", "file_pusher">>
        \/ k = 24 /\ Main!Cleanup[k] = <<"join", "server">>
        \/ k = 25 /\ Main!Cleanup[k] = <<"destroy", "server">>
  BY DEF Main!Cleanup
<1>3. \A k \in 1..25 : Main!Cleanup[k] = <<Main!Cleanup[k][1], Main!Cleanup[k][2]>>
  BY <1>2
<1>4. ASSUME NEW k \in 1..25, NEW o
      PROVE  Main!Cleanup[k] = <<"destroy", o>> <=> Destroys(k, o)
  BY <1>2 DEF Destroys
<1>5. ASSUME NEW k \in 1..25, NEW c
      PROVE  Main!Cleanup[k] = <<"join", c>> <=> Joins(k, c)
  BY <1>2 DEF Joins
<1> QED BY <1>1, <1>3, <1>4, <1>5

LEMMA DestroysAll == \A o \in Objects : \E k \in 1..25 : Main!Cleanup[k] = <<"destroy", o>>
<1> SUFFICES ASSUME NEW o \in Objects PROVE \E k \in 1..25 : Destroys(k, o)
  BY CleanupIs
<1> QED BY DEF Objects, Destroys

LEMMA JoinsAll ==
  \A t \in Main!Threads :
    \E k \in 1..25 : Main!Cleanup[k][1] = "join" /\ t \in Main!ThreadsOf(Main!Cleanup[k][2])
<1> SUFFICES ASSUME NEW t \in Main!Threads
             PROVE  \E k \in 1..25 : Main!Cleanup[k][1] = "join" /\ t \in Main!ThreadsOf(Main!Cleanup[k][2])
  OBVIOUS
<1>1. t # "receiver" => t \in Main!ThreadsOf(t)
  BY DEF Main!ThreadsOf, Main!Threads
<1>2. t # "receiver" => \E k \in 1..25 : Joins(k, t)
  BY DEF Joins, Main!Threads
<1>3. "receiver" \in Main!ThreadsOf("controller") /\ Joins(18, "controller")
  BY DEF Main!ThreadsOf, Joins
<1>4. PICK k \in 1..25 : \E c : Joins(k, c) /\ t \in Main!ThreadsOf(c)
  BY <1>1, <1>2, <1>3
<1>5. PICK c : Joins(k, c) /\ t \in Main!ThreadsOf(c)
  BY <1>4
<1>6. Main!Cleanup[k] = <<"join", c>>
  BY <1>5, CleanupIs
<1>7. Main!Cleanup[k][1] = "join" /\ Main!Cleanup[k][2] = c
  BY <1>6
<1> QED BY <1>5, <1>7

(* A thread is joined before what it uses is destroyed, but for the file   *)
(* pusher and the controller, the receiver and acksync.                    *)
LEMMA JoinedFirst ==
  ASSUME NEW t \in Main!Threads, NEW o \in Main!Uses(t),
         ~(t = "file_pusher" /\ o = "controller"), ~(t = "receiver" /\ o = "acksync"),
         NEW k \in 1..25, Main!Cleanup[k][1] = "join", t \in Main!ThreadsOf(Main!Cleanup[k][2]),
         NEW m \in 1..25, Main!Cleanup[m] = <<"destroy", o>>
  PROVE  k < m
<1>1. PICK c : c = Main!Cleanup[k][2]
  OBVIOUS
<1>2. Joins(k, c) /\ Destroys(m, o)
  BY <1>1, CleanupIs
<1>3. c = t \/ (c = "controller" /\ t = "receiver")
  BY <1>1 DEF Main!ThreadsOf
<1>4. \/ t = "video" /\ o \in {"screen", "recorder", "v4l2"}
      \/ t = "audio" /\ o = "recorder"
      \/ t = "receiver" /\ o = "controller"
      \/ t = "aoa" /\ o \in {"aoa", "usb", "acksync"}
      \/ t \in {"server", "recorder", "controller", "timeout", "file_pusher"} /\ o = t
  BY DEF Main!Uses, Main!Threads
<1>5. CASE t \in {"video", "audio", "receiver"}
  BY <1>2, <1>3, <1>4, <1>5 DEF Joins, Destroys
<1>6. CASE t \in {"aoa", "server", "recorder", "controller", "timeout", "file_pusher"}
  BY <1>2, <1>3, <1>4, <1>6 DEF Joins, Destroys
<1> QED BY <1>4, <1>5, <1>6

(* What a step makes and flags, by its number.                             *)
LEMMA StepsMake ==
  ASSUME NEW n \in 1..19
  PROVE  /\ Main!Makes(Main!Ladder[n]) \subseteq Objects
         /\ Main!Makes(Main!Ladder[n]) \subseteq {Main!Ladder[n]}
         /\ n # 12 => Main!Flags(Main!Ladder[n]) \cap Objects \subseteq Main!Makes(Main!Ladder[n])
         /\ n < 12 => Main!Flags(Main!Ladder[n]) \cap AoaObjects = {}
         /\ n = 12 => /\ AoaObjects \subseteq Main!Flags(Main!Ladder[n])
                      /\ Main!Flags(Main!Ladder[n]) \cap Objects \subseteq AoaObjects
                      /\ Main!Makes(Main!Ladder[n]) = {}
         /\ n > 12 => Main!Makes(Main!Ladder[n]) \subseteq Main!Flags(Main!Ladder[n])
         /\ Main!Makes(Main!Ladder[n])
              \subseteq Main!Flags(Main!Ladder[n]) \cup AoaObjects
         /\ Main!Undone(Main!Ladder[n]) \subseteq AoaObjects
         /\ n > 12 => Main!Undone(Main!Ladder[n]) = {}
<1>1. CASE n \in 1..6
  BY <1>1, LadderIs DEF Main!Makes, Main!Flags, Main!Undone, Objects, AoaObjects
<1>2. CASE n \in 7..11
  BY <1>2, LadderIs DEF Main!Makes, Main!Flags, Main!Undone, Objects, AoaObjects
<1>3. CASE n = 12
  BY <1>3, LadderIs DEF Main!Makes, Main!Flags, Main!Undone, Objects, AoaObjects
<1>4. CASE n \in 13..19
  BY <1>4, LadderIs DEF Main!Makes, Main!Flags, Main!Undone, Objects, AoaObjects
<1> QED BY <1>1, <1>2, <1>3, <1>4

(* The options decide on the AOA components together.                      *)
LEMMA AoaTogether ==
  \A o, p \in AoaObjects \cup {"usb_select", "usb_connect", "aoa_thread"} :
    Main!Wanted(o) <=> Main!Wanted(p)
<1>1. \A o \in AoaObjects \cup {"usb_select", "usb_connect", "aoa_thread"} :
        Main!Wanted(o) <=> "short" \notin options /\ {"control", "aoa"} \subseteq options
  <2> SUFFICES ASSUME NEW o \in AoaObjects \cup {"usb_select", "usb_connect", "aoa_thread"}
               PROVE  Main!Wanted(o) <=> "short" \notin options /\ {"control", "aoa"} \subseteq options
    OBVIOUS
  <2>1. o \in {"acksync", "usb", "usb_select", "usb_connect", "aoa", "aoa_thread"}
    BY DEF AoaObjects
  <2>2. CASE "short" \in options
    BY <2>1, <2>2 DEF Main!Wanted
  <2>3. CASE "short" \notin options
    BY <2>1, <2>3 DEF Main!Wanted
  <2> QED BY <2>2, <2>3
<1> QED BY <1>1

LEMMA WantedStays == options' = options => \A o : Main!Wanted(o)' <=> Main!Wanted(o)
BY DEF Main!Wanted

(* Where an AOA object is made.                                            *)
LEMMA AoaMade ==
  ASSUME NEW n \in 1..19, Main!Ladder[n] \in AoaObjects
  PROVE  /\ n \in {7, 8, 11}
         /\ Main!Ladder[n] = "acksync" <=> n = 7
         /\ Main!Ladder[n] = "usb" <=> n = 8
         /\ Main!Ladder[n] = "aoa" <=> n = 11
<1>1. CASE n \in 1..10
  BY <1>1, LadderIs DEF AoaObjects
<1>2. CASE n \in 11..19
  BY <1>2, LadderIs DEF AoaObjects
<1> QED BY <1>1, <1>2

LEMMA SessionStarts == Main!Init => SessionInv
<1> SUFFICES ASSUME Main!Init PROVE SessionInv
  OBVIOUS
<1>1. /\ mainStage = "init" /\ step = 1 /\ failedAt = "none" /\ ret = "failure"
      /\ initialized = {} /\ alive = {} /\ thread = [t \in Main!Threads |-> "off"]
  BY DEF Main!Init
<1>2. SessionTyped
  BY <1>1 DEF SessionTyped
<1>3. Made
  BY <1>1 DEF Made
<1>4. Cleaned
  BY <1>1 DEF Cleaned
<1> QED BY <1>2, <1>3, <1>4 DEF SessionInv

(* Before the cleanup, every thread has its turn.                          *)
LEMMA BeforeCleanup ==
  ASSUME mainStage' \in {"init", "loop"}
  PROVE  Cleaned'
<1>1. Reached' = 1
  BY DEF Reached
<1>2. \A t \in Main!Threads : ToJoin(t)'
  BY <1>1, JoinsAll DEF ToJoin
<1> QED BY <1>2 DEF Cleaned

(* The cleanup starts with what is to be destroyed flagged.                *)
LEMMA CleanupStarts ==
  ASSUME mainStage' = "cleanup", step' = 1, alive' \subseteq Objects,
         thread' \in [Main!Threads -> {"off", "running", "ended"}],
         Leaked' \subseteq alive', Leaked' \cap initialized' = {},
         \A o \in alive' \ Leaked' : o \in initialized' \/ o = "server",
         initialized' \cap Objects \subseteq alive',
         ret' = "disconnected" => failedAt' = "none"
  PROVE  SessionInv'
<1>1. Reached' = 1
  BY DEF Reached
<1>2. \A t \in Main!Threads : ToJoin(t)'
  BY <1>1, JoinsAll DEF ToJoin
<1>3. \A o \in Objects : ToDestroy(o)'
  BY <1>1, DestroysAll DEF ToDestroy
<1>4. Cleaned'
  BY <1>2, <1>3 DEF Cleaned
<1>5. SessionTyped' /\ Made'
  BY DEF SessionTyped, Made
<1> QED BY <1>4, <1>5 DEF SessionInv

LEMMA SkipSession == SessionInv /\ Main!Skip => SessionInv'
<1> SUFFICES ASSUME SessionInv, Main!Skip PROVE SessionInv'
  OBVIOUS
<1>1. /\ mainStage = "init" /\ ~Main!Wanted(Main!Ladder[step]) /\ step \in 1..19
      /\ IF step = 19 THEN mainStage' = "loop" /\ step' = step
         ELSE step' = step + 1 /\ mainStage' = mainStage
      /\ options' = options /\ failedAt' = failedAt /\ ret' = ret
      /\ initialized' = initialized /\ alive' = alive /\ thread' = thread
  BY LadderIs DEF Main!Skip, Main!StepDone, SessionInv, SessionTyped
<1>2. SessionTyped'
  BY <1>1 DEF SessionInv, SessionTyped
<1>3. Cleaned'
  BY <1>1, BeforeCleanup
<1>4. /\ failedAt = "none" /\ ret = "failure"
      /\ initialized \cap Objects \subseteq alive
      /\ alive \ initialized \subseteq AoaObjects
      /\ \A o \in alive : \E k \in 1..(step - 1) : Main!Ladder[k] = o /\ Main!Wanted(o)
      /\ step <= 12 => initialized \cap AoaObjects = {}
      /\ step > 12 => alive \subseteq initialized
      /\ step <= 12 => \A k \in 1..(step - 1) : Main!Wanted(Main!Ladder[k]) =>
           Main!Makes(Main!Ladder[k]) \subseteq alive
  BY <1>1 DEF SessionInv, Made
<1>5. step = 12 => alive \subseteq initialized
  <2> SUFFICES ASSUME step = 12, NEW o \in alive PROVE o \in initialized
    OBVIOUS
  <2>1. Main!Wanted(o)
    BY <1>4
  <2>2. ~Main!Wanted("aoa_thread")
    BY <1>1, LadderIs
  <2>3. o \notin AoaObjects
    BY <2>1, <2>2, AoaTogether
  <2> QED BY <1>4, <2>3
<1>6. \A o : Main!Wanted(o)' <=> Main!Wanted(o)
  BY <1>1, WantedStays
<1>7. \A o \in alive' : \E k \in 1..(step' - 1) : Main!Ladder[k] = o /\ Main!Wanted(o)'
  <2> SUFFICES ASSUME NEW o \in alive
               PROVE  \E k \in 1..(step' - 1) : Main!Ladder[k] = o /\ Main!Wanted(o)
    BY <1>1, <1>6
  <2>1. PICK k \in 1..(step - 1) : Main!Ladder[k] = o /\ Main!Wanted(o)
    BY <1>4
  <2>2. k \in 1..(step' - 1)
    BY <1>1
  <2> QED BY <2>1, <2>2
<1>8. ASSUME mainStage' = "init", step' <= 12, NEW k \in 1..(step' - 1), Main!Wanted(Main!Ladder[k])'
      PROVE  Main!Makes(Main!Ladder[k]) \subseteq alive'
  <2>1. step' = step + 1 /\ step <= 12 /\ Main!Wanted(Main!Ladder[k]) /\ k # step
    BY <1>1, <1>6, <1>8
  <2>2. k \in 1..(step - 1)
    BY <2>1, <1>1
  <2> QED BY <1>1, <1>4, <2>1, <2>2
<1>9. /\ mainStage' = "loop" => alive' \subseteq initialized'
      /\ mainStage' = "init" => step' = step + 1
      /\ mainStage' = "init" /\ step' <= 12 => initialized' \cap AoaObjects = {}
      /\ mainStage' = "init" /\ step' > 12 => alive' \subseteq initialized'
  BY <1>1, <1>4, <1>5
<1>10. Made'
  <2>1. failedAt' = "none" /\ ret' = "failure"
    BY <1>1, <1>4
  <2>2. initialized' \cap Objects \subseteq alive' /\ alive' \ initialized' \subseteq AoaObjects
    BY <1>1, <1>4
  <2> QED BY <1>7, <1>8, <1>9, <2>1, <2>2 DEF Made
<1> QED BY <1>2, <1>3, <1>10 DEF SessionInv

LEMMA InitStepSession == SessionInv /\ Main!InitStep => SessionInv'
<1> SUFFICES ASSUME SessionInv, Main!InitStep PROVE SessionInv'
  OBVIOUS
<1>1. /\ mainStage = "init" /\ Main!Wanted(Main!Ladder[step]) /\ step \in 1..19
      /\ thread \in [Main!Threads -> {"off", "running", "ended"}] /\ alive \subseteq Objects
  BY DEF Main!InitStep, SessionInv, SessionTyped
<1>2. /\ IF step = 19 THEN mainStage' = "loop" /\ step' = step
         ELSE step' = step + 1 /\ mainStage' = mainStage
      /\ options' = options /\ failedAt' = failedAt /\ ret' = ret
  BY LadderIs DEF Main!InitStep, Main!StepDone
<1>3. PICK s : s = Main!Ladder[step]
  OBVIOUS
<1>4. /\ initialized' = initialized \cup Main!Flags(s)
      /\ alive' = alive \cup Main!Makes(s)
      /\ thread' = [t \in Main!Threads |-> IF t \in Main!Starts(s) THEN "running" ELSE thread[t]]
  BY <1>3 DEF Main!InitStep
<1>5. /\ Main!Makes(s) \subseteq Objects /\ Main!Makes(s) \subseteq {s}
      /\ step # 12 => Main!Flags(s) \cap Objects \subseteq Main!Makes(s)
      /\ step < 12 => Main!Flags(s) \cap AoaObjects = {}
      /\ step = 12 => /\ AoaObjects \subseteq Main!Flags(s)
                      /\ Main!Flags(s) \cap Objects \subseteq AoaObjects
                      /\ Main!Makes(s) = {}
      /\ step > 12 => Main!Makes(s) \subseteq Main!Flags(s)
      /\ Main!Makes(s) \subseteq Main!Flags(s) \cup AoaObjects
  BY <1>1, <1>3, StepsMake
<1>6. SessionTyped'
  <2>1. thread' \in [Main!Threads -> {"off", "running", "ended"}]
    BY <1>1, <1>4
  <2>2. alive' \subseteq Objects
    BY <1>1, <1>4, <1>5
  <2> QED BY <1>1, <1>2, <2>1, <2>2 DEF SessionTyped
<1>7. Cleaned'
  BY <1>1, <1>2, BeforeCleanup
<1>8. /\ failedAt = "none" /\ ret = "failure"
      /\ initialized \cap Objects \subseteq alive
      /\ alive \ initialized \subseteq AoaObjects
      /\ \A o \in alive : \E k \in 1..(step - 1) : Main!Ladder[k] = o /\ Main!Wanted(o)
      /\ step <= 12 => initialized \cap AoaObjects = {}
      /\ step > 12 => alive \subseteq initialized
      /\ step <= 12 => \A k \in 1..(step - 1) : Main!Wanted(Main!Ladder[k]) =>
           Main!Makes(Main!Ladder[k]) \subseteq alive
  BY <1>1 DEF SessionInv, Made
<1>9. step = 12 => AoaObjects \subseteq alive
  <2> SUFFICES ASSUME step = 12 PROVE AoaObjects \subseteq alive
    OBVIOUS
  <2>1. Main!Wanted("aoa_thread")
    BY <1>1, LadderIs
  <2>2. \A o \in AoaObjects : Main!Wanted(o)
    BY <2>1, AoaTogether
  <2>3. 7 \in 1..(step - 1) /\ 8 \in 1..(step - 1) /\ 11 \in 1..(step - 1)
    OBVIOUS
  <2>4. \A k \in {7, 8, 11} : Main!Ladder[k] \in AoaObjects /\ Main!Makes(Main!Ladder[k]) \subseteq alive
    BY <1>8, <2>2, <2>3, LadderIs DEF AoaObjects
  <2>5. \A k \in {7, 8, 11} : Main!Makes(Main!Ladder[k]) = {Main!Ladder[k]}
    BY LadderIs DEF Main!Makes
  <2> QED BY <2>4, <2>5, LadderIs DEF AoaObjects
<1>10. \A o : Main!Wanted(o)' <=> Main!Wanted(o)
  BY <1>2, WantedStays
<1>11. initialized' \cap Objects \subseteq alive'
  <2>1. CASE step = 12
    BY <1>4, <1>5, <1>8, <1>9, <2>1
  <2>2. CASE step # 12
    BY <1>4, <1>5, <1>8, <2>2
  <2> QED BY <2>1, <2>2
<1>12. alive' \ initialized' \subseteq AoaObjects
  BY <1>4, <1>5, <1>8
<1>13. step >= 12 => alive' \subseteq initialized'
  <2>1. CASE step = 12
    BY <1>4, <1>5, <1>8, <2>1
  <2>2. CASE step > 12
    BY <1>4, <1>5, <1>8, <2>2
  <2> QED BY <1>1, <2>1, <2>2
<1>14. step < 12 => initialized' \cap AoaObjects = {}
  <2>1. step < 12 => initialized \cap AoaObjects = {}
    BY <1>1, <1>8
  <2>2. step < 12 => Main!Flags(s) \cap AoaObjects = {}
    BY <1>5
  <2> QED BY <1>4, <2>1, <2>2
<1>15. ASSUME mainStage' = "init", NEW o \in alive'
       PROVE  \E k \in 1..(step' - 1) : Main!Ladder[k] = o /\ Main!Wanted(o)'
  <2>1. step' = step + 1 /\ step \in 1..(step' - 1)
    BY <1>1, <1>2, <1>15
  <2>2. CASE o \in Main!Makes(s)
    BY <1>1, <1>3, <1>5, <1>10, <2>1, <2>2
  <2>3. CASE o \in alive
    <3>1. PICK k \in 1..(step - 1) : Main!Ladder[k] = o /\ Main!Wanted(o)
      BY <1>8, <2>3
    <3>2. k \in 1..(step' - 1)
      BY <1>1, <2>1
    <3> QED BY <1>10, <3>1, <3>2
  <2> QED BY <1>4, <2>2, <2>3
<1>16. ASSUME mainStage' = "init", step' <= 12, NEW k \in 1..(step' - 1), Main!Wanted(Main!Ladder[k])'
       PROVE  Main!Makes(Main!Ladder[k]) \subseteq alive'
  <2>1. step' = step + 1 /\ step <= 12 /\ Main!Wanted(Main!Ladder[k])
    BY <1>1, <1>2, <1>10, <1>16
  <2>2. CASE k = step
    BY <1>3, <1>4, <2>2
  <2>3. CASE k # step
    <3>1. k \in 1..(step - 1)
      BY <1>1, <2>1, <2>3
    <3> QED BY <1>4, <1>8, <2>1, <3>1
  <2> QED BY <2>2, <2>3
<1>17. Made'
  <2>1. failedAt' = "none" /\ ret' = "failure"
    BY <1>2, <1>8
  <2>2. /\ mainStage' = "loop" => alive' \subseteq initialized'
        /\ mainStage' = "init" => step' = step + 1
    BY <1>1, <1>2, <1>13
  <2>3. mainStage' = "init" /\ step' <= 12 => initialized' \cap AoaObjects = {}
    BY <1>1, <1>14, <2>2
  <2>4. mainStage' = "init" /\ step' > 12 => alive' \subseteq initialized'
    BY <1>1, <1>13, <2>2
  <2> QED BY <1>11, <1>12, <1>15, <1>16, <2>1, <2>2, <2>3, <2>4 DEF Made
<1> QED BY <1>6, <1>7, <1>17 DEF SessionInv

LEMMA InitFailsSession == SessionInv /\ Main!InitFails => SessionInv'
<1> SUFFICES ASSUME SessionInv, Main!InitFails PROVE SessionInv'
  OBVIOUS
<1>1. /\ mainStage = "init" /\ Main!Wanted(Main!Ladder[step]) /\ step \in 1..19
      /\ thread \in [Main!Threads -> {"off", "running", "ended"}] /\ alive \subseteq Objects
      /\ initialized' = initialized /\ thread' = thread
      /\ mainStage' = "cleanup" /\ step' = 1 /\ ret' = "failure"
  BY DEF Main!InitFails, Main!Leave, SessionInv, SessionTyped
<1>2. PICK s : s = Main!Ladder[step]
  OBVIOUS
<1>3. failedAt' = s /\ alive' = (IF s = "server" THEN {s} ELSE alive) \ Main!Undone(s)
  BY <1>2 DEF Main!InitFails
<1>4. Main!Undone(s) \subseteq AoaObjects /\ (step > 12 => Main!Undone(s) = {})
  BY <1>1, <1>2, StepsMake
<1>5. /\ initialized \cap Objects \subseteq alive
      /\ alive \ initialized \subseteq AoaObjects
      /\ \A o \in alive : \E k \in 1..(step - 1) : Main!Ladder[k] = o /\ Main!Wanted(o)
      /\ step <= 12 => initialized \cap AoaObjects = {}
      /\ step > 12 => alive \subseteq initialized
      /\ step <= 12 => \A k \in 1..(step - 1) : Main!Wanted(Main!Ladder[k]) =>
           Main!Makes(Main!Ladder[k]) \subseteq alive
  BY <1>1 DEF SessionInv, Made
<1>6. s = "server" => step = 1 /\ alive = {}
  <2>1. step \in 2..10 => s # "server"
    BY <1>2, LadderIs
  <2>2. step \in 11..19 => s # "server"
    BY <1>2, LadderIs
  <2>3. s = "server" => step = 1
    BY <1>1, <2>1, <2>2
  <2> QED BY <1>5, <2>3
<1>7. s = "usb_select" => step = 9 /\ "acksync" \in alive
  <2> SUFFICES ASSUME s = "usb_select" PROVE step = 9 /\ "acksync" \in alive
    OBVIOUS
  <2>1. step = 9
    BY <1>1, <1>2, LadderIs
  <2>2. Main!Wanted("acksync")
    BY <1>1, <1>2, AoaTogether DEF AoaObjects
  <2>3. 7 \in 1..(step - 1) /\ Main!Ladder[7] = "acksync"
    BY <2>1, LadderIs
  <2>4. Main!Makes("acksync") = {"acksync"}
    BY DEF Main!Makes
  <2> QED BY <1>5, <2>1, <2>2, <2>3, <2>4
<1>8. ASSUME NEW o \in alive, o \in AoaObjects, step <= 12
      PROVE  \/ o = "acksync" /\ step > 7
             \/ o = "usb" /\ step > 8
             \/ o = "aoa" /\ step > 11
  <2>1. PICK k \in 1..(step - 1) : Main!Ladder[k] = o
    BY <1>5
  <2>2. k \in 1..19
    BY <1>1
  <2> QED BY <1>1, <1>8, <2>1, <2>2, AoaMade DEF AoaObjects
<1>9. alive' \ Leaked' \subseteq initialized \cup {"server"}
  <2>1. CASE step > 12
    BY <1>3, <1>5, <2>1
  <2>2. CASE step \in {8, 10, 11, 12}
    <3>1. Main!Undone(s) = AoaObjects /\ s # "server"
      BY <1>2, <2>2, LadderIs DEF Main!Undone, AoaObjects
    <3> QED BY <1>3, <1>5, <3>1
  <2>3. CASE step = 9
    <3>1. s = "usb_select" /\ Main!Undone(s) = {"usb"}
      BY <1>2, <2>3, LadderIs DEF Main!Undone
    <3>2. Leaked' = {"acksync"}
      BY <1>3, <3>1 DEF Leaked
    <3> QED BY <1>3, <1>5, <1>8, <2>3, <3>1, <3>2
  <2>4. CASE step \in 1..7
    <3>1. alive \cap AoaObjects = {}
      BY <1>8, <2>4
    <3> QED BY <1>3, <1>5, <3>1
  <2> QED BY <1>1, <2>1, <2>2, <2>3, <2>4
<1>10. initialized \cap Objects \subseteq alive'
  <2>1. CASE step > 12
    BY <1>3, <1>4, <1>5, <1>6, <2>1
  <2>2. CASE step <= 12
    BY <1>3, <1>4, <1>5, <1>6, <2>2
  <2> QED BY <1>1, <2>1, <2>2
<1>11. Leaked' \subseteq alive' /\ Leaked' \cap initialized' = {}
  <2>1. CASE s = "usb_select"
    <3>1. Main!Undone(s) = {"usb"}
      BY <2>1 DEF Main!Undone
    <3>2. "acksync" \in alive' /\ "acksync" \notin initialized
      BY <1>3, <1>5, <1>7, <2>1, <3>1 DEF AoaObjects
    <3> QED BY <1>1, <1>3, <2>1, <3>2 DEF Leaked
  <2>2. CASE s # "usb_select"
    BY <1>3, <2>2 DEF Leaked
  <2> QED BY <2>1, <2>2
<1>12. alive' \subseteq Objects
  BY <1>1, <1>3 DEF Objects
<1> QED BY <1>1, <1>9, <1>10, <1>11, <1>12, CleanupStarts

LEMMA AwaitSession == SessionInv /\ Main!AwaitForServer => SessionInv'
<1> SUFFICES ASSUME SessionInv, Main!AwaitForServer PROVE SessionInv'
  OBVIOUS
<1>1. /\ mainStage = "init" /\ Main!Ladder[step] = "connection" /\ step \in 1..19
      /\ thread \in [Main!Threads -> {"off", "running", "ended"}] /\ alive \subseteq Objects
      /\ options' = options /\ failedAt' = failedAt /\ initialized' = initialized
      /\ alive' = alive /\ thread' = thread
  BY DEF Main!AwaitForServer, SessionInv, SessionTyped
<1>2. \/ step' = step + 1 /\ mainStage' = "init" /\ ret' = ret
      \/ mainStage' = "cleanup" /\ step' = 1 /\ ret' \in {"success", "failure"}
  BY DEF Main!AwaitForServer, Main!Leave
<1>3. step = 2
  <2>1. step \in 3..10 => Main!Ladder[step] # "connection"
    BY LadderIs
  <2>2. step \in 11..19 => Main!Ladder[step] # "connection"
    BY LadderIs
  <2>3. step # 1
    BY <1>1, LadderIs
  <2> QED BY <1>1, <2>1, <2>2, <2>3
<1>4. /\ failedAt = "none" /\ ret = "failure"
      /\ initialized \cap Objects \subseteq alive
      /\ alive \ initialized \subseteq AoaObjects
      /\ \A o \in alive : \E k \in 1..(step - 1) : Main!Ladder[k] = o /\ Main!Wanted(o)
      /\ initialized \cap AoaObjects = {}
      /\ \A k \in 1..(step - 1) : Main!Wanted(Main!Ladder[k]) =>
           Main!Makes(Main!Ladder[k]) \subseteq alive
  BY <1>1, <1>3 DEF SessionInv, Made
<1>5. CASE step' = step + 1 /\ mainStage' = "init" /\ ret' = ret
  <2>1. SessionTyped'
    BY <1>1, <1>3, <1>5 DEF SessionTyped
  <2>2. Cleaned'
    BY <1>5, BeforeCleanup
  <2>3. \A o : Main!Wanted(o)' <=> Main!Wanted(o)
    BY <1>1, WantedStays
  <2>4. \A o \in alive' : \E k \in 1..(step' - 1) : Main!Ladder[k] = o /\ Main!Wanted(o)'
    <3> SUFFICES ASSUME NEW o \in alive
                 PROVE  \E k \in 1..(step' - 1) : Main!Ladder[k] = o /\ Main!Wanted(o)
      BY <1>1, <2>3
    <3>1. PICK k \in 1..(step - 1) : Main!Ladder[k] = o /\ Main!Wanted(o)
      BY <1>4
    <3> QED BY <1>3, <1>5, <3>1
  <2>5. \A k \in 1..(step' - 1) : Main!Wanted(Main!Ladder[k])' =>
          Main!Makes(Main!Ladder[k]) \subseteq alive'
    <3>1. Main!Makes("connection") = {}
      BY DEF Main!Makes
    <3>2. \A k \in 1..(step' - 1) : k \in 1..(step - 1) \/ Main!Ladder[k] = "connection"
      BY <1>1, <1>3, <1>5
    <3> QED BY <1>1, <1>4, <2>3, <3>1, <3>2
  <2>6. step' = 3 /\ mainStage' = "init"
    BY <1>3, <1>5
  <2>7. Made'
    BY <1>1, <1>4, <1>5, <2>4, <2>5, <2>6 DEF Made
  <2> QED BY <2>1, <2>2, <2>7 DEF SessionInv
<1>6. CASE mainStage' = "cleanup" /\ step' = 1 /\ ret' \in {"success", "failure"}
  <2>1. alive \cap AoaObjects = {}
    <3>1. \A o \in alive : o = Main!Ladder[1]
      BY <1>3, <1>4
    <3> QED BY <3>1, LadderIs DEF AoaObjects
  <2>2. Leaked' = {}
    BY <1>1, <1>4 DEF Leaked
  <2>3. \A o \in alive' \ Leaked' : o \in initialized' \/ o = "server"
    BY <1>1, <1>4, <2>1
  <2> QED BY <1>1, <1>4, <1>6, <2>2, <2>3, CleanupStarts
<1> QED BY <1>2, <1>5, <1>6

LEMMA LeaveSession ==
  ASSUME SessionInv, mainStage = "loop", mainStage' = "cleanup", step' = 1,
         failedAt' = failedAt, initialized' = initialized, alive' = alive, thread' = thread
  PROVE  SessionInv'
<1>1. /\ alive \subseteq Objects /\ thread \in [Main!Threads -> {"off", "running", "ended"}]
      /\ failedAt = "none" /\ initialized \cap Objects \subseteq alive
      /\ alive \subseteq initialized
  BY DEF SessionInv, SessionTyped, Made
<1>2. Leaked' = {}
  BY <1>1 DEF Leaked
<1> QED BY <1>1, <1>2, CleanupStarts

LEMMA LoopSession == SessionInv /\ (Main!EventLoop \/ Main!Quit) => SessionInv'
BY LeaveSession DEF Main!EventLoop, Main!Quit, Main!Leave

(* A thread that ends, or one that starts before the cleanup.              *)
LEMMA ThreadSession ==
  ASSUME SessionInv, UNCHANGED <<options, mainStage, step, failedAt, ret, initialized, alive>>,
         thread' \in [Main!Threads -> {"off", "running", "ended"}],
         \A t \in Main!Threads : thread'[t] = "running" => thread[t] = "running" \/ mainStage = "loop"
  PROVE  SessionInv'
<1>1. SessionTyped'
  BY DEF SessionInv, SessionTyped
<1>2. \A o : Main!Wanted(o)' <=> Main!Wanted(o)
  BY WantedStays
<1>3. Made'
  BY <1>2 DEF SessionInv, Made
<1>4. /\ Reached' = Reached /\ Leaked' = Leaked
      /\ \A o : ToDestroy(o)' <=> ToDestroy(o)
      /\ \A t : ToJoin(t)' <=> ToJoin(t)
  BY DEF Reached, Leaked, ToDestroy, ToJoin
<1>5. mainStage = "loop" => Cleaned'
  BY BeforeCleanup
<1>6. mainStage # "loop" => Cleaned'
  <2> SUFFICES ASSUME mainStage # "loop" PROVE Cleaned'
    OBVIOUS
  <2>1. Cleaned
    BY DEF SessionInv
  <2>2. \A t \in Main!Threads : thread'[t] = "running" => ToJoin(t)'
    BY <1>4, <2>1 DEF Cleaned
  <2>3. mainStage' \in {"cleanup", "exited"} =>
          /\ Leaked' \subseteq alive' /\ Leaked' \cap initialized' = {}
          /\ \A o \in alive' \ Leaked' : ToDestroy(o)' /\ (o \in initialized' \/ o = "server")
          /\ \A o \in initialized' \cap Objects :
               o \in alive' \/ \E k \in 1..(Reached' - 1) : Main!Cleanup[k] = <<"destroy", o>>
          /\ ret' = "disconnected" => failedAt' = "none"
    BY <1>4, <2>1 DEF Cleaned
  <2> QED BY <2>2, <2>3 DEF Cleaned
<1> QED BY <1>1, <1>3, <1>5, <1>6 DEF SessionInv

LEMMA OthersSession ==
  SessionInv /\ (\/ Main!DropFile \/ \E t \in Main!Threads : Main!ThreadEnds(t) \/ Main!ThreadFails(t)
                 \/ Main!ServerConnects \/ Main!ServerStops \/ Main!DeviceGone)
    => SessionInv'
<1> SUFFICES ASSUME SessionInv,
                    \/ Main!DropFile
                    \/ \E t \in Main!Threads : Main!ThreadEnds(t) \/ Main!ThreadFails(t)
                    \/ Main!ServerConnects \/ Main!ServerStops \/ Main!DeviceGone
             PROVE  SessionInv'
  OBVIOUS
<1>1. thread \in [Main!Threads -> {"off", "running", "ended"}]
  BY DEF SessionInv, SessionTyped
<1>2. UNCHANGED <<options, mainStage, step, failedAt, ret, initialized, alive>>
  BY DEF Main!DropFile, Main!ThreadEnds, Main!ThreadFails, Main!Ends, Main!ServerConnects,
         Main!ServerStops, Main!DeviceGone
<1>3. \/ mainStage = "loop" /\ thread' = [thread EXCEPT !["file_pusher"] = "running"]
      \/ \E t \in Main!Threads : thread' = [thread EXCEPT ![t] = "ended"]
      \/ thread' = thread
  <2>1. "server" \in Main!Threads
    BY DEF Main!Threads
  <2> QED BY <2>1 DEF Main!DropFile, Main!ThreadEnds, Main!ThreadFails, Main!Ends,
                      Main!ServerConnects, Main!ServerStops, Main!DeviceGone
<1>4. thread' \in [Main!Threads -> {"off", "running", "ended"}]
  BY <1>1, <1>3
<1>5. \A t \in Main!Threads : thread'[t] = "running" => thread[t] = "running" \/ mainStage = "loop"
  BY <1>1, <1>3
<1> QED BY <1>2, <1>4, <1>5, ThreadSession

LEMMA CleanupSession == SessionInv /\ Main!CleanupStep => SessionInv'
<1> SUFFICES ASSUME SessionInv, Main!CleanupStep PROVE SessionInv'
  OBVIOUS
<1>1. /\ mainStage = "cleanup" /\ step \in 1..25 /\ alive \subseteq Objects
      /\ thread \in [Main!Threads -> {"off", "running", "ended"}]
      /\ failedAt' = failedAt /\ ret' = ret /\ initialized' = initialized /\ thread' = thread
  BY DEF Main!CleanupStep, SessionInv, SessionTyped
<1>2. IF step = 25 THEN mainStage' = "exited" /\ step' = step
      ELSE step' = step + 1 /\ mainStage' = "cleanup"
  BY CleanupIs, <1>1 DEF Main!CleanupStep
<1>3. PICK op, c : op = Main!Cleanup[step][1] /\ c = Main!Cleanup[step][2]
  OBVIOUS
<1>4. /\ op = "join" => \A t \in Main!ThreadsOf(c) : thread[t] # "running"
      /\ alive' = IF op = "destroy" /\ (c \in initialized \/ c = "server") THEN alive \ {c} ELSE alive
  BY <1>3 DEF Main!CleanupStep
<1>5. Main!Cleanup[step] = <<op, c>>
  BY <1>1, <1>3, CleanupIs
<1>6. Reached = step /\ Reached' = step + 1
  BY <1>1, <1>2 DEF Reached
<1>7. /\ Leaked \subseteq alive /\ Leaked \cap initialized = {}
      /\ \A o \in alive \ Leaked : ToDestroy(o) /\ (o \in initialized \/ o = "server")
      /\ \A o \in initialized \cap Objects :
           o \in alive \/ \E k \in 1..(Reached - 1) : Main!Cleanup[k] = <<"destroy", o>>
      /\ ret = "disconnected" => failedAt = "none"
      /\ \A t \in Main!Threads : thread[t] = "running" => ToJoin(t)
  BY <1>1 DEF SessionInv, Cleaned
<1>8. Leaked' = Leaked /\ Leaked \subseteq {"acksync"}
  BY <1>1 DEF Leaked
<1>9. Leaked' \subseteq alive' /\ Leaked' \cap initialized' = {}
  BY <1>1, <1>4, <1>7, <1>8
<1>10. ASSUME NEW o \in alive' \ Leaked'
       PROVE  ToDestroy(o)' /\ (o \in initialized' \/ o = "server")
  <2>1. o \in alive \ Leaked
    BY <1>4, <1>8
  <2>2. PICK k \in step..25 : Main!Cleanup[k] = <<"destroy", o>>
    BY <1>6, <1>7, <2>1 DEF ToDestroy
  <2>3. k # step
    <3> SUFFICES ASSUME k = step PROVE FALSE
      OBVIOUS
    <3>1. op = "destroy" /\ c = o
      BY <1>5, <2>2
    <3> QED BY <1>4, <1>7, <2>1, <3>1
  <2>4. k \in (step + 1)..25
    BY <1>1, <2>3
  <2>5. ToDestroy(o)'
    BY <1>6, <2>2, <2>4 DEF ToDestroy
  <2> QED BY <1>1, <1>7, <2>1, <2>5
<1>11. ASSUME NEW o \in initialized' \cap Objects
       PROVE  o \in alive' \/ \E k \in 1..(Reached' - 1) : Main!Cleanup[k] = <<"destroy", o>>
  <2>1. CASE o \in alive /\ o \notin alive'
    <3>1. op = "destroy" /\ c = o
      BY <1>4, <2>1
    <3>2. step \in 1..(Reached' - 1)
      BY <1>1, <1>6
    <3> QED BY <1>5, <3>1, <3>2
  <2>2. CASE o \notin alive
    <3>1. PICK k \in 1..(Reached - 1) : Main!Cleanup[k] = <<"destroy", o>>
      BY <1>1, <1>7, <2>2
    <3>2. k \in 1..(Reached' - 1)
      BY <1>1, <1>6
    <3> QED BY <3>1, <3>2
  <2> QED BY <2>1, <2>2
<1>12. ASSUME NEW t \in Main!Threads, thread'[t] = "running"
       PROVE  ToJoin(t)'
  <2>1. PICK k \in step..25 : Main!Cleanup[k][1] = "join" /\ t \in Main!ThreadsOf(Main!Cleanup[k][2])
    BY <1>1, <1>6, <1>7, <1>12 DEF ToJoin
  <2>2. k # step
    BY <1>1, <1>3, <1>4, <1>12, <2>1
  <2>3. k \in (step + 1)..25
    BY <1>1, <2>2
  <2> QED BY <1>6, <2>1, <2>3 DEF ToJoin
<1>13. Cleaned'
  BY <1>1, <1>7, <1>9, <1>10, <1>11, <1>12 DEF Cleaned
<1>14. SessionTyped'
  BY <1>1, <1>2, <1>4 DEF SessionTyped
<1>15. Made'
  BY <1>2 DEF Made
<1> QED BY <1>13, <1>14, <1>15 DEF SessionInv

LEMMA NextSession == SessionInv /\ [Main!Next]_sessionVars => SessionInv'
<1> SUFFICES ASSUME SessionInv, [Main!Next]_sessionVars PROVE SessionInv'
  OBVIOUS
<1>1. CASE UNCHANGED sessionVars
  <2>1. UNCHANGED <<options, mainStage, step, failedAt, ret, initialized, alive>> /\ thread' = thread
    BY <1>1 DEF sessionVars
  <2>2. thread \in [Main!Threads -> {"off", "running", "ended"}]
    BY DEF SessionInv, SessionTyped
  <2> QED BY <2>1, <2>2, ThreadSession
<1> QED BY <1>1, SkipSession, InitStepSession, InitFailsSession, AwaitSession, LoopSession,
           OthersSession, CleanupSession
        DEF Main!Next, Main!MainThread

(* What the property says of the session.                                  *)
LEMMA SessionOwns == SessionInv => Main!DestroyedAfterUse /\ Main!AllReleased
<1> SUFFICES ASSUME SessionInv PROVE Main!DestroyedAfterUse /\ Main!AllReleased
  OBVIOUS
<1>1. mainStage \in {"init", "loop", "cleanup", "exited"} /\ (mainStage = "cleanup" => step \in 1..25)
  BY DEF SessionInv, SessionTyped
<1>2. ASSUME NEW t \in Main!Threads, NEW o \in Main!Dangling(t)
      PROVE  (t = "file_pusher" /\ o = "controller") \/ (t = "receiver" /\ o = "acksync")
  <2>1. thread[t] = "running" /\ o \in Main!Uses(t) /\ o \in initialized /\ o \notin alive
    BY <1>2 DEF Main!Dangling
  <2>2. o \in Objects
    BY <2>1 DEF Main!Uses, Main!Threads, Objects
  <2>3. mainStage \in {"cleanup", "exited"}
    BY <1>1, <2>1, <2>2 DEF SessionInv, Made
  <2>4. PICK m \in 1..(Reached - 1) : Main!Cleanup[m] = <<"destroy", o>>
    BY <2>1, <2>2, <2>3 DEF SessionInv, Cleaned
  <2>5. PICK k \in Reached..25 : Main!Cleanup[k][1] = "join" /\ t \in Main!ThreadsOf(Main!Cleanup[k][2])
    BY <2>1 DEF SessionInv, Cleaned, ToJoin
  <2>6. Reached \in 1..26
    BY <1>1, <2>3 DEF Reached
  <2>7. m \in 1..25 /\ k \in 1..25 /\ ~(k < m)
    BY <2>6
  <2> QED BY <2>1, <2>4, <2>5, <2>7, JoinedFirst
<1>3. Main!DestroyedAfterUse
  <2>1. \A t \in Main!Threads \ {"file_pusher", "receiver"} : Main!Dangling(t) = {}
    BY <1>2
  <2>2. "file_pusher" \in Main!Threads /\ "receiver" \in Main!Threads
    BY DEF Main!Threads
  <2>3. Main!Dangling("file_pusher") \subseteq {"controller"}
    BY <1>2, <2>2
  <2>4. Main!Dangling("receiver") \subseteq {"acksync"}
    BY <1>2, <2>2
  <2> QED BY <2>1, <2>3, <2>4 DEF Main!DestroyedAfterUse
<1>4. Main!AllReleased
  <2> SUFFICES ASSUME mainStage = "exited"
               PROVE  /\ alive = IF failedAt = "usb_select" THEN {"acksync"} ELSE {}
                      /\ \A t \in Main!Threads : thread[t] # "running"
                      /\ ret = "disconnected" => shut \/ failedAt = "none"
    BY DEF Main!AllReleased
  <2>1. Cleaned /\ Reached = 26
    BY DEF SessionInv, Reached
  <2>2. (\A o : ~ToDestroy(o)) /\ (\A t : ~ToJoin(t))
    BY <2>1 DEF ToDestroy, ToJoin
  <2>3. Leaked \subseteq alive /\ alive \ Leaked = {}
    BY <2>1, <2>2 DEF Cleaned
  <2>4. alive = IF failedAt = "usb_select" THEN {"acksync"} ELSE {}
    BY <2>3 DEF Leaked
  <2>5. \A t \in Main!Threads : thread[t] # "running"
    BY <2>1, <2>2 DEF Cleaned
  <2>6. ret = "disconnected" => failedAt = "none"
    BY <2>1 DEF Cleaned
  <2> QED BY <2>4, <2>5, <2>6
<1> QED BY <1>3, <1>4

-----------------------------------------------------------------------------
(* The file pusher.                                                        *)
PusherTyped ==
  /\ fpMain \in {"running", "stopped", "joined", "destroyed"}
  /\ fpThread \in {"off", "idle", "adb", "waiting", "done", "ended"}
  /\ fpQueue \in Seq(Nat) /\ current \in Nat
  /\ dropped \in Seq({"install", "push"}) /\ frees \in Seq(Nat) /\ Len(frees) = Len(dropped)

(* A name belongs to the queue or to the thread until it is freed.         *)
Owned ==
  /\ \A i \in 1..Len(fpQueue) : fpQueue[i] \in 1..Len(frees)
  /\ \A i, j \in 1..Len(fpQueue) : fpQueue[i] = fpQueue[j] => i = j
  /\ current # 0 => current \in 1..Len(frees) /\ \A i \in 1..Len(fpQueue) : fpQueue[i] # current
  /\ \A f \in 1..Len(frees) :
       frees[f] = IF f = current \/ \E i \in 1..Len(fpQueue) : fpQueue[i] = f THEN 0 ELSE 1

(* What the thread does with it.                                           *)
Carries ==
  /\ fpThread \in {"off", "idle", "ended"} <=> current = 0
  /\ adb \in {"running", "killed"} => fpThread = "waiting"
  /\ adb = "ok" => current \in carried /\ fpThread \in {"waiting", "done"}
  /\ \A f \in scans : f \in carried /\ f \in 1..Len(dropped) /\ dropped[f] = "push"
  /\ fpMain \in {"joined", "destroyed"} => fpThread \in {"off", "ended"}
  /\ fpMain = "destroyed" => fpQueue = <<>>
  /\ fpThread = "off" => fpQueue = <<>>

PusherInv == PusherTyped /\ Owned /\ Carries

LEMMA PusherStarts == Fp!Init => PusherInv
<1> SUFFICES ASSUME Fp!Init PROVE PusherInv
  OBVIOUS
<1>1. <<>> \in Seq(Nat) /\ <<>> \in Seq({"install", "push"})
  OBVIOUS
<1> QED BY <1>1 DEF Fp!Init, PusherInv, PusherTyped, Owned, Carries, Fp!NotInterrupted

(* The name of a dropped file is freed at once or enters the queue.        *)
LEMMA ProcessFileKeeps ==
  ASSUME PusherInv, NEW action \in {"install", "push"}, Fp!ProcessFile(action)
  PROVE  PusherInv'
<1>1. PICK n \in Nat, q \in Seq(Nat), fr \in Seq(Nat), d \in Seq({"install", "push"}) :
        n = Len(dropped) /\ q = fpQueue /\ fr = frees /\ d = dropped /\ Len(fr) = n /\ Len(d) = n
  BY DEF PusherInv, PusherTyped
<1>2. /\ dropped' = Append(d, action) /\ fpMain = "running" /\ current' = current
      /\ frees' = Append(fr, IF fpQueue' = q THEN 1 ELSE 0)
      /\ fpQueue' = q \/ (fpQueue' = Append(q, n + 1) /\ fpThread' # "off")
      /\ fpThread' = fpThread \/ (fpThread = "off" /\ fpThread' = "idle")
      /\ UNCHANGED <<fpMain, adb, carried, scans>>
  BY <1>1 DEF Fp!ProcessFile, Fp!Request
<1>3. PICK m \in {0, 1} : m = IF fpQueue' = q THEN 1 ELSE 0
  OBVIOUS
<1>4. /\ frees' \in Seq(Nat) /\ Len(frees') = n + 1
      /\ frees'[n + 1] = m /\ \A f \in 1..n : frees'[f] = fr[f]
  <2>1. /\ Append(fr, m) \in Seq(Nat) /\ Len(Append(fr, m)) = n + 1
        /\ Append(fr, m)[n + 1] = m /\ \A f \in 1..n : Append(fr, m)[f] = fr[f]
    BY <1>1
  <2> QED BY <1>2, <1>3, <2>1
<1>5. /\ dropped' \in Seq({"install", "push"}) /\ Len(dropped') = n + 1
      /\ \A f \in 1..n : dropped'[f] = d[f]
  BY <1>1, <1>2
<1>6. /\ fpQueue' \in Seq(Nat) /\ Len(fpQueue') = IF m = 1 THEN Len(q) ELSE Len(q) + 1
      /\ \A i \in 1..Len(q) : fpQueue'[i] = q[i]
      /\ m = 0 => fpQueue'[Len(q) + 1] = n + 1
  <2>1. CASE fpQueue' = q
    BY <1>3, <2>1
  <2>2. CASE fpQueue' # q
    <3>1. /\ Append(q, n + 1) \in Seq(Nat) /\ Len(Append(q, n + 1)) = Len(q) + 1
          /\ \A i \in 1..Len(q) : Append(q, n + 1)[i] = q[i]
          /\ Append(q, n + 1)[Len(q) + 1] = n + 1
      BY <1>1
    <3>2. m = 0 /\ fpQueue' = Append(q, n + 1)
      BY <1>2, <1>3, <2>2
    <3> QED BY <3>1, <3>2
  <2> QED BY <2>1, <2>2
<1>7. PusherTyped'
  BY <1>2, <1>4, <1>5, <1>6 DEF PusherInv, PusherTyped
<1>8. Owned'
  <2>1. PICK k \in Nat : k = Len(q)
    BY <1>1
  <2>2. /\ \A i \in 1..k : q[i] \in 1..n
        /\ \A i, j \in 1..k : q[i] = q[j] => i = j
        /\ current # 0 => current \in 1..n /\ \A i \in 1..k : q[i] # current
        /\ \A f \in 1..n : fr[f] = IF f = current \/ \E i \in 1..k : q[i] = f THEN 0 ELSE 1
        /\ current \in Nat
    BY <1>1, <2>1 DEF PusherInv, Owned, PusherTyped
  <2>3. PICK p \in Seq(Nat) : p = fpQueue' /\ Len(p) = IF m = 1 THEN k ELSE k + 1
    BY <1>6, <2>1
  <2>4. \A i \in 1..Len(p) : \/ i \in 1..k /\ p[i] = q[i]
                             \/ m = 0 /\ i = k + 1 /\ p[i] = n + 1
    BY <1>6, <2>1, <2>3
  <2>5. \A i \in 1..k : i \in 1..Len(p) /\ p[i] = q[i]
    BY <1>6, <2>1, <2>3
  <2>6. /\ \A i \in 1..Len(p) : p[i] \in 1..(n + 1)
        /\ \A i, j \in 1..Len(p) : p[i] = p[j] => i = j
    <3>1. \A i \in 1..k : q[i] # n + 1 /\ q[i] \in 1..(n + 1)
      BY <2>2
    <3>2. ASSUME NEW i \in 1..Len(p) PROVE p[i] \in 1..(n + 1)
      <4>1. CASE i \in 1..k /\ p[i] = q[i]
        BY <3>1, <4>1
      <4>2. CASE p[i] = n + 1
        BY <4>2
      <4> QED BY <2>4, <4>1, <4>2
    <3>3. ASSUME NEW i \in 1..Len(p), NEW j \in 1..Len(p), p[i] = p[j] PROVE i = j
      <4>1. CASE i \in 1..k /\ p[i] = q[i]
        <5>1. q[i] # n + 1
          BY <3>1, <4>1
        <5>2. j \in 1..k /\ p[j] = q[j]
          <6>1. p[j] # n + 1
            BY <3>3, <4>1, <5>1
          <6>2. \/ j \in 1..k /\ p[j] = q[j]
                \/ m = 0 /\ j = k + 1 /\ p[j] = n + 1
            BY <2>4
          <6> QED BY <6>1, <6>2
        <5>3. q[i] = q[j]
          BY <3>3, <4>1, <5>2
        <5>4. \A a, b \in 1..k : q[a] = q[b] => a = b
          BY <2>2
        <5> QED BY <4>1, <5>2, <5>3, <5>4, Zenon
      <4>2. CASE i = k + 1 /\ p[i] = n + 1
        BY <2>2, <2>4, <3>1, <3>3, <4>2
      <4> QED BY <2>4, <4>1, <4>2
    <3> QED BY <3>2, <3>3
  <2>7. ASSUME current # 0
        PROVE  current \in 1..(n + 1) /\ \A i \in 1..Len(p) : p[i] # current
    <3>1. current \in 1..n /\ \A i \in 1..k : q[i] # current
      BY <2>2, <2>7
    <3> QED BY <2>4, <3>1, SMTT(30)
  <2>8. ASSUME NEW f \in 1..(n + 1)
        PROVE  frees'[f] = IF f = current \/ \E i \in 1..Len(p) : p[i] = f THEN 0 ELSE 1
    <3>1. CASE f \in 1..n
      <4>1. (\E i \in 1..Len(p) : p[i] = f) <=> \E i \in 1..k : q[i] = f
        <5>1. ASSUME NEW i \in 1..Len(p), p[i] = f PROVE \E j \in 1..k : q[j] = f
          <6>1. f # n + 1
            BY <3>1
          <6>2. i \in 1..k /\ p[i] = q[i]
            BY <2>4, <5>1, <6>1
          <6> QED BY <5>1, <6>2
        <5>2. ASSUME NEW j \in 1..k, q[j] = f PROVE \E i \in 1..Len(p) : p[i] = f
          BY <2>5, <5>2
        <5> QED BY <5>1, <5>2
      <4> QED BY <1>4, <2>2, <3>1, <4>1
    <3>2. CASE f = n + 1
      <4>1. f # current
        BY <2>2, <3>2
      <4>2. (\E i \in 1..Len(p) : p[i] = f) <=> m = 0
        <5>1. ASSUME NEW i \in 1..Len(p), p[i] = f PROVE m = 0
          BY <2>2, <2>4, <3>2, <5>1
        <5>2. m = 0 => k + 1 \in 1..Len(p) /\ p[k + 1] = n + 1
          BY <1>6, <2>1, <2>3
        <5> QED BY <3>2, <5>1, <5>2
      <4> QED BY <1>4, <3>2, <4>1, <4>2
    <3> QED BY <3>1, <3>2
  <2> QED BY <1>2, <1>4, <2>3, <2>6, <2>7, <2>8 DEF Owned
<1>9. Carries'
  <2>1. fpThread' = "off" => fpQueue' = <<>>
    BY <1>1, <1>2 DEF PusherInv, Carries
  <2>2. \A f \in scans' : f \in carried' /\ f \in 1..Len(dropped') /\ dropped'[f] = "push"
    BY <1>1, <1>2, <1>5 DEF PusherInv, Carries
  <2> QED BY <1>2, <2>1, <2>2 DEF PusherInv, Carries
<1> QED BY <1>7, <1>8, <1>9 DEF PusherInv

(* A step that leaves the names where they are.                            *)
LEMMA NamesStay ==
  ASSUME PusherInv, UNCHANGED <<fpQueue, current, dropped, frees>>
  PROVE  Owned'
BY DEF PusherInv, Owned

LEMMA MainPusherKeeps ==
  ASSUME PusherInv, Fp!Stop \/ Fp!Join
  PROVE  PusherInv'
<1>1. Owned'
  BY NamesStay DEF Fp!Stop, Fp!Join
<1>2. PusherTyped' /\ Carries'
  BY DEF Fp!Stop, Fp!Join, Fp!Kills, PusherInv, PusherTyped, Carries
<1> QED BY <1>1, <1>2 DEF PusherInv

(* What is left in the queue is freed.                                     *)
LEMMA DestroyKeeps ==
  ASSUME PusherInv, Fp!Destroy
  PROVE  PusherInv'
<1>1. PICK fr \in Seq(Nat) : fr = frees
  BY DEF PusherInv, PusherTyped
<1>2. current = 0 /\ current' = 0 /\ fpQueue' = <<>>
  BY DEF Fp!Destroy, PusherInv, Carries
<1>3. frees' = [f \in 1..Len(fr) |-> IF f \in Fp!Queued THEN fr[f] + 1 ELSE fr[f]]
  BY <1>1 DEF Fp!Destroy, Fp!Freed
<1>4. frees' \in Seq(Nat) /\ Len(frees') = Len(fr)
  BY <1>1, <1>3
<1>5. \A f \in 1..Len(fr) : frees'[f] = 1
  BY <1>1, <1>2, <1>3 DEF PusherInv, Owned, Fp!Queued
<1>6. Owned'
  BY <1>2, <1>4, <1>5 DEF Owned
<1>7. PusherTyped' /\ Carries'
  BY <1>1, <1>2, <1>4 DEF Fp!Destroy, PusherInv, PusherTyped, Carries
<1> QED BY <1>6, <1>7 DEF PusherInv

LEMMA TakeKeeps ==
  ASSUME PusherInv, Fp!Take
  PROVE  PusherInv'
<1>1. CASE fpStopped
  <2>1. Owned'
    BY <1>1, NamesStay DEF Fp!Take
  <2> QED BY <1>1, <2>1 DEF Fp!Take, PusherInv, PusherTyped, Carries
<1>2. CASE ~fpStopped
  <2>1. /\ fpThread = "idle" /\ fpThread' = "adb" /\ fpQueue # <<>> /\ current = 0
        /\ UNCHANGED <<fpMain, adb, dropped, frees, carried, scans>>
    BY <1>2 DEF Fp!Take, PusherInv, Carries
  <2>2. PICK q \in Seq(Nat) : q = fpQueue /\ q # <<>> /\ Len(q) > 0
    BY <2>1 DEF PusherInv, PusherTyped
  <2>3. PICK p \in Seq(Nat) : /\ p = Tail(q) /\ Len(p) = Len(q) - 1
                              /\ \A i \in 1..Len(p) : i + 1 \in 1..Len(q) /\ p[i] = q[i + 1]
    <3>1. /\ Tail(q) \in Seq(Nat) /\ Len(Tail(q)) = Len(q) - 1
          /\ \A i \in 1..(Len(q) - 1) : i + 1 \in 1..Len(q) /\ Tail(q)[i] = q[i + 1]
      BY <2>2
    <3> QED BY <3>1
  <2>4. current' = q[1] /\ fpQueue' = p
    BY <1>2, <2>2, <2>3 DEF Fp!Take
  <2>5. /\ \A i \in 1..Len(q) : q[i] \in 1..Len(frees)
        /\ \A i, j \in 1..Len(q) : q[i] = q[j] => i = j
        /\ \A f \in 1..Len(frees) : frees[f] = IF f = 0 \/ \E i \in 1..Len(q) : q[i] = f THEN 0 ELSE 1
        /\ frees \in Seq(Nat)
    BY <2>1, <2>2 DEF PusherInv, Owned, PusherTyped
  <2>6. q[1] \in 1..Len(frees) /\ q[1] # 0 /\ q[1] \in Nat
    BY <2>2, <2>5
  <2>7. Owned'
    <3>1. \A i \in 1..Len(p) : p[i] \in 1..Len(frees) /\ p[i] # q[1]
      BY <2>2, <2>3, <2>5
    <3>2. \A i, j \in 1..Len(p) : p[i] = p[j] => i = j
      BY <2>2, <2>3, <2>5
    <3>3. ASSUME NEW f \in 1..Len(frees)
          PROVE  frees[f] = IF f = q[1] \/ \E i \in 1..Len(p) : p[i] = f THEN 0 ELSE 1
      <4>1. (\E i \in 1..Len(q) : q[i] = f) => (f = q[1] \/ \E i \in 1..Len(p) : p[i] = f)
        <5>1. SUFFICES ASSUME NEW i \in 1..Len(q), q[i] = f, i # 1 PROVE \E j \in 1..Len(p) : p[j] = f
          OBVIOUS
        <5>2. i - 1 \in 1..Len(p) /\ (i - 1) + 1 = i
          BY <2>2, <2>3, <5>1
        <5>3. p[i - 1] = q[i]
          BY <2>3, <5>2
        <5> QED BY <5>1, <5>2, <5>3
      <4>2. (f = q[1] \/ \E i \in 1..Len(p) : p[i] = f) => \E i \in 1..Len(q) : q[i] = f
        BY <2>2, <2>3
      <4>3. f # 0
        BY <2>5
      <4> QED BY <2>5, <4>1, <4>2, <4>3
    <3> QED BY <2>1, <2>4, <2>6, <3>1, <3>2, <3>3 DEF Owned
  <2>8. PusherTyped'
    BY <2>1, <2>4, <2>6 DEF PusherInv, PusherTyped
  <2>9. Carries'
    BY <2>1, <2>4, <2>6 DEF PusherInv, Carries
  <2> QED BY <2>7, <2>8, <2>9 DEF PusherInv
<1> QED BY <1>1, <1>2

LEMMA AdbKeeps ==
  ASSUME PusherInv, Fp!Execute \/ Fp!Wait \/ Fp!AdbEnds
  PROVE  PusherInv'
<1>1. Owned'
  BY NamesStay DEF Fp!Execute, Fp!Wait, Fp!AdbEnds
<1>2. PusherTyped'
  BY DEF Fp!Execute, Fp!Wait, Fp!AdbEnds, PusherInv, PusherTyped
<1>3. Carries'
  BY DEF Fp!Execute, Fp!Wait, Fp!AdbEnds, PusherInv, PusherTyped, Carries
<1> QED BY <1>1, <1>2, <1>3 DEF PusherInv

LEMMA ProcessedKeeps ==
  ASSUME PusherInv, Fp!Processed
  PROVE  PusherInv'
<1>1. PICK fr \in Seq(Nat), c \in Nat, q \in Seq(Nat) :
        fr = frees /\ c = current /\ q = fpQueue /\ c \in 1..Len(fr)
  BY DEF Fp!Processed, PusherInv, PusherTyped, Carries, Owned
<1>2. /\ current' = 0 /\ fpThread = "done" /\ fpThread' = "idle" /\ adb' = "none"
      /\ UNCHANGED <<fpMain, fpQueue, dropped, carried>>
      /\ scans' = scans \/ (adb = "ok" /\ dropped[c] = "push" /\ scans' = scans \cup {c})
  BY <1>1 DEF Fp!Processed, Fp!Scan
<1>3. frees' = [f \in 1..Len(fr) |-> IF f = c THEN fr[f] + 1 ELSE fr[f]]
  BY <1>1 DEF Fp!Processed, Fp!DestroysRequest, Fp!Freed
<1>4. frees' \in Seq(Nat) /\ Len(frees') = Len(fr)
  BY <1>1, <1>3
<1>5. Owned'
  <2>1. /\ \A i \in 1..Len(q) : q[i] \in 1..Len(fr) /\ q[i] # c
        /\ \A i, j \in 1..Len(q) : q[i] = q[j] => i = j
        /\ \A f \in 1..Len(fr) : fr[f] = IF f = c \/ \E i \in 1..Len(q) : q[i] = f THEN 0 ELSE 1
    BY <1>1 DEF PusherInv, Owned
  <2>2. \A f \in 1..Len(fr) : f # 0
    OBVIOUS
  <2> QED BY <1>1, <1>2, <1>3, <1>4, <2>1, <2>2 DEF Owned
<1>6. PusherTyped'
  BY <1>1, <1>2, <1>4 DEF PusherInv, PusherTyped
<1>7. Carries'
  BY <1>1, <1>2 DEF PusherInv, PusherTyped, Carries
<1> QED BY <1>5, <1>6, <1>7 DEF PusherInv

LEMMA NextPusher == PusherInv /\ [Fp!Next]_pusherVars => PusherInv'
<1> SUFFICES ASSUME PusherInv, [Fp!Next]_pusherVars PROVE PusherInv'
  OBVIOUS
<1>1. CASE UNCHANGED pusherVars
  BY <1>1 DEF pusherVars, PusherInv, PusherTyped, Owned, Carries
<1>2. CASE \E action \in {"install", "push"} : Fp!ProcessFile(action)
  BY <1>2, ProcessFileKeeps
<1>3. CASE Fp!Stop \/ Fp!Join \/ Fp!Destroy
  BY <1>3, MainPusherKeeps, DestroyKeeps
<1>4. CASE Fp!PusherThread \/ Fp!AdbEnds
  BY <1>4, TakeKeeps, AdbKeeps, ProcessedKeeps DEF Fp!PusherThread
<1> QED BY <1>1, <1>2, <1>3, <1>4 DEF Fp!Next

LEMMA NamesFreedOnce == PusherInv => Fp!FreedOnce
<1> SUFFICES ASSUME PusherInv PROVE Fp!FreedOnce
  OBVIOUS
<1>1. DOMAIN frees = 1..Len(frees)
  BY DEF PusherInv, PusherTyped
<1>2. \A f \in 1..Len(frees) : frees[f] <= 1 /\ (frees[f] = 1 => f # current /\ f \notin Fp!Queued)
  BY DEF PusherInv, Owned, Fp!Queued
<1>3. fpMain = "destroyed" => \A f \in 1..Len(frees) : frees[f] = 1
  <2>1. fpMain = "destroyed" => current = 0 /\ Len(fpQueue) = 0
    BY DEF PusherInv, Carries
  <2>2. \A f \in 1..Len(frees) : f # 0
    BY DEF PusherInv, PusherTyped
  <2> QED BY <2>1, <2>2 DEF PusherInv, Owned
<1>4. \A f \in scans : f \in carried /\ dropped[f] = "push"
  BY DEF PusherInv, Carries
<1> QED BY <1>1, <1>2, <1>3, <1>4 DEF Fp!FreedOnce

-----------------------------------------------------------------------------
(* The screen.                                                             *)
IconInv ==
  /\ icon \in {"none", "posted", "freed"}
  /\ scrPhase = "destroyed" => dcThread \in {"off", "ended"} /\ icon # "posted"

LEMMA IconStarts == Disc!Init => IconInv
BY DEF Disc!Init, IconInv

LEMMA NextIcon == IconInv /\ [Disc!Next]_disconnectionVars => IconInv'
<1> SUFFICES ASSUME IconInv, [Disc!Next]_disconnectionVars PROVE IconInv'
  OBVIOUS
<1> USE DEF IconInv
<1>1. CASE UNCHANGED disconnectionVars
  BY <1>1 DEF disconnectionVars
<1>2. CASE Disc!Destroy
  BY <1>2 DEF Disc!Destroy, Disc!Dequeued
<1>3. CASE Disc!DelayThread
  BY <1>3 DEF Disc!DelayThread, Disc!LoadIcon, Disc!Expire
<1>4. CASE Disc!Toggle \/ Disc!DeviceDisconnected \/ Disc!Quit \/ Disc!QuitDelay
  BY <1>4 DEF Disc!Toggle, Disc!DeviceDisconnected, Disc!Quit, Disc!QuitDelay, Disc!delay
<1>5. CASE \/ Disc!StartSignal \/ Disc!Interrupt \/ Disc!IconLoaded \/ Disc!DelayEnds
           \/ Disc!JoinCounter \/ Disc!JoinDelay \/ Disc!CounterThread
  BY <1>5 DEF Disc!StartSignal, Disc!Interrupt, Disc!IconLoaded, Disc!DelayEnds, Disc!JoinCounter,
     Disc!JoinDelay, Disc!CounterThread, Disc!Counts, Disc!delay
<1> QED BY <1>1, <1>2, <1>3, <1>4, <1>5 DEF Disc!Next, Disc!MainEnds

-----------------------------------------------------------------------------
(* The OTG mode.                                                           *)
Reporting == \A i, j \in 1..Len(otgEvents) :
               otgEvents[i] = "disconnected" /\ otgEvents[j] = "disconnected" => i = j

OtgTyped ==
  /\ otgPc \in {"init", "loop", "cleanup", "exited"}
  /\ otgPc = "init" => otgStep \in 1..8
  /\ otgPc = "loop" => otgStep = 1
  /\ otgPc = "cleanup" => otgStep \in 1..11
  /\ evThread \in {"off", "checking", "blocked", "callback", "ended"}
  /\ usbAoaThread \in {"off", "running", "ended"}
  /\ otgAlive \subseteq {"usb", "device", "handle", "aoa", "keyboard", "mouse", "screen"}
  /\ notified \in BOOLEAN
  /\ otgEvents \in Seq({"disconnected", "failure"})

(* The handle is closed once the threads that use it are joined.           *)
Opened ==
  /\ otgPc = "init" =>
       /\ otgAlive = {Usb!Steps[k] : k \in 1..(otgStep - 1)} \ {"aoa_start"}
       /\ otgStep <= 3 => evThread = "off"
       /\ otgStep <= 7 => usbAoaThread = "off"
  /\ otgPc = "loop" => {"handle", "usb", "aoa"} \subseteq otgAlive
  /\ evThread \notin {"off", "ended"} =>
       /\ {"handle", "usb"} \subseteq otgAlive
       /\ otgPc # "exited" /\ (otgPc = "cleanup" => otgStep <= 7)
  /\ usbAoaThread = "running" =>
       /\ {"handle", "usb", "aoa"} \subseteq otgAlive
       /\ otgPc # "exited" /\ (otgPc = "cleanup" => otgStep <= 5)
  /\ otgPc = "cleanup" => \A o \in otgAlive : \E k \in otgStep..11 : Usb!OtgCleanup[k] = o
  /\ otgPc = "exited" => otgAlive = {}

OneSelected ==
  /\ otgPc = "init" => exitCode = "failure" /\ (otgStep > 2 => Usb!Possible("device"))
  /\ otgPc = "loop" => Usb!Possible("device")
  /\ otgPc # "init" /\ exitCode # "failure" => Usb!Possible("device")

ReportedOnce ==
  /\ Reporting
  /\ ~notified => \A i \in 1..Len(otgEvents) : otgEvents[i] # "disconnected"

OtgInv == OtgTyped /\ Opened /\ OneSelected /\ ReportedOnce

LEMMA StepsAre ==
  /\ Len(Usb!Steps) = 8
  /\ Usb!Steps[1] = "usb" /\ Usb!Steps[2] = "device" /\ Usb!Steps[3] = "handle"
  /\ Usb!Steps[4] = "aoa" /\ Usb!Steps[5] = "keyboard" /\ Usb!Steps[6] = "mouse"
  /\ Usb!Steps[7] = "aoa_start" /\ Usb!Steps[8] = "screen"
BY DEF Usb!Steps

LEMMA OtgCleanupIs ==
  /\ Len(Usb!OtgCleanup) = 11
  /\ Usb!OtgCleanup[1] = "aoa_stop" /\ Usb!OtgCleanup[2] = "usb_stop"
  /\ Usb!OtgCleanup[3] = "mouse" /\ Usb!OtgCleanup[4] = "keyboard"
  /\ Usb!OtgCleanup[5] = "aoa_join" /\ Usb!OtgCleanup[6] = "aoa"
  /\ Usb!OtgCleanup[7] = "usb_join" /\ Usb!OtgCleanup[8] = "handle"
  /\ Usb!OtgCleanup[9] = "device" /\ Usb!OtgCleanup[10] = "usb"
  /\ Usb!OtgCleanup[11] = "screen"
BY DEF Usb!OtgCleanup

LEMMA OtgStarts == Usb!Init => OtgInv
<1> SUFFICES ASSUME Usb!Init PROVE OtgInv
  OBVIOUS
<1>1. OtgTyped
  <2>1. <<>> \in Seq({"disconnected", "failure"})
    OBVIOUS
  <2>2. /\ otgPc = "init" /\ otgStep = 1 /\ otgAlive = {} /\ evThread = "off" /\ usbAoaThread = "off"
        /\ notified = FALSE /\ otgEvents = <<>>
    BY DEF Usb!Init
  <2>3. otgAlive \subseteq {"usb", "device", "handle", "aoa", "keyboard", "mouse", "screen"}
    BY <2>2, Zenon
  <2>4. otgEvents \in Seq({"disconnected", "failure"})
    BY <2>1, <2>2, Zenon
  <2>5. 1 \in 1..8
    OBVIOUS
  <2> QED BY <2>2, <2>3, <2>4, <2>5, Zenon DEF OtgTyped
<1>2. Opened
  BY DEF Usb!Init, Opened
<1>3. OneSelected /\ ReportedOnce
  BY DEF Usb!Init, OneSelected, ReportedOnce, Reporting
<1> QED BY <1>1, <1>2, <1>3 DEF OtgInv

LEMMA OtgInitStepKeeps ==
  ASSUME OtgInv, Usb!InitStep
  PROVE  OtgInv'
<1>0. PICK n \in 1..8 : n = otgStep
  BY DEF Usb!InitStep, OtgInv, OtgTyped
<1>1. PICK s : n = otgStep /\ s = Usb!Steps[n]
  BY <1>0
<1>2. /\ otgPc = "init" /\ Usb!Possible(s) /\ Usb!Started(s) /\ otgAlive' = Usb!Obtained(s)
      /\ otgStep' = (n % 8) + 1
      /\ otgPc' = IF s = "screen" THEN "loop" ELSE "init"
      /\ UNCHANGED <<usbList, wantedSerial, hotplug, exitCode, usbStopped, wake, present, leaving,
                     notified, otgEvents>>
  BY <1>1, StepsAre DEF Usb!InitStep, Usb!options, Usb!usb
<1>3. s = "screen" <=> n = 8
  BY <1>1, StepsAre
<1>4. n < 8 => otgStep' = n + 1
  BY <1>2
<1>5. n = 8 => otgStep' = 1
  BY <1>2
<1>6. /\ s = "handle" <=> n = 3
      /\ s = "aoa_start" <=> n = 7
      /\ s = "device" <=> n = 2
  BY <1>1, StepsAre
<1>7. /\ evThread' \in {"off", "checking"} \/ evThread' = evThread
      /\ n # 3 => evThread' = evThread
      /\ usbAoaThread' = IF n = 7 THEN "running" ELSE usbAoaThread
  BY <1>2, <1>6 DEF Usb!Started, Usb!Watched
<1>8. otgAlive = {Usb!Steps[k] : k \in 1..(n - 1)} \ {"aoa_start"}
  BY <1>1, <1>2 DEF OtgInv, Opened
<1>9. otgAlive' = IF n = 7 THEN otgAlive
                  ELSE IF n = 8 THEN (otgAlive \cup {"screen"}) \ {"device"}
                  ELSE otgAlive \cup {s}
  BY <1>2, <1>3, <1>6 DEF Usb!Obtained
<1>10. /\ s \in {"usb", "device", "handle", "aoa", "keyboard", "mouse", "aoa_start", "screen"}
       /\ n \notin {7, 8} => s # "aoa_start" /\ s # "screen"
  BY <1>1, StepsAre
<1>11. OtgTyped'
  <2>1. /\ otgPc' \in {"init", "loop", "cleanup", "exited"} /\ otgPc' # "cleanup"
        /\ otgPc' = "init" => otgStep' \in 1..8
        /\ otgPc' = "loop" => otgStep' = 1
    BY <1>2, <1>3, <1>4, <1>5
  <2>2. otgAlive' \subseteq {"usb", "device", "handle", "aoa", "keyboard", "mouse", "screen"}
    <3>1. otgAlive \subseteq {"usb", "device", "handle", "aoa", "keyboard", "mouse", "screen"}
      BY DEF OtgInv, OtgTyped
    <3> QED BY <1>9, <1>10, <3>1
  <2>3. /\ evThread' \in {"off", "checking", "blocked", "callback", "ended"}
        /\ usbAoaThread' \in {"off", "running", "ended"}
    BY <1>7 DEF OtgInv, OtgTyped
  <2> QED BY <1>2, <2>1, <2>2, <2>3 DEF OtgInv, OtgTyped
<1>12. Opened'
  <2>1. n < 8 => otgAlive' = {Usb!Steps[k] : k \in 1..n} \ {"aoa_start"}
    <3>1. {Usb!Steps[k] : k \in 1..n} = {Usb!Steps[k] : k \in 1..(n - 1)} \cup {s}
      BY <1>1
    <3>2. n = 7 => s = "aoa_start"
      BY <1>6
    <3>3. n < 7 => s # "aoa_start"
      BY <1>6
    <3> QED BY <1>8, <1>9, <3>1, <3>2, <3>3
  <2>2. n >= 3 => {"handle", "usb"} \subseteq otgAlive'
    <3>1. n > 3 => {Usb!Steps[1], Usb!Steps[3]} \subseteq otgAlive
      BY <1>8, StepsAre
    <3>2. n = 3 => Usb!Steps[1] \in otgAlive
      BY <1>8, StepsAre
    <3> QED BY <1>6, <1>9, <3>1, <3>2, StepsAre
  <2>3. n >= 7 => "aoa" \in otgAlive'
    <3>1. n >= 7 => Usb!Steps[4] \in otgAlive
      BY <1>8, StepsAre
    <3> QED BY <1>9, <3>1, StepsAre
  <2>4. /\ n <= 3 => evThread = "off"
        /\ n <= 7 => usbAoaThread = "off"
    BY <1>1, <1>2 DEF OtgInv, Opened
  <2>5. otgPc' = "init" <=> n < 8
    BY <1>2, <1>3
  <2> QED BY <1>2, <1>3, <1>4, <1>5, <1>7, <2>1, <2>2, <2>3, <2>4, <2>5 DEF Opened
<1>13. OneSelected'
  <2>1. n = 2 => Usb!Possible("device")
    BY <1>2, <1>6
  <2>2. Usb!Possible("device") => Usb!Possible("device")'
    BY <1>2 DEF Usb!Possible, Usb!Selected
  <2> QED BY <1>1, <1>2, <1>3, <1>4, <1>5, <2>1, <2>2 DEF OtgInv, OneSelected
<1>14. ReportedOnce'
  BY <1>2 DEF OtgInv, ReportedOnce, Reporting
<1> QED BY <1>11, <1>12, <1>13, <1>14 DEF OtgInv

(* The cleanup begins: everything that may be open has its turn.           *)
LEMMA OtgCleanupBegins ==
  ASSUME OtgInv, otgPc \in {"init", "loop"}, otgPc' = "cleanup", otgStep' = 1,
         UNCHANGED <<otgAlive, evThread, usbAoaThread>>
  PROVE  Opened'
<1>1. otgAlive \subseteq {"usb", "device", "handle", "aoa", "keyboard", "mouse", "screen"}
  BY DEF OtgInv, OtgTyped
<1>2. \A o \in otgAlive : \E k \in 1..11 : Usb!OtgCleanup[k] = o
  BY <1>1, OtgCleanupIs
<1> QED BY <1>2 DEF OtgInv, Opened

LEMMA OtgInitFailsKeeps ==
  ASSUME OtgInv, Usb!InitFails
  PROVE  OtgInv'
<1> USE DEF Usb!InitFails, Usb!options, Usb!threads, Usb!usb
<1>1. otgPc = "init" /\ otgStep \in 1..8 /\ (otgPc' = "exited" => otgStep = 1)
  BY StepsAre DEF OtgInv, OtgTyped
<1>2. Opened'
  <2>1. CASE otgPc' = "cleanup"
    BY <2>1, OtgCleanupBegins
  <2>2. CASE otgPc' = "exited"
    <3>1. otgAlive = {} /\ evThread = "off" /\ usbAoaThread = "off"
      BY <1>1, <2>2 DEF OtgInv, Opened
    <3> QED BY <2>2, <3>1 DEF Opened
  <2> QED BY <2>1, <2>2
<1>3. OtgTyped' /\ ReportedOnce'
  BY <1>1 DEF OtgInv, OtgTyped, ReportedOnce, Reporting
<1>4. OneSelected'
  BY <1>1 DEF OtgInv, OneSelected, Usb!Possible, Usb!Selected
<1> QED BY <1>2, <1>3, <1>4 DEF OtgInv

LEMMA OtgLoopEnds ==
  ASSUME OtgInv, Usb!EventLoop \/ Usb!UserQuits
  PROVE  OtgInv'
<1> USE DEF Usb!EventLoop, Usb!UserQuits, Usb!options, Usb!threads, Usb!usb
<1>1. otgPc = "loop" /\ otgPc' = "cleanup" /\ otgStep' = 1
  BY DEF OtgInv, OtgTyped
<1>2. Opened'
  BY <1>1, OtgCleanupBegins
<1>3. PICK ev \in Seq({"disconnected", "failure"}) : ev = otgEvents
  BY DEF OtgInv, OtgTyped
<1>4. otgEvents' = ev \/ (ev # <<>> /\ otgEvents' = Tail(ev))
  BY <1>3
<1>5. /\ otgEvents' \in Seq({"disconnected", "failure"})
      /\ \/ \A i \in 1..Len(otgEvents') : i \in 1..Len(ev) /\ otgEvents'[i] = ev[i]
         \/ \A i \in 1..Len(otgEvents') : i + 1 \in 1..Len(ev) /\ otgEvents'[i] = ev[i + 1]
  <2>1. ev # <<>> => /\ Tail(ev) \in Seq({"disconnected", "failure"})
                     /\ \A i \in 1..Len(Tail(ev)) : i + 1 \in 1..Len(ev) /\ Tail(ev)[i] = ev[i + 1]
    OBVIOUS
  <2> QED BY <1>4, <2>1
<1>6. OtgTyped'
  <2>1. UNCHANGED <<otgAlive, evThread, usbAoaThread, notified>>
    OBVIOUS
  <2> QED BY <1>1, <1>5, <2>1 DEF OtgInv, OtgTyped
<1>7. ReportedOnce'
  <2>1. \A i, j \in 1..Len(ev) : ev[i] = "disconnected" /\ ev[j] = "disconnected" => i = j
    BY <1>3 DEF OtgInv, ReportedOnce, Reporting
  <2>2. ~notified => \A i \in 1..Len(ev) : ev[i] # "disconnected"
    BY <1>3 DEF OtgInv, ReportedOnce
  <2>3. Reporting'
    <3>1. CASE \A i \in 1..Len(otgEvents') : i \in 1..Len(ev) /\ otgEvents'[i] = ev[i]
      BY <2>1, <3>1 DEF Reporting
    <3>2. CASE \A i \in 1..Len(otgEvents') : i + 1 \in 1..Len(ev) /\ otgEvents'[i] = ev[i + 1]
      <4> SUFFICES ASSUME NEW i \in 1..Len(otgEvents'), NEW j \in 1..Len(otgEvents'),
                          otgEvents'[i] = "disconnected", otgEvents'[j] = "disconnected"
                   PROVE  i = j
        BY DEF Reporting
      <4>1. i + 1 = j + 1
        BY <2>1, <3>2
      <4> QED BY <4>1
    <3> QED BY <1>5, <3>1, <3>2
  <2> QED BY <1>5, <2>2, <2>3 DEF ReportedOnce
<1>8. OneSelected'
  BY <1>1 DEF OtgInv, OneSelected, Usb!Possible, Usb!Selected
<1> QED BY <1>2, <1>6, <1>7, <1>8 DEF OtgInv

LEMMA OtgCleanupKeeps ==
  ASSUME OtgInv, Usb!CleanupStep
  PROVE  OtgInv'
<1>0. PICK n \in 1..11 : n = otgStep
  BY DEF Usb!CleanupStep, OtgInv, OtgTyped
<1>1. PICK op : n = otgStep /\ op = Usb!OtgCleanup[n]
  BY <1>0
<1>2. /\ otgPc = "cleanup" /\ otgAlive' = otgAlive \ {op}
      /\ n = 5 => usbAoaThread # "running"
      /\ n = 7 => evThread \in {"off", "ended"}
      /\ IF n = 11 THEN otgPc' = "exited" /\ otgStep' = n ELSE otgStep' = n + 1 /\ otgPc' = otgPc
      /\ UNCHANGED <<usbList, wantedSerial, hotplug, exitCode, evThread, usbAoaThread, notified, otgEvents>>
  BY <1>1, OtgCleanupIs DEF Usb!CleanupStep, Usb!Joinable, Usb!options, Usb!threads
<1>3. /\ n <= 6 => op # "handle" /\ op # "usb"
      /\ n <= 4 => op # "aoa"
  BY <1>1, OtgCleanupIs
<1>4. OtgTyped'
  <2>1. /\ otgPc' \in {"init", "loop", "cleanup", "exited"} /\ otgPc' # "init" /\ otgPc' # "loop"
        /\ otgPc' = "cleanup" => otgStep' \in 1..11
    BY <1>1, <1>2
  <2>2. otgAlive' \subseteq otgAlive
    BY <1>2
  <2> QED BY <1>2, <2>1, <2>2 DEF OtgInv, OtgTyped
<1>5. Opened'
  <2>1. evThread \notin {"off", "ended"} => n <= 6 /\ {"handle", "usb"} \subseteq otgAlive'
    BY <1>1, <1>2, <1>3 DEF OtgInv, Opened
  <2>2. usbAoaThread = "running" => n <= 4 /\ {"handle", "usb", "aoa"} \subseteq otgAlive'
    BY <1>1, <1>2, <1>3 DEF OtgInv, Opened
  <2>3. \A o \in otgAlive' : \E k \in (n + 1)..11 : Usb!OtgCleanup[k] = o
    <3> SUFFICES ASSUME NEW o \in otgAlive' PROVE \E k \in (n + 1)..11 : Usb!OtgCleanup[k] = o
      OBVIOUS
    <3>1. o \in otgAlive /\ o # op
      BY <1>2
    <3>2. PICK k \in n..11 : Usb!OtgCleanup[k] = o
      BY <1>1, <1>2, <3>1 DEF OtgInv, Opened
    <3>3. k # n
      BY <1>1, <3>1, <3>2
    <3> QED BY <3>2, <3>3
  <2>4. n = 11 => otgAlive' = {}
    BY <2>3
  <2> QED BY <1>1, <1>2, <2>1, <2>2, <2>3, <2>4 DEF Opened
<1>6. OneSelected' /\ ReportedOnce'
  BY <1>2 DEF OtgInv, OneSelected, ReportedOnce, Reporting, Usb!Possible, Usb!Selected
<1> QED BY <1>4, <1>5, <1>6 DEF OtgInv

(* A report enters the queue once.                                         *)
LEMMA ReportKeeps ==
  ASSUME OtgInv, \/ Usb!Report
                 \/ otgEvents = <<>> /\ otgEvents' = <<"failure">> /\ notified' = notified
  PROVE  /\ otgEvents' \in Seq({"disconnected", "failure"}) /\ notified' \in BOOLEAN
         /\ ReportedOnce'
<1>1. PICK ev \in Seq({"disconnected", "failure"}) : ev = otgEvents
  BY DEF OtgInv, OtgTyped
<1>2. CASE otgEvents' = ev /\ notified' \in BOOLEAN /\ (notified => notified')
  BY <1>1, <1>2 DEF OtgInv, ReportedOnce, Reporting
<1>3. CASE otgEvents' = <<"failure">> /\ notified' = notified
  BY <1>3 DEF OtgInv, OtgTyped, ReportedOnce, Reporting
<1>4. CASE otgEvents' = Append(ev, "disconnected") /\ notified' = TRUE /\ ~notified
  <2>1. /\ Append(ev, "disconnected") \in Seq({"disconnected", "failure"})
        /\ Len(Append(ev, "disconnected")) = Len(ev) + 1
        /\ \A i \in 1..Len(ev) : Append(ev, "disconnected")[i] = ev[i]
    OBVIOUS
  <2>2. \A i \in 1..Len(ev) : ev[i] # "disconnected"
    BY <1>1, <1>4 DEF OtgInv, ReportedOnce
  <2>3. \A i \in 1..(Len(ev) + 1) : otgEvents'[i] = "disconnected" => i = Len(ev) + 1
    BY <1>4, <2>1, <2>2
  <2> QED BY <1>4, <2>1, <2>3 DEF ReportedOnce, Reporting
<1> QED BY <1>1, <1>2, <1>3, <1>4 DEF Usb!Report, OtgInv, OtgTyped

LEMMA OtgThreadsKeep ==
  ASSUME OtgInv,
         \/ Usb!CheckStopped \/ Usb!HandleEvents \/ Usb!Callback \/ Usb!Transfer \/ Usb!OpenFails
         \/ Usb!AoaEnds \/ Usb!Unplug
  PROVE  OtgInv'
<1>1. /\ UNCHANGED <<usbList, wantedSerial, hotplug, otgPc, otgStep, exitCode, otgAlive>>
      /\ \/ evThread' = evThread
         \/ evThread \notin {"off", "ended"} /\ evThread' \in {"checking", "blocked", "callback", "ended"}
      /\ usbAoaThread' = usbAoaThread \/ usbAoaThread' = "ended"
  BY DEF Usb!CheckStopped, Usb!HandleEvents, Usb!Callback, Usb!Transfer, Usb!OpenFails,
     Usb!AoaEnds, Usb!Unplug, Usb!options, Usb!threads
<1>2. \/ UNCHANGED <<notified, otgEvents>>
      \/ Usb!Report
      \/ otgEvents = <<>> /\ otgEvents' = <<"failure">> /\ notified' = notified
  BY DEF Usb!CheckStopped, Usb!HandleEvents, Usb!Callback, Usb!Transfer, Usb!OpenFails,
     Usb!AoaEnds, Usb!Unplug, Usb!usb
<1>3. /\ otgEvents' \in Seq({"disconnected", "failure"}) /\ notified' \in BOOLEAN
      /\ ReportedOnce'
  <2>1. CASE UNCHANGED <<notified, otgEvents>>
    BY <2>1 DEF OtgInv, OtgTyped, ReportedOnce, Reporting
  <2> QED BY <1>2, <2>1, ReportKeeps
<1>4. OtgTyped'
  BY <1>1, <1>3 DEF OtgInv, OtgTyped
<1>5. Opened'
  <2>1. otgPc = "init" /\ otgStep <= 7 => usbAoaThread' = "off"
    <3>1. usbAoaThread = "off" => usbAoaThread' = "off"
      BY DEF Usb!CheckStopped, Usb!HandleEvents, Usb!Callback, Usb!Transfer, Usb!OpenFails,
         Usb!AoaEnds, Usb!Unplug, Usb!threads
    <3> QED BY <3>1 DEF OtgInv, Opened
  <2> QED BY <1>1, <2>1 DEF OtgInv, Opened, OtgTyped
<1>6. OneSelected'
  BY <1>1 DEF OtgInv, OneSelected, Usb!Possible, Usb!Selected
<1> QED BY <1>3, <1>4, <1>5, <1>6 DEF OtgInv

LEMMA NextOtg == OtgInv /\ [Usb!Next]_otgVars => OtgInv'
<1> SUFFICES ASSUME OtgInv, [Usb!Next]_otgVars PROVE OtgInv'
  OBVIOUS
<1>1. CASE UNCHANGED otgVars
  BY <1>1 DEF otgVars, OtgInv, OtgTyped, Opened, OneSelected, ReportedOnce, Reporting,
     Usb!Possible, Usb!Selected
<1>2. CASE Usb!MainThread \/ Usb!UserQuits
  BY <1>2, OtgInitStepKeeps, OtgInitFailsKeeps, OtgLoopEnds, OtgCleanupKeeps DEF Usb!MainThread
<1>3. CASE Usb!EventThread \/ Usb!Transfer \/ Usb!OpenFails \/ Usb!AoaEnds \/ Usb!Unplug
  BY <1>3, OtgThreadsKeep DEF Usb!EventThread
<1> QED BY <1>1, <1>2, <1>3 DEF Usb!Next

LEMMA OtgOwns == OtgInv => Usb!OtgOwnership
<1> SUFFICES ASSUME OtgInv PROVE Usb!OtgOwnership
  OBVIOUS
<1>1. DOMAIN otgEvents = 1..Len(otgEvents)
  BY DEF OtgInv, OtgTyped
<1>2. \A i, j \in DOMAIN otgEvents :
        otgEvents[i] = "disconnected" /\ otgEvents[j] = "disconnected" => i = j
  BY <1>1 DEF OtgInv, ReportedOnce, Reporting
<1>3. /\ evThread = "callback" => {"handle", "usb"} \subseteq otgAlive
      /\ evThread \notin {"off", "ended"} => "usb" \in otgAlive
      /\ usbAoaThread = "running" => {"handle", "usb", "aoa"} \subseteq otgAlive
      /\ otgPc = "exited" =>
           otgAlive = {} /\ usbAoaThread # "running" /\ evThread \in {"off", "ended"}
  <2>1. evThread = "callback" => evThread \notin {"off", "ended"}
    OBVIOUS
  <2> QED BY <2>1 DEF OtgInv, Opened
<1> QED BY <1>2, <1>3 DEF OtgInv, OneSelected, Usb!Possible, Usb!OtgOwnership

-----------------------------------------------------------------------------
(* The choice of the device.                                               *)
DeviceAt == {k \in 1..Len(output) : output[k].kind = "device"}

(* Each device listed, and none else, was parsed once.                     *)
Parsed(f) ==
  /\ f \in [1..Len(vec) -> DeviceAt]
  /\ \A i, j \in 1..Len(vec) : f[i] = f[j] => i = j
  /\ \A k \in DeviceAt : \E i \in 1..Len(vec) : f[i] = k
  /\ \A i \in 1..Len(vec) :
       vec[i].serial = output[f[i]].serial /\ vec[i].state = output[f[i]].state

Lines == Devices!Garbage \cup {Devices!Header} \cup Devices!DeviceLines

DevicesTyped ==
  /\ output \in Seq(Lines)
  /\ vec \in Seq([serial : AdbSerials, state : Devices!StateWords, model : BOOLEAN])
  /\ routes \in Seq(Devices!Routes)

Listed ==
  /\ headerFound \in BOOLEAN
  /\ ~headerFound => DeviceAt = {}
  /\ ~lost => \E f \in [1..Len(vec) -> DeviceAt] : Parsed(f)

(* What was selected is what was meant, of a list read whole.              *)
Chosen ==
  choice.outcome # "none" /\ ~lost =>
    /\ choice.outcome = "selected" <=>
         Devices!Single(Devices!Meant) /\ \A d \in Devices!Meant : d.state = "device"
    /\ choice.outcome = "selected" =>
         \A d \in Devices!Meant :
           choice.device.serial = d.serial /\ choice.device.state = d.state

AddressRead == ip \notin {"unread", "failed"} => ip = Devices!ParseIp(routes)

DevicesInv == DevicesTyped /\ Listed /\ Chosen /\ AddressRead

LEMMA TuplesAreSeqs ==
  ASSUME NEW S, NEW a \in S, NEW b \in S, NEW c \in S, NEW d \in S
  PROVE  /\ <<a>> \in Seq(S) /\ Len(<<a>>) = 1
         /\ <<a, b>> \in Seq(S) /\ Len(<<a, b>>) = 2
         /\ <<a, b, c, d>> \in Seq(S) /\ Len(<<a, b, c, d>>) = 4
OBVIOUS

LEMMA Concatenated == \A a, b, c : <<a>> \o <<b, c>> = <<a, b, c>>
<1> SUFFICES ASSUME NEW a, NEW b, NEW c PROVE <<a>> \o <<b, c>> = <<a, b, c>>
  OBVIOUS
<1> DEFINE S == {a, b, c}
<1>1. <<a>> \in Seq(S) /\ <<b, c>> \in Seq(S) /\ <<a, b, c>> \in Seq(S)
  OBVIOUS
<1>2. Len(<<a>>) = 1 /\ Len(<<b, c>>) = 2 /\ Len(<<a, b, c>>) = 3
  OBVIOUS
<1>3. /\ <<a>> \o <<b, c>> \in Seq(S) /\ Len(<<a>> \o <<b, c>>) = 3
      /\ \A i \in 1..3 : (<<a>> \o <<b, c>>)[i] = <<a, b, c>>[i]
  BY <1>1, <1>2, ConcatProperties
<1> HIDE DEF S
<1> QED BY <1>1, <1>2, <1>3, SeqEqual

(* The words of a line of a device.                                        *)
Word ==
  {"0123", "my", "device", "ip:5555", "ip:5556", "emulator-5554", "adb", "(2)._adb-tls-connect",
   "unauthorized", "offline", "usb:2-1", "model:", "transport_id:1"}

(* The serials: no word of theirs is taken for another part of a line.     *)
LEMMA SerialsAre ==
  ASSUME NEW s \in AdbSerials
  PROVE  /\ s \in Seq(Word) /\ Len(s) \in {1, 2}
         /\ s[1] # "*" /\ (s[1] = "adb" => Len(s) = 2 /\ s[2] # "server")
         /\ Len(s) = 1 => s = <<s[1]>> /\ s[1] \notin Devices!StateWords
         /\ Len(s) = 2 => /\ s[1] \notin {"ip:5555", "ip:5556"} /\ s[2] \notin {"ip:5555", "ip:5556"}
                          /\ s \in {<<"my", "device">>, <<"adb", "(2)._adb-tls-connect">>}
<1>1. \A u \in Word : <<u>> \in Seq(Word) /\ Len(<<u>>) = 1
  BY TuplesAreSeqs
<1>2. \A u, v \in Word : <<u, v>> \in Seq(Word) /\ Len(<<u, v>>) = 2
  BY TuplesAreSeqs
<1>3. CASE s \in {<<"0123">>, <<"ip:5555">>, <<"ip:5556">>, <<"emulator-5554">>}
  <2>1. PICK u \in {"0123", "ip:5555", "ip:5556", "emulator-5554"} : s = <<u>>
    BY <1>3
  <2>2. s \in Seq(Word) /\ Len(s) = 1
    BY <1>1, <2>1 DEF Word
  <2> QED BY <2>1, <2>2 DEF Devices!StateWords
<1>4. CASE s = <<"my", "device">>
  <2>1. s \in Seq(Word) /\ Len(s) = 2
    BY <1>2, <1>4 DEF Word
  <2>2. s[1] = "my" /\ s[2] = "device"
    BY <1>4
  <2> QED BY <1>4, <2>1, <2>2
<1>5. CASE s = <<"adb", "(2)._adb-tls-connect">>
  <2>1. s \in Seq(Word) /\ Len(s) = 2
    BY <1>2, <1>5 DEF Word
  <2>2. s[1] = "adb" /\ s[2] = "(2)._adb-tls-connect"
    BY <1>5
  <2> QED BY <1>5, <2>1, <2>2
<1> QED BY <1>3, <1>4, <1>5 DEF AdbSerials

(* How a line is parsed: one of a device gives the device, the others none.*)
LEMMA DeviceLineParsed ==
  ASSUME NEW l \in Devices!DeviceLines, l.kind = "device"
  PROVE  Devices!ParseDevice(Devices!Words(l))
           = {[serial |-> l.serial, state |-> l.state, model |-> TRUE]}
<1> DEFINE s == l.serial
           tail == <<l.state, "usb:2-1", "model:", "transport_id:1">>
           w == s \o tail
<1>1. s \in AdbSerials /\ l.state \in Devices!StateWords
  BY DEF Devices!DeviceLines
<1>2. s \in Seq(Word) /\ Len(s) \in {1, 2}
  BY <1>1, SerialsAre
<1>3. Devices!Words(l) = w
  BY DEF Devices!Words
<1>4. tail \in Seq(Word) /\ Len(tail) = 4
  <2>1. l.state \in Word /\ "usb:2-1" \in Word /\ "model:" \in Word /\ "transport_id:1" \in Word
    BY <1>1 DEF Devices!StateWords, Word
  <2> QED BY <2>1, TuplesAreSeqs
<1>5. /\ w \in Seq(Word) /\ Len(w) = Len(s) + 4
      /\ \A i \in 1..Len(s) : w[i] = s[i]
      /\ w[Len(s) + 1] = l.state /\ w[Len(s) + 2] = "usb:2-1"
      /\ w[Len(s) + 3] = "model:" /\ w[Len(s) + 4] = "transport_id:1"
  <2>1. /\ w \in Seq(Word) /\ Len(w) = Len(s) + 4
        /\ \A i \in 1..Len(s) : w[i] = s[i]
        /\ \A i \in 1..4 : w[Len(s) + i] = tail[i]
    BY <1>2, <1>4
  <2> QED BY <2>1
<1> HIDE DEF tail, w
<1> DEFINE known == {i \in 1..Len(w) : w[i] \in Devices!StateWords}
<1>6. Len(s) + 1 \in known /\ \A j \in known : j <= Len(s) + 1
  BY <1>1, <1>2, <1>5 DEF Devices!StateWords
<1>7. Devices!StateAt(w) = Len(s) + 1
  <2>1. (CHOOSE i \in known : \A j \in known : j <= i) = Len(s) + 1
    <3>1. \A i \in known : (\A j \in known : j <= i) => i = Len(s) + 1
      BY <1>6, <1>2, <1>5
    <3> HIDE DEF known
    <3> QED BY <1>6, <3>1
  <2> QED BY <1>6, <2>1 DEF Devices!StateAt
<1>8. SubSeq(w, 1, (Len(s) + 1) - 1) = s
  BY <1>2, <1>5
<1>9. ~(w[1] = "*" \/ (w[1] = "adb" /\ w[2] = "server") \/ Len(s) + 1 <= 1)
  <2>1. w[1] = s[1] /\ (Len(s) = 2 => w[2] = s[2])
    BY <1>2, <1>5 DEF Word
  <2>2. w[1] # "*"
    BY <1>1, <2>1, SerialsAre
  <2>3. ~(w[1] = "adb" /\ w[2] = "server")
    BY <1>1, <2>1, SerialsAre
  <2>4. ~(Len(s) + 1 <= 1)
    <3>1. \A n \in {1, 2} : ~(n + 1 <= 1)
      OBVIOUS
    <3> QED BY <1>2, <3>1, Zenon
  <2> QED BY <2>2, <2>3, <2>4, Zenon
<1>10. (\E i \in ((Len(s) + 1) + 1)..Len(w) : w[i] = "model:") = TRUE
  <2>1. Len(s) + 3 \in ((Len(s) + 1) + 1)..Len(w)
    BY <1>2, <1>5
  <2> QED BY <1>5, <2>1
<1>11. Devices!ParseDevice(w) = {[serial |-> s, state |-> l.state, model |-> TRUE]}
  BY <1>5, <1>7, <1>8, <1>9, <1>10 DEF Devices!ParseDevice
<1> QED BY <1>3, <1>11

LEMMA OtherLineParsed ==
  ASSUME NEW l \in Lines, l.kind # "device"
  PROVE  l.kind # "header" => Devices!ParseDevice(Devices!Words(l)) = {}
<1>1. CASE l.kind = "daemon"
  BY <1>1 DEF Devices!Words, Devices!ParseDevice
<1>2. CASE l.kind = "server"
  BY <1>2 DEF Devices!Words, Devices!ParseDevice
<1>3. CASE l.kind = "denied"
  <2>1. l.serial \in AdbSerials /\ Len(l.serial) = 1
    BY <1>3 DEF Lines, Devices!DeviceLines, Devices!Garbage, Devices!Header
  <2>2. l.serial = <<l.serial[1]>> /\ l.serial[1] \notin Devices!StateWords
    BY <2>1, SerialsAre
  <2>3. PICK u : u = l.serial[1]
    OBVIOUS
  <2>4. Devices!Words(l) = <<u, "no", "permissions">>
    <3>1. <<u>> \o <<"no", "permissions">> = <<u, "no", "permissions">>
      BY Concatenated
    <3>2. Devices!Words(l) = l.serial \o <<"no", "permissions">>
      BY <1>3 DEF Devices!Words
    <3> QED BY <2>2, <2>3, <3>1, <3>2
  <2>5. {i \in 1..Len(<<u, "no", "permissions">>) : <<u, "no", "permissions">>[i] \in Devices!StateWords} = {}
    BY <2>2, <2>3 DEF Devices!StateWords
  <2>6. Devices!StateAt(Devices!Words(l)) = 0
    BY <2>4, <2>5 DEF Devices!StateAt
  <2> QED BY <2>6 DEF Devices!ParseDevice
<1> QED BY <1>1, <1>2, <1>3 DEF Lines, Devices!DeviceLines, Devices!Garbage, Devices!Header

(* A device is over USB if no word of its serial says otherwise.           *)
LEMMA TypeIs ==
  ASSUME NEW s \in AdbSerials
  PROVE  (Devices!Type(s) = "usb") <=> ~Devices!OverNetwork(s)
<1>1. s \in Seq(Word) /\ Len(s) \in {1, 2}
  BY SerialsAre
<1>2. DOMAIN s = 1..Len(s) /\ 1 \in DOMAIN s
  BY <1>1
<1>3. \A i \in DOMAIN s : s[i] \in Emulators => i = 1
  <2>1. \A i \in 2..Len(s) : s[i] \notin Emulators
    BY AdbAssumption
  <2>2. \A i \in DOMAIN s : i = 1 \/ i \in 2..Len(s)
    BY <1>1, <1>2
  <2> QED BY <2>1, <2>2
<1>4. Devices!OverNetwork(s) <=>
        s[1] \in Emulators \/ Devices!Colon(s) # {} \/ \E i \in DOMAIN s : s[i] \in TlsConnect
  BY <1>2, <1>3 DEF Devices!OverNetwork, Devices!Colon
<1> QED BY <1>4 DEF Devices!Type

(* A request names a device by its serial or by its address.               *)
LEMMA NamedIs ==
  ASSUME NEW r \in AdbRequests, NEW s \in AdbSerials
  PROVE  Devices!Named(r, s) <=>
           \/ s = r
           \/ Len(s) = 1 /\ s[1] \in DOMAIN HostOf /\ r = <<HostOf[s[1]]>>
<1>1. s \in Seq(Word) /\ Len(s) \in {1, 2} /\ DOMAIN s = 1..Len(s)
  BY SerialsAre
<1>2. DOMAIN HostOf = {"ip:5555", "ip:5556"} /\ \A h \in DOMAIN HostOf : HostOf[h] = "ip"
  BY DEF HostOf
<1>3. Devices!Colon(s) = {i \in DOMAIN s : s[i] \in {"ip:5555", "ip:5556"}}
  BY <1>2 DEF Devices!Colon
<1>4. CASE Len(s) = 2
  <2>1. s[1] \notin {"ip:5555", "ip:5556"} /\ s[2] \notin {"ip:5555", "ip:5556"}
    BY <1>4, SerialsAre
  <2>2. Devices!Colon(s) = {}
    BY <1>1, <1>3, <1>4, <2>1
  <2> QED BY <1>4, <2>2 DEF Devices!Named
<1>5. CASE Len(s) = 1 /\ s[1] \notin {"ip:5555", "ip:5556"}
  <2>1. Devices!Colon(s) = {}
    BY <1>1, <1>3, <1>5
  <2> QED BY <1>2, <1>5, <2>1 DEF Devices!Named
<1>6. CASE Len(s) = 1 /\ s[1] \in {"ip:5555", "ip:5556"}
  <2>1. Devices!Colon(s) = {1}
    BY <1>1, <1>3, <1>6
  <2>2. (CHOOSE i \in Devices!Colon(s) : \A j \in Devices!Colon(s) : i <= j) = 1
    BY <2>1
  <2>3. Devices!IpPart(s) = <<"ip">>
    <3>1. SubSeq(s, 1, 1 - 1) = <<>>
      BY <1>1
    <3>2. Devices!IpPart(s) = Append(SubSeq(s, 1, 1 - 1), "ip")
      BY <1>2, <1>6, <2>2 DEF Devices!IpPart
    <3>3. \A a : Append(<<>>, a) = <<a>>
      OBVIOUS
    <3> QED BY <3>1, <3>2, <3>3, Zenon
  <2>4. s = <<s[1]>>
    BY <1>6, SerialsAre
  <2>5. CASE r = <<"ip">>
    <3>1. DOMAIN r = {1} /\ r[1] = "ip"
      BY <2>5
    <3>2. Devices!Colon(r) = {}
      BY <1>2, <3>1 DEF Devices!Colon
    <3> QED BY <1>2, <1>6, <2>1, <2>3, <2>5, <3>2 DEF Devices!Named
  <2>6. CASE r = <<"ip:5555">>
    <3>1. DOMAIN r = {1} /\ r[1] = "ip:5555"
      BY <2>6
    <3>2. Devices!Colon(r) # {}
      BY <1>2, <3>1 DEF Devices!Colon
    <3>3. r # <<"ip">>
      BY <3>1
    <3> QED BY <1>2, <1>6, <3>2, <3>3 DEF Devices!Named
  <2>7. CASE r = <<"my", "device">>
    <3>1. DOMAIN r = {1, 2} /\ r[1] = "my" /\ r[2] = "device"
      BY <2>7
    <3>2. Devices!Colon(r) = {}
      BY <1>2, <3>1 DEF Devices!Colon
    <3>3. r # <<"ip">> /\ r # s
      BY <3>1, <2>4, <1>6
    <3> QED BY <1>2, <1>6, <2>1, <2>3, <3>2, <3>3 DEF Devices!Named
  <2> QED BY <2>5, <2>6, <2>7 DEF AdbRequests
<1> QED BY <1>1, <1>4, <1>5, <1>6

(* What the selection reads and what was meant, line by line.              *)
Entry(k) == [serial |-> output[k].serial, state |-> output[k].state, at |-> k]

LEMMA AttachedIs == Devices!Attached = {Entry(k) : k \in DeviceAt}
BY DEF Devices!Attached, Entry, DeviceAt, DevicesTyped

Corresponding(f, M, N) ==
  /\ M \subseteq 1..Len(vec) /\ N \subseteq Devices!Attached
  /\ \A i \in 1..Len(vec) : i \in M <=> Entry(f[i]) \in N

LEMMA SameSingle ==
  ASSUME NEW f, NEW M, NEW N, DevicesTyped, Parsed(f), Corresponding(f, M, N)
  PROVE  /\ Devices!Single(M) <=> Devices!Single(N)
         /\ \A i \in M : Entry(f[i]) \in N
         /\ \A d \in N : \E i \in M : d = Entry(f[i])
<1> USE DEF Corresponding
<1>1. \A i, j \in 1..Len(vec) : Entry(f[i]) = Entry(f[j]) => i = j
  BY DEF Parsed, Entry
<1>2. \A d \in N : \E i \in M : d = Entry(f[i])
  <2> SUFFICES ASSUME NEW d \in N PROVE \E i \in M : d = Entry(f[i])
    OBVIOUS
  <2>1. PICK k \in DeviceAt : d = Entry(k)
    BY AttachedIs
  <2>2. PICK i \in 1..Len(vec) : f[i] = k
    BY DEF Parsed
  <2> QED BY <2>1, <2>2
<1>3. \A i \in M : Entry(f[i]) \in N
  OBVIOUS
<1>4. ASSUME NEW i \in M, M = {i}
      PROVE  N = {Entry(f[i])}
  BY <1>2, <1>3, <1>4
<1>5. ASSUME NEW d \in N, N = {d}
      PROVE  \E i \in M : M = {i}
  <2>1. PICK i \in M : d = Entry(f[i])
    BY <1>2
  <2>2. \A j \in M : j = i
    BY <1>1, <1>3, <1>5, <2>1
  <2> QED BY <2>2
<1> QED BY <1>2, <1>3, <1>4, <1>5 DEF Devices!Single

LEMMA SelectMeans ==
  ASSUME NEW f, Parsed(f), DevicesTyped, NEW sel \in Devices!Selectors,
         selector' = sel, output' = output
  PROVE  /\ Devices!Matching(sel) \subseteq 1..Len(vec)
         /\ Devices!Meant' \subseteq Devices!Attached
         /\ \A i \in 1..Len(vec) : i \in Devices!Matching(sel) <=> Entry(f[i]) \in Devices!Meant'
<1>1. DOMAIN vec = 1..Len(vec) /\ \A i \in 1..Len(vec) : vec[i].serial \in AdbSerials
  <2>1. \A S : \A q \in Seq(S) : DOMAIN q = 1..Len(q) /\ \A i \in 1..Len(q) : q[i] \in S
    OBVIOUS
  <2>2. /\ DOMAIN vec = 1..Len(vec)
        /\ \A i \in 1..Len(vec) :
             vec[i] \in [serial : AdbSerials, state : Devices!StateWords, model : BOOLEAN]
    BY <2>1 DEF DevicesTyped
  <2> QED BY <2>2
<1>2. \A i \in 1..Len(vec) : /\ f[i] \in DeviceAt /\ Entry(f[i]) \in Devices!Attached
                              /\ Entry(f[i]).serial = vec[i].serial
  BY AttachedIs DEF Parsed, Entry
<1>3. Devices!Attached' = Devices!Attached
  BY DEF Devices!Attached
<1>4. \A i \in 1..Len(vec) :
        (Devices!Type(vec[i].serial) = "usb") <=> ~Devices!OverNetwork(Entry(f[i]).serial)
  BY <1>1, <1>2, TypeIs
<1>5. CASE sel.type = "all"
  <2>1. Devices!Matching(sel) = 1..Len(vec)
    BY <1>1, <1>5 DEF Devices!Matching, Devices!Accept
  <2>2. Devices!Meant' = Devices!Attached
    BY <1>3, <1>5 DEF Devices!Meant
  <2> QED BY <1>2, <2>1, <2>2
<1>6. CASE sel.type = "usb"
  <2>1. Devices!Matching(sel) = {i \in 1..Len(vec) : Devices!Type(vec[i].serial) = "usb"}
    BY <1>1, <1>6 DEF Devices!Matching, Devices!Accept
  <2>2. Devices!Meant' = {d \in Devices!Attached : ~Devices!OverNetwork(d.serial)}
    BY <1>3, <1>6 DEF Devices!Meant
  <2> QED BY <1>2, <1>4, <2>1, <2>2
<1>7. CASE sel.type = "tcpip"
  <2>1. Devices!Matching(sel) = {i \in 1..Len(vec) : Devices!Type(vec[i].serial) # "usb"}
    BY <1>1, <1>7 DEF Devices!Matching, Devices!Accept
  <2>2. Devices!Meant' = {d \in Devices!Attached : Devices!OverNetwork(d.serial)}
    BY <1>3, <1>7 DEF Devices!Meant
  <2> QED BY <1>2, <1>4, <2>1, <2>2
<1>8. CASE sel.type = "serial"
  <2>1. Devices!Matching(sel) = {i \in 1..Len(vec) : Devices!Named(sel.serial, vec[i].serial)}
    BY <1>1, <1>8 DEF Devices!Matching, Devices!Accept
  <2>2. Devices!Meant' =
          {d \in Devices!Attached : \/ d.serial = sel.serial
                                    \/ /\ Len(d.serial) = 1 /\ d.serial[1] \in DOMAIN HostOf
                                       /\ sel.serial = <<HostOf[d.serial[1]]>>}
    BY <1>3, <1>8 DEF Devices!Meant
  <2>3. sel.serial \in AdbRequests
    BY <1>8 DEF Devices!Selectors
  <2>4. ASSUME NEW i \in 1..Len(vec)
        PROVE  i \in Devices!Matching(sel) <=> Entry(f[i]) \in Devices!Meant'
    <3>1. PICK s \in AdbSerials : s = vec[i].serial
      BY <1>1
    <3>2. Devices!Named(sel.serial, s) <=>
            \/ s = sel.serial
            \/ Len(s) = 1 /\ s[1] \in DOMAIN HostOf /\ sel.serial = <<HostOf[s[1]]>>
      BY <2>3, NamedIs
    <3>3. Entry(f[i]) \in Devices!Attached /\ Entry(f[i]).serial = s
      BY <1>2, <3>1
    <3> QED BY <2>1, <2>2, <3>1, <3>2, <3>3
  <2> QED BY <2>1, <2>2, <2>4
<1>9. CASE sel.type = "tcpip_preferred"
  <2>1. Devices!OfType(FALSE) = {i \in 1..Len(vec) : Devices!Type(vec[i].serial) # "usb"}
    BY <1>1 DEF Devices!OfType
  <2>2. Devices!OfType(TRUE) = {i \in 1..Len(vec) : Devices!Type(vec[i].serial) = "usb"}
    BY <1>1 DEF Devices!OfType
  <2>3. Devices!Matching(sel) = IF Devices!OfType(FALSE) # {} THEN Devices!OfType(FALSE)
                                ELSE Devices!OfType(TRUE)
    BY <1>9 DEF Devices!Matching, Devices!Preferred
  <2>4. Devices!Meant' = IF \E d \in Devices!Attached : Devices!OverNetwork(d.serial)
                         THEN {d \in Devices!Attached : Devices!OverNetwork(d.serial)}
                         ELSE Devices!Attached
    BY <1>3, <1>9 DEF Devices!Meant
  <2>5. (\E d \in Devices!Attached : Devices!OverNetwork(d.serial)) <=>
          \E i \in 1..Len(vec) : Devices!Type(vec[i].serial) # "usb"
    <3>1. \A d \in Devices!Attached : \E i \in 1..Len(vec) : d = Entry(f[i])
      BY AttachedIs DEF Parsed
    <3> QED BY <1>2, <1>4, <3>1
  <2>6. CASE \E i \in 1..Len(vec) : Devices!Type(vec[i].serial) # "usb"
    <3>1. Devices!Matching(sel) = {i \in 1..Len(vec) : Devices!Type(vec[i].serial) # "usb"}
      BY <2>1, <2>3, <2>6
    <3>2. Devices!Meant' = {d \in Devices!Attached : Devices!OverNetwork(d.serial)}
      BY <2>4, <2>5, <2>6
    <3> QED BY <1>2, <1>4, <3>1, <3>2
  <2>7. CASE ~\E i \in 1..Len(vec) : Devices!Type(vec[i].serial) # "usb"
    <3>1. Devices!Matching(sel) = 1..Len(vec)
      BY <2>1, <2>2, <2>3, <2>7
    <3>2. Devices!Meant' = Devices!Attached
      BY <2>4, <2>5, <2>7
    <3> QED BY <1>2, <3>1, <3>2
  <2> QED BY <2>6, <2>7
<1> QED BY <1>5, <1>6, <1>7, <1>8, <1>9 DEF Devices!Selectors

LEMMA DevicesStart == Devices!Init => DevicesInv
<1> SUFFICES ASSUME Devices!Init PROVE DevicesInv
  OBVIOUS
<1>1. /\ output = <<>> /\ headerFound = FALSE /\ vec = <<>> /\ lost = FALSE
      /\ choice = [outcome |-> "none"] /\ routes = <<>> /\ ip = "unread"
  BY DEF Devices!Init
<1>2. \A S : <<>> \in Seq(S)
  OBVIOUS
<1>3. Len(output) = 0 /\ Len(vec) = 0
  BY <1>1
<1>4. DeviceAt = {}
  BY <1>3 DEF DeviceAt
<1>5. PICK f : f = [i \in 1..Len(vec) |-> 0]
  OBVIOUS
<1>6. Listed
  <2>1. f \in [1..Len(vec) -> DeviceAt]
    BY <1>3, <1>5
  <2>2. Parsed(f)
    BY <1>3, <1>4, <2>1 DEF Parsed
  <2> QED BY <1>1, <1>4, <2>1, <2>2 DEF Listed
<1>7. DevicesTyped
  BY <1>1, <1>2 DEF DevicesTyped
<1> QED BY <1>1, <1>6, <1>7 DEF DevicesInv, Chosen, AddressRead

(* A list is read line by line.                                            *)
LEMMA DevicesParse == DevicesInv /\ Devices!AdbPrints => DevicesInv'
<1> SUFFICES ASSUME DevicesInv, NEW l \in Devices!Garbage \cup (IF headerFound THEN Devices!DeviceLines
                                                               ELSE {Devices!Header}),
                    Devices!ParseLine(l)
             PROVE  DevicesInv'
  BY DEF Devices!AdbPrints
<1> DEFINE parsed == Devices!ParseDevice(Devices!Words(l))
<1>1. /\ choice.outcome = "none" /\ output' = Append(output, l)
      /\ headerFound' = (headerFound \/ l.kind = "header")
      /\ choice' = choice /\ routes' = routes /\ ip' = ip
  BY DEF Devices!ParseLine
<1>2. IF ~headerFound \/ parsed = {} THEN vec' = vec /\ lost' = lost
      ELSE \/ \E d \in parsed : vec' = Append(vec, d) /\ lost' = lost
           \/ lost' = TRUE /\ vec' = vec
  BY DEF Devices!ParseLine
<1>3. l \in Lines /\ (~headerFound => l.kind # "device") /\ (headerFound => l.kind # "header")
  BY DEF Lines, Devices!Garbage, Devices!Header, Devices!DeviceLines
<1>4. DevicesTyped /\ Listed /\ AddressRead
  BY DEF DevicesInv
<1>5. output' \in Seq(Lines) /\ Len(output') = Len(output) + 1 /\ output'[Len(output) + 1] = l
      /\ \A k \in 1..Len(output) : output'[k] = output[k]
  BY <1>1, <1>3, <1>4 DEF DevicesTyped
<1>6. DeviceAt' = DeviceAt \cup (IF l.kind = "device" THEN {Len(output) + 1} ELSE {})
  <2>1. Len(output) \in Nat
    BY <1>4 DEF DevicesTyped
  <2> QED BY <1>5, <2>1 DEF DeviceAt
<1>7. Len(output) + 1 \notin DeviceAt
  <2>1. Len(output) \in Nat
    BY <1>4 DEF DevicesTyped
  <2> QED BY <2>1 DEF DeviceAt
<1>8. Chosen' /\ AddressRead'
  BY <1>1, <1>4 DEF Chosen, AddressRead
<1>9. headerFound' \in BOOLEAN /\ (~headerFound' => DeviceAt' = {})
  BY <1>1, <1>3, <1>4, <1>6 DEF Listed
<1>10. CASE l.kind # "device"
  <2>1. vec' = vec /\ lost' = lost
    BY <1>2, <1>3, <1>10, OtherLineParsed
  <2>2. DevicesTyped'
    BY <1>1, <1>4, <1>5, <2>1 DEF DevicesTyped
  <2>3. ASSUME NEW f, Parsed(f)
        PROVE  Parsed(f)' /\ f \in [1..Len(vec') -> DeviceAt']
    <3>1. DeviceAt' = DeviceAt
      BY <1>6, <1>10
    <3>2. \A k \in DeviceAt : output'[k] = output[k]
      BY <1>5 DEF DeviceAt
    <3> QED BY <2>1, <2>3, <3>1, <3>2 DEF Parsed
  <2>4. ~lost' => \E f \in [1..Len(vec') -> DeviceAt'] : Parsed(f)'
    BY <1>4, <2>1, <2>3 DEF Listed
  <2> QED BY <1>8, <1>9, <2>2, <2>4 DEF DevicesInv, Listed
<1>11. CASE l.kind = "device"
  <2> DEFINE d == [serial |-> l.serial, state |-> l.state, model |-> TRUE]
  <2>1. headerFound /\ l \in Devices!DeviceLines
    BY <1>3, <1>11 DEF Devices!Garbage
  <2>2. parsed = {d}
    BY <1>11, <2>1, DeviceLineParsed
  <2>3. d \in [serial : AdbSerials, state : Devices!StateWords, model : BOOLEAN]
    BY <1>11, <2>1 DEF Devices!DeviceLines
  <2>4. CASE lost' = TRUE /\ vec' = vec
    BY <1>1, <1>4, <1>5, <1>8, <1>9, <2>4 DEF DevicesInv, DevicesTyped, Listed
  <2>5. CASE vec' = Append(vec, d) /\ lost' = lost
    <3>1. /\ vec' \in Seq([serial : AdbSerials, state : Devices!StateWords, model : BOOLEAN])
          /\ Len(vec) \in Nat /\ Len(vec') = Len(vec) + 1 /\ vec'[Len(vec) + 1] = d
          /\ \A i \in 1..Len(vec) : vec'[i] = vec[i]
      BY <1>4, <2>3, <2>5 DEF DevicesTyped
    <3> HIDE DEF d
    <3>2. DevicesTyped'
      BY <1>1, <1>4, <1>5, <3>1 DEF DevicesTyped
    <3>3. d.serial = l.serial /\ d.state = l.state
      BY DEF d
    <3>4. ASSUME NEW f \in [1..Len(vec) -> DeviceAt], Parsed(f)
          PROVE  \E g \in [1..Len(vec') -> DeviceAt'] : Parsed(g)'
      <4>0. PICK g : g = [i \in 1..Len(vec') |-> IF i = Len(vec) + 1 THEN Len(output) + 1 ELSE f[i]]
        OBVIOUS
      <4>1. \A i \in 1..Len(vec') : i \in 1..Len(vec) \/ i = Len(vec) + 1
        BY <3>1
      <4>2. g \in [1..Len(vec') -> DeviceAt']
        BY <1>6, <1>11, <4>0, <4>1
      <4>3. /\ \A i \in 1..Len(vec) : g[i] = f[i] /\ f[i] \in DeviceAt
            /\ g[Len(vec) + 1] = Len(output) + 1 /\ Len(vec) + 1 \in 1..Len(vec')
            /\ \A i \in 1..Len(vec) : i \in 1..Len(vec')
        BY <3>1, <4>0
      <4>4. \A i, j \in 1..Len(vec') : g[i] = g[j] => i = j
        BY <1>7, <3>4, <4>1, <4>3 DEF Parsed
      <4>5. \A k \in DeviceAt' : \E i \in 1..Len(vec') : g[i] = k
        BY <1>6, <1>11, <3>4, <4>3 DEF Parsed
      <4>6. \A i \in 1..Len(vec') :
              vec'[i].serial = output'[g[i]].serial /\ vec'[i].state = output'[g[i]].state
        <5>1. \A k \in DeviceAt : output'[k] = output[k]
          BY <1>5 DEF DeviceAt
        <5> QED BY <1>5, <3>1, <3>3, <3>4, <4>1, <4>3, <5>1 DEF Parsed
      <4>7. Parsed(g)'
        BY <4>2, <4>4, <4>5, <4>6 DEF Parsed
      <4> QED BY <4>2, <4>7
    <3>5. ~lost' => \E g \in [1..Len(vec') -> DeviceAt'] : Parsed(g)'
      BY <1>4, <2>5, <3>4 DEF Listed
    <3> QED BY <1>8, <1>9, <3>2, <3>5 DEF DevicesInv, Listed
  <2> QED BY <1>2, <2>1, <2>2, <2>4, <2>5
<1> QED BY <1>10, <1>11

(* One device is selected if and only if one is meant.                     *)
LEMMA DevicesSelect ==
  DevicesInv /\ (\E sel \in Devices!Selectors : Devices!SelectDevice(sel)) => DevicesInv'
<1> SUFFICES ASSUME DevicesInv, NEW sel \in Devices!Selectors, Devices!SelectDevice(sel)
             PROVE  DevicesInv'
  OBVIOUS
<1>1. /\ selector' = sel /\ output' = output /\ headerFound' = headerFound /\ vec' = vec
      /\ lost' = lost /\ routes' = routes /\ ip' = ip
  BY DEF Devices!SelectDevice
<1>2. PICK M : M = Devices!Matching(sel)
  OBVIOUS
<1>3. choice' = IF headerFound /\ Devices!Single(M) /\ \A i \in M : Devices!CheckState(vec[i])
                THEN [outcome |-> "selected", device |-> vec[CHOOSE i \in M : TRUE]]
                ELSE [outcome |-> "failed"]
  BY <1>2 DEF Devices!SelectDevice
<1>4. DevicesTyped /\ Listed /\ AddressRead
  BY DEF DevicesInv
<1>5. DeviceAt' = DeviceAt
  BY <1>1 DEF DeviceAt
<1>6. DevicesTyped' /\ AddressRead'
  BY <1>1, <1>4 DEF DevicesTyped, AddressRead
<1>7. Listed'
  <2>1. \A f : Parsed(f)' <=> Parsed(f)
    BY <1>1, <1>5 DEF Parsed
  <2> QED BY <1>1, <1>4, <1>5, <2>1 DEF Listed
<1>8. ASSUME ~lost
      PROVE  /\ choice'.outcome = "selected" <=>
                  Devices!Single(Devices!Meant)' /\ \A d \in Devices!Meant' : d.state = "device"
             /\ choice'.outcome = "selected" =>
                  \A d \in Devices!Meant' :
                    choice'.device.serial = d.serial /\ choice'.device.state = d.state
  <2>1. PICK f : Parsed(f)
    BY <1>4, <1>8 DEF Listed
  <2>2. PICK N : N = Devices!Meant'
    OBVIOUS
  <2>3. /\ M \subseteq 1..Len(vec) /\ N \subseteq Devices!Attached
        /\ \A i \in 1..Len(vec) : i \in M <=> Entry(f[i]) \in N
    BY <1>1, <1>2, <1>4, <2>1, <2>2, SelectMeans
  <2>4. /\ Devices!Single(M) <=> Devices!Single(N)
        /\ \A i \in M : Entry(f[i]) \in N
        /\ \A d \in N : \E i \in M : d = Entry(f[i])
    <3>1. Corresponding(f, M, N)
      BY <2>3 DEF Corresponding
    <3> QED BY <1>4, <2>1, <3>1, SameSingle
  <2>5. \A i \in M : vec[i].serial = Entry(f[i]).serial /\ vec[i].state = Entry(f[i]).state
    BY <2>1, <2>3 DEF Parsed, Entry
  <2>6. (\A i \in M : Devices!CheckState(vec[i])) <=> \A d \in N : d.state = "device"
    BY <2>4, <2>5 DEF Devices!CheckState
  <2>7. ASSUME Devices!Single(M)
        PROVE  headerFound
    <3>1. PICK i \in M : TRUE
      BY <2>7 DEF Devices!Single
    <3>2. f[i] \in DeviceAt
      BY <2>1, <2>3 DEF Parsed
    <3> QED BY <1>4, <3>2 DEF Listed
  <2>8. choice'.outcome = "selected" <=> Devices!Single(N) /\ \A d \in N : d.state = "device"
    BY <1>3, <2>4, <2>6, <2>7
  <2>9. ASSUME choice'.outcome = "selected", NEW d \in N
        PROVE  choice'.device.serial = d.serial /\ choice'.device.state = d.state
    <3>1. Devices!Single(M) /\ choice'.device = vec[CHOOSE i \in M : TRUE]
      BY <1>3, <2>9
    <3>2. PICK i \in M : d = Entry(f[i])
      BY <2>4
    <3>3. (CHOOSE j \in M : TRUE) = i
      BY <3>1, <3>2 DEF Devices!Single
    <3> QED BY <2>5, <3>1, <3>2, <3>3
  <2>10. Devices!Single(Devices!Meant)' <=> Devices!Single(N)
    BY <2>2 DEF Devices!Single
  <2> QED BY <2>2, <2>8, <2>9, <2>10
<1>9. Chosen'
  BY <1>1, <1>8 DEF Chosen
<1> QED BY <1>6, <1>7, <1>9 DEF DevicesInv

LEMMA DevicesListFails == DevicesInv /\ Devices!ListFails => DevicesInv'
<1> SUFFICES ASSUME DevicesInv, Devices!ListFails PROVE DevicesInv'
  OBVIOUS
<1>1. /\ lost' = TRUE /\ output' = output /\ headerFound' = headerFound /\ vec' = vec
      /\ routes' = routes /\ ip' = ip
  BY DEF Devices!ListFails
<1>2. DevicesTyped' /\ AddressRead' /\ Chosen'
  BY <1>1 DEF DevicesInv, DevicesTyped, AddressRead, Chosen
<1>3. DeviceAt' = DeviceAt
  BY <1>1 DEF DeviceAt
<1>4. Listed'
  BY <1>1, <1>3 DEF DevicesInv, Listed
<1> QED BY <1>2, <1>4 DEF DevicesInv

(* What stays when the list and the choice do.                             *)
LEMMA DevicesStay ==
  ASSUME DevicesInv, UNCHANGED <<output, headerFound, vec, lost, selector, choice>>,
         routes' \in Seq(Devices!Routes), AddressRead'
  PROVE  DevicesInv'
<1>1. DeviceAt' = DeviceAt
  BY DEF DeviceAt
<1>2. \A f : Parsed(f)' <=> Parsed(f)
  BY <1>1 DEF Parsed
<1>3. DevicesTyped' /\ Listed'
  BY <1>1, <1>2 DEF DevicesInv, DevicesTyped, Listed
<1>4. Devices!Meant' = Devices!Meant
  BY DEF Devices!Meant, Devices!Attached
<1>5. Devices!Single(Devices!Meant)' <=> Devices!Single(Devices!Meant)
  BY <1>4 DEF Devices!Single
<1>6. Chosen'
  BY <1>4, <1>5 DEF DevicesInv, Chosen
<1> QED BY <1>3, <1>6 DEF DevicesInv

LEMMA DevicesGetIp == DevicesInv /\ Devices!GetDeviceIp => DevicesInv'
<1> SUFFICES ASSUME DevicesInv, Devices!GetDeviceIp PROVE DevicesInv'
  OBVIOUS
<1>1. UNCHANGED <<output, headerFound, vec, lost, selector, choice>>
  BY DEF Devices!GetDeviceIp
<1>2. \/ \E n \in 0..MaxRoutes : routes' \in [1..n -> Devices!Routes] /\ ip' = Devices!ParseIp(routes')
      \/ ip' = "failed" /\ routes' = routes
  BY DEF Devices!GetDeviceIp
<1>3. routes' \in Seq(Devices!Routes)
  <2>1. ASSUME NEW n \in 0..MaxRoutes, routes' \in [1..n -> Devices!Routes]
        PROVE  routes' \in Seq(Devices!Routes)
    <3>1. n \in Nat
      OBVIOUS
    <3> QED BY <2>1, <3>1, SeqDef
  <2>2. routes \in Seq(Devices!Routes)
    BY DEF DevicesInv, DevicesTyped
  <2> QED BY <1>2, <2>1, <2>2
<1>4. AddressRead'
  <2>1. Devices!ParseIp(routes)' = Devices!ParseIp(routes')
    BY DEF Devices!ParseIp
  <2> QED BY <1>2, <2>1 DEF AddressRead
<1> QED BY <1>1, <1>3, <1>4, DevicesStay

LEMMA NextDevices == DevicesInv /\ [Devices!Next]_devicesVars => DevicesInv'
<1> SUFFICES ASSUME DevicesInv, [Devices!Next]_devicesVars PROVE DevicesInv'
  OBVIOUS
<1>1. CASE UNCHANGED devicesVars
  <2>1. UNCHANGED <<output, headerFound, vec, lost, selector, choice>> /\ routes' = routes /\ ip' = ip
    BY <1>1 DEF devicesVars
  <2>2. routes \in Seq(Devices!Routes) /\ AddressRead
    BY DEF DevicesInv, DevicesTyped
  <2>3. AddressRead'
    BY <2>1, <2>2 DEF AddressRead
  <2> QED BY <2>1, <2>2, <2>3, DevicesStay
<1> QED BY <1>1, DevicesParse, DevicesSelect, DevicesListFails, DevicesGetIp DEF Devices!Next

(* The column of the address is that of a route over Wi-Fi.                *)
LEMMA RouteIp ==
  ASSUME NEW r \in Devices!Routes
  PROVE  /\ Devices!IpFromLine(Devices!RouteWords(r)) = IF r.kind = "wlan0" THEN r.src ELSE "none"
         /\ r.src # "none"
<1>1. r.src \in Addresses /\ r.src \notin {"none", "wlan0"}
  BY AdbAssumption DEF Devices!Routes
<1>2. CASE r.kind = "default"
  BY <1>1, <1>2 DEF Devices!RouteWords, Devices!IpFromLine, Devices!Column
<1>3. CASE r.kind = "cut"
  BY <1>1, <1>3 DEF Devices!RouteWords, Devices!IpFromLine, Devices!Column
<1>4. CASE r.kind = "wlan0"
  BY <1>1, <1>4 DEF Devices!RouteWords, Devices!IpFromLine, Devices!Column
<1>5. CASE r.kind = "rmnet"
  BY <1>1, <1>5 DEF Devices!RouteWords, Devices!IpFromLine, Devices!Column
<1> QED BY <1>1, <1>2, <1>3, <1>4, <1>5 DEF Devices!Routes

(* A nonempty set of natural numbers has a least element: the well-        *)
(* foundedness of < used as a minimal counterexample.                      *)
LEMMA LeastLine ==
  ASSUME NEW T \in SUBSET Nat, T # {}
  PROVE  \E n \in T : \A m \in T : n <= m
<1> DEFINE Less == {pair \in Nat \X Nat : pair[1] < pair[2]}
<1>1. IsWellFoundedOn(Less, Nat)
  BY NatLessThanWellFounded DEF OpToRel
<1>2. PICK n \in T : \A m \in T : <<m, n>> \notin Less
  <2> HIDE DEF Less
  <2> QED BY <1>1, WFMin
<1>3. \A m \in T : ~(m < n)
  BY <1>2
<1> QED BY <1>3

LEMMA DevicesAreMeant == DevicesInv => Devices!DeviceIsTheOneMeant
<1> SUFFICES ASSUME DevicesInv PROVE Devices!DeviceIsTheOneMeant
  OBVIOUS
<1> DEFINE wifi == {i \in DOMAIN routes : routes[i].kind = "wlan0"}
<1>1. routes \in Seq(Devices!Routes) /\ AddressRead /\ Chosen
  BY DEF DevicesInv, DevicesTyped
<1>2. /\ DOMAIN routes = 1..Len(routes) /\ \A i \in DOMAIN routes : routes[i] \in Devices!Routes
      /\ DOMAIN routes \subseteq Nat
  BY <1>1
<1>3. {i \in DOMAIN routes : Devices!IpFromLine(Devices!RouteWords(routes[i])) # "none"} = wifi
  BY <1>2, RouteIp
<1>4. ASSUME ip \notin {"unread", "failed"}
      PROVE  IF wifi = {} THEN ip = "none"
             ELSE \E i \in wifi : (\A j \in wifi : i <= j) /\ ip = routes[i].src
  <2>1. ip = IF wifi = {} THEN "none"
             ELSE Devices!IpFromLine(Devices!RouteWords(
                    routes[CHOOSE i \in wifi : \A j \in wifi : i <= j]))
    BY <1>1, <1>3, <1>4 DEF AddressRead, Devices!ParseIp
  <2>2. CASE wifi # {}
    <3>1. \E i \in wifi : \A j \in wifi : i <= j
      <4>1. wifi \in SUBSET Nat
        BY <1>2
      <4> HIDE DEF wifi
      <4> QED BY <2>2, <4>1, LeastLine
    <3>2. PICK i : i = CHOOSE n \in wifi : \A j \in wifi : n <= j
      OBVIOUS
    <3>3. i \in wifi /\ \A j \in wifi : i <= j
      <4> HIDE DEF wifi
      <4> QED BY <3>1, <3>2
    <3>4. routes[i] \in Devices!Routes /\ routes[i].kind = "wlan0"
      BY <1>2, <3>3
    <3>5. ip = routes[i].src
      BY <2>1, <2>2, <3>2, <3>4, RouteIp
    <3> QED BY <2>2, <3>3, <3>5
  <2> QED BY <2>1, <2>2
<1>5. /\ choice.outcome # "none" /\ ~lost =>
           (choice.outcome = "selected" <=>
              Devices!Single(Devices!Meant) /\ \A d \in Devices!Meant : d.state = "device")
      /\ choice.outcome = "selected" /\ ~lost =>
           \A d \in Devices!Meant :
             choice.device.serial = d.serial /\ choice.device.state = d.state
  BY <1>1 DEF Chosen
<1> QED BY <1>4, <1>5 DEF Devices!DeviceIsTheOneMeant

-----------------------------------------------------------------------------
(* The lifecycle.                                                          *)
LifecycleInv == ServerInv /\ SessionInv /\ PusherInv /\ IconInv /\ OtgInv /\ DevicesInv

(* A step of the lifecycle is a step of one component and leaves the others*)
(* as they are.                                                            *)
LEMMA LifecycleSteps ==
  [LifecycleNext]_lifecycleVars =>
    /\ [Next]_vars /\ [Srv!Next]_serverVars /\ [Main!Next]_sessionVars /\ [Fp!Next]_pusherVars
    /\ [Disc!Next]_disconnectionVars /\ [Usb!Next]_otgVars /\ [Devices!Next]_devicesVars
<1>1. CASE Others("service") /\ Next
  BY <1>1 DEF Others
<1>2. CASE Others("server") /\ Srv!Next
  BY <1>2 DEF Others
<1>3. CASE Others("session") /\ Main!Next
  BY <1>3 DEF Others
<1>4. CASE Others("pusher") /\ Fp!Next
  BY <1>4 DEF Others
<1>5. CASE Others("disconnection") /\ Disc!Next
  BY <1>5 DEF Others
<1>6. CASE Others("otg") /\ Usb!Next
  BY <1>6 DEF Others
<1>7. CASE Others("devices") /\ Devices!Next
  BY <1>7 DEF Others
<1>8. CASE UNCHANGED lifecycleVars
  BY <1>8 DEF lifecycleVars
<1> QED BY <1>1, <1>2, <1>3, <1>4, <1>5, <1>6, <1>7, <1>8 DEF LifecycleNext

LEMMA LifecycleInvariance == LifecycleSpec => []LifecycleInv
<1>1. LifecycleInit => LifecycleInv
  <2> SUFFICES ASSUME LifecycleInit PROVE LifecycleInv
    OBVIOUS
  <2>1. Srv!Init /\ Main!Init /\ Fp!Init /\ Disc!Init /\ Usb!Init /\ Devices!Init
    BY DEF LifecycleInit
  <2> QED BY <2>1, InitServer, SessionStarts, PusherStarts, IconStarts, OtgStarts, DevicesStart
          DEF LifecycleInv
<1>2. LifecycleInv /\ [LifecycleNext]_lifecycleVars => LifecycleInv'
  <2> SUFFICES ASSUME LifecycleInv, [LifecycleNext]_lifecycleVars PROVE LifecycleInv'
    OBVIOUS
  <2>1. ServerInv' /\ SessionInv' /\ PusherInv'
    BY LifecycleSteps, NextServer, NextSession, NextPusher DEF LifecycleInv
  <2>2. IconInv' /\ OtgInv' /\ DevicesInv'
    BY LifecycleSteps, NextIcon, NextOtg, NextDevices DEF LifecycleInv
  <2> QED BY <2>1, <2>2 DEF LifecycleInv
<1> QED BY <1>1, <1>2, PTL DEF LifecycleSpec

(* Whatever step fails and whenever the end comes, what the server, the    *)
(* main program, the file pusher, the screen and the OTG mode acquired is  *)
(* released, once, and none of it while a thread may still use it.         *)
THEOREM EverythingIsReleasedOnce == LifecycleSpec => []ReleasedOnce
<1>1. LifecycleInv => ReleasedOnce
  <2> SUFFICES ASSUME LifecycleInv PROVE ReleasedOnce
    OBVIOUS
  <2>1. Srv!EndsClean /\ Main!DestroyedAfterUse /\ Main!AllReleased
    BY ServerOwns, SessionOwns DEF LifecycleInv
  <2>2. Fp!FreedOnce /\ Disc!IconFreed /\ Usb!OtgOwnership
    BY NamesFreedOnce, OtgOwns DEF LifecycleInv, IconInv, Disc!IconFreed
  <2> QED BY <2>1, <2>2 DEF ReleasedOnce
<1> QED BY <1>1, LifecycleInvariance, PTL

(* The session starts with the one device meant, whatever adb prints, and  *)
(* the sockets handed over are the streams the device opened, in its order.*)
THEOREM SessionsConnectAsMeant == LifecycleSpec => []ConnectsAsMeant
<1>1. LifecycleInv => ConnectsAsMeant
  BY ServerOwns, DevicesAreMeant DEF LifecycleInv, ConnectsAsMeant
<1> QED BY <1>1, LifecycleInvariance, PTL

(* The service keeps its promises among the other components.              *)
THEOREM LifecycleRunsTheService == LifecycleSpec => Spec
<1>1. LifecycleInit => Init
  BY DEF LifecycleInit
<1>2. [LifecycleNext]_lifecycleVars => [Next]_vars
  BY LifecycleSteps
<1> QED BY <1>1, <1>2, PTL DEF LifecycleSpec, Spec
=============================================================================
