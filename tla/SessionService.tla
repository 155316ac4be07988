---------------------------- MODULE SessionService ----------------------------
(***************************************************************************)
(* The Android foreground service that owns the phone's only session,      *)
(* server/.../reverse/ReverseSessionService.java with                      *)
(* ReverseSessionState.java.  Its handlers run on the main thread, one at a*)
(* time; connecting and decoding happen on other threads, which post       *)
(* callbacks that may run when their session is long gone.  A session, its *)
(* transport and its decoder are identified by the token begin() returned. *)
(*                                                                         *)
(* stopSession() stops the state before it takes transportLock, so a       *)
(* worker that was about to publish its transport may come in between: the *)
(* handler is two steps, of which the second, Close, Restart or Destroyed, *)
(* goes on with what follows stopSession().                                *)
(***************************************************************************)
EXTENDS Integers, Sequences

CONSTANTS
  MaxGeneration   \* bound: the user acts no more once it is reached

ASSUME ServiceAssumption == MaxGeneration \in Nat

None == 0
Tokens == 1..(MaxGeneration + 2)

VARIABLES
  resumable,                        \* Android 6 or later: the decoder survives
                                    \*   its surface; no step changes it
  generation, phase, visible,       \* ReverseSessionState
  surface, decoder, transport,      \* fields of ReverseSessionService; the
  foreground, lastVideoVisible,     \*   decoder and transport by their token
  vpnAddress, vpnCheck,             \* an address is kept; checkVpn is posted
  mainPc,                           \* "idle", or what follows stopSession()
  posts,                            \* callbacks posted to the main thread
  delayedStops,                     \* decoders requestStop() will close
  worker,                           \* the connecting thread of each session
  open, closed,                     \* transports with open sockets; closed ones
  decoders,                         \* decoders whose thread has not ended
  announced                         \* what the computer was told of the picture

vars == <<resumable, generation, phase, visible, surface, decoder, transport,
          foreground, lastVideoVisible, vpnAddress, vpnCheck, mainPc, posts,
          delayedStops, worker, open, closed, decoders, announced>>

(* What stopSession() changes before and after it takes the lock.          *)
stopped  == <<generation, phase, decoder, lastVideoVisible, vpnAddress,
              vpnCheck, open, closed, mainPc>>
locked   == <<transport, foreground>>
threads  == <<worker, decoders, announced>>

Init ==
  /\ resumable \in BOOLEAN
  /\ generation = 0 /\ phase = "IDLE" /\ visible = FALSE
  /\ surface = FALSE /\ decoder = None /\ transport = None
  /\ foreground = FALSE /\ lastVideoVisible = "unknown"
  /\ vpnAddress = FALSE /\ vpnCheck = FALSE
  /\ mainPc = "idle" /\ posts = <<>> /\ delayedStops = {}
  /\ worker = [t \in Tokens |-> "none"] /\ open = {} /\ closed = {}
  /\ decoders = {} /\ announced = "shown"

(***************************************************************************)
(* What several handlers share.                                            *)
(***************************************************************************)
IsActive == phase # "IDLE"
IsCurrentPhase(token) == IsActive
IsCurrent(token) == token = generation /\ IsActive

Shown == IF visible /\ surface THEN "shown" ELSE "hidden"

(* updateVideoVisibility(): the computer, which believes `told`, is told   *)
(* when that changes.                                                      *)
UpdateVideoVisibility(told) ==
  /\ lastVideoVisible' = IF decoder' # None THEN Shown' ELSE lastVideoVisible
  /\ announced' = IF decoder' # None /\ lastVideoVisible # Shown' THEN Shown'
                  ELSE told

(* close() of a transport closes its sockets for good.                     *)
Closes(tokens) == open' = open \ tokens /\ closed' = closed \cup tokens

(* stopSession() up to the lock; the decoder's stop() closes its transport.*)
StopSession(next) ==
  /\ generation' = generation + 1 /\ phase' = "IDLE"
  /\ vpnCheck' = FALSE /\ vpnAddress' = FALSE
  /\ lastVideoVisible' = "unknown"
  /\ decoder' = None
  /\ Closes({decoder} \ {None})
  /\ mainPc' = next
  /\ UNCHANGED <<locked, threads>>

(* Its end: the lock is free once no worker is about to publish.           *)
CloseTransport ==
  /\ \A t \in Tokens : worker[t] # "publish"
  /\ Closes({transport} \ {None})
  /\ transport' = None
  /\ foreground' = FALSE

(* A callback or delayed action that finds nothing to do.                  *)
NothingToDo == UNCHANGED <<stopped, locked, threads>>

Handling == mainPc \in {"idle", "destroyed"}
User == mainPc = "idle" /\ generation < MaxGeneration

(***************************************************************************)
(* Handlers.                                                               *)
(***************************************************************************)
(* startInternet() and startUsb() stop the session before they start one;  *)
(* startUsb() does nothing if the session has the same identifier.         *)
Start(kind) ==
  /\ User
  /\ StopSession(kind)
  /\ UNCHANGED <<visible, surface, posts, delayedStops>>

(* onTaskRemoved() and onDestroy(); the latter drops what was posted.      *)
TaskRemoved ==
  /\ User
  /\ StopSession("stop")
  /\ UNCHANGED <<visible, surface, posts, delayedStops>>

Destroy ==
  /\ User
  /\ StopSession("destroy")
  /\ UNCHANGED <<visible, surface, posts, delayedStops>>

Destroyed ==
  /\ mainPc = "destroy"
  /\ CloseTransport
  /\ posts' = <<>> /\ delayedStops' = {}
  /\ mainPc' = "destroyed"
  /\ UNCHANGED <<generation, phase, visible, surface, decoder,
                 lastVideoVisible, vpnAddress, vpnCheck, threads>>

(* The rest of stopSession(), when nothing follows it.                     *)
Close ==
  /\ mainPc = "stop"
  /\ CloseTransport
  /\ mainPc' = "idle"
  /\ UNCHANGED <<generation, phase, visible, surface, decoder,
                 lastVideoVisible, vpnAddress, vpnCheck, posts, delayedStops,
                 threads>>

(* The rest of startInternet() and startUsb(), up to startProtectedSession *)
(* and the secret: there may be no VPN, and either may fail.               *)
Restart ==
  /\ mainPc \in {"internet", "usb"}
  /\ CloseTransport
  /\ \/ /\ mainPc = "internet" /\ mainPc' = "idle"
        /\ UNCHANGED <<generation, phase, vpnAddress>>
     \/ /\ generation' = generation + 1 /\ phase' = "WAITING"
        /\ vpnAddress' = (mainPc = "internet")
        /\ mainPc' \in {"failed", IF mainPc = "internet" THEN "receive" ELSE "connect"}
  /\ UNCHANGED <<visible, surface, decoder, lastVideoVisible, vpnCheck, posts,
                 delayedStops, threads>>

RestartFails ==
  /\ mainPc = "failed"
  /\ StopSession("stop")
  /\ UNCHANGED <<visible, surface, posts, delayedStops>>

(* Their end.  The receiver is published before its thread opens its       *)
(* socket, the USB transport is opened and published by its thread.        *)
Started ==
  /\ foreground' = TRUE
  /\ \/ /\ mainPc = "receive"
        /\ transport' = generation /\ vpnCheck' = TRUE
        /\ worker' = [worker EXCEPT ![generation] = "receiver"]
     \/ /\ mainPc = "connect"
        /\ worker' = [worker EXCEPT ![generation] = "usb"]
        /\ UNCHANGED <<transport, vpnCheck>>
  /\ mainPc' = "idle"
  /\ UNCHANGED <<generation, phase, visible, surface, decoder,
                 lastVideoVisible, vpnAddress, posts, delayedStops, open,
                 closed, decoders, announced>>

(* Without a resumable decoder, leaving the screen ends the session.       *)
SetVisible ==
  /\ User
  /\ visible' = ~visible
  /\ UNCHANGED <<surface, posts, delayedStops>>
  /\ IF ~visible' /\ decoder # None /\ ~resumable
     THEN StopSession("stop")
     ELSE /\ UNCHANGED <<generation, phase, decoder, vpnAddress, vpnCheck, open,
                         closed, mainPc, locked, worker, decoders>>
          /\ UpdateVideoVisibility(announced)

(* attachSurface() and detachSurface(): the decoder may fail to switch, and*)
(* one that is not resumable stops itself when it loses its surface.       *)
ChangeSurface ==
  /\ User
  /\ surface' = ~surface
  /\ UNCHANGED <<visible, posts, delayedStops>>
  /\ \/ /\ decoder # None
        /\ StopSession("stop")
     \/ /\ UNCHANGED <<generation, phase, decoder, vpnAddress, vpnCheck, mainPc,
                       locked, worker, decoders>>
        /\ Closes(IF ~surface' /\ ~resumable THEN {decoder} \ {None} ELSE {})
        /\ UpdateVideoVisibility(announced)

(* The computer is told to stop, and the transport closed 150 ms later.    *)
RequestStop ==
  /\ User
  /\ IF decoder = None
     THEN StopSession("stop") /\ UNCHANGED delayedStops
     ELSE NothingToDo /\ delayedStops' = delayedStops \cup {decoder}
  /\ UNCHANGED <<visible, surface, posts>>

DelayedStopOfAny(token) ==
  /\ Handling
  /\ token \in delayedStops
  /\ delayedStops' = delayedStops \ {token}
  /\ StopSession("stop")
  /\ UNCHANGED <<resumable, visible, surface, posts>>

DelayedStop(token) ==
  /\ Handling
  /\ token \in delayedStops
  /\ delayedStops' = delayedStops \ {token}
  /\ IF decoder = token THEN StopSession("stop") ELSE NothingToDo
  /\ UNCHANGED <<resumable, visible, surface, posts>>

(* checkVpn, posted again as long as the address is unchanged.             *)
CheckVpn ==
  /\ Handling /\ vpnCheck
  /\ IF IsActive /\ vpnAddress
     THEN NothingToDo \/ StopSession("stop")
     ELSE /\ vpnCheck' = FALSE
          /\ UNCHANGED <<generation, phase, decoder, lastVideoVisible,
                         vpnAddress, open, closed, mainPc, locked, threads>>
  /\ UNCHANGED <<resumable, visible, surface, posts, delayedStops>>

(* connected(), for a current session.  A computer shows its picture until *)
(* it is told not to.                                                      *)
Connected ==
  IF ~visible /\ ~resumable
  THEN StopSession("stop")
  ELSE /\ phase' = "CONNECTED"
       /\ decoder' = transport
       /\ decoders' = decoders \cup {transport}
       /\ UNCHANGED <<generation, vpnAddress, vpnCheck, open, closed, mainPc,
                      locked, worker>>
       /\ UpdateVideoVisibility("shown")

(* A callback of another thread.  One of a session that is over does       *)
(* nothing but close the connection it brings.                             *)
Callback ==
  LET post == Head(posts)
  IN
  /\ Handling /\ posts # <<>>
  /\ posts' = Tail(posts)
  /\ UNCHANGED <<resumable, visible, surface, delayedStops>>
  /\ IF IsCurrent(post.token)
     THEN IF post.kind = "connected" THEN Connected ELSE StopSession("stop")
     ELSE /\ Closes(IF post.kind = "connected" THEN {post.token} ELSE {})
          /\ UNCHANGED <<generation, phase, decoder, lastVideoVisible,
                         vpnAddress, vpnCheck, mainPc, locked, threads>>

(***************************************************************************)
(* The other threads.                                                      *)
(***************************************************************************)
Post(kind, token) == posts' = Append(posts, [kind |-> kind, token |-> token])

Worker(token, from, to) ==
  worker[token] = from /\ worker' = [worker EXCEPT ![token] = to]

(* startUsb's thread takes transportLock, checks its token, ...            *)
UsbChecks(token) ==
  /\ \A t \in Tokens : worker[t] # "publish"
  /\ Worker(token, "usb", IF IsCurrent(token) THEN "publish" ELSE "done")
  /\ UNCHANGED <<transport, open, closed, posts>>

(* ... opens its transport, which may fail, and publishes it.              *)
UsbPublishes(token) ==
  \/ /\ Worker(token, "publish", "connecting")
     /\ transport' = token
     /\ open' = open \cup {token}
     /\ UNCHANGED <<closed, posts>>
  \/ /\ Worker(token, "publish", "done")
     /\ Post("failed", token)
     /\ UNCHANGED <<transport, open, closed>>

(* InternetReceiver.run(): opens its server socket unless already closed.  *)
ReceiverOpens(token) ==
  /\ Worker(token, "receiver", IF token \in closed THEN "done" ELSE "connecting")
  /\ open' = open \cup ({token} \ closed)
  /\ UNCHANGED <<transport, closed, posts>>

(* A computer connects; a transport that was closed only fails.            *)
Connects(token) ==
  /\ token \notin closed
  /\ Worker(token, "connecting", "done")
  /\ Post("connected", token)
  /\ UNCHANGED <<transport, open, closed>>

ConnectFails(token) ==
  /\ Worker(token, "connecting", "done")
  /\ Post("failed", token)
  /\ UNCHANGED <<transport, open, closed>>

DecoderEnds(token) ==
  /\ token \in decoders
  /\ decoders' = decoders \ {token}
  /\ Post("failed", token)
  /\ UNCHANGED <<transport, open, closed, worker>>

Threads(token) ==
  /\ \/ /\ \/ UsbChecks(token) \/ UsbPublishes(token) \/ ReceiverOpens(token)
           \/ Connects(token) \/ ConnectFails(token)
        /\ UNCHANGED decoders
     \/ DecoderEnds(token)
  /\ UNCHANGED <<resumable, generation, phase, visible, surface, decoder,
                 foreground, lastVideoVisible, vpnAddress, vpnCheck, mainPc, delayedStops,
                 announced>>

UserActs ==
  /\ \/ Start("internet") \/ Start("usb") \/ TaskRemoved \/ Destroy
     \/ SetVisible \/ ChangeSurface \/ RequestStop
  /\ UNCHANGED resumable

Continues ==
  /\ Close \/ Destroyed \/ Restart \/ RestartFails \/ Started
  /\ UNCHANGED resumable

Next ==
  \/ UserActs \/ Continues \/ CheckVpn \/ Callback
  \/ \E token \in Tokens : DelayedStop(token) \/ Threads(token)

(* The main looper runs its handlers to their end and what was posted to   *)
(* it; a thread that holds transportLock gives it back.                    *)
Fairness ==
  /\ WF_vars(Continues)
  /\ WF_vars(Callback)
  /\ \A token \in Tokens :
       /\ WF_vars(DelayedStop(token))
       /\ WF_vars(UsbPublishes(token) /\ Threads(token))

Spec == Init /\ [][Next]_vars
FairSpec == Spec /\ Fairness

-------------------------------------------------------------------------------
(***************************************************************************)
(* Properties.                                                             *)
(***************************************************************************)
TypeOK ==
  /\ resumable \in BOOLEAN
  /\ generation \in Nat /\ phase \in {"IDLE", "WAITING", "CONNECTED"}
  /\ visible \in BOOLEAN /\ surface \in BOOLEAN
  /\ decoder \in Tokens \cup {None} /\ transport \in Tokens \cup {None}
  /\ foreground \in BOOLEAN
  /\ lastVideoVisible \in {"unknown", "shown", "hidden"}
  /\ vpnAddress \in BOOLEAN /\ vpnCheck \in BOOLEAN
  /\ mainPc \in {"idle", "stop", "destroy", "destroyed", "internet", "usb",
                 "failed", "receive", "connect"}
  /\ posts \in Seq([kind : {"connected", "failed"}, token : Tokens])
  /\ delayedStops \subseteq Tokens
  /\ worker \in [Tokens -> {"none", "usb", "publish", "receiver", "connecting",
                            "done"}]
  /\ open \subseteq Tokens /\ closed \subseteq Tokens /\ decoders \subseteq Tokens
  /\ announced \in {"shown", "hidden"}

(* Between handlers a decoder exists exactly in the connected phase, and   *)
(* decodes the current session's own transport: callbacks of an earlier    *)
(* session never install theirs.                                           *)
SessionOwned ==
  Handling =>
    /\ decoder # None <=> phase = "CONNECTED"
    /\ decoder # None => decoder = generation /\ transport = generation
    /\ foreground <=> IsActive

(* No socket outlives its session: between handlers, only the transport of *)
(* the current session is open, however late its thread was to open it.    *)
NoLeakedTransport == Handling => open \subseteq {transport} \ {None}
                                 /\ \A t \in open : IsCurrent(t)

(* Between handlers, the computer of a connected session knows whether its *)
(* picture can be seen, whatever the user did before it connected.         *)
VisibilityAnnounced == Handling /\ decoder # None => announced = Shown

(* Before Android 6 no session goes on in the background, even one whose   *)
(* computer connects there.                                                *)
NoHiddenSession == ~resumable /\ Handling /\ decoder # None => visible

(* Between handlers the VPN is watched exactly during a session over it.   *)
VpnWatched == Handling => (vpnCheck <=> IsActive /\ vpnAddress)

(* Between handlers the service has the decoder, the transport, the watch  *)
(* of the VPN and the visibility of its current session, and of no other   *)
(* (ReverseSessionService.java).                                           *)
ServiceOwnsSession ==
  /\ TypeOK
  /\ SessionOwned /\ NoLeakedTransport /\ VisibilityAnnounced
  /\ NoHiddenSession /\ VpnWatched

(* A session ends for a reason of its own: its user, the loss of its VPN,  *)
(* a failure its own threads reported, or a stop requested for its own     *)
(* decoder - never by what an earlier session left behind.                 *)
EndsForItsOwnReason ==
  [][IsActive /\ generation' # generation =>
       \/ UserActs \/ RestartFails
       \/ CheckVpn /\ vpnAddress
       \/ Callback /\ Head(posts).token = generation
       \/ generation \in delayedStops]_vars

(* A stop the user requested ends that session, after its message had its  *)
(* delay, unless the session ended before.                                 *)
StopCompletes ==
  \A t \in Tokens : t \in delayedStops ~> (decoder # t /\ t \notin open)
=============================================================================
