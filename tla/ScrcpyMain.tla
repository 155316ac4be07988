------------------------------ MODULE ScrcpyMain ------------------------------
(***************************************************************************)
(* The life of a mirroring session (app/src/scrcpy.c, app/src/util/        *)
(* timeout.c): the main thread initialises the components one after the    *)
(* other, each of which may fail, runs the event loop, then stops, joins   *)
(* and destroys what was initialised, in an order of its own.  The threads *)
(* are abstracted to what they use and to what ends them.                  *)
(***************************************************************************)
EXTENDS Naturals, Sequences

CONSTANTS
  AllOptions   \* sets of what the options ask for: "window", "control", "aoa", "record", "video",
               \* "audio", "v4l2", "time_limit", and "short" for --list-* and the reverse display

VARIABLES
  options,
  mainPc,      \* "init", "loop", "cleanup", "exited"
  step,        \* the number of the step
  failedAt,    \* the step that failed, "none" if none
  ret,         \* the exit code
  initialized, \* the flags: what the cleanup has to take care of
  alive,       \* the objects initialised and not destroyed
  thread,      \* each thread: "off", "running", "ended"
  stops,       \* the components told to stop
  connection,  \* the server: "none", "up", "failed"
  shut,        \* its sockets are shut down
  events       \* the SDL events of the threads' ends, not handled yet

mainVars == <<options, mainPc, step, failedAt, ret, initialized, alive, thread, stops, connection, shut,
              events>>

-----------------------------------------------------------------------------
(* The components.                                                         *)

\* The steps of the initialisation, and the option each one depends on.
Ladder ==
  <<"server", "connection", "file_pusher", "recorder", "recorder_thread", "controller", "acksync",
    "usb", "usb_select", "usb_connect", "aoa", "aoa_thread", "controller_threads", "screen", "v4l2",
    "video", "audio", "timeout", "timeout_thread">>

Wanted(s) ==
  IF s \in {"server", "connection"} THEN TRUE
  ELSE "short" \notin options /\
       CASE s = "file_pusher" -> {"window", "control"} \subseteq options
         [] s \in {"recorder", "recorder_thread"} -> "record" \in options
         [] s \in {"controller", "controller_threads"} -> "control" \in options
         [] s \in {"acksync", "usb", "usb_select", "usb_connect", "aoa", "aoa_thread"} ->
              {"control", "aoa"} \subseteq options
         [] s = "screen" -> "window" \in options
         [] s \in {"timeout", "timeout_thread"} -> "time_limit" \in options
         [] OTHER -> s \in options

\* What a step leaves alive, and the threads it starts.
Makes(s) == IF s \in {"connection", "recorder_thread", "usb_select", "usb_connect", "aoa_thread",
                      "controller_threads", "video", "audio", "timeout_thread"} THEN {} ELSE {s}
Starts(s) ==
  CASE s = "recorder_thread" -> {"recorder"}
    [] s = "aoa_thread" -> {"aoa"}
    [] s = "controller_threads" -> {"controller", "receiver"}
    [] s = "timeout_thread" -> {"timeout"}
    [] s \in {"server", "video", "audio"} -> {s}
    [] OTHER -> {}

Threads ==
  {"server", "recorder", "aoa", "controller", "receiver", "video", "audio", "timeout", "file_pusher"}

\* What a running thread may use at any moment.
Uses(t) ==
  CASE t = "video" -> {"screen", "recorder", "v4l2"}
    [] t = "audio" -> {"recorder"}
    [] t = "receiver" -> {"controller", "acksync"}
    [] t = "aoa" -> {"aoa", "usb", "acksync"}
    [] t = "file_pusher" -> {"file_pusher", "controller"}
    [] OTHER -> {t}

Init ==
  /\ options \in AllOptions
  /\ mainPc = "init" /\ step = 1 /\ failedAt = "none" /\ ret = "failure"
  /\ initialized = {} /\ alive = {} /\ thread = [t \in Threads |-> "off"]
  /\ stops = {} /\ connection = "none" /\ shut = FALSE /\ events = {}

-----------------------------------------------------------------------------
(* The initialisation.                                                     *)

\* The part of the AOA initialisation that failed undoes the others, but for the selection of the
\* device, which keeps acksync.
Undone(s) ==
  CASE s \in {"usb", "usb_connect", "aoa", "aoa_thread"} -> {"acksync", "usb", "aoa"}
    [] s = "usb_select" -> {"usb"}
    [] OTHER -> {}

\* The flags of the AOA components are set once they are all initialised.
Flags(s) ==
  CASE s \in {"acksync", "usb", "usb_select", "usb_connect", "aoa"} -> {}
    [] s = "aoa_thread" -> {"aoa", "usb", "acksync", s}
    [] OTHER -> {s}

StepDone ==
  IF step = Len(Ladder) THEN mainPc' = "loop" /\ UNCHANGED step
  ELSE step' = step + 1 /\ UNCHANGED mainPc

Leave(code) == mainPc' = "cleanup" /\ step' = 1 /\ ret' = code

Skip ==
  /\ mainPc = "init" /\ ~Wanted(Ladder[step]) /\ StepDone
  /\ UNCHANGED <<options, failedAt, ret, initialized, alive, thread, stops, connection, shut, events>>

InitStep ==
  LET s == Ladder[step]
  IN /\ mainPc = "init" /\ Wanted(s) /\ s # "connection" /\ StepDone
     /\ initialized' = initialized \cup Flags(s) /\ alive' = alive \cup Makes(s)
     /\ thread' = [t \in Threads |-> IF t \in Starts(s) THEN "running" ELSE thread[t]]
     /\ UNCHANGED <<options, failedAt, ret, stops, connection, shut, events>>

InitFails ==
  LET s == Ladder[step]
  IN /\ mainPc = "init" /\ Wanted(s) /\ s # "connection"
     /\ Leave("failure") /\ failedAt' = s
     /\ alive' = (IF s = "server" THEN {s} ELSE alive) \ Undone(s)
     /\ UNCHANGED <<options, initialized, thread, stops, connection, shut, events>>

\* await_for_server(): the user may quit meanwhile; --list-* ends there.
AwaitForServer ==
  /\ mainPc = "init" /\ Ladder[step] = "connection"
  /\ \/ connection = "up" /\ "short" \notin options /\ step' = step + 1 /\ UNCHANGED <<mainPc, ret>>
     \/ connection = "up" /\ "short" \in options /\ Leave("success")
     \/ connection = "failed" /\ Leave("failure")
     \/ Leave("success")
  /\ UNCHANGED <<options, failedAt, initialized, alive, thread, stops, connection, shut, events>>

-----------------------------------------------------------------------------
(* The event loop.                                                         *)

\* event_loop(): the first event that ends it decides the exit code; or the user quits.
EventLoop ==
  /\ mainPc = "loop"
  /\ \E e \in events :
       /\ Leave(CASE e = "disconnected" -> "disconnected" [] e = "time_limit" -> "success"
                  [] OTHER -> "failure")
       /\ events' = events \ {e}
  /\ UNCHANGED <<options, failedAt, initialized, alive, thread, stops, connection, shut>>

Quit ==
  /\ mainPc = "loop" /\ Leave("success")
  /\ UNCHANGED <<options, failedAt, initialized, alive, thread, stops, connection, shut, events>>

\* The thread of the file pusher starts with the first file dropped.
DropFile ==
  /\ mainPc = "loop" /\ "file_pusher" \in initialized /\ thread["file_pusher"] = "off"
  /\ thread' = [thread EXCEPT !["file_pusher"] = "running"]
  /\ UNCHANGED <<options, mainPc, step, failedAt, ret, initialized, alive, stops, connection, shut,
                 events>>

-----------------------------------------------------------------------------
(* The cleanup.                                                            *)

\* The screen is destroyed once the demuxer, which feeds it, is joined.
Cleanup ==
  <<<<"stop", "timeout">>, <<"stop", "aoa">>, <<"stop", "controller">>, <<"stop", "file_pusher">>,
    <<"stop", "recorder">>, <<"stop", "screen">>, <<"stop", "server">>, <<"join", "timeout">>,
    <<"destroy", "timeout">>, <<"join", "video">>, <<"join", "audio">>, <<"destroy", "v4l2">>,
    <<"join", "aoa">>, <<"destroy", "aoa">>, <<"destroy", "usb">>, <<"destroy", "acksync">>,
    <<"destroy", "screen">>, <<"join", "controller">>, <<"destroy", "controller">>,
    <<"join", "recorder">>, <<"destroy", "recorder">>, <<"join", "file_pusher">>,
    <<"destroy", "file_pusher">>, <<"join", "server">>, <<"destroy", "server">>>>

\* The threads a component has.
ThreadsOf(c) == IF c = "controller" THEN {"controller", "receiver"} ELSE {c} \cap Threads

\* sc_server_destroy() depends on no flag.
CleanupStep ==
  LET op == Cleanup[step][1]
      c == Cleanup[step][2]
  IN /\ mainPc = "cleanup"
     /\ op = "join" => \A t \in ThreadsOf(c) : thread[t] # "running"
     /\ stops' = IF op = "stop" /\ c \in initialized THEN stops \cup {c} ELSE stops
     /\ alive' = IF op = "destroy" /\ (c \in initialized \/ c = "server") THEN alive \ {c} ELSE alive
     /\ IF step = Len(Cleanup) THEN mainPc' = "exited" /\ UNCHANGED step
        ELSE step' = step + 1 /\ UNCHANGED mainPc
     /\ UNCHANGED <<options, failedAt, ret, initialized, thread, connection, shut, events>>

-----------------------------------------------------------------------------
(* The threads.                                                            *)

\* What the end of a thread posts.
EndEvents(t) ==
  CASE t = "video" -> {"disconnected", "demuxer_error"}
    [] t = "audio" -> {"disconnected", "demuxer_error", "none"}
    [] t \in {"controller", "receiver"} -> {"disconnected", "controller_error"}
    [] t = "recorder" -> {"recorder_error", "none"}
    [] t = "timeout" -> {"time_limit"}
    [] OTHER -> {"none"}

Ends(t) ==
  /\ thread[t] = "running" /\ thread' = [thread EXCEPT ![t] = "ended"]
  /\ \E e \in EndEvents(t) : events' = events \cup ({e} \ {"none"})
  /\ UNCHANGED <<options, mainPc, step, failedAt, ret, initialized, alive, stops, connection, shut>>

\* A stop makes a thread end, or the shutdown of the socket it reads.
MustEnd(t) ==
  CASE t \in {"video", "audio", "receiver"} -> shut
    [] t = "controller" -> shut \/ "controller" \in stops
    [] OTHER -> t \in stops

ThreadEnds(t) == t # "server" /\ MustEnd(t) /\ Ends(t)

\* The demuxers and the others may end by themselves, the recorder and AOA with an error.
ThreadFails(t) == t \notin {"server", "file_pusher"} /\ ~MustEnd(t) /\ Ends(t)

ServerConnects ==
  /\ thread["server"] = "running" /\ connection = "none"
  /\ \/ "server" \notin stops /\ connection' = "up" /\ UNCHANGED thread
     \/ connection' = "failed" /\ thread' = [thread EXCEPT !["server"] = "ended"]
  /\ UNCHANGED <<options, mainPc, step, failedAt, ret, initialized, alive, stops, shut, events>>

\* Once stopped the server thread shuts its sockets down, and kills the server.
ShutSockets == shut' = TRUE

ServerStops ==
  /\ thread["server"] = "running" /\ connection = "up" /\ "server" \in stops
  /\ ShutSockets /\ thread' = [thread EXCEPT !["server"] = "ended"]
  /\ UNCHANGED <<options, mainPc, step, failedAt, ret, initialized, alive, stops, connection, events>>

\* The device goes away.
DeviceGone ==
  /\ connection = "up" /\ ~shut /\ shut' = TRUE
  /\ UNCHANGED <<options, mainPc, step, failedAt, ret, initialized, alive, thread, stops, connection,
                 events>>

MainThread == Skip \/ InitStep \/ InitFails \/ AwaitForServer \/ EventLoop \/ CleanupStep

Next ==
  \/ MainThread \/ Quit \/ DropFile
  \/ \E t \in Threads : ThreadEnds(t) \/ ThreadFails(t)
  \/ ServerConnects \/ ServerStops \/ DeviceGone

Spec ==
  /\ Init /\ [][Next]_mainVars
  /\ WF_mainVars(MainThread) /\ \A t \in Threads : WF_mainVars(ThreadEnds(t))
  /\ WF_mainVars("server" \in stops /\ ServerConnects) /\ WF_mainVars(ServerStops)

-----------------------------------------------------------------------------
\* The objects a thread may use although they are already destroyed.
Dangling(t) == IF thread[t] = "running" THEN Uses(t) \cap (initialized \ alive) ELSE {}

\* Whatever step fails and whenever the session ends, an object is destroyed after the threads
\* that use it; the file pusher and the receiver are the two exceptions of the code.
DestroyedAfterUse ==
  /\ \A t \in Threads \ {"file_pusher", "receiver"} : Dangling(t) = {}
  /\ Dangling("file_pusher") \subseteq {"controller"}
  /\ Dangling("receiver") \subseteq {"acksync"}

\* Nothing is left when the program exits, whichever step failed, but acksync when no USB device
\* is selected.
AllReleased ==
  mainPc = "exited" =>
    /\ alive = IF failedAt = "usb_select" THEN {"acksync"} ELSE {}
    /\ \A t \in Threads : thread[t] # "running"
    /\ ret = "disconnected" => shut \/ failedAt = "none"

\* The cleanup never waits for ever for a thread, and the loss of the device ends the session.
ShutdownEnds ==
  /\ mainPc = "cleanup" ~> mainPc = "exited"
  /\ (thread["video"] = "ended" /\ mainPc = "loop") ~> mainPc = "exited"
=============================================================================
