------------------------------ MODULE MCLifecycle ------------------------------
(***************************************************************************)
(* The components that find a device, connect to it, and end, for TLC, with*)
(* the service of the phone.  `which` chooses the one a behaviour runs, the*)
(* others keep their initial state.  The service is EXTENDed, the others   *)
(* are instances; a name shared by two of them is given by WITH.           *)
(***************************************************************************)
EXTENDS SessionService

CONSTANTS
  Ports, MaxAttempts,                                                    \* Server
  MaxFiles,                                                              \* FilePusher
  MaxToggles,                                                            \* Disconnection
  Serials,                                                               \* Otg
  Emulators, TlsConnect, Addresses, MaxLines, MaxRoutes                  \* AdbDevices

VARIABLES
  which,   \* the component that runs
  params, srvPc, srvStopped, intr, port, tunnel, rules, cut, process, observer, listening,
  devConns, backlog, sockets, attempts, stored, closedConns, reported,   \* Server
  options, mainStage, step, failedAt, ret, initialized, alive, thread, stops, connection, shut,
  events,                                                                \* ScrcpyMain
  fpMain, fpThread, fpQueue, current, fpStopped, fpIntr, adb, dropped, frees, carried, scans,
  leakedPaths,                                                           \* FilePusher
  scrPhase, windowShown, fcThread, fcStarted, fcInterrupted, fcStarting, dcThread, dcInterrupted,
  icon, timeoutPosted, toggles, lateStart,                               \* Disconnection
  usbList, wantedSerial, hotplug, otgPc, otgStep, exitCode, otgAlive, aoaStarted, evThread,
  usbAoaThread, usbStopped, wake, present, leaving, notified, otgEvents, \* Otg
  output, headerFound, vec, lost, selector, choice, routes, ip           \* AdbDevices

serverVars ==
  <<params, srvPc, srvStopped, intr, port, tunnel, rules, cut, process, observer, listening,
    devConns, backlog, sockets, attempts, stored, closedConns, reported>>
sessionVars ==
  <<options, mainStage, step, failedAt, ret, initialized, alive, thread, stops, connection, shut,
    events>>
pusherVars ==
  <<fpMain, fpThread, fpQueue, current, fpStopped, fpIntr, adb, dropped, frees, carried, scans,
    leakedPaths>>
disconnectionVars ==
  <<scrPhase, windowShown, fcThread, fcStarted, fcInterrupted, fcStarting, dcThread,
    dcInterrupted, icon, timeoutPosted, toggles, lateStart>>
otgVars ==
  <<usbList, wantedSerial, hotplug, otgPc, otgStep, exitCode, otgAlive, aoaStarted, evThread,
    usbAoaThread, usbStopped, wake, present, leaving, notified, otgEvents>>
devicesVars == <<output, headerFound, vec, lost, selector, choice, routes, ip>>
lifecycleVars ==
  <<which, vars, serverVars, sessionVars, pusherVars, disconnectionVars, otgVars, devicesVars>>

-----------------------------------------------------------------------------
(* The values a .cfg cannot hold.                                          *)

Parameters(list, tcpip, forceForward, streams) ==
  [list |-> list, tcpip |-> tcpip, forceForward |-> forceForward, streams |-> streams]

\* A list of something, and a session of each tunnel and way to Wi-Fi.
ServerParams ==
  {Parameters(TRUE, "no", FALSE, <<>>),
   Parameters(FALSE, "switch", FALSE, <<"video", "control">>),
   Parameters(FALSE, "address", TRUE, <<"video", "audio", "control">>)}

\* A session with AOA, one without window that records, one that only prints.
SessionOptions ==
  {{"window", "control", "video", "aoa"}, {"video", "audio", "v4l2", "record", "time_limit"},
   {"short"}}

\* A serial with a space and devices over the network, two of them at one address.
AdbSerials ==
  {<<"0123">>, <<"my", "device">>, <<"ip:5555">>, <<"ip:5556">>, <<"emulator-5554">>,
   <<"adb", "(2)._adb-tls-connect">>}
HostOf == [word \in {"ip:5555", "ip:5556"} |-> "ip"]
AdbRequests == {<<"ip">>, <<"my", "device">>, <<"ip:5555">>}

\* A serial is an emulator's by how it starts, and the words of "ip route" are no addresses.
ASSUME AdbAssumption ==
  /\ \A serial \in AdbSerials : \A i \in 2..Len(serial) : serial[i] \notin Emulators
  /\ Addresses \cap {"none", "wlan0"} = {}

Srv == INSTANCE Server WITH AllParams <- ServerParams
Main == INSTANCE ScrcpyMain WITH AllOptions <- SessionOptions, mainPc <- mainStage
Fp == INSTANCE FilePusher
Disc == INSTANCE Disconnection
Usb == INSTANCE Otg
Devices == INSTANCE AdbDevices WITH
             SerialSet <- AdbSerials, Host <- HostOf, Requests <- AdbRequests

\* Every component is in an initial state, and an idle one always in the same.
LifecycleInit ==
  /\ which \in {"service", "server", "session", "pusher", "disconnection", "otg", "devices"}
  /\ Init /\ Srv!Init /\ Main!Init /\ Fp!Init /\ Disc!Init /\ Usb!Init /\ Devices!Init
  /\ which # "service" => resumable
  /\ which # "server" => params.list
  /\ which # "session" => options = {"short"}
  /\ which # "disconnection" => windowShown /\ ~fcInterrupted
  /\ which # "otg" => usbList = <<>> /\ wantedSerial = "any" /\ hotplug

\* The components but c stay as they are.
Others(c) ==
  /\ which = c /\ UNCHANGED which
  /\ IF c = "service" THEN TRUE ELSE UNCHANGED vars
  /\ IF c = "server" THEN TRUE ELSE UNCHANGED serverVars
  /\ IF c = "session" THEN TRUE ELSE UNCHANGED sessionVars
  /\ IF c = "pusher" THEN TRUE ELSE UNCHANGED pusherVars
  /\ IF c = "disconnection" THEN TRUE ELSE UNCHANGED disconnectionVars
  /\ IF c = "otg" THEN TRUE ELSE UNCHANGED otgVars
  /\ IF c = "devices" THEN TRUE ELSE UNCHANGED devicesVars

LifecycleNext ==
  \/ Others("service") /\ Next
  \/ Others("server") /\ Srv!Next
  \/ Others("session") /\ Main!Next
  \/ Others("pusher") /\ Fp!Next
  \/ Others("disconnection") /\ Disc!Next
  \/ Others("otg") /\ Usb!Next
  \/ Others("devices") /\ Devices!Next

\* The fairness of each component, as its module states it, in the behaviours where it runs; that
\* of the service asks nothing of its initial state.
LifecycleSpec ==
  /\ LifecycleInit /\ [][LifecycleNext]_lifecycleVars
  /\ Fairness
  /\ WF_serverVars(which = "server" /\ Srv!Interrupted)
  /\ WF_serverVars(which = "server" /\ Srv!ObserverEnds)
  /\ WF_serverVars(which = "server" /\ Srv!KilledDies)
  /\ WF_serverVars(which = "server" /\ Srv!ListEnds)
  /\ WF_sessionVars(which = "session" /\ Main!MainThread)
  /\ \A t \in Main!Threads : WF_sessionVars(which = "session" /\ Main!ThreadEnds(t))
  /\ WF_sessionVars(which = "session" /\ "server" \in stops /\ Main!ServerConnects)
  /\ WF_sessionVars(which = "session" /\ Main!ServerStops)
  /\ WF_pusherVars(which = "pusher" /\ Fp!PusherThread)
  /\ WF_pusherVars(which = "pusher" /\ Fp!KilledEnds)
  /\ WF_pusherVars(which = "pusher" /\ Fp!MainEnds)
  /\ WF_disconnectionVars(which = "disconnection" /\ Disc!MainEnds)
  /\ WF_disconnectionVars(which = "disconnection" /\ Disc!CounterThread)
  /\ WF_disconnectionVars(which = "disconnection" /\ Disc!DelayThread)
  /\ WF_otgVars(which = "otg" /\ Usb!MainThread)
  /\ WF_otgVars(which = "otg" /\ Usb!EventThread)
  /\ WF_otgVars(which = "otg" /\ Usb!AoaEnds)

-----------------------------------------------------------------------------
\* Whatever fails and whenever the end comes, everything acquired is released, once, and nothing
\* while a thread may still use it (server.c, scrcpy.c, file_pusher.c, disconnect.c,
\* usb/scrcpy_otg.c).
ReleasedOnce ==
  /\ Srv!EndsClean /\ Main!DestroyedAfterUse /\ Main!AllReleased
  /\ Fp!FreedOnce /\ Disc!IconFreed /\ Usb!OtgOwnership

\* The session starts with the one device meant, and the sockets handed over are the streams it
\* opened, in its order (server.c, adb/adb.c, adb/adb_parser.c, adb/adb_device.c).
ConnectsAsMeant == Srv!SocketsAreStreams /\ Devices!DeviceIsTheOneMeant

\* Whatever was asked to stop ends: the server's thread, the program, the file pusher, the screen,
\* the OTG session and the session of the service (server.c, scrcpy.c, file_pusher.c, screen.c,
\* usb/scrcpy_otg.c, ReverseSessionService.java).
EverythingEnds ==
  /\ Srv!ThreadEnds /\ Main!ShutdownEnds /\ Fp!PusherEnds /\ Disc!ScreenEnds /\ Usb!OtgEnds
  /\ StopCompletes
=============================================================================
