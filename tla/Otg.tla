---------------------------------- MODULE Otg ----------------------------------
(***************************************************************************)
(* The OTG mode (app/src/usb/scrcpy_otg.c) and the USB device it holds     *)
(* (app/src/usb/usb.c): the devices are listed and one is selected, opened *)
(* and watched by a thread that runs libusb's event loop, while the AOA    *)
(* thread transfers the input.  Whichever of the two sees the device leave *)
(* reports it; the cleanup wakes and joins both before the handle closes.  *)
(* The AOA queue is the one of AoaHid; libusb is external.                 *)
(***************************************************************************)
EXTENDS Naturals, Sequences, FiniteSets

CONSTANTS Serials   \* the serials of the devices plugged in

VARIABLES
  usbList,       \* the devices listed: their serials
  wantedSerial,  \* -s, or "any"
  hotplug,       \* libusb detects the device leaving
  otgPc,         \* "init", "loop", "cleanup", "exited"
  otgStep,
  exitCode,
  otgAlive,      \* what is initialised and not destroyed
  aoaStarted,    \* the flag
  evThread,      \* libusb's event thread: "off", "checking", "blocked", "callback", "ended"
  usbAoaThread,  \* the AOA thread: "off", "running", "ended"
  usbStopped,
  wake,          \* something for libusb_handle_events() to return on
  present,       \* the device is plugged in
  leaving,       \* the hotplug callback has yet to be called
  notified,      \* disconnection_notified
  otgEvents      \* the events posted to the main thread and not handled

otgVars == <<usbList, wantedSerial, hotplug, otgPc, otgStep, exitCode, otgAlive, aoaStarted, evThread,
             usbAoaThread, usbStopped, wake, present, leaving, notified, otgEvents>>

options == <<usbList, wantedSerial, hotplug>>
usb == <<usbStopped, wake, present, leaving, notified>>
threads == <<evThread, usbAoaThread>>

\* sc_usb_list_devices(): those that could be read.
Listed == UNION {[1..n -> Serials] : n \in 0..2}

Init ==
  /\ usbList \in Listed /\ wantedSerial \in Serials \cup {"any"}
  /\ hotplug \in BOOLEAN
  /\ otgPc = "init" /\ otgStep = 1 /\ exitCode = "failure" /\ otgAlive = {} /\ aoaStarted = FALSE
  /\ evThread = "off" /\ usbAoaThread = "off"
  /\ usbStopped = FALSE /\ wake = FALSE /\ present = TRUE /\ leaving = FALSE /\ notified = FALSE
  /\ otgEvents = <<>>

-----------------------------------------------------------------------------
(* The initialisation.                                                     *)

\* sc_usb_devices_select(): exactly one device must match.
Selected == {i \in 1..Len(usbList) : wantedSerial \in {"any", usbList[i]}}

Steps == <<"usb", "device", "handle", "aoa", "keyboard", "mouse", "aoa_start", "screen">>

\* Each step may fail; a device that left cannot be opened.
Possible(s) ==
  CASE s = "device" -> Cardinality(Selected) = 1
    [] s = "handle" -> present
    [] OTHER -> TRUE

\* sc_usb_register_callback(): libusb may not tell of a device that leaves, or refuse to; the
\* thread may not start.
Watched == IF hotplug THEN {"checking", "off"} ELSE {"off"}

\* sc_usb_connect() starts the event thread, sc_aoa_start() the AOA thread.
Started(s) ==
  /\ evThread' \in (IF s = "handle" THEN Watched ELSE {evThread})
  /\ usbAoaThread' = IF s = "aoa_start" THEN "running" ELSE usbAoaThread

\* The selected device is not needed once the window is open.
Obtained(s) ==
  CASE s = "aoa_start" -> otgAlive
    [] s = "screen" -> (otgAlive \cup {"screen"}) \ {"device"}
    [] OTHER -> otgAlive \cup {s}

InitStep ==
  LET s == Steps[otgStep]
  IN /\ otgPc = "init" /\ Possible(s) /\ Started(s) /\ otgAlive' = Obtained(s)
     /\ aoaStarted' = (aoaStarted \/ s = "aoa_start")
     /\ otgStep' = (otgStep % Len(Steps)) + 1
     /\ otgPc' = IF s = "screen" THEN "loop" ELSE "init"
     /\ UNCHANGED <<options, exitCode, usb, otgEvents>>

\* Nothing to clean up before libusb is initialised.
InitFails ==
  /\ otgPc = "init" /\ otgStep' = 1
  /\ otgPc' = IF Steps[otgStep] = "usb" THEN "exited" ELSE "cleanup"
  /\ UNCHANGED <<options, exitCode, otgAlive, aoaStarted, threads, usb, otgEvents>>

-----------------------------------------------------------------------------
(* The event loop and the cleanup.                                         *)

EventLoop ==
  /\ otgPc = "loop" /\ otgEvents # <<>>
  /\ otgPc' = "cleanup" /\ exitCode' = Head(otgEvents) /\ otgEvents' = Tail(otgEvents)
  /\ UNCHANGED <<options, otgStep, otgAlive, aoaStarted, threads, usb>>

UserQuits ==
  /\ otgPc = "loop" /\ otgPc' = "cleanup" /\ exitCode' = "success"
  /\ UNCHANGED <<options, otgStep, otgAlive, aoaStarted, threads, usb, otgEvents>>

\* sc_usb_stop(): the flag, then the callback is deregistered, which makes libusb return.
StopUsb ==
  IF evThread = "off" THEN UNCHANGED <<usbStopped, wake>>
  ELSE usbStopped' = TRUE /\ wake' = TRUE

OtgCleanup ==
  <<"aoa_stop", "usb_stop", "mouse", "keyboard", "aoa_join", "aoa", "usb_join", "handle", "device",
    "usb", "screen">>

\* sc_usb_join()
Joinable == evThread \in {"off", "ended"}

CleanupStep ==
  LET op == OtgCleanup[otgStep]
  IN /\ otgPc = "cleanup"
     /\ op = "aoa_join" => usbAoaThread # "running"
     /\ op = "usb_join" => Joinable
     /\ aoaStarted' = IF op = "aoa_stop" THEN FALSE ELSE aoaStarted
     /\ IF op = "usb_stop" THEN StopUsb ELSE UNCHANGED <<usbStopped, wake>>
     /\ otgAlive' = otgAlive \ {op}
     /\ IF otgStep = Len(OtgCleanup) THEN otgPc' = "exited" /\ UNCHANGED otgStep
        ELSE otgStep' = otgStep + 1 /\ UNCHANGED otgPc
     /\ UNCHANGED <<options, exitCode, threads, present, leaving, notified, otgEvents>>

-----------------------------------------------------------------------------
(* The two threads.                                                        *)

\* sc_usb_report_disconnected(): the flag is tested and set at once.
Report ==
  /\ notified' = TRUE
  /\ otgEvents' = IF notified THEN otgEvents ELSE Append(otgEvents, "disconnected")

\* run_libusb_event_handler()
CheckStopped ==
  /\ evThread = "checking" /\ evThread' = IF usbStopped THEN "ended" ELSE "blocked"
  /\ UNCHANGED <<options, otgPc, otgStep, exitCode, otgAlive, aoaStarted, usbAoaThread, usb, otgEvents>>

\* libusb returns when it is woken, after the callbacks of the events.
HandleEvents ==
  /\ evThread = "blocked" /\ (wake \/ leaving)
  /\ evThread' = IF leaving THEN "callback" ELSE "checking"
  /\ wake' = FALSE /\ leaving' = FALSE
  /\ UNCHANGED <<options, otgPc, otgStep, exitCode, otgAlive, aoaStarted, usbAoaThread, usbStopped,
                 present, notified, otgEvents>>

\* sc_usb_libusb_callback() compares the device with the one of the handle.
Callback ==
  /\ evThread = "callback" /\ evThread' = "checking" /\ Report
  /\ UNCHANGED <<options, otgPc, otgStep, exitCode, otgAlive, aoaStarted, usbAoaThread, usbStopped,
                 wake, present, leaving>>

\* A transfer to a device that left fails; a gamepad that cannot be opened ends the session.
Transfer ==
  /\ usbAoaThread = "running" /\ ~present /\ Report
  /\ UNCHANGED <<options, otgPc, otgStep, exitCode, otgAlive, aoaStarted, threads, usbStopped, wake,
                 present, leaving>>

OpenFails ==
  /\ usbAoaThread = "running" /\ otgPc = "loop" /\ otgEvents = <<>> /\ otgEvents' = <<"failure">>
  /\ UNCHANGED <<options, otgPc, otgStep, exitCode, otgAlive, aoaStarted, threads, usb>>

AoaEnds ==
  /\ usbAoaThread = "running" /\ otgPc = "cleanup" /\ ~aoaStarted /\ usbAoaThread' = "ended"
  /\ UNCHANGED <<options, otgPc, otgStep, exitCode, otgAlive, aoaStarted, evThread, usb, otgEvents>>

Unplug ==
  /\ present /\ present' = FALSE
  /\ leaving' = (evThread \notin {"off", "ended"} /\ ~usbStopped)
  /\ UNCHANGED <<options, otgPc, otgStep, exitCode, otgAlive, aoaStarted, threads, usbStopped, wake,
                 notified, otgEvents>>

EventThread == CheckStopped \/ HandleEvents \/ Callback
MainThread == InitStep \/ InitFails \/ EventLoop \/ CleanupStep

Next == MainThread \/ UserQuits \/ EventThread \/ Transfer \/ OpenFails \/ AoaEnds \/ Unplug

Spec ==
  /\ Init /\ [][Next]_otgVars
  /\ WF_otgVars(MainThread) /\ WF_otgVars(EventThread) /\ WF_otgVars(AoaEnds)

-----------------------------------------------------------------------------
\* Whichever step fails and whenever the device leaves, no thread meets a handle, an AOA or a
\* context already destroyed, and nothing is left at the end; the disconnection is posted once,
\* whoever of the two threads sees it.
OtgOwnership ==
  /\ evThread = "callback" => {"handle", "usb"} \subseteq otgAlive
  /\ evThread \notin {"off", "ended"} => "usb" \in otgAlive
  /\ usbAoaThread = "running" => {"handle", "usb", "aoa"} \subseteq otgAlive
  /\ otgPc = "exited" =>
       otgAlive = {} /\ usbAoaThread # "running" /\ evThread \in {"off", "ended"}
  /\ \A i, j \in DOMAIN otgEvents :
       otgEvents[i] = "disconnected" /\ otgEvents[j] = "disconnected" => i = j
  /\ otgPc # "init" /\ exitCode # "failure" => Cardinality(Selected) = 1

\* A device that leaves ends the session, when libusb can tell, and the cleanup never waits for
\* a thread that nothing wakes.
OtgEnds ==
  /\ otgPc = "cleanup" ~> otgPc = "exited"
  /\ (~present /\ evThread # "off") ~> otgPc = "exited"
=============================================================================
