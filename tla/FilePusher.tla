------------------------------ MODULE FilePusher ------------------------------
(***************************************************************************)
(* The files dropped on the window (app/src/file_pusher.c,                 *)
(* sc_input_manager_process_file() of app/src/input_manager.c): the main   *)
(* thread queues a request per file, a thread started with the first one   *)
(* installs or pushes them one by one with adb, through an interruptor     *)
(* (app/src/util/intr.c).  A file name is a heap string that exactly one of*)
(* the two threads must free.                                              *)
(***************************************************************************)
EXTENDS Naturals, Sequences

CONSTANTS MaxFiles   \* bound: files dropped

VARIABLES
  fpMain,     \* "running", "stopped", "joined", "destroyed"
  fpThread,   \* "off", "idle", "adb", "waiting", "done", "ended"
  fpQueue,    \* the files requested
  current,    \* the file the thread handles, 0 if none
  fpStopped,
  fpIntr,     \* [interrupted, process]: the process registered with it
  adb,        \* the adb process: "none", "running", "killed", "ok", "failed"
  dropped,    \* the files, in order: "install" or "push"
  frees,      \* how many times each name is freed
  carried,    \* the files adb carried out
  scans,      \* the files a scan was requested for
  leakedPaths \* the paths of scan messages that nobody frees

fpVars == <<fpMain, fpThread, fpQueue, current, fpStopped, fpIntr, adb, dropped, frees, carried,
            scans, leakedPaths>>

NotInterrupted == [interrupted |-> FALSE, process |-> FALSE]

Init ==
  /\ fpMain = "running" /\ fpThread = "off" /\ fpQueue = <<>> /\ current = 0
  /\ fpStopped = FALSE /\ fpIntr = NotInterrupted /\ adb = "none"
  /\ dropped = <<>> /\ frees = <<>> /\ carried = {} /\ scans = {} /\ leakedPaths = 0

-----------------------------------------------------------------------------
(* The main thread.                                                        *)

\* sc_file_pusher_request(): the thread is started first; the queue takes the name unless memory
\* runs out.
Request(file) ==
  \/ fpThread = "off" /\ UNCHANGED <<fpThread, fpQueue>>
  \/ /\ fpThread' = IF fpThread = "off" THEN "idle" ELSE fpThread
     /\ fpQueue' \in {fpQueue, Append(fpQueue, file)}

\* sc_input_manager_process_file(): the name is freed if the request is refused.
ProcessFile(action) ==
  LET file == Len(dropped) + 1
  IN /\ fpMain = "running" /\ file <= MaxFiles
     /\ dropped' = Append(dropped, action)
     /\ Request(file)
     /\ frees' = Append(frees, IF fpQueue' = fpQueue THEN 1 ELSE 0)
     /\ UNCHANGED <<fpMain, current, fpStopped, fpIntr, adb, carried, scans, leakedPaths>>

\* sc_intr_interrupt(): the registered process is terminated.
Kills(process) == IF fpIntr.process /\ process = "running" THEN "killed" ELSE process

Stop ==
  /\ fpMain = "running" /\ fpMain' = "stopped"
  /\ IF fpThread = "off" THEN UNCHANGED <<fpStopped, fpIntr, adb>>
     ELSE /\ fpStopped' = TRUE
          /\ fpIntr' = [interrupted |-> TRUE, process |-> FALSE]
          /\ adb' = Kills(adb)
  /\ UNCHANGED <<fpThread, fpQueue, current, dropped, frees, carried, scans, leakedPaths>>

Join ==
  /\ fpMain = "stopped" /\ fpThread \in {"off", "ended"} /\ fpMain' = "joined"
  /\ UNCHANGED <<fpThread, fpQueue, current, fpStopped, fpIntr, adb, dropped, frees, carried, scans,
                 leakedPaths>>

Freed(files) == [f \in DOMAIN frees |-> IF f \in files THEN frees[f] + 1 ELSE frees[f]]
Queued == {fpQueue[i] : i \in 1..Len(fpQueue)}

Destroy ==
  /\ fpMain = "joined" /\ fpMain' = "destroyed"
  /\ frees' = Freed(Queued) /\ fpQueue' = <<>>
  /\ UNCHANGED <<fpThread, current, fpStopped, fpIntr, adb, dropped, carried, scans, leakedPaths>>

-----------------------------------------------------------------------------
(* The thread.                                                             *)

Take ==
  /\ fpThread = "idle" /\ (fpStopped \/ fpQueue # <<>>)
  /\ IF fpStopped THEN fpThread' = "ended" /\ UNCHANGED <<current, fpQueue>>
     ELSE fpThread' = "adb" /\ current' = Head(fpQueue) /\ fpQueue' = Tail(fpQueue)
  /\ UNCHANGED <<fpMain, fpStopped, fpIntr, adb, dropped, frees, carried, scans, leakedPaths>>

\* The process is executed, then registered, which fails after an interruption: it is then left
\* to itself.
Execute ==
  /\ fpThread = "adb"
  /\ \/ fpThread' = "done" /\ adb' = "failed" /\ UNCHANGED fpIntr
     \/ /\ ~fpIntr.interrupted /\ fpThread' = "waiting"
        /\ adb' = "running" /\ fpIntr' = [fpIntr EXCEPT !.process = TRUE]
     \/ fpIntr.interrupted /\ fpThread' = "done" /\ adb' = "failed" /\ UNCHANGED fpIntr
  /\ UNCHANGED <<fpMain, fpQueue, current, fpStopped, dropped, frees, carried, scans, leakedPaths>>

\* The process is unregistered once waited for, and closed afterwards.
Wait ==
  /\ fpThread = "waiting" /\ adb \in {"ok", "failed"}
  /\ fpThread' = "done" /\ fpIntr' = [fpIntr EXCEPT !.process = FALSE]
  /\ UNCHANGED <<fpMain, fpQueue, current, fpStopped, adb, dropped, frees, carried, scans,
                 leakedPaths>>

\* request_scan_file(): the controller takes the message, or the path leaks.
Scan ==
  IF adb = "ok" /\ dropped[current] = "push"
  THEN \/ scans' = scans \cup {current} /\ UNCHANGED leakedPaths
       \/ leakedPaths' = leakedPaths + 1 /\ UNCHANGED scans
  ELSE UNCHANGED <<scans, leakedPaths>>

KeepsRequest == UNCHANGED frees

\* sc_file_pusher_request_destroy()
DestroysRequest == frees' = Freed({current})

Processed ==
  /\ fpThread = "done" /\ fpThread' = "idle"
  /\ Scan /\ DestroysRequest /\ current' = 0 /\ adb' = "none"
  /\ UNCHANGED <<fpMain, fpQueue, fpStopped, fpIntr, dropped, carried>>

PusherThread == Take \/ Execute \/ Wait \/ Processed

-----------------------------------------------------------------------------
\* adb, external: it ends by itself, or once it is terminated.
AdbEnds ==
  /\ adb \in {"running", "killed"}
  /\ \/ adb = "running" /\ adb' = "ok" /\ carried' = carried \cup {current}
     \/ adb' = "failed" /\ UNCHANGED carried
  /\ UNCHANGED <<fpMain, fpThread, fpQueue, current, fpStopped, fpIntr, dropped, frees, scans,
                 leakedPaths>>

Next ==
  \/ \E action \in {"install", "push"} : ProcessFile(action)
  \/ Stop \/ Join \/ Destroy \/ PusherThread \/ AdbEnds

KilledEnds == adb = "killed" /\ AdbEnds
MainEnds == Join \/ Destroy

Spec ==
  /\ Init /\ [][Next]_fpVars
  /\ WF_fpVars(PusherThread) /\ WF_fpVars(KilledEnds) /\ WF_fpVars(MainEnds)

-----------------------------------------------------------------------------
\* Whenever the session ends, refused, queued, interrupted and finished files are each freed
\* exactly once, and only a file that reached the device is scanned.
FreedOnce ==
  /\ \A f \in DOMAIN frees : frees[f] <= 1 /\ (frees[f] = 1 => f # current /\ f \notin Queued)
  /\ fpMain = "destroyed" => \A f \in DOMAIN frees : frees[f] = 1
  /\ \A f \in scans : f \in carried /\ dropped[f] = "push"

\* The stop does not wait for a long push: wherever it finds the thread, the thread ends.
PusherEnds == fpMain = "stopped" ~> fpMain = "destroyed"
=============================================================================
