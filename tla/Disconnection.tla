----------------------------- MODULE Disconnection -----------------------------
(***************************************************************************)
(* The end of the screen: the two threads it owns, the FPS counter         *)
(* (app/src/fps_counter.c) and the disconnection delay                     *)
(* (app/src/disconnect.c), and how the main thread interrupts, joins and   *)
(* destroys them (app/src/screen.c, app/src/scrcpy.c).  Once disconnected, *)
(* the window stays open for a while, with an icon, and still handles its  *)
(* own shortcuts.  Each thread holds its mutex but when it waits.          *)
(***************************************************************************)
EXTENDS Naturals

CONSTANTS MaxToggles   \* bound: how many times MOD+i is pressed

VARIABLES
  scrPhase,      \* the main thread: "loop", "disconnected", "delay", "hidden", "joining", "joined",
                 \* "destroyed"
  windowShown,
  fcThread,      \* the counter's thread: "off", "locked", "to_wait", "waiting", "to_timed", "timed",
                 \* "ended"
  fcStarted,     \* atomic, written without the mutex
  fcInterrupted,
  fcStarting,    \* the main thread is inside sc_fps_counter_start(), past the mutex
  dcThread,      \* the delay's thread: "off", "loading", "timed", "ended"
  dcInterrupted,
  icon,          \* "none", "posted", "freed"
  timeoutPosted,
  toggles,
  lateStart      \* the counter was started once it had been interrupted

discVars == <<scrPhase, windowShown, fcThread, fcStarted, fcInterrupted, fcStarting, dcThread,
              dcInterrupted, icon, timeoutPosted, toggles, lateStart>>

\* interrupted is not initialised before the first start, and not read.
Init ==
  /\ scrPhase = "loop" /\ windowShown \in BOOLEAN
  /\ fcThread = "off" /\ fcStarted = FALSE /\ fcInterrupted \in BOOLEAN /\ fcStarting = FALSE
  /\ dcThread = "off" /\ dcInterrupted = FALSE /\ icon = "none" /\ timeoutPosted = FALSE
  /\ toggles = 0 /\ lateStart = FALSE

-----------------------------------------------------------------------------
(* The FPS counter.                                                        *)

counter == <<fcThread, fcStarted, fcInterrupted, fcStarting>>

MutexFree == fcThread \notin {"locked", "to_wait", "to_timed"}

\* A signal wakes the thread only if it waits.
Signalled == IF fcThread \in {"waiting", "timed"} THEN "locked" ELSE fcThread

\* sc_fps_counter_start(), under the mutex.
StartLocked ==
  /\ MutexFree /\ fcStarting' = TRUE
  /\ fcInterrupted' = FALSE
  /\ UNCHANGED <<fcThread, fcStarted>>

\* Then the flag and the signal without it, and the thread, which is created once.
StartSignal ==
  /\ fcStarting /\ fcStarting' = FALSE /\ fcStarted' = TRUE
  /\ fcThread' = IF fcThread = "off" THEN "locked" ELSE Signalled
  /\ UNCHANGED <<scrPhase, windowShown, fcInterrupted, dcThread, dcInterrupted, icon, timeoutPosted,
                 toggles, lateStart>>

\* sc_fps_counter_stop()
StopCounter == fcStarted' = FALSE /\ fcThread' = Signalled /\ UNCHANGED <<fcInterrupted, fcStarting>>

\* sc_fps_counter_interrupt(): nothing to interrupt before the first start.
InterruptCounter ==
  IF fcThread = "off" THEN UNCHANGED counter
  ELSE /\ MutexFree /\ fcInterrupted' = TRUE /\ fcThread' = Signalled
       /\ UNCHANGED <<fcStarted, fcStarting>>

\* run_fps_counter(): the conditions are read with the mutex held, the started flag changes
\* without it, so that a signal may be lost.
Counts ==
  /\ fcThread' = CASE fcThread = "locked" -> IF fcInterrupted THEN "ended"
                                             ELSE IF fcStarted THEN "to_timed" ELSE "to_wait"
                   [] fcThread = "to_wait" -> "waiting"
                   [] fcThread = "to_timed" -> "timed"
                   [] fcThread = "timed" -> "locked"
  /\ UNCHANGED <<scrPhase, windowShown, fcStarted, fcInterrupted, fcStarting, dcThread,
                 dcInterrupted, icon, timeoutPosted, toggles, lateStart>>

CounterThread == fcThread \in {"locked", "to_wait", "to_timed", "timed"} /\ Counts

\* MOD+i, in the event loop and while the icon of the disconnection is shown.
Toggle ==
  /\ scrPhase \in {"loop", "delay"} /\ windowShown /\ ~fcStarting
  /\ toggles < MaxToggles /\ toggles' = toggles + 1
  /\ IF fcStarted THEN StopCounter /\ UNCHANGED lateStart
     ELSE StartLocked /\ lateStart' = (lateStart \/ scrPhase = "delay")
  /\ UNCHANGED <<scrPhase, windowShown, dcThread, dcInterrupted, icon, timeoutPosted>>

-----------------------------------------------------------------------------
(* The main thread.                                                        *)

delay == <<dcThread, dcInterrupted, icon, timeoutPosted>>

\* SC_EVENT_DEVICE_DISCONNECTED: with a window, the counter stops and the delay starts, unless its
\* thread cannot be created.
DeviceDisconnected ==
  /\ scrPhase = "loop" /\ ~fcStarting /\ scrPhase' = "disconnected"
  /\ IF windowShown
     THEN /\ IF fcStarted THEN StopCounter ELSE UNCHANGED counter
          /\ dcThread' \in {"off", "loading"}
     ELSE UNCHANGED <<counter, dcThread>>
  /\ UNCHANGED <<windowShown, dcInterrupted, icon, timeoutPosted, toggles, lateStart>>

\* The loop ends for another reason: there is no delay.
Quit ==
  /\ scrPhase = "loop" /\ ~fcStarting /\ scrPhase' = "hidden"
  /\ InterruptCounter
  /\ UNCHANGED <<windowShown, delay, toggles, lateStart>>

\* The cleanup interrupts the counter and handles the disconnection.
Interrupt ==
  /\ scrPhase = "disconnected"
  /\ scrPhase' = IF windowShown /\ dcThread # "off" THEN "delay" ELSE "hidden"
  /\ InterruptCounter
  /\ UNCHANGED <<windowShown, delay, toggles, lateStart>>

\* sc_screen_handle_disconnection(): the events are handled in order.
IconLoaded ==
  /\ scrPhase = "delay" /\ ~fcStarting /\ icon = "posted" /\ icon' = "freed"
  /\ UNCHANGED <<scrPhase, windowShown, counter, dcThread, dcInterrupted, timeoutPosted, toggles,
                 lateStart>>

DelayEnds ==
  /\ scrPhase = "delay" /\ ~fcStarting /\ timeoutPosted /\ icon # "posted" /\ scrPhase' = "hidden"
  /\ UNCHANGED <<windowShown, counter, delay, toggles, lateStart>>

\* The user quits: the delay is interrupted.
QuitDelay ==
  /\ scrPhase = "delay" /\ ~fcStarting /\ scrPhase' = "hidden"
  /\ dcInterrupted' = TRUE
  /\ UNCHANGED <<windowShown, counter, dcThread, icon, timeoutPosted, toggles, lateStart>>

\* Later, sc_screen_join() joins the one thread, then the other.
JoinCounter ==
  /\ scrPhase = "hidden" /\ scrPhase' = "joining"
  /\ UNCHANGED <<windowShown, counter, delay, toggles, lateStart>>

JoinDelay ==
  /\ scrPhase = "joining" /\ fcThread \in {"off", "ended"} /\ scrPhase' = "joined"
  /\ UNCHANGED <<windowShown, counter, delay, toggles, lateStart>>

\* A dangling icon is dequeued.
Dequeued(i) == IF i = "posted" THEN "freed" ELSE i

Destroy ==
  /\ scrPhase = "joined" /\ dcThread \in {"off", "ended"} /\ scrPhase' = "destroyed"
  /\ icon' = Dequeued(icon)
  /\ UNCHANGED <<windowShown, counter, dcThread, dcInterrupted, timeoutPosted, toggles, lateStart>>

-----------------------------------------------------------------------------
(* The thread of the delay.                                                *)

\* The icon is posted, or it could not be loaded or posted.
LoadIcon ==
  /\ dcThread = "loading" /\ dcThread' = "timed" /\ icon' \in {"none", "posted"}
  /\ UNCHANGED <<scrPhase, windowShown, counter, dcInterrupted, timeoutPosted, toggles, lateStart>>

\* Interrupted, it ends without a word; otherwise it waits for the deadline.
Expire ==
  /\ dcThread = "timed" /\ dcThread' = "ended" /\ timeoutPosted' = ~dcInterrupted
  /\ UNCHANGED <<scrPhase, windowShown, counter, dcInterrupted, icon, toggles, lateStart>>

DelayThread == LoadIcon \/ Expire

MainEnds ==
  StartSignal \/ Interrupt \/ IconLoaded \/ DelayEnds \/ JoinCounter \/ JoinDelay \/ Destroy

Next ==
  \/ Toggle \/ DeviceDisconnected \/ Quit \/ QuitDelay \/ MainEnds
  \/ CounterThread \/ DelayThread

Spec ==
  /\ Init /\ [][Next]_discVars /\ WF_discVars(MainEnds)
  /\ WF_discVars(CounterThread) /\ WF_discVars(DelayThread)

-----------------------------------------------------------------------------
\* The window closes, its threads join and the screen is destroyed, wherever the end finds them,
\* unless the counter is started anew while the icon is shown.
ScreenEnds ==
  /\ scrPhase \in {"disconnected", "hidden"} ~> scrPhase = "destroyed" \/ lateStart

\* The icon is freed once, whether its event was handled or not.
IconFreed == scrPhase = "destroyed" => icon # "posted"

\* The assertion of sc_fps_counter_join(), "interrupted must be set by the thread calling join()"
\* (fps_counter.c:157-159): the counter the screen joins was interrupted.
InterruptedAtJoin == scrPhase = "joining" /\ fcThread # "off" => fcInterrupted
=============================================================================
