------------------------------- MODULE Receiver -------------------------------
(***************************************************************************)
(* The receiver of the device's messages (app/src/receiver.c,              *)
(* app/src/device_msg.c): its thread reads the control socket in whatever  *)
(* pieces it comes, keeps the bytes of an incomplete message at the        *)
(* beginning of a fixed buffer, and dispatches the complete ones.  What    *)
(* concerns SDL goes through tasks of the main thread.                     *)
(***************************************************************************)
EXTENDS Naturals, Sequences, SequencesExt, FiniteSetsExt

CONSTANTS
  Kinds,        \* the types of messages the device sends
  SizeOf,       \* [Kinds -> the sizes of such a message, in units of the bytes modelled]
  BufferSize,   \* DEVICE_MSG_MAX_SIZE
  MaxDeviceMsgs \* bound: messages sent

VARIABLES
  sent,         \* the messages the device wrote, in order: kind and size
  recvHead,     \* the bytes in the buffer
  parsed,       \* the number of messages dispatched
  inNet,        \* the bytes of them that are written and not read
  recvPc,       \* "off", "recv", "parse", "ended"
  recvError,    \* what on_ended() was told
  closedSocket,
  dispatched,   \* the messages handled, in order: number and by whom
  tasks,        \* the tasks of the main thread
  mainStopped,  \* events.c: stopped
  applied       \* the messages whose task was run

recvVars == <<sent, recvHead, parsed, inNet, recvPc, recvError, closedSocket, dispatched, tasks,
              mainStopped, applied>>

\* A clipboard and an HID output need the main thread; the others are called back at once.
OnMain == {"clipboard", "uhid_output"}

Init ==
  /\ sent = <<>> /\ recvHead = 0 /\ parsed = 0 /\ inNet = 0 /\ recvPc = "off"
  /\ recvError = FALSE /\ closedSocket = FALSE /\ dispatched = <<>> /\ tasks = <<>>
  /\ mainStopped = FALSE /\ applied = <<>>

Start ==
  /\ recvPc = "off" /\ recvPc' = "recv"
  /\ UNCHANGED <<sent, recvHead, parsed, inNet, recvError, closedSocket, dispatched, tasks,
                 mainStopped, applied>>

\* The device (external) never writes a message larger than the buffer: it cuts the clipboard.
DeviceWrites(kind, size) ==
  /\ Len(sent) < MaxDeviceMsgs /\ ~closedSocket
  /\ size \in SizeOf[kind] /\ size <= BufferSize
  /\ sent' = Append(sent, [kind |-> kind, size |-> size]) /\ inNet' = inNet + size
  /\ UNCHANGED <<recvHead, parsed, recvPc, recvError, closedSocket, dispatched, tasks,
                 mainStopped, applied>>

CloseSocket ==
  /\ ~closedSocket /\ closedSocket' = TRUE
  /\ UNCHANGED <<sent, recvHead, parsed, inNet, recvPc, recvError, dispatched, tasks, mainStopped,
                 applied>>

\* net_recv() returns some of the bytes there are, as many as the buffer has room for, and the
\* end of the stream ends the thread without an error.
Receive ==
  /\ recvPc = "recv"
  /\ \/ \E n \in 1..Min({inNet, BufferSize - recvHead}) :
          /\ recvHead' = recvHead + n /\ inNet' = inNet - n /\ recvPc' = "parse"
     \/ closedSocket /\ recvPc' = "ended" /\ UNCHANGED <<recvHead, inNet>>
  /\ UNCHANGED <<sent, parsed, recvError, closedSocket, dispatched, tasks, mainStopped, applied>>

\* sc_device_msg_deserialize(): the first message of the buffer is all there.
Complete == parsed < Len(sent) /\ sent[parsed + 1].size <= recvHead

\* process_msg().  A task that cannot be posted is freed; an HID output may find no memory.
Dispatch(number, kind) ==
  IF kind \notin OnMain
  THEN dispatched' = Append(dispatched, number) /\ UNCHANGED tasks
  ELSE \/ ~mainStopped /\ tasks' = Append(tasks, number) /\ dispatched' = Append(dispatched, number)
       \/ dispatched' = Append(dispatched, number) /\ UNCHANGED tasks

OnlyOne == recvPc' = "recv"

\* sc_device_msg_deserialize() fails on a type or a value it does not know, and when there is no
\* memory for a text or data.
MayFail(kind) == kind \in OnMain \cup {"unknown"}

\* process_msgs(): until no complete message is left; then the rest is moved to the beginning.
More == recvPc' = "parse"

Process ==
  /\ recvPc = "parse"
  /\ \/ /\ ~Complete /\ recvPc' = "recv"
        /\ UNCHANGED <<recvHead, parsed, recvError, dispatched, tasks>>
     \/ /\ Complete /\ MayFail(sent[parsed + 1].kind)
        /\ recvPc' = "ended" /\ recvError' = TRUE
        /\ UNCHANGED <<recvHead, parsed, dispatched, tasks>>
     \/ /\ Complete /\ sent[parsed + 1].kind # "unknown"
        /\ parsed' = parsed + 1 /\ recvHead' = recvHead - sent[parsed + 1].size
        /\ Dispatch(parsed', sent[parsed + 1].kind) /\ More /\ UNCHANGED recvError
  /\ UNCHANGED <<sent, inNet, closedSocket, mainStopped, applied>>

\* The main thread runs the tasks in order; sc_main_thread_stop() refuses new ones and runs those
\* already posted.
RunTask ==
  /\ ~mainStopped /\ tasks # <<>>
  /\ tasks' = Tail(tasks) /\ applied' = Append(applied, Head(tasks))
  /\ UNCHANGED <<sent, recvHead, parsed, inNet, recvPc, recvError, closedSocket, dispatched,
                 mainStopped>>

StopMain ==
  /\ ~mainStopped /\ mainStopped' = TRUE
  /\ applied' = applied \o tasks /\ tasks' = <<>>
  /\ UNCHANGED <<sent, recvHead, parsed, inNet, recvPc, recvError, closedSocket, dispatched>>

ReceiverThread == Receive \/ Process

Next ==
  \/ Start \/ CloseSocket \/ ReceiverThread \/ RunTask \/ StopMain
  \/ \E kind \in Kinds : \E size \in SizeOf[kind] : DeviceWrites(kind, size)

Spec == Init /\ [][Next]_recvVars

-----------------------------------------------------------------------------
\* However the stream is cut, each message is dispatched once and in order, none that is complete
\* waits for more bytes, the buffer always has room to read into, and the main thread applies
\* what it is given in order.
StreamReassembled ==
  /\ \A i \in 1..Len(dispatched) : dispatched[i] = i
  /\ recvPc = "recv" => ~Complete /\ recvHead < BufferSize
  /\ \A i \in 1..Len(applied) - 1 : applied[i] < applied[i + 1]
  /\ mainStopped => tasks = <<>>
=============================================================================
