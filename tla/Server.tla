-------------------------------- MODULE Server --------------------------------
(***************************************************************************)
(* The lifecycle of the device's server (app/src/server.c), with the adb   *)
(* tunnel (app/src/adb/adb_tunnel.c), the interruptor of blocking calls    *)
(* (app/src/util/intr.c, net_intr.c) and the observer of the process       *)
(* (app/src/util/process.c).  The server thread selects a device, installs *)
(* the server, opens a tunnel, executes it, connects one socket per stream *)
(* and waits to be stopped; every step may fail, and be interrupted by a   *)
(* stop or by the death of the process.                                    *)
(***************************************************************************)
EXTENDS Naturals, Sequences

CONSTANTS
  AllParams,    \* the options: list, tcpip, forceForward and the streams, in order
  Ports,        \* port_range, as a set of numbers
  MaxAttempts   \* the attempts to connect and to wait for TCP/IP, 100 and 40

VARIABLES
  params,
  srvPc,        \* where the thread is
  srvStopped,
  intr,         \* intr->interrupted
  port,         \* the port tried
  tunnel,       \* enabled, forward, and whether server_socket is open
  rules,        \* the tunnels adb has set up and has not been asked to remove
  cut,          \* an interruption came while the tunnel was set up
  process,      \* the server on the device: "none", "running", "killed", "dead", "reaped"
  observer,     \* the observer's thread: "off", "running", "ended"
  listening,    \* the process listens behind a forward tunnel
  devConns,     \* how many connections it made or accepted
  backlog,      \* those in the listening socket that are not accepted yet
  sockets,      \* the sockets being connected: the stream each one carries
  attempts,
  stored,       \* the sockets of the server struct
  closedConns,  \* those connected and closed
  reported      \* the callbacks, in order

srvVars == <<params, srvPc, srvStopped, intr, port, tunnel, rules, cut, process, observer, listening,
             devConns, backlog, sockets, attempts, stored, closedConns, reported>>

NoTunnel == [enabled |-> FALSE, forward |-> FALSE, socket |-> FALSE]
First == CHOOSE p \in Ports : \A q \in Ports : p <= q

\* A socket that adb accepted for a server that does not listen.
Nowhere == 0

Init ==
  /\ params \in AllParams
  /\ srvPc = "start" /\ srvStopped = FALSE /\ intr = FALSE
  /\ port = First /\ tunnel = NoTunnel /\ rules = {} /\ cut = FALSE
  /\ process = "none" /\ observer = "off" /\ listening = FALSE
  /\ devConns = 0 /\ backlog = <<>> /\ sockets = <<>> /\ attempts = MaxAttempts
  /\ stored = <<>> /\ closedConns = <<>> /\ reported = <<>>

\* A step of the thread moves srvPc and changes what is named; the rest stays.
At(pc) == srvPc = pc
Goto(pc) == srvPc' = pc
connecting == <<devConns, backlog, sockets, attempts, stored, closedConns>>
tunnelVars == <<port, tunnel, rules, cut>>
processVars == <<process, observer, listening>>
Rest == UNCHANGED <<params, srvStopped>>

-----------------------------------------------------------------------------
(* Selecting the device.                                                   *)

\* An adb command: it fails by itself or because it is interrupted, and its process is then
\* terminated; once interrupted, a command is still started but not waited for.
Command(ok, fail) == (~intr /\ Goto(ok)) \/ Goto(fail)

StartServer ==
  /\ At("start") /\ Command(IF params.tcpip = "address" THEN "connect_tcpip" ELSE "select", "failed")
  /\ Rest /\ UNCHANGED <<intr, tunnelVars, processVars, connecting, reported>>

\* A device already connected over TCP/IP needs no switch.
SelectDevice ==
  /\ At("select")
  /\ \/ Command(IF params.tcpip = "switch" THEN "get_ip" ELSE "push", "failed")
     \/ ~intr /\ params.tcpip = "switch" /\ Goto("push")
  /\ Rest /\ UNCHANGED <<intr, tunnelVars, processVars, connecting, reported>>

\* sc_server_switch_to_tcpip(): the mode may be enabled already.
GetIp ==
  /\ At("get_ip")
  /\ \/ Command("enable_tcpip", "failed")
     \/ ~intr /\ Goto("connect_tcpip")
  /\ Rest /\ UNCHANGED <<intr, tunnelVars, processVars, connecting, reported>>

EnableTcpip ==
  /\ At("enable_tcpip") /\ Command("wait_tcpip", "failed")
  /\ attempts' = MaxAttempts
  /\ Rest
  /\ UNCHANGED <<intr, tunnelVars, processVars, devConns, backlog, sockets, stored, closedConns,
                 reported>>

\* The port is read again and again until it is the expected one; a stop ends the sleep.
WaitTcpip ==
  /\ At("wait_tcpip")
  /\ \/ ~intr /\ Goto("connect_tcpip") /\ UNCHANGED attempts
     \/ srvStopped /\ Goto("failed") /\ UNCHANGED attempts
     \/ /\ ~srvStopped /\ attempts' = attempts - 1
        /\ IF attempts' = 0 THEN Goto("failed") ELSE UNCHANGED srvPc
  /\ Rest
  /\ UNCHANGED <<intr, tunnelVars, processVars, devConns, backlog, sockets, stored, closedConns,
                 reported>>

ConnectTcpip ==
  /\ At("connect_tcpip") /\ Command("push", "failed")
  /\ Rest /\ UNCHANGED <<intr, tunnelVars, processVars, connecting, reported>>

PushServer ==
  /\ At("push")
  /\ Command(IF params.list THEN "execute_list"
             ELSE IF params.forceForward THEN "forward" ELSE "reverse", "failed")
  /\ Rest /\ UNCHANGED <<intr, tunnelVars, processVars, connecting, reported>>

\* --list-*: the process prints the list; the thread waits for it and reports a connection.
ExecuteList ==
  /\ At("execute_list")
  /\ \/ Goto("wait_list") /\ process' = "running"
     \/ Goto("failed") /\ UNCHANGED process
  /\ Rest /\ UNCHANGED <<intr, tunnelVars, observer, listening, connecting, reported>>

WaitList ==
  /\ At("wait_list") /\ process = "dead"
  /\ Goto("done") /\ process' = "reaped" /\ reported' = Append(reported, "connected")
  /\ Rest /\ UNCHANGED <<intr, tunnelVars, observer, listening, connecting>>

-----------------------------------------------------------------------------
(* The tunnel.                                                             *)

NextPort(fail) ==
  IF \E p \in Ports : p > port THEN port' = port + 1 /\ UNCHANGED srvPc ELSE port' = First /\ Goto(fail)

\* A command that was interrupted may have been carried out.
MayDo(rule) == rules' \in {rules, rules \cup {rule}}

\* enable_tunnel_reverse_any_port(): "adb reverse", then the socket it leads to.
Reverse ==
  /\ At("reverse")
  /\ \/ ~intr /\ Goto("listen") /\ rules' = rules \cup {<<"reverse", port>>} /\ UNCHANGED <<port, cut>>
     \/ /\ Goto("forward") /\ port' = First
        /\ IF intr THEN MayDo(<<"reverse", port>>) /\ cut' = TRUE ELSE UNCHANGED <<rules, cut>>
  /\ Rest /\ UNCHANGED <<intr, tunnel, processVars, connecting, reported>>

\* The port may be used by something else: the rule is removed and the next port tried.
Listen ==
  /\ At("listen")
  /\ \/ /\ ~intr /\ Goto("execute")
        /\ tunnel' = [enabled |-> TRUE, forward |-> FALSE, socket |-> TRUE]
        /\ UNCHANGED <<port, rules, cut>>
     \/ ~intr /\ rules' = rules \ {<<"reverse", port>>} /\ UNCHANGED <<tunnel, cut>>
        /\ IF \E p \in Ports : p > port THEN port' = port + 1 /\ Goto("reverse")
           ELSE port' = First /\ Goto("forward")
     \/ intr /\ Goto("forward") /\ port' = First /\ cut' = TRUE /\ UNCHANGED <<rules, tunnel>>
  /\ Rest /\ UNCHANGED <<intr, processVars, connecting, reported>>

Forward ==
  /\ At("forward")
  /\ \/ /\ ~intr /\ Goto("execute")
        /\ tunnel' = [enabled |-> TRUE, forward |-> TRUE, socket |-> FALSE]
        /\ rules' = rules \cup {<<"forward", port>>} /\ UNCHANGED <<port, cut>>
     \/ intr /\ Goto("failed") /\ MayDo(<<"forward", port>>) /\ cut' = TRUE /\ UNCHANGED <<tunnel, port>>
     \/ ~intr /\ NextPort("failed") /\ UNCHANGED <<tunnel, rules, cut>>
  /\ Rest /\ UNCHANGED <<intr, processVars, connecting, reported>>

\* sc_adb_tunnel_close(): disabled whatever the command does.
CloseTunnel ==
  /\ tunnel' = NoTunnel
  /\ rules' = rules \ {<<IF tunnel.forward THEN "forward" ELSE "reverse", port>>}
  /\ UNCHANGED <<port, cut>>

-----------------------------------------------------------------------------
(* The process.                                                            *)

ExecuteServer ==
  /\ At("execute")
  /\ \/ Goto("observe") /\ process' = "running" /\ UNCHANGED tunnelVars
     \/ Goto("failed") /\ CloseTunnel /\ UNCHANGED process
  /\ Rest /\ UNCHANGED <<intr, observer, listening, connecting, reported>>

Terminate == process' = IF process = "running" THEN "killed" ELSE process

Observe ==
  /\ At("observe")
  /\ \/ Goto("connect") /\ observer' = "running" /\ attempts' = MaxAttempts
        /\ UNCHANGED <<tunnelVars, process>>
     \/ Goto("reap") /\ CloseTunnel /\ Terminate /\ UNCHANGED <<observer, attempts>>
  /\ Rest
  /\ UNCHANGED <<intr, listening, devConns, backlog, sockets, stored, closedConns, reported>>

InterruptsNothing == UNCHANGED intr

\* sc_server_on_terminated(): a client waiting for a connection would wait forever.
OnTerminated == intr' = TRUE

\* The observer's thread.
ObserverEnds ==
  /\ observer = "running" /\ process \in {"dead", "reaped"}
  /\ observer' = "ended" /\ OnTerminated
  /\ UNCHANGED <<params, srvPc, srvStopped, tunnelVars, process, listening, connecting, reported>>

-----------------------------------------------------------------------------
(* Connecting: sc_server_connect_to().                                     *)

Streams == Len(params.streams)

FailConnecting ==
  /\ Goto("terminate")
  /\ closedConns' = closedConns \o sockets /\ sockets' = <<>> /\ CloseTunnel

ConnectUnchanged ==
  /\ Rest /\ UNCHANGED <<intr, processVars, reported, stored>>

\* Reverse: one connection is accepted per stream.
Accept ==
  /\ At("connect") /\ ~tunnel.forward /\ Len(sockets) < Streams
  /\ \/ /\ ~intr /\ backlog # <<>>
        /\ sockets' = Append(sockets, Head(backlog)) /\ backlog' = Tail(backlog)
        /\ UNCHANGED <<srvPc, tunnelVars, closedConns>>
     \/ intr /\ FailConnecting /\ UNCHANGED backlog
  /\ UNCHANGED <<devConns, attempts>> /\ ConnectUnchanged

\* adb accepts a connection that leads nowhere: it works once a byte came through it.
Works == listening /\ process = "running"

\* Forward: the first socket is retried; sc_server_sleep() ends early with a stop.
ConnectFirst ==
  /\ At("connect") /\ tunnel.forward /\ sockets = <<>>
  /\ \/ /\ ~intr /\ Works
        /\ devConns' = devConns + 1 /\ sockets' = <<devConns'>>
        /\ UNCHANGED <<srvPc, tunnelVars, attempts, closedConns>>
     \/ /\ IF intr \/ srvStopped \/ attempts = 1 THEN FailConnecting /\ UNCHANGED attempts
           ELSE attempts' = attempts - 1 /\ UNCHANGED <<srvPc, tunnelVars, sockets, closedConns>>
        /\ UNCHANGED devConns
  /\ UNCHANGED backlog /\ ConnectUnchanged

\* Then the others, at once.
ConnectOther ==
  /\ At("connect") /\ tunnel.forward /\ sockets # <<>> /\ Len(sockets) < Streams
  /\ \/ /\ ~intr
        /\ devConns' = IF Works THEN devConns + 1 ELSE devConns
        /\ sockets' = Append(sockets, IF Works THEN devConns' ELSE Nowhere)
        /\ UNCHANGED <<srvPc, tunnelVars, closedConns>>
     \/ FailConnecting /\ UNCHANGED devConns
  /\ UNCHANGED <<backlog, attempts>> /\ ConnectUnchanged

\* device_read_info(): the device sends its name through the first socket once it has them all.
Info == devConns = Streams

\* The tunnel is closed, and the name is read.
ReadInfo ==
  /\ At("connect") /\ Len(sockets) = Streams
  /\ CloseTunnel
  /\ \/ /\ ~intr /\ Info
        /\ Goto("connected") /\ stored' = sockets /\ sockets' = <<>>
        /\ UNCHANGED closedConns
     \/ Goto("terminate") /\ closedConns' = closedConns \o sockets /\ sockets' = <<>>
        /\ UNCHANGED stored
  /\ Rest /\ UNCHANGED <<intr, processVars, reported, devConns, backlog, attempts>>

-----------------------------------------------------------------------------
(* The end.                                                                *)

TerminateProcess ==
  /\ At("terminate") /\ Goto("reap") /\ Terminate
  /\ Rest /\ UNCHANGED <<intr, tunnelVars, observer, listening, connecting, reported>>

\* The process is waited for, and then its observer.
Reap ==
  /\ At("reap") /\ process \in {"dead", "reaped"} /\ process' = "reaped"
  /\ IF observer # "running" THEN Goto("failed") ELSE UNCHANGED srvPc
  /\ Rest /\ UNCHANGED <<intr, tunnelVars, observer, listening, connecting, reported>>

OnConnected ==
  /\ At("connected") /\ Goto("wait_stop") /\ reported' = Append(reported, "connected")
  /\ Rest /\ UNCHANGED <<intr, tunnelVars, processVars, connecting>>

\* Once stopped, the sockets are interrupted, and the process has a second to end by itself.
WaitStop ==
  /\ At("wait_stop") /\ srvStopped /\ Goto("watchdog")
  /\ Rest /\ UNCHANGED <<intr, tunnelVars, processVars, connecting, reported>>

Watchdog ==
  /\ At("watchdog") /\ Goto("join")
  /\ IF observer = "ended" THEN UNCHANGED process ELSE Terminate
  /\ Rest /\ UNCHANGED <<intr, tunnelVars, observer, listening, connecting, reported>>

JoinObserver ==
  /\ At("join") /\ observer = "ended" /\ Goto("done") /\ process' = "reaped"
  /\ Rest /\ UNCHANGED <<intr, tunnelVars, observer, listening, connecting, reported>>

OnConnectionFailed ==
  /\ At("failed") /\ Goto("done") /\ reported' = Append(reported, "failed")
  /\ Rest /\ UNCHANGED <<intr, tunnelVars, processVars, connecting>>

ServerThread ==
  \/ StartServer \/ SelectDevice \/ GetIp \/ EnableTcpip \/ WaitTcpip \/ ConnectTcpip \/ PushServer
  \/ ExecuteList \/ WaitList \/ Reverse \/ Listen \/ Forward \/ ExecuteServer \/ Observe
  \/ Accept \/ ConnectFirst \/ ConnectOther \/ ReadInfo
  \/ TerminateProcess \/ Reap \/ OnConnected \/ WaitStop \/ Watchdog \/ JoinObserver
  \/ OnConnectionFailed

\* sc_server_stop(), from the main thread.
StopServer ==
  /\ ~srvStopped /\ srvStopped' = TRUE /\ intr' = TRUE
  /\ UNCHANGED <<params, srvPc, tunnelVars, processVars, connecting, reported>>

-----------------------------------------------------------------------------
(* The process on the device, external.                                    *)

DeviceUnchanged ==
  UNCHANGED <<params, srvPc, srvStopped, intr, tunnelVars, observer, sockets, attempts, stored,
              closedConns, reported>>

DeviceListens ==
  /\ process = "running" /\ ~listening /\ listening' = TRUE
  /\ DeviceUnchanged /\ UNCHANGED <<process, devConns, backlog>>

\* It connects one stream after the other through a reverse tunnel.
DeviceConnects ==
  /\ process = "running" /\ ~tunnel.forward /\ tunnel.socket /\ devConns < Streams
  /\ devConns' = devConns + 1 /\ backlog' = Append(backlog, devConns')
  /\ DeviceUnchanged /\ UNCHANGED <<process, listening>>

ProcessDies ==
  /\ process \in {"running", "killed"} /\ process' = "dead"
  /\ DeviceUnchanged /\ UNCHANGED <<listening, devConns, backlog>>

KilledDies == process = "killed" /\ ProcessDies
ListEnds == params.list /\ ProcessDies

Next ==
  \/ ServerThread \/ ObserverEnds \/ StopServer
  \/ DeviceListens \/ DeviceConnects \/ ProcessDies

\* Until it is interrupted the thread may wait forever, for adb or for the device.
Interrupted == intr /\ ServerThread

Spec ==
  /\ Init /\ [][Next]_srvVars
  /\ WF_srvVars(Interrupted) /\ WF_srvVars(ObserverEnds) /\ WF_srvVars(KilledDies)
  /\ WF_srvVars(ListEnds)

-----------------------------------------------------------------------------
\* Whatever fails and whenever the thread is interrupted, it ends with one report, the process
\* reaped and its observer joined, the tunnel closed and its rules removed (unless it was
\* interrupted while it set them up), and every socket closed or handed over.
EndsClean ==
  srvPc = "done" =>
    /\ Len(reported) = 1
    /\ process \in {"none", "reaped"} /\ observer # "running"
    /\ ~tunnel.enabled /\ ~tunnel.socket /\ (cut \/ rules = {})
    /\ sockets = <<>> /\ (stored = <<>> \/ closedConns = <<>>)
    /\ ~params.list => (reported = <<"connected">>) = (stored # <<>>)

\* The sockets handed over are the streams the device opened, in its order, even if it took
\* several attempts to reach it.
SocketsAreStreams == \A i \in 1..Len(stored) : stored[i] = i

\* A stop ends the thread wherever it is; and the death of the server wakes a thread that waits
\* for its connections.
ThreadEnds ==
  /\ srvStopped ~> srvPc = "done"
  /\ (srvPc = "connect" /\ process = "dead") ~> srvPc # "connect"
=============================================================================
