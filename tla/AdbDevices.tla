------------------------------ MODULE AdbDevices ------------------------------
(***************************************************************************)
(* The choice of the device: the output of "adb devices -l" is parsed line *)
(* by line (app/src/adb/adb_parser.c), one device is selected              *)
(* (app/src/adb/adb_device.c, app/src/adb/adb.c) with what the command     *)
(* line, ANDROID_SERIAL or the Wi-Fi setup ask for (run_server() of        *)
(* app/src/server.c), and its address is read from the output of           *)
(* "ip route".  A line is its sequence of words: what separates them is    *)
(* left out.                                                               *)
(***************************************************************************)
EXTENDS Naturals, Sequences

CONSTANTS
  SerialSet,   \* the serials: sequences of words, for a serial may contain spaces
  Host,        \* what precedes the ':', for each word that has one
  Emulators,   \* the words that start with "emulator-"
  TlsConnect,  \* the words that contain "adb-tls-connect"
  Requests,    \* the serials requested, with -s or ANDROID_SERIAL
  Addresses,   \* the addresses of the routes
  MaxLines,    \* bound: lines that "adb devices -l" prints
  MaxRoutes    \* bound: lines that "ip route" prints

VARIABLES
  output,      \* what adb prints, parsed: a sequence of [kind, serial, state]
  headerFound,
  vec,         \* the devices parsed
  lost,        \* the list could not be read, or a device was lost for want of memory
  selector,    \* [type, serial]
  choice,      \* [outcome: "none", "failed" or "selected", device]
  routes,      \* what "ip route" prints on the device: a sequence of [kind, src]
  ip           \* the address found, "none", "unread" or "failed"

adbVars == <<output, headerFound, vec, lost, selector, choice, routes, ip>>

\* is_device_state(), which does not know of "no permissions".
StateWords == {"device", "unauthorized", "offline"}

\* What adb prints for a line.
Words(l) ==
  CASE l.kind = "header" -> <<"List", "of", "devices", "attached">>
    [] l.kind = "daemon" -> <<"*", "daemon", "started">>
    [] l.kind = "server" -> <<"adb", "server", "killing">>
    [] l.kind = "device" -> l.serial \o <<l.state, "usb:2-1", "model:", "transport_id:1">>
    [] l.kind = "denied" -> l.serial \o <<"no", "permissions">>

\* The daemon may be started first, and an older one killed.
Garbage == [kind : {"daemon", "server"}, serial : {<<>>}, state : {"none"}]
Header == [kind |-> "header", serial |-> <<>>, state |-> "none"]
DeviceLines ==
  [kind : {"device"}, serial : SerialSet, state : StateWords] \cup
  [kind : {"denied"}, serial : {s \in SerialSet : Len(s) = 1}, state : {"none"}]

\* The selector depends on the parameters of the server, then on ANDROID_SERIAL, then on the
\* Wi-Fi setup.
Selectors ==
  [type : {"serial"}, serial : Requests] \cup
  [type : {"usb", "tcpip", "tcpip_preferred", "all"}, serial : {<<>>}]

Init ==
  /\ output = <<>> /\ headerFound = FALSE /\ vec = <<>> /\ lost = FALSE
  /\ selector = [type |-> "none"] /\ choice = [outcome |-> "none"]
  /\ routes = <<>> /\ ip = "unread"

-----------------------------------------------------------------------------
(* The parser.                                                             *)

\* The first word that is a state, as a parser reading forwards would find it.
FirstStateAt(words) ==
  LET known == {i \in 1..Len(words) : words[i] \in StateWords}
  IN IF known = {} THEN 0 ELSE CHOOSE i \in known : \A j \in known : i <= j

\* The state is the last word that is one: the words are read backwards, up to the first words,
\* which are the serial.
StateAt(words) ==
  LET known == {i \in 1..Len(words) : words[i] \in StateWords}
  IN IF known = {} THEN 0 ELSE CHOOSE i \in known : \A j \in known : j <= i

\* sc_adb_parse_device(): a line that has no state, or no serial, is no device.
ParseDevice(words) ==
  LET at == StateAt(words)
  IN IF words[1] = "*" \/ (words[1] = "adb" /\ words[2] = "server") \/ at <= 1 THEN {}
     ELSE {[serial |-> SubSeq(words, 1, at - 1), state |-> words[at],
            model |-> \E i \in (at + 1)..Len(words) : words[i] = "model:"]}

\* sc_adb_parse_devices(): everything is skipped until the header.
ParseLine(l) ==
  LET parsed == ParseDevice(Words(l))
  IN /\ choice.outcome = "none" /\ Len(output) < MaxLines /\ output' = Append(output, l)
     /\ headerFound' = (headerFound \/ l.kind = "header")
     /\ IF ~headerFound \/ parsed = {} THEN UNCHANGED <<vec, lost>>
        ELSE \/ \E d \in parsed : vec' = Append(vec, d) /\ UNCHANGED lost
             \/ lost' = TRUE /\ UNCHANGED vec
     /\ UNCHANGED <<selector, choice, routes, ip>>

\* External: adb prints the devices after the header.
AdbPrints ==
  \E l \in Garbage \cup (IF headerFound THEN DeviceLines ELSE {Header}) : ParseLine(l)

-----------------------------------------------------------------------------
(* The selection.                                                          *)

Colon(serial) == {i \in DOMAIN serial : serial[i] \in DOMAIN Host}

\* sc_adb_device_get_type()
Type(serial) ==
  IF serial[1] \in Emulators THEN "emulator"
  ELSE IF Colon(serial) # {} \/ \E i \in DOMAIN serial : serial[i] \in TlsConnect THEN "tcpip"
  ELSE "usb"

\* The IP part of a serial with a ':'.
IpPart(serial) ==
  LET first == CHOOSE i \in Colon(serial) : \A j \in Colon(serial) : i <= j
  IN Append(SubSeq(serial, 1, first - 1), Host[serial[first]])

\* A request without a ':' matches the IP part of a serial that has one.
Named(request, serial) ==
  IF Colon(serial) # {} /\ Colon(request) = {} THEN request = IpPart(serial)
  ELSE request = serial

\* sc_adb_accept_device()
Accept(d, sel) ==
  CASE sel.type = "all" -> TRUE
    [] sel.type = "serial" -> Named(sel.serial, d.serial)
    [] sel.type = "usb" -> Type(d.serial) = "usb"
    [] sel.type = "tcpip" -> Type(d.serial) # "usb"

\* sc_adb_devices_select_type()
OfType(usb) == {i \in DOMAIN vec : (Type(vec[i].serial) = "usb") = usb}

\* sc_adb_devices_select_tcpip_preferred(): an emulator counts as a network device.
Preferred == IF OfType(FALSE) # {} THEN OfType(FALSE) ELSE OfType(TRUE)

Matching(sel) ==
  IF sel.type = "tcpip_preferred" THEN Preferred ELSE {i \in DOMAIN vec : Accept(vec[i], sel)}

\* Exactly one device must match.
Single(matching) == \E one \in matching : matching = {one}

\* sc_adb_device_check_state()
CheckState(d) == d.state = "device"

\* sc_adb_select_device(): nothing to select from without the header or a device.
SelectDevice(sel) ==
  LET matching == Matching(sel)
  IN /\ choice.outcome = "none" /\ selector' = sel
     /\ choice' = IF headerFound /\ Single(matching) /\ \A i \in matching : CheckState(vec[i])
                  THEN [outcome |-> "selected", device |-> vec[CHOOSE i \in matching : TRUE]]
                  ELSE [outcome |-> "failed"]
     /\ UNCHANGED <<output, headerFound, vec, lost, routes, ip>>

\* sc_adb_list_devices(): adb fails, is interrupted, or prints more than the buffer holds.
ListFails ==
  /\ choice.outcome = "none" /\ choice' = [outcome |-> "failed"] /\ lost' = TRUE
  /\ UNCHANGED <<output, headerFound, vec, selector, routes, ip>>

-----------------------------------------------------------------------------
(* The address of the device, to connect to it over Wi-Fi.                 *)

\* What "ip route" prints: a default route, and those of the interfaces.
RouteWords(r) ==
  CASE r.kind = "default" -> <<"default", "via", r.src, "dev", "wlan0", "proto", "dhcp", "metric", "9">>
    [] r.kind = "cut" -> <<"net", "dev", "wlan0", "proto">>
    [] OTHER -> <<"net", "dev", r.kind, "proto", "kernel", "scope", "link", "src", r.src, "linkdown">>

Routes == [kind : {"default", "cut", "wlan0", "rmnet"}, src : Addresses]

\* sc_str_index_of_column(): the columns count from 0.
Column(words, col) == IF col < Len(words) THEN words[col + 1] ELSE "none"

\* sc_adb_parse_device_ip_from_line(): wlan0 stands for the names that start with "wlan".
IpFromLine(words) ==
  IF Column(words, 2) = "wlan0" THEN Column(words, 8) ELSE "none"

\* sc_adb_parse_device_ip(): the first line that gives one.
ParseIp(lines) ==
  LET found == {i \in DOMAIN lines : IpFromLine(RouteWords(lines[i])) # "none"}
  IN IF found = {} THEN "none"
     ELSE IpFromLine(RouteWords(lines[CHOOSE i \in found : \A j \in found : i <= j]))

\* sc_adb_get_device_ip()
GetDeviceIp ==
  /\ choice.outcome = "selected" /\ selector.type = "tcpip_preferred" /\ ip = "unread"
  /\ \/ /\ \E n \in 0..MaxRoutes : routes' \in [1..n -> Routes]
        /\ ip' = ParseIp(routes')
     \/ ip' = "failed" /\ UNCHANGED routes
  /\ UNCHANGED <<output, headerFound, vec, lost, selector, choice>>

Next == AdbPrints \/ (\E sel \in Selectors : SelectDevice(sel)) \/ ListFails \/ GetDeviceIp

Spec == Init /\ [][Next]_adbVars

-----------------------------------------------------------------------------
\* The devices attached, as adb means them.
Attached ==
  {[serial |-> output[i].serial, state |-> output[i].state, at |-> i] :
     i \in {k \in DOMAIN output : output[k].kind = "device"}}

OverNetwork(serial) ==
  \E i \in DOMAIN serial : serial[i] \in DOMAIN Host \cup Emulators \cup TlsConnect

\* What the selector asks for among them.
Meant ==
  CASE selector.type = "all" -> Attached
    [] selector.type = "usb" -> {d \in Attached : ~OverNetwork(d.serial)}
    [] selector.type = "tcpip" -> {d \in Attached : OverNetwork(d.serial)}
    [] selector.type = "serial" ->
         {d \in Attached : \/ d.serial = selector.serial
                           \/ /\ Len(d.serial) = 1 /\ d.serial[1] \in DOMAIN Host
                              /\ selector.serial = <<Host[d.serial[1]]>>}
    [] OTHER -> IF \E d \in Attached : OverNetwork(d.serial)
                THEN {d \in Attached : OverNetwork(d.serial)} ELSE Attached

\* Whatever adb prints around the devices, spaces in the serials and lines it cannot parse
\* included, the session starts with the one device meant, in a state to use it, and fails when
\* there is not exactly one; the Wi-Fi setup then connects to the first address over Wi-Fi.
DeviceIsTheOneMeant ==
  /\ choice.outcome # "none" /\ ~lost =>
       (choice.outcome = "selected" <=> Single(Meant) /\ \A d \in Meant : d.state = "device")
  /\ choice.outcome = "selected" /\ ~lost =>
       \A d \in Meant : choice.device.serial = d.serial /\ choice.device.state = d.state
  /\ LET wifi == {i \in DOMAIN routes : routes[i].kind = "wlan0"}
     IN ip \notin {"unread", "failed"} =>
          IF wifi = {} THEN ip = "none"
          ELSE \E i \in wifi : (\A j \in wifi : i <= j) /\ ip = routes[i].src
=============================================================================
