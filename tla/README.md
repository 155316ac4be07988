# Verification of dskcpy

TLA+ models of dskcpy, the fork of scrcpy that adds a *reverse display*: the
desktop of a computer is streamed to a phone, and the phone's touches are
injected into the desktop. Both directions are modelled: the reverse display,
and the mirroring client inherited from scrcpy. TLC checks the models on small
instances; TLAPS proves the theorems of section 6 for every value of the
constants. Paths are relative to the repository, those without a directory to
`app/src/`.

## 1. Inventory

### The reverse display

| Component | State it keeps | Operations | Module |
|---|---|---|---|
| **Stall watchdog** `reverse_watchdog.h` | `submitted_pts`, `acked_pts`, `deadline`, `paused`, `busy` | begin, submit, ack, end, set_paused, expired | `WatchdogOps`, `ReverseWatchdog` |
| **Windows host** `reverse_display.c`, `reverse_audio.c` | the atomics of `reverse_display_state`, two watchdogs, `send_mutex`, the window `pending_pts`, the SDL events | capture, encode, send, wait; audio; receive and dispatch; poll, stop, join | `ReverseDisplay` |
| **Touch injection** `reverse_display.c:1460-1860` | `touch_contacts`, `primary_pointer_id`, `use_mouse_fallback`, `mouse_fallback_active` | DOWN, POINTER_DOWN, MOVE, UP, CANCEL, scroll, cancel | `TouchOps`, `ReverseTouch` |
| **Phone control queue** `server/.../control/DeviceMessageSender.java` | `queue`, `stopped`, the thread | send, take, stop | `DeviceMessageSender` |
| **Phone session service** `server/.../reverse/ReverseSessionService.java` | generation, phase, visibility, surface, decoder, transport, VPN address | start, connect, surfaces, visibility, stop, VPN check, destroy | `SessionService` |
| **Phone decoder and audio** `ReverseDisplay.java`, `ReverseAudio*.java` | codec, pending frames; bounded buffer, switches | read, decode, acknowledge; queue, play, disable | none yet |
| **Internet receiver and bridge** `InternetReceiver.java`, `gui/server/internet.mjs` | one-use secret, failures, deadline | accept, authenticate, bridge | none yet |
| **GUI service**, **browser bridge** `gui/` | stream process, timers, frame window | start, stop, force, reconnect; relay | none yet |
| **macOS host** `reverse_display_macos.m` | as the Windows host, over ScreenCaptureKit | as the Windows host | none yet |

The host sends one byte stream on the *video socket*; the phone answers on the
*control socket* with acknowledgements, touches and session actions, all through
`DeviceMessageSender`. Inside the host four threads share atomics, two mutexes
and one socket. On the phone, handlers on the main looper share the session with
connecting and decoding threads, which call back by posting to the looper.

### The mirroring client

| Component | State it keeps | Module |
|---|---|---|
| **Main program** `scrcpy.c`, `util/timeout.c` | what is initialised, the cleanup, the threads | `ScrcpyMain` |
| **Server and adb tunnel** `server.c`, `adb/adb_tunnel.c`, `util/intr.c` | thread, process and its observer, tunnel, sockets, interruptor | `Server` |
| **Choice of the device** `adb/adb_parser.c`, `adb/adb_device.c`, `adb/adb.c` | the devices parsed, the selector | `AdbDevices` |
| **Demuxer, merger, decoder** `demuxer.c`, `packet_merger.c`, `decoder.c`, `trait/` | sinks open, the pending configuration | `Demuxer` |
| **Video output** `video_regulator.c`, `frame_buffer.c`, `screen.c` | delay queue, one pending frame, posted events, pause | `VideoOutput` |
| **Audio output** `audio_player.c`, `audio_regulator.c`, `util/audiobuf.c` | ring buffer used without a lock | `AudioRegulator` |
| **Recorder** `recorder.c` | two queues, header, packet held back | `Recorder` |
| **V4L2 sink** `v4l2_sink.c` | one frame, a thread | `V4l2Sink` |
| **Queues** `util/vecdeque.h` | growable ring | `VecDeque`, `Fifo` |
| **Input manager** `input_manager.c`, `mouse_sdk.c` | modifiers, buttons, virtual finger, pause | `InputManager` |
| **Keyboards and mice** `keyboard_sdk.c`, `uhid/keyboard_uhid.c`, `hid/hid_mouse.c` | keys, CapsLock of both sides, scroll residue | `KeyboardSdk`, `KeyboardUhid`, `HidMouse` |
| **Controller, gamepads** `controller.c`, `uhid/gamepad_uhid.c`, `hid/hid_gamepad.c` | bounded queue, last size, slots | `Controller` |
| **Receiver** `receiver.c`, `device_msg.c`, `events.c` | partial message, tasks of the main thread | `Receiver` |
| **AOA HID, acksync** `usb/aoa_hid.c`, `util/acksync.c` | event queue, devices, last acknowledgement | `AoaHid` |
| **OTG, USB** `usb/scrcpy_otg.c`, `usb/usb.c` | handle, event thread, notification flag | `Otg` |
| **Orientation** `options.c`, `screen.c` | orientation and frame size | `Orientation` |
| **Screen end** `fps_counter.c`, `disconnect.c`, `screen.c` | two threads, an icon | `Disconnection` |
| **File pusher** `file_pusher.c` | queue, adb process | `FilePusher` |

The main thread owns the window and the input; one thread per stream reads its
socket and pushes to its sinks; regulators, recorder, V4L2, controller, receiver,
AOA, USB, file pusher and server have a thread each. They meet in queues under a
mutex, in SDL events, and in the order of stops and joins at the end.

### What is hard, and what makes each part correct

Threads blocked on a phone that does not read; acknowledgements that are early,
late, repeated or bogus; a refresh requested between a test and its consumption;
contacts, keys and buttons that must be released however a gesture or a session
ends; coalescing that may swallow the wrong message; callbacks of a session that
is over; a frame whose event was lost; a ring buffer read while it is trimmed; a
stop between any two steps of an initialisation; objects destroyed under a thread.

So: the watchdog fires on a stall and only then; the host has no more in flight
than its window, never interleaves packets, always joins its threads; nothing
stays pressed behind the user's back; a queue delivers the final state; a session
is affected by its own callbacks only; a recording holds what was accepted, in
order; every frame has its event; what is acquired is released once, and last by
its last user. `PROJECT.json` lists every hazard with its line and properties.

## 2. Plan

Done, in this order: the watchdog and its detector; the Windows host composed with
two watchdogs; touch injection; the phone's queue; the session service; then the
mirroring client: media (`Recorder`, `Demuxer`, `VideoOutput`, `AudioRegulator`,
`V4l2Sink`), the ring buffer refining a FIFO, input (`Orientation`, `Controller`,
`Receiver`, the keyboards and mice, `AoaHid`, `InputManager`), lifecycle (`Server`,
`AdbDevices`, `ScrcpyMain`, `FilePusher`, `Disconnection`, `Otg`).

Next:

1. `ReverseAudio`: the phone's bounded buffer and player, whose error path may
   leave the switch requested but off.
2. `ReverseDecoder` and the composition `ReverseSession` of host, control queue and
   decoder: the window of two frames and the backpressure of two must not wait for
   each other; end-to-end liveness.
3. `InternetPairing`: attempts, deadline and one use; `StreamService`:
   `service.mjs` around its asynchronous steps; `BrowserBridge` with its client.
4. On the phone: `CaptureReset`, `PointersState`, `UhidManager`.
5. Compositions of the client: `Demuxer` with `Recorder` and `VideoOutput`.
6. Proofs of the compositions of 2 and 5. Every safety property of the runs as they
   are is proved.

## 3. The modules

One module per component: VARIABLES are its fields, program points name where a
thread may be interleaved, an action is one access to shared state, or a whole
section under a mutex when nothing in it blocks. A failure the code handles is an
alternative of its step. Each module's header comment says what is abstracted.

An operator that stands directly before the definition it varies and is used by
nothing (`EndAlwaysDisarms` before `End`) is that operation with a plausible bug.
`PROJECT.json` says which property of which run notices it.

- **`WatchdogOps`**: the functions of `reverse_watchdog.h` on a record. Time is an
  argument: absolute in `ReverseWatchdog`, relative (`Present`, `Closer`) in
  `ReverseDisplay`, which so needs no clock bound.
- **`ReverseWatchdog`**: one watchdog, its sender, a receiver told any pts at any
  time, and the clock. `progress` is a history variable. **`StallDetector`** is what
  the watchdog promises, without clocks, deadlines or comparisons of pts;
  `ImplementsDetector` instantiates it with the unacknowledged frames and the time
  since `progress`.
- **`ReverseDisplay`**: `sc_reverse_display_run()` and its threads. Sections under
  `watchdog_mutex` are single steps; `send_mutex` is a variable, being held over
  blocking writes. The phone is the environment: any message of `PhoneTypes`, any
  pts, reading or not, vanishing.
- **`TouchOps`**, **`ReverseTouch`**: each injection function on a record that also
  holds what Windows was told, and the gestures that reach it, in order but lossily.
- **`DeviceMessageSender`**: `send()`, the thread that takes under the monitor and
  writes without it, the callers, and, in `host`, the net effect at the computer.
- **`SessionService`**: handlers run to completion on the looper, except that
  `stopSession()` may wait for `transportLock`. Sessions, threads and transports are
  identified by the token of `ReverseSessionState.begin()`.
- **`Recorder`**: both sinks and the thread; `accepted` and `muxed` are histories. It
  assumes that the sinks open after the file context is allocated; nothing in the
  code orders them, but a connection and a device lie between. `lastLost` is the one
  failure of a write that the code tolerates.
- **`Demuxer`**: one stream with its sinks, behind the decoder or not. A packet
  carries the number of the configuration merged in front of it. A session the source
  does not pass on to a sink (`Ignores`) is given to it nevertheless, for what a sink
  has seen to be comparable with the stream; it cannot be refused.
- **`VideoOutput`**: decoder thread, regulator thread and main thread; a frame is its
  number and session. **`V4l2Sink`**: the other consumer of a frame buffer.
- **`AudioRegulator`**: `head`, `tail` and the copies are separate steps, so the
  writer that trims under `mutex` meets the reader anywhere.
- **`VecDeque`**: the index arithmetic; **`Fifo`** is what it promises, with the
  contents read off the ring as the refinement mapping.
- **`Orientation`**: drawing (`Drawn`) and clicking (`FrameCoords`) as two functions
  written from two places of the code, on any size.
- **`Controller`**: the queue with its limit, gamepads, and Android's UHID devices.
  **`KeyboardUhid`**, **`HidMouse`**, **`KeyboardSdk`**, **`AoaHid`**, **`InputManager`**,
  **`Receiver`**: the user's events to the end, the device's state being kept beside.
  `crossings` is a history of `InputManager`: why a button's press and release went
  different ways. The keyboards and the mouse push their reports to a queue that may
  refuse any of them, at any time and for whatever reason: which messages a full queue
  refuses is in `Controller`.
- **`Server`**: the thread, the stop, the observer, the device that listens or
  connects; `rules` is what adb was told. **`AdbDevices`**: lines are sequences of
  words, and `Meant` states what a selector asks for without parsing.
- **`ScrcpyMain`**: the ladder of initialisations and the list of the cleanup; `Uses`
  is what a running thread may touch. **`Disconnection`**, **`FilePusher`**, **`Otg`**.

`MCReverseTouch`, `MCReverseDisplaySessions`, `MCReverseDisplayEnds` and
`MCDeviceMessageSender` add model values, symmetry and a second instance with other
constants, chosen by a rigid variable; the other runs of the host check
`ReverseDisplay` as it is. **`MCMedia`**, **`MCInput`**,
**`MCLifecycle`** are suites: the rigid variable `which` names the component that a
behaviour runs; the others stay in a fixed initial state and cost nothing. A
property of a suite is the conjunction of its modules' own. `*Proofs` modules hold
the theorems.

## 4. The runs

| Run | Question | Bounds |
|---|---|---|
| `watchdog` | Does it fire exactly on a stall, and implement the detector? | timeout of 3 ticks, pts 0..2, 9 ticks: a deadline expires, is re-armed and expires again |
| `touch` | What is pressed on the desktop, and when it no longer is | three pointers and an array of two, so it overflows, messages lost, `SendInput` failing; then one finger with `InjectTouchInput` failing at any call |
| `touch_two_fingers` | The documented release, with the fallback | two fingers; **violated**, see 7 |
| `display_flow` | Flow control, the video watchdog, refreshes | the real window of two, an encoder that holds one frame, three captures: one more than fits is tried |
| `display_sessions` | Framing, watchdogs, contacts, a normal end | video and audio on a socket that holds two packet parts, so each blocks on the other's; then all commands of the phone |
| `display_progress` | Stalls end, refreshes are served | two captures: one to fill the window, one for the refresh; the phone never enables audio, so the audio thread only waits and ends with the session |
| `display_ends` | Are all threads joined? | a frame and the packets that begin and end a stream of sound, on a socket that holds two packet parts and whose phone reads the configuration only: either sender holds `send_mutex` blocked on the socket while the other waits for it; then a capture that pauses, sends or waits, in front of a phone that reads |
| `sender` | Does the computer agree with the phone? | capacity 2, so that it overflows; every kind of message with two switches, and an end at any time; then two fingers, a PAUSE and a RESUME |
| `media` | Is what the device captured recorded, shown and heard? | two or three items per stream, rings of three samples and up to five items, two sessions, three pauses: each queue overflows and wraps |
| `input` | Does the device hold and type what the user means? | four or five events, the default bindings of the buttons, a queue of one, one gamepad slot for two gamepads, one key slot for two keys, all eight orientations on three sizes |
| `lifecycle` | Does everything connect as meant, and end? | three lines of adb, two ports, two attempts, three files, four toggles, four generations; every step failing and every moment to stop |
| `fps_counter_join` | The assertion of `sc_fps_counter_join()` | four toggles; **violated**, see 7 |

What the bounds leave out. The messages of the phone are split between the display
runs: they interact only through flags and watchdogs the runs share. pts are only
compared; the capture loop returns to the same point. The timeout is one tick in the
display runs, since a longer one only delays expiry; `watchdog` covers durations.
Every constant that is a bound and not a constant of the code says so where declared.

The suites and `fps_counter_join` do not check deadlock: a session or a stream ends,
and nothing follows.

### What the properties say

- `ExpiredIffStalled`, `OnlyProgressExtends`, `ImplementsDetector`: acknowledgements
  that are old, repeated or ahead of the stream, and repeated pauses, never disarm
  or postpone the watchdog. `WatchdogsFollow`, `WatchdogsArmed`: the same under the
  interleavings of four threads, and the suspended streams are those not sent.
- `FlowControlled`: the assertion before `pending_pts` is written never fails.
  `RefreshNotLost`, `RefreshServed`: a resume's request survives until an IDR.
  `WellFramed`: every header is followed by its own payload. `PhoneStopIsNormalEnd`:
  about what the main loop's wait returns; a watchdog that expires in that moment is
  not excluded. `StallEndsSession`, `ShutdownCompletes`: liveness of the host.
- `ContactsConsistent`, `NativeContactsMatch`, `TouchReleased`, `ButtonTracked`,
  `OneFingerReleased`, `ContactsReleased`: what is pressed on the desktop.
- `QueueOrdered` (`QueueBounded`, `UrgentFirst`, `StopIsLastSessionAction`),
  `ComputerAgrees` (`StateDelivered`, `NoGhostContact`), `ThreadEnds`: the phone's
  queue.
- `RecordingFaithful` (`RecordingComplete`, `TimestampsIncrease`), `SinksInStep`
  (`SinksAgree`, `SinksClosed`, `V4l2InStep`), `FramesShown` (`FrameHasItsEvent`,
  `SessionOfFrame`), `NeverGoesBack`, `AudioHeard` (`HeardInOrder`, `DropMakesRoom`,
  `LatencyBounded`), `ImplementsFifo`, `MediaProgress` (`RecordingEnds`,
  `FrameTaken`).
- `ClickLandsOnPixel`, `DevicesInSync` (`UhidValid`, `GamepadsInSync`,
  `AllUnregistered`), `InputKept` (`KeysFollow`, `TypedInCase`, `TypedOnce`,
  `ScrollConserved`; a report that was refused is the exception of each),
  `PasteIsCurrent`, `HeldTogether`, `StreamReassembled`, `InputProgress`
  (`LastSizeSent`, `StopEnds`).
- `ReleasedOnce` (`EndsClean`, `DestroyedAfterUse`, `AllReleased`, `FreedOnce`,
  `IconFreed`, `OtgOwnership`), `ConnectsAsMeant` (`SocketsAreStreams`,
  `DeviceIsTheOneMeant`), `ServiceOwnsSession`, `EndsForItsOwnReason`,
  `EverythingEnds` (an ending property of each component).

Each is stated in words where it is defined. Where the code has an exception the
property names it: see the observations in section 7.

## 5. Fairness

Weak fairness only, of threads the scheduler runs; users, phones and devices
promise nothing, and a blocked call is a step that is not enabled.

- `ReverseDisplay`: its threads, and time passes; of the input thread only what it
  does about a message already received or a closed socket.
- `DeviceMessageSender`: the started thread runs, a constructed one is started.
- `SessionService`: the looper finishes its handlers and runs what was posted or
  delayed; a thread that holds `transportLock` returns it. Nobody need connect, and
  closing a `LocalServerSocket` need not wake its `accept()`.
- `Recorder`, `VideoOutput`, `Controller`, `AoaHid`, `Otg`, `FilePusher`,
  `Disconnection`: their threads; the main thread where it is about to join. libusb
  returns from its loop only if something wakes it; a killed adb ends, one that is
  not may run for ever.
- `Server`: the thread once it is interrupted, the observer, a killed process, and a
  server that only lists. Uninterrupted, it may wait for adb for ever.
- `ScrcpyMain`: the main thread; a thread told to stop, or whose socket is shut down.

The suites repeat these, guarded by `which`.

## 6. What is proved

For every value of the constants that satisfies the named assumptions, which say
only that bounds are naturals, flags are Booleans, sizes are pairs of naturals and
pointer sets are finite:

- `ReverseWatchdogProofs`: `TypeCorrect`, `AckedIsSubmitted`, `AlwaysArmed`,
  `ExpiryIsExact`, `DeadlineOnlyExtendedByProgress`, `WatchdogImplementsDetector`, from
  a lemma for each operation of the record (`ReverseDisplayProofs` proves them of its
  own two watchdogs, with what each operation leaves alone).
  The inductive invariant adds to type and `Inv` that an armed deadline is
  `progress + StallTimeout` and that `progress` is not in the future; without the
  former, exactness says nothing about the next step. In the refinement a bogus
  acknowledgement maps to a stutter, `Tick` to `Wait` or a stutter.
- `ReverseTouchProofs`: `TypeCorrect`, `ContactsAreConsistent`,
  `NativeContactsAgree`, `ButtonIsTracked`; `NativeContactsReleased` if
  `InjectTouchInput` never fails; `OneFingerReleases` for one finger at a time and a
  `SendInput` that never fails, though `InjectTouchInput` may fail at any call. The
  invariant is about the record alone, one lemma per operation; it adds that a paused
  or ended session tracks no contact. For one finger it is strengthened: only the
  primary contact is ever tracked, and the button is down only with it. The lemmas
  take the limits as parameters, and `SameOperations` says that those of the run's
  instance for one finger are the same operations.
- `InputProofs`: `ClickLands`, `StreamIsReassembled`, `InputIsKept`,
  `PastesAreCurrent`, `TouchIsHeldTogether`, `DevicesStayInSync`, over the composition
  `InputSpec` of the run. Each component has an inductive invariant of its own; a step
  of the composition is a step of one and a stutter of the others (`InputSteps`), so
  the conjunction is inductive (`InputInvariant`).
  - *Orientation*: what the user sees is the followed point drawn under the current
    orientation. A click inverts the drawing for any size, and composing with a
    shortcut turns the drawn point as the shortcut says.
  - *Receiver*: `Conserved`, that some places in the stream end the messages and what
    is parsed, buffered and in the network adds up to the last. So a message that is
    not complete leaves room in the buffer, because it would fit.
  - *Keyboards and mouse*: with reports on the wire, the last one holds the keys of
    now, unless the report of the last key was refused (`KeysInv`). From a CapsLock at
    rest on, the one report that flips it is the first on the wire, or has been read
    and is acknowledged by the LEDs still to come, so that the guess stays right until
    CapsLock is pressed again (`CapsInv`). A press was injected or refused by each of its
    events that is no longer queued and by no other, and of these exactly one injects
    it (`Accounted`). What scrolled, what was refused and the residue add up.
  - *AoaHid*: the clipboards on their way increase above the one the device has, and
    an input that waits was woken by one it has (`Synchronized`); the opens and closes
    of a device alternate, from what the thread has opened to the end of the queue, and
    one that is unplugged is closed at last (`Alternate`): so `open` never finds a
    device open, and the thread forgets nothing it must unregister (`Remembered`).
  - *InputManager*: as long as nothing crossed, the buttons pressed for the code are
    those the user clicks with, by exactly one of the mouse pointer and the finger, and
    the virtual finger exists with it, mirrored (`InTouch`), for all bindings.
  - *Controller*: every message pending applies to the devices its predecessors leave,
    and the last devices are those of the slots (`Delivers`). A message dropped from a
    full queue is a report, which changes no device's presence.
- `ReverseDisplayProofs`: `FlowControl`, `WatchdogsAreArmed`,
  `WatchdogsFollowTheSession`, `RefreshIsKept`, `StreamIsFramed`,
  `ContactsAreReleased`, `PhoneStopEndsNormally`, all from one inductive invariant,
  `Invariance`, with a lemma per thread. None of the properties is inductive alone;
  what the invariant adds is the order in which each thread writes shared flags:
  a pause sets its flag before it suspends the watchdogs and a resume wakes them
  before it clears the flag (`Suspended`); a refresh is requested before the capture
  thread may run again (`Refreshing`); the mutex is held exactly while its owner
  writes (`Locked`), so the last part on the socket belongs to the thread that is
  about to write its payload (`Framed`). Flow control is a matter of counting:
  between captures what is sent is covered by the window, during one by the window
  and that capture (`Windowed`, `Counted`), because the capture thread passes a full
  window only to stop; `Numbered` and `Acknowledged` relate pts, the encoder, the
  pending list and both watchdogs.
- `LifecycleProofs`, the session service: `ServiceOwnsItsSession`, and the action
  property `SessionEndsForItsOwnReason`. The invariant says, for each point the looper
  may be at, what it knows of the session (`Phased`), that the only open transport is
  the published one (`Published`), and that no thread is older than its session
  (`Aged`); so a late thread of an ended session finds its token stale.
- `LifecycleProofs`, the components that find a device, connect to it and end:
  `EverythingIsReleasedOnce` and `SessionsConnectAsMeant`, over the composition
  `LifecycleSpec` of the run; `LifecycleRunsTheService` says that the theorems on the
  service hold there too. Each component has an invariant of its own, and
  `LifecycleInv` is their conjunction.
  - *Server*: which of the process, the observer, the tunnel's rules and the sockets
    each point of `run_server()` holds (`ProcessOwned`, `TunnelOwned`,
    `SocketsOwned`); and that, through a reverse tunnel, the sockets accepted and the
    connections that wait are those of the device in order, while through a forward
    one a socket that leads nowhere leaves the count short, so that the session fails
    instead of mixing up its streams (`InOrder`).
  - *Main program*: before the cleanup the objects alive are those of the steps passed
    (`Made`), the AOA ones without their flags until they are all initialised; in the
    cleanup whatever is alive has its turn to come, whatever runs is still to be
    joined (`Cleaned`), and `JoinedFirst` compares the two orders, the joins and the
    destructions, object by object. The exceptions are those of the property: acksync
    after a failed selection, and what the file pusher and the receiver may use.
  - *File pusher*: a name belongs to the queue, to the thread, or was freed once
    (`Owned`).
  - *OTG*: the handle and what is built on it stay open as long as the event thread or
    the AOA thread runs, and each object has its turn in the cleanup (`Opened`).
  - *Choice of the device*: unless a line was lost, the devices parsed correspond one
    to one to the devices listed (`Parsed`), for a state is the last word that is one
    (`DeviceLineParsed`); what the selection matches then corresponds to what was
    meant (`SelectMeans`), so one is single if and only if the other is
    (`SameSingle`). `AdbAssumption` says that only the first word of a serial makes
    it an emulator's and that `none` and `wlan0` are no addresses.
- `DeviceMessageSenderProofs`: `QueueIsOrdered`, `ComputerAgreesWithPhone`, for any
  capacity and any number of fingers. `RemovedKeeps` characterises what
  `Iterator.remove()` leaves, by the least place at which the recursion would not.
  The order is a relation on pairs of waiting messages (`PairOK`), kept by every edit
  of `send()`; that a queue so ordered has five messages at most beside its inputs is
  a pigeonhole argument, that inputs never exceed the capacity one about injections.
  Agreement is stated for the messages on their way: the last announcement of each
  kind waits, or is being written, or is what the computer knows (`StopAgrees`,
  `VideoAgrees`, `AudioAgrees`, `AcksAgree`); and what begins a contact whose finger
  left is followed by something that ends it (`ContactsAgree`). A RESUME may purge an
  UP only because, by `VideoAgrees`, the PAUSE before it has released the contacts.
- `MediaProofs`, the ring buffer: `ShapeKept`, that origin, size and capacity stay in
  range; and `RingIsFifo`. The refinement reads the contents off the ring; pushing
  and popping follow from arithmetic modulo the capacity, growing and reserving from
  the two parts that `memcpy` moves, each of which is one lemma.
- `MediaProofs`, the video output: `FramesAreShown` and `WindowNeverGoesBack`. The
  places a frame passes (decoder, regulator, frame buffer, window, paused window) are
  ordered (`Ordered`, `Queued`); the buffer holds a frame not yet taken exactly when
  one event is on its way or being handled (`Events`, `OneEvent`); the first frame of
  a session does not pass the regulator (`FirstDirect`), which is why one from before
  a rotation cannot come after it (`SessionsOrdered`).
- `MediaProofs`, the audio output: `AudioIsHeard`. The samples stand in line: the last
  one heard, those the reader has copied, those in the ring, those still to be
  written (`InLine`); a step moves some along or takes some out, so their order is
  kept. What the interleaving must not break is the ring itself: the reader holds
  the mutex while it reads, so what it copied is still there when it publishes the
  tail (`Reading`); the writer writes without the mutex in the room it has seen, which
  the reader can only enlarge (`Dropping`), so what it copied is still there when it
  publishes the head (`Copied`). `AudioAssumption` says that the sizes are numbers and
  that the buffering before playback starts is the smaller of the two limits.
- `RecordingProofs`, the recorder: `RecordingIsFaithful`. Every media packet accepted is
  muxed, held back for its duration, in hand or in the queue, in this order (`Kept`);
  configuration packets lie between those of the queue, so `Counted` numbers the media
  packets among them. When the queues are drained nothing is left but the packet held
  back, the one whose loss is tolerated (`AllMuxed`). `RecorderAssumption` says that
  the bounds are numbers and that a unit of the muxer's time base is at least one
  microsecond.
- `RecordingProofs`, the demuxer and the V4L2 sink: `SinksStayInStep`. What remains to be
  opened or pushed is always the end of the list of sinks (`Rest`), so the item of now
  has been given to those before and no other (`Given`); the packet the merger holds
  is the configuration that the next media packet needs (`Merging`). Every frame up
  to some rank has passed the decoder, and the packets above it are in the codec
  (`FramesUpTo`). In the V4L2 sink, whatever is further on its way is older
  (`V4Ordered`).

TLC checked the invariants of `ReverseDisplay`, `SessionService` and the other lifecycle
components, `DeviceMessageSender`, the media and the input components on the instances
of the runs before they were proved.

Model-checked only: every liveness property (`StallEndsSession`, `RefreshServed`,
`ShutdownCompletes`, `ThreadEnds`, `MediaProgress`, `InputProgress`, `EverythingEnds`),
which is out of the prover's reach.

## 7. Findings

**`touch_two_fingers`.** `doc/reverse-display-validation.md:57` says: "Touch contacts
and mouse fallback release; ordinary mouse movement does not continue dragging." In
the mouse fallback they do not. `reverse_inject_mouse_frame()`
(`reverse_display.c:1623-1634`) presses the button for whatever contact finds it up,
and lifts it only for the UP of the primary one; so the last contact to be removed may
leave it pressed. There are two shortest ways, of six states each, and TLC prints the
one its workers find first:

- *The primary finger is lifted first.* DOWN p1 presses the button, p1 is primary;
  POINTER_DOWN p2 is tracked. UP p1 lifts the button, and there is no primary any
  more. UP p2, not of the primary contact, finds the button up and *presses* it; then
  p2 is removed.
- *A scroll comes between.* DOWN p1 presses the button; a scroll of the browser
  cancels the contacts and lifts it, though p1 stays on the glass. POINTER_DOWN p2
  finds the button up and presses it, with no primary contact. UP p2 is not of the
  primary contact and does not lift it; then p2 is removed.

In both no contact is left when the session ends: the pause, stop or disconnection
calls `reverse_cancel_touches()`, which returns at once as `touch_contact_count` is 0
(`reverse_display.c:1680-1683`), before it looks at `mouse_fallback_active`. The button
stays down.

`OneFingerReleases` proves that two fingers are needed.

**`fps_counter_join`.** `fps_counter.c:154-156` asserts, "interrupted must be set by
the thread calling join(), so no need to lock for the assertion", that the counter
was interrupted. After a disconnection `scrcpy()` interrupts the counter
(`scrcpy.c:963`), then shows an icon for two seconds, during which the input manager
still handles MOD+i: `sc_fps_counter_start()` sets `interrupted` back to false, and
the join finds it so. Without assertions the join waits for a thread nobody ends.

Observations, where no text of the repository says otherwise; the properties name
them as exceptions or the models contain them:

- an offline network entry of adb hides the USB device that the Wi-Fi setup would
  fall back to (`server.c:1120`, hazards);
- `DestroyedAfterUse`: the file pusher's thread is joined after the controller it
  pushes to is destroyed, the receiver's after acksync (`scrcpy.c:1023-1051`);
- `AllReleased`: acksync is not destroyed when no USB device is selected;
- `EndsClean`: an interrupted adb command may have been carried out, and its tunnel
  rule then stays;
- `FreedOnce`: the path of a scan message the controller refuses is not freed;
- `KeysFollow`, `TypedInCase`: a queue that is full refuses the report of a key, which
  is only logged (`uhid/keyboard_uhid.c:29`): the key is lost, or stays held on the
  device, until the next report that is not refused. If the report that presses
  CapsLock to synchronize it passes and that of the key is refused, the device holds
  CapsLock until then;
- `TypedInCase` starts with CapsLock at rest on both sides: when a report and a LED
  answer cross, the guess may be wrong and keys are typed in the other case, which the
  code calls inherently racy (`uhid/keyboard_uhid.c:41`);
- `ScrollConserved`: what a refused report would have scrolled is lost for good, for
  the residue was consumed before (`uhid/mouse_uhid.c:25`). `TypedOnce`: a key or a
  text that is refused, or a text that finds no memory, is never typed
  (`keyboard_sdk.c:292-326`);
- `RecordingComplete`: the last video packet may be missing from a recording reported
  as complete, as the write that fails is tolerated (`recorder.c:436-442`);
- `RecordingEnds`: the audio sink, unlike that of the video, does not look at
  `stopped`; opened when the recorder's thread has written the header or has freed
  the context, it creates a stream in it (`recorder.c:656-658`). What follows is
  undefined, and the model says no more about such a run (`"undefined"`);
- `HeldTogether`: the pause, or modifiers that change, may split a press from its
  release, which the device then never gets; and a second button that clicks while the
  virtual finger is down moves the one generic finger (`use_finger`,
  `input_manager.c:944`), so its release lifts the finger while the first button is
  held (`"shared"`; with the default bindings, Shift and the right button);
- `crashed` in `InputManager`: the handler of the wheel tests the keyboard processor
  and uses the mouse's, which `--mouse=disabled` leaves null (`input_manager.c:1014`).

## 8. Not modelled

Positions, pixels, samples and text beyond what section 3 says; option handling,
window geometry and drawing; the encoders and codecs beyond how many frames they
hold; cursor and keyboard injection of the reverse display; notifications; the
overflow of 64-bit clocks and pts; the serialisation of messages. What Windows does
with a native contact that is no longer updated is outside the repository, so native
properties are stated while touches are native. Running out of memory is modelled
where a queue grows, in `VecDeque`, `Controller` and `Recorder`.

The phone's decoder, audio player, controller and capture, the Internet receiver's
authentication, the GUI's services and browser client, and the macOS host are not
modelled yet (section 2). `PROJECT.json` gives each component's status with the
reason.
