# capture2cloud in TLA+

A verification development of capture2cloud: a server that captures a game
console's HDMI output, streams it to browsers and native clients (Switch,
Wii U, 3DS, Android), merges every player's controller into one, and hands
that one to the console through a Titan Two or through Bluetooth ("pcble").

The modules below are translated from the C, C++ and Kotlin sources. Paths are
relative to the repository's root (`src/` in `PROJECT.json`); `PROJECT.json`
gives for every definition the lines it models, and for every property the run
that checks it and a plausible bug of the code that would break it.

Running the checks:

    tlc -workers 2 -config PcbleSessions.cfg MCPcbleRecovery.tla
    tlapm PcbleRecoveryProofs.tla

## 1. The system

| component | its state | its operations | talks to |
|---|---|---|---|
| main loop (`server/capture2cloud.c`) | the open capture device, the format to reopen with, the settings "want/have" pairs, the last attempt to open | take a format request, open, read a frame, notice a lost card, feed watch, audio and encoders, service the controller backend, poll the pad's program | everything below, once per pass |
| capture device and change watch (`server/video_capture.c`) | one requested format; the watch: on/off, reference picture, streak, frames waited, report | request/take a format; arm, feed, take | arming by the wake threads, the rest by the main loop, without a lock |
| controller merge (`server/gamepad_bridge.c`) | a table of eight sources with their age, the calibration | update, forget, set shaping, reset, wake | called by every transport's thread; calls one backend, outside its mutex |
| pcble output (`server/output_pcble.c`) | the recovery (requested, active, owned, suspended, attempt, not-before), the session (launcher, stopping), the link | reset, service, start/stop a session, suspend for a wake; a worker thread and one waiter thread per helper | the helper process, the GTK page, the wake threads |
| pcble backend (`pcble_backend/`) | the adapter's borrowed settings, the two L2CAP channels, a hand-off, pressed ticks, control clients | start, accept, reconnect, pair, hand over, stop, clean up; the wake programs and their script | Bluetooth, the desktop by its control socket |
| wake methods (`server/reset_method.c`) | "a Bluetooth wake is active" | script wake, Bluetooth wake (suspend, wait, beacon, reset) | pcble output, change watch |
| Titan output (`server/output_titan.c`) | the report, a HOME overlay, reset / reconnect / protocol requests, the HID device | update, reset, send thread, shutdown | the merge, USB |
| native stream server (`server/switch_stream.c`) | client table, roles, demand flags, "needs a keyframe" | accept, probe, hello, broadcast, drop, recount, shut down | the merge, the encoders, the web server (adopted WebSockets) |
| WebRTC and encoders (`server/gst_webrtc.c`) | client slots, requests, teardowns; per chain a profile, a scaler, a token bucket; the GamePad's own encode | offer, answer, bye, teardown, sweep; set profile, push a picture, fall back | GStreamer threads, the merge, the native server |
| web server (`server/web_stream.c`) | sixteen sessions, a login lockout, the listening socket, the transport in use | start, stop, log in, dispatch, hand a socket over; a detached thread per connection | everything the page can ask for |
| audio (`server/audio_capture.c`) | a ring between capture and speaker, the two streams' life | capture, play, reopen, switch the way to the speakers | the main loop, the sound server |
| settings window (`server/gtk_shell.c`, `app_config.c`) | widgets, the saved configuration, the controller-output page | pair, reconnect, stop, save | pcble output, main loop |
| local pad (`server/local_pad.c`) | the chosen pad and its last state | poll, choose, forget | the merge |
| Wii U GamePad host (`server/wiiu_pad.c`, `wiiu_gamepad/`) | the program and its end; in the program a session, its recoveries, its menu | start, stop, poll; find the pad, connect, recover, forward input, show | encoders, the merge |
| Wii U client (`wiiu_console/`) | socket, receiver thread, packet and event queues, decoder, the ring of sound | connect, receive, pause, decode, play | the native server |
| Switch client (`switch_homebrew/`) | link, token, settings file, decoders, the touch pad | connect, log in, save, decode a batch, sample | the native server |
| 3DS client (`3ds/`) | the network thread with its retries, six slots of pictures (`VIDEO_SLOTS`), the decoder's worker | connect, retry, sleep, decode, swap | the native server |
| Android client (`android/`) | connections by generation, posts, decoders with their pumps, a bitrate | connect, disconnect, decode, steer | the native server |
| browser client (`web/`) | transport, peer connection, pads | connect, reconnect, send input | the web server |

### What is hard in it

* **Threads without a lock.** The recovery engine's six words, the change
  watch's seven, the format request, the pad's supervisor, the chains' profiles
  and the ring of the speakers are read and written by two to six threads, one
  plain or atomic word at a time. A decision is taken on a value another thread
  has already changed.
* **Work handed over after the unlock.** The merge combines under its mutex and
  delivers outside it; `stop_session` asks without the session lock and records
  with it; the HTTP thread gives a request up that the GStreamer thread answers.
* **Processes and sockets that die.** The pcble helper may exit in any state, its
  waiter decides later what that meant; the pad's program, the wake script, the
  capture card, every client's connection may end between two steps.
* **Answers that come late or never.** A reader's posts of a connection that was
  replaced, a datagram of a host that is gone, a decoder's pump that outlives its
  decoder, a stop's answer after 150 ms.
* **References.** A predicted picture is worth something only after the one it
  refers to: from the encoder through skips, full sockets, pauses, codec changes
  and new decoders, on four kinds of client.
* **Limits.** Eight sources, eight native clients, sixteen sessions, queues of two
  to nine pictures, rings.

### What makes each component correct

* pcble: one living helper, and one a stop can reach; a recovery that ends, in
  bounded attempts; an output never left suspended by a wake; ownership that
  cannot be taken for another helper's. The backend: one console, hand-offs that
  leave nothing open, an adapter given back as it was found.
* wake: one Bluetooth wake at a time; every script wake followed up exactly once,
  and not before the picture changed; a scan or an advertisement that was begun ended.
* capture: no frame of another size reaches the encoders; the picture returns; the
  format asked for runs. Sound: one thread to a stream, freed after it.
* merge: one slot per source, players keep theirs, releases and departures reach
  the console; the output is the combination of the hands present.
* Titan: what was asked last is what the console holds; the capture mode has an owner.
* servers: counts equal the tables, a predicted frame has its reference, a slot, a
  socket or a session has one owner, leavers make room, stops return.
* encoders: a scaler fits its picture, a chain keeps its pace and starves nobody, the
  pad's own encode is offered when there is one.
* clients: no decoder gets a picture without its reference, no press is taken for
  another screen's, what is shown and said is what is there, nobody waits for ever.

## 2. Modules

Every module keeps one variable per word of memory (or per group of words that one
lock guards), one `pc`-like variable per thread and one action per step another
thread can come between. History variables, read by properties only, are named in
each module's header.

### The host

| module | models |
|---|---|
| `PcbleRecovery` | `output_pcble.c`'s recovery engine with the Bluetooth wake of `reset_method.c` and the GTK page that shares its state |
| `PcbleRetries` | the same, with a history variable counting the helpers one recovery launches |
| `PcbleBackend` | a session of `pro-controller.c`: borrowed adapter settings, channels, hand-offs, ticks, control clients, cleanup |
| `WakeHelper` | the programs that wake a console, step by step with every failure, and the script around them |
| `GamepadBridge` | `gamepad_bridge.c`'s table and its delivery, with the departures of the three transports |
| `ControllerMerge` | what the merge promises: the abstract specification `GamepadBridge` implements |
| `OutputTitan` | the send thread of `output_titan.c` with its delays, requests, reconnections and shutdown |
| `ChangeWatch` | `video_capture.c`'s screen-change watch with the script wakes that arm it and the capture loop that feeds it |
| `CaptureDevice` | the main loop's ownership of the capture card: format requests, loss, reopening, the size check |
| `AudioCapture` | the capture thread, the playback threads and the ring between them |
| `NativeStream` | `switch_stream.c`: admission through every door, drops by every thread, codec changes, keyframe gating, demand |
| `WebRtcClients` | the client slots of `gst_webrtc.c`: offers, requests given up, teardowns, heartbeats, the sweep |
| `WebServer` | listener, stop and start, sessions, lockout, transport switch, sockets handed over |
| `ConsoleChain` | how a captured picture gets through the scaler of the console's chain while its profile changes |
| `Pace` | the token bucket of a paced chain |
| `PadPicture` | the GamePad's own encode: offer, fallback to H.264, keyframes asked for through the pipe |
| `PadSupervisor` | start, stop, restart and poll of the GamePad's program (`wiiu_pad.c`, `capture2cloud.c`) |

### The clients

| module | models |
|---|---|
| `PadStation` | the GamePad's program (`wiiu_gamepad/wiiu_pad.cpp`): finding the pad, the session, recoveries, the menu's hold on input, the silent host |
| `WiiuClient` | `wiiu_console/`: main thread, receiver, decoder's worker, packet and event queues, pauses and joins |
| `WiiuSound` | its ring of sound, which the audio processor reads, and the datagrams that fill it |
| `SwitchPad` | the Switch's touch pad between its sampling thread and the screens of the frame loop |
| `SwitchLink` | its connection, login, menu entries and settings file |
| `SwitchPictures` | its pictures, batch by batch: skips, the jump to the latest keyframe, decoders that fail |
| `N3dsLink` | the 3DS's network thread with its retries, and the presses of the main thread |
| `N3dsPictures` | its picture slots, the decoder's worker and the swap |
| `AndroidLink` | the Android connections by generation, their readers and the posts that outlive them |
| `AndroidVideo` | its decoders, their pumps and the one surface |
| `AndroidBitrate` | its automatic bitrate |

### Composition

Components of the host that share state are one module (`PcbleRecovery` with wakes and
page, `ChangeWatch` with loop and wakes, `GamepadBridge` with transports). Those that do
not are checked side by side: `MCHost`, `MCClients`, `MCViewers` and `MCPcbleServed` have
a variable (`part`, `side`) that says which of them moves, and the others stay as they
start. A behaviour is thus one of one component; `HostIsItsParts`, `ClientsAreTheirParts`
and `ViewersAreTheirParts` prove it, so that a theorem about a component alone
is one about the composition. `MCPcblePages` does the same with two groups of
threads of one module. The other `MC` modules give constants their values.

Theorems are in `PcbleRecoveryProofs`, `GamepadBridgeProofs`, `ChangeWatchProofs`,
`DeviceProofs`, `ServerProofs`, `HostProofs`, `ClientProofs` and `ViewerProofs`.

### How some of them correspond to the code

**PcbleRecovery.** `requested` is `g_reconnect_requested`, `launcher` is `g_launcher`, and so
on. An action is one access to that memory together with the local decision made
from it, because the words have no common lock: `output_pcble_reset()`, five
assignments, is `ResetSuspended`, `ResetRequested`, `ResetActive`, `ResetAttempt`,
`ResetSettle`. What is done under one lock is one action (`Spawn`, `WaiterClear`,
`StopMark`), and `GLockFree` keeps out the callers of `g_lock` while the worker
records an answer. `g_reconnect_attempt` is a plain `int` that several threads write:
`ServiceCount` chooses between the value in memory and the one compared before,
the two outcomes the increment can have. A helper process goes none → starting →
linked → exited, with draining copies of the living states once it has been asked
to stop. The stop's answer may miss its time, and then the SIGTERM that replaces
it may be refused (`StopMark` from `stopKill` may leave the process alone). Time is
the single bit `settling`. `page` is what the GTK page's buttons looked like at the
last refresh.

**GamepadBridge and ControllerMerge.** A source is a client; `on` says whether it is there,
there no more, or cut off without the server knowing. `table` is `g_sources`, each
slot with its age in place of a time stamp. `Update`, `Forget` and `SetShaping` are the
critical sections, the expiry of silent sources and the combination included;
`Deliver` is the call of the backend after the unlock. A state is a set of buttons
and one stick; the combination is a union and the largest deflection, the first of
equal ones. `ControllerMerge` has no table, slots, ages or threads: hands come, move
and leave, and the console is shown the combination of those present.

**ChangeWatch.** `Arm` is one store of `video_capture_watch_for_change()`; `made` holds the
stores each arming thread has made, and `Ready` says which may come next. The watch
flag and the report are `volatile` and keep their order, the counters are plain, so a
build may withdraw the old report before, after or between them (`-O2`, which
`scripts/lib_toggle.sh` builds with, does it first; `-O0` last). `Feed`, `Compare`, `Load`
... `Tick` are the loads and stores of `change_watch_feed()`; `Take` and `Taken` are the
main loop's. A frame is what picture it shows.

**CaptureDevice.** `model` is the kind of card a host has (which formats it accepts, in which
size) and `stream` the size everything downstream was built for. `Ask` is one store
of the request by an HTTP thread or the settings; `Top` reads it, `Clear` clears it and
closes the device, `Open` opens and checks the size, `Poll` reads a frame (`Read`) or notices the
loss.

**NativeStream, WebRtcClients, WebServer.** A slot of a table is a record; a thread that
polled a slot earlier acts on what it remembers. A frame is `key` or `delta`, and what is kept of
a client's past is whether it has the reference of the next one. `Doors` are the ways a
client comes in: the console's, the GamePad's, a native or adopted client, the old 3DS.

**WiiuClient.** The receiver's thread and the main loop own the socket in turn
(`ReceiverIsApart`); a picture is its number, its geometry and whether it is a keyframe.

**PadStation, N3dsLink, SwitchLink, AndroidLink.** A connection is where its thread is in the
code; a press is what its handler stores. A post carries the generation it was
made under. Addresses, passwords and codecs are members of small sets.

## 3. What is checked

| run | instance | it shows |
|---|---|---|
| `pcble_sessions` | two helper slots, one HTTP resetter | types; `SingleSession`: a living helper is the one `g_launcher` names; `OwnershipIsLaunch` |
| `pcble_pages` | one slot; two wakers and the main loop's resets, or the GTK page | `WakeExclusive`, `SuspensionIsOwned`, `RetriesBounded` |
| `pcble_served` | fairness; the desktop with one slot, or the backend with one console | `RequestIsServed`: a request is consumed, given up or renewed; `BackendWaitsEnd`: buttons are released, hand-offs and sessions end |
| `gamepad_threads` | two native clients and a browser, two threads, two slots | `OneSlotPerSource`, `PlayersKeepTheirSlot`, `ReleasedByOthers` |
| `gamepad_hands` | two clients and the settings on one thread | types, the refinement `MergesHands`, `ReleasedOnLeaving` |
| `watch` | two overlapping script wakes, a card that comes and goes | types, `OneResetPerWake`, `NotTooEager`, `FollowedUp` |
| `device_trapped` | three kinds of card, three requests | refutes `PictureComesBack` |
| `native` | two slots, clients of every door, one web client, two codecs | `TableIsExact`, `PredictedNeedsReference` |
| `host_tables` | twelve components side by side, two of what there can be two of | `HostTypes`, `FramesFitStream`, `CaptureIsOwned`, `SlotsAreOwned`, `ServerIsExclusive`, `HelperLeavesClean`, `AdapterIsLent`, `ThreadsAgree` |
| `host_live` | fairness; ten components, one of each | `LatestCounts`, `ViewersAreServed`, `LeaversFreeTheirPlace`, `WaitsEnd` |
| `clients` | fairness; the Wii U client, the Switch's touch pad | `ClientTypes`, `NothingIsCrossed`, `PicturesInOrder`, `NobodyWaits` |
| `viewers` | fairness; the nine parts of `MCViewers` | `ViewerTypes`, `ClientsAreHonest`, `PicturesAreRight`, `NobodyIsForgotten` |

Several of these are conjunctions with one conjunct per component: the comment over each
in `MCHost`, `MCClients` or `MCViewers` says what each conjunct means, and the component's
module defines it.

### Bounds

* `Slots`: helpers overlap only as "one exited whose waiter is still deciding, one
  launched since"; two slots reach that, and the waiter's part is per slot. The runs
  with wakes and pages use one slot to stay small. That a page's pairing and the main
  loop's launch never yield two sessions on two slots is not a run but the theorem
  `OneSession`. `MaxAttempts` is the code's own 3.
* `Resetters`: every reset performs the same five stores; one thread doing them
  again and again beside the main loop's own sequence gives the interleavings.
  `Wakers`: exclusion needs two. They and the slots are interchangeable (symmetry is
  used in runs without liveness only).
* Gamepad: two slots and three sources fill the table and turn one away. A timeout of
  one tick separates "fresh" from "silent"; one button and `Reach` of one are what
  union and "largest wins, the first of equals" need.
* Watch: two changed frames in a row and a timeout of three keep the two ways a
  watch ends apart and let both occur on one frame; two wakes, one to leave a
  trace and one to suffer from it.
* `native`, `host_tables`: two slots, so that one is taken over while another thread still
  means its predecessor; two events; two codecs, one with references and one
  without. `MaxRequests` is 4 because a login, an order and a hand-over take three. Two
  pages meet on one WebRTC slot: the fewest that can dispute it. Three pages were
  tried (2.2 million states) and are covered, as any number is, by
  `SlotsAreTheirOwners`.
* Pace: a frame of 3 and pictures up to 7 ticks apart have no common divisor;
  `MaxTicks` lets seven pictures pass. Sound threads: two, as one starts while another
  retries. The pad's program: two process numbers, one of a program that is ending.
* Clients: queues of one make "full" frequent; three pictures are a keyframe and
  two that refer to each other; two geometries. Switch: two menu entries between two saves,
  three messages between two passes. 3DS: two of its six picture slots, so that
  they fill up and whoever makes room breaks references (`N3dsReferencesAreThere` is for any
  number); two settings; two presses, so that one can meet the other's work. GamePad: two silent
  seconds, two missed readings. Android: two streams, two pumps, two connections; a rate from 15 to 24
  crosses both ends. Wii U: a ring of three frames wraps with pieces of one and
  two; two hosts.

### Fairness

A behaviour of a composition is one of one component, so weak fairness of the
disjunction over components of one action of each is weak fairness of each; `Weak1`,
`Weak2`, ... are such columns, and `Strong1`, ... the strong ones. What they assume:

* `PcbleRecovery`: the main loop calls `output_pcble_service()` on every pass
  whatever it finds, so `Service` is strongly fair (it needs mutexes that the worker
  takes and releases); threads that have begun finish; the clock moves; a helper
  does not hang for ever while starting or draining; and its socket does not
  fail for ever. Nobody has to press a button.
* `GamepadBridge`: threads deliver, time passes, and each transport notices in the end
  that a client is gone. No client has to send; `ReleasedByOthers` says "if somebody does".
* `ChangeWatch`: the loop runs, frames come while there is a card (strong fairness of
  `Feed`), a thread that began to arm finishes, and a lost card returns.
* The host's other components: a thread or callback that can take its next step takes it;
  the capture card delivers; opening a card or an adapter that is there, an encoder that
  is there or a peer that answers does not fail for ever (strong). Losses, presses,
  requests, kills and new clients are never fair.
* Clients: threads and main loops go on; the host sends a keyframe again and again
  when one is owed; building a decoder does not fail for ever; a poll of an open
  input does not always come up with the same tap. Disconnections and presses
  are not fair. 3DS (`N3dsSpec`): the worker's thread runs, and it is not late for ever:
  it does not begin a pass, take a picture, or ask for a keyframe at the wrong moment always
  (strong; `LooksInTime`, `TakesPicture`, `AsksInTime`). That is scheduling, which no line
  enforces; without it a picture can arrive just after each look.

### Disagreements found

Refuted by a run (see "findings"): **a card trapped in the wrong size**
(`capture2cloud.c:1621`): a format whose size differs is opened and turned away once a
second, and the request to go back is dropped, because the device is closed.

Statements of the repository's comments that the models refute; they are kept in
their modules, by the names below, and can be given to TLC with the component's
configuration:

* `PcbleRecovery!StopThenReconnect` (`output_pcble.c:557`): the helper being stopped answers
  one more frame with `"initialized":true`, the worker takes it for success and clears
  the request that was waiting for the helper to go.
* `GamepadBridge!DeparturesAnnounced` (`gst_webrtc.c:2622`): `teardown_client()` does not call
  `gamepad_bridge_forget()`, and silence expires only when another event recombines
  the table: what a lone browser held stays held.
* `ChangeWatch!OwnReference` (`video_capture.c:192`): a wake that ends inside the feed of the
  last one's watch has its own watch ended by a comparison made for the other.
* `SwitchPad!NothingBinds` (`vpad.c:274`, comment `main.c:1788`): the fingers are let go
  before the flag is cleared, and the sampling thread may bind one in between;
  `HandsLetGo` says that it lets go all the same.
* `WiiuClient!CleanBoundary`: pictures of an old geometry still in the queue reach the decoder
  that was flushed for the new one.
* `WebServer!ChoiceIsKept`: of two first requests that both find the transport unread, the later
  stores the `.env`'s over what a player chose in between.
* `SwitchLink!VolumeSurvives`: the settings file is written with the volume of `audio.c`
  before the decoders are open, and with the one read at launch after the second
  connection.
* `SwitchPictures!CleanRestart`: "jumps forward to the next keyframe - a clean restart"
  (`main.c`) is one only when nothing was skipped after the keyframe.
* `N3dsLink!ConnectIsHeard`, `ReconnectApplies`, `PressesAreHarmless`: a press between the thread's
  decision to give up and its clearing of `g_wanted` is lost; a reconnection pressed inside
  `open_tcp()` goes unnoticed; Home and capture go out on whatever `g_socket` is, a login's or one
  whose hello is not written yet.
* `AndroidVideo!Vp8Returns`, `SurfaceIsFreed`: a VP8 decoder that died is not built again; a codec
  built by a retired pump may hold the surface for ever.
* `AndroidLink!DisconnectIsShown`, `HelloIsFirst`: the menu's Disconnect leaves the last picture where it
  is; another thread's ping can be written before the hello.
* `AndroidBitrate!AsksWhatItSays`, `RefusedAsksForLess`: from 10648 kb/s on a raise is nine whole
  percents and is never sent; the rate asked for then rises with the first
  second of refused frames.
* `AudioCapture!OneOwner` (`audio_capture.c:675`, `232`): `ring.play` is empty while the playback
  thread tries its write again; the capture thread starts a second one.
* `WiiuSound!SilenceIsSilent` (comment `audio.c:210`): "stop immediately ... instead of letting the
  DSP loop over stale ring contents" happens only on a push; when the stream stops or the
  connection fails, the voices loop over the last 170 ms until the next piece.
* `WiiuSound!SoundComesBack`: the UDP socket is kept through a failure and a
  reconnection; a datagram of a host that is gone is taken first, and a restarted host, which
  counts from 0, is "late" as long as the old one had run. And "a drop means ONLY a
  genuine full hardware ring" (`audio.c:613`) fails after a missed turn of the audio processor;
  `DropIsFull` excuses that by name.

Met while modelling; properties excuse them by name where they meet them:

* A reset, or a waiter between its test of `g_wake_suspended` and its re-arm
  (`output_pcble.c:1292`, `1678`), launches a helper while the wake beacon is sent,
  although docs/WORKINPROGRESS.md asks that it must not.
* The request a waiter re-arms can be overwritten by the worker's clear (557) or the
  clear after a launch (1764): the recovery stays "active" with nothing behind it.
* A waiter stalled since before its re-arm (1303), while later helpers are launched and
  given up, starts another series of three, although `output_pcble.c:1712` promises
  three real launches; and a page that pairs during the main loop's launch, a reset
  half done, makes it four. `RetriesBounded` and `RecoveryIsBounded` name both conditions.
* A stop recorded after its session is gone (1909) keeps the GTK page at
  "Reconnecting".
* With two calling threads a combination made before a departure may be delivered
  after it (`gamepad_bridge.c:317`): `ReleasedOnLeaving` and `MergesHands` hold for one
  thread, `ReleasedByOthers` for more.
* The watch's timeout counts frames (`video_capture.c:199`): without a card a wake is never
  followed up. The comment at `video_capture.c:626` says each frame is compared with the
  previous one; the code compares it with the reference.
* A format request stored between the read and the clear of `g_format_request`
  (`video_capture.c:91`, `95`) is lost; one taken while no device is open is dropped
  (`capture2cloud.c:1588`), although the HTTP handler has answered 204.
* With three pages, a late ring may free a WebRTC slot under an offer, another page takes it,
  and the first offer then writes its own webrtcbin into it, over the other's, which is lost.
* `PadSupervisor`: a start that meets a stop (`raced`) may leave two programs
  (`capture2cloud.c:515`, against the comment at 556); a Stop on a pad that was not built replaces
  "not built" by "stopped", and Start is silent from then on.
* `PadStation`: a reconnect pressed during a recovery is lost (`wiiu_pad.cpp:1485`); the button's
  kick does not set `last_unstick` (1450); a silent host hides the departure of a pad until the
  thirty seconds of `QuietGiveUp` are over; three readings without a pad during a recovery end the session.
* `PadPicture`: "three seconds bounds any freeze" (`gst_webrtc.c:1935`) meets a gap of ten; an
  incomplete IDR clears `drc_want_idr`; the fallback's deadline is looked at only after a message; a
  granted codec never falls back; two pads share the first one's codec. `ConsoleChain`: a profile
  set while nobody watches may move the source in the middle of a push (`moved`), and 1080 chosen
  while watched leaves the source at 720.
* `N3dsPictures`: pictures of an MPEG session survive into a JPEG one. A picture too large to hold
  that is lost while a keyframe waits is forgotten: the keyframe ends the need (`network.c:826`ff.) and
  what follows the lost picture is decoded (`orphan`). A keyframe found behind pictures that were
  dropped ends the need too, but the request made for it after the unlock (859, 938) sets it
  again: what comes after that keyframe is discarded until another, although the comment there
  says "discard P-frames until the clean I-frame requested below arrives". If the keyframe was not
  drawn because pictures waited behind it, nothing of that pass is. It can happen pass after pass;
  `N3dsShows` says that pictures are drawn for ever unless passes are `CutShort` for ever, the
  stream changes, decoding fails or the decoder keeps what was to be drawn (`Buffered`).
* `WakeHelper`: `wake_capture_run()` returns from a failed LE Scan Enable (`pro-controller.c:2510`-2531) and
  sends no command to stop. When the command was carried out and its answer was late or lost,
  the scan stays on; a test and a wake that is sent do clean up then. `RadioLeftSilent` names it
  (`ScanEnableFailed`), beside a stop that the adapter refused (`deaf`) and a program that was killed.
  `systemctl start bluetooth || true` (`run-classic.sh`) may fail: the service is then off after the wake
  (`script` is `unstarted`), which nobody looks at; `WaitsEnd` names it.
* `NativeStream`: a client's silence is measured inside `if (ready > 0)` (`switch_stream.c:1793`, 1909-1920). A
  client that falls silent and is alone is neither asked nor dropped and keeps its place, until
  the kernel gives its connection up or somebody knocks, although line 79 says that it "is gone, whatever the
  socket thinks"; and a client that is alone and rests, to which no ping was due on any pass, is dropped
  by the next knock without having been asked, although line 101 says that "only a client that
  answers nothing is now reaped". `LeaversFreeTheirPlace` promises the places of connections that ended, and those
  of silent clients while `poll()` keeps finding something (`TakeLock` again and again).
* `WiiuClient`: a receiver that is paused for a new geometry stays so when the decoder cannot be rebuilt: it
  does not read, and the end of the connection goes unnoticed. `LossesAreSeen` excuses it.
* `PcbleBackend`: after 180 s (`PairableTimeout`, `DiscoverableTimeout`) BlueZ itself hides an adapter that the
  program goes on to take for visible (`VisibleTimeEnds`); `HandoffsAreSafe` excuses a session without a
  console that nobody can reach then.
* Beyond the models: `send_msg_now()` (`switch_stream.c`) writes to a socket whose queue may hold the
  rest of another message; `on_settings` (`capture2cloud.c:499`) frees a server that the encoders still
  point at; `DirectClient`'s reader of a failed connection feeds the current decoder.

## 4. What is proved

TLAPS checks every proof for every value of the constants that satisfies the modules'
named assumptions (thread names are distinct and only the main loop doubles as a
resetter; bounds are natural numbers; a card accepts some format; `NONE` is not a
format). A safety property of a run is a theorem as well, the compositions' included:
`HostKeepsTypes`, `ClientsKeepTypes`, `ViewersKeepTypes`, `ViewersAreHonest` and their
like follow from `...AreTheirParts` and the components' own theorems. "Why" below is the
inductive invariant and what it needs to say beyond the property.

* `PcbleRecoveryProofs`
  * `TypeCorrect`: types with `CountOK`. `attempt` stays in `0..3` only because the main loop
    compared it before the increment and other threads only clear it: the invariant says
    what `attempt` and `counted` are at each place of the main loop.
  * `OneSession`: `SingleSession`, by `SessionInv`: a helper that lives has a waiter still at
    `tWait`, and only a waiter past its child's exit clears `g_launcher`; else a stale
    waiter could clear the launcher of a living one.
  * `OneWake`, `SuspensionOwned`: the compare-and-swap admits one waker; whoever set
    `suspended` is on the way to the reset that clears it, on the timeout path too.
  * `OwnershipLaunched`: on top of `SessionInv`, where the mark is set and which place of
    main, launcher or waiter answers for it.
  * `RecoveryIsBounded`: as long as launches do not meet (`LaunchedApart`), a recovery launches
    three helpers and no more, by `TriesInv`, which ties the launches counted to `attempt` at
    each place of the main loop and the page.
* `GamepadBridgeProofs`: `BridgeTypes`; `OneSlotEach` (a source writes its own slot or a free
  one, and then only if it owns none); `PlayersKeep`, an action property: only a departure
  frees a fresh slot; `OneThreadMerges`, the refinement of `ControllerMerge` by one thread:
  `MergeInv` says that the table's present slots are the hands present, `PendingIsNow` that
  what is about to be delivered is their combination, and every step is a step of the
  abstract specification or a stutter.
* `ChangeWatchProofs`: `WatchTypes`; `OneResetEach`, by `TokenInv`: resets done, a report pending or
  about to be made, and a watch armed and not yet ended are never more than the wakes
  that armed; `CalmIsPatient`: `NotTooEager`, by `Alone` (when wakes do not overlap, the arming
  thread or the feed is at work, not both) and `Counted` (streak and wait are the history's).
* `DeviceProofs`: `DeviceTypes`; `OnlyStreamFrames`, by `FitInv`: an open device passed the size check
  or is the first one, and a switch closes it before the loop can read; `PaceIsBounded` and
  `PaceNeverStarves` from `PaceInvariant`: what was let through and what is saved never
  exceed the time passed and one picture, and never fall behind by more; `SpeakersAreKnown`
  (which streams the audio threads hold); `TitanOwnsCapture`; `HelperClean` (`WakeHelper` leaves
  nothing switched on, whichever step fails, but for what the adapter refused to stop and
  the capture whose LE Scan Enable failed, `ScanEnableFailed`); `BackendLendsTheAdapter` (what was borrowed of
  the adapter is on the list of what cleanup gives back, at every place a signal can find it).
* `ServerProofs`: `ServerOwnsWhatItHas`, by `WebInv`: a socket is a thread's, the native server's or
  closed, also across stop and start; `SlotsAreTheirOwners`, by `RtcInv`: which thread of offer,
  request, teardown and sweep means which slot, so that a slot in use is freed once and by
  its owner; `NativeServerIsExact`, by `NativeInv`: the counts equal the table whatever thread drops
  a client, and a client given a predicted frame has had the one before it.
* `HostProofs`: `OnePad` (`PadInv`: one program, unless a start raced with a free), `ChainFits`
  (`ChainInv`: scaler, buffer and picture agree unless the profile moved in the middle of a
  push), `PadIsOfferedOnly`; then the composition: `HostIsItsParts`, `HostKeepsTypes`, `HostThreadsAgree`,
  `HostLendsTheAdapter`, `HostOutputsAreClean`, `HostServersAreExact`, `HostFramesFit`.
* `ClientProofs`: `ReceiverLeaves` (the receiver never hands a picture to a worker being taken
  down), `WiiuInOrder`: an action property, by `WiiuTypes`, `ReceiverIsApart` (who reads the socket)
  and `MessagesInOrder` (queue, then socket, then what is still to be sent: one ascending
  sequence, in which a delta comes after the picture it needs); `PlayChoosesNothing`; the
  composition: `ClientsAreTheirParts`, `ClientsKeepTypes`, `ClientsCrossNothing`, `ClientsShowInOrder`.
* `ViewerProofs`, the nine parts of `MCViewers`:
  * `SoundIsTrue`, `NoSoundIsLost`, `DropsAreFull` (`WiiuSound`): `RingInv` places the writer between one
    ring and nothing ahead of the processor's position, modulo the ring's size; `SocketInv` says
    which datagrams of which host are still to come.
  * `SwitchLinkKept`: what the settings file and the menu say is what was chosen, by where the
    connection is; `SwitchDecodesWhole`: a decoder that lacks a reference was told so, or lost
    it to a failure it reports.
  * `N3dsStatusIsTrue`, `N3dsAttemptsAreAsked`: what the screen says of the connection is what the
    thread is doing; it tries as long as somebody wants it to.
  * `N3dsReferencesAreThere`: the decoder's worker gets a predicted picture only after the one
    it needs, by `PictureLineInv`: the slots waiting, the one in hand and what the host still
    sends form one line; every picture in it follows the one before it (`Whole`) unless it is a
    key or marked with a gap (`NoGap`), and what is not a key after a gap is dropped. Excepted
    are the pictures behind one too large that was lost while a keyframe waited (`orphan`), of
    which the client keeps no note. The lemmas say what selecting, dropping, publishing and swapping do to such a line.
  * `SessionsEndClean`, `KicksAreAlone` (`PadStation`): a session ends with its recovery joined, and one
    recovery runs at a time.
  * `AndroidFeedsFromKey`: a codec is fed from a keyframe on, unless two pumps share it;
    `AndroidScreensAreTrue`: what is shown is the connection that is current, by `LiveInv` (which
    generation each thread holds), `WordsInv` and `LastWordIs` (the last post of a connection says how
    it ended); `RatesAreBounded`, `RefusedIsLower` (`AndroidBitrate`).
  * `ViewersAreTheirParts`, and from it and the above `ViewersKeepTypes`, `ViewersAreHonest`,
    `ViewersDecodeRight`.

Lemmas about operators (rings modulo their size, tables and their counts, subsequences,
the first keyframe of a queue) are stated once in the proof module that needs them.

### Model-checked only

* Liveness: `RequestIsServed`, `BackendWaitsEnd`, `ReleasedByOthers`, `ReleasedOnLeaving`, `FollowedUp`,
  `LatestCounts`, `ViewersAreServed` (of which `PaceNeverStarves` proves the part about pacing),
  `LeaversFreeTheirPlace`, `WaitsEnd`, `NobodyWaits`, `NobodyIsForgotten`. Fairness and `ENABLED` are
  outside the prover's reach.
* Induction over data: what a fold over a table of any size yields. The proofs use what such a
  definition satisfies step by step, or bounds that are the code's own.
* The finding (`PictureComesBack`) is a counterexample, which TLC gives.

## 5. What is not modelled, and what could come next

* `controller_shaping.c` and `ws_frame.c`: arithmetic, which the repository's unit tests
  cover case by case; as functions over bounded integers they could be compared
  with reference definitions.
* The settings window (`gtk_shell.c`, `app_config.c`): widgets and text. Its buttons are in
  `PcbleRecovery` and `PadSupervisor`, its settings events of `CaptureDevice`, `GamepadBridge`,
  `NativeStream` and `ConsoleChain`.
* Encoders and decoders (`old3ds_encoder.c`, x264, GStreamer, H264DEC, MVD, MediaCodec): an
  encoder yields keys and deltas, a decoder accepts, refuses or fails.
* The browser's client (`web/`): its connections are clients of `NativeStream` and
  `WebRtcClients`; its own reconnection and the release of held buttons are not modelled.
* The sound of the Switch and 3DS clients, and the drawing of all of them.
* Failures of memory and of threads: `realloc()` in `broadcast_filtered()` (`switch_stream.c:666`, where the
  client would be passed over) and `OSCreateThread()` on the Wii U (`main.c:1042`, which falls back to the VBlank
  loop) are assumed to succeed.
* `AndroidBitrate` is the automatic mode. A bitrate chosen by hand, with which `steerBitrate()`
  does nothing, is left out, and so is the menu's own message (`onStreamShapeChanged`,
  `MainActivity.kt:411`): it carries that bitrate or, in automatic mode, 0, which the host ignores.
* The shell scripts but `run-classic.sh`.
* The end of `main()`: `gamepad_bridge_shutdown()` destroys the mutex while transports still
  run. Listed as a hazard; a module `Shutdown` over the threads' lifetimes is the next one
  to write.
