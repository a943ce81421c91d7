# TLA+ models of Moonlight TV

This directory holds TLA+ specifications of the application in `src/` (a C
program: the Moonlight streaming client for LG webOS TVs, with HID passthrough
of controllers), the TLC configurations that check them on small instances, and
TLAPS proofs of the properties that matter most, for every value of their
constants. Paths below are relative to `src/src/app/` unless they begin with
`src/`; `PROJECT.json` maps every definition to the lines it stands for.

Contents: [the system](#1-the-system), [the modules](#2-the-modules),
[the runs](#3-the-runs), [fairness](#4-fairness),
[the proofs](#5-the-proofs), [findings](#6-what-the-code-does-not-keep),
[what is left out](#7-what-is-left-out-and-why), [plan](#8-plan).

## 1. The system

### 1.1 Threads and how they talk

| thread | runs | talks through |
|---|---|---|
| main (UI) thread | `app_run_loop`: SDL events, posted actions, LVGL timers and fragments | everything of the UI, `app->session`, the input state |
| session worker | `session_worker` or `session_worker_embedded`, one per session | `bus_pushevent` (stream events), `app_bus_post`, `app_bus_post_sync`; mutex and condition of the session |
| hardware mouse | `mouse_worker`, one per session with `hardware_mouse` | mutex and condition of `session_evmouse_t` |
| Limelight threads | callbacks of the connection, decoder, audio | `session_interrupt`, globals `current_session` and `streaming_errno` |
| session thread of a bridged controller | `session_main`, one per controller | pipe, atomics `stop`/`comp_run`, the transport |
| readers of a bridged controller | input thread, evdev feeder, composite siblings, raw-ACL forwarder | the transport's outbox (mutex), the paced queue |
| executor | tasks of `pcmanager` and the application loader | mutex of the host list, `app_bus_post(_sync)` |
| mDNS thread | discovery callbacks | throttle, host list, `app_bus_post_sync` |

The bus is the heart of it. `app_bus_post` tests `app->running` and pushes an
action on SDL's queue; `app_bus_post_sync` does so and waits; the event filter
of the main thread takes *one* event per step **while it holds the lock of the
SDL queue**, and runs its handler there; `app_bus_drain` drops at exit what is
left. Stream events are not actions but user events that any thread pushes.

### 1.2 Inventory

Each entry: *state*; operations; what is hard; what makes it correct. The
status of each (modelled, partly, not modelled) is in `PROJECT.json`.

**Main loop and bus** (`app.c`, `app_session.c`, `platform/sdl/bus.c`,
`ui/root.c`). *`running`, the SDL queue, `app->session`, whether the UI is
open.* Begin and destroy a session, post, post and wait, drain, exit. Hard: the
filter holds the queue's lock while `app_session_destroy` joins threads; a post
can come between the test of `running` and the drain. Correct if nobody waits
for ever, and every event finds the session it is about.

**Session lifecycle** (`stream/session.c`, `session_worker.c`,
`session_worker_embedded.c`). *State, `interrupted`, `quitapp`, threads,
`streaming_errno`, the child process.* Create, begin, interrupt (by the user, the
operating system, Limelight or the decoder), start and stop input, destroy; the
worker launches, connects, waits, closes, quits the host's app, cleans up. Hard:
any interrupt at any point of the worker, launch and connection failures after
something was taken, a session begun while the last one ends, the exit of the
application in between. Correct if every session that is interrupted or fails
ends, gives back what it took, shows its own error only, and never sees the next
session's events.

**Connection callbacks** (`stream/connection`). *`current_session`, no lock.*
Termination, status, rumble, light. Hard: they run on threads of Limelight, with
a pointer the worker clears and the main thread frees.

**Video and audio** (`stream/video`, `stream/audio`). *Statistics, the decode
unit buffer.* Setup, decode, cleanup. Correct if a decoder error ends the
session, and a frame spanning several buffers is passed on whole.

**Hardware mouse** (`stream/input/session_evmouse.c`). *The device pointer.* Open,
listen, interrupt, close. Hard: the worker waits for the device, the main
thread may interrupt before it is there.

**Gamepad slots** (`input/input_gamepad.c`). *For each slot controller, number
and remembered identity; mask; count.* Add, close, rumble. Hard: histories of
arrivals and departures. Correct if the number the host uses finds the
controller, and mask and count are exact.

**Gamepads in a session** (`stream/input/session_gamepad.c`, `session_input.c`).
*`announcedGamepadMask`, `moonlightExcludedMask`, what the host was told, button
flags, virtual mouse.* Arrival, removal, state. Hard: several places announce;
the overlay blocks input meanwhile. Correct if the host knows exactly what is
connected and not bridged.

**Session keyboard, pointer, virtual mouse** (`stream/input`). *The list of keys held and
its count, the combo that is pending, the gesture, the axes and the timer of the virtual
mouse, the notes of button combinations.* Press, repeat, release, flush, move, tick. Hard:
the overlay or a keyboard on the screen takes the releases; the statics outlive a session;
a timer thread reads what the main thread writes. Correct if every key and button that is
down on the host is held by somebody or can be released by the flush.

**HID passthrough manager and auto-plug** (`hid_passthrough/hid_pt_*.c`,
`hid_passthrough/ctm/ui_*.c`, `ui/streaming/hid_passthrough_panel.c`). *Devices
of the last scan, sessions, plug keys, auto-plug state, fail counts and cool-down,
preferences.* Scan, plug in, plug out, poll, reap, exclude and restore a
controller. Hard: SDL and the scan see one device at different times, retries race
the user. Correct if a bridged controller sends nothing over Moonlight, a plug out
by the user is respected, retries end, and bridges go when their device goes.

**CTM controller link** (`hid_passthrough/ctm/controllers`). *Stop flags, threads,
wake pipe, transport, descriptors.* Plug in, plug out, probe, connect, hand-shake,
read, forward, end. Hard: up to six threads on one controller; the main thread
joins. Correct if no reader outlives its connection or its controller, plug out
returns, and a lost link is tried again.

**CTM transports** (`hid_passthrough/enet_transport.c`, `ctm_transport.c`).
*Three rings, a resend queue, sequence numbers.* Connect, service, send, receive,
reset. Hard: full rings, reconnection, ownership of payloads.

**Host list** (`backend/pcmanager`). *The list of nodes, a mutex, requests under
way.* Update, add, pair, unpair, quit, wake, forget, discover. Hard: workers look
up under the lock and go on without it, results come in any order. Correct if a
host has one node, each server one owner, and every request is answered.

**Discovery and its throttle** (`backend/pcmanager/discovery`). *Hosts reported,
with times.* Report, ignore, evict.

**Application list loader** (`backend/apploader`). *State, task, reference count.*
Load, cancel, destroy, callback. Hard: the callback of a task crosses the
deletion or the return of the view.

**Host client** (`src/core/libgamestream`, `backend/backend_gs.c`). *The identity in the
key directory, a SERVER_DATA per host.* Make or load the identity, pair in five requests,
unpair, status, launch, resume, quit. Hard: a request fails before or after the host has
acted on it; the program dies between two files. Correct if what the client believes of
the host is what the host has answered.

**Streaming view** (`ui/streaming`). *Overlay, on-screen keyboard, HID panel, progress
dialog, focus group, mouse grab.* Open and close each, in the order of the user, of the
bus and of the end of the stream. Correct if the group that has the keys exists, and the
stream has the mouse when nothing is over it.

**HID devices** (`hid_passthrough/ctm/ui_devices.c`). *The nodes of the last scan, caches
of identities and enumerations.* Scan, gather nodes to rows, choose the node that is
opened. Hard: modes and node numbers change between scan and use.

**Launcher, covers** (`ui/launcher`, `util/img_loader.c`). *The rail of the selected host,
listeners, the automatic resume, the covers in memory and their requests.* Hard: listeners
replace what listens; covers arrive for items that show something else by then.

**Settings and known hosts** (`app_settings.c`, `hid_pt_device_prefs.c`,
`known_hosts.c`). *Two files, written by three writers.* Hard: each writer knows its part
only, and the program may be ended at any point.

**Backend root, LVGL drivers, fonts, paths.** Construction order and adapters. See
[section 7](#7-what-is-left-out-and-why).

Outside the repository, modelled only by how it is used: SDL, Limelight, ss4s,
evmouse, the executor and the linked lists of `commons`, ENet, the CTM agent on
the PC, moonlight-embedded.

### 1.3 Hazards

`PROJECT.json` lists every hazard found, at its line, with the properties that
would catch it or the reason none does. Most fall into five groups: an event, callback
or answer that comes after what it is about is gone; a thread joined by one that
holds what it needs; a pointer looked up under a lock and used without; a count, mask or
ring kept by hand over many operations; and a failure in the middle that leaves
something taken.

## 2. The modules

| module | part | abstract or detailed | proofs |
|---|---|---|---|
| `SessionProtocol` | what a session promises to the user interface | abstract | `SessionProofs`, `EmbeddedProofs` |
| `Session` | main thread, bus, worker, mouse, callbacks | detailed | `SessionProofs` |
| `EmbeddedSession` | extends `Session` with the worker of the embedded shell | detailed | `EmbeddedProofs` |
| `GamepadSlots` | slots, numbers, mask, count | detailed | `GamepadsProofs` |
| `Gamepads` | extends `GamepadSlots`: announcements, bridging, auto-plug | detailed | `GamepadsProofs` |
| `CtmLink` | threads of one bridged controller | detailed | `CtmLinkProofs` |
| `LossyQueue` | a bounded queue that loses its oldest | abstract | `CtmMessagesProofs` |
| `Ring` | head, count and slots of the three rings | operators | `CtmMessagesProofs` |
| `CtmMessages` | messages through the three rings; each implements `LossyQueue` | detailed | `CtmMessagesProofs` |
| `PcManager` | host list, workers, discovery | detailed | `PcManagerProofs` |
| `DiscoveryThrottle` | the throttle | detailed | `PartsProofs` |
| `AppLoader` | loaders, their tasks and their fragment | detailed | `LauncherProofs` |
| `SessionKeys` | keys of a stream: keyboard, remote, on-screen keyboard, key driver | detailed | `PartsProofs` |
| `SessionPointer` | mouse buttons and gestures | detailed | `PartsProofs` |
| `SessionPad` | buttons, combinations, virtual mouse and its timer thread | detailed | `PartsProofs` |
| `StreamingView` | the view over a stream | detailed | `PartsProofs` |
| `HidTables` | tables of HID passthrough over scans, failures and streams | detailed | `PartsProofs` |
| `HidNodes` | the nodes of a device and the one that is opened | detailed | `PartsProofs` |
| `GameStream` | identity, pairing, status and start of an app | detailed | `PartsProofs` |
| `Launcher` | selected host, rail, listeners, automatic resume | detailed | `LauncherProofs` |
| `CoverLoader` | requests, cache and threads of the covers | detailed | `LauncherProofs` |
| `StoredSettings` | the two files over exits and crashes | detailed | `PartsProofs` |
| `MCGamepads`, `MCParts` | instances for TLC | | |

**Granularity.** An action is what a thread does between two points at which
another thread can get in: a lock, a push, a wait, a join, a read or write of shared
state without a lock. Straight-line code between is one step. A program counter
per thread (`mpc`, `wpc`, `session`, `thread[t].phase`) says where it is. Where
the code first tests and then acts without a lock, these are two steps: `DestroyTests`
and `DestroyPushes` are `app_bus_post`'s test of `running` and its push.

### 2.1 `Session` and `SessionProtocol`

`queue` is the SDL queue, restricted to the user events of a stream, actions and
the overlay command, each with the session that caused it (a *ghost*: the code's
events carry no session). `inFilter` says that the main thread is inside
`SDL_FilterEvents`. `held` is what OPEN takes (`input`, `awake`, the HID timer). With
`HardwareMouse`, a session has its mouse thread unless it is view-only:
`SessionBegin` chooses, and `HasMouse` says which it is.

| code | actions |
|---|---|
| `app_session_begin` / refused while one is there | `SessionBegin`, `SessionBeginRefused` |
| `session_interrupt` (first wins, sets `streaming_errno`, signals) | `Interrupt`, used by `UserLeaves`, `AppToBackground`, `AppRequestExit`, `TerminationInterrupts`, `DecoderFails`, `OnDestroy` and the exit |
| handlers of `root.c` and the streaming fragment | `OnConnecting`, `OnOpen`, `OnClose`, `OnFinished`, `OnOverlay` |
| posted actions | `OnUiClose` (waited for), `OnUpsert` (waited for), `OnDestroy` |
| `session_destroy` | `OnDestroy`, `JoinMouse`, `JoinWorker` |
| leaving: loop ends, drain, `backend_destroy` and `app_deinit` | `LeaveLoop`, `DrainDrops`, `DrainEnds`, `Deinit` |
| `session_worker` in order | `WorkerBegin`, `WorkerSeesMouse`, `WorkerLaunches`/`Fails`, `WorkerPrepares`, `SetupTests`/`Pushes`, `WorkerConnects`/`Fails`, `WorkerOpens`, `WorkerWoken`, `WorkerCloses`, `WorkerStops`, `WorkerQuits`, `UpdateTests`/`Pushes`, `WorkerResets`, `WorkerCleansUp`, `WorkerFinishes`, `DestroyTests`/`Pushes` |
| `mouse_worker` | `MouseOpens`, `MouseCloses` |
| `connection_terminated`, three reads and writes of globals | `TerminationFires`, `TerminationReads`, `TerminationSetsError`, `TerminationInterrupts` |

`race` is a history variable: it records that a post tested `running`
before the exit and pushed after the drain, which the liveness properties have to
excuse (`LatePost`; see section 6).

`seen` is another: the last stream event of the session that the main thread has handled.
It is what `SessionProtocol` speaks of: a session begins, is CONNECTING, then OPEN and
CLOSE or, when the connection failed, neither of them, then FINISHED, and only then goes
away; what the stream takes is held exactly from OPEN to CLOSE; when the application leaves
its loop (`"left"`), nothing is promised any more. `Protocol` maps the variables of
`Session` on those of the abstract module and `KeepsProtocol` says that every step is one of
the protocol or none. That is what the handlers of `root.c` and of the streaming fragment
count on without a look at what came before, and the runs of both workers check it: the user
interface cannot tell one from the other.

One assumption on code outside the repository: **Limelight runs no callback after
`LiStopConnection` has returned.** Without it `SessionPointersLive` (a part of `SessionLeavesNothing`) would
fail; the library detaches that thread, so the assumption is listed as a hazard.

The mouse grab that OPEN also takes is not in `Resource` but in `StreamingView`: closing
the overlay after CLOSE grabs again.

### 2.2 `EmbeddedSession`

Extends `Session` with `Embed = TRUE`: the child's state (`child`), `embed_process`
(`process`), its exit status, and `unheard` (history: an interrupt found no process to
signal). Every main-thread step is conjoined with `Signal`, which is what
`session_interrupt` adds in this build; `WorkerStep` is replaced by
`EmbedWorkerStep`.

### 2.3 `GamepadSlots` and `Gamepads`

`GamepadSlots` is `app_input_t`: `AddPad` is the whole of `app_input_init_gamepad`
(slot of the same identity first, then a slot never used; number kept or least
free), `ClosePad` the whole of closing. Nothing else changes slots.

`Gamepads` adds the session (`phase`, `announced`, `excluded`, `host`) and HID passthrough
(`seen`, `match`, `bridged`, `auto`, `fails`, `cooldown`, `pref`). The slots are
the ones of `GamepadSlots`; a slot's index stands for its number, which is
the theorem `RumbleReachesItsPad`. Devices come and go (`DeviceComes`/`DeviceGoes`) before
or after SDL says so (`PadAdded`/`PadRemoved`). `Polls` is the whole timer
callback: scan, reap, cool-down, at most one attempt. `host[n]` is what the host
was last told of number `n`.

Four histories say what a property must excuse: `missed` (a coming or going
under the overlay, which the session lets pass), `misled` (a device matched with the
slot of another), `paired` (bridged with its controller present since) and
`plugOut`.

### 2.4 `CtmLink`

One controller, its four kinds of threads, and the main thread that plugs it in and out.
`family`, chosen in the initial state from `Families`, selects what the tables of
`ctm_controller_ops_t` select: a HOST_CONFIG to wait for, composite siblings, an
evdev feeder, the raw-ACL forwarder, no hidraw.
`connected` is ENet's idea of the peer, `up` the truth; TCP has no such idea and
learns at the next send. Joins are states of their own (`joining_feeder`,
`joining_input`, `joining_sibling`) that are left when the joined thread has ended. One
action stands for `plug_out` reading and shutting down the socket.

The session thread looks at `stop` at certain places and nowhere else: before it tries to
connect (`Probes`), after it has connected (`Uses`), before each receive of the handshake
(`AwaitsConfig`), in the loop, and when a connection is over (`Releases`). The try itself
(`Connects`, `ConnectsNot`) does not look, nor does the HELLO: `plug_out` may set `stop`, find no
socket and go on to join while the connection comes up. It is the test after that which keeps it from
being used (`JoinedAreTold`; the mutant `UsesAny` drops it). The code would not hang without
it, since the handshake and the loop test again: it would greet an agent and grab a device for a
controller that is being plugged out.

### 2.5 `CtmMessages`, `Ring`, `LossyQueue`

What travels over one link. Three rings of `Cap` slots: the *outbox* (reports of the
readers and answers of the session thread, under a mutex), the *inbox* (what the
agent sent) and the *paced* queue (reports to write one per interval). `Ring` has
the arithmetic of `head` and `count` modulo the capacity, with the payload pointer of every slot
(`Free` where the slot owns none). `resend` is the queue of the send the
library refused. One `Cap` stands for CTM_ENET_INBOX_CAP = CTM_ENET_OUTBOX_CAP = 256 and
PACED_QUEUE_CAP = 32: each ring uses only its own capacity. Messages
carry the connection they were queued on (a ghost).

`LossyQueue` is what a user of such a ring relies on: put, take the oldest, clear,
and when full lose the oldest, to take another. `Outbox`, `Inbox` and `Paced` are
instances of it with `queue <- Content(ring)`.

### 2.6 `PcManager`, `DiscoveryThrottle`, `AppLoader`

`PcManager`: `servers` is the list; `node` and `uuid` are the heap (a node's host,
state and server; whose data a SERVER_DATA holds, `Nothing` once freed). A thread is
idle, asking (the network), looking up or waiting for its turn on the main
thread; `bus` is the order of the `app_bus_post_sync` waiters. `aborted` says that an
assertion failed or that a server that was freed was used: the program stops
there. `Kinds` selects the requests of a run.

`DiscoveryThrottle`: the list of reported hosts with ages in place of ticks.
`AppLoader`: two loaders (memory), the fragment that owns the current one, and the
task with its callback and its reference.

### 2.7 The parts of `MCParts`

The ten modules below and `DiscoveryThrottle` share no state with each other, or only
state that each takes as an input that may change at any time: a stream that starts and
ends, an overlay that comes up, a host that changes. They are checked in one run: the
initial state chooses a part, and only its steps are taken. A behaviour of a part is one
of its own specification.

- `SessionKeys`. `listed` is `_pressed_keys` as the number of entries of each key, `host`
  what the host has. Ctrl, Alt and Shift are one key, `Chord`: only the three together matter.
  `shown` is what takes the keys from the stream.
- `SessionPointer`. `pressing` is what is physically held, `mouseDown` what the host has;
  positions are *inside or outside the slop*, times are *short or long*.
- `SessionPad`. `noted` are the four statics a combination leaves. The timer thread
  (`TimerGivesUp`) may see `vmX` and `vmY` between the two writes of the main thread.
- `StreamingView`. Stream events come in the order `Session` gives them; commands of the
  user pass through `posted`, so that they arrive after what they were meant for.
- `HidTables`. Keys of tables are node numbers, which the kernel reuses. `onHost` are
  the bridges of the agent, `stray` (a history) those whose end it was not told. Reaping
  and trying are two steps of a poll, since scan and plug see the devices at different
  times.
- `HidNodes`. `Parts` says what a device shows in each mode; a scan is a set of nodes;
  the identity of a port and its enumeration are remembered, and never read again.
- `GameStream`. One host, one request at a time; every request may fail before or after
  the host has acted. `trusted` are the certificates the host accepts, `clone` the
  SERVER_DATA that a worker changes until it is handed to the list.
- `Launcher`. The loop of `pcmanager_listeners_notify` is a step per listener, with the
  `next` it has remembered. `arms` counts the start of the application and each time it
  comes to the foreground.
- `CoverLoader`. A thread of the executor is in a step of its request; `run_on_main`
  is a step of the main thread it waits for.
- `StoredSettings`. Lines are headers, settings, or *torn*: a header whose end
  `hid_pt_prefs_flush` has cut. Three settings stand for all: one found by its name, one found by
  section and name, and one that must agree with it, which the reader bounds before it makes the two
  agree (`Clamped`). The table of the preferences has no bound in the model: with its 32 entries taken
  `pref_upsert` finds no room and nothing changes, so that the bound only takes steps away. A crash leaves
  a file as it was, or empty when it was open for writing: the file is smaller than the buffer of stdio.

## 3. The runs

Every mutant in `PROJECT.json` changes one mapped definition as a plausible bug would
and the property named with it fails under the same configuration.

| run | states | what it shows |
|---|---:|---|
| `session` | 62 k | two sessions, with the mouse thread or view-only, where video and UI share no screen: events meet their session, the overlay finds it, what OPEN took is owed by a CLOSE, pointers live, the filter joins no pusher, errors are the session's own, the UI comes back (except after a failed connection, `state = "ERROR"`); interrupted and failed sessions end, a quit reaches the host, the exit completes; all of it as steps of `SessionProtocol` |
| `embedded_session` | 4 k | the child is signalled only while it is ours, is reaped, its end ends the session, an interrupt ends both; UI and exit as above; steps of the same `SessionProtocol` |
| `gamepads` | 2.7 M | the host is current, bridged controllers are silent, a plug out is respected; rumble finds its controller and numbers suffice |
| `gamepads_live` | 34 k | bridges follow devices; auto-plug comes to an end |
| `ctm_link` | 21 k | six families over both transports: readers have their link, who is joined was told to end, threads end with the controller, a stale wake stops no reader, plug out returns, a lost link is retried |
| `ctm_messages` | 429 k | payloads freed once, nothing stale, rings are queues, order kept |
| `pc_manager` | 519 k | one node per host, one owner per server, what a thread posted is in the bus until it was done, every request answered, over all kinds of requests |
| `apploader` | 5 k | references exact, one task, loaders freed, loads end |
| `parts` | 1.7 M | the eleven parts of section 2.7, each from its own initial states: no key or button is left down on the host without a way to release it; pads at rest are at rest on the host; focus group, dialogs and mouse grab go with what is shown; the tables of HID passthrough agree with each other and with the host; a Flydigi is opened by a node of the pad in every mode; no half pairing; the host is believed for what it answered; covers and their loader live as long as they are used; listeners, streams and automatic resumes in order; the throttle's list sorted without twins and a host reported by its second announcement; what was saved comes back |

Several properties are conjunctions of named parts, each with its own comment in the
module: `EventsComeInTime`, `SessionLeavesNothing`, `EmbedLeavesNothing`, `EmbedSessionEnds`, `GamepadsInOrder`,
`HostsInOrder`, `ThreadsInOrder`, `LoadersEnd`. Three of them hold what progress rests on:
`WaitsAreAnswered` (of the session), `JoinedAreTold` (of a controller) and `PostsAreQueued` (of
the host list) say that what a thread waits for is on its way.

The type invariants of `Session` and `CtmMessages` are theorems of their own and not in the
runs; those of the other modules are the first conjunct of an invariant that a run checks,
whose comment says "Besides the types".

The runs `ctm_stop`, `pc_forgotten` and `throttle_test` end in a violation: see section 6.

**Bounds, and why they suffice.**

- `MaxSessions = 2`: a second session is what a late event, a leftover error or a
  stale pointer of the first could hit; a third meets the second as the
  second met the first. `UIExclusive = TRUE` is the case with more behaviour: the UI
  is closed for the video and has to be opened again.
- Two controllers and two slots in `gamepads`: slots are left, taken again by the one
  that had them and not by the other, in any order; for the slots the proofs cover every
  number of both. `MaxFails`, `Cooldown` and `MaxUnnoticed` of 1: one attempt
  that fails, one wait, one device whose change SDL has not yet reported. `gamepads_live`
  has one controller, a device that is none, `MaxFails = 2`, so that
  a counter is seen to be reset or not.
- `ctm_link`: one controller, any of the six families, and any number of connections.
- `Cap = 2`, three reports, three requests, two connections: a ring fills,
  wraps and drops, with something left; one reconnection.
- `PcManager`: two hosts, one executor thread and the mDNS
  thread (two threads on one host), three nodes and four data: an
  old, a new, one in flight and one to spare. Memory is not reused while a thread
  holds it: use after free shows as a freed cell, never as another object.
- `parts`: three keys are the chord, one that completes a combination and the one of
  the remote that the driver treats apart; a key is listed twice at most, so that a list
  that grows is seen. Two pads share the notes of combinations, of three buttons: one
  combination whole, and parts of the others. Two devices and two node numbers: a
  number that the other device takes, and one that the same device comes back to; neither has an
  address (`Tagged = {}`), since `TablesAgree` does not ask what a preference follows, and its
  theorem holds for every `Tagged`. Two ports, each with any mode of a Flydigi or another
  device. Two apps and two certificates: the one before a reinstallation and the one after. Two requests and
  three covers over a cache of two: one is thrown out, one kept, one on its way. Two hosts, one of them the
  default of the command line; `MaxArms = 2`: the start and one return to the foreground. Two
  devices with a preference, one whose id survives a restart and one whose id does not; two
  frame rates offered and three entered: one that rounds to different whole rates by thousandths and by
  hundredths, one that rounds to a rate with a precise one of its own, and one above the 240 frames up
  to which the reader takes a precise rate.
- `DiscoveryThrottle`: three hosts are an expired one, one that is not and the newcomer;
  `Ttl = 3` leaves room for different ages of all.
- `AppLoader`: two loaders are one whose fragment was deleted and its successor.

**Deadlock** is checked except in the runs of `PcManager`,
where a failed assertion stops the program, and in `parts`, where a user may have done
all that the bounds allow. In `Session`, the states
in which nothing can go on are named (`Stopped`: exited, a failed assertion, or the two
named hangs) and every other one would be reported.

## 4. Fairness

- *Main loop*: weak fairness of handling an event, of deleting a fragment that was popped,
  of a join whose thread has ended and of leaving, each on its own: a round of
  `app_run_loop` does all of them.
- *Threads*: weak fairness of each thread's next step. Calls into
  libraries return: Limelight's start is interrupted, HTTP requests have timeouts.
- A child that was told to end does so (`ChildObeys`); one that was not may
  run for ever. `TimePasses` and the announcements of hosts are fair in the specification
  of the throttle that `throttle_test` uses, since mDNS keeps announcing.
- *Not fair*: the user, the operating system, the network, devices, the agent on the
  PC. `Polls` is fair while the input of a session is started: it is an LVGL timer.

Named excuses in liveness properties: `LatePost`, `MouseLost`, `Unheard`, `crashed`,
`aborted`. Each is a hang or stop of the code that is described in section 6 or
listed among the hazards; the properties say that there are no others.

## 5. The proofs

TLAPS checks the following for every value of the constants that the modules' `ASSUME`s
allow (a positive number of sessions, slots and capacity; finite sets of hosts, keys, pads,
nodes and ports; marks such as `Nothing` and `NoHost` that are no member of what they stand
apart from). Every safety property of the passing runs is a theorem. Two theorems have a hypothesis
besides: `TablesInvariance` and `TablesStayInAgreement` hold where `RoomForNodes`, no more nodes than `MaxSessions` (32 in
the code); with more the tables do disagree (section 6).

The argument has the same form everywhere: an invariant that `Init` gives and every action
keeps, one step of the proof for an action and one below it for each part that it can
disturb; then the property from it. What the properties need besides themselves is the
interesting part:

**`SessionProofs`.** Four invariants. `IndInv` gives `EventsMeetTheirSession` and
`FilterNeverBlocksWorker`: that DESTROY is handled after the session's last event follows
from the order in which the worker pushes and from the queue being first in, first out. It
is `TypeOK` and the seven facts of `Shape`: a worker that has not finished has
`app->session` (`WorkerHasSession`), what the phase of the main thread says of its flags
(`MainPhases`), `StreamEventsMeetTheirSession` itself, an action that a worker waits for is
in the queue only while it waits (`RequestsAwaited`) and once (`OneRequest`),
behind DESTROY there is no stream event (`DestroyComesLast`), and the worker that is joined
inside the filter is done (`JoinAfterWorker`). `EndInv` adds what `SessionsLeaveNothing`
needs, in two groups. *Owed*: an OPEN on the queue has its CLOSE behind it or the worker
still to push it (`OpenIsClosed`); what OPEN took and the user interface that was closed are
owed likewise (`HeldIsOwed`, `UIIsOwed`); no OPEN or CLOSE follows UPSERT, so nothing of the
stream is left when the worker is past it (`NothingFollowsUpsert`, `ClearWhenThrough`);
DESTROY is last; overlay commands are of the session there is. *PointersHeld*: Limelight
runs callbacks, and has the pointer, only while the worker is inside its calls, which
outlasts each callback. `ErrorIsLate` keeps the one excuse, a failed connection, to the
session that failed.

The third, `Due`, is what the refinement `SessionImplementsProtocol` needs. The stream events
a worker has pushed (`Said`) follow from where it is. The main thread has seen one of them or
none (`SeenWasSaid`); those that come after it, and no others, are on the queue
(`RestIsQueued`), in order (`QueuedInOrder`); and something is held exactly while the last
that was seen is OPEN (`HeldWhileOpen`). So the event the main thread takes is always the next
one (`StreamTaken`), and its handler is the action of the protocol with its name
(`HandlersKeepProtocol`); a session goes away with an empty rest, that is, with FINISHED seen.
Of `EndInv` this only uses that an error comes late: the events of a failed connection lack
OPEN and CLOSE.

The fourth, `WaitInv`, is what progress rests on: every wait of the session is for something
that is on its way (`NobodyWaitsInVain`). A worker that waits in `app_bus_post_sync` has its
request on the queue, and the queue has not been drained for the last time, unless the post lost
its race with `app_bus_drain` (`RequestIsSent`); that needs that a post which is about to push has
tested `running` (`PostWasTested`). Whoever interrupts a session has told its mouse thread
(`MouseIsTold`), and nobody is joined who was not (`JoinedIsTold`). That the main thread joins
nobody meanwhile comes from `JoinAfterWorker` of `IndInv`. With the two theorems of `IndInv` it
is `SessionEventsComeInTime`. A wait that has what it waits for ends only if the other thread is
scheduled: that half stays with `SessionEnds` and `ExitCompletes`.

**`EmbeddedProofs`.** The main thread is that of `Session`, and so are its lemmas.
`EmbedInv` is `IndInv` with where the other worker can be, `ChildTells` (a child is there
exactly between spawn and wait) and `UIIsOwedBack`. `EmbeddedImplementsProtocol` is the same
refinement from the same `Due`, with only the worker's own steps proved anew; so is
`EmbeddedEventsInOrder` from the same `WaitInv`.

**`GamepadsProofs`.** That a slot's number is its index is nowhere written in the code,
which uses one for the other: it holds because slots are first used in order
(`UsedInOrder`), and a first use takes the least free number. Since a departed controller's
number is not in the mask, this needs more than the mask: `NumbersAreSlots`,
`NumberedIfUsed`, `OneSlotEach`, exact mask and count. From `SlotInv` follow
`RumbleReachesItsPad`, `MaskStaysExact` and `NumbersAlwaysSuffice`. Over it, `PadInv` for
streams: the mask of what was announced is what the host was told (`HostTells`), nothing is
announced before the input starts (`NothingYet`), a device that is tried has attempts left
(`TriesLeft`), a deliberate plug out is *done* for the auto-plug (`PlugOutSettled`), and who
is silent by being bridged is connected (`PairedAreThere`). Hence `HostStaysCurrent`,
`BridgedStaySilent`, `PluggedOutStaysOut` and `RumbleFindsPadsInStreams`.

**`CtmLinkProofs`.** `LinkInv` says at which places of the session thread each reader may be
there, who holds the link and the device, and how many bytes the wake pipe holds
(`WakesCounted`): at most the one of the connection that ended, which is drained before the
next input thread starts, and the one of the plug out. Hence `ReadersKeepTheirLink` and
`NoStaleWake`. Over it `JoinedAreTold` is inductive: a byte that was written for the input thread
stays until that has ended, and a TCP connection that is up after `plug_out` has looked for one came
up meanwhile: the session thread has just made it, or leaves it, since `Uses` needs `~stop`. The evdev feeder is the exception, and is not told when
the link is lost (section 6). Both together are `ThreadsStayInOrder`.

**`CtmMessagesProofs`.** Lemmas on a ring of any capacity (putting, dropping the oldest and
taking change its content as a queue's; distinct positions are distinct slots; payload
ownership is kept), then `MessagesInv`, which adds `ProbingIsEmpty`: between two connections
the rings are empty, because `enet_client_reset_queues` ran and no reader is alive.
`RingsImplementQueues` is the refinement: each step of the three rings is a `LossyQueue`
step or a stutter. `MessagesComeInOrder` needs `OrderInv`: what the PC has received, what is
on the wire and what waits in the outbox have growing numbers, one after the other, none
above `sendSequence`; likewise what was handled, the inbox and what is on its way to it; and
the paced reports lie between the last that was written and the last that was handled.

**`PcManagerProofs`.** That a host is listed once and that a server has one owner depend on
each other: a thread that brings a server replaces, and frees, that of the node of the same
host, because the server it brings is of the host it looks up (`NodesTell`, `ThreadsTell`).
`OwnersDiffer` and `NothingLost` are the two halves of one owner; `EmptyIsLast` says that a
node without a server is the last of the list, since every look-up stops the program at it
(section 6). `WaitersAreServed`: the bus loses no action a thread waits for, since only the main
thread takes one, and a request with a second action (an answer after its upsert) posts that
before it waits again.

**`LauncherProofs`.** *Loaders*: the reference count is one of the fragment and one of the
task (`RefsCounted`), and a task anywhere keeps its loader loading (`TaskLoads`). *Covers*:
a request is in memory exactly while it is listed, once (`ListedOnce`), so that what a
thread and the view hold is there; an image that was put for a request stays cached until it
is shown (`RequestsTell`), as a cache with room for hundreds gives in the code and `Cached`
in the model. *Rail*: the listeners are the launcher and its rail while no stream is above
them (`ListenersTell`); and the streams that started by themselves, the one that is on its
way and the one that may yet be started are together no more than the times the application
came to the front (`StartsAreDue`): a budget, which the property alone does not carry.

**`PartsProofs`.** One invariant for each part. `PointerInv`: a button that is down is held,
and a gesture that has not begun to drag has not sent it. `KeysInv`: the host has nothing
down that is not listed, of a session that only watches nothing at all. `PadInv`: a write of
the axes is under way only while the virtual mouse is on. `ViewInv`: a view that leaves has
no panel and no command to come. `ThrottleInv`: the list is sorted although its eviction
cuts it on the wrong side (section 6), because what the cut leaves is a beginning of it.
`GsInv`: trust that a pairing made is undone where it ends, unless that request is lost.
`NodesInv`: rows, cached identities and enumerations agree with the nodes they were made
from. `TablesInv`: two devices are never at one node (`DevicesApart`), no two sessions share
a port or a bridge (`SessionsApart`), and each bridge of the host has one who answers for it
(`HostKnown`). `StoredInv`: the settings file is as `settings_save` wrote it, or a death has left
it empty, or a ticked device without headers but its own, and in all cases what is left says of
`autoresume`, which the parser finds by its name alone, what was saved (`FileIsKnown`); an exit
leaves the last state (`ExitWasKept`), of which the reader makes `Kept`: a rate above its bound that
agreed with the frames does not agree any more when it was bounded, and becomes 0 (`ClampedIsKept`); no host is listed twice and one at most is selected
(`HostsInOrder`), which the reader, that keeps the first of several, needs to give back what was
written. What a text of any length says is no
induction there: the last line that sets a name is the greatest index of a set
(`MaxIsGreatest`), and what a filter or a concatenation keeps is found by a least
counterexample (`MinIsLeast`, `FlattenPicks`).

**Model-checked only.**

- Liveness and `ENABLED`, which TLAPS does not reach: `SessionEnds`, `QuitReachesHost`,
  `ExitCompletes`, `EmbedSessionEnds`, `PlugOutCompletes`,
  `LinkLossIsRetried`, `BridgesFollowDevices`, `AutoPlugSettles`, `RequestsEnd`,
  `LoadersEnd`.

## 6. What the code does not keep

Each of these is a property that states a sentence of the repository and that TLC
refutes. Three are runs of this project, and `PROJECT.json` quotes their sentence:

| run | property | what happens |
|---|---|---|
| `ctm_stop` | `LoopsUntilPlugOut` | An input thread whose send fails sets `stop`, the sign of plug out: the controller is not reconnected. |
| `pc_forgotten` | `NoAssertionFails` | The failed update of a host forgotten meanwhile puts a node without server in the list; the next look-up fails an assertion. |
| `throttle_test` | `ReportedOncePerTtl` | The eviction cuts the list on the wrong side: an expired host that a fresher one follows is ignored after its time, and a fresh one that follows an expired one is reported again within it. |

The others are stated at the end of their modules, after the sentence they quote. To see
the counterexample, check the property alone, as INVARIANT or PROPERTY, with the
constants given:

| module, constants | property | what happens |
|---|---|---|
| `Session`, as `session` | `EvMouseAssertion` | An interrupt before the mouse device is open fails `assert(mouse->dev != NULL)`. |
| `EmbeddedSession`, as `embedded_session` | `FinishedSessionIsDestroyed` | The child cannot be spawned: FINISHED is pushed, the session is never destroyed, and no other begins. |
| `CtmLink`, `Families = {"flydigi_evdev"}` | `LoopsUntilPlugOut` | After a lost link the session thread joins a feeder that only looks at `stop`, and hangs. |
| `CtmLink`, `Families = {"flydigi"}` | `NoOrphanFeeder` | The input thread cannot be started: the feeder is left to run on a controller that is freed. |
| `CtmLink`, `Families = {"ds5"}` | `AclEndsWithController` | The device cannot be opened: the raw-ACL thread outlives its controller. |
| `MCGamepads`, as `gamepads` | `MaskLeavesOutExcluded` | The state of one controller is sent with a mask that includes the bridged ones. |
| `MCGamepads`, as `gamepads` | `ExclusionEndsWithBridge` | A controller that leaves while bridged keeps its exclusion; the next in its slot is dead. |
| `MCGamepads`, `Model <- MCTwins` | `OwnSlotExcluded` | Of two controllers of one model, the wrong one's slot is excluded. |
| `MCGamepads`, as `gamepads_live` | `OtherPadsWork` | A device that matches nothing is taken for the only controller. |
| `CtmMessages`, as `ctm_messages` | `RepliesKept` | A full outbox drops an answer the host waits for. |
| `PcManager`, `Kinds = {"discover", "quit"}` | `NoAssertionFails` | Quit hands over a server the list owns; an answer handled first frees it. |
| `PcManager`, `Kinds = {"discover", "wol", "forget"}` | `NoReaderOfFreedNode` | A node is freed while a worker reads it without the lock. |
| `PcManager`, `Kinds = {"discover"}` | `OfflineIsTheHost` | The first host of the list is marked offline, whichever was meant. |
| `AppLoader`, as `apploader` | `AlreadyLoading` | A cancelled load leaves the loader LOADING: a view that comes back never loads. |
| `StreamingView`, as `parts` | `KeyboardGoesWithView` | A keyboard on the top layer is not a child of the view: it stays when the view is deleted, with a session that is freed. |
| `HidTables`, as `parts` with `Tagged = {"a"}` | `AutoPluginPerController` | The kernel gives the node number of a ticked device to another: its record is found for it, and it is bridged by itself. |
| `Launcher`, as `parts` | `LeftForGood` | A stream is started by hand and left with its game running; the next update of the host resumes it, since the guard of the start was never used up. |
| `StoredSettings`, as `parts` | `SavedIsKept` | Ticking a device cuts the end of every other header of the file; if the application dies before it saves again, the settings of those sections are lost. |
| `StoredSettings`, as `parts` | `ExactRateIsSent` | An entered rate of 119.94 is replaced by the 119.88 of the preset it rounds to. |
| `StoredSettings`, as `parts` | `ExactRateComesBack` | A rate of 300 is entered and sent; after a restart it is read as 240, does not agree with 300 frames, and is 0. |

Some are excused by name in properties rather than stated as properties, since
no sentence of the repository says otherwise: `LatePost` (a post that tested
`running` before the exit and is pushed after the drain is waited for by a worker the
main thread joins), `MouseLost` (the worker waits for a mouse device when there is
none), `lost` in `SessionPointer` (a release that goes to the overlay leaves the button
down on the host; from then on nothing is said of that button) and `unheard` in `GameStream` (the unpair
that cleans up a failed pairing is lost itself). A crash between the stage of a pairing that makes
the host trust the client and that unpair leaves the trust as well: nothing cleans up then, and
`Restarts` does not count it.

The models show some more that no property is about. The count of keys held drifts
below zero when presses go to the overlay and releases do not (`SessionKeys`,
which bounds it by `MaxDrift`). A cover that was loaded for an item deleted meanwhile, and is not in the
cache, is put there with the radius of an item that is NULL (coverloader.c:254); `Puts` goes on. "Pairing was declined" is an error text with the result
`GS_OK` (client.c:220); `paired` stays unset (`GameStream`). A preset without an NTSC rate
keeps the precise rate entered before if both round alike (`StoredSettings`). Preferences under an id
that holds a ':' are not found after a restart, since the parser cuts names there. A session table that is
full drops a session whose controller runs on (`HidTables` with fewer `MaxSessions` than
`Nodes`).

## 7. What is left out, and why

- *Output only*: audio, statistics, motion sensors, effects of rumble, the CTM
  monitor. No state other threads read.
- *Data*: contents of reports, features, messages and frames; XML, the cryptography of the
  pairing; the text of sysfs and of report descriptors. Torn or malformed frames are not modelled.
- *Widgets*: LVGL objects, layout, the panes of the settings, fonts, translations, drivers but
  that of the keys. What LVGL objects hold while a thread of Limelight changes them
  (streaming.controller.c:490) cannot be taken from this source.
- *View-only sessions* but for their mouse thread and the keys, the plug in of single interfaces of a composite device.
- *Failures of the system below*: `pipe()`, memory, the reuse of file descriptors; leaks
  of descriptors of composite siblings.
- *Time*: the connection attempts of TCP end some time, as the kernel makes them;
  the handshake has a timeout for ENet only. Ticks that wrap are not in the throttle.
- *Exit of the host list* (`pcmanager_destroy` before the executor stops, the throttle before
  the mDNS thread): what a thread reads of memory that was freed.
- *Memory of the image loader*: which of several equal callbacks LVGL removes is
  modelled (`WithoutCb`), what a callback that was left reads is not.

## 8. Plan

Done: the session and its two workers, gamepads and bridging, the controller link and its
messages, the host list, the throttle, the loader, and the parts of section 2.7; the theorems of
section 5, which cover every safety property of the passing runs.

The runs are kept to a dozen and their properties to about forty, so that everything can
be checked again in minutes: a new part joins the run of the part it interacts with or `parts`, and its
properties take the place of ones that a deeper one implies.

Next, the most important first:

1. **Progress**: that a thread waits only for what is on its way is proved for the session, the
   controllers and the host list; that it gets it is checked by TLC, as long as the prover has no
   rules for fairness. The tasks of the loaders and the callbacks of the rail are next.
2. **Composition**: `StreamingView` with the main thread of `Session`; the input modules under one overlay.
3. **Exit of the host list** as actions of `PcManager`.
4. **Pure algorithms**: resolutions, decode units split over buffers, each against a
   reference definition.
