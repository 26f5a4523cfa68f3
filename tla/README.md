# A TLA+ development of the CarPlay hook for MIB2Q

The program puts Apple CarPlay's route guidance and cover art on the
instrument cluster of a car whose head unit only knows its own navigation.
A library preloaded into `dio_manager` (`c_hook/`) reads the iAP2 messages of
the phone, classes patched into the HMI (`java_patch/`) turn them into cluster
messages, and a process of its own (`c_render/`) draws maneuvers.

    phone --iAP2--> dio_manager + hook --bus, TCP 19810--> HMI classes --BAP--> cluster
                                                              |
                                                              +--TCP--> maneuver_render --video--> cluster

## The system's parts

| part | state it keeps | what makes it correct | modules |
|---|---|---|---|
| one-way bus, hook side (`framework/bus.c`) | ring, sticky cache, `g_client_fd`, three threads | live frames in order, sockets owned once, a reconnect makes up for what was lost | `BusNet`, `HookBus`, `BusSystem` |
| one-way bus, Java side (`CarplayBus.java`) | connection, listeners | the listener ends with what was published last | `CarplayBus`, `StickyChannel` |
| route guidance hook (`rgd_hook.c`) | debounced route state, maneuver and lane slots, merged update | a pause of the route never reaches the HMI, its end does; a slot means one maneuver | `ManeuverSlots`, `RouteGuidanceHook`, `LaneGuidance` |
| TLV parser (`rgd_tlv.c`) | the structure it fills | no list outgrows its array, the result is what the message means | `RgdTlv` |
| hook framework (`hook_framework.c`, `iap2_protocol.c`) | session flags, link header for injection, `in_send` | START names what the phone was told, STOP matches it, a malformed packet has one of four known causes | `Iap2Frame`, `IapSession` |
| cover art hook (`coverart_hook.c`) | descriptors, streams, one-slot worker, two files and a link | no image is missed or mixed, the last one wins, the link names a whole file | `IapDescriptors`, `ImageStream`, `CoverArtHook` |
| cover art, Java side (`CoverArt.java`, `TerminalModeBapCombi$EventListener.java`) | CRC, picture number, two threads' flags | the newest picture gets to the cluster | `CoverArtView`, `CoverArtSystem` |
| session lifecycle (`CarPlayHook.java`) | `active`, retry threads, listeners | nothing runs after deactivation | `CarPlaySession` |
| native gate (`GatedCombiService.java`) | one flag | closed only while a route is shown | `CarPlaySession` |
| route guidance, Java side (`RouteGuidance.java`) | the merged state of all frames | the state is the hook's | `RouteGuidanceView`, `LaneGuidance`, `AmapGuidance` |
| AMap guidance (`Amap*.java`) | mode, hold, two timers with generations | what is held back is made up for, what is held ends | `AmapGuidance` |
| renderer lifecycle (`BAPBridge.java`, `RendererServer.java`, `c_render/main.c`, `server.c`) | prepared, started, the engine, one socket | nothing of a former maneuver is seen, the newest is shown in the end | `ManeuverRender`, `RendererFeed`, `RendererSystem`, `CarPlaySession` |
| cluster window (`platform_qnx.c`) | window, surface, context, threads running `dmdt` | what is lost is regained, a shutdown leaves nothing | `ClusterWindow` |
| drawing (`maneuver.c`, `route_path.c`) | the scene's caches, one path | the frame shows the engine's state, the route lies on its roads, nothing jumps | `JunctionRoads`, `RoutePath`, `RouteTransition`, `ManeuverScene` |
| mapping, touchpad, logging, stock classes | | | not modelled, see the end |

Parts share little: the bus carries one text frame per update, the renderer's
socket carries fixed packets, and everything else is calls inside one process.
The hard behaviour is between threads (iAP2, timer, connector, writer and worker
in the hook; device manager, retry, bus reader, HMI, renderer reader and timers
in the HMI; `dmdt` threads in the renderer), at reconnects and respawns, at calls
that fail half way, and at the timers that decide that a route has ended.
`PROJECT.json` lists each hazard at its line with the properties that cover it.

## The runs

Every run is checked exhaustively within its bounds. `CHECK_DEADLOCK FALSE`
stands where the system may rest: when the bounded events are used up, or, for the
parser, at the end of the message. `injection` ends in a violation, as it should: it is the
one finding of `PROJECT.json`.

| run | what | states |
|---|---|---|
| `bus_order` | the bus with three connections on one descriptor number; refines `StickyChannel`, and its liveness | 519 146 |
| `bus_faults` | the bus with time-outs, two descriptor numbers and a respawn | 4 191 640 |
| `rgd_hook` | three parts that share no state, each by itself: the hook's messages, slots and debounce; a CarPlay session; AMap's frames and timers | 140 196 |
| `rgd_view` | the hook and an HMI that misses frames and restarts | 1 292 296 |
| `lanes` | lane slots, their pruning and lookups, and the HMI's choice | 531 030 |
| `art_streams` | descriptors with their streams; images in a stream | 643 583 |
| `art_system` | the cover art's worker, files, bus, HMI and cluster | 1 357 666 |
| `phone` | messages of up to three TLVs, lanes of up to four; the session's liveness with two threads that send | 323 328 |
| `session` | identification, injection and exit, with two threads that send | 2 210 002 |
| `injection` | the same: a packet from a freed link header | violation |
| `render` | HMI and renderer over their socket | 266 663 |
| `display` | window, context and `dmdt` threads; the scene; junctions, pairs and transitions | 623 508 |

A run over parts that share no state (`rgd_hook`, `art_streams`, `phone`, `display`) has a
next-state relation that takes the steps of one part while the others stay in
their initial states: the reachable states are those of each part.

## The bus

### Modules

* `BusNet` - loopback TCP as both ends see it: connections are numbered,
  `fdConn` says which connection a descriptor number is open on (numbers are
  reused, as the kernel does), `wire` is the bytes on their way, `peer` the
  Java end. A frame is one chunk (`whole`), or `head` then `body` when the
  writer sends header and payload, or a `piece` when a `send()` stopped at
  SO_SNDTIMEO; `cut` lists the connections where that happened.
* `HookBus` - `bus.c`. Every section under `g_lock` is one step; every
  `send_frame()` outside it is one of its own. `cPc` is the connector's place in
  `connector_main()`, `wPc` the writer's in `writer_main()`; `wPc = "body"` is
  `g_sock_write` held between header and payload. A payload is the number of its
  `bus_send()` call, so that order and age can be spoken of.
* `CarplayBus` - the Java reader, the listeners and start/stop.
* `BusSystem` - both over one network, with the properties.
* `StickyChannel` - what the modules that use the bus rely on: live frames at
  most once and in order, a replay never takes a listener back. The refinement
  maps publications, listeners, what each was given last and the last live
  payload; everything else of the bus is internal to it.
* `BusSystem_proofs` - theorems. `MCBus` - values for the runs.

### What the runs show

| run | instance | properties |
|---|---|---|
| `bus_order` | two types, a ring of one, two publications, three connections, one descriptor number, fair threads | `ImplementsChannel`, `Recovers` |
| `bus_faults` | one type, a ring of two, two descriptor numbers, two connections of which one times out, one respawn | `OneSocket`, `LiveInOrder`, `NoTornFrame`, `IdleMeansFresh` |

`IdleMeansFresh` is the heart: when nothing is on its way on an open link, a
listener that was registered before the connection was accepted holds the value
published last, unless that very publication found the ring full or a send
on this connection timed out. `Recovers` says that no wakeup is lost: a link
that stays up brings every such listener up to date for good, and while the
HMI listens the link comes up again. `StickyChannel` deliberately lacks the
promise that live traffic is newer than the replay before it, since it is not
(see "Behaviour seen while modelling").

Bounds: `MaxConns` connections, `MaxPublish` calls of `bus_send()`,
`MaxRestarts` respawns, `MaxCut` connections with time-outs; `QueueCapacity`
stands for 256. A ring of one overflows with the second publication; three
connections are two reconnects; one descriptor number makes every reconnect
reuse it, two let the writer hold an old one.

Fairness (`bus_order`): the connector, the writer unless it waits for a
signal, and the reader run on. Nobody is obliged to publish, start, stop or
subscribe, and a spurious wakeup is never counted on.

### What is proved

For every set of types and descriptors, every ring and every bound, with any time-outs
and respawns (`BusSystem_proofs`):

* `SocketsCorrect`: types, `NoStaleFd` and `OneSocket`. `OneSocket`
  is not inductive alone: it rests on `Exposure` (only a watched descriptor is exposed)
  and `ThreadLocals`; `SocketInv` is the conjunction, one step per action.
* `LiveStaysInOrder`: `LiveInOrder`.
* `BusImplementsChannel`: `Spec => ImplementsChannel`.
* `FramesStayWhole`: `NoTornFrame`.
* `IdleListenersAreFresh`: `IdleMeansFresh`.

`LiveStaysInOrder` and `BusImplementsChannel` rest on `OrderInv`. What makes it
inductive: bytes are only added on the newest connection (`NewestOpen`) and read from the
oldest (`PeerOrder`), so that places on all wires are in one order and any two chunks
satisfy `InOrder` (`WireOrder`); `Placed` relates a chunk on a wire to what has come live
before, to what is behind it in the hook and to the cache and the snapshot; `CacheAhead`
says that a snapshot is never
behind what a listener holds, also when the writer sends an old frame on a descriptor
number that has been opened again. The proof has one lemma per way a wire changes
(`PutOrder`, `ConsumeOrder`, `CloseOrder`) and one or more per thread.

`FramesStayWhole` rests on `FrameInv`: on a connection without time-outs every header,
still on its way or already read, is followed by its own payload, or is the last thing
sent while the writer holds `g_sock_write` for that payload.

`IdleListenersAreFresh` rests on `FreshInv`. `QueuedLast`: a frame that is not the last
of its type, in the ring, in the writer's hands or in a snapshot, has the last queued
behind it, unless that one found the ring full.
`NothingLost`: from the snapshot of a connection on, the last publication is in what is
left of the snapshot, in the ring, in the writer's hands for this descriptor, or on the
wire with nothing older behind it. Both lean on `SocketInv` (whose hands the descriptor
is in) and on `OrderInv` (what "older" means across connections).

Assumptions: `NoFd` is no descriptor, types are numbers (so that -1 marks HELLO and the
SYNC frames), the bounds are numbers, the ring has room for one.

### Left out

Sequence numbers (written by both ends of `bus.c`, read by no receiver), a
failing `malloc` or `pthread_create`, `bus_set_policy` (stored, never read), a
ServerSocket that cannot be bound, the age of the heartbeat (only logged).

## Route guidance: the hook and the HMI's view

### Modules

* `ManeuverSlots` - the cache of maneuvers of `rgd_hook.c`. `slotIdx`, `slotVer`,
  `verCounter` and `cache` are `slot_to_iap_idx`, `slot_ver`, `ver_counter` and
  `slot_cache[].present`; `older` is the order `slot_seq` puts the slots in.
  `Store` is `write_bus_maneuver_partial()` up to the publication.
* `RouteGuidanceHook` - the handlers of 0x5201, 0x5202 and 0x5204 and the tick of
  the bus timer. `ReceiveUpdate` has one disjunct per branch of the debounce:
  `HardClear`, `StillEnded`, `ZeroHeld`, `RouteActive`, `ActiveEvidence`,
  `ResetOnly`. `lastState` is `last_route_state`, `emitted` is
  `emitted_route_state`, `pending` the three `state_zero_*` fields (no zero held,
  one with a deadline, one from a reroute), `expired` says that the deadline has
  passed. `sticky` is the frame the bus keeps. A handler is one step, since what it
  does after `g_rgd_debounce_lock` is not read by the tick; the tick is two, its
  claim under the lock and its frame after it.
* `LaneGuidance` - the second cache, of lanes: `lane` (slots and their order of
  use), `linked`, `named`, and what each action of `RouteGuidanceHook` does to
  them; `laneView` is the HMI's state and `Shown` BAPBridge's choice of a slot.
* `RouteGuidanceView` - `RouteGuidance.java`: `Parsed` merges a frame into the
  state, `Gated` starts and stops guidance, `WithPrimary` is how
  `BAPBridge.update()` notices a new primary maneuver.
* `RouteGuidanceSystem` - both, with what `StickyChannel` promises in between: the
  HMI hears some frames in order, and the newest again after a reconnect or restart.
* `RouteGuidance_proofs` - theorems. `MCRouteGuidance`, `MCRouteView`,
  `MCLanes` - the messages and values of the runs; `MCGuidance` adds the HMI's
  session and AMap's router to the run of the hook.

### What the runs show

| run | instance | properties |
|---|---|---|
| `rgd_hook` (hook's part) | three maneuvers, two slots, a list of one, states 0, 1 and REROUTING, fair clock and tick | `SlotsSound`, `ZeroIsDecided`, `StoringKeepsListed`, `RerouteHasNoTimeout`, `HeldZeroResolves` |
| `rgd_view` | the same slots, fewer kinds of update, an HMI that misses frames and restarts | `ShowsHooksSlots` |
| `lanes` | four events, three slots, one maneuver listed and linked to an event, two names | `ShowsNamedLanes` |

Bounds: `CacheSize` stands for 32 and `MaxList` for 16, and the module assumes only
that the list is the shorter. Two slots and three maneuvers are the least with an
eviction in which a listed slot must be spared. `MaxAssign` bounds the slots given
out between two resets; three fill both and evict one. `Updates` and `Maneuvers` are
the messages iOS sends; the runs take every kind the branches tell apart. In `lanes`
four events do not fit three slots, one of them lies before the list and one is
named; all three slots can be in use, the case `ShowsNamedLanes` excepts (`CrowdsOut`); REROUTING is not sent, and a frame is heard before the next is sent, since
the loss of frames is the matter of `rgd_view`.

Fairness (`rgd_hook`): the deadline of a held zero passes and the bus timer ticks.
Nothing obliges iOS to send a message, so that a zero after a reroute may stay held:
`HeldZeroResolves` speaks of the others.

### What is proved

For every cache size, list size and set of messages (`RouteGuidance_proofs`):

* `SlotsAreSound`: the types of the slots and `SlotsSound`. That an oldest slot
  exists is the hard part: `Ranked` says the order of use comes from numbers
  (`slot_seq`), whose least one exists. It ranges over all numbers and is the one
  conjunct TLC does not evaluate.
* `ListedAreKept`: `StoringKeepsListed`. `NotAllListed` is the pigeonhole principle
  over distinct slots and a list shorter than the cache, so the fallback of
  `rgd_slot_for_iap_index()` to a listed slot is never reached.
* `ZerosAreDecided` and `ReroutesHaveNoTimeout`. Neither is inductive alone:
  `DebounceInv` adds that a zero in the update cache has been decided, and that
  nothing held while REROUTING was last sent has a deadline.
* `HmiShowsHooksSlots`: `ShowsHooksSlots`, over lost frames, replays and restarts of the
  HMI. `FrameOfSlots` says of every frame sent and not replaced that its slots are those
  of the list when it was made, `ViewOfFrame` that what the HMI holds is what the last
  frame it heard says; `OrderIsOfSlots` and `NthIsOne` say that every number
  `build_maneuver_order_csv()` puts down is a slot of a listed maneuver.

* `NamedLanesAreShown`: `ShowsNamedLanes`. `CacheOK` is the order of use again, kept by
  look-ups (`LookedUpKeeps`: ranked by the last of each slot), pruning and assignment
  (`AssignKeeps`: an event in use keeps its slot unless all are in use); `OwedAreKept` says
  that lanes once had are in the cache and in the newest snapshot.

The assumptions are those of the modules: indexes are numbers other than 0xFFFF,
the cache has a slot and is longer than the list, the states include 0 and
REROUTING, messages have the fields of `Update` and `Maneuver`. When guidance starts and stops is
only model-checked.

### Left out

Names, distances and the other optional keys of a maneuver, a maneuver's own lanes
(the parser never sets them), the version's reduction modulo 65535, which takes that
many assignments to matter, and a text builder that cannot be allocated.

## Cover art

### Modules

* `IapDescriptors` - the hooks of `open()`, `read()`/`recv()` and `close()`: the
  marks `fd_skip` (`skip`) and `fd_iap2` (`iap2`), and the table of streams. A read
  finds its stream under `stream_mutex` (`FindStream`) and works on it later under
  the stream's own lock (`Work`); `close()` clears the marks, searches, and wipes in
  steps of their own. A stream holds the openings its bytes come from.
* `ImageStream` - `handle_stream_data()`: packets of two sessions, whole or cut by
  the end of a read, images that begin, go on, end or are broken off. A packet is known
  by its place in the stream: `raw_buf` is what was `got` behind the packets `taken`,
  `jpeg_buf` and what is handed over are sets of places. A packet has two halves, so that
  a read can end inside one.
* `MCIap` - both for TLC; they share no state, each is taken by itself.
* `CoverArtHook` - from a complete image to the announcement: the place for one
  waiting image, the worker one file operation at a time (each may fail), the two
  files, the symbolic link, the CRC; `Respawn` ends the process anywhere and keeps
  the files.
* `CoverArtView` - `CoverArt.java` and the listener of track and position events on
  their two threads, and the cluster, which opens the path it is sent: `ResolveLink` looks
  the link up, `OpenPicture` opens what it named, and the worker may come in between.
* `CoverArtSystem` - all of it with the bus's sticky frame. `MCCoverArt` - values.

### What the runs show

| run | instance | properties |
|---|---|---|
| `art_streams` | two threads, two descriptors, two streams, a probe limit of two, three opens; two sessions, three images, five packets | `MarksAreRight`, `StreamsKeptApart`, `WholeOrBroken`, `ImagesArrive` |
| `art_system` | two pictures, two arrivals, two lives, two tracks, fair threads | `OnlyRespawnSpoils`, `CachedIsOnDisk`, `RestIsLatest`, `BrokenReadRepeats`, `LatestReachesCluster` |

The properties name their exceptions, which are those of the code: a stream found
before its number was closed by another thread, an image the phone broke off, a new
life that finds the link on slot 1, a track event that overlaps a cover. Two
descriptors and two threads give each race of a read with a close and a reopen; two
pictures are the least for one to replace another, and for an old one to come back.

`BrokenReadRepeats` is about the two halves of the cluster's `open()`. The worker may
rename the link (`coverart_hook.c:540`) and unlink the target just looked up (547), or
begin the image after next in that file: then the cluster finds nothing, or half a
picture, also in a first life. What holds there, while no connection was lost, is that such
a read is never the last: a newer number, with which the cluster is told to read again, is
yet to be announced, on its way, or being passed on.

Fairness (`art_system`): worker, reader and HMI threads go on, the bus delivers what
it keeps, the service comes up and play positions repeat. No image is obliged to come
and no file operation to succeed: `LatestReachesCluster` speaks of those that did.

### What is proved

`CoverInv` (`CoverArt_proofs`), one lemma per action: types; the files against
the worker's place, the link and the slot counter; the CRC against the sticky frame
and the picture behind the link; what waits against the newest image. It implies
`OnlyRespawnSpoils`, `CachedIsOnDisk` and `RestIsLatest` for any set of images and
any number of lives (`SpoiledOnlyByRespawn`, `CachedCrcIsOnDisk`, `RestingIsLatest`,
and `CoverTypes`). `PictureInv` takes the HMI's two threads in: while anything is
announced - a CRC on its way, known to the HMI, about to be sent or sent - the link
exists, and it never goes again. `BrokenReadIsRepeated` (`BrokenReadRepeats`) adds to it
the slot that the cluster has looked up and not yet opened: while its file is not whole the
link has moved on, and the number that moved it is still to be heard.

`DescriptorInv` (`Iap_proofs`), for any number of threads, descriptors, streams
and openings. Always: one thread at a time opens or closes a number; an endpoint that is
neither being opened nor closed is on the list; no two streams have one number, and a
stream without a number has no buffer. For a number never closed under a read: while it is
closed or closing nobody reads it, it has no mark, and `close()` has found the only stream
it has; what is read and held is of the present opening, and the calls a stream has counted
were made in it. `MarksStayRight` and `StreamsStayApart` follow.

`ImageInv` (the same module), for any number of sessions, images and packets and any limit.
Of the stream: images begin in order, each in one session, and an image not broken off has
no other packet of its session inside. Of the hook: what has a byte behind it was parsed;
the collection is its session's packets from one SOI on without an EOI; an image that
began after those before it had been read is to be parsed, collected, handed over, too
large or broken off. `ImagesAreWhole` and `NoImageIsMissed` follow.

### Left out

Allocation failures and the reset of a receive buffer that would outgrow `STREAM_BUF_MAX`
(`coverart_hook.c:861-865`, 868), which drop what a stream holds, `coverart_fini()` (the
process is gone when it runs), EXIF, resizing and PNG encoding, which only compute bytes, `CoverArt.stop()`, which nothing
calls, and the station art pushed by `AppConnectorTerminalMode`.

## The renderer

### Modules

* `ManeuverRender` - the process: `c_render/main.c`'s loop, the engine (`eng`: the
  maneuver shown and the next, the phase, the bar, what is queued and deferred) and
  the client of `server.c`. A turn is some `ReadCmd` steps and one `EndTurn`: most
  commands are applied as they are read, of the maneuvers only the last is kept (`got`).
  An animation lasts as many turns as it likes.
* `RendererFeed` - `BAPBridge.update()`, launch, preload, exposure, hide, abort and
  both respawns, over `RendererServer`. The thread at work from launch to READY and from
  preload to START holds the bridge's lock, so `host` has one value for all threads.
* `RendererSystem` - both over their socket. `Renderer_proofs` - theorems.

### What the run shows

`render`: three maneuvers, two bars, two commands on their way, two failures, four
changes of what is to be shown. `NothingStale`: when the cluster's context shows the
window, the process has drawn a frame of the preload this exposure waited for
(`NothingShownEarly`), and nothing queued, noted or deferred before a preload comes
back after it (`SnapshotComplete`). `ShownInTheEnd`: what is wanted is shown, or
nothing is while nothing is wanted. Over the death of the process at any step, lost
waits, failed sends and the cooldown.

Three maneuvers are shown, queued and queued over it; a pipe of two has a maneuver and
the command behind it in one turn or in two.

Fairness: the loop turns and reads all there is, animations end (`maneuver.c:2094`),
waits in vain time out, and the HMI's updates repeat, so that a send fails again after
the cooldown. Failures are bounded by `MaxTrouble`.

### What is proved

`NothingStaleIsShown` (`Renderer_proofs`): `NothingStale`, for any maneuvers and bars and
any number of commands on their way, deaths and changes. It rests on `FeedInv`:

* `OneProcess`: Java's connection is live exactly while the process it was accepted from
  is there; what does not draw yet has drawn nothing.
* `Settled`: between exposures the engine owes no FRAME_READY, so that the one Java waits
  for can only be that of its own preload; an engine that has drawn nothing is begun by a
  preload only.
* `ByHost`: what is on its way at each place of Java's. While it waits the preload was lost
  with its process, is the last command on its way (`OnTheWay`), is the one this turn
  applies (`TakenIn`), or is drawn, dark, and announced once (`Announced`); from START on
  the preload's bar is either noted behind START or on (`StartComes`, `BarIsOn`).
* `DarkInContext`: a process launched anew while the context still shows its window (72 is
  not asked for after a death) has drawn nothing.

READY of a dead process may open the wait for a frame nobody will draw (`CloseDead`); the
invariant covers it: the flags are taken down with the connection.

Left out: the soft-hide policy (`WINDOW_POLICY` selects the other), the perspective
(always 3D), reconnects of a living renderer, and the watchdog of the window, which is
the next part. The end of a route and of a session is in `CarPlaySession`.

## The TLV parser

`RgdTlv` walks a message as `rgd_tlv.c` does, one TLV a step, and inside LaneInformations
a second time. A TLV is its field's name, its bytes and whether its length is good; what
it is parsed into is a function whose domain is the fields present. `MCRgdTlv` has the
messages and `Meaning`, which looks at all TLVs at once: of a number the last that is long
enough, of the lists that add up all, of each lane its own attributes.

Run `phone` (the parser's part): every message of up to three TLVs (lanes of up to four) from good, short,
long, repeated and broken ones, arrays of three lanes, angles and maneuvers and two
components. `ArraysHold`: no list outgrows its array; `ParsedIsMeaning`: the walk ends with
what the message means. Four TLVs inside LaneInformations overfill an array of three, and
three messages' TLVs are a list, a second that adds to it and what ends them.

`ParserFits` (`Hook_proofs`) proves `ArraysHold` for any messages and sizes. `ParserInv`
adds the types of the results and that the walk inside a list is at a TLV of it; one lemma
per action.

A text keeps its bytes: newlines replaced in it and what follows a NUL are not told apart.

## The hook's session with the phone

### Modules

`Iap2Frame` is `iap2_protocol.c` and the component of `rgd_tlv.c` byte for byte: frames,
TLVs, checksums, link headers. `IapSession` is the session: `dio_manager` encodes an
identification, which the hook patches; the phone accepts or rejects it; each message a
thread sends leaves its link header for injection (`link`), and a LocationInfo makes the
hook inject StartRouteGuidanceUpdates when it is ready (`Notify`, `Ask`, `Copy`, `Inject`,
`Release`, `Note`). `ctx`, `in_send`, `modules` and `rgd` are the code's flags. At the exit
two destructors run in either order while the others go on.

`Senders` are threads inside `NmeTransport::Send`, one more decodes what the phone says, one
runs the destructors. Of all this the framework's lock protects only `StoreContext` and the
shutdown, so every other access is a step of its own: the two tests before a START, the copy
of the link header and what is sent of it, and each store of `rgd_clear_state()`,
`rgd_request_updates()` and `rgd_stop_updates()` (`StoreRgd`, `UpdateSession`). A thread that
copies while another frees has read freed memory; its packet is marked `torn`.

`MCIapSession` has the values of `session` and `injection`; `MCRgdTlv` puts the session
beside the parser for `phone`.

### What the runs show

| run | instance | properties |
|---|---|---|
| `session` | two threads that send, two link headers of which one is misread, three payloads, two identifications, one failure, exit | `PacketsAccounted`, `OrderlySubscription` |
| `phone` (the session's part) | two threads that send, one header, two payloads, two identifications, one failure, no exit | `Subscribes` |
| `injection` | two threads that send, one header, no failure | `PacketsValid`, violated |

* `PacketsAccounted`: whatever is injected, and was not copied from a freed header, is a
  packet the transport could have made, or the bare frame for want of memory, or the patch of
  a header that was cut from a packet whose own link header looks like a frame. These three
  and the freed header are all the ways in which the hook sends a malformed packet.
* `PacketsValid` is what `hook_framework.c:369` says of injection. `injection` shows that
  another thread's send breaks it.
* `OrderlySubscription`: START only for a component of an identification the phone accepted
  last (`StartAnnounced`); STOP never more often than START, so that the destructors do not
  both send one for the same (`StopsAnswerStarts`, counted in `wire.owed`, since two STOPs are
  one and the same packet); and no START is begun once the destructor that sent a STOP has
  cleared `component_valid` (`StopIsFinal`). Until then one may be: see "Behaviour seen while
  modelling".
* `Subscribes`: once ready, START goes out in the end, over failures and over messages that pass
  unseen while another thread injects. It needs a transport whose headers are not all misread.

A second identification shows what the first leaves. In `session` a behaviour either
identifies itself twice and never exits, or once, without a component of the stack's own and
without storing a misread header, and may exit: an exit after two identifications is left to
the proofs. Two threads are interchangeable there (symmetry);
`phone` has none, since symmetry is not sound for liveness.

Fairness (`phone`): a send that was begun goes on; each thread's LocationInfos keep coming;
failures are bounded by `MaxFail`.

### What is proved

`Hook_proofs` proves `PacketsAccounted` and `OrderlySubscription` for any finite number of
threads, any transport, payloads, identifications and failures. `SessionInv` is inductive:

* `Shape`: the records have their fields. `StackInv`: nothing is asked for before the phone
  has accepted an identification, after which the stack makes no other and the decoder clears
  nothing.
* `ComponentInv`: while `ctx.patched` and `component_valid` and the decoder is not about to
  clear it, the identification on its way and then the phone hold `component_id`, and a START
  being injected carries it. It gives `StartAnnounced`.
* `StopInv`: `component_valid` is gone when a destructor that has sent a STOP is through its
  stores. It gives `StopIsFinal`. `hook_is_ready()` alone would not do: it stays true through
  both destructors.
* `CountInv`: `owed` is at least the STARTs sent and not yet noted, plus one while `active`
  stands and no STOP was sent for it. It gives `StopsAnswerStarts` and rests on cardinalities of
  the set of threads.
* `PacketsInv`: what waits to be stored is the header of a packet of the stack's, stamped with
  that packet's length and checksum, or what a misread one was cut to; the kept prefix is one of
  these or none; a thread that copies has it or is torn. The step that matters is about bytes: a
  header stamped for one packet and patched by `iap2_patch_link_header()` for another frame is
  the header the transport would have stamped (`KeptIs`, `WrapIs`). It takes that a stamped
  length is never zero, which the code asks for before it patches.

The theorems are `SubscriptionIsOrderly` and `PacketsAreAccounted`. What is assumed, and
evaluated by TLC in `session` and `phone`: the threads are finitely many (`SessionAssumption`);
identifiers are two bytes and not zero (`IdsAssumption`); what `rgd_identify_patcher()` writes
is what a reader finds (`PatchAssumption`: a walk over bytes of any length, which only
induction could prove); a header is absent or has 8 to 63 bytes before its checksum and a
packet is shorter than 64 KB (`LinkAssumption`). Nothing is assumed of what a header holds.

Left out: dispatch among several modules, `write()` and `MsgSend()`, which pass through.

## The cluster window

`ClusterWindow` is `platform_qnx.c` with the parts of `main.c`'s loop that look after
the window. One thread draws and probes; others run one `dmdt` each and end
(`inflight`, and `focus` for the one that reads the display manager's listing first).
`win` is the native window: fresh, managed, disowned by the display manager, dead or
none; `surface` an EGL surface on it; `ctx` the context the cluster shows and `layout`
what context 74 is composed of. `strings` chooses a firmware that fills in
MANAGER_STRING or not. The display manager may take the displayable away, destroy the
window or take it over; another process may switch the context; recreation, thread
creation and the listing may fail; the process may die or shut down at any point.

Run `display` (the window's part: two failures, one drift, two times shown, two threads):
`LeavesNothing` - a process that has shut down leaves the neutral context as it was
composed, no window and no `dmdt` of its own still to run; `HealthyIsKept` - a managed
window with its surface is never torn down by the health check; `ScreenRegained` - a
lost window and a lost context are regained while the HMI shows the renderer.
Two failures let a recreation fail twice in a row or a force and a listing fail
together; two threads are the composition and one more.

Fairness: the loop turns (with its drawing, health check and focus check), started
threads end, time passes (the 100 ms after a recreation, the 30 s after a force), the
display manager takes a fresh window, a drawn preload is started by the HMI.

`Display_proofs` proves, for any numbers of failures, drifts, times shown and
threads, `LeavesClusterAlone` (`LeavesNothing`) and `HealthyWindowIsKept`
(`HealthyIsKept`) from `WindowInv`: a process that runs or closes has routed the display
and so restores it, and a thread that reads the listing is always marked in
`g_focus_check_inflight`; and from `HandshakeInv`: a manager string was seen only on a
firmware that fills it in. `ContextIsRecomposed`, which no run checks: while the renderer
runs with a surface, context 74 lacks the native layers only as long as a `dmdt` that
composes it again is on its way.

Left out: the shader and image helpers, the time functions, options of the user.

## Drawing

### Modules

* `JunctionRoads` - which roads `maneuver.c` paints for a maneuver and over which of
  them the route goes, built twice: by the `draw_` functions at rest and by
  `maneuver_build_route()` in a transition. A road is named by what it is, a leg of the
  route by its road, its heading and its turn.
* `RoutePath` - `route_path.c`'s fixed arrays: segments, points, mesh and vertices.
* `RouteTransition` - the lengths of a transition in thousandths: the join of two
  routes, the slide, the push, the heights, where the camera and the head end.
* `ManeuverScene` - when a frame is drawn and the texture of the roads repainted, and
  what each is of, behind the engine of `ManeuverRender`. `MCDrawing` - values, and the
  window beside the drawing.
* `Display_proofs` - theorems about `RouteTransition`, `ManeuverScene` and the window.

### What the run shows

`display` (the drawing's part): the scene over two maneuvers in any order of commands, resizes and ends of
animations: what is on the screen is the engine's, and no part of it is of an earlier
state (`ScreenIsTrue`). Over a set of junctions of every kind, `RoadsCarryRoute`: the
route lies on roads that are painted, the same at rest and in a transition, on the side
of the traffic. Over pairs of them, `ArraysFit`: two routes joined fit every array. Over
transitions of eight lengths each, both starts and all lifts, `NothingJumps`: the push
ends with its route, no roads are left behind, and the head lands where it will rest.

### What is proved

For all lengths from 400 to 2300, the least and the longest route (`Display_proofs`), and
either start of the slide: `PushesLast` - retargeting the slide in the first frame of a
push leaves it a push; `RoadsAreHandedOver` - the crossfade shows only the first
maneuver's roads at the start and only the second's at the end; `LandsWhereItRests` - the head ends where it rests on the second route drawn alone, and
at the same height. `Fields` and `Window` give the transition's fields as arithmetic.

`ScreenStaysTrue`: `ScreenIsTrue`, for any maneuvers and bars. Its invariant, `SceneInv`, is
made of what each stage of a turn (commands applied, engine advanced, fades, frame) keeps,
`StageInv`: a texture nothing has struck holds the roads of the maneuver at rest
(`TextureIs`), the fade goes with the engine's light (`FadeIs`), and while nothing asks for
a frame the last one shows the engine as it is (`Still`). The last makes it inductive: a turn
without a frame is right because of the turns before it.

Left out: coordinates and colours, matrices, shaders and the calls of OpenGL, the
perspective, the flag's frames, the morph of the tip, the blinking bar, screenshots, the
debug grid, and the window systems of the two desktop builds.

## The HMI's session and AMap

### Modules

* `CarPlaySession` - `CarPlayHook.java`, the route guidances it makes and what
  `BAPBridge` begins and ends for them. `device` is the place of the device manager's
  thread, `retry` that of each retry thread; both run `TryInit`, in which the test of
  `registered` and the registration are two steps. `guiding` are the bridges whose native
  gate is closed; `renderer` is the bridge whose process runs, `prepared` the bridges that
  think theirs does, `reader` the reader of a dead connection in `handleRendererDied()`,
  which tests and clears the flags without the lock and launches under it. `stayed` notes
  that a retry thread outlived its session, `revived` that a renderer was launched for no
  guidance. Objects nobody refers to are collected and used again.
* `AmapGuidance` - the router before `RouteGuidance.onFrame()`, one action per case of
  `AmapRouteGuidance.onFrame()`: `ReleaseSource`, `ClearHard`, `Legacy`, `BeginProbe`,
  `VisibleAgain`, `ConfirmV38`, `KeepProbing`, `V38`; `raw` is what the phone said, `state`
  what the route guidance was told, `Gate` its decision. Frames and timers run under one
  monitor. A timer is its running flag and its threads, "current" of this generation and
  "old" of former ones; a thread may wake at any time, and `fresh` is evidence since the
  soft timer last looked at its deadline.
* `Guidance_proofs` - theorems about both.

### What the run shows

`rgd_hook` takes each part by itself. Session: two retry threads, three route guidances,
three listeners, two sessions, one death of the renderer. `OnlyLateThreadsLeave` - only a
retry thread that outlives its session leaves a listener, a subscription, a closed gate or
a second route guidance behind, and only `handleRendererDied()` a renderer.
`ReadyInTheEnd` - a session with its services gets its listener. AMap (no bound: all frames
of three states, two counts, three visibilities, three sources): `LegacyIsMain` - out of a
probe or a hold the route guidance believes what the phone said; `Graces` - a hold is ended
only by a clear, another source or its timer, and a phone that stays at 1/0/0 without
evidence loses guidance in the end.

Two sessions are what a thread needs to outlive one; three route guidances let an old, a
new and an overwritten one exist; a second death adds nothing, as the cooldown may end the
answer at the first. `LegacyIsMain` speaks of frames since `visible_in_app` was named, since
the router's fields survive a disconnect.

Fairness: the device manager's thread and the retry threads go on; the timers run out.

### What is proved

`SessionsLeaveNothing` (`Guidance_proofs`): `OnlyLateThreadsLeave`, for any number of retry
threads, route guidances, listeners, sessions and deaths. `SessionInv` adds: one thread at a
time is on its way through `tryInit()`, and only while the session lasts (`OneInitialises`);
until it is through nothing is registered or listens (`NotYet`); what runs is what the
session refers to (`InUse`); each half of `onDeactivate()` has ended its share (`Ended`).
All four hold until a retry thread outlives its session; `NoRenderer` holds even then.

`LegacyIsBelieved`: `LegacyIsMain`, over any frames and timers. `RouterInv` adds that only
the compatibility mode holds a guidance, and that a probe is of a route without maneuvers
that is not visible, so that what its timer says for the phone is what the phone said.

Left out: an activation without a deactivation between, a listener that cannot be added,
the touchpad controller, the flush of the bus; which snapshot AMap's display commits or
keeps, which is left open, and with it the stabilizer, the progress tracker, the formal
lock and the rollover machine.

## Behaviour seen while modelling

What the code does that a reader might not expect. No run checks these as properties, but for
the torn link header (`injection`).

* Bus: the writer may send its frame on a new connection before HELLO, when `connect()`
  returns the number it still holds (`bus.c:416`; 536-540 says otherwise). A snapshot send
  that times out is ignored and more is sent behind the truncated frame (386; cf. 446-449).
  After a replay older queued frames follow (331; cf. `bus_protocol.h:33`).
* Route guidance hook: the tick sends its zero after the lock, possibly behind the frame
  that takes the route up again (`rgd_hook.c:1589`). Versions start over behind a held zero,
  so that BAPBridge may keep the approach zone of the last maneuver (210; `BAPBridge.java:792`).
* Lanes: an event below the least listed maneuver is pruned on arrival unless named; a
  frame without `m<slot>_linked_lane_guidance_slot` leaves the HMI the older number; frames
  behind a held zero have no lane keys. Sixteen events listed, sixteen linked to and the one
  named are 33 in use for 32 slots: lanes of another event then take the slot used least
  recently (`rgd_hook.c:394`), which is the named one's when 0x5204s without lanes have
  looked the others up.
* Parser: an angle of 1000 counts as unset, so that the second becomes the direction
  (`rgd_tlv.c:192`); the implicit lane of each LaneInformations has position 0.
* Session: after IDENTIFY_END `component_valid` is cleared while `hook_is_ready()` stays
  true and the next identification leaves unpatched, so START is never sent again in that
  process (cf. `rgd_hook.c:1218`). `hook_inject_frame()` copies the link header without the
  lock under which another thread's send, and the exit, free it
  (`hook_framework.c:385-402`; the finding of `PROJECT.json`). The frame is searched for from
  the first byte of a packet (`iap2_protocol.c:11-31`): a link header that itself holds
  40 40 (control byte, sequence number) and a fitting length behind it is kept without what
  follows, and messages injected with it are malformed until another packet leaves its own;
  a LocationInfo under it is not seen. Two threads may both pass the test of `sent_5200` and
  send START twice. Each destructor may send its STOP, the second one for a START that comes
  between them: `rgd_clear_state()` takes `sent_5200` down three stores before
  `component_valid` (`rgd_hook.c:1182-1185`), so that a LocationInfo in between begins START
  behind the STOP, and the phone can stay subscribed by a process that has exited. A module
  is not registered again after a shutdown.
* Cover art: after a respawn with the link on slot 1 the next image is written over the
  linked file (`coverart_hook.c:500`); a number whose mark came behind `close()` is skipped
  when it is used again (1151; cf. 128). A cluster that opens the path while the link is
  swapped may find no file, or, two images on, half of one (540, 547, 511; 485-486 says that
  readers never see a partial write); a newer number makes it read again.
* Renderer: a bar that waits for a transition overwrites a BARGRAPH that came later
  (`main.c:270`, 555; cf. `BAPBridge.java:2323`).
* Window: FRAME_READY goes out although `eglSwapBuffers` failed; a window recreated while
  idle stays blank until the next command; a focus check begun before HIDE may force
  context 74 after the HMI switched to 72 (`platform_qnx.c:637`); init failing at the EGL
  surface leaves context 74 stripped.
* Drawing: the last frames of a slide-in and of a tip morph rest one step short of the
  target (`maneuver.c:2118`); the flag's offset is set only by a full rebuild (1876-1886);
  elevation takes the raw exit angle, the route the snapped one (753-775); a turn of less
  than 5 degrees without a forward road has no road under it; "Tail fade"
  (`route_path.c:33`) has no code.
* HMI: `onStop()` is always followed by `onShutdown()`, which takes the delayed stop back, so
  it never fires (`BAPBridge.java:648-651`, 1774-1801). `handleRendererDied()` may launch a
  renderer after the end of guidance; the next route slays it. A retry in `tryInit()` while
  `onDeactivate()` runs leaves a listener and a route guidance behind. After `stop()` and
  `start()` of one route guidance an unchanged snapshot does not begin guidance.
* AMap: when a probe has expired, the next 1/0/0 snapshot begins another, since
  `activeRouteSeen` stays set, and guidance runs again for up to 5 s each time
  (`AmapProtocolDetector.java:145`; `docs/ios27-amap-v38-merge.md:55-68` describes one probe
  of at most 5 s). Full snapshots always have evidence, so the soft hold does not expire while
  frames come. The router's raw fields survive a disconnect.

## What is proved, and what is not

Eight modules hold theorems; `PROJECT.json` lists those a reader should know.

| module | theorems |
|---|---|
| `BusSystem_proofs` | `SocketsCorrect`, `LiveStaysInOrder`, `BusImplementsChannel`, `FramesStayWhole`, `IdleListenersAreFresh` |
| `RouteGuidance_proofs` | `SlotsAreSound`, `ListedAreKept`, `ZerosAreDecided`, `ReroutesHaveNoTimeout`, `HmiShowsHooksSlots`, `NamedLanesAreShown` |
| `CoverArt_proofs` | `CoverTypes`, `SpoiledOnlyByRespawn`, `CachedCrcIsOnDisk`, `RestingIsLatest`, `BrokenReadIsRepeated` |
| `Iap_proofs` | `MarksStayRight`, `StreamsStayApart`, `ImagesAreWhole`, `NoImageIsMissed` |
| `Display_proofs` | `LeavesClusterAlone`, `HealthyWindowIsKept`, `ContextIsRecomposed`, `ScreenStaysTrue`, `PushesLast`, `RoadsAreHandedOver`, `LandsWhereItRests` |
| `Hook_proofs` | `ParserFits`, `PacketsAreAccounted`, `SubscriptionIsOrderly` |
| `Renderer_proofs` | `NothingStaleIsShown` |
| `Guidance_proofs` | `SessionsLeaveNothing`, `LegacyIsBelieved` |

Each is established by an inductive invariant or by arithmetic described in its part above.

Out of the prover's reach and left to TLC: liveness under fairness (`Recovers`,
`HeldZeroResolves`, `ReadyInTheEnd`, `Graces`, `LatestReachesCluster`, `ShownInTheEnd`,
`ScreenRegained`, `Subscribes`), `ENABLED`, and induction over data: what a walk over a whole
message or a route computes (`ParsedIsMeaning`, `RoadsCarryRoute`, `ArraysFit`).
`NothingJumps` is proved in its three parts that hold for every length (`PushesLast`,
`RoadsAreHandedOver`, `LandsWhereItRests`) and checked as a whole. What the walk for a
component finds in a patched identification is assumed of the payloads, not proved
(`PatchAssumption`).

## Not modelled

* Maneuver mapping (`ManeuverMapper`, `RendererMapper`, `SideStreets`): tables without
  state; a model would repeat them with nothing to compare them with.
* OpenGL, shaders and fonts (`render.c`), `stb_image.h`, image scaling and encoding:
  floating point, vendored or pure computation.
* AMap's stabilizer, progress tracker, formal lock and rollover machine: they choose what is
  displayed while guidance is held, which `AmapGuidance` leaves open.
* Touchpad input: one thread's gesture state, read by no other part.
* Logging, the stock HMI classes that are only recompiled, build scripts, the platform
  files of the desktop builds.
* Failing allocations outside the session, and hazards of two processes that have no order
  to state (a focus check against the HMI's switch of context).
