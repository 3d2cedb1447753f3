# A TLA+ development of the A2DP sink on BTstack

The program is a Bluetooth speaker: a phone (the *peer*) streams SBC audio to it over A2DP, controls
its volume over AVRCP, and serves cover art over BIP. The repository holds the application: the
handlers it registers with BTstack, the player behind them, the console, and the port to POSIX/USB.
BTstack, the audio driver, the wav writer and the peers are not part of it; they are modelled from
how the code uses them and marked external in `PROJECT.json`.

1. [The system](#the-system): parts, state, operations, interactions, what is hard
2. [The modules](#the-modules): which models what, how state and actions correspond to the code
3. [The runs](#the-runs): what TLC checks, the bounds, the fairness
4. [The proofs](#the-proofs): what TLAPS proves, from what, along which argument
5. [Disagreements](#disagreements) between the code and what the repository says of it
6. [Not modelled](#not-modelled)
7. [Plan](#plan)

To check: `tlc -config A2dpSink.cfg MCA2dpSink` (likewise the other runs of `PROJECT.json`), and
`tlapm X.tla` for the seven modules with proofs.

## The system

Everything runs on one run loop: BTstack events, media packets, console input and the audio driver's
timer are served one at a time ("called from lower-layer but guaranteed to be on main thread",
`a2dp_sink.c:350`). A handler is therefore atomic, with one exception in the models: the playback
callback decodes in a loop, and the decoder calls `handle_pcm_data` back inside it.

| Component | State | Operations | Correct when |
|---|---|---|---|
| A2DP sink, `a2dp/a2dp_sink.c` | `a2dp_cid`, `stream_state`, `sbc_configuration`; the player: `media_initialized`, `audio_stream_started`, `l2cap_stream_started`, `sbc_frame_size`, the SBC ring, the PCM ring, the compensation; `request_buffer`, `request_frames` | six A2DP events, the media packet handler, the playback callback | drivers and file are used in order; the player follows stream and configuration; packets are queued whole, samples stay in order and none is dropped; a stream is heard and can be ended |
| AVRCP controller, `avrcp/avrcp.c` | `avrcp_cid`, `playing`, `notifications_supported_by_target`, `device_addr` | connection events, capability query, notifications, cover art events, console | the cid and the capabilities are those of the connection that is up; cover art follows |
| AVRCP target, `avrcp/avrcp.c` | volume in percent, battery status | VOLUME_CHANGED, console `t` `T` `V` | the two volume scales stay within a step of each other, the peer learns of every change |
| Cover art client, `avrcp/cover_art.c` | cid, connected flag, download flag, size, `FILE*`, image handle | BIP data, connection and completion events, console `d` `D` `@` | flag and cid are those of the client; the image is all in the file |
| Shared state, `btstack_global.c` | the variables of the above | accessors | |
| Setup, `btstack_main.c` | none after start | registration with BTstack, console dispatch, usage text | |
| Port, `main.c` | TLV store, `tlv_reset`, `shutdown_triggered`, static address | start, USB and HCI events, SIGINT | bonds are kept under the address they were made; shutdown ends the process and leaves a complete recording |
| Legacy pairing, `hci/hci.c` | none | PIN request | devices that ask for a PIN can bond |

**How they interact.** BTstack calls the handlers. The media packet handler fills the SBC ring and
starts the audio driver; the driver calls the playback handler, which empties the ring. A2DP and
AVRCP share `device_addr`, the peer that `b`, `c`, `d` and the automatic cover art connection
address. The AVRCP controller connects the cover art client when a capability query is complete and
disconnects it when the player's UIDs change. The target hands volumes to the audio driver. The port
switches the controller on and off under all of them: BTstack closes the connections of a controller
that is switched off, which is what ends a recording, and then reports OFF, which ends the process.

**What is hard.** There is one player and one cid per protocol, and BTstack serves any number of
peers: events of one are applied to the state of another. Values are cached and used much later
(frame size, reconfigure flag, cids, compensation). Packets arrive after the stream was suspended.
Rings fill and run dry. Drivers fail and nobody looks. Connections are refused, fail, or vanish in
the middle of a transfer. The process ends by a signal at any moment, or by a crash, and finds its
bonds again under the address of whatever controller is plugged in. `PROJECT.json` lists the hazards
line by line, each with the properties that would catch it or the reason why none does.

## The modules

| Module | Models |
|---|---|
| `FramePlayer` | abstract: what the media pipeline promises. A player (closed, ready, running) and a queue of packets' frames |
| `A2dpSink` | `a2dp_sink.c` with console `b` and `B`; shown to implement `FramePlayer` |
| `CoverArt` | `cover_art.c`, console `d` `D` `@`, and the two AVRCP events about cover art: a component of `Avrcp`, which implements its `Spec` |
| `Avrcp` | connections and controller of `avrcp.c`, composed with `CoverArt` (`Art == INSTANCE CoverArt`) |
| `VolumeControl` | the target role of `avrcp.c` and console `t` `T` `V` |
| `Port` | `main.c` and `hci.c`: start, chipsets, addresses, TLV store, shutdown, crash, restart |
| `SinkPort` | `Port` and `A2dpSink` composed: the process from start to exit, and the next one |
| `A2dpSinkProofs`, `A2dpSinkSteady`, `A2dpSinkRefinement`, `PortProofs`, `SinkPortProofs`, `AvrcpProofs`, `VolumeControlProofs` | theorems about the module they extend; `A2dpSinkSteady` about peers that do not change the bitpool |
| `MCA2dpSink`, `MCSinkPort`, `MCAvrcp` | constants for TLC |

**A2dpSink.** The variables above the line *external* are the program's globals. The nine of the
player are one record `media`, and its functions (`media_processing_init`, `_start`, `_pause`,
`_close`, and the three parts of the media packet handler, `Queue`, `Compensate`, `StartIfFilled`)
are functions of that record under their names in the code, so that a handler composes them the way
the code calls them. An event is an action; its guard says when BTstack delivers it.

A codec configuration gives a range of bitpools (`a2dp_sink.c:150-155`), and the length of a frame
follows from the bitpool. So `Packets[c]` is the set of packets that may arrive under a configuration,
with frames of any lengths, also different ones in one packet, and `FrameSize(p)` is what the handler
makes of it (`packet_length / num_frames`, line 293). The SBC ring is the number of bytes in it
(`sbc_bytes`) and the offsets at which its frames end (`sbc_frames`): the code knows the former only,
and reads `sbc_frame_size` bytes at a time whatever they hold. The PCM ring is a count of PCM frames.

The external part is a local stream endpoint that one peer at a time configures, opens, starts,
suspends, reconfigures (when open) and releases; a set of signaling connections, of any peer; and the
bytes under way when a stream is suspended. Drivers that are used wrongly (initialised twice, started
twice, a file written while closed) become `"misused"` instead of forgiving it. The playback callback
is a request (`PlaybackRequest`, empties the PCM ring first), a step per read from the ring
(`ReadFrame`), a step per frame that the decoder completes with it (`handle_pcm_data`: none, one or
several, since the decoder is fed bytes and keeps the rest of a frame that was cut) and the return
(`PlaybackReturn`); nothing else happens in between, as in the code. A read that is longer than
`sbc_frame[MAX_SBC_FRAME_SIZE]` (line 369) leads to `pc = "overrun"`, where the model ends.

**CoverArt.** The client has one connection and one operation at a time. `@` opens the file, sets
flag and size, and then asks BTstack, which may refuse: the action does all of it in that order.
`fopen` may fail, which the code does not notice; a `FILE*` that is written to or closed while NULL
becomes `"misused"`. `handle_valid` says whether the player still serves the image handle the
application keeps, `client.stale` whether the UIDs changed under the client's connection: neither is
known to the program.

**Avrcp.** The application keeps one `avrcp_cid`; `link` is what BTstack keeps per peer: a
connection's state, whether its capability query is open, the events still to be named, and the
notifications registered on it. Controller events are delivered from any peer and handled as if from
the one `avrcp_cid` names, as in the code. `A2dpStreamEstablished` stands for the one effect the A2DP
side has on this one, `A2dpSink!AvrcpConnected` for the one effect in the other direction: both are
about `device_addr`.

**Port.** `statics` are the static variables of `main.c`, with the address of the store that is open
for `tlv_context`; they begin anew with every process. The controllers are any set: some need
Realtek's chipset support, some run Zephyr firmware and report a static address, and they may share
public addresses. `Main` picks one and the option `-r`. `PowerOff` is `hci_power_control`, which
reports OFF before it returns when the controller is not up: the actions that call it include the
handler's reaction. `disk` is what the stores hold; `bonded` is the history they are compared with:
the devices bonded while a controller used an address, since the last `-r` under it.

**SinkPort.** Extends both, for either build. `SystemStart` begins the sink with the process (its
globals are fresh), connections are accepted while the controller works (`SinkConnects`), streams and
the audio driver go on while it halts (`SinkStreams`), and `SystemHalted` is possible when all
connections are closed. Events of the controller come between the handlers of the sink; a SIGINT and a
crash come at any point, inside the playback callback too. What a crash leaves of the sink stays as it
was until the next process starts.

**VolumeControl.** All values are the real ones (0..100, 0..127): nothing is scaled down.
`target_volume` and `target_battery` are what BTstack answers the peer: what the program handed over, or
what the peer has set itself. On a new connection the program hands over the battery status and no
volume (`avrcp.c:44-49`), so `target_volume` begins with BTstack's own initial value (`StackVolume`),
whatever the volume is; `agreed` says that somebody has set it since. `audio_volume` is what was last
given to the audio driver, nothing at the start.

Definitions named `X_something` right before `X`, with the comment *Mutation*, are deliberate bugs.
They are not part of the model; `PROJECT.json` names the property each of them breaks.

## The runs

| Run | Instance | Shows |
|---|---|---|
| `A2dpSink` | 2 peers, 2 configurations, frames of 2 and 3 bytes mixed under one of them, driver that may fail; 1 798 788 states | the safety properties of the sink, and the refinement |
| `A2dpSinkLive` | 1 peer, the program's own sizes (60, 80, 30, 120 bytes, 144), joint stereo frames of bitpool 53 and 35; 76 650 states | the liveness properties, and that reads are frames and no sample is dropped while the bitpool stays |
| `SinkPort` | the default build, with an audio driver that may fail; 2 controllers that share a public address, one with a static address; 1 peer, ring of 3 frames; 201 048 states | bonds, shutdown, recording |
| `Avrcp` | 1 peer, 4 events, thumbnail of 2 packets, file opened twice; 131 208 states | controller and cover art together |
| `AvrcpTwoPeers` | 2 peers, one of which does not support UIDS_CHANGED; 255 744 states | what survives mixed-up events |
| `VolumeControl` | every percentage, volume and status; 3 415 states | conversions and what the peer knows |
| `A2dpSinkTwoPeersWav`, `A2dpSinkDualChannel`, `A2dpSinkBitpool`, `CoverArtComplete`, `CoverArtHandle`, `AvrcpUsage` | | the disagreements below |

*Safety of the sink.* `NoMisuse`: no order of events uses a driver wrongly. `PlaysOnlyWhileStreaming`:
late packets never start playback. `PlayerHasConfiguration`: the flag `reconfigure` is enough to keep
an open player on the negotiated configuration. `RingEndsOnFrame`: what the ring holds ends with a
frame, whatever was dropped or paused, and playback never divides by zero. `ReadFitsBuffer`: a read is
never longer than the buffer it goes through, if no frame that was sent is. `PcmInOrder`: samples keep their order.
`CompensationMatchesPlayer`. `Inv` is the inductive invariant of the proofs. `ImplementsFramePlayer`:
with the mapping `player_bar`, `queue_bar`, every step of the sink is a step of `FramePlayer` or a
stutter: packets are queued and dropped whole, frames are lost only from the front while playing, by a
pause or by a close, and playback starts only on a filled queue. All of these hold with a bitpool that
changes. `ReadsOneFrame` and `SurplusFits` (what a request leaves of a frame fits the PCM ring) need
one that stays: `A2dpSinkLive` checks them for such peers, `A2dpSinkBitpool` shows the other.

*Process.* `BondsSurvive`: the stores are the history of bonding, through failed starts, failed reads
of the static address, `-r`, shutdowns and crashes. `StoreOfController`: while the controller is up,
the store that is open is the one of the address it has on air. `RecordingComplete`: whenever SIGINT
comes, the exit finds the wav header complete, though neither handler of the shutdown knows of the
player. `ShutdownEnds`: SIGINT ends the process. `CidNamesStream` and `MediaFindsPlayer` hold from
start to exit for one peer, also for what happens while the controller is switched off.

*Controller and cover art.* `CidNamesConnection`, `SupportedByTarget`, `UidsWatched` (one peer: what
the application knows of its target, and that it is told when image handles become invalid, whatever
the console enables and disables), `CidNeverDangles`, `CoverArtTracked` (any peers),
`UidsChangeDisconnects`, `FileUsedCorrectly` (after any history without a failed `fopen`),
`ThumbnailInFile` (what has arrived of an image is in the file and counted, even after a download
that a lost connection left active), `CoverArtIsTried`, `DisconnectCompletes`.

*Volume.* `VolumeInSync`: neither scale is a whole step ahead of the other. `PeerInformed`: from the first
change on its connection the peer knows the volume that is heard, and the battery status from the start.
`KeysAreHeard`, `EchoSettles`.

*Bounds.* The sink needs a ring of several packets, a threshold above a packet, packets of one and of two
frames of different lengths, a request larger and one smaller than a frame, and frames that resample to
nothing and to more than a request: a start at 2 frames, a ring of 9 bytes, packets of 3 bytes (one frame)
and of 5 (frames of 2 and 3), requests of 2 and 5, frames of 0 and 3 samples give all of it, reads that
cut a frame included. Two peers are enough for one to disturb the other, two configurations for one to
be stale. `LATE_BYTES` bounds what is under way at a suspend; `LateAssumption` (less than starts playback
by the measure of any packet; 60 frames are 170 ms of sound) is an assumption on the transport, and
without it `PlaysOnlyWhileStreaming` is false. `PacketAssumption` says that packets are well formed: at
least one frame, no more frames than bytes, and the last frame ends with the packet. `PCM_FRAMES` is at
least what one frame resamples to, which `a2dp_sink.c:91` and 409 size for. In `A2dpSink` every frame
fits the callback's buffer; frames that do not are the subject of `ReadFitsBuffer` and its theorem.
`MAX_FILES` bounds how often `@` is pressed: two are needed for a
file to be reopened over a download that was left active; `AvrcpTwoPeers` asks nothing of files and
has none. `SinkPort` has a controller with a chipset that `main.c`
prepares (Realtek) and one that reports a static address (Zephyr), sharing a public address: when the
static address cannot be read, both use the same store, and must. Its one peer is also the device that
bonds and that asks for a PIN, and the store holds any number of bonds (the program's holds 16 link
keys, `NVM_NUM_LINK_KEYS`, and then forgets one). Its ring is the smallest that fills, overflows and
plays; what the sink does with larger ones is the business of the run `A2dpSink`, and of the theorems.

*Fairness.* `A2dpSink!Fairness`: a callback that was entered runs to its end (one thread); a peer
whose stream is started keeps sending; a disconnect BTstack accepted is carried out. The last is
strong fairness, since the playback callback disables it time and again and the run loop serves all
its sources. `Avrcp!Fairness` assumes only that BTstack carries out an accepted disconnect and that a
capability query on a connection that stays up is answered. `SystemFairness`: the decode loop goes on and the callback returns, BTstack closes the
connections of a controller that is switched off, and reports OFF; the closing is strongly fair, again
because audio goes on until the player is closed and each callback disables it. Nothing is assumed of
the peers' other events, of the console, or of the controller coming up.

No run disables the deadlock check: in every reachable state some event can arrive.

## The proofs

All proofs are for every value of the constants that satisfies the `ASSUME`s of the module.

**The sink.** `A2dpSinkProofs` proves `Spec => []Inv` (`Invariance`) from `A2dpSinkAssumption`,
`PacketAssumption` and `LateAssumption`: any peers, configurations, packets, thresholds, ring capacities
and request sizes, with or without driver faults, and with frames of any lengths in the ring. The safety properties follow from `Inv`, each in a theorem of its
own; the two that hold for one peer only carry that hypothesis. None of the properties is inductive.
`Inv` adds what they rest on:

- `EndpointInv` ties the application's configuration to the negotiated one, and the frames on the
  channel to the configuration of the last start.
- `PlayerInv`: a player is open only for an open endpoint, with the configuration of the frames on
  the channel; when no reconfiguration is pending that is the negotiated one. This carries
  `PlayerHasConfiguration` over a suspend, a reconfiguration and a resume.
- `QueueInv`: the frames in the ring lie within its bytes, and the last one ends where they end; the
  cached size is that of some packet; while the stream is suspended, the bytes in the ring and those that
  may still arrive are no more than `LATE_BYTES`. The first gives `RingEndsOnFrame`, the last
  `PlaysOnlyWhileStreaming`, since so many bytes never reach the threshold.
- `PlaybackInv`: inside the callback the driver runs, and while the request lacks frames the PCM ring
  is empty: the request drains it, and a frame's surplus is stored only when the request is filled.
  Both hold however many frames a read completes.
- `WavInv`, `SinglePeerInv`: the file is open exactly when the player is, for builds with a driver,
  or for one peer. With several peers and no driver it is false (see below).
- `ConnectionInv`: an endpoint in use belongs to a peer with a signaling connection, so that without
  connections there is no open player. The composition with `main.c` rests on it.
- `StartInv`: a ring that holds the threshold has started the driver, and a driver that runs has a
  configuration whose threshold fits the ring.

The proof follows the code: lemmas about the four player functions and the parts of the packet handler
say what each preserves, a lemma per action uses them, and `Invariance` combines the actions.

Three more theorems are what safety has to say about the sink's liveness. `FilledQueuesAreStarted`: with
a driver, a filled queue is never left waiting, so that only a driver that fails, or frames too long for
the ring, can keep a stream silent. `ThresholdMustFit`: such frames are never heard, for any sizes, which
is the disagreement *Dual channel* in general. `DecodeLoopShortensRing`: each iteration of the decode
loop takes bytes from the ring or delivers a frame, the variant behind `PlaybackReturns`.

`ReadsFitBuffer` proves `ReadFitsBuffer` under the condition that no packet has frames longer than
`MAX_SBC_FRAME_SIZE`: the sizes that the sink offers and that do not meet it (up to 224 bytes) are
outside of what the code can do.

**One bitpool.** `A2dpSinkSteady` is about peers whose frames have one length per configuration,
`Steady(size)`, a hypothesis of its theorems and not of the module. `SteadyInv` says that the ring then
holds `n` frames of the player's configuration, ending at the multiples of its length, and that the
cached size is this length. A packet appends multiples to multiples (`MultiplesAppend`) and a read takes
the first (`MultiplesTake`), so `OneFrameRead` and `NoSampleDropped` follow, over pauses, dropped packets
and new configurations. `A2dpSinkBitpool` is what happens without the hypothesis.

**The refinement.** `A2dpSinkRefinement` proves `Spec => ImplementsFramePlayer` for any packets. The
abstract queue is the set of offsets at which the frames in the ring end; a packet that fits adds its
frames behind the last (`Invariance` says that the ring's bytes end there), a read removes those that end
in the first `sbc_frame_size` bytes and moves the others to the front, and a packet that does not fit
is a stutter. Each action of the sink is shown to be one action of `FramePlayer` or to leave `player_bar`
and `queue_bar` alone. What is proved of `FramePlayer` then holds of the sink: `PlaybackContinues`
carries over that playback starts only on a filled queue, and that while playing no frame that waits is
lost except from the front.

**The port.** `PortProofs` proves an invariant of `Port` for any controllers, addresses and devices: the
store that is open is that of the address on air, the static address is used exactly when it was read,
and a process that is not running has a controller that is off. `BondsSurvive` follows since every write
to a store is the write of the history. `OtherStoresUntouched` is the action property: a store changes
only while the controller with its address is on air, where it only grows, or by `-r` when it is opened.

**The process.** `SinkPortProofs` composes the two, for any peers, controllers and sizes and for both
builds. A step of the process is a step of `Port` or leaves its variables alone (`PortOfStep`), and it is
a step of the sink, a fresh sink, or leaves the sink alone (`SinkOfStep`); a fresh sink satisfies
`Init`. So `ProcessImplementsPort` is a refinement, under which `ProcessKeepsBonds` inherits the theorems
about `Port`, and `Inv` of the sink holds in every process. What neither part has is `QuietInv`,
connections exist only while the controller works or halts (or are what a crash left), and `HaltingInv`,
a process that was sent SIGINT and still runs is halting. Together:

- `RecordingIsComplete`: the exit finds no connection (`QuietInv`), so no open endpoint
  (`ConnectionInv`), so no player (`PlayerInv`), so a closed wav file (`WavInv`). The last needs an audio
  driver or a single peer: in the other build the first disagreement below is real.
- `SystemUsesDriversCorrectly`, `SystemCidFollowsStream`, `SystemPacketsFindPlayer`: the sink's
  properties, in every process from start to exit.
- `SinkQuietUntilWorking`: until its controller works, a process has no player and no driver running,
  whatever the last one left behind, by a crash in the playback callback for instance.
- `ShutdownClosesConnections`: after SIGINT, connections only go and the flag stays, until the process
  ends. It is the safety half of `ShutdownEnds`.
- `SystemRefinement`: `FramePlayer` is implemented over restarts too, a new process being a `Close`.

**Controller and cover art.** `AvrcpProofs` proves two invariants side by side. `ArtInv` strengthens the
properties of the client: an idle client remembers no peer, only a connected one is on its way out or
transfers (`ClientInv`), and an open file has as many packets as the download has counted, no more than
the transfer has delivered (`FileInv`). Its lemmas are about CoverArt's actions; `ArtOfStep` says
that a step of `Avrcp` is one of them or leaves the client alone, which gives the invariant in `Avrcp`
and the refinement `ImplementsCoverArt`. `LinkInv` gives `CidNeverDangles` for any peers. With a single peer,
`TargetInv` adds what the application knows of its target at each stage of a connection. Two action
properties are the safety halves of the liveness that TLC checks: `DisconnectIsFinal` (a client that is
told to disconnect stays on its way out until it is gone and forgotten, whatever other events come in
between) and `AnsweredQueryTriesCoverArt` (one peer: the answer to a query always leaves the client
connected or on its way). `SizeIsReportedCorrectly`: what a download reports is what is in its file, also
when it is not the whole image.

**Volume.** `VolumeControlProofs` proves that percentage and volume stay in range and within a step of each
other (`Conversions`: either conversion rounds down by less than one unit), that the peer's knowledge is
right once something was set (strengthened by: nothing is agreed on without a connection), and the action
property that a key press is always heard. The last needs that ten percent are more than the step the
two may differ by (`KeysOutweighRounding`). `EchoesSettle` needs that a volume within a step of a
percentage converts back to it or to one percent less (`RoundTrip`).

*Only model-checked*: the liveness properties `PlaybackReturns`, `StreamIsPlayed`,
`DisconnectClosesPlayer`, `ShutdownEnds`, `CoverArtIsTried` and `DisconnectCompletes`. They rest on
fairness, whose `ENABLED` the provers do not treat. What safety contributes to them is proved, as said
above. Every invariant and action property of a passing run is a theorem; those about one peer, or about
a build with an audio driver, have that as their hypothesis, as the runs do.

## Disagreements

- **Two peers, one player** (`A2dpSinkTwoPeersWav`). `SIGNALING_CONNECTION_RELEASED` closes the player
  whichever peer has left (`a2dp_sink.c:247`). A second peer that connects and leaves silences the
  first, whose packets then go to a closed wav file.
- **Dual channel** (`A2dpSinkDualChannel`). "we support all configurations with bitpool 2-53"
  (`btstack_main.c:14`), but at dual channel 53 a frame has 224 bytes and the SBC ring holds 58 of the
  60 that start playback: the stream is never heard. `A2dpSinkLive` shows that joint stereo is.
- **A bitpool that changes** (`A2dpSinkBitpool`). Line 293 caches the frame length of the last packet, and
  the ring may hold frames of an earlier bitpool. Five packets of bitpool 20 (60 frames) start playback and
  one of bitpool 53 follows: each read is now two short frames and a part of a third. When a request of 512
  lacks 4, such a read delivers 127 and 127: what is left of the first fills most of the PCM ring, and the
  second is dropped, though "rest in ring buffer" is where it should go (`a2dp_sink.c:419`).
- **Completion** (`CoverArtComplete`). The status of `COVER_ART_OPERATION_COMPLETE` is not read: a
  failed transfer is reported as "download of ... complete" (`cover_art.c:57`).
- **Stale image handle** (`CoverArtHandle`). "image handles become invalid on player change"
  (`avrcp.c:115`), but UIDS_CHANGED leaves the handle as it is and only looks at the connected flag
  (`avrcp.c:260`). In the shortest trace it comes while the client, which the capability query has
  triggered, is still connecting: nothing is disconnected, the client connects, and `@` asks for the old
  handle. (A client that was connected is disconnected, keeps the handle too, and `d` connects it again.)
- **Not connected** (`AvrcpUsage`). With two peers, the release of either clears `avrcp_cid`
  (`avrcp.c:59`): the program prints "Not connected" and drops the events of the peer that stays.

## Not modelled

- `btstack_init`, `btstack_main`: registrations in a fixed order before the run loop starts.
- The USB path, the packet log and the help text of `main.c`: no state that is read again.
- Drift control by buffer level, `a2dp_sink.c:321-337`: this branch never runs. `HAVE_PORTAUDIO` defines
  `HAVE_BTSTACK_AUDIO_EFFECTIVE_SAMPLERATE` (`btstack_config.h:17`), which selects the other branch, and
  it is also the only option that registers an audio sink (`main.c:358`); without one the handler returns
  at `a2dp_sink.c:286`.
- Packets without frames or with fewer bytes than frames (a division by zero, lines 293 and 303), and
  frames fragmented over packets; what a write past `sbc_frame` does (line 369), and so frames of 121 to
  220 bytes beyond the step that overruns it.
- What the first frame after a pause or after a change of the bitpool sounds like: the decoder may hold the
  first part of a frame whose rest was discarded.
- The AVRCP console commands that send one command, events that are only printed, the usage text: no
  state.
- The state of `btstack_sample_rate_compensation`, a library, which chooses the factor when the driver
  reports its rate; the samples in frames, buffers and files; `audio_frame_count` (printed only);
  truncated packets (dropped without effect).
- Which frames in the ring are old: frames that arrive after a suspend are heard first on a resume.
- The other halves of the wiring between A2DP and AVRCP: the two models meet in `device_addr` only.
- `mesh_node_demo.h`, build files.

## Plan

Done: the core (`A2dpSink`, `FramePlayer` and both proofs), the composition of controller and cover art
with its proofs, the volume with its proofs, the port with its proofs, and the process with the proofs of both parts carried over. What would add most next:

1. `SinkApp`: A2DP and AVRCP in one model with the shared `device_addr`: which peer the automatic cover
   art connection reaches when the phone that streams is not the one that controls.
2. A queue of frame identities below `A2dpSink`, to tell old frames from new ones after a resume.
3. What several peers leave true of the recording build: `RecordingIsComplete` without its hypothesis is
   false, but a weaker statement (no file stays open without a later `wav_writer_open`) may hold.
4. An abstract bond store (bonds by address, added and reset in one step) that `Port` implements.
