------------------------------ MODULE A2dpSink -------------------------------
(***************************************************************************)
(* The A2DP sink of a2dp/a2dp_sink.c: the handler of A2DP events, the      *)
(* handler of media packets, and the player behind them -- the ring of SBC *)
(* frames, the ring of decoded PCM, the audio driver and the wav file --   *)
(* with the two console commands that open and close a stream.             *)
(*                                                                         *)
(* Everything runs on one run loop, so a handler is one action, except the *)
(* playback callback of the audio driver, whose decode loop is a step per  *)
(* read from the ring and a step per frame that the decoder hands back to  *)
(* handle_pcm_data inside the loop.                                        *)
(*                                                                         *)
(* A peer may change the bitpool, and with it the length of its frames,    *)
(* from one packet to the next: a codec configuration only gives a range.  *)
(* So the SBC ring is modelled by the bytes in it and by where its frames  *)
(* end, while the code knows the bytes and the frame length of the last    *)
(* packet.                                                                 *)
(*                                                                         *)
(* BTstack, the audio driver, the SBC decoder and the remote peers are     *)
(* external and modelled as the code uses them: a single local stream      *)
(* endpoint, any number of signaling connections, packets that are still   *)
(* under way when the stream is suspended, drivers whose misuse is         *)
(* recorded instead of ignored, and a decoder that is fed bytes (a whole   *)
(* packet at a time where there is no audio driver) and delivers each      *)
(* frame that is complete.                                                 *)
(***************************************************************************)
EXTENDS Integers, FiniteSets

CONSTANTS
  Peers,               \* remote devices
  NoCid,               \* a2dp_cid 0
  Configs,             \* SBC configurations a peer may choose
  NoConfig,            \* before the first configuration
  Packets,             \* Packets[c]: media packets that may arrive under c
  HaveAudio,           \* an audio driver is registered (HAVE_PORTAUDIO builds)
  AudioFaults,         \* the driver's init and start may fail
  OPTIMAL_FRAMES_MIN, OPTIMAL_FRAMES_MAX, ADDITIONAL_FRAMES,
  MAX_SBC_FRAME_SIZE,
  PCM_FRAMES,          \* capacity of the PCM ring and of output_buffer, in frames
  Requests,            \* numbers of PCM frames the driver asks for
  Resampled,           \* numbers of PCM frames one SBC frame resamples to
  LATE_BYTES           \* bound: SBC bytes that arrive after a suspend, at most

ASSUME A2dpSinkAssumption ==
  /\ NoCid \notin Peers
  /\ NoConfig \notin Configs
  /\ HaveAudio \in BOOLEAN /\ AudioFaults \in BOOLEAN
  /\ OPTIMAL_FRAMES_MIN \in Nat \ {0}
  /\ OPTIMAL_FRAMES_MAX \in Nat /\ ADDITIONAL_FRAMES \in Nat
  /\ MAX_SBC_FRAME_SIZE \in Nat
  /\ PCM_FRAMES \in Nat
  /\ Requests \subseteq Nat \ {0}
  /\ Resampled \subseteq 0..PCM_FRAMES
  /\ LATE_BYTES \in Nat

\* A packet of num_frames SBC frames, which end at these offsets of its payload.
ASSUME PacketAssumption ==
  \A c \in Configs : \A p \in Packets[c] :
    /\ p.num_frames \in Nat \ {0} /\ p.bytes \in Nat /\ p.num_frames <= p.bytes
    /\ p.ends \subseteq 1..p.bytes /\ p.bytes \in p.ends
    /\ Cardinality(p.ends) = p.num_frames

\* Mutation: the whole packet is taken for one frame.
FrameSize_of_packet(p) == p.bytes

\* The length of its frames, as the handler computes it.
FrameSize(p) == p.bytes \div p.num_frames

\* A suspended peer has less under way than starts playback.
ASSUME LateAssumption ==
  \A c \in Configs : \A p \in Packets[c] : LATE_BYTES < OPTIMAL_FRAMES_MIN * FrameSize(p)

AllPackets == UNION {Packets[c] : c \in Configs}

VARIABLES
  a2dp_cid,            \* the connection the console commands act on
  device_addr,         \* the peer the console connects to
  stream_state,
  sbc_configuration,   \* [reconfigure, cfg]: the last SBC_CONFIGURATION event
  media,               \* the player, see MediaType
  request_frames,      \* frames the driver's request still lacks
  decoded,             \* frames the decoder still has to deliver from this read
  pc,                  \* "run_loop", "playback" inside playback_handler, "overrun"
  \* external: BTstack and the peers
  signaling,           \* peers with a signaling connection
  disconnecting,       \* peers whose connection the console has asked to close
  endpoint,            \* [peer, state, cfg, media_cfg] of the local stream endpoint
  late_bytes           \* SBC bytes that may still arrive on a suspended stream

console == <<a2dp_cid, device_addr>>
app     == <<a2dp_cid, device_addr, stream_state, sbc_configuration>>
playing == <<media, request_frames, decoded, pc>>
stack   == <<signaling, disconnecting, endpoint, late_bytes>>
vars    == <<a2dp_cid, device_addr, stream_state, sbc_configuration,
             media, request_frames, decoded, pc,
             signaling, disconnecting, endpoint, late_bytes>>

SbcRingBytes == (OPTIMAL_FRAMES_MAX + ADDITIONAL_FRAMES) * MAX_SBC_FRAME_SIZE

StreamStates == {"CLOSED", "OPEN", "PLAYING", "PAUSED"}

MediaType ==
  [media_initialized    : BOOLEAN,
   audio_stream_started : BOOLEAN,
   l2cap_stream_started : BOOLEAN,
   sbc_frame_size       : Nat,
   sbc_bytes            : 0..SbcRingBytes,  \* in sbc_frame_ring_buffer
   sbc_frames           : SUBSET (1..SbcRingBytes),  \* where the frames in it end
   pcm_frames           : 0..PCM_FRAMES,    \* in decoded_audio_ring_buffer
   cfg                  : Configs \cup {NoConfig},  \* decoder, wav and driver set up for
   compensation         : Configs \cup {NoConfig},  \* sample_rate_compensation set up for
   audio                : {"closed", "ready", "running", "misused"},
   wav                  : {"closed", "open", "misused"}]

EndpointType ==
  [peer      : Peers \cup {NoCid},
   state     : {"idle", "configured", "open", "streaming"},
   cfg       : Configs \cup {NoConfig},   \* negotiated
   media_cfg : Configs \cup {NoConfig}]   \* of the frames sent since the last start

TypeOK ==
  /\ a2dp_cid \in Peers \cup {NoCid}
  /\ device_addr \in Peers
  /\ stream_state \in StreamStates
  /\ sbc_configuration \in [reconfigure : BOOLEAN, cfg : Configs \cup {NoConfig}]
  /\ media \in MediaType
  /\ request_frames \in Nat
  /\ decoded \in Nat
  /\ pc \in {"run_loop", "playback", "overrun"}
  /\ signaling \subseteq Peers
  /\ disconnecting \subseteq Peers
  /\ endpoint \in EndpointType
  /\ late_bytes \in 0..LATE_BYTES

IdleEndpoint == [peer |-> NoCid, state |-> "idle", cfg |-> NoConfig, media_cfg |-> NoConfig]

NoConfiguration == [reconfigure |-> FALSE, cfg |-> NoConfig]

NoMedia == [media_initialized |-> FALSE, audio_stream_started |-> FALSE,
            l2cap_stream_started |-> FALSE, sbc_frame_size |-> 0,
            sbc_bytes |-> 0, sbc_frames |-> {}, pcm_frames |-> 0, cfg |-> NoConfig,
            compensation |-> NoConfig, audio |-> "closed", wav |-> "closed"]

Init ==
  /\ a2dp_cid = NoCid
  /\ device_addr \in Peers
  /\ stream_state = "CLOSED"
  /\ sbc_configuration = NoConfiguration
  /\ media = NoMedia
  /\ request_frames = 0
  /\ decoded = 0
  /\ pc = "run_loop"
  /\ signaling = {}
  /\ disconnecting = {}
  /\ endpoint = IdleEndpoint
  /\ late_bytes = 0

-----------------------------------------------------------------------------
(***************************************************************************)
(* The drivers, external.  The audio driver is opened once and started     *)
(* once; stopping, starting or closing a driver that is not open does      *)
(* nothing.  The wav writer owns one FILE*: opening it twice loses the     *)
(* first, writing or closing without one is an error.                      *)
(***************************************************************************)
Smaller(a, b) == IF a <= b THEN a ELSE b

Outcomes == IF AudioFaults THEN BOOLEAN ELSE {TRUE}

AudioInit(a, ok) ==
  CASE ~HaveAudio     -> a
    [] a = "closed"   -> IF ok THEN "ready" ELSE "closed"
    [] OTHER          -> "misused"

AudioStart(a, ok) ==
  CASE a = "ready"    -> IF ok THEN "running" ELSE "ready"
    [] a = "closed"   -> "closed"
    [] OTHER          -> "misused"

AudioStop(a)  == IF a = "running" THEN "ready" ELSE a
AudioClose(a) == IF a = "misused" THEN a ELSE "closed"

WavOpen(w)  == IF w = "closed" THEN "open" ELSE "misused"
WavWrite(w) == IF w = "open" THEN "open" ELSE "misused"
WavClose(w) == IF w = "open" THEN "closed" ELSE "misused"

-----------------------------------------------------------------------------
(***************************************************************************)
(* The player, static functions of a2dp_sink.c as functions of its state.  *)
(***************************************************************************)
\* Mutation: the rings are not reset.
media_processing_init_keeping_rings(m, configuration, ok) ==
  IF m.media_initialized THEN m
  ELSE [m EXCEPT !.wav = WavOpen(@), !.cfg = configuration, !.audio = AudioInit(@, ok),
                 !.audio_stream_started = FALSE, !.media_initialized = TRUE]

media_processing_init(m, configuration, ok) ==
  IF m.media_initialized THEN m
  ELSE [m EXCEPT !.wav = WavOpen(@),
                 !.sbc_bytes = 0, !.sbc_frames = {},
                 !.pcm_frames = 0,
                 !.cfg = configuration,
                 !.audio = AudioInit(@, ok),
                 !.audio_stream_started = FALSE,
                 !.media_initialized = TRUE]

media_processing_start(m, ok) ==
  IF ~m.media_initialized THEN m
  ELSE [m EXCEPT !.audio = AudioStart(@, ok),
                 !.audio_stream_started = TRUE]

\* Mutation: the audio stream counts as started.
media_processing_close_keeping_started(m) ==
  IF ~m.media_initialized THEN m
  ELSE [m EXCEPT !.media_initialized = FALSE, !.sbc_frame_size = 0,
                 !.l2cap_stream_started = FALSE, !.wav = WavClose(@), !.audio = AudioClose(@)]

\* Mutation: only a stream that plays is closed.
media_processing_close_playing(m) ==
  IF ~m.audio_stream_started THEN m
  ELSE [m EXCEPT !.media_initialized = FALSE, !.audio_stream_started = FALSE,
                 !.sbc_frame_size = 0, !.l2cap_stream_started = FALSE,
                 !.wav = WavClose(@), !.audio = AudioClose(@)]

media_processing_close(m) ==
  IF ~m.media_initialized THEN m
  ELSE [m EXCEPT !.media_initialized = FALSE,
                 !.audio_stream_started = FALSE,
                 !.sbc_frame_size = 0,
                 !.l2cap_stream_started = FALSE,
                 !.wav = WavClose(@),
                 !.audio = AudioClose(@)]

\* Mutation: a suspended stream closes the player.
media_processing_pause_closing(m) == media_processing_close(m)

\* Mutation: the SBC ring is not reset.
media_processing_pause_keeping_ring(m) ==
  IF ~m.media_initialized THEN m
  ELSE [m EXCEPT !.audio_stream_started = FALSE, !.l2cap_stream_started = FALSE,
                 !.audio = AudioStop(@), !.pcm_frames = 0]

\* Mutation: the media channel counts as started.
media_processing_pause_keeping_l2cap(m) ==
  IF ~m.media_initialized THEN m
  ELSE [m EXCEPT !.audio_stream_started = FALSE, !.audio = AudioStop(@),
                 !.pcm_frames = 0, !.sbc_bytes = 0, !.sbc_frames = {}]

\* Mutation: the audio stream counts as started.
media_processing_pause_keeping_started(m) ==
  IF ~m.media_initialized THEN m
  ELSE [m EXCEPT !.l2cap_stream_started = FALSE, !.audio = AudioStop(@),
                 !.pcm_frames = 0, !.sbc_bytes = 0, !.sbc_frames = {}]

media_processing_pause(m) ==
  IF ~m.media_initialized THEN m
  ELSE [m EXCEPT !.audio_stream_started = FALSE,
                 !.l2cap_stream_started = FALSE,
                 !.audio = AudioStop(@),
                 !.pcm_frames = 0,
                 !.sbc_bytes = 0, !.sbc_frames = {}]

-----------------------------------------------------------------------------
(***************************************************************************)
(* Console: 'b' establishes a stream to device_addr, 'B' disconnects       *)
(* whatever a2dp_cid names.  BTstack writes the cid of the connection it   *)
(* creates, and refuses to disconnect a cid it does not know.              *)
(***************************************************************************)
EstablishStream ==
  /\ pc = "run_loop"
  /\ a2dp_cid' = device_addr
  /\ UNCHANGED <<device_addr, stream_state, sbc_configuration, playing, stack>>

Disconnect ==
  /\ pc = "run_loop"
  /\ a2dp_cid \in signaling
  /\ disconnecting' = disconnecting \cup {a2dp_cid}
  /\ UNCHANGED <<app, playing, signaling, endpoint, late_bytes>>

(***************************************************************************)
(* BTstack accepts or completes a signaling connection; the application    *)
(* does not handle that event.                                             *)
(***************************************************************************)
SignalingConnected(p) ==
  /\ pc = "run_loop"
  /\ p \notin signaling
  /\ signaling' = signaling \cup {p}
  /\ UNCHANGED <<app, playing, disconnecting, endpoint, late_bytes>>

\* A peer connects over AVRCP, which redirects the console to it (see Avrcp).
AvrcpConnected(p) ==
  /\ pc = "run_loop"
  /\ device_addr' = p
  /\ UNCHANGED <<a2dp_cid, stream_state, sbc_configuration, playing, stack>>

-----------------------------------------------------------------------------
(***************************************************************************)
(* a2dp_sink_packet_handler, an action per subevent.                       *)
(***************************************************************************)

\* The endpoint is configured by a peer that finds it idle, or reconfigured by
\* the peer that holds it while the stream is open and not streaming.
SbcConfiguration(p, c) ==
  /\ pc = "run_loop"
  /\ p \in signaling
  /\ \/ endpoint.state = "idle"
     \/ endpoint.state = "open" /\ endpoint.peer = p
  /\ sbc_configuration' = [reconfigure |-> endpoint.state = "open", cfg |-> c]
  /\ endpoint' = [endpoint EXCEPT !.peer = p, !.cfg = c,
                    !.state = IF @ = "idle" THEN "configured" ELSE @]
  /\ UNCHANGED <<console, stream_state, playing, signaling, disconnecting, late_bytes>>

\* Mutation: the cid in the event is not kept.
StreamEstablished_without_cid ==
  /\ pc = "run_loop"
  /\ endpoint.state = "configured"
  /\ endpoint' = [endpoint EXCEPT !.state = "open"]
  /\ device_addr' = endpoint.peer
  /\ stream_state' = "OPEN"
  /\ UNCHANGED <<a2dp_cid, sbc_configuration, playing, signaling, disconnecting, late_bytes>>

StreamEstablished ==
  /\ pc = "run_loop"
  /\ endpoint.state = "configured"
  /\ endpoint' = [endpoint EXCEPT !.state = "open"]
  /\ a2dp_cid' = endpoint.peer
  /\ device_addr' = endpoint.peer
  /\ stream_state' = "OPEN"
  /\ UNCHANGED <<sbc_configuration, playing, signaling, disconnecting, late_bytes>>

\* A failed STREAM_ESTABLISHED changes nothing in the application.
StreamFailed ==
  /\ pc = "run_loop"
  /\ endpoint.state = "configured"
  /\ endpoint' = IdleEndpoint
  /\ UNCHANGED <<app, playing, signaling, disconnecting, late_bytes>>

\* Mutation: an open player is not opened anew for another configuration.
Reconfigured_never(m) == m

\* The player is closed if the configuration was changed under it.
Reconfigured(m) == IF sbc_configuration.reconfigure THEN media_processing_close(m) ELSE m

StreamStarted ==
  /\ pc = "run_loop"
  /\ endpoint.state = "open"
  /\ endpoint' = [endpoint EXCEPT !.state = "streaming", !.media_cfg = endpoint.cfg]
  /\ late_bytes' = 0
  /\ stream_state' = "PLAYING"
  /\ \E ok \in Outcomes :
       media' = media_processing_init(Reconfigured(media), sbc_configuration.cfg, ok)
  /\ UNCHANGED <<console, sbc_configuration, request_frames, decoded, pc, signaling, disconnecting>>

StreamSuspended ==
  /\ pc = "run_loop"
  /\ endpoint.state = "streaming"
  /\ endpoint' = [endpoint EXCEPT !.state = "open"]
  /\ late_bytes' = LATE_BYTES
  /\ stream_state' = "PAUSED"
  /\ media' = media_processing_pause(media)
  /\ UNCHANGED <<console, sbc_configuration, request_frames, decoded, pc, signaling, disconnecting>>

StreamReleased ==
  /\ pc = "run_loop"
  /\ endpoint.state \in {"open", "streaming"}
  /\ endpoint' = IdleEndpoint
  /\ late_bytes' = 0
  /\ stream_state' = "CLOSED"
  /\ media' = media_processing_close(media)
  /\ UNCHANGED <<console, sbc_configuration, request_frames, decoded, pc, signaling, disconnecting>>

\* The handler looks neither at the cid in the event nor at stream_state.
SignalingReleased(p) ==
  /\ pc = "run_loop"
  /\ p \in signaling
  /\ signaling' = signaling \ {p}
  /\ disconnecting' = disconnecting \ {p}
  /\ IF endpoint.peer = p THEN endpoint' = IdleEndpoint /\ late_bytes' = 0
                          ELSE UNCHANGED <<endpoint, late_bytes>>
  /\ a2dp_cid' = NoCid
  /\ media' = media_processing_close(media)
  /\ UNCHANGED <<device_addr, stream_state, sbc_configuration, request_frames, decoded, pc>>

-----------------------------------------------------------------------------
(***************************************************************************)
(* handle_l2cap_media_data_packet.  The packets are those of the           *)
(* configuration the stream was last started with; after a suspend those   *)
(* still under way arrive.  Without an audio driver a packet is decoded at *)
(* once into the wav file; otherwise its payload is written to the ring    *)
(* whole or not at all, and playback starts when the ring holds enough     *)
(* frames of this packet's length.                                         *)
(***************************************************************************)
\* The ring m.sbc_bytes, with the frames of packet p behind those it holds.
Behind(m, p) == m.sbc_frames \cup {m.sbc_bytes + e : e \in p.ends}

\* Mutation: the ring is written without a look at its capacity.
Queue_unbounded(m, p) ==
  [m EXCEPT !.sbc_frame_size = FrameSize(p), !.sbc_bytes = @ + p.bytes, !.sbc_frames = Behind(m, p)]

\* Mutation: of a packet that does not fit, the part that fits is written.
Queue_cutting(m, p) ==
  LET bytes == Smaller(m.sbc_bytes + p.bytes, SbcRingBytes)
  IN  [m EXCEPT !.sbc_frame_size = FrameSize(p), !.sbc_bytes = bytes,
                !.sbc_frames = Behind(m, p) \cap 1..bytes]

Queue(m, p) ==
  LET fits == m.sbc_bytes + p.bytes <= SbcRingBytes
  IN  [m EXCEPT !.sbc_frame_size = FrameSize(p),
                !.sbc_bytes  = IF fits THEN @ + p.bytes ELSE @,
                !.sbc_frames = IF fits THEN Behind(m, p) ELSE @]

Compensate(m) ==
  IF m.audio_stream_started /\ ~m.l2cap_stream_started
  THEN [m EXCEPT !.l2cap_stream_started = TRUE, !.compensation = sbc_configuration.cfg]
  ELSE m

\* Mutation: started with every packet.
StartIfFilled_again(m, ok) ==
  IF m.sbc_bytes \div m.sbc_frame_size >= OPTIMAL_FRAMES_MIN THEN media_processing_start(m, ok)
  ELSE m

\* Mutation: started one frame early.
StartIfFilled_early(m, ok) ==
  IF ~m.audio_stream_started /\ m.sbc_bytes \div m.sbc_frame_size >= OPTIMAL_FRAMES_MIN - 1
  THEN media_processing_start(m, ok)
  ELSE m

StartIfFilled(m, ok) ==
  IF ~m.audio_stream_started /\ m.sbc_bytes \div m.sbc_frame_size >= OPTIMAL_FRAMES_MIN
  THEN media_processing_start(m, ok)
  ELSE m

MediaPacket(p) ==
  /\ pc = "run_loop"
  /\ \/ endpoint.state = "streaming" /\ UNCHANGED late_bytes
     \/ /\ endpoint.state = "open"
        /\ p.bytes <= late_bytes
        /\ late_bytes' = late_bytes - p.bytes
  /\ p \in Packets[endpoint.media_cfg]
  /\ IF HaveAudio
     THEN \E ok \in Outcomes : media' = StartIfFilled(Compensate(Queue(media, p)), ok)
     ELSE media' = [media EXCEPT !.wav = WavWrite(@)]
  /\ UNCHANGED <<app, request_frames, decoded, pc, signaling, disconnecting, endpoint>>

-----------------------------------------------------------------------------
(***************************************************************************)
(* playback_handler: the driver asks for n PCM frames.  What is left in    *)
(* the PCM ring goes first, then sbc_frame_size bytes at a time go from    *)
(* the SBC ring to the decoder until the request is filled or the ring has *)
(* fewer, then the buffer goes to the wav file.  Without a frame size the  *)
(* handler writes silence and changes no state.                            *)
(***************************************************************************)
\* Mutation: what waits in the PCM ring is not used first.
FromPcmRing_nothing(n) == 0

\* The frames of a request that are taken from the PCM ring.
FromPcmRing(n) == Smaller(media.pcm_frames, n)

PlaybackRequest(n) ==
  /\ pc = "run_loop"
  /\ media.audio = "running"
  /\ media.sbc_frame_size # 0
  /\ media' = [media EXCEPT !.pcm_frames = @ - FromPcmRing(n)]
  /\ request_frames' = n - FromPcmRing(n)
  /\ pc' = "playback"
  /\ UNCHANGED <<app, decoded, stack>>

\* Mutation: the ring is decoded however much was asked for.
MoreToDecode_unasked == media.sbc_bytes >= media.sbc_frame_size

MoreToDecode == request_frames > 0 /\ media.sbc_bytes >= media.sbc_frame_size

\* The frames whose last byte is among the first sbc_frame_size of the ring.
FramesRead == {e \in media.sbc_frames : e <= media.sbc_frame_size}

\* One iteration of the loop.  The bytes go through an array of MAX_SBC_FRAME_SIZE;
\* what happens to a read that does not fit into it is undefined, and nothing is
\* said of the program after it.  The decoder, which keeps the rest of a frame that
\* was cut, completes the frames that end here.
ReadFrame ==
  /\ pc = "playback"
  /\ decoded = 0
  /\ MoreToDecode
  /\ media' = [media EXCEPT !.sbc_bytes = @ - media.sbc_frame_size,
                            !.sbc_frames = {e - media.sbc_frame_size : e \in @ \ FramesRead}]
  /\ decoded' = Cardinality(FramesRead)
  /\ pc' = IF media.sbc_frame_size > MAX_SBC_FRAME_SIZE THEN "overrun" ELSE "playback"
  /\ UNCHANGED <<app, request_frames, stack>>

\* handle_pcm_data, the decoder's callback, for a frame resampled to r PCM frames
\* (r = 0: the frame could not be decoded): to the request first, the rest to the
\* PCM ring, whole or not at all.
handle_pcm_data(r) ==
  LET rest == r - Smaller(r, request_frames)
  IN  /\ pc = "playback"
      /\ decoded > 0
      /\ decoded' = decoded - 1
      /\ request_frames' = request_frames - Smaller(r, request_frames)
      /\ media' = [media EXCEPT !.pcm_frames = IF @ + rest <= PCM_FRAMES THEN @ + rest ELSE @]
      /\ UNCHANGED <<app, pc, stack>>

\* Mutation: an underrun does not end the request.
PlaybackReturn_when_filled ==
  /\ pc = "playback"
  /\ decoded = 0 /\ request_frames = 0
  /\ media' = [media EXCEPT !.wav = WavWrite(@)]
  /\ pc' = "run_loop"
  /\ UNCHANGED <<app, request_frames, decoded, stack>>

PlaybackReturn ==
  /\ pc = "playback"
  /\ decoded = 0 /\ ~MoreToDecode
  /\ media' = [media EXCEPT !.wav = WavWrite(@)]
  /\ pc' = "run_loop"
  /\ UNCHANGED <<app, request_frames, decoded, stack>>

-----------------------------------------------------------------------------
A2dpEvent ==
  \/ \E p \in Peers, c \in Configs : SbcConfiguration(p, c)
  \/ StreamEstablished
  \/ StreamFailed
  \/ StreamStarted
  \/ StreamSuspended
  \/ StreamReleased
  \/ \E p \in Peers : SignalingReleased(p)

Playback ==
  \/ \E n \in Requests : PlaybackRequest(n)
  \/ ReadFrame
  \/ \E r \in Resampled : handle_pcm_data(r)
  \/ PlaybackReturn

Next ==
  \/ EstablishStream
  \/ Disconnect
  \/ \E p \in Peers : SignalingConnected(p) \/ AvrcpConnected(p)
  \/ A2dpEvent
  \/ \E p \in AllPackets : MediaPacket(p)
  \/ Playback

Spec == Init /\ [][Next]_vars

(***************************************************************************)
(* Fairness.  The run loop returns to a callback it has entered; a peer    *)
(* that streams keeps sending; and BTstack completes a disconnect it has   *)
(* accepted, however busy the audio timer and the media channel are (the   *)
(* run loop serves all of its sources), hence strong fairness.             *)
(***************************************************************************)
Fairness ==
  /\ WF_vars(ReadFrame)
  /\ WF_vars(\E r \in Resampled : handle_pcm_data(r))
  /\ WF_vars(PlaybackReturn)
  /\ WF_vars(endpoint.state = "streaming" /\ \E p \in AllPackets : MediaPacket(p))
  /\ \A p \in Peers : SF_vars(p \in disconnecting /\ SignalingReleased(p))

FairSpec == Spec /\ Fairness

-----------------------------------------------------------------------------
(***************************************************************************)
(* Safety.                                                                 *)
(***************************************************************************)
SinglePeer == \A p, q \in Peers : p = q

\* No handler opens the audio driver or the wav file twice, starts a running
\* driver, or writes to or closes a wav file that is not open: the guards on
\* media_initialized and audio_stream_started suffice in every order of events.
NoMisuse == media.audio # "misused" /\ media.wav # "misused"

\* Sound comes out only while the peer streams: frames that arrive after a
\* suspend, and packets that arrive after the player was closed, never start it.
PlaysOnlyWhileStreaming ==
  media.audio = "running" =>
    /\ endpoint.state = "streaming"
    /\ stream_state = "PLAYING"
    /\ media.media_initialized /\ media.audio_stream_started

\* While a peer streams, a player that is open was set up for the codec
\* configuration negotiated last, though StreamStarted reopens it only when the
\* reconfigure flag says so.
PlayerHasConfiguration ==
  media.media_initialized /\ endpoint.state = "streaming" =>
    /\ media.cfg = endpoint.cfg
    /\ sbc_configuration.cfg = endpoint.cfg

\* What an open player's SBC ring holds ends where a frame ends: a packet that does
\* not fit, a pause or a new configuration never leaves the first part of a frame
\* there, which the next packet would be decoded with.  And playback never runs
\* without a frame size (it would divide by it and decode forever).
RingEndsOnFrame ==
  /\ media.media_initialized /\ media.sbc_bytes > 0 =>
       media.sbc_bytes \in media.sbc_frames /\ media.sbc_frame_size > 0
  /\ media.audio = "running" => media.sbc_frame_size > 0

\* "decode frame": a read from the ring takes one whole frame from it.  True as
\* long as the frames of a configuration have one length; not when it changes
\* with the bitpool while frames wait in the ring.
ReadsOneFrame ==
  pc = "playback" /\ decoded = 0 /\ MoreToDecode => FramesRead = {media.sbc_frame_size}

\* "store data in btstack_audio buffer first ... and rest in ring buffer": whatever
\* a frame is resampled to, what the request does not take has room in the PCM
\* ring, so that no decoded sample is dropped.  True as long as a read is one frame.
SurplusFits ==
  pc = "playback" /\ decoded > 0 =>
    \A r \in Resampled : media.pcm_frames + (r - Smaller(r, request_frames)) <= PCM_FRAMES

\* A read fits into sbc_frame[MAX_SBC_FRAME_SIZE], if the frames of every packet do:
\* the size that is cached is never that of more than one frame.
ReadFitsBuffer == pc # "overrun"

\* While a request is being filled the PCM ring is empty: no decoded sample
\* overtakes one that is waiting, however many frames a read completes.
PcmInOrder ==
  pc # "run_loop" /\ request_frames > 0 => media.pcm_frames = 0

\* The sample rate compensation is only ever updated for a started player, and
\* with the rate that player was opened with.
CompensationMatchesPlayer ==
  media.l2cap_stream_started =>
    media.audio_stream_started /\ media.compensation = media.cfg

\* With one peer, 'B' and the delay report act on the connection that holds the
\* open stream, whatever 'b' has written to a2dp_cid in the meantime.
CidNamesStream ==
  endpoint.state \in {"open", "streaming"} => a2dp_cid = endpoint.peer

\* A packet finds the player open: the frames of a stream, and those under way
\* when it was suspended, have somewhere to go ("stored in a wav file if
\* STORE_TO_WAV_FILE is defined, and/or played").  True as long as there is one
\* peer only.
MediaFindsPlayer ==
  endpoint.state = "streaming" \/ late_bytes > 0 =>
    media.media_initialized /\ media.wav = "open"

(***************************************************************************)
(* The inductive invariant behind these properties.                        *)
(***************************************************************************)

\* What BTstack's endpoint and the configuration the application keeps agree on.
EndpointInv ==
  /\ endpoint.state # "idle" =>
       /\ endpoint.peer \in Peers
       /\ endpoint.cfg \in Configs
       /\ sbc_configuration.cfg = endpoint.cfg
  /\ endpoint.state = "streaming" =>
       endpoint.media_cfg = endpoint.cfg /\ stream_state = "PLAYING"
  /\ late_bytes > 0 => endpoint.state = "open" /\ endpoint.media_cfg \in Configs

\* The player is open for an open stream only, set up for the frames on it, and
\* reconfigure is pending whenever the negotiated configuration has moved on.
PlayerInv ==
  /\ media.media_initialized =>
       /\ endpoint.state \in {"open", "streaming"}
       /\ media.cfg \in Configs
       /\ media.cfg = endpoint.media_cfg
       /\ ~sbc_configuration.reconfigure => sbc_configuration.cfg = media.cfg
  /\ ~media.media_initialized => media.audio = "closed" /\ ~media.audio_stream_started
  /\ media.audio # "misused"
  /\ media.audio = "running" => media.audio_stream_started
  /\ media.audio_stream_started => endpoint.state = "streaming"
  /\ media.l2cap_stream_started =>
       media.audio_stream_started /\ media.compensation = media.cfg

\* The ring holds the frames it is said to hold, the last one to its end; while the
\* stream is suspended those and the late ones together are not enough to start
\* playback.
QueueInv ==
  /\ media.sbc_frames \subseteq 1..media.sbc_bytes
  /\ media.sbc_bytes > 0 => media.sbc_bytes \in media.sbc_frames
  /\ media.media_initialized /\ media.sbc_bytes > 0 => media.sbc_frame_size > 0
  /\ media.media_initialized /\ endpoint.state = "open" =>
       media.sbc_bytes + late_bytes <= LATE_BYTES
  /\ media.audio = "running" => media.sbc_frame_size > 0
  /\ media.sbc_frame_size > 0 => \E p \in AllPackets : media.sbc_frame_size = FrameSize(p)

PlaybackInv ==
  /\ pc # "run_loop" =>
       media.audio = "running" /\ (request_frames > 0 => media.pcm_frames = 0)
  /\ pc = "run_loop" => decoded = 0

WavInv ==
  HaveAudio \/ SinglePeer => media.wav = IF media.media_initialized THEN "open" ELSE "closed"

SinglePeerInv ==
  SinglePeer =>
    /\ endpoint.state = "streaming" \/ late_bytes > 0 => media.media_initialized
    /\ CidNamesStream

\* The stream, and the disconnections under way, are those of connected peers.
ConnectionInv ==
  /\ endpoint.state # "idle" => endpoint.peer \in signaling
  /\ disconnecting \subseteq signaling

\* A ring that is filled to the threshold has started the player; and only a
\* configuration with a frame length at which the threshold fits the ring ever does.
StartInv ==
  media.media_initialized =>
    /\ HaveAudio /\ media.sbc_frame_size > 0
         /\ media.sbc_bytes >= OPTIMAL_FRAMES_MIN * media.sbc_frame_size
       => media.audio_stream_started
    /\ media.audio_stream_started =>
         \E p \in Packets[media.cfg] : OPTIMAL_FRAMES_MIN * FrameSize(p) <= SbcRingBytes

Inv ==
  /\ TypeOK
  /\ EndpointInv
  /\ PlayerInv
  /\ QueueInv
  /\ PlaybackInv
  /\ WavInv
  /\ SinglePeerInv
  /\ ConnectionInv
  /\ StartInv

(***************************************************************************)
(* Refinement: the sink implements FramePlayer.  The player is ready from  *)
(* media_processing_init to media_processing_close, whether the driver     *)
(* opened or not, and its queue is what the SBC ring holds.                *)
(***************************************************************************)
player_bar ==
  CASE ~media.media_initialized  -> "closed"
    [] media.media_initialized /\ media.audio = "running" -> "running"
    [] OTHER -> "ready"

queue_bar == IF media.media_initialized THEN media.sbc_frames ELSE {}

Frames == INSTANCE FramePlayer
  WITH StartFrames <- OPTIMAL_FRAMES_MIN,
       QueueBytes <- SbcRingBytes,
       Packets <- AllPackets,
       player <- player_bar, queue <- queue_bar

\* Packets are queued and dropped whole, played from the front in pieces of a
\* frame's length, and lost only by a pause, a close or a full queue; playback
\* starts only on a filled queue.
ImplementsFramePlayer == Frames!Spec

(***************************************************************************)
(* Liveness, under Fairness.                                               *)
(***************************************************************************)

\* playback_handler returns: the decode loop ends.
PlaybackReturns == pc = "playback" ~> pc = "run_loop"

\* A stream that keeps flowing is heard.
StreamIsPlayed ==
  endpoint.state = "streaming" ~> media.audio = "running" \/ endpoint.state # "streaming"

\* After 'B' the player is closed, even if playback is under way.
DisconnectClosesPlayer ==
  \A p \in Peers : p \in disconnecting ~> ~media.media_initialized

=============================================================================
