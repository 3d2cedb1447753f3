--------------------------- MODULE A2dpSinkProofs ----------------------------
(***************************************************************************)
(* Proofs about A2dpSink for any set of peers, any configurations, any     *)
(* packets and any ring sizes.  The inductive invariant Inv is proved part *)
(* by part; it assumes nothing of the length of frames.  What needs frames *)
(* of one length is proved in A2dpSinkSteady.                              *)
(***************************************************************************)
EXTENDS A2dpSink, FiniteSetTheorems, TLAPS

\* Frames are counted in multiples of the frame size.
LEMMA MultipleAdd ==
  ASSUME NEW k \in Nat, NEW n \in Nat, NEW s \in Nat
  PROVE  (k + n) * s = k * s + n * s
OBVIOUS

\* A ring that holds a frame's bytes holds a frame, and one fewer without them.
LEMMA MultipleTake ==
  ASSUME NEW k \in Nat, NEW s \in Nat \ {0}, k * s >= s
  PROVE  k > 0 /\ k - 1 \in Nat /\ (k - 1) * s = k * s - s
OBVIOUS

\* The handler's division of the ring's bytes gives back the frames, with no rest.
LEMMA MultipleDiv ==
  ASSUME NEW k \in Nat, NEW s \in Nat \ {0}
  PROVE  (k * s) \div s = k /\ (k * s) % s = 0
OBVIOUS

\* More frames are more bytes.
LEMMA MultipleCompare ==
  ASSUME NEW k \in Nat, NEW m \in Nat, NEW s \in Nat \ {0}
  PROVE  k * s >= m * s <=> k >= m
<1>1. ASSUME k >= m PROVE k * s >= m * s
  <2>1. PICK d \in Nat : k = m + d
    BY <1>1, k - m \in Nat
  <2>2. k * s = m * s + d * s /\ d * s \in Nat /\ m * s \in Nat
    BY <2>1, MultipleAdd
  <2> QED
    BY <2>2
<1>2. ASSUME ~(k >= m) PROVE ~(k * s >= m * s)
  <2>1. PICK d \in Nat : m = (k + 1) + d
    BY <1>2, m - (k + 1) \in Nat
  <2>2. /\ m * s = (k + 1) * s + d * s /\ (k + 1) * s = k * s + 1 * s
        /\ d * s \in Nat /\ k * s \in Nat
    BY <2>1, MultipleAdd
  <2> QED
    BY <2>2
<1> QED
  BY <1>1, <1>2

\* The handler's count of frames reaches m when the ring holds m times their length.
LEMMA DivThreshold ==
  ASSUME NEW b \in Nat, NEW s \in Nat \ {0}, NEW m \in Nat
  PROVE  b \div s >= m <=> b >= m * s
<1> DEFINE q == b \div s
<1>1. q \in Nat /\ q * s <= b /\ b < (q + 1) * s
  OBVIOUS
<1> HIDE DEF q
<1>2. CASE q >= m
  BY <1>1, <1>2, MultipleCompare
<1>3. CASE ~(q >= m)
  <2>1. m * s >= (q + 1) * s
    BY <1>1, <1>3, MultipleCompare, m >= q + 1, q + 1 \in Nat
  <2>2. m * s \in Nat /\ (q + 1) * s \in Nat
    BY <1>1
  <2> QED
    BY <1>1, <1>3, <2>1, <2>2
<1> QED
  BY <1>2, <1>3 DEF q

\* The capacity of the SBC ring is a number.
LEMMA RingBytesNat == SbcRingBytes \in Nat
BY A2dpSinkAssumption DEF A2dpSinkAssumption, SbcRingBytes

\* A packet has frames of a length, and those that may arrive late are too few to
\* reach the start threshold.
LEMMA PacketFacts ==
  ASSUME NEW c \in Configs, NEW p \in Packets[c]
  PROVE  /\ p.num_frames \in Nat \ {0} /\ p.bytes \in Nat \ {0}
         /\ p.ends \subseteq 1..p.bytes /\ p.bytes \in p.ends
         /\ FrameSize(p) \in Nat \ {0}
         /\ OPTIMAL_FRAMES_MIN * FrameSize(p) \in Nat
         /\ LATE_BYTES < OPTIMAL_FRAMES_MIN * FrameSize(p)
         /\ p \in AllPackets
<1>1. /\ p.num_frames \in Nat \ {0} /\ p.bytes \in Nat \ {0} /\ p.num_frames <= p.bytes
      /\ p.ends \subseteq 1..p.bytes /\ p.bytes \in p.ends
  BY PacketAssumption DEF PacketAssumption
<1>2. FrameSize(p) \in Nat \ {0}
  <2>1. p.bytes >= 1 * p.num_frames
    BY <1>1
  <2>2. p.bytes \div p.num_frames >= 1
    BY <1>1, <2>1, DivThreshold, 1 \in Nat
  <2> QED
    BY <1>1, <2>2 DEF FrameSize
<1>3. OPTIMAL_FRAMES_MIN * FrameSize(p) \in Nat
  BY <1>2, A2dpSinkAssumption DEF A2dpSinkAssumption
<1>4. LATE_BYTES < OPTIMAL_FRAMES_MIN * FrameSize(p) /\ p \in AllPackets
  BY LateAssumption DEF LateAssumption, AllPackets
<1> QED
  BY <1>1, <1>2, <1>3, <1>4

\* The smaller of two numbers is one of them and above neither.
LEMMA SmallerFacts ==
  ASSUME NEW a \in Nat, NEW b \in Nat
  PROVE  /\ Smaller(a, b) \in Nat
         /\ Smaller(a, b) <= a
         /\ Smaller(a, b) <= b
         /\ Smaller(a, b) = a \/ Smaller(a, b) = b
BY DEF Smaller

-----------------------------------------------------------------------------
\* The initial states satisfy the invariant.
LEMMA InitInv == Init => Inv
<1> SUFFICES ASSUME Init PROVE Inv
  OBVIOUS
<1> USE A2dpSinkAssumption DEF A2dpSinkAssumption, Init, IdleEndpoint, NoMedia, NoConfiguration
<1>1. TypeOK
  BY RingBytesNat DEF TypeOK, MediaType, EndpointType, StreamStates
<1>2. EndpointInv /\ PlayerInv
  BY DEF EndpointInv, PlayerInv
<1>3. QueueInv /\ PlaybackInv
  BY DEF QueueInv, PlaybackInv
<1>4. WavInv /\ SinglePeerInv
  BY DEF WavInv, SinglePeerInv, CidNamesStream
<1>5. ConnectionInv /\ StartInv
  BY DEF ConnectionInv, StartInv
<1> QED
  BY <1>1, <1>2, <1>3, <1>4, <1>5 DEF Inv

-----------------------------------------------------------------------------
\* The player's operations keep its state within its type.
LEMMA PlayerTypes ==
  ASSUME NEW m \in MediaType, NEW c \in Configs \cup {NoConfig}, NEW ok \in BOOLEAN
  PROVE  /\ media_processing_init(m, c, ok) \in MediaType
         /\ media_processing_start(m, ok) \in MediaType
         /\ media_processing_pause(m) \in MediaType
         /\ media_processing_close(m) \in MediaType
<1>0. 0 \in 0..SbcRingBytes /\ 0 \in 0..PCM_FRAMES /\ 0 \in Nat
  BY RingBytesNat, A2dpSinkAssumption DEF A2dpSinkAssumption
<1> USE DEF MediaType
<1>1. media_processing_init(m, c, ok) \in MediaType
  <2>1. /\ AudioInit(m.audio, ok) \in {"closed", "ready", "running", "misused"}
        /\ WavOpen(m.wav) \in {"closed", "open", "misused"}
    BY DEF AudioInit, WavOpen
  <2> QED
    BY <1>0, <2>1 DEF media_processing_init
<1>2. media_processing_start(m, ok) \in MediaType
  BY DEF media_processing_start, AudioStart
<1>3. media_processing_pause(m) \in MediaType
  BY <1>0 DEF media_processing_pause, AudioStop
<1>4. media_processing_close(m) \in MediaType
  BY <1>0 DEF media_processing_close, WavClose, AudioClose
<1> QED
  BY <1>1, <1>2, <1>3, <1>4

-----------------------------------------------------------------------------
\* What the handler of a packet leaves alone, the ring, and what it sets: the packet
\* is behind the frames that wait if it fits, and the driver is started only when
\* the ring holds OPTIMAL_FRAMES_MIN frames of the packet's length.
LEMMA PacketPlayer ==
  ASSUME TypeOK, endpoint.media_cfg \in Configs, NEW p \in Packets[endpoint.media_cfg],
         NEW ok \in BOOLEAN
  PROVE  LET x == StartIfFilled(Compensate(Queue(media, p)), ok)
             fits == media.sbc_bytes + p.bytes <= SbcRingBytes
         IN  /\ x \in MediaType
             /\ x.media_initialized = media.media_initialized
             /\ x.cfg = media.cfg /\ x.wav = media.wav /\ x.pcm_frames = media.pcm_frames
             /\ x.sbc_frame_size = FrameSize(p)
             /\ x.sbc_bytes = IF fits THEN media.sbc_bytes + p.bytes ELSE media.sbc_bytes
             /\ x.sbc_frames = IF fits THEN Behind(media, p) ELSE media.sbc_frames
             /\ x.l2cap_stream_started <=> media.l2cap_stream_started \/ media.audio_stream_started
             /\ x.compensation = IF media.audio_stream_started /\ ~media.l2cap_stream_started
                                 THEN sbc_configuration.cfg ELSE media.compensation
             /\ \/ /\ x.audio_stream_started = media.audio_stream_started
                   /\ x.audio = media.audio
                \/ /\ media.media_initialized
                   /\ ~media.audio_stream_started
                   /\ x.audio_stream_started
                   /\ x.audio = AudioStart(media.audio, ok)
                   /\ x.sbc_bytes >= OPTIMAL_FRAMES_MIN * FrameSize(p)
             /\ media.media_initialized /\ ~x.audio_stream_started =>
                  ~(x.sbc_bytes >= OPTIMAL_FRAMES_MIN * FrameSize(p))
<1> DEFINE q == Queue(media, p)
           c == Compensate(q)
           x == StartIfFilled(c, ok)
           fits == media.sbc_bytes + p.bytes <= SbcRingBytes
<1>0. media \in MediaType /\ media.sbc_bytes \in Nat /\ media.sbc_bytes <= SbcRingBytes
      /\ media.sbc_frames \subseteq 1..SbcRingBytes /\ SbcRingBytes \in Nat
      /\ p.bytes \in Nat /\ p.ends \subseteq 1..p.bytes /\ FrameSize(p) \in Nat \ {0}
      /\ OPTIMAL_FRAMES_MIN \in Nat
  BY RingBytesNat, PacketFacts, A2dpSinkAssumption DEF TypeOK, MediaType, A2dpSinkAssumption
<1>1. fits => Behind(media, p) \subseteq 1..SbcRingBytes
  <2> SUFFICES ASSUME fits, NEW e \in p.ends PROVE media.sbc_bytes + e \in 1..SbcRingBytes
    BY <1>0 DEF Behind
  <2>1. e \in Nat /\ e >= 1 /\ e <= p.bytes
    BY <1>0
  <2> QED
    BY <1>0, <2>1
<1>2. /\ q = [media EXCEPT !.sbc_frame_size = q.sbc_frame_size, !.sbc_bytes = q.sbc_bytes,
                           !.sbc_frames = q.sbc_frames]
      /\ q.sbc_frame_size = FrameSize(p)
      /\ q.sbc_bytes = IF fits THEN media.sbc_bytes + p.bytes ELSE media.sbc_bytes
      /\ q.sbc_frames = IF fits THEN Behind(media, p) ELSE media.sbc_frames
  BY <1>0 DEF Queue, MediaType
<1>3. q.sbc_bytes \in 0..SbcRingBytes /\ q.sbc_frames \subseteq 1..SbcRingBytes
  BY <1>0, <1>1, <1>2
<1> HIDE DEF q, fits
<1>4. /\ q \in MediaType
      /\ q.media_initialized = media.media_initialized
      /\ q.audio_stream_started = media.audio_stream_started
      /\ q.l2cap_stream_started = media.l2cap_stream_started
      /\ q.cfg = media.cfg /\ q.wav = media.wav /\ q.pcm_frames = media.pcm_frames
      /\ q.audio = media.audio /\ q.compensation = media.compensation
  BY <1>0, <1>2, <1>3 DEF MediaType
<1>5. /\ c \in MediaType
      /\ c = [q EXCEPT !.l2cap_stream_started = c.l2cap_stream_started,
                       !.compensation = c.compensation]
      /\ c.l2cap_stream_started <=> media.l2cap_stream_started \/ media.audio_stream_started
      /\ c.compensation = IF media.audio_stream_started /\ ~media.l2cap_stream_started
                          THEN sbc_configuration.cfg ELSE media.compensation
  BY <1>4 DEF Compensate, MediaType, TypeOK
<1> HIDE DEF c
<1>6. /\ c.media_initialized = q.media_initialized
      /\ c.audio_stream_started = q.audio_stream_started
      /\ c.cfg = q.cfg /\ c.wav = q.wav /\ c.pcm_frames = q.pcm_frames
      /\ c.sbc_frame_size = q.sbc_frame_size /\ c.sbc_bytes = q.sbc_bytes
      /\ c.sbc_frames = q.sbc_frames /\ c.audio = q.audio
  BY <1>4, <1>5 DEF MediaType
<1>7. c.sbc_bytes \div c.sbc_frame_size >= OPTIMAL_FRAMES_MIN
        <=> c.sbc_bytes >= OPTIMAL_FRAMES_MIN * FrameSize(p)
  BY <1>0, <1>2, <1>3, <1>6, DivThreshold
<1>8. /\ x = [c EXCEPT !.audio = x.audio, !.audio_stream_started = x.audio_stream_started]
      /\ \/ x = c
         \/ /\ c.media_initialized /\ ~c.audio_stream_started
            /\ x.audio_stream_started
            /\ x.audio = AudioStart(c.audio, ok)
            /\ c.sbc_bytes >= OPTIMAL_FRAMES_MIN * FrameSize(p)
      /\ c.media_initialized /\ ~x.audio_stream_started =>
           ~(c.sbc_bytes >= OPTIMAL_FRAMES_MIN * FrameSize(p))
  BY <1>5, <1>7 DEF StartIfFilled, media_processing_start, MediaType
<1>9. x \in MediaType
  BY <1>5, PlayerTypes DEF StartIfFilled
<1> HIDE DEF x
<1>10. /\ x.media_initialized = c.media_initialized
       /\ x.cfg = c.cfg /\ x.wav = c.wav /\ x.pcm_frames = c.pcm_frames
       /\ x.sbc_frame_size = c.sbc_frame_size /\ x.sbc_bytes = c.sbc_bytes
       /\ x.sbc_frames = c.sbc_frames
       /\ x.l2cap_stream_started = c.l2cap_stream_started
       /\ x.compensation = c.compensation
  BY <1>5, <1>8 DEF MediaType
<1> QED
  BY <1>2, <1>4, <1>5, <1>6, <1>8, <1>9, <1>10 DEF x, c, q, fits

\* What a read leaves in the ring and takes from it.
LEMMA ReadFacts ==
  ASSUME TypeOK, ReadFrame
  PROVE  /\ media' \in MediaType /\ decoded' \in Nat
         /\ media'.media_initialized = media.media_initialized
         /\ media'.audio_stream_started = media.audio_stream_started
         /\ media'.l2cap_stream_started = media.l2cap_stream_started
         /\ media'.sbc_frame_size = media.sbc_frame_size
         /\ media'.sbc_bytes = media.sbc_bytes - media.sbc_frame_size
         /\ media'.sbc_frames = {e - media.sbc_frame_size : e \in media.sbc_frames \ FramesRead}
         /\ media'.pcm_frames = media.pcm_frames
         /\ media'.cfg = media.cfg /\ media'.compensation = media.compensation
         /\ media'.audio = media.audio /\ media'.wav = media.wav
<1> DEFINE s == media.sbc_frame_size
           rest == {e - s : e \in media.sbc_frames \ FramesRead}
<1>0. /\ media \in MediaType /\ media.sbc_bytes \in Nat /\ s \in Nat /\ media.sbc_bytes >= s
      /\ media.sbc_bytes <= SbcRingBytes /\ SbcRingBytes \in Nat
      /\ media.sbc_frames \subseteq 1..SbcRingBytes
  BY RingBytesNat DEF TypeOK, MediaType, ReadFrame, MoreToDecode
<1>1. rest \subseteq 1..SbcRingBytes
  <2> SUFFICES ASSUME NEW e \in media.sbc_frames, e \notin FramesRead PROVE e - s \in 1..SbcRingBytes
    OBVIOUS
  <2>1. e \in Nat /\ e <= SbcRingBytes /\ ~(e <= s)
    BY <1>0 DEF FramesRead
  <2> QED
    BY <1>0, <2>1
<1>2. media.sbc_bytes - s \in 0..SbcRingBytes
  BY <1>0
<1>3. decoded' \in Nat
  <2>1. IsFiniteSet(1..SbcRingBytes)
    BY <1>0, FS_Interval
  <2>2. FramesRead \in SUBSET (1..SbcRingBytes)
    BY <1>0 DEF FramesRead
  <2>3. IsFiniteSet(FramesRead)
    BY <2>1, <2>2, FS_Subset
  <2>4. Cardinality(FramesRead) \in Nat
    BY <2>3, FS_CardinalityType
  <2> QED
    BY <2>4 DEF ReadFrame
<1>4. media' = [media EXCEPT !.sbc_bytes = media.sbc_bytes - s, !.sbc_frames = rest]
  BY <1>0 DEF ReadFrame, MediaType
<1> HIDE DEF rest
<1> QED
  BY <1>0, <1>1, <1>2, <1>3, <1>4 DEF MediaType, rest

\* What the decoder's callback changes: the request and the PCM ring.
LEMMA PcmFacts ==
  ASSUME TypeOK, NEW r \in Resampled, handle_pcm_data(r)
  PROVE  LET rest == r - Smaller(r, request_frames)
         IN  /\ media' \in MediaType /\ decoded' \in Nat /\ request_frames' \in Nat
             /\ rest \in Nat
             /\ media' = [media EXCEPT !.pcm_frames = media'.pcm_frames]
             /\ media'.pcm_frames = IF media.pcm_frames + rest <= PCM_FRAMES
                                    THEN media.pcm_frames + rest ELSE media.pcm_frames
             /\ request_frames' > 0 => rest = 0
<1> DEFINE rest == r - Smaller(r, request_frames)
<1>0. /\ r \in Nat /\ PCM_FRAMES \in Nat /\ request_frames \in Nat /\ decoded \in Nat
      /\ media \in MediaType /\ media.pcm_frames \in 0..PCM_FRAMES
  BY A2dpSinkAssumption DEF A2dpSinkAssumption, TypeOK, MediaType
<1>1. rest \in Nat
  BY <1>0 DEF Smaller
<1>2. request_frames' \in Nat /\ decoded' \in Nat /\ (request_frames' > 0 => rest = 0)
  BY <1>0 DEF Smaller, handle_pcm_data
<1> HIDE DEF rest
<1>3. media' = [media EXCEPT !.pcm_frames = IF @ + rest <= PCM_FRAMES THEN @ + rest ELSE @]
  BY DEF handle_pcm_data, rest
<1>4. (IF media.pcm_frames + rest <= PCM_FRAMES THEN media.pcm_frames + rest
       ELSE media.pcm_frames) \in 0..PCM_FRAMES
  BY <1>0, <1>1
<1>5. media'.pcm_frames = IF media.pcm_frames + rest <= PCM_FRAMES THEN media.pcm_frames + rest
                          ELSE media.pcm_frames
  BY <1>0, <1>3 DEF MediaType
<1>6. media' = [media EXCEPT !.pcm_frames = media'.pcm_frames] /\ media' \in MediaType
  BY <1>0, <1>3, <1>4 DEF MediaType
<1> QED
  BY <1>1, <1>2, <1>5, <1>6 DEF rest

\* A packet arrives under the configuration its stream was last started with, and
\* on a suspended stream it is one of those under way.
LEMMA PacketArrives ==
  ASSUME TypeOK, EndpointInv, NEW p \in AllPackets, MediaPacket(p)
  PROVE  /\ endpoint.media_cfg \in Configs /\ p \in Packets[endpoint.media_cfg]
         /\ late_bytes' \in 0..LATE_BYTES /\ late_bytes \in Nat /\ p.bytes \in Nat
         /\ endpoint.state \in {"open", "streaming"} /\ UNCHANGED endpoint
         /\ endpoint.state = "open" => p.bytes <= late_bytes /\ late_bytes' = late_bytes - p.bytes
         /\ late_bytes' > 0 => late_bytes > 0
<1>1. late_bytes \in Nat /\ late_bytes <= LATE_BYTES /\ LATE_BYTES \in Nat
  BY A2dpSinkAssumption DEF TypeOK, A2dpSinkAssumption
<1>2. p.bytes \in Nat \ {0}
  BY PacketFacts DEF AllPackets
<1>3. endpoint.media_cfg \in Configs
  BY <1>1, <1>2 DEF MediaPacket, EndpointInv
<1> QED
  BY <1>1, <1>2, <1>3 DEF MediaPacket

\* Every step preserves the type invariant.
LEMMA NextTypeOK == TypeOK /\ EndpointInv /\ [Next]_vars => TypeOK'
<1> SUFFICES ASSUME TypeOK, EndpointInv, [Next]_vars PROVE TypeOK'
  OBVIOUS
<1> USE DEF TypeOK, app, console, playing, stack
<1>0. Outcomes \subseteq BOOLEAN
  BY DEF Outcomes
<1>1. CASE EstablishStream
  BY <1>1 DEF EstablishStream
<1>2. CASE Disconnect
  BY <1>2 DEF Disconnect
<1>3. ASSUME NEW p \in Peers, SignalingConnected(p) \/ AvrcpConnected(p) PROVE TypeOK'
  BY <1>3 DEF SignalingConnected, AvrcpConnected
<1>4. ASSUME NEW p \in Peers, NEW c \in Configs, SbcConfiguration(p, c) PROVE TypeOK'
  BY <1>4 DEF SbcConfiguration, EndpointType
<1>5. CASE StreamEstablished
  <2>1. endpoint.peer \in Peers
    BY <1>5 DEF StreamEstablished, EndpointInv
  <2> QED
    BY <1>5, <2>1 DEF StreamEstablished, EndpointType, StreamStates
<1>6. CASE StreamFailed
  BY <1>6 DEF StreamFailed, EndpointType, IdleEndpoint
<1>7. CASE StreamStarted
  <2> DEFINE m == Reconfigured(media)
  <2>1. PICK ok \in Outcomes : media' = media_processing_init(m, sbc_configuration.cfg, ok)
    BY <1>7 DEF StreamStarted
  <2>2. m \in MediaType /\ sbc_configuration.cfg \in Configs \cup {NoConfig}
    BY PlayerTypes DEF Reconfigured
  <2> HIDE DEF m
  <2>3. media' \in MediaType
    BY <1>0, <2>1, <2>2, PlayerTypes
  <2>4. endpoint' \in EndpointType
    BY <1>7 DEF StreamStarted, EndpointType
  <2>5. late_bytes' \in 0..LATE_BYTES
    BY <1>7, A2dpSinkAssumption DEF StreamStarted, A2dpSinkAssumption
  <2> QED
    BY <1>7, <2>3, <2>4, <2>5 DEF StreamStarted, StreamStates
<1>8. CASE StreamSuspended
  <2>1. media' \in MediaType
    BY <1>8, PlayerTypes DEF StreamSuspended
  <2>2. late_bytes' \in 0..LATE_BYTES
    BY <1>8, A2dpSinkAssumption DEF StreamSuspended, A2dpSinkAssumption
  <2> QED
    BY <1>8, <2>1, <2>2 DEF StreamSuspended, EndpointType, StreamStates
<1>9. CASE StreamReleased
  <2>1. media' \in MediaType
    BY <1>9, PlayerTypes DEF StreamReleased
  <2> QED
    BY <1>9, <2>1, A2dpSinkAssumption
       DEF StreamReleased, EndpointType, IdleEndpoint, StreamStates, A2dpSinkAssumption
<1>10. ASSUME NEW p \in Peers, SignalingReleased(p) PROVE TypeOK'
  <2>1. media' \in MediaType
    BY <1>10, PlayerTypes DEF SignalingReleased
  <2> QED
    BY <1>10, <2>1, A2dpSinkAssumption
       DEF SignalingReleased, EndpointType, IdleEndpoint, A2dpSinkAssumption
<1>11. ASSUME NEW p \in AllPackets, MediaPacket(p) PROVE TypeOK'
  <2>1. /\ endpoint.media_cfg \in Configs /\ p \in Packets[endpoint.media_cfg]
        /\ late_bytes' \in 0..LATE_BYTES
    BY <1>11, PacketArrives
  <2>2. media' \in MediaType
    <3>1. CASE HaveAudio
      BY <1>0, <1>11, <2>1, <3>1, PacketPlayer DEF MediaPacket
    <3>2. CASE ~HaveAudio
      BY <1>11, <3>2 DEF MediaPacket, MediaType, WavWrite
    <3> QED
      BY <3>1, <3>2
  <2> QED
    BY <1>11, <2>1, <2>2 DEF MediaPacket
<1>12. ASSUME NEW n \in Requests, PlaybackRequest(n) PROVE TypeOK'
  <2>0. n \in Nat /\ PCM_FRAMES \in Nat
    BY A2dpSinkAssumption DEF A2dpSinkAssumption
  <2>1. media.pcm_frames \in 0..PCM_FRAMES
    BY DEF MediaType
  <2>2. media.pcm_frames - FromPcmRing(n) \in 0..PCM_FRAMES
        /\ n - FromPcmRing(n) \in Nat
    BY <2>0, <2>1 DEF Smaller, FromPcmRing
  <2> QED
    BY <1>12, <2>2 DEF PlaybackRequest, MediaType
<1>13. ASSUME ReadFrame \/ \E r \in Resampled : handle_pcm_data(r) PROVE TypeOK'
  <2>1. CASE ReadFrame
    BY <2>1, ReadFacts DEF ReadFrame
  <2>2. ASSUME NEW r \in Resampled, handle_pcm_data(r) PROVE TypeOK'
    BY <2>2, PcmFacts DEF handle_pcm_data
  <2> QED
    BY <1>13, <2>1, <2>2
<1>14. CASE PlaybackReturn
  BY <1>14 DEF PlaybackReturn, MediaType, WavWrite
<1>15. CASE UNCHANGED vars
  BY <1>15 DEF vars
<1> QED
  BY <1>1, <1>2, <1>3, <1>4, <1>5, <1>6, <1>7, <1>8, <1>9, <1>10, <1>11, <1>12, <1>13, <1>14, <1>15
     DEF Next, A2dpEvent, Playback

-----------------------------------------------------------------------------
\* Every step preserves the agreement between endpoint and application.
LEMMA NextEndpointInv == TypeOK /\ EndpointInv /\ [Next]_vars => EndpointInv'
<1> SUFFICES ASSUME TypeOK, EndpointInv, [Next]_vars PROVE EndpointInv'
  OBVIOUS
<1> USE DEF EndpointInv, app, console, playing, stack
<1>1. CASE EstablishStream \/ Disconnect \/ \E p \in Peers : SignalingConnected(p) \/ AvrcpConnected(p)
  BY <1>1 DEF EstablishStream, Disconnect, AvrcpConnected, SignalingConnected
<1>2. ASSUME NEW p \in Peers, NEW c \in Configs, SbcConfiguration(p, c) PROVE EndpointInv'
  <2>1. late_bytes \in Nat /\ endpoint \in EndpointType
    BY A2dpSinkAssumption DEF TypeOK, A2dpSinkAssumption
  <2> QED
    BY <1>2, <2>1 DEF SbcConfiguration, EndpointType
<1>3. CASE StreamEstablished \/ StreamFailed
  BY <1>3 DEF StreamEstablished, StreamFailed, IdleEndpoint, TypeOK, EndpointType
<1>4. CASE StreamStarted
  BY <1>4 DEF StreamStarted, TypeOK, EndpointType
<1>5. CASE StreamSuspended
  BY <1>5 DEF StreamSuspended, TypeOK, EndpointType
<1>6. CASE StreamReleased
  BY <1>6 DEF StreamReleased, IdleEndpoint
<1>7. ASSUME NEW p \in Peers, SignalingReleased(p) PROVE EndpointInv'
  BY <1>7 DEF SignalingReleased, IdleEndpoint
<1>8. ASSUME NEW p \in AllPackets, MediaPacket(p) PROVE EndpointInv'
  BY <1>8, PacketArrives DEF MediaPacket
<1>9. CASE Playback
  BY <1>9 DEF Playback, PlaybackRequest, ReadFrame, handle_pcm_data, PlaybackReturn
<1>10. CASE UNCHANGED vars
  BY <1>10 DEF vars
<1> QED
  BY <1>1, <1>2, <1>3, <1>4, <1>5, <1>6, <1>7, <1>8, <1>9, <1>10 DEF Next, A2dpEvent

-----------------------------------------------------------------------------
\* What each operation makes of the flags and of the driver.
LEMMA InitPlayer ==
  ASSUME NEW m \in MediaType, NEW c, NEW ok \in BOOLEAN, ~m.media_initialized, m.audio = "closed"
  PROVE  LET i == media_processing_init(m, c, ok)
         IN  /\ i.media_initialized
             /\ ~i.audio_stream_started
             /\ i.l2cap_stream_started = m.l2cap_stream_started
             /\ i.cfg = c
             /\ i.audio \in {"closed", "ready"}
             /\ i.sbc_bytes = 0 /\ i.sbc_frames = {}
             /\ i.sbc_frame_size = m.sbc_frame_size
             /\ m.wav = "closed" => i.wav = "open"
BY DEF media_processing_init, AudioInit, WavOpen, MediaType

\* media_processing_close leaves player and driver closed, and the wav file if it
\* was open; a player that is closed it leaves alone.
LEMMA ClosePlayer ==
  ASSUME NEW m \in MediaType, ~m.media_initialized => m.audio = "closed", m.audio # "misused"
  PROVE  LET x == media_processing_close(m)
         IN  /\ ~x.media_initialized
             /\ m.media_initialized => ~x.audio_stream_started /\ ~x.l2cap_stream_started
             /\ ~m.media_initialized => x = m
             /\ x.audio = "closed"
             /\ x.sbc_bytes = m.sbc_bytes /\ x.sbc_frames = m.sbc_frames
             /\ x.sbc_frame_size \in {0, m.sbc_frame_size}
             /\ m.media_initialized /\ m.wav = "open" => x.wav = "closed"
BY DEF media_processing_close, AudioClose, WavClose, MediaType

\* media_processing_pause leaves the player open, stopped and empty.
LEMMA PausePlayer ==
  ASSUME NEW m \in MediaType, m.media_initialized
  PROVE  LET x == media_processing_pause(m)
         IN  /\ x.media_initialized
             /\ ~x.audio_stream_started /\ ~x.l2cap_stream_started
             /\ x.cfg = m.cfg /\ x.wav = m.wav
             /\ x.sbc_bytes = 0 /\ x.sbc_frames = {} /\ x.sbc_frame_size = m.sbc_frame_size
             /\ x.audio = IF m.audio = "running" THEN "ready" ELSE m.audio
BY DEF media_processing_pause, AudioStop, MediaType

\* After STREAM_STARTED the player is open and still, for the negotiated
\* configuration: it was already, or it has just been opened with an empty ring.
LEMMA StartedPlayer ==
  ASSUME TypeOK, EndpointInv, PlayerInv, StreamStarted
  PROVE  /\ media'.media_initialized
         /\ ~media'.audio_stream_started /\ ~media'.l2cap_stream_started
         /\ media'.cfg = endpoint.cfg
         /\ media'.audio \in {"closed", "ready"}
         /\ \/ media.media_initialized /\ media' = media
            \/ media'.sbc_bytes = 0 /\ media'.sbc_frames = {}
         /\ media'.sbc_frame_size \in {0, media.sbc_frame_size}
         /\ media.wav = (IF media.media_initialized THEN "open" ELSE "closed") => media'.wav = "open"
<1> DEFINE m == Reconfigured(media)
<1>0. /\ media \in MediaType
      /\ endpoint.state = "open"
      /\ sbc_configuration.cfg = endpoint.cfg
      /\ sbc_configuration.reconfigure \in BOOLEAN
      /\ Outcomes \subseteq BOOLEAN
  BY DEF TypeOK, EndpointInv, StreamStarted, Outcomes
<1>1. PICK ok \in Outcomes : media' = media_processing_init(m, sbc_configuration.cfg, ok)
  BY DEF StreamStarted
<1>2. ~media.audio_stream_started /\ ~media.l2cap_stream_started /\ media.audio # "running"
  BY <1>0 DEF PlayerInv
<1>3. media.audio \in {"closed", "ready"}
  BY <1>0, <1>2 DEF PlayerInv, MediaType
<1>4. CASE media.media_initialized /\ ~sbc_configuration.reconfigure
  <2>1. media' = media
    BY <1>1, <1>4 DEF media_processing_init, Reconfigured
  <2> QED
    BY <1>0, <1>2, <1>3, <1>4, <2>1 DEF PlayerInv
<1>5. CASE ~media.media_initialized \/ sbc_configuration.reconfigure
  <2>1. /\ m \in MediaType
        /\ ~m.media_initialized /\ m.audio = "closed" /\ ~m.l2cap_stream_started
        /\ m.sbc_frame_size \in {0, media.sbc_frame_size}
        /\ media.wav = (IF media.media_initialized THEN "open" ELSE "closed") => m.wav = "closed"
    BY <1>0, <1>2, <1>5, ClosePlayer, PlayerTypes DEF PlayerInv, Reconfigured
  <2> HIDE DEF m
  <2>2. ok \in BOOLEAN
    BY <1>0
  <2> QED
    BY <1>0, <1>1, <2>1, <2>2, InitPlayer
<1> QED
  BY <1>0, <1>4, <1>5

\* The packets that are under way on a suspended stream do not fill the queue.
LEMMA LatePacketsDoNotFill ==
  ASSUME TypeOK, EndpointInv, QueueInv, NEW p \in AllPackets, MediaPacket(p),
         media.media_initialized, endpoint.state = "open"
  PROVE  ~(media.sbc_bytes + p.bytes >= OPTIMAL_FRAMES_MIN * FrameSize(p))
<1>1. /\ media.sbc_bytes + late_bytes <= LATE_BYTES /\ p.bytes <= late_bytes
      /\ endpoint.media_cfg \in Configs /\ p \in Packets[endpoint.media_cfg]
      /\ late_bytes \in Nat /\ p.bytes \in Nat
  BY PacketArrives DEF QueueInv
<1>2. media.sbc_bytes \in Nat /\ LATE_BYTES \in Nat
  BY RingBytesNat, A2dpSinkAssumption DEF A2dpSinkAssumption, TypeOK, MediaType
<1>3. LATE_BYTES < OPTIMAL_FRAMES_MIN * FrameSize(p) /\ OPTIMAL_FRAMES_MIN * FrameSize(p) \in Nat
  BY <1>1, PacketFacts
<1> HIDE DEF FrameSize
<1> QED
  BY <1>1, <1>2, <1>3

\* Every step preserves the invariant of the player.
LEMMA NextPlayerInv == Inv /\ [Next]_vars => PlayerInv'
<1> SUFFICES ASSUME Inv, [Next]_vars PROVE PlayerInv'
  OBVIOUS
<1> USE DEF Inv, app, console, playing, stack
<1>0. media \in MediaType /\ endpoint \in EndpointType /\ Outcomes \subseteq BOOLEAN
  BY DEF TypeOK, Outcomes
<1>1. CASE EstablishStream \/ Disconnect \/ \E p \in Peers : SignalingConnected(p) \/ AvrcpConnected(p)
  BY <1>1 DEF EstablishStream, Disconnect, AvrcpConnected, SignalingConnected, PlayerInv
<1>2. ASSUME NEW p \in Peers, NEW c \in Configs, SbcConfiguration(p, c) PROVE PlayerInv'
  BY <1>0, <1>2 DEF SbcConfiguration, PlayerInv, EndpointType
<1>3. CASE StreamEstablished \/ StreamFailed
  BY <1>0, <1>3 DEF StreamEstablished, StreamFailed, PlayerInv, EndpointType
<1>4. CASE StreamStarted
  <2>1. /\ sbc_configuration' = sbc_configuration
        /\ endpoint'.state = "streaming" /\ endpoint'.media_cfg = endpoint.cfg
        /\ endpoint.cfg \in Configs /\ sbc_configuration.cfg = endpoint.cfg
    BY <1>0, <1>4 DEF StreamStarted, EndpointType, EndpointInv
  <2> QED
    BY <1>4, <2>1, StartedPlayer DEF PlayerInv
<1>5. CASE StreamSuspended
  <2>1. /\ sbc_configuration' = sbc_configuration
        /\ endpoint'.state = "open" /\ endpoint'.media_cfg = endpoint.media_cfg
        /\ media' = media_processing_pause(media)
    BY <1>0, <1>5 DEF StreamSuspended, EndpointType
  <2>2. CASE media.media_initialized
    BY <1>0, <2>1, <2>2, PausePlayer DEF PlayerInv, MediaType
  <2>3. CASE ~media.media_initialized
    BY <2>1, <2>3 DEF PlayerInv, media_processing_pause
  <2> QED
    BY <2>2, <2>3
<1>6. ASSUME media' = media_processing_close(media) PROVE PlayerInv'
  BY <1>0, <1>6, ClosePlayer DEF PlayerInv
<1>7. CASE StreamReleased \/ \E p \in Peers : SignalingReleased(p)
  BY <1>6, <1>7 DEF StreamReleased, SignalingReleased
<1>8. ASSUME NEW p \in AllPackets, MediaPacket(p) PROVE PlayerInv'
  <2>1. /\ endpoint.media_cfg \in Configs /\ p \in Packets[endpoint.media_cfg]
        /\ UNCHANGED <<sbc_configuration, endpoint>> /\ endpoint.state \in {"open", "streaming"}
    BY <1>8, PacketArrives DEF MediaPacket
  <2>2. CASE ~HaveAudio
    <3>1. media' = [media EXCEPT !.wav = WavWrite(@)]
      BY <1>8, <2>2 DEF MediaPacket
    <3> QED
      BY <1>0, <2>1, <3>1 DEF PlayerInv, MediaType
  <2>3. CASE HaveAudio
    <3>1. PICK ok \in BOOLEAN : media' = StartIfFilled(Compensate(Queue(media, p)), ok)
      BY <1>0, <1>8, <2>3 DEF MediaPacket
    <3>2. media.audio_stream_started => sbc_configuration.cfg = media.cfg
      BY DEF PlayerInv, EndpointInv
    <3>3. CASE /\ media'.audio_stream_started = media.audio_stream_started
               /\ media'.audio = media.audio
      BY <2>1, <3>1, <3>2, <3>3, PacketPlayer DEF PlayerInv
    <3>4. CASE /\ media.media_initialized
               /\ ~media.audio_stream_started
               /\ media'.audio_stream_started
               /\ media'.audio = AudioStart(media.audio, ok)
               /\ media'.sbc_bytes >= OPTIMAL_FRAMES_MIN * FrameSize(p)
      <4>1. endpoint.state # "open"
        <5> SUFFICES ASSUME endpoint.state = "open" PROVE FALSE
          OBVIOUS
        <5>1. ~(media.sbc_bytes + p.bytes >= OPTIMAL_FRAMES_MIN * FrameSize(p))
          BY <1>8, <3>4, LatePacketsDoNotFill
        <5>2. /\ media'.sbc_bytes = media.sbc_bytes + p.bytes \/ media'.sbc_bytes = media.sbc_bytes
              /\ media.sbc_bytes \in Nat /\ p.bytes \in Nat
              /\ OPTIMAL_FRAMES_MIN * FrameSize(p) \in Nat
          BY <1>0, <2>1, <3>1, PacketPlayer, PacketFacts, RingBytesNat DEF MediaType
        <5> QED
          BY <3>4, <5>1, <5>2
      <4>2. endpoint.state = "streaming"
        BY <2>1, <4>1
      <4>3. media'.audio \in {"closed", "ready", "running"}
        BY <1>0, <3>4 DEF PlayerInv, AudioStart, MediaType
      <4> QED
        BY <2>1, <3>1, <3>2, <3>4, <4>2, <4>3, PacketPlayer DEF PlayerInv
    <3> QED
      BY <2>1, <3>1, <3>3, <3>4, PacketPlayer
  <2> QED
    BY <2>2, <2>3
<1>9. CASE Playback
  <2>1. CASE ReadFrame
    BY <2>1, ReadFacts DEF ReadFrame, PlayerInv
  <2>2. ASSUME ~ReadFrame PROVE PlayerInv'
    BY <1>0, <1>9, <2>2 DEF Playback, PlaybackRequest, handle_pcm_data, PlaybackReturn,
                            PlayerInv, MediaType
  <2> QED
    BY <2>1, <2>2
<1>10. CASE UNCHANGED vars
  BY <1>10 DEF vars, PlayerInv
<1> QED
  BY <1>1, <1>2, <1>3, <1>4, <1>5, <1>7, <1>8, <1>9, <1>10 DEF Next, A2dpEvent

-----------------------------------------------------------------------------
\* Every step preserves the invariant of the queue.
LEMMA NextQueueInv == Inv /\ [Next]_vars => QueueInv'
<1> SUFFICES ASSUME Inv, [Next]_vars PROVE QueueInv'
  OBVIOUS
<1> USE DEF Inv, app, console, playing, stack
<1>0. /\ media \in MediaType /\ endpoint \in EndpointType /\ Outcomes \subseteq BOOLEAN
      /\ media.sbc_bytes \in Nat /\ media.sbc_frame_size \in Nat
      /\ media.sbc_frames \subseteq 1..media.sbc_bytes
      /\ late_bytes \in Nat /\ late_bytes <= LATE_BYTES /\ LATE_BYTES \in Nat
  <2>1. /\ media \in MediaType /\ endpoint \in EndpointType /\ Outcomes \subseteq BOOLEAN
        /\ media.sbc_frames \subseteq 1..media.sbc_bytes
    BY DEF TypeOK, Outcomes, QueueInv
  <2>2. media.sbc_bytes \in Nat /\ media.sbc_frame_size \in Nat
    BY <2>1, RingBytesNat DEF MediaType
  <2>3. late_bytes \in Nat /\ late_bytes <= LATE_BYTES /\ LATE_BYTES \in Nat
    BY A2dpSinkAssumption DEF TypeOK, A2dpSinkAssumption
  <2> QED
    BY <2>1, <2>2, <2>3
<1>1. CASE EstablishStream \/ Disconnect \/ \E p \in Peers : SignalingConnected(p) \/ AvrcpConnected(p)
  BY <1>1 DEF EstablishStream, Disconnect, AvrcpConnected, SignalingConnected, QueueInv
<1>2. ASSUME NEW p \in Peers, NEW c \in Configs, SbcConfiguration(p, c) PROVE QueueInv'
  BY <1>0, <1>2 DEF SbcConfiguration, QueueInv, EndpointType, PlayerInv
<1>3. CASE StreamEstablished \/ StreamFailed
  BY <1>3 DEF StreamEstablished, StreamFailed, PlayerInv, QueueInv
<1>4. ASSUME media'.sbc_bytes = 0, media'.sbc_frames = {}, media'.audio # "running",
             media'.sbc_frame_size \in {0, media.sbc_frame_size}, late_bytes' \in 0..LATE_BYTES
      PROVE  QueueInv'
  <2>1. media'.sbc_bytes + late_bytes' <= LATE_BYTES /\ ~(media'.sbc_bytes > 0)
    <3>1. \A l \in 0..LATE_BYTES : 0 + l <= LATE_BYTES
      BY <1>0
    <3> QED
      BY <1>4, <3>1
  <2>2. media'.sbc_frame_size > 0 => \E p \in AllPackets : media'.sbc_frame_size = FrameSize(p)
    BY <1>0, <1>4 DEF QueueInv
  <2> QED
    BY <1>4, <2>1, <2>2 DEF QueueInv
<1>5. CASE StreamStarted
  <2>1. endpoint'.state = "streaming" /\ late_bytes' \in 0..LATE_BYTES
    BY <1>0, <1>5 DEF StreamStarted, EndpointType
  <2>2. CASE media.media_initialized /\ media' = media
    BY <1>5, <2>1, <2>2 DEF QueueInv
  <2>3. CASE media'.sbc_bytes = 0 /\ media'.sbc_frames = {}
    BY <1>4, <1>5, <2>1, <2>3, StartedPlayer
  <2> QED
    BY <1>5, <2>2, <2>3, StartedPlayer
<1>6. CASE StreamSuspended
  <2>1. media' = media_processing_pause(media) /\ late_bytes' \in 0..LATE_BYTES
    BY <1>0, <1>6 DEF StreamSuspended
  <2>2. CASE media.media_initialized
    BY <1>0, <1>4, <2>1, <2>2, PausePlayer DEF PlayerInv
  <2>3. CASE ~media.media_initialized
    BY <2>1, <2>3 DEF media_processing_pause, PlayerInv, QueueInv
  <2> QED
    BY <2>2, <2>3
<1>7. ASSUME media' = media_processing_close(media) PROVE QueueInv'
  BY <1>0, <1>7, ClosePlayer DEF PlayerInv, QueueInv
<1>8. CASE StreamReleased \/ \E p \in Peers : SignalingReleased(p)
  BY <1>7, <1>8 DEF StreamReleased, SignalingReleased
<1>9. ASSUME NEW p \in AllPackets, MediaPacket(p) PROVE QueueInv'
  <2>1. /\ endpoint.media_cfg \in Configs /\ p \in Packets[endpoint.media_cfg]
        /\ UNCHANGED <<sbc_configuration, endpoint>>
        /\ late_bytes' \in 0..LATE_BYTES /\ endpoint.state \in {"open", "streaming"}
        /\ endpoint.state = "open" => late_bytes' = late_bytes - p.bytes /\ p.bytes <= late_bytes
    BY <1>9, PacketArrives DEF MediaPacket
  <2>2. /\ p.bytes \in Nat \ {0} /\ p.ends \subseteq 1..p.bytes /\ p.bytes \in p.ends
        /\ FrameSize(p) \in Nat \ {0}
    BY <2>1, PacketFacts
  <2>3. CASE ~HaveAudio
    <3>1. media' = [media EXCEPT !.wav = WavWrite(@)]
      BY <1>9, <2>3 DEF MediaPacket
    <3>2. /\ media'.media_initialized = media.media_initialized
          /\ media'.sbc_bytes = media.sbc_bytes /\ media'.sbc_frames = media.sbc_frames
          /\ media'.sbc_frame_size = media.sbc_frame_size /\ media'.audio = media.audio
      BY <1>0, <3>1 DEF MediaType
    <3> QED
      BY <1>0, <2>1, <2>2, <3>2 DEF QueueInv
  <2>4. CASE HaveAudio
    <3> DEFINE fits == media.sbc_bytes + p.bytes <= SbcRingBytes
    <3>1. PICK ok \in BOOLEAN : media' = StartIfFilled(Compensate(Queue(media, p)), ok)
      BY <1>0, <1>9, <2>4 DEF MediaPacket
    <3>2. /\ media'.media_initialized = media.media_initialized
          /\ media'.sbc_frame_size = FrameSize(p)
          /\ media'.sbc_bytes = IF fits THEN media.sbc_bytes + p.bytes ELSE media.sbc_bytes
          /\ media'.sbc_frames = IF fits THEN Behind(media, p) ELSE media.sbc_frames
      BY <2>1, <3>1, PacketPlayer
    <3> HIDE DEF fits
    <3>3. media'.sbc_frames \subseteq 1..media'.sbc_bytes
      <4>1. \A e \in p.ends : media.sbc_bytes + e \in 1..(media.sbc_bytes + p.bytes)
        BY <1>0, <2>2
      <4>2. \A e \in media.sbc_frames : e \in 1..(media.sbc_bytes + p.bytes)
        BY <1>0, <2>2
      <4>3. Behind(media, p) \subseteq 1..(media.sbc_bytes + p.bytes)
        BY <4>1, <4>2 DEF Behind
      <4> QED
        BY <1>0, <3>2, <4>3
    <3>4. media'.sbc_bytes > 0 => media'.sbc_bytes \in media'.sbc_frames
      BY <1>0, <2>2, <3>2 DEF QueueInv, Behind
    <3>5. media.media_initialized /\ endpoint.state = "open" =>
            media'.sbc_bytes + late_bytes' <= LATE_BYTES
      BY <1>0, <2>1, <2>2, <3>2 DEF QueueInv
    <3>6. media'.sbc_frame_size > 0 /\ \E x \in AllPackets : media'.sbc_frame_size = FrameSize(x)
      BY <2>2, <3>2
    <3> QED
      BY <2>1, <3>2, <3>3, <3>4, <3>5, <3>6 DEF QueueInv
  <2> QED
    BY <2>3, <2>4
<1>10. ASSUME PlaybackReturn \/ (\E n \in Requests : PlaybackRequest(n))
                \/ (\E r \in Resampled : handle_pcm_data(r))
       PROVE  QueueInv'
  <2>1. /\ media'.media_initialized = media.media_initialized
        /\ media'.sbc_bytes = media.sbc_bytes /\ media'.sbc_frames = media.sbc_frames
        /\ media'.sbc_frame_size = media.sbc_frame_size /\ media'.audio = media.audio
    BY <1>0, <1>10 DEF PlaybackReturn, PlaybackRequest, handle_pcm_data, MediaType
  <2>2. UNCHANGED <<endpoint, late_bytes>>
    BY <1>10 DEF PlaybackReturn, PlaybackRequest, handle_pcm_data
  <2> QED
    BY <2>1, <2>2 DEF QueueInv
<1>11. CASE ReadFrame
  <2> DEFINE s == media.sbc_frame_size
  <2>1. /\ media.sbc_bytes >= s /\ UNCHANGED <<endpoint, late_bytes>> /\ pc = "playback"
        /\ media'.media_initialized = media.media_initialized
        /\ media'.sbc_bytes = media.sbc_bytes - s
        /\ media'.sbc_frames = {e - s : e \in media.sbc_frames \ FramesRead}
        /\ media'.sbc_frame_size = s /\ media'.audio = media.audio
    BY <1>11, ReadFacts DEF ReadFrame, MoreToDecode
  <2>2. endpoint.state = "streaming"
    BY <2>1 DEF PlaybackInv, PlayerInv
  <2>3. \A e \in media.sbc_frames \ FramesRead : e - s \in 1..(media.sbc_bytes - s)
    BY <1>0, <2>1 DEF FramesRead
  <2>4. media'.sbc_bytes > 0 => media'.sbc_bytes \in media'.sbc_frames
    <3> SUFFICES ASSUME media'.sbc_bytes > 0
                 PROVE  media.sbc_bytes \in media.sbc_frames \ FramesRead
      BY <2>1
    <3> QED
      BY <1>0, <2>1 DEF QueueInv, FramesRead
  <2>5. media'.sbc_frames \subseteq 1..media'.sbc_bytes
    BY <2>1, <2>3
  <2>6. media.sbc_bytes > 0 \/ media'.sbc_bytes = 0
    BY <1>0, <2>1
  <2>7. media'.media_initialized /\ media'.sbc_bytes > 0 => media'.sbc_frame_size > 0
    BY <1>0, <2>1, <2>6 DEF QueueInv
  <2> QED
    BY <2>1, <2>2, <2>4, <2>5, <2>7 DEF QueueInv
<1>12. CASE UNCHANGED vars
  BY <1>12 DEF vars, QueueInv
<1> QED
  BY <1>1, <1>2, <1>3, <1>5, <1>6, <1>8, <1>9, <1>10, <1>11, <1>12 DEF Next, A2dpEvent, Playback

-----------------------------------------------------------------------------
\* Every step preserves the order of samples while a request is filled.
LEMMA NextPlaybackInv == Inv /\ [Next]_vars => PlaybackInv'
<1> SUFFICES ASSUME Inv, [Next]_vars PROVE PlaybackInv'
  OBVIOUS
<1> USE DEF Inv, app, console, playing, stack
<1>0. /\ media \in MediaType /\ request_frames \in Nat
      /\ media.pcm_frames \in Nat /\ media.pcm_frames <= PCM_FRAMES /\ PCM_FRAMES \in Nat
  <2>1. media \in MediaType /\ request_frames \in Nat
    BY DEF TypeOK
  <2> QED
    BY <2>1, A2dpSinkAssumption DEF MediaType, A2dpSinkAssumption
<1>1. ASSUME pc' = pc, pc = "run_loop", decoded' = decoded PROVE PlaybackInv'
  BY <1>1 DEF PlaybackInv
<1>2. CASE EstablishStream \/ Disconnect \/ \E p \in Peers : SignalingConnected(p) \/ AvrcpConnected(p)
  BY <1>1, <1>2 DEF EstablishStream, Disconnect, AvrcpConnected, SignalingConnected
<1>3. CASE A2dpEvent
  BY <1>1, <1>3 DEF A2dpEvent, SbcConfiguration, StreamEstablished, StreamFailed, StreamStarted,
                    StreamSuspended, StreamReleased, SignalingReleased
<1>4. CASE \E p \in AllPackets : MediaPacket(p)
  BY <1>1, <1>4 DEF MediaPacket
<1>5. ASSUME NEW n \in Requests, PlaybackRequest(n) PROVE PlaybackInv'
  <2>1. n \in Nat
    BY A2dpSinkAssumption DEF A2dpSinkAssumption
  <2>2. /\ media'.audio = "running"
        /\ media'.pcm_frames = media.pcm_frames - FromPcmRing(n)
        /\ request_frames' = n - FromPcmRing(n)
    BY <1>0, <1>5 DEF PlaybackRequest, MediaType
  <2>3. n - FromPcmRing(n) > 0 =>
          media.pcm_frames - FromPcmRing(n) = 0
    BY <1>0, <2>1 DEF Smaller, FromPcmRing
  <2> QED
    BY <1>5, <2>2, <2>3 DEF PlaybackInv, PlaybackRequest
<1>6. CASE ReadFrame
  BY <1>6, ReadFacts DEF ReadFrame, PlaybackInv
<1>7. ASSUME NEW r \in Resampled, handle_pcm_data(r) PROVE PlaybackInv'
  <2> DEFINE rest == r - Smaller(r, request_frames)
  <2>1. /\ rest \in Nat /\ (request_frames' > 0 => rest = 0)
        /\ media' = [media EXCEPT !.pcm_frames = media'.pcm_frames]
        /\ media'.pcm_frames = IF media.pcm_frames + rest <= PCM_FRAMES
                               THEN media.pcm_frames + rest ELSE media.pcm_frames
    BY <1>7, PcmFacts
  <2>2. /\ media.audio = "running" /\ pc' = pc /\ pc # "run_loop"
        /\ request_frames > 0 => media.pcm_frames = 0
    BY <1>7 DEF handle_pcm_data, PlaybackInv
  <2>3. media'.audio = "running"
    BY <1>0, <2>1, <2>2 DEF MediaType
  <2> HIDE DEF rest
  <2>4. request_frames' > 0 => request_frames > 0
    <3>1. r \in Nat
      BY A2dpSinkAssumption DEF A2dpSinkAssumption
    <3> QED
      BY <1>0, <1>7, <3>1 DEF handle_pcm_data, Smaller
  <2>5. request_frames' > 0 => media'.pcm_frames = 0
    BY <1>0, <2>1, <2>2, <2>4
  <2> QED
    BY <2>2, <2>3, <2>5 DEF PlaybackInv
<1>9. CASE PlaybackReturn
  BY <1>9 DEF PlaybackReturn, PlaybackInv
<1>8. CASE UNCHANGED vars
  BY <1>8 DEF vars, PlaybackInv
<1> QED
  BY <1>2, <1>3, <1>4, <1>5, <1>6, <1>7, <1>8, <1>9 DEF Next, Playback

-----------------------------------------------------------------------------
\* Every step preserves the invariant of the wav file.
LEMMA NextWavInv == Inv /\ [Next]_vars => WavInv'
<1> SUFFICES ASSUME Inv, [Next]_vars, HaveAudio \/ SinglePeer
             PROVE  media'.wav = IF media'.media_initialized THEN "open" ELSE "closed"
  BY DEF WavInv, SinglePeer
<1> USE DEF Inv, app, console, playing, stack
<1>0. /\ media \in MediaType /\ Outcomes \subseteq BOOLEAN
      /\ media.wav = IF media.media_initialized THEN "open" ELSE "closed"
  BY DEF TypeOK, Outcomes, WavInv
<1>1. CASE UNCHANGED media
  BY <1>0, <1>1
<1>2. CASE StreamStarted
  BY <1>0, <1>2, StartedPlayer
<1>3. CASE StreamSuspended
  <2>1. CASE media.media_initialized
    BY <1>0, <1>3, <2>1, PausePlayer DEF StreamSuspended
  <2>2. CASE ~media.media_initialized
    BY <1>0, <1>3, <2>2 DEF StreamSuspended, media_processing_pause
  <2> QED
    BY <2>1, <2>2
<1>4. CASE StreamReleased \/ \E p \in Peers : SignalingReleased(p)
  <2>1. media' = media_processing_close(media)
    BY <1>4 DEF StreamReleased, SignalingReleased
  <2> QED
    BY <1>0, <2>1, ClosePlayer DEF PlayerInv
<1>5. ASSUME NEW p \in AllPackets, MediaPacket(p)
      PROVE  media'.wav = IF media'.media_initialized THEN "open" ELSE "closed"
  <2>1. /\ endpoint.media_cfg \in Configs /\ p \in Packets[endpoint.media_cfg]
        /\ SinglePeer => media.media_initialized
    <3>1. /\ endpoint.media_cfg \in Configs /\ p \in Packets[endpoint.media_cfg]
          /\ endpoint.state = "open" => late_bytes > 0
          /\ endpoint.state \in {"open", "streaming"}
      <4>1. p.bytes \in Nat \ {0}
        BY <1>5, PacketArrives, PacketFacts
      <4> QED
        BY <1>5, <4>1, PacketArrives
    <3> QED
      BY <3>1 DEF SinglePeerInv
  <2>2. CASE HaveAudio
    BY <1>0, <1>5, <2>1, <2>2, PacketPlayer DEF MediaPacket
  <2>3. CASE ~HaveAudio
    BY <1>0, <1>5, <2>1, <2>3 DEF MediaPacket, WavWrite, MediaType
  <2> QED
    BY <2>2, <2>3
<1>6. CASE Playback
  <2>1. CASE PlaybackReturn
    BY <1>0, <2>1 DEF PlaybackReturn, WavWrite, MediaType, PlaybackInv, PlayerInv
  <2>2. ASSUME NEW n \in Requests, PlaybackRequest(n)
        PROVE  media'.wav = IF media'.media_initialized THEN "open" ELSE "closed"
    BY <1>0, <2>2 DEF PlaybackRequest, MediaType
  <2>3. ASSUME ReadFrame \/ \E r \in Resampled : handle_pcm_data(r)
        PROVE  media'.wav = IF media'.media_initialized THEN "open" ELSE "closed"
    <3>1. media'.wav = media.wav /\ media'.media_initialized = media.media_initialized
      BY <1>0, <2>3, ReadFacts DEF handle_pcm_data, MediaType
    <3> QED
      BY <1>0, <3>1
  <2> QED
    BY <1>6, <2>1, <2>2, <2>3 DEF Playback
<1>7. CASE \/ EstablishStream \/ Disconnect
           \/ \E p \in Peers : SignalingConnected(p) \/ AvrcpConnected(p)
           \/ \E p \in Peers, c \in Configs : SbcConfiguration(p, c)
           \/ StreamEstablished \/ StreamFailed \/ UNCHANGED vars
  BY <1>1, <1>7 DEF EstablishStream, Disconnect, AvrcpConnected, SignalingConnected, SbcConfiguration,
                    StreamEstablished, StreamFailed, vars
<1> QED
  BY <1>2, <1>3, <1>4, <1>5, <1>6, <1>7 DEF Next, A2dpEvent

-----------------------------------------------------------------------------
\* With one peer, every step keeps the player open for its stream and a2dp_cid
\* on its connection.
LEMMA NextSinglePeerInv == Inv /\ [Next]_vars => SinglePeerInv'
<1> SUFFICES ASSUME Inv, [Next]_vars, SinglePeer
             PROVE  /\ (endpoint.state = "streaming" \/ late_bytes > 0 => media.media_initialized)'
                    /\ CidNamesStream'
  BY DEF SinglePeerInv, SinglePeer
<1> DEFINE Goal == /\ (endpoint.state = "streaming" \/ late_bytes > 0 => media.media_initialized)'
                   /\ CidNamesStream'
<1> USE DEF Inv, app, console, playing, stack, CidNamesStream
<1>0. /\ media \in MediaType /\ endpoint \in EndpointType /\ device_addr \in Peers
      /\ late_bytes \in Nat /\ late_bytes <= LATE_BYTES
      /\ endpoint.state = "streaming" \/ late_bytes > 0 => media.media_initialized
      /\ endpoint.state \in {"open", "streaming"} => a2dp_cid = endpoint.peer /\ endpoint.peer \in Peers
      /\ endpoint.state # "idle" => endpoint.peer \in Peers
      /\ late_bytes > 0 => endpoint.state = "open"
  BY A2dpSinkAssumption DEF TypeOK, A2dpSinkAssumption, SinglePeerInv, EndpointInv
<1>1. CASE EstablishStream
  BY <1>0, <1>1 DEF EstablishStream, SinglePeer
<1>2. CASE Disconnect \/ \E p \in Peers : SignalingConnected(p) \/ AvrcpConnected(p)
  BY <1>0, <1>2 DEF Disconnect, SignalingConnected, AvrcpConnected
<1>3. ASSUME NEW p \in Peers, NEW c \in Configs, SbcConfiguration(p, c) PROVE Goal
  BY <1>0, <1>3 DEF SbcConfiguration, EndpointType
<1>4. CASE StreamEstablished \/ StreamFailed
  BY <1>0, <1>4 DEF StreamEstablished, StreamFailed, EndpointType, IdleEndpoint
<1>5. CASE StreamStarted
  <2>1. media'.media_initialized
    BY <1>5, StartedPlayer
  <2> QED
    BY <1>0, <1>5, <2>1 DEF StreamStarted, EndpointType
<1>6. CASE StreamSuspended
  <2>1. media.media_initialized /\ endpoint.state = "streaming"
    BY <1>0, <1>6 DEF StreamSuspended
  <2>2. media'.media_initialized
    BY <1>0, <1>6, <2>1, PausePlayer DEF StreamSuspended
  <2> QED
    BY <1>0, <1>6, <2>1, <2>2 DEF StreamSuspended, EndpointType
<1>7. CASE StreamReleased
  BY <1>7 DEF StreamReleased, IdleEndpoint
<1>8. ASSUME NEW p \in Peers, SignalingReleased(p) PROVE Goal
  <2>1. CASE endpoint.peer = p
    BY <1>8, <2>1 DEF SignalingReleased, IdleEndpoint
  <2>2. CASE endpoint.peer # p
    <3>1. endpoint.state = "idle"
      BY <1>0, <2>2 DEF SinglePeer
    <3>2. UNCHANGED <<endpoint, late_bytes>>
      BY <1>8, <2>2 DEF SignalingReleased
    <3> QED
      BY <1>0, <3>1, <3>2
  <2> QED
    BY <2>1, <2>2
<1>9. ASSUME NEW p \in AllPackets, MediaPacket(p) PROVE Goal
  <2>1. /\ endpoint.media_cfg \in Configs /\ p \in Packets[endpoint.media_cfg]
        /\ UNCHANGED <<endpoint, a2dp_cid>> /\ (late_bytes' > 0 => late_bytes > 0)
    BY <1>9, PacketArrives DEF MediaPacket
  <2>2. media'.media_initialized = media.media_initialized
    <3>1. CASE HaveAudio
      <4>1. PICK ok \in BOOLEAN : media' = StartIfFilled(Compensate(Queue(media, p)), ok)
        BY <1>9, <3>1 DEF MediaPacket, Outcomes
      <4> QED
        BY <2>1, <4>1, PacketPlayer
    <3>2. CASE ~HaveAudio
      BY <1>0, <1>9, <3>2 DEF MediaPacket, MediaType
    <3> QED
      BY <3>1, <3>2
  <2> QED
    BY <1>0, <2>1, <2>2
<1>10. CASE Playback
  <2>1. media'.media_initialized = media.media_initialized
    BY <1>0, <1>10, ReadFacts DEF Playback, PlaybackRequest, handle_pcm_data, PlaybackReturn, MediaType
  <2>2. UNCHANGED <<endpoint, a2dp_cid, late_bytes>>
    BY <1>10 DEF Playback, PlaybackRequest, ReadFrame, handle_pcm_data, PlaybackReturn
  <2> QED
    BY <1>0, <2>1, <2>2
<1>11. CASE UNCHANGED vars
  BY <1>0, <1>11 DEF vars
<1> QED
  BY <1>1, <1>2, <1>3, <1>4, <1>5, <1>6, <1>7, <1>8, <1>9, <1>10, <1>11 DEF Next, A2dpEvent

-----------------------------------------------------------------------------
\* Every step keeps the stream, and the disconnections under way, with peers that
\* are connected.
LEMMA NextConnectionInv == Inv /\ [Next]_vars => ConnectionInv'
<1> SUFFICES ASSUME Inv, [Next]_vars PROVE ConnectionInv'
  OBVIOUS
<1> USE DEF ConnectionInv, app, console, playing, stack
<1>0. endpoint \in EndpointType /\ ConnectionInv
  BY DEF Inv, TypeOK
<1>1. CASE EstablishStream \/ Disconnect
  BY <1>0, <1>1 DEF EstablishStream, Disconnect
<1>2. ASSUME NEW p \in Peers, SignalingConnected(p) \/ AvrcpConnected(p) PROVE ConnectionInv'
  BY <1>0, <1>2 DEF SignalingConnected, AvrcpConnected
<1>3. ASSUME NEW p \in Peers, NEW c \in Configs, SbcConfiguration(p, c) PROVE ConnectionInv'
  BY <1>0, <1>3 DEF SbcConfiguration, EndpointType
<1>4. CASE StreamEstablished \/ StreamStarted \/ StreamSuspended
  BY <1>0, <1>4 DEF StreamEstablished, StreamStarted, StreamSuspended, EndpointType
<1>5. CASE StreamFailed \/ StreamReleased
  BY <1>0, <1>5 DEF StreamFailed, StreamReleased, IdleEndpoint
<1>6. ASSUME NEW p \in Peers, SignalingReleased(p) PROVE ConnectionInv'
  BY <1>0, <1>6 DEF SignalingReleased, IdleEndpoint
<1>7. CASE Playback \/ \E p \in AllPackets : MediaPacket(p)
  BY <1>0, <1>7 DEF MediaPacket, Playback, PlaybackRequest, ReadFrame, handle_pcm_data, PlaybackReturn
<1>8. CASE UNCHANGED vars
  BY <1>0, <1>8 DEF vars
<1> QED
  BY <1>1, <1>2, <1>3, <1>4, <1>5, <1>6, <1>7, <1>8 DEF Next, A2dpEvent

\* Every step starts the player when its queue is filled, and only then.
LEMMA NextStartInv == Inv /\ [Next]_vars => StartInv'
<1> SUFFICES ASSUME Inv, [Next]_vars PROVE StartInv'
  OBVIOUS
<1> USE DEF app, console, playing, stack
<1>0. /\ TypeOK /\ media \in MediaType /\ Outcomes \subseteq BOOLEAN /\ StartInv
      /\ OPTIMAL_FRAMES_MIN \in Nat \ {0}
  BY A2dpSinkAssumption DEF Inv, TypeOK, Outcomes, A2dpSinkAssumption
<1>1. media' \in MediaType /\ media'.sbc_bytes \in Nat /\ media'.sbc_bytes <= SbcRingBytes
      /\ SbcRingBytes \in Nat /\ media'.sbc_frame_size \in Nat
  BY NextTypeOK, RingBytesNat DEF Inv, TypeOK, MediaType
<1>2. ASSUME UNCHANGED media PROVE StartInv'
  BY <1>0, <1>2 DEF StartInv
<1>3. ASSUME media'.sbc_bytes = 0, ~media'.audio_stream_started PROVE StartInv'
  <2> SUFFICES ASSUME media'.sbc_frame_size > 0
               PROVE  ~(0 >= OPTIMAL_FRAMES_MIN * media'.sbc_frame_size)
    BY <1>3 DEF StartInv
  <2>1. media'.sbc_frame_size \in Nat \ {0}
    BY <1>1
  <2>2. /\ OPTIMAL_FRAMES_MIN * media'.sbc_frame_size >= 1 * media'.sbc_frame_size
        /\ OPTIMAL_FRAMES_MIN * media'.sbc_frame_size \in Nat
    BY <1>0, <2>1, MultipleCompare
  <2> QED
    BY <2>1, <2>2
<1>4. CASE \/ EstablishStream \/ Disconnect
           \/ \E p \in Peers : SignalingConnected(p) \/ AvrcpConnected(p)
           \/ \E p \in Peers, c \in Configs : SbcConfiguration(p, c)
           \/ StreamEstablished \/ StreamFailed \/ UNCHANGED vars
  BY <1>2, <1>4 DEF EstablishStream, Disconnect, AvrcpConnected, SignalingConnected, SbcConfiguration,
                    StreamEstablished, StreamFailed, vars
<1>5. CASE StreamStarted
  BY <1>2, <1>3, <1>5, StartedPlayer DEF Inv
<1>6. CASE StreamSuspended
  <2>1. CASE media.media_initialized
    BY <1>0, <1>3, <1>6, <2>1, PausePlayer DEF StreamSuspended
  <2>2. CASE ~media.media_initialized
    BY <1>0, <1>2, <1>6, <2>2 DEF StreamSuspended, media_processing_pause
  <2> QED
    BY <2>1, <2>2
<1>7. CASE StreamReleased \/ \E p \in Peers : SignalingReleased(p)
  <2>1. ~media'.media_initialized
    BY <1>0, <1>7, ClosePlayer DEF StreamReleased, SignalingReleased, Inv, PlayerInv
  <2> QED
    BY <2>1 DEF StartInv
<1>8. ASSUME NEW p \in AllPackets, MediaPacket(p) PROVE StartInv'
  <2>1. endpoint.media_cfg \in Configs /\ p \in Packets[endpoint.media_cfg]
    BY <1>8, PacketArrives DEF Inv
  <2>2. CASE ~HaveAudio
    <3>1. /\ media'.media_initialized = media.media_initialized
          /\ media'.audio_stream_started = media.audio_stream_started /\ media'.cfg = media.cfg
      BY <1>0, <1>8, <2>2 DEF MediaPacket, MediaType
    <3> QED
      BY <1>0, <2>2, <3>1 DEF StartInv
  <2>3. CASE HaveAudio
    <3>1. PICK ok \in BOOLEAN : media' = StartIfFilled(Compensate(Queue(media, p)), ok)
      BY <1>0, <1>8, <2>3 DEF MediaPacket
    <3>2. /\ media'.media_initialized = media.media_initialized /\ media'.cfg = media.cfg
          /\ media'.sbc_frame_size = FrameSize(p)
          /\ media.media_initialized /\ ~media'.audio_stream_started =>
               ~(media'.sbc_bytes >= OPTIMAL_FRAMES_MIN * FrameSize(p))
          /\ \/ media'.audio_stream_started = media.audio_stream_started
             \/ media'.sbc_bytes >= OPTIMAL_FRAMES_MIN * FrameSize(p)
      BY <1>0, <2>1, <3>1, PacketPlayer
    <3>3. CASE media.media_initialized
      <4>1. media.cfg = endpoint.media_cfg
        BY <3>3 DEF Inv, PlayerInv
      <4>2. OPTIMAL_FRAMES_MIN * FrameSize(p) \in Nat
        BY <2>1, PacketFacts
      <4>3. media'.audio_stream_started =>
              \E x \in Packets[media'.cfg] : OPTIMAL_FRAMES_MIN * FrameSize(x) <= SbcRingBytes
        <5>1. CASE media'.sbc_bytes >= OPTIMAL_FRAMES_MIN * FrameSize(p)
          <6>1. OPTIMAL_FRAMES_MIN * FrameSize(p) <= SbcRingBytes
            BY <1>1, <4>2, <5>1
          <6> QED
            BY <2>1, <3>2, <4>1, <6>1
        <5>2. CASE media'.audio_stream_started = media.audio_stream_started
          BY <1>0, <3>2, <3>3, <5>2 DEF StartInv
        <5> QED
          BY <3>2, <5>1, <5>2
      <4> QED
        BY <3>2, <3>3, <4>3 DEF StartInv
    <3>4. CASE ~media.media_initialized
      BY <3>2, <3>4 DEF StartInv
    <3> QED
      BY <3>3, <3>4
  <2> QED
    BY <2>2, <2>3
<1>9. CASE Playback
  <2>1. /\ media'.media_initialized = media.media_initialized /\ media'.cfg = media.cfg
        /\ media'.audio_stream_started = media.audio_stream_started
    BY <1>0, <1>9, ReadFacts
       DEF Playback, PlaybackRequest, handle_pcm_data, PlaybackReturn, MediaType
  <2>2. media.audio_stream_started \/ media' = media
             \/ (/\ media'.sbc_bytes = media.sbc_bytes
                 /\ media'.sbc_frame_size = media.sbc_frame_size)
    BY <1>0, <1>9
       DEF Playback, PlaybackRequest, handle_pcm_data, PlaybackReturn, MediaType, ReadFrame,
           Inv, PlaybackInv, PlayerInv
  <2> QED
    BY <1>0, <2>1, <2>2 DEF StartInv
<1> QED
  BY <1>4, <1>5, <1>6, <1>7, <1>8, <1>9 DEF Next, A2dpEvent

\* Every step preserves the whole of it.
LEMMA NextInv == Inv /\ [Next]_vars => Inv'
<1> SUFFICES ASSUME Inv, [Next]_vars PROVE Inv'
  OBVIOUS
<1>1. TypeOK' /\ EndpointInv' /\ PlayerInv' /\ QueueInv' /\ PlaybackInv'
  BY NextTypeOK, NextEndpointInv, NextPlayerInv, NextQueueInv, NextPlaybackInv DEF Inv
<1>2. WavInv' /\ SinglePeerInv' /\ ConnectionInv' /\ StartInv'
  BY NextWavInv, NextSinglePeerInv, NextConnectionInv, NextStartInv
<1> QED
  BY <1>1, <1>2 DEF Inv

-----------------------------------------------------------------------------
(***************************************************************************)
(* The theorems.                                                           *)
(***************************************************************************)

\* Inv is an invariant of the sink: the run loop's handlers keep endpoint,
\* player, queue, playback and wav file in step, in every order of events.
THEOREM Invariance == Spec => []Inv
<1>1. Init => Inv
  BY InitInv
<1>2. Inv /\ [Next]_vars => Inv'
  BY NextInv
<1> QED
  BY <1>1, <1>2, PTL DEF Spec

\* Type correctness: the rings never hold more than their capacity and the
\* counters of playback_handler never go below zero.
THEOREM TypeCorrect == Spec => []TypeOK
<1>1. Inv => TypeOK
  BY DEF Inv
<1> QED
  BY <1>1, Invariance, PTL

\* With an audio driver, or with one peer, no handler ever misuses the driver or
\* the wav file.
THEOREM DriversUsedCorrectly ==
  ASSUME HaveAudio \/ SinglePeer
  PROVE  Spec => []NoMisuse
<1>1. Inv => NoMisuse
  BY DEF Inv, PlayerInv, WavInv, NoMisuse
<1> QED
  BY <1>1, Invariance, PTL

\* Sound comes out only while a peer streams, whatever arrives late and whoever
\* else connects or goes.
THEOREM PlayingOnlyWhileStreaming == Spec => []PlaysOnlyWhileStreaming
<1>1. Inv => PlaysOnlyWhileStreaming
  BY DEF Inv, PlayerInv, EndpointInv, PlaysOnlyWhileStreaming
<1> QED
  BY <1>1, Invariance, PTL

\* A streaming player decodes with the configuration negotiated last.
THEOREM ConfigurationFollowed == Spec => []PlayerHasConfiguration
<1>1. Inv => PlayerHasConfiguration
  BY DEF Inv, PlayerInv, EndpointInv, PlayerHasConfiguration
<1> QED
  BY <1>1, Invariance, PTL

\* What waits in the SBC ring of an open player ends with a frame, whatever lengths
\* the frames have and whatever was dropped, paused or configured anew.
THEOREM WholeFramesQueued == Spec => []RingEndsOnFrame
<1>1. Inv => RingEndsOnFrame
  BY DEF Inv, QueueInv, RingEndsOnFrame
<1> QED
  BY <1>1, Invariance, PTL

\* No decoded sample overtakes one that waits, however many frames a read completes.
THEOREM SamplesInOrder == Spec => []PcmInOrder
<1>1. Inv => PcmInOrder
  BY DEF Inv, PlaybackInv, PcmInOrder
<1> QED
  BY <1>1, Invariance, PTL

\* The drift compensation always runs at the rate of the player.
THEOREM CompensationFollowsPlayer == Spec => []CompensationMatchesPlayer
<1>1. Inv => CompensationMatchesPlayer
  BY DEF Inv, PlayerInv, CompensationMatchesPlayer
<1> QED
  BY <1>1, Invariance, PTL

\* With one peer every packet finds the player open; a second one breaks this.
THEOREM PacketsFindPlayer ==
  ASSUME SinglePeer
  PROVE  Spec => []MediaFindsPlayer
<1>1. Inv => MediaFindsPlayer
  BY DEF Inv, SinglePeerInv, WavInv, MediaFindsPlayer
<1> QED
  BY <1>1, Invariance, PTL

\* With one peer the console's cid names the connection of the open stream.
THEOREM CidFollowsStream ==
  ASSUME SinglePeer
  PROVE  Spec => []CidNamesStream
<1>1. Inv => CidNamesStream
  BY DEF Inv, SinglePeerInv
<1> QED
  BY <1>1, Invariance, PTL

\* A configuration whose start threshold does not fit the ring is never heard, for
\* any sizes: 60 frames are waited for in a ring of 110 * 120 bytes, which frames of
\* more than 220 bytes never fill to that mark (A2dpSinkDualChannel shows one).
HeardOnlyIfThresholdFits ==
  media.audio = "running" =>
    \E p \in Packets[media.cfg] : OPTIMAL_FRAMES_MIN * FrameSize(p) <= SbcRingBytes

\* Sound comes out only of a configuration with packets whose start threshold fits
\* the ring.
THEOREM ThresholdMustFit == Spec => []HeardOnlyIfThresholdFits
<1>1. Inv => HeardOnlyIfThresholdFits
  BY DEF Inv, PlayerInv, StartInv, HeardOnlyIfThresholdFits
<1> QED
  BY <1>1, Invariance, PTL

\* A queue that is filled is not left waiting: with an audio driver, an open player
\* that holds OPTIMAL_FRAMES_MIN frames of the cached length has called start_stream
\* for a peer that streams.  Only a driver that failed keeps it silent.
FilledQueueIsStarted ==
  /\ HaveAudio /\ media.media_initialized /\ media.sbc_frame_size > 0
  /\ media.sbc_bytes >= OPTIMAL_FRAMES_MIN * media.sbc_frame_size
  => media.audio_stream_started /\ endpoint.state = "streaming"

\* An open player whose ring has reached the start threshold has been started.
THEOREM FilledQueuesAreStarted == Spec => []FilledQueueIsStarted
<1>1. Inv => FilledQueueIsStarted
  BY DEF Inv, PlayerInv, StartInv, FilledQueueIsStarted
<1> QED
  BY <1>1, Invariance, PTL

\* No read from the ring is longer than sbc_frame[MAX_SBC_FRAME_SIZE], as long as no
\* packet has longer frames: the cached size is always that of one packet's frames.
THEOREM ReadsFitBuffer ==
  ASSUME \A p \in AllPackets : FrameSize(p) <= MAX_SBC_FRAME_SIZE
  PROVE  Spec => []ReadFitsBuffer
<1>1. Init => ReadFitsBuffer
  BY DEF Init, ReadFitsBuffer
<1>2. Inv /\ ReadFitsBuffer /\ [Next]_vars => ReadFitsBuffer'
  <2> SUFFICES ASSUME Inv, ReadFitsBuffer, [Next]_vars PROVE pc' # "overrun"
    BY DEF ReadFitsBuffer
  <2> USE DEF ReadFitsBuffer, app, console, playing, stack
  <2>1. CASE ReadFrame
    <3>1. media.sbc_frame_size > 0
      BY <2>1 DEF ReadFrame, Inv, PlaybackInv, QueueInv
    <3>2. PICK p \in AllPackets : media.sbc_frame_size = FrameSize(p)
      BY <3>1 DEF Inv, QueueInv
    <3>3. media.sbc_frame_size \in Nat /\ MAX_SBC_FRAME_SIZE \in Nat
      BY A2dpSinkAssumption DEF Inv, TypeOK, MediaType, A2dpSinkAssumption
    <3>4. ~(media.sbc_frame_size > MAX_SBC_FRAME_SIZE)
      BY <3>2, <3>3
    <3> QED
      BY <2>1, <3>4 DEF ReadFrame
  <2>2. CASE ~ReadFrame
    BY <2>2 DEF Next, vars, A2dpEvent, Playback, EstablishStream, Disconnect, SignalingConnected,
                AvrcpConnected, SbcConfiguration, StreamEstablished, StreamFailed, StreamStarted,
                StreamSuspended, StreamReleased, SignalingReleased, MediaPacket, PlaybackRequest,
                handle_pcm_data, PlaybackReturn
  <2> QED
    BY <2>1, <2>2
<1> QED
  BY <1>1, <1>2, Invariance, PTL DEF Spec

\* Every step of the decode loop shortens the SBC ring, or hands back one of the
\* frames a read completed and leaves the ring alone: the variant by which
\* playback_handler returns, whatever the lengths of the frames.
DecodeLoopAdvances ==
  [][pc = "playback" /\ pc' = "playback" =>
       \/ media'.sbc_bytes < media.sbc_bytes
       \/ media'.sbc_bytes = media.sbc_bytes /\ decoded' < decoded]_vars

\* The decode loop takes from the ring each time round, so it ends.
THEOREM DecodeLoopShortensRing == Spec => DecodeLoopAdvances
<1>1. Inv /\ [Next]_vars =>
        [pc = "playback" /\ pc' = "playback" =>
           \/ media'.sbc_bytes < media.sbc_bytes
           \/ media'.sbc_bytes = media.sbc_bytes /\ decoded' < decoded]_vars
  <2> SUFFICES ASSUME Inv, Next, pc = "playback", pc' = "playback"
               PROVE  \/ media'.sbc_bytes < media.sbc_bytes
                      \/ media'.sbc_bytes = media.sbc_bytes /\ decoded' < decoded
    OBVIOUS
  <2>1. ReadFrame \/ \E r \in Resampled : handle_pcm_data(r)
    BY DEF Next, A2dpEvent, Playback, EstablishStream, Disconnect, SignalingConnected, AvrcpConnected,
           SbcConfiguration, StreamEstablished, StreamFailed, StreamStarted, StreamSuspended,
           StreamReleased, SignalingReleased, MediaPacket, PlaybackRequest, PlaybackReturn
  <2>2. media \in MediaType /\ media.sbc_bytes \in Nat /\ media.sbc_frame_size \in Nat /\ decoded \in Nat
    BY RingBytesNat DEF Inv, TypeOK, MediaType
  <2>3. media.sbc_frame_size > 0
    BY DEF Inv, PlaybackInv, QueueInv
  <2>4. CASE ReadFrame
    <3>1. media'.sbc_bytes = media.sbc_bytes - media.sbc_frame_size
      BY <2>4, ReadFacts DEF Inv
    <3> QED
      BY <2>2, <2>3, <3>1
  <2>5. ASSUME NEW r \in Resampled, handle_pcm_data(r)
        PROVE  media'.sbc_bytes = media.sbc_bytes /\ decoded' < decoded
    BY <2>2, <2>5 DEF handle_pcm_data, MediaType
  <2> QED
    BY <2>1, <2>4, <2>5
<1> QED
  BY <1>1, Invariance, PTL DEF Spec, DecodeLoopAdvances

=============================================================================
