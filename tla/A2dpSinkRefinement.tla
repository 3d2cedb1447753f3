------------------------- MODULE A2dpSinkRefinement --------------------------
(***************************************************************************)
(* The proof that A2dpSink implements FramePlayer, for packets with frames *)
(* of any lengths.  By Inv the ring of an open player ends with a frame,   *)
(* so the bytes the code counts are those of the queue, and each handler   *)
(* changes the queue as FramePlayer says.                                  *)
(***************************************************************************)
EXTENDS A2dpSinkProofs

\* The last frame of a ring ends where the ring ends.
LEMMA BytesOfRing ==
  ASSUME NEW n \in Nat, NEW q, q \subseteq 1..n, n > 0 => n \in q
  PROVE  Frames!Bytes(q) = n
<1>1. n \in q \cup {0} /\ \A e \in q : e <= n
  OBVIOUS
<1>2. ASSUME NEW b \in q \cup {0}, \A e \in q : e <= b PROVE b = n
  <2>1. b \in 0..n
    OBVIOUS
  <2> QED
    BY <1>2, <2>1
<1> QED
  BY <1>1, <1>2 DEF Frames!Bytes

\* The bytes of an open player's queue are those its ring counts.
LEMMA OpenPlayerQueue ==
  ASSUME Inv, media.media_initialized
  PROVE  /\ queue_bar = media.sbc_frames
         /\ Frames!Bytes(queue_bar) = media.sbc_bytes
         /\ media.sbc_bytes \in Nat
         /\ queue_bar \subseteq Nat
<1>1. media.sbc_bytes \in Nat
  BY RingBytesNat DEF Inv, TypeOK, MediaType
<1>2. media.sbc_frames \subseteq 1..media.sbc_bytes
      /\ (media.sbc_bytes > 0 => media.sbc_bytes \in media.sbc_frames)
  BY DEF Inv, QueueInv
<1>3. Frames!Bytes(media.sbc_frames) = media.sbc_bytes
  BY <1>1, <1>2, BytesOfRing
<1> QED
  BY <1>1, <1>2, <1>3 DEF queue_bar

-----------------------------------------------------------------------------
\* The initial states map to the initial state.
LEMMA InitMaps == Init => Frames!Init
BY DEF Init, NoMedia, Frames!Init, player_bar, queue_bar

\* A closed player has an empty queue.
LEMMA ClosedBar ==
  ASSUME media' = media_processing_close(media), Inv
  PROVE  Frames!Close
<1>1. ~media'.media_initialized
  BY ClosePlayer DEF Inv, TypeOK, PlayerInv
<1> QED
  BY <1>1 DEF Frames!Close, player_bar, queue_bar

\* STREAM_STARTED opens the player, or finds it open.
LEMMA StreamStartedMaps ==
  ASSUME Inv, StreamStarted
  PROVE  Frames!Open \/ UNCHANGED Frames!vars
<1>1. player_bar # "running"
  BY DEF Inv, PlayerInv, player_bar, StreamStarted
<1>2. CASE media' = media
  BY <1>2 DEF Frames!vars, player_bar, queue_bar
<1>3. CASE media'.sbc_frames = {}
  <2>1. media'.media_initialized /\ media'.audio \in {"closed", "ready"}
    BY StartedPlayer DEF Inv
  <2>2. player_bar' = "ready" /\ queue_bar' = {}
    BY <1>3, <2>1 DEF player_bar, queue_bar
  <2> QED
    BY <1>1, <2>2 DEF Frames!Open
<1> QED
  BY <1>2, <1>3, StartedPlayer DEF Inv

\* STREAM_SUSPENDED pauses an open player.
LEMMA StreamSuspendedMaps ==
  ASSUME Inv, StreamSuspended
  PROVE  Frames!Pause \/ UNCHANGED Frames!vars
<1>0. media' = media_processing_pause(media) /\ media \in MediaType
  BY DEF StreamSuspended, Inv, TypeOK
<1>1. CASE media.media_initialized
  <2>1. media'.media_initialized /\ media'.sbc_frames = {} /\ media'.audio # "running"
    BY <1>0, <1>1, PausePlayer
  <2>2. player_bar # "closed" /\ player_bar' = "ready" /\ queue_bar' = {}
    BY <1>1, <2>1 DEF player_bar, queue_bar
  <2> QED
    BY <2>2 DEF Frames!Pause
<1>2. CASE ~media.media_initialized
  BY <1>0, <1>2 DEF media_processing_pause, Frames!vars, player_bar, queue_bar
<1> QED
  BY <1>1, <1>2

\* A step that leaves the flag, the driver and the frames alone is a stutter.
LEMMA RingUntouched ==
  ASSUME /\ media'.media_initialized = media.media_initialized /\ media'.audio = media.audio
         /\ media'.sbc_frames = media.sbc_frames
  PROVE  UNCHANGED Frames!vars
BY DEF Frames!vars, player_bar, queue_bar

\* A media packet is accepted whole or dropped whole by an open player, and may
\* start it when the queue is filled; a closed player ignores it.
LEMMA MediaPacketMaps ==
  ASSUME Inv, Inv', NEW p \in AllPackets, MediaPacket(p)
  PROVE  Frames!Accept(p) \/ UNCHANGED Frames!vars
<1>0. /\ media \in MediaType /\ TypeOK /\ Outcomes \subseteq BOOLEAN
      /\ endpoint.media_cfg \in Configs /\ p \in Packets[endpoint.media_cfg]
  BY PacketArrives DEF Inv, TypeOK, Outcomes
<1>1. p.bytes \in Nat
  BY <1>0, PacketFacts
<1>2. CASE ~HaveAudio
  <2>1. /\ media'.media_initialized = media.media_initialized /\ media'.audio = media.audio
        /\ media'.sbc_frames = media.sbc_frames
    BY <1>0, <1>2 DEF MediaPacket, MediaType
  <2> QED
    BY <2>1, RingUntouched
<1>3. CASE HaveAudio
  <2> DEFINE fits == media.sbc_bytes + p.bytes <= SbcRingBytes
  <2>1. PICK ok \in BOOLEAN : media' = StartIfFilled(Compensate(Queue(media, p)), ok)
    BY <1>0, <1>3 DEF MediaPacket
  <2>2. /\ media'.media_initialized = media.media_initialized
        /\ media'.sbc_frames = IF fits THEN Behind(media, p) ELSE media.sbc_frames
        /\ \/ media'.audio = media.audio
           \/ /\ media'.audio = AudioStart(media.audio, ok)
              /\ media'.sbc_bytes >= OPTIMAL_FRAMES_MIN * FrameSize(p)
    BY <1>0, <2>1, PacketPlayer
  <2>3. CASE ~media.media_initialized
    BY <2>2, <2>3 DEF Frames!vars, player_bar, queue_bar
  <2>4. CASE media.media_initialized
    <3>1. /\ queue_bar = media.sbc_frames /\ Frames!Bytes(queue_bar) = media.sbc_bytes
          /\ media.sbc_bytes \in Nat
      BY <2>4, OpenPlayerQueue
    <3>2. queue_bar' = media'.sbc_frames /\ Frames!Bytes(queue_bar)' = media'.sbc_bytes
      <4>1. media'.media_initialized
        BY <2>2, <2>4
      <4>2. queue_bar' = media'.sbc_frames
        BY <4>1 DEF queue_bar
      <4>3. /\ media'.sbc_bytes \in Nat /\ media'.sbc_frames \subseteq 1..media'.sbc_bytes
            /\ media'.sbc_bytes > 0 => media'.sbc_bytes \in media'.sbc_frames
        BY RingBytesNat DEF Inv, TypeOK, MediaType, QueueInv
      <4>4. Frames!Bytes(media'.sbc_frames) = media'.sbc_bytes
        BY <4>3, BytesOfRing
      <4> QED
        BY <4>2, <4>4
    <3>3. \/ queue_bar' = Frames!Append(queue_bar, p)
          \/ Frames!Bytes(queue_bar) + p.bytes > SbcRingBytes /\ queue_bar' = queue_bar
      <4>1. CASE fits
        BY <2>2, <3>1, <3>2, <4>1 DEF Behind, Frames!Append
      <4>2. CASE ~fits
        BY <1>1, <2>2, <3>1, <3>2, <4>2, RingBytesNat
      <4> QED
        BY <4>1, <4>2
    <3>4. player_bar # "closed"
      BY <2>4 DEF player_bar
    <3>5. \/ player_bar' = player_bar
          \/ /\ Frames!Bytes(queue_bar') >= OPTIMAL_FRAMES_MIN * FrameSize(p)
             /\ player_bar' = "running"
      <4>1. CASE media'.audio = media.audio
        BY <2>2, <4>1 DEF player_bar
      <4>2. CASE media'.audio = AudioStart(media.audio, ok)
                 /\ media'.sbc_bytes >= OPTIMAL_FRAMES_MIN * FrameSize(p)
        <5>1. media'.audio # "misused"
          BY DEF Inv, PlayerInv
        <5>2. media'.audio = "running" \/ media'.audio = media.audio
          BY <4>2, <5>1 DEF AudioStart
        <5> QED
          BY <2>2, <2>4, <3>2, <4>2, <5>2 DEF player_bar
      <4> QED
        BY <2>2, <4>1, <4>2
    <3>6. Frames!FrameSize(p) = FrameSize(p)
      BY DEF Frames!FrameSize, FrameSize
    <3> QED
      BY <3>3, <3>4, <3>5, <3>6 DEF Frames!Accept
  <2> QED
    BY <2>3, <2>4
<1> QED
  BY <1>2, <1>3

\* A read takes as much from the front of the queue as some packet's frames are long.
LEMMA ReadFrameMaps ==
  ASSUME Inv, ReadFrame
  PROVE  \E p \in AllPackets : Frames!Take(p)
<1>1. /\ media.audio = "running" /\ media.media_initialized
      /\ media.sbc_frame_size > 0 /\ media.sbc_bytes >= media.sbc_frame_size
  BY DEF ReadFrame, MoreToDecode, Inv, PlaybackInv, PlayerInv, QueueInv
<1>2. PICK p \in AllPackets : media.sbc_frame_size = FrameSize(p)
  BY <1>1 DEF Inv, QueueInv
<1> DEFINE s == FrameSize(p)
<1>3. /\ queue_bar = media.sbc_frames /\ Frames!Bytes(queue_bar) = media.sbc_bytes
      /\ queue_bar \subseteq Nat /\ s \in Nat
  BY <1>1, <1>2, OpenPlayerQueue DEF Inv, TypeOK, MediaType
<1>4. /\ media'.media_initialized /\ media'.audio = "running"
      /\ media'.sbc_frames = {e - s : e \in media.sbc_frames \ FramesRead}
  BY <1>1, <1>2, ReadFacts DEF Inv
<1>5. queue_bar' = Frames!Drop(queue_bar, s)
  <2>1. media.sbc_frames \ FramesRead = {f \in queue_bar : f > s}
    BY <1>2, <1>3 DEF FramesRead
  <2> QED
    BY <1>4, <2>1 DEF queue_bar, Frames!Drop
<1>6. player_bar = "running" /\ player_bar' = "running"
  BY <1>1, <1>4 DEF player_bar
<1>7. Frames!FrameSize(p) = s
  BY DEF Frames!FrameSize, FrameSize
<1> QED
  BY <1>1, <1>2, <1>3, <1>5, <1>6, <1>7 DEF Frames!Take

\* Every step of the sink is a step of FramePlayer, or leaves it alone.
LEMMA NextMaps ==
  ASSUME Inv, Inv', [Next]_vars
  PROVE  [Frames!Next]_Frames!vars
<1> USE DEF app, console, playing, stack
<1>0. media \in MediaType
  BY DEF Inv, TypeOK
<1>1. CASE UNCHANGED media
  BY <1>1, RingUntouched
<1>2. CASE \/ EstablishStream \/ Disconnect
           \/ \E p \in Peers : SignalingConnected(p) \/ AvrcpConnected(p)
           \/ \E p \in Peers, c \in Configs : SbcConfiguration(p, c)
           \/ StreamEstablished \/ StreamFailed \/ UNCHANGED vars
  BY <1>1, <1>2 DEF EstablishStream, Disconnect, AvrcpConnected, SignalingConnected,
                    SbcConfiguration, StreamEstablished, StreamFailed, vars
<1>3. CASE StreamStarted
  BY <1>3, StreamStartedMaps DEF Frames!Next
<1>4. CASE StreamSuspended
  BY <1>4, StreamSuspendedMaps DEF Frames!Next
<1>5. CASE StreamReleased \/ \E p \in Peers : SignalingReleased(p)
  BY <1>5, ClosedBar DEF StreamReleased, SignalingReleased, Frames!Next
<1>6. ASSUME NEW p \in AllPackets, MediaPacket(p) PROVE [Frames!Next]_Frames!vars
  BY <1>6, MediaPacketMaps DEF Frames!Next
<1>7. ASSUME PlaybackReturn \/ (\E n \in Requests : PlaybackRequest(n))
               \/ (\E r \in Resampled : handle_pcm_data(r))
      PROVE  [Frames!Next]_Frames!vars
  BY <1>0, <1>7, RingUntouched DEF PlaybackReturn, PlaybackRequest, handle_pcm_data, MediaType
<1>8. CASE ReadFrame
  BY <1>8, ReadFrameMaps DEF Frames!Next
<1> QED
  BY <1>2, <1>3, <1>4, <1>5, <1>6, <1>7, <1>8 DEF Next, A2dpEvent, Playback

\* The sink implements FramePlayer, for any packets: whatever BTstack, the driver and
\* the peers do, packets are queued and dropped whole, played from the front, and
\* playback starts only on a filled queue.
THEOREM Refinement == Spec => ImplementsFramePlayer
<1>1. Init => Frames!Init
  BY InitMaps
<1>2. Inv /\ Inv' /\ [Next]_vars => [Frames!Next]_Frames!vars
  BY NextMaps
<1> QED
  BY <1>1, <1>2, Invariance, PTL DEF Spec, ImplementsFramePlayer, Frames!Spec

-----------------------------------------------------------------------------
(***************************************************************************)
(* What the sink inherits: action properties of FramePlayer, proved there  *)
(* from its actions.                                                       *)
(***************************************************************************)
\* FramePlayer starts with a filled queue, and plays from its front.
LEMMA FramesActions ==
  Frames!Spec => Frames!StartsFilled /\ Frames!PlaysFromFront
<1>1. [Frames!Next]_Frames!vars =>
        [player_bar # "running" /\ player_bar' = "running" =>
           \E p \in AllPackets :
             Frames!Bytes(queue_bar') >= OPTIMAL_FRAMES_MIN * Frames!FrameSize(p)]_Frames!vars
  BY DEF Frames!Next, Frames!Open, Frames!Accept, Frames!Take, Frames!Pause, Frames!Close
<1>2. [Frames!Next]_Frames!vars =>
        [player_bar = "running" /\ player_bar' = "running" =>
           \/ queue_bar \subseteq queue_bar'
           \/ \E p \in AllPackets :
                queue_bar' = Frames!Drop(queue_bar, Frames!FrameSize(p))]_Frames!vars
  BY DEF Frames!Next, Frames!Open, Frames!Accept, Frames!Take, Frames!Pause, Frames!Close,
         Frames!Append
<1> QED
  BY <1>1, <1>2, PTL DEF Frames!Spec, Frames!StartsFilled, Frames!PlaysFromFront

\* The sink starts to play on a queue that holds OPTIMAL_FRAMES_MIN frames by some
\* packet's measure, and while it plays every frame that is queued stays until
\* playback has taken what is before it: an overflow of the ring, whose packet
\* handle_l2cap_media_data_packet writes whole or not at all, never costs a frame
\* that waits.
THEOREM PlaybackContinues == Spec => Frames!StartsFilled /\ Frames!PlaysFromFront
<1>1. Spec => Frames!Spec
  BY Refinement DEF ImplementsFramePlayer
<1> QED
  BY <1>1, FramesActions, PTL

=============================================================================
