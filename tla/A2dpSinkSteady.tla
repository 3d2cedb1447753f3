--------------------------- MODULE A2dpSinkSteady ----------------------------
(***************************************************************************)
(* What the sink promises of a peer that does not change the bitpool while *)
(* a configuration lasts, so that the frames of a configuration have one   *)
(* length: the ring holds whole frames, a read takes one of them, and no   *)
(* decoded sample is dropped.  A2dpSinkBitpool shows what becomes of it    *)
(* when the bitpool changes.                                               *)
(***************************************************************************)
EXTENDS A2dpSinkProofs

\* Under configuration c every frame is size[c] bytes long.
Steady(size) ==
  /\ size \in [Configs -> Nat \ {0}]
  /\ \A c \in Configs : \A p \in Packets[c] :
       /\ p.bytes = p.num_frames * size[c]
       /\ p.ends = {k * size[c] : k \in 1..p.num_frames}

\* Where n frames of s bytes end.
Multiples(n, s) == {k * s : k \in 1..n}

\* Frames behind frames of the same length.
LEMMA MultiplesAppend ==
  ASSUME NEW n \in Nat, NEW m \in Nat, NEW s \in Nat \ {0}
  PROVE  Multiples(n, s) \cup {n * s + e : e \in Multiples(m, s)} = Multiples(n + m, s)
<1>1. ASSUME NEW k \in 1..n PROVE k * s \in Multiples(n + m, s)
  BY k \in 1..(n + m) DEF Multiples
<1>2. ASSUME NEW k \in 1..m PROVE n * s + k * s \in Multiples(n + m, s)
  <2>1. n + k \in 1..(n + m) /\ k \in Nat
    OBVIOUS
  <2>2. (n + k) * s = n * s + k * s
    BY <2>1, MultipleAdd
  <2> QED
    BY <2>1, <2>2 DEF Multiples
<1>3. ASSUME NEW k \in 1..(n + m)
      PROVE  k * s \in Multiples(n, s) \cup {n * s + e : e \in Multiples(m, s)}
  <2>1. CASE k <= n
    BY <2>1, k \in 1..n DEF Multiples
  <2>2. CASE ~(k <= n)
    <3>1. k - n \in 1..m /\ k - n \in Nat /\ k = n + (k - n)
      BY <2>2
    <3>2. (n + (k - n)) * s = n * s + (k - n) * s
      BY <3>1, MultipleAdd
    <3>3. k * s = n * s + (k - n) * s
      BY <3>1, <3>2
    <3>4. (k - n) * s \in Multiples(m, s)
      BY <3>1 DEF Multiples
    <3> QED
      BY <3>3, <3>4
  <2> QED
    BY <2>1, <2>2
<1>4. Multiples(n + m, s) \subseteq Multiples(n, s) \cup {n * s + e : e \in Multiples(m, s)}
  BY <1>3 DEF Multiples
<1>5. Multiples(n, s) \subseteq Multiples(n + m, s)
  BY <1>1 DEF Multiples
<1>6. {n * s + e : e \in Multiples(m, s)} \subseteq Multiples(n + m, s)
  <2>1. \A e \in Multiples(m, s) : n * s + e \in Multiples(n + m, s)
    BY <1>2 DEF Multiples
  <2> QED
    BY <2>1
<1> QED
  BY <1>4, <1>5, <1>6

\* The first s bytes hold one of them, and the others move to the front.
LEMMA MultiplesTake ==
  ASSUME NEW n \in Nat \ {0}, NEW s \in Nat \ {0}
  PROVE  /\ {e \in Multiples(n, s) : e <= s} = {s}
         /\ {e - s : e \in Multiples(n, s) \ {s}} = Multiples(n - 1, s)
<1>1. ASSUME NEW k \in 1..n PROVE k * s \in Nat /\ (k * s <= s <=> k = 1)
  <2>1. k \in Nat /\ 1 \in Nat /\ k >= 1
    OBVIOUS
  <2>2. 1 * s >= k * s <=> 1 >= k
    BY <2>1, MultipleCompare
  <2> QED
    BY <2>1, <2>2
<1>2. 1 * s = s /\ 1 \in 1..n
  OBVIOUS
<1>3. s \in Multiples(n, s)
  BY <1>2 DEF Multiples
<1>4. {e \in Multiples(n, s) : e <= s} = {s}
  BY <1>1, <1>2, <1>3 DEF Multiples
<1>5. ASSUME NEW k \in 1..n, k * s # s PROVE k * s - s \in Multiples(n - 1, s)
  <2>1. k - 1 \in 1..(n - 1) /\ k - 1 \in Nat /\ k = (k - 1) + 1
    BY <1>2, <1>5
  <2>2. ((k - 1) + 1) * s = (k - 1) * s + 1 * s /\ (k - 1) * s \in Nat
    BY <2>1, MultipleAdd
  <2>3. k * s - s = (k - 1) * s
    BY <2>1, <2>2, <1>2
  <2> QED
    BY <2>1, <2>3 DEF Multiples
<1>6. ASSUME NEW k \in 1..(n - 1) PROVE k * s \in {e - s : e \in Multiples(n, s) \ {s}}
  <2>1. k + 1 \in 1..n /\ k \in Nat /\ k + 1 # 1
    OBVIOUS
  <2>2. (k + 1) * s = k * s + 1 * s /\ k * s \in Nat
    BY <2>1, MultipleAdd
  <2>3. (k + 1) * s - s = k * s /\ (k + 1) * s # s
    BY <1>1, <1>2, <2>1, <2>2
  <2>4. (k + 1) * s \in Multiples(n, s) \ {s}
    BY <2>1, <2>3 DEF Multiples
  <2> QED
    BY <2>3, <2>4
<1>7. {e - s : e \in Multiples(n, s) \ {s}} = Multiples(n - 1, s)
  BY <1>5, <1>6 DEF Multiples
<1> QED
  BY <1>4, <1>7

-----------------------------------------------------------------------------
\* The ring of an open player holds whole frames of the configuration's length, which
\* is the cached one while there are any or while it plays; and the decoder is handed
\* one frame at a time, with nothing in the PCM ring.
SteadyRing(size) ==
  media.media_initialized =>
    \E n \in Nat :
      /\ media.sbc_bytes = n * size[media.cfg]
      /\ media.sbc_frames = Multiples(n, size[media.cfg])
      /\ n > 0 \/ media.audio = "running" => media.sbc_frame_size = size[media.cfg]

SteadyDecoder == decoded > 0 => decoded = 1 /\ media.pcm_frames = 0

SteadyInv(size) == SteadyRing(size) /\ SteadyDecoder

\* Before the first packet the ring is empty.
LEMMA InitSteadyInv ==
  ASSUME NEW size
  PROVE  Init => SteadyInv(size)
BY DEF Init, NoMedia, SteadyInv, SteadyRing, SteadyDecoder

\* With steady packets the cached size is that of the configuration.
LEMMA SteadyFrameSize ==
  ASSUME NEW size, Steady(size), NEW c \in Configs, NEW p \in Packets[c]
  PROVE  /\ FrameSize(p) = size[c] /\ size[c] \in Nat \ {0}
         /\ p.num_frames \in Nat \ {0}
         /\ p.bytes = p.num_frames * size[c] /\ p.ends = Multiples(p.num_frames, size[c])
<1>1. /\ size[c] \in Nat \ {0} /\ p.num_frames \in Nat \ {0}
      /\ p.bytes = p.num_frames * size[c] /\ p.ends = Multiples(p.num_frames, size[c])
  BY PacketFacts DEF Steady, Multiples
<1>2. (size[c] * p.num_frames) \div p.num_frames = size[c]
  BY <1>1, MultipleDiv
<1>3. size[c] * p.num_frames = p.num_frames * size[c]
  BY <1>1
<1> QED
  BY <1>1, <1>2, <1>3 DEF FrameSize

\* A playing player reads one frame.
LEMMA SteadyRead ==
  ASSUME NEW size, Steady(size), Inv, SteadyInv(size), pc = "playback", MoreToDecode
  PROVE  \E n \in Nat \ {0} :
           /\ media.media_initialized /\ media.cfg \in Configs
           /\ size[media.cfg] \in Nat \ {0} /\ media.sbc_frame_size = size[media.cfg]
           /\ media.sbc_bytes = n * size[media.cfg]
           /\ media.sbc_frames = Multiples(n, size[media.cfg])
           /\ FramesRead = {size[media.cfg]}
<1> DEFINE s == size[media.cfg]
<1>1. media.audio = "running" /\ media.media_initialized /\ media.cfg \in Configs
  BY DEF Inv, PlaybackInv, PlayerInv
<1>2. s \in Nat \ {0}
  BY <1>1 DEF Steady
<1>3. PICK n \in Nat : /\ media.sbc_bytes = n * s /\ media.sbc_frames = Multiples(n, s)
                       /\ media.sbc_frame_size = s
  BY <1>1 DEF SteadyInv, SteadyRing
<1>4. media.sbc_bytes >= s
  BY <1>3 DEF MoreToDecode
<1> HIDE DEF s
<1>5. n \in Nat \ {0}
  BY <1>2, <1>3, <1>4, MultipleTake
<1>6. FramesRead = {s}
  BY <1>2, <1>3, <1>5, MultiplesTake DEF FramesRead
<1> QED
  BY <1>1, <1>2, <1>3, <1>5, <1>6 DEF s

\* The ring is as it was when nothing it rests on changes, and when it is empty.
LEMMA SteadyKept ==
  ASSUME NEW size, SteadyRing(size),
         /\ media'.media_initialized = media.media_initialized /\ media'.cfg = media.cfg
         /\ media'.sbc_bytes = media.sbc_bytes /\ media'.sbc_frames = media.sbc_frames
         /\ media'.sbc_frame_size = media.sbc_frame_size /\ media'.audio = media.audio
  PROVE  SteadyRing(size)'
BY DEF SteadyRing

\* An empty ring holds no frames of any length.
LEMMA SteadyEmpty ==
  ASSUME NEW size, Steady(size), media'.sbc_bytes = 0, media'.sbc_frames = {},
         media'.audio # "running", media'.media_initialized => media'.cfg \in Configs
  PROVE  SteadyRing(size)'
<1> SUFFICES ASSUME media'.media_initialized
             PROVE  /\ 0 = 0 * size[media'.cfg] /\ {} = Multiples(0, size[media'.cfg])
                    /\ ~(0 > 0) /\ 0 \in Nat
  BY DEF SteadyRing
<1>1. size[media'.cfg] \in Nat
  BY DEF Steady
<1>2. 1..0 = {}
  OBVIOUS
<1> QED
  BY <1>1, <1>2 DEF Multiples

\* A packet adds whole frames of the same length.
LEMMA PacketSteady ==
  ASSUME NEW size, Steady(size), Inv, SteadyRing(size), NEW p \in AllPackets, MediaPacket(p)
  PROVE  SteadyRing(size)'
<1>0. /\ TypeOK /\ media \in MediaType /\ Outcomes \subseteq BOOLEAN
      /\ endpoint.media_cfg \in Configs /\ p \in Packets[endpoint.media_cfg]
  BY PacketArrives DEF Inv, TypeOK, Outcomes
<1>1. CASE ~HaveAudio
  <2>1. /\ media'.media_initialized = media.media_initialized /\ media'.cfg = media.cfg
        /\ media'.sbc_bytes = media.sbc_bytes /\ media'.sbc_frames = media.sbc_frames
        /\ media'.sbc_frame_size = media.sbc_frame_size /\ media'.audio = media.audio
    BY <1>0, <1>1 DEF MediaPacket, MediaType
  <2> QED
    BY <2>1, SteadyKept
<1>2. CASE HaveAudio
  <2> DEFINE fits == media.sbc_bytes + p.bytes <= SbcRingBytes
  <2>1. PICK ok \in BOOLEAN : media' = StartIfFilled(Compensate(Queue(media, p)), ok)
    BY <1>0, <1>2 DEF MediaPacket
  <2>2. /\ media'.media_initialized = media.media_initialized /\ media'.cfg = media.cfg
        /\ media'.sbc_frame_size = FrameSize(p)
        /\ media'.sbc_bytes = IF fits THEN media.sbc_bytes + p.bytes ELSE media.sbc_bytes
        /\ media'.sbc_frames = IF fits THEN Behind(media, p) ELSE media.sbc_frames
    BY <1>0, <2>1, PacketPlayer
  <2> SUFFICES ASSUME media.media_initialized PROVE SteadyRing(size)'
    BY <2>2 DEF SteadyRing
  <2> DEFINE s == size[media.cfg]
             m == p.num_frames
  <2>3. media.cfg = endpoint.media_cfg
    BY DEF Inv, PlayerInv
  <2>4. /\ FrameSize(p) = s /\ s \in Nat \ {0} /\ m \in Nat \ {0}
        /\ p.bytes = m * s /\ p.ends = Multiples(m, s)
    BY <1>0, <2>3, SteadyFrameSize
  <2>5. PICK n \in Nat : media.sbc_bytes = n * s /\ media.sbc_frames = Multiples(n, s)
    BY DEF SteadyRing
  <2> SUFFICES \E k \in Nat : media'.sbc_bytes = k * s /\ media'.sbc_frames = Multiples(k, s)
    BY <2>2, <2>4 DEF SteadyRing
  <2> HIDE DEF s, m, fits
  <2>6. CASE fits
    <3>1. media'.sbc_bytes = (n + m) * s
      BY <2>2, <2>4, <2>5, <2>6, MultipleAdd
    <3>2. Behind(media, p) = Multiples(n, s) \cup {n * s + e : e \in Multiples(m, s)}
      <4>1. {media.sbc_bytes + e : e \in p.ends} = {n * s + e : e \in Multiples(m, s)}
        BY <2>4, <2>5
      <4> QED
        BY <2>5, <4>1 DEF Behind
    <3>3. media'.sbc_frames = Multiples(n + m, s)
      <4>1. n \in Nat /\ m \in Nat /\ s \in Nat \ {0}
        BY <2>4
      <4>2. Multiples(n, s) \cup {n * s + e : e \in Multiples(m, s)} = Multiples(n + m, s)
        BY ONLY <4>1, MultiplesAppend
      <4> QED
        BY <2>2, <2>6, <3>2, <4>2
    <3> QED
      BY <2>4, <3>1, <3>3, n + m \in Nat
  <2>7. CASE ~fits
    BY <2>2, <2>5, <2>7
  <2> QED
    BY <2>6, <2>7
<1> QED
  BY <1>1, <1>2

\* A read leaves one frame fewer, and hands one to the decoder.
LEMMA ReadSteady ==
  ASSUME NEW size, Steady(size), Inv, SteadyInv(size), ReadFrame
  PROVE  SteadyRing(size)' /\ decoded' = 1 /\ media'.pcm_frames = 0
<1> DEFINE s == size[media.cfg]
<1>1. PICK n \in Nat \ {0} :
        /\ media.media_initialized /\ media.cfg \in Configs
        /\ s \in Nat \ {0} /\ media.sbc_frame_size = s
        /\ media.sbc_bytes = n * s /\ media.sbc_frames = Multiples(n, s)
        /\ FramesRead = {s}
  BY SteadyRead DEF ReadFrame
<1>2. /\ media'.media_initialized = media.media_initialized /\ media'.cfg = media.cfg
      /\ media'.sbc_frame_size = media.sbc_frame_size
      /\ media'.sbc_bytes = media.sbc_bytes - media.sbc_frame_size
      /\ media'.sbc_frames = {e - media.sbc_frame_size : e \in media.sbc_frames \ FramesRead}
      /\ media'.pcm_frames = media.pcm_frames
  BY ReadFacts DEF Inv
<1>3. s = media'.sbc_frame_size /\ s = size[media'.cfg]
  BY <1>1, <1>2
<1> HIDE DEF s
<1>4. n - 1 \in Nat /\ media'.sbc_bytes = (n - 1) * s
  <2>1. n * s >= s
    <3>1. n * s >= 1 * s
      BY <1>1, MultipleCompare, n >= 1
    <3> QED
      BY <1>1, <3>1
  <2> QED
    BY <1>1, <1>2, <2>1, MultipleTake
<1>5. media'.sbc_frames = Multiples(n - 1, s)
  BY <1>1, <1>2, MultiplesTake
<1>6. SteadyRing(size)'
  BY <1>3, <1>4, <1>5 DEF SteadyRing
<1>7. decoded' = 1
  BY <1>1, FS_Singleton DEF ReadFrame
<1>8. media'.pcm_frames = 0
  BY <1>2 DEF ReadFrame, MoreToDecode, Inv, PlaybackInv
<1> QED
  BY <1>6, <1>7, <1>8

\* Every step keeps whole frames of one length in the ring, and decodes one at a time.
LEMMA NextSteadyInv ==
  ASSUME NEW size, Steady(size)
  PROVE  Inv /\ Inv' /\ SteadyInv(size) /\ [Next]_vars => SteadyInv(size)'
<1> SUFFICES ASSUME Inv, Inv', SteadyInv(size), [Next]_vars PROVE SteadyInv(size)'
  OBVIOUS
<1> USE DEF app, console, playing, stack
<1>0. /\ media \in MediaType /\ SteadyRing(size) /\ SteadyDecoder /\ decoded \in Nat
      /\ pc = "run_loop" => decoded = 0
      /\ media'.media_initialized => media'.cfg \in Configs
  BY DEF Inv, TypeOK, PlaybackInv, PlayerInv, SteadyInv
<1>1. ASSUME pc = "run_loop", decoded' = decoded, SteadyRing(size)' PROVE SteadyInv(size)'
  BY <1>0, <1>1 DEF SteadyInv, SteadyDecoder
<1>2. CASE \/ EstablishStream \/ Disconnect
           \/ \E p \in Peers : SignalingConnected(p) \/ AvrcpConnected(p)
           \/ \E p \in Peers, c \in Configs : SbcConfiguration(p, c)
           \/ StreamEstablished \/ StreamFailed
  <2>1. UNCHANGED <<media, decoded>> /\ pc = "run_loop"
    BY <1>2 DEF EstablishStream, Disconnect, AvrcpConnected, SignalingConnected, SbcConfiguration,
                StreamEstablished, StreamFailed
  <2> QED
    BY <1>0, <1>1, <2>1, SteadyKept
<1>3. CASE StreamStarted
  <2>1. CASE media' = media
    BY <1>0, <1>1, <1>3, <2>1, SteadyKept DEF StreamStarted
  <2>2. CASE media'.sbc_bytes = 0 /\ media'.sbc_frames = {}
    <3>1. media'.audio # "running"
      BY <1>3, StartedPlayer DEF Inv
    <3>2. SteadyRing(size)'
      BY <1>0, <2>2, <3>1, SteadyEmpty
    <3> QED
      BY <1>1, <1>3, <3>2 DEF StreamStarted
  <2> QED
    BY <1>3, <2>1, <2>2, StartedPlayer DEF Inv
<1>4. CASE StreamSuspended
  <2>1. media' = media_processing_pause(media) /\ pc = "run_loop" /\ decoded' = decoded
    BY <1>4 DEF StreamSuspended
  <2>2. CASE media.media_initialized
    <3>1. media'.sbc_bytes = 0 /\ media'.sbc_frames = {} /\ media'.audio # "running"
      BY <1>0, <2>1, <2>2, PausePlayer
    <3>2. SteadyRing(size)'
      BY <1>0, <3>1, SteadyEmpty
    <3> QED
      BY <1>1, <2>1, <3>2
  <2>3. CASE ~media.media_initialized
    BY <1>0, <1>1, <2>1, <2>3, SteadyKept DEF media_processing_pause
  <2> QED
    BY <2>2, <2>3
<1>5. CASE StreamReleased \/ \E p \in Peers : SignalingReleased(p)
  <2>1. media' = media_processing_close(media) /\ pc = "run_loop" /\ decoded' = decoded
    BY <1>5 DEF StreamReleased, SignalingReleased
  <2>2. ~media'.media_initialized
    BY <1>0, <2>1, ClosePlayer DEF Inv, PlayerInv
  <2> QED
    BY <1>1, <2>1, <2>2 DEF SteadyRing
<1>6. ASSUME NEW p \in AllPackets, MediaPacket(p) PROVE SteadyInv(size)'
  <2>1. SteadyRing(size)'
    BY <1>0, <1>6, PacketSteady
  <2> QED
    BY <1>1, <1>6, <2>1 DEF MediaPacket
<1>7. CASE PlaybackReturn \/ \E n \in Requests : PlaybackRequest(n)
  <2>1. /\ media'.media_initialized = media.media_initialized /\ media'.cfg = media.cfg
        /\ media'.sbc_bytes = media.sbc_bytes /\ media'.sbc_frames = media.sbc_frames
        /\ media'.sbc_frame_size = media.sbc_frame_size /\ media'.audio = media.audio
    BY <1>0, <1>7 DEF PlaybackReturn, PlaybackRequest, MediaType
  <2>2. decoded' = 0
    BY <1>0, <1>7 DEF PlaybackReturn, PlaybackRequest
  <2> QED
    BY <1>0, <2>1, <2>2, SteadyKept DEF SteadyInv, SteadyDecoder
<1>8. CASE ReadFrame
  BY <1>8, ReadSteady DEF SteadyInv, SteadyDecoder
<1>9. ASSUME NEW r \in Resampled, handle_pcm_data(r) PROVE SteadyInv(size)'
  <2>1. media' = [media EXCEPT !.pcm_frames = media'.pcm_frames]
    BY <1>9, PcmFacts DEF Inv
  <2>2. /\ media'.media_initialized = media.media_initialized /\ media'.cfg = media.cfg
        /\ media'.sbc_bytes = media.sbc_bytes /\ media'.sbc_frames = media.sbc_frames
        /\ media'.sbc_frame_size = media.sbc_frame_size /\ media'.audio = media.audio
    BY <1>0, <2>1 DEF MediaType
  <2>3. decoded' = 0
    BY <1>0, <1>9 DEF handle_pcm_data, SteadyDecoder
  <2> QED
    BY <1>0, <2>2, <2>3, SteadyKept DEF SteadyInv, SteadyDecoder
<1>10. CASE UNCHANGED vars
  <2>1. UNCHANGED <<media, decoded>>
    BY <1>10 DEF vars
  <2> QED
    BY <1>0, <2>1, SteadyKept DEF SteadyInv, SteadyDecoder
<1> QED
  BY <1>2, <1>3, <1>4, <1>5, <1>6, <1>7, <1>8, <1>9, <1>10 DEF Next, A2dpEvent, Playback

-----------------------------------------------------------------------------
\* With frames of one length the ring holds whole frames of it, behind every order of
\* packets, pauses and new configurations.
LEMMA SteadyInvariance ==
  ASSUME NEW size, Steady(size)
  PROVE  Spec => []SteadyInv(size)
<1>1. Init => SteadyInv(size)
  BY InitSteadyInv
<1>2. Inv /\ Inv' /\ SteadyInv(size) /\ [Next]_vars => SteadyInv(size)'
  BY NextSteadyInv
<1> QED
  BY <1>1, <1>2, Invariance, PTL DEF Spec

\* A read of sbc_frame_size bytes takes one whole frame from the ring, as long as the
\* frames of a configuration have one length.
THEOREM OneFrameRead ==
  ASSUME NEW size, Steady(size)
  PROVE  Spec => []ReadsOneFrame
<1>1. Inv /\ SteadyInv(size) => ReadsOneFrame
  BY SteadyRead DEF ReadsOneFrame
<1> QED
  BY <1>1, Invariance, SteadyInvariance, PTL

\* What a request leaves of a decoded frame always has room in the PCM ring, as long as
\* the frames of a configuration have one length: handle_pcm_data drops no sample.
THEOREM NoSampleDropped ==
  ASSUME NEW size, Steady(size)
  PROVE  Spec => []SurplusFits
<1>1. Inv /\ SteadyInv(size) => SurplusFits
  <2> SUFFICES ASSUME Inv, SteadyInv(size), decoded > 0, NEW r \in Resampled
               PROVE  media.pcm_frames + (r - Smaller(r, request_frames)) <= PCM_FRAMES
    BY DEF SurplusFits
  <2>1. media.pcm_frames = 0
    BY DEF SteadyInv, SteadyDecoder
  <2>2. r \in Nat /\ r <= PCM_FRAMES /\ PCM_FRAMES \in Nat /\ request_frames \in Nat
    BY A2dpSinkAssumption DEF A2dpSinkAssumption, Inv, TypeOK
  <2> QED
    BY <2>1, <2>2, SmallerFacts
<1> QED
  BY <1>1, Invariance, SteadyInvariance, PTL

=============================================================================
