CONSTANTS
  p1 = p1
  p2 = p2
  c1 = c1
  c2 = c2
  NoCid = NoCid
  NoConfig = NoConfig
  Peers <- OnePeer
  HaveAudio = TRUE
  AudioFaults = FALSE
  Configs <- OneConfig
  Packets <- DualChannelPackets
  OPTIMAL_FRAMES_MIN = 60
  OPTIMAL_FRAMES_MAX = 80
  ADDITIONAL_FRAMES = 30
  MAX_SBC_FRAME_SIZE = 120
  PCM_FRAMES = 144
  Requests = {512}
  Resampled = {128}
  LATE_BYTES = 672
SPECIFICATION FairSpec
PROPERTIES
  StreamIsPlayed
