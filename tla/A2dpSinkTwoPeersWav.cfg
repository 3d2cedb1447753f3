CONSTANTS
  p1 = p1
  p2 = p2
  c1 = c1
  c2 = c2
  NoCid = NoCid
  NoConfig = NoConfig
  Peers <- TwoPeers
  HaveAudio = FALSE
  AudioFaults = FALSE
  Configs <- TwoConfigs
  Packets <- MixedPackets
  OPTIMAL_FRAMES_MIN = 2
  OPTIMAL_FRAMES_MAX = 2
  ADDITIONAL_FRAMES = 1
  MAX_SBC_FRAME_SIZE = 3
  PCM_FRAMES = 3
  Requests = {2, 5}
  Resampled = {0, 3}
  LATE_BYTES = 3
SPECIFICATION Spec
INVARIANTS
  MediaFindsPlayer
