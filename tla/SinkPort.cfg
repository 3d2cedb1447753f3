CONSTANTS
  realtek = realtek
  zephyr = zephyr
  public = public
  static = static
  p1 = p1
  c1 = c1
  NoController = NoController
  NoAddress = NoAddress
  NoCid = NoCid
  NoConfig = NoConfig
  Controllers <- TwoControllers
  Vendor <- Vendors
  Addresses <- TwoAddresses
  PublicAddress <- Publics
  StaticAddress <- Statics
  Devices <- OnePeer
  LegacyDevices <- OnePeer
  Peers <- OnePeer
  HaveAudio = TRUE
  AudioFaults = TRUE
  Configs <- OneConfig
  Packets <- OneBytePackets
  OPTIMAL_FRAMES_MIN = 2
  OPTIMAL_FRAMES_MAX = 2
  ADDITIONAL_FRAMES = 1
  MAX_SBC_FRAME_SIZE = 1
  PCM_FRAMES = 2
  Requests = {2}
  Resampled = {1, 2}
  LATE_BYTES = 1
SPECIFICATION FairSystemSpec
INVARIANTS
  PortTypeOK
  BondsSurvive
  StoreOfController
  RecordingComplete
  CidNamesStream
  MediaFindsPlayer
PROPERTIES
  ShutdownEnds
