CONSTANTS
  p1 = p1
  p2 = p2
  h1 = h1
  NoCid = NoCid
  NoHandle = NoHandle
  Peers <- OnePeer
  Events <- MoreEvents
  Supported <- AllOrSome
  Handles <- OneHandle
  IMAGE_SIZE = 2
  MAX_FILES = 2
SPECIFICATION FairSpec
INVARIANTS
  TypeOK
  CidNamesConnection
  SupportedByTarget
  UidsWatched
  FileUsedCorrectly
  ThumbnailInFile
  UidsChangeDisconnects
PROPERTIES
  CoverArtIsTried
  DisconnectCompletes
