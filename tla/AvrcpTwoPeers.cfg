CONSTANTS
  p1 = p1
  p2 = p2
  h1 = h1
  NoCid = NoCid
  NoHandle = NoHandle
  Peers <- TwoPeers
  Events <- SomeEvents
  Supported <- AllOrSome
  Handles <- OneHandle
  IMAGE_SIZE = 1
  MAX_FILES = 0
SPECIFICATION Spec
INVARIANTS
  CoverArtTracked
  CidNeverDangles
