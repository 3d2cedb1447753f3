CONSTANTS
  NoVolume = NoVolume
  NoStatus = NoStatus
  StackVolume = 0
SPECIFICATION Spec
INVARIANTS
  TypeOK
  VolumeInSync
  PeerInformed
PROPERTIES
  KeysAreHeard
  EchoSettles
