SPECIFICATION BoundedSpec
CONSTANTS
  MaxRetransmissions = 3
  MaxReconnects = 3
  NumSamples = 5
  PostCycles = 10
  CommandAt = 1
  StatusAt = 2
  TransferAt = 3
  FileSize = 5
  ChunkSize = 2
  Modulus = 8
  SendBuffer = 2
  LinkMayFail = TRUE
  LinkMayStall = TRUE
  PeerPacket <- OnePacketPerType
  MaxQueue = 1
  MaxTelemetry = 4
INVARIANTS
  OpenTypeOK
  StateAtPoint
  NumbersIdentifyPackets
  TransferNotRepeated
PROPERTIES
  LegalTransitions
  ServerEnds
CHECK_DEADLOCK FALSE
