\* Two samples, windows and attempts, so that every loop goes round; a payload
\* of one chunk, so that a count of none, the right one and one more occur, and a
\* START that is refused.
SPECIFICATION BoundedClientSpec
CONSTANTS
  MaxRetransmissions = 2
  MaxReconnects = 2
  NumSamples = 2
  PostCycles = 2
  CommandAt = 1
  StatusAt = 2
  TransferAt = 3
  FileSize = 2
  ChunkSize = 2
  Modulus = 8
  SendBuffer = 2
  CountLimit = 3
  LinkMayFail = TRUE
  LinkMayStall = FALSE
  ServerPacket <- SmallServerPackets
  MaxQueue = 1
  MaxCount = 3
INVARIANTS
  OpenClientTypeOK
  ClientNumbersIdentifyPackets
  SuccessAfterAllSamples
PROPERTY
  ClientEndsAnyhow
CHECK_DEADLOCK FALSE
