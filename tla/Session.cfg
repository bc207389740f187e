\* The counts and limits of common.hpp and server_logic.cpp, a payload of three
\* chunks (two full, one cut) and room for two chunks in the buffers.
SPECIFICATION Spec
CONSTANTS
  MaxRetransmissions = 3
  MaxReconnects = 3
  NumSamples = 5
  PostCycles = 10
  CommandAt = 2
  StatusAt = 3
  TransferAt = 5
  FileSize = 5
  ChunkSize = 2
  Modulus = 8
  SendBuffer = 2
  CountLimit = 4
  LinkMayFail = TRUE
  LinkMayStall = TRUE
INVARIANTS
  TypeOK
  TransferIntact
  TransferConfirmed
  CleanSessionAgreed
  AcknowledgedWithinCount
PROPERTIES
  ResponsesMatchRequests
  ImplementsContract
