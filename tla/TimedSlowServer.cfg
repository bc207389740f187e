\* Ticks of 5 s: the waits that end by SOCKET_TIMEOUT_MS are one tick, the
\* shorter waits and the sleeps none.  The server may take 50 s for a step.
SPECIFICATION TimedSpec
CONSTANTS
  MaxRetransmissions = 3
  MaxReconnects = 3
  NumSamples = 5
  PostCycles = 10
  CommandAt = 2
  StatusAt = 3
  TransferAt = 5
  FileSize = 5
  ChunkSize = 2
  Modulus = 8
  SendBuffer = 2
  CountLimit = 4
  LinkMayFail = FALSE
  LinkMayStall = FALSE
  SocketTimeout = 1
  OptionalWait = 0
  MaxDrift = 6
  ConnectPause = 0
  SamplePause = 0
  WindowPause = 0
  ServerLag = 10
  ClientLag = 0
INVARIANT
  TimedTypeOK
PROPERTY
  DepartedNotCounted
