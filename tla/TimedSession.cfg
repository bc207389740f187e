\* Ticks of 250 ms, and the waits and sleeps of the code.  Both processes may
\* take up to 500 ms for a step; the window of the client is 750 ms.
SPECIFICATION TimedFairSpec
CONSTANTS
  MaxRetransmissions = 3
  MaxReconnects = 3
  NumSamples = 5
  PostCycles = 10
  CommandAt = 2
  StatusAt = 3
  TransferAt = 5
  FileSize = 5
  ChunkSize = 2
  Modulus = 8
  SendBuffer = 2
  CountLimit = 4
  LinkMayFail = FALSE
  LinkMayStall = FALSE
  SocketTimeout = 20
  OptionalWait = 3
  MaxDrift = 120
  ConnectPause = 4
  SamplePause = 8
  WindowPause = 1
  ServerLag = 2
  ClientLag = 2
PROPERTIES
  PromptSessionSucceeds
