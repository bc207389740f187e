\* As Session.cfg, over a link that never fails: the counterexample needs slow
\* processes only.
SPECIFICATION FairSpec
CONSTANTS
  MaxRetransmissions = 3
  MaxReconnects = 3
  NumSamples = 5
  PostCycles = 10
  CommandAt = 2
  StatusAt = 3
  TransferAt = 5
  FileSize = 5
  ChunkSize = 2
  Modulus = 8
  SendBuffer = 2
  CountLimit = 4
  LinkMayFail = FALSE
  LinkMayStall = FALSE
PROPERTY
  AcknowledgedSampleCounted
