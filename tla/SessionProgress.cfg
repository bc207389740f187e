\* As Session.cfg, with the fairness the properties over time need.
SPECIFICATION FairSpec
CONSTANTS
  MaxRetransmissions = 3
  MaxReconnects = 3
  NumSamples = 5
  PostCycles = 10
  CommandAt = 2
  StatusAt = 3
  TransferAt = 5
  FileSize = 5
  ChunkSize = 2
  Modulus = 8
  SendBuffer = 2
  CountLimit = 4
  LinkMayFail = TRUE
  LinkMayStall = TRUE
PROPERTIES
  CrossWaitIsFatal
  HandshakeRetryIsFatal
  ClientEnds
  CleanSessionSucceeds
