\* The triggers early enough for the transfer: the command at the first of two
\* samples, the transfer at the second.  A header of five bytes and payloads of two
\* are about in the proportion of the code's.
SPECIFICATION ExchangeSpec
CONSTANTS
  HeaderSize = 5
  MaxPayload = 8
  PayloadSize = {2}
  AckSize = 2
  RequestSize = 2
  MaxRetransmissions = 3
  MaxReconnects = 3
  NumSamples = 2
  PostCycles = 10
  CommandAt = 1
  StatusAt = 3
  TransferAt = 2
INVARIANTS
  
  SurvivesStalls
