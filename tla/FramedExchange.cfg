\* The code's numbers of attempts and triggering counts; three samples reach the
\* first two exchanges.  As in the code, where a header has 48 bytes and these
\* payloads 18 to 28, a payload is shorter than a header.
SPECIFICATION ExchangeSpec
CONSTANTS
  HeaderSize = 3
  MaxPayload = 8
  PayloadSize = {1}
  AckSize = 1
  RequestSize = 1
  MaxRetransmissions = 3
  MaxReconnects = 3
  NumSamples = 3
  PostCycles = 10
  CommandAt = 2
  StatusAt = 3
  TransferAt = 5
INVARIANTS
  ExchangeTypeOK
  SurvivesStalls
