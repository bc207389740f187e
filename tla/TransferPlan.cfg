\* Payloads shorter than a chunk, of whole chunks and with a rest; sizes of two
\* digits.  Both conversions meet the largest number they can return: the sizes go
\* up to 14, and the checksum, which wraps at 16, is 15 for the payload of 6 bytes.
SPECIFICATION PlanSpec
CONSTANTS
  MaxFileSize = 14
  MaxChunkSize = 5
  Modulus = 16
  UlongLimit = 16
  SizeLimit = 15
INVARIANTS
  AnnouncementUnderstood
  ChunksPartitionPayload
  AcceptedExactlyWhenWhole
CHECK_DEADLOCK FALSE
