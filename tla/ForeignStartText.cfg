SPECIFICATION ForeignSpec
CONSTANTS
  UlongLimit = 32
  SizeLimit = 64
INVARIANT
  MalformedRejected
CHECK_DEADLOCK FALSE
