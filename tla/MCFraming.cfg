\* A header of four bytes; packets without a payload, with one shorter than a
\* header and with one longer, which a header-sized read from its middle does
\* not get across.  The size no packet may have is among those tried.
SPECIFICATION BoundedSpec
CONSTANTS
  HeaderSize = 4
  MaxPayload = 6
  PayloadSize = {0, 2, 6, 7}
  MaxPackets = 4
INVARIANTS
  FrameTypeOK
  AcceptedWhole
PROPERTY
  ImplementsPacketStream
CHECK_DEADLOCK FALSE
