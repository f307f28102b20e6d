\* Packets of both IP versions.
CONSTANTS
  Bytes = {0, 1, 255}
  MaxSegment = 3
SPECIFICATION ChecksumSpec
INVARIANT ChecksumVerifies
CHECK_DEADLOCK FALSE
