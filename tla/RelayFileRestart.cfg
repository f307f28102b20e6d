\* One SendFile, one fault, a restart of the receiver that may tear a write.
CONSTANTS
  s1 = s1
  s2 = s2
  Senders = {s1}
  Content <- SameContent
  Streams = {a, b, c}
  Inodes = {i1, i2, i3}
  None = None
  TotalChunks = 2
  AckBatch = 1
  MaxFaults = 1
  MaxCancels = 1
  MaxCrashes = 1
  DiskFull = FALSE
  TornWrites = TRUE
  Waiting = FALSE
  BothWays = FALSE
SPECIFICATION FairSpec
PROPERTIES DeliversFiles CallsReturn
