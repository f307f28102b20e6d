\* A file to the peer and one from it while ReceiveFile waits.
CONSTANTS
  s1 = s1
  s2 = s2
  Senders = {s1}
  Content <- SameContent
  Streams = {a, b, c}
  Inodes = {i1, i2, i3}
  None = None
  TotalChunks = 1
  AckBatch = 2
  MaxFaults = 0
  MaxCancels = 0
  MaxCrashes = 0
  DiskFull = FALSE
  TornWrites = FALSE
  Waiting = TRUE
  BothWays = TRUE
SPECIFICATION Spec
INVARIANT ReceivedMeansSaved
