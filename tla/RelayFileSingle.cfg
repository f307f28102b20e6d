\* One SendFile and a waiting ReceiveFile, faults, timeouts, failed writes and a cancellation.
CONSTANTS
  s1 = s1
  s2 = s2
  Senders = {s1}
  Content <- SameContent
  Streams = {a, b, c}
  Inodes = {i1, i2, i3}
  None = None
  TotalChunks = 3
  AckBatch = 2
  MaxFaults = 2
  MaxCancels = 1
  MaxCrashes = 0
  DiskFull = FALSE
  TornWrites = FALSE
  Waiting = TRUE
  BothWays = TRUE
SPECIFICATION Spec
INVARIANTS IInv DiskInv BitmapIsOnDisk NoMutualWait FoundIsSaved
SYMMETRY Symmetry
CONSTRAINT SecondFaultAlone
