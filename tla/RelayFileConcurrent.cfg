\* Two SendFile calls with the same base name and different files.
CONSTANTS
  s1 = s1
  s2 = s2
  Senders = {s1, s2}
  Content <- OwnContent
  Streams = {a, b}
  Inodes = {i1, i2, i3}
  None = None
  TotalChunks = 2
  AckBatch = 1
  MaxFaults = 0
  MaxCancels = 0
  MaxCrashes = 0
  DiskFull = FALSE
  TornWrites = FALSE
  Waiting = FALSE
  BothWays = FALSE
SPECIFICATION Spec
INVARIANT FinalIsComplete
