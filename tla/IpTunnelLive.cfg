SPECIFICATION FairSpec
CONSTANTS
  a = a
  b = b
  s1 = s1
  s2 = s2
  s3 = s3
  s4 = s4
  h1 = h1
  h2 = h2
  w1 = w1
  w2 = w2
  ga = ga
  gb = gb
  None = None
  Nodes = {a, b}
  Streams = {s1, s2, s3}
  Hubs = {h1}
  Writers = {w1}
  Openers = {ga, gb}
  Home <- OneWriter
  MaxRetries = 2
  MaxFaults = 1
  Reaping = FALSE
PROPERTIES Stabilises WriteReturns
