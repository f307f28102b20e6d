\* A client that goes away in the middle of a download.
CONSTANTS
  MaxSend <- TwoAndOne
  Cap = 1
  MaxFaults = 0
SPECIFICATION PbFairSpec
PROPERTIES ClientGoneEnds
CHECK_DEADLOCK FALSE
