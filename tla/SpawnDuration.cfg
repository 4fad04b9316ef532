SPECIFICATION FairSpec
CONSTANTS
  Leader = L
  Descendants = {}
  KillsGroup = TRUE
  Faults = {}
  PayloadLen = 0
  MaxOutput = 0
  InCap = 2
  OutCap = 1
  ReadBuffer = 1
  MaxProduced = 1
  Filter = FALSE
PROPERTY DurationBoundsTheRun
