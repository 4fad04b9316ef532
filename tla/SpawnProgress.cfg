SPECIFICATION FairSpec
CONSTANTS
  Leader = L
  Descendants = {d1}
  KillsGroup = TRUE
  Faults = {"intr", "kill", "wait"}
  PayloadLen = 0
  MaxOutput = 0
  InCap = 1
  OutCap = 1
  ReadBuffer = 1
  MaxProduced = 1
  Filter = FALSE
PROPERTIES
  DeadlineEndsCapture
  SignalledRunEnds
