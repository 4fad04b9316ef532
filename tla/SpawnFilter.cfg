SPECIFICATION PatientSpec
CONSTANTS
  Leader = L
  Descendants = {}
  KillsGroup = FALSE
  Faults = {}
  PayloadLen = 2
  MaxOutput = 2
  InCap = 2
  OutCap = 2
  ReadBuffer = 2
  MaxProduced = 4
  Filter = TRUE
PROPERTY FilterSucceeds
