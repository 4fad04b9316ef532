SPECIFICATION Spec
SYMMETRY Symmetry
CONSTANTS
  Leader = L
  Descendants = {d1, d2}
  KillsGroup = TRUE
  Faults = {"spawn", "arm", "cap", "intr"}
  PayloadLen = 0
  MaxOutput = 0
  InCap = 2
  OutCap = 1
  ReadBuffer = 1
  MaxProduced = 2
  Filter = FALSE
INVARIANTS
  TypeOK
  StrangerNeverSignalled
  ClearedGroupIsDoomed
  SuccessLeavesNoGroup
