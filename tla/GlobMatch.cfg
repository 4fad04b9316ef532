SPECIFICATION Spec
CONSTANTS
  Chars <- MCChars
  Inputs <- MCInputs
INVARIANTS
  TypeOK
  CostIsBounded
  VerdictIsTheLanguages
  NothingIsLost
