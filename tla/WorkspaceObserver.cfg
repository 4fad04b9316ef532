SPECIFICATION Spec
CONSTANTS
  Trees <- MCTrees
  GivenRoots <- MCGivenRoots
  Raws <- MCRaws
  Denied <- MCDenied
  Writable <- MCWritable
  Steps <- MCSteps
  Names <- MCNames
INVARIANTS
  TypeOK
  AdmittedIsWhereItLeads
  RefusalIsDeserved
  EscapeNamesItsLink
