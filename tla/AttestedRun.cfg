SPECIFICATION FairSpec
CONSTANTS
  Units = {"token", "nl", "x"}
  Limit = 2
  TotalLimit = 1
  Width = 8
  Engines <- MCEngines
  MaxChanges = 1
  Required <- MCRequired
INVARIANTS
  TypeOK
  AdmissionBeforeWorker
  AttestationIsHonest
  SignedControlsWereApplied
  ResultNamesTheCause
PROPERTY EveryRequestIsRefused
