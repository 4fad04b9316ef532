SPECIFICATION Spec
CONSTANTS
  Leader = L
  Descendants = {}
  KillsGroup = FALSE
  Faults = {"intr"}
  PayloadLen = 1
  MaxOutput = 1
  InCap = 2
  OutCap = 2
  ReadBuffer = 2
  MaxProduced = 4
  Filter = FALSE
INVARIANTS
  SuccessIsNativeAndComplete
  CaptureIsExact
  BoundIsTheContents
  DeadlineHonoured
  CaptureFailureIsReset
  AnswerSurvives
  TimeoutIsReal
PROPERTY ImplementsConfinedRun
