SPECIFICATION Spec
CONSTANT Width = 8
INVARIANTS
  TypeOK
  AccountIsExact
  RefusalHasACause
