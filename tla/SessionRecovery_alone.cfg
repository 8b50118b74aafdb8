\* One scanning task, with MAX_SESSION_RECOVERY_ATTEMPTS as in the code.
SPECIFICATION LiveSpec
CONSTANTS
  Scans = {s1}
  Presses = {}
  MaxAttempts = 2
  MaxRare = 3
INVARIANTS
  TypeOK
  RecoveriesBounded
PROPERTIES
  RefusalIsEvidence
  UpdateEnds
