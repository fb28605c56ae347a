SPECIFICATION Spec
CONSTANTS
  MaxU32 = 3
  MaxRecoveries = 2
  Window = 2
  QuarantineTime = 4
  EndTime = 6
INVARIANTS
  TypeOK
  BoundedRecovery
  FailureIsReported
PROPERTY OnlyEvidenceRelaxes
CHECK_DEADLOCK FALSE
