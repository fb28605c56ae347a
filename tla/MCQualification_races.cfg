SPECIFICATION Spec
CONSTANTS
  a = a
  b = b
  x = x
  y = y
  r2 = r2
  Recorder = {r1, r2}
  Qualifier = {q}
  Artifact <- MCArtifact
  Escaping = Escaping
  Inner = Inner
  Outer = Outer
  Bytes <- MCBytes
  Absent = Absent
  NoDigest = NoDigest
  Request <- AllRequests
  Layout <- MCLayout
  Given = {"plain", "bare", "linked"}
  Faults = {"clock", "write", "kill"}
  Change <- MCChange
  MaxEdits = 1
INVARIANTS
  TypeOK
  QualifiedWasBound
  LevelsAreOrdered
  UndisturbedIsIntact
  RecordedIsQualifiable
PROPERTIES
  RecordWrittenOnce
CHECK_DEADLOCK FALSE
