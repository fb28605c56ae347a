SPECIFICATION Spec
CONSTANTS
  a = a
  b = b
  x = x
  y = y
  r2 = r2
  Recorder = {r1}
  Qualifier = {q}
  Artifact <- MCArtifact
  Escaping = Escaping
  Inner = Inner
  Outer = Outer
  Bytes <- MCBytes
  Absent = Absent
  NoDigest = NoDigest
  Request <- OneRequest
  Layout <- PlainLayout
  Given = {"plain", "bare"}
  Faults = {}
  Change <- MCChange
  MaxEdits = 0
INVARIANTS
  BareNameRecords
CHECK_DEADLOCK FALSE
