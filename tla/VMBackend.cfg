SPECIFICATION Spec
CONSTANTS
  p1 = p1
  p2 = p2
  c1 = c1
  c2 = c2
  Procs = {p1, p2}
  Customs = {c1, c2}
  Locked = {c1}
  None = None
  Settings <- MCSettings
INVARIANTS
  TypeOK
  SelectionHonoured
  ForeignNeverProvisioned
  VerdictRests
PROPERTIES
  UserFileKept
  OperationsEnd
