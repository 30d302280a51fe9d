\* Two finishes and an install-ssh share ~/.ssh/config; the user edits it
\* between them.
SPECIFICATION Spec
CONSTANTS
  Finishes = {f1, f2}
  Commands = {i1}
  MaxEdits = 2
  MaxFaults = 2
  ConcurrentEditor = FALSE
SYMMETRY Symmetry
INVARIANTS
  TypeOK
  UserTextKept
  AliasReachable
PROPERTIES
  BackupFirst
CHECK_DEADLOCK FALSE
