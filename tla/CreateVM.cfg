\* Three creates of one name, tried again after failures and deletions.  The
\* system stops when the name is taken and no deletion is left.
SPECIFICATION Spec
CONSTANTS
  Creates = {c1, c2, c3}
  None = None
  MaxFaults = 2
  MaxDeletes = 2
SYMMETRY Symmetry
INVARIANTS
  TypeOK
  ManifestIsComplete
  OneCreate
CHECK_DEADLOCK FALSE
