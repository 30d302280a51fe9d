\* Two launchers, two accounts, two faults; identifier 1 is the system's.
SPECIFICATION Spec
CONSTANTS
  p1 = p1
  p2 = p2
  a = a
  b = b
  Procs = {p1, p2}
  NoProc = NoProc
  Names = {a, b}
  Serves <- TwoLaunchers
  MaxId = 3
  Taken = {1}
  MaxFaults = 2
INVARIANTS
  TypeOK
  PhaseIsTrue
  LoadedUnlessCut
  DeniedBeforeOpen
  NeverRecycled
  KeyIsKept
PROPERTIES
  MovedWhenIdle
