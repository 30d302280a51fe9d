\* One launcher, one account, one fault; identifier 1 is the system's.
SPECIFICATION Spec
CONSTANTS
  p1 = p1
  p2 = p2
  a = a
  b = b
  Procs = {p1}
  NoProc = NoProc
  Names = {a}
  Serves <- OneLauncher
  MaxId = 2
  Taken = {1}
  MaxFaults = 1
INVARIANTS
  LoadedOnceConfigured
