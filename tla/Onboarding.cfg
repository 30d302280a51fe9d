\* A process with a terminal beside one without, two credentials.
SPECIFICATION FairSpec
CONSTANTS
  p1 = p1
  p2 = p2
  Procs = {p1, p2}
  Attended = {p1}
  NoProc = NoProc
  NCreds = 2
  MaxFaults = 2
INVARIANTS
  TypeOK
  InOrder
  HookHasCredentials
  OneScriptPerLock
PROPERTIES
  EventuallyReported
