\* Every fault, an orphan beside its retry, a hook of three commands.
SPECIFICATION FairSpec
CONSTANTS
  Runs = {r1, r2}
  NoRun = NoRun
  FaultKinds = {"disconnect", "command", "power"}
  MaxFaults = 3
  HookLength = 3
INVARIANTS
  TypeOK
  SkippedOnceSettled
PROPERTIES
  EventuallyReady
