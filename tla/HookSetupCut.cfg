\* The connection may drop while the hook is being sent.
SPECIFICATION Spec
CONSTANTS
  Runs = {r1, r2}
  NoRun = NoRun
  FaultKinds = {"disconnect"}
  MaxFaults = 1
  HookLength = 2
INVARIANTS
  MarkerMeansRan
