\* The marker is written in place: a fault between open and write tears it.
SPECIFICATION FairSpec
CONSTANTS
  Runs = {r1, r2}
  NoRun = NoRun
  FaultKinds = {"disconnect", "command", "power"}
  MaxFaults = 1
  MaxMeddles = 0
PROPERTIES
  EventuallyReady
