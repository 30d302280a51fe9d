\* Every fault and a user at the target; an orphan beside its retry.
SPECIFICATION FairSpec
CONSTANTS
  Runs = {r1, r2}
  NoRun = NoRun
  FaultKinds = {"disconnect", "command", "power"}
  MaxFaults = 2
  MaxMeddles = 2
INVARIANTS
  TypeOK
  StampClosesGap
PROPERTIES
  UserWorkSurvives
  DeliveredOnce
  ImplementsDelivery
  OnlyTornMarkerBlocks
