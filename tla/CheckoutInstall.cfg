\* Project, personal and shared checkouts; an orphan beside its retry and a
\* user at the target.
SPECIFICATION FairSpec
CONSTANTS
  Runs = {r1, r2}
  NoRun = NoRun
  FaultKinds = {"disconnect", "command", "power"}
  MaxFaults = 2
  MaxMeddles = 2
INVARIANTS
  TypeOK
  InstalledHonest
  InstallerFindsCheckout
PROPERTIES
  ImplementsDelivery
  EventuallyReady
