CONSTANTS
  Versions = {1, 2}
  FirstVersion = 1
  MaxHistory = 2
  MaxJobs = 6
  Budget <- EveryKind
  MaxFaults = 2
SPECIFICATION FairSpec
CHECK_DEADLOCK FALSE
INVARIANTS
  ProvisioningTypeOK
  JobsAreSequential
  NoProvisionAfterCleanup
  CleanupBeforeGone
PROPERTIES
  Settles
