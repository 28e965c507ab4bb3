CONSTANTS
  Versions = {1, 2}
  FirstVersion = 1
  MaxHistory = 2
  MaxJobs = 4
  Budget <- StaleCopies
  MaxFaults = 2
SPECIFICATION Spec
CHECK_DEADLOCK FALSE
INVARIANTS
  OneProvisionJob
