CONSTANTS
  s1 = s1
  s2 = s2
  s3 = s3
  Subnets = {s1, s2, s3}
  VirtualNetwork <- Networks
  Managers <- ManagersOfNetworks
  Starts <- Faulty
  LaunchesLate = FALSE
SPECIFICATION Spec
SYMMETRY SubnetSymmetry
CHECK_DEADLOCK FALSE
INVARIANTS
  NetworkTaskTypeOK
  OneJobPerVirtualNetwork
  JobsAreTracked
  CleanedBeforeGone
PROPERTIES
  NotStartedIsRetried
