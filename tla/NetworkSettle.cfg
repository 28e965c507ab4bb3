CONSTANTS
  s1 = s1
  s2 = s2
  s3 = s3
  Subnets = {s1, s2, s3}
  VirtualNetwork <- Networks
  Managers <- ManagersOfNetworks
  Starts <- Waiting
  LaunchesLate = TRUE
SPECIFICATION FairSpec
CHECK_DEADLOCK FALSE
PROPERTY
  SubnetsSettle
