SPECIFICATION FairSpec
CONSTANTS
  Last = 1
  PageSize = 1
  Budget <- EveryFault
  Starts <- Mixes
INVARIANTS
  ReconcilerTypeOK
  RetryNotForgotten
PROPERTIES
  CanceledStaysCanceled
  AppliedAdvances
  Converges
