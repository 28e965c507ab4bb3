CONSTANTS
  vm = vm
  other = other
  p1 = p1
  p2 = p2
  Resources = {vm}
  Skipped = {other}
  FoldPods = {p1}
  RoundPods = {p1}
  RelayPods = {p1}
  MaxTime = 2
  MaxEvents = 2
  MaxLate = 0
  RelayBatch = 2
  MaxCrashes = 1
  MaxRestores = 1
  BackupsLate = TRUE
SPECIFICATION FairSpec
CHECK_DEADLOCK FALSE
INVARIANTS
  LedgerIsWhatWasSent
  RoundsAreComplete
PROPERTY
  BillingGoesOn
