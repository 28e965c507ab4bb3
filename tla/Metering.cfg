CONSTANTS
  vm = vm
  other = other
  p1 = p1
  p2 = p2
  Resources = {vm}
  Skipped = {}
  FoldPods = {p1}
  RoundPods = {p1}
  RelayPods = {p1}
  MaxTime = 3
  MaxEvents = 2
  MaxLate = 1
  RelayBatch = 2
  MaxCrashes = 1
  MaxRestores = 1
  BackupsLate = TRUE
SPECIFICATION Spec
CHECK_DEADLOCK FALSE
INVARIANTS
  MeteringTypeOK
  LedgerIsWhatWasSent
  NothingSkipped
  RoundsAreComplete
  HistoryFollowsLog
