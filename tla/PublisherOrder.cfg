CONSTANTS
  o1 = o1
  o2 = o2
  r1 = r1
  r2 = r2
  t1 = t1
  Objects = {o1,o2}
  Finalizers = {}
  Requests = {r1,r2}
  LockedRequests = {}
  Readers = {}
  MaxOps = 2
  NoRow = NoRow
  FirstXid = 1
  XidModulus = 64
  Tenants = {t1}
  TenantOf <- OneTenant
  Unpublishable = {}
  BatchSize = 2
  MaxFailures = 2
  MaxCrashes = 0
SPECIFICATION Spec
SYMMETRY PublisherSymmetry
CHECK_DEADLOCK FALSE
INVARIANTS
  OlderTransactionFirst
  ConsumersConverge
