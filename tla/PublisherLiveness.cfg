CONSTANTS
  o1 = o1
  o2 = o2
  r1 = r1
  r2 = r2
  t1 = t1
  Objects = {o1,o2}
  Finalizers = {}
  Requests = {r1,r2}
  LockedRequests = {}
  Readers = {r1}
  MaxOps = 1
  NoRow = NoRow
  FirstXid = 1
  XidModulus = 64
  Tenants = {t1}
  TenantOf <- OneTenant
  Unpublishable = {o2}
  BatchSize = 2
  MaxFailures = 2
  MaxCrashes = 1
SPECIFICATION FairSpec
CHECK_DEADLOCK FALSE
PROPERTIES
  EventuallyPublished
  ImplementsEventLog
INVARIANTS
  PublisherTypeOK
  NoPhantomEvents
  NoLostChange
