CONSTANTS
  o1 = o1
  f1 = f1
  r1 = r1
  r2 = r2
  r3 = r3
  Objects = {o1}
  Finalizers = {f1}
  Requests = {r1, r2, r3}
  LockedRequests = {r1}
  Readers = {r1, r2, r3}
  MaxOps = 2
  NoRow = NoRow
  FirstXid = 1
  XidModulus = 16
SPECIFICATION StoreSpec
SYMMETRY StoreSymmetry
CHECK_DEADLOCK FALSE
INVARIANTS
  StoreTypeOK
  NoZombie
  OutboxMatchesRows
PROPERTIES
  EveryWriteIsEnqueued
  LockedUpdateSeesFinalizers
  DeletionSticks
