\* An image file that cannot be removed fails delete after the tombstone is on disk.
SPECIFICATION Spec
CONSTANTS
  None = None
  c1 = c1
  c2 = c2
  t1 = t1
  t2 = t2
  k1 = k1
  k2 = k2
  Conv = {c1}
  Turn = {t1}
  Key = {k1}
  Role = {"canvas"}
  Shown = {}
  Documents = {}
  Exported = {}
  LegacyItems = 0
  PageSize = 2
  RemovalFails = TRUE
  MaxEvents = 5
  MaxCalls = 1
  MaxFaults = 1
INVARIANTS
  RowsAreContiguous
CHECK_DEADLOCK FALSE
