\* A crash inside delete, between the tombstone and the image files.
SPECIFICATION Spec
CONSTANTS
  None = None
  c1 = c1
  c2 = c2
  t1 = t1
  t2 = t2
  k1 = k1
  k2 = k2
  Conv = {c1}
  Turn = {t1}
  Key = {k1}
  Role = {"canvas"}
  Shown = {}
  Documents = {}
  Exported = {}
  LegacyItems = 0
  PageSize = 2
  RemovalFails = FALSE
  MaxEvents = 4
  MaxCalls = 1
  MaxFaults = 1
INVARIANTS
  DeletionRemovesImages
CHECK_DEADLOCK FALSE
