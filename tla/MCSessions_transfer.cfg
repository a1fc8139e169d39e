\* Export in pages and import in rows against everything else that can happen in between.
SPECIFICATION Spec
CONSTANTS
  None = None
  c1 = c1
  c2 = c2
  t1 = t1
  t2 = t2
  k1 = k1
  k2 = k2
  Conv = {c1}
  Turn = {t2}
  Key = {k2}
  Role = {"canvas"}
  Shown = {"text"}
  Documents <- MCDocuments
  Exported = {c1}
  LegacyItems = 2
  PageSize = 2
  RemovalFails = TRUE
  MaxEvents = 5
  MaxCalls = 1
  MaxFaults = 2
INVARIANTS
  ExportIsSnapshot
  ImportsPublishWhole
CHECK_DEADLOCK FALSE
