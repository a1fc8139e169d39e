SPECIFICATION Spec
CONSTANTS
  None = None
  th1 = th1
  th2 = th2
  f1 = f1
  f2 = f2
  t1 = t1
  r1 = r1
  r2 = r2
  Turn = {t1}
  Key = {r1, r2}
  Role = {"canvas"}
  Shown = {}
  Thread = {th1, th2}
  Frozen = {f1, f2}
  RoleOf <- MCRoleOf
  MaxInstances = 1
  MaxRows = 2
  MaxCrashes = 0
CONSTRAINT Undisturbed
INVARIANT SegmentsHoldContext
CHECK_DEADLOCK FALSE
