SPECIFICATION HarnessSpec
CONSTANTS
  None = None
  th1 = th1
  th2 = th2
  f1 = f1
  f2 = f2
  t1 = t1
  r1 = r1
  r2 = r2
  Turn = {r1}
  Key = {r1, r2}
  Role = {"canvas"}
  Shown = {}
  Thread = {th1}
  Frozen = {f1}
  RoleOf <- MCRoleOf
  MaxInstances = 1
  MaxRows = 4
  MaxCrashes = 1
  MaxProcesses = 2
  MaxRequests = 2
  MaxUserTurns = 2
INVARIANTS
  TypeOK
  NoReplay
  SubmittedIsRecorded
  ReceiptsMatchResults
  OneModelTurn
PROPERTIES
  RequestsSettle
  CancelledIsNotSubmitted
  RunSettles
CHECK_DEADLOCK FALSE
