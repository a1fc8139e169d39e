\* What readers see, what the files hold, the lifecycle of turns, and their recovery.
SPECIFICATION TurnsSpec
CONSTANTS
  None = None
  c1 = c1
  c2 = c2
  t1 = t1
  t2 = t2
  k1 = k1
  k2 = k2
  Conv = {c1, c2}
  Turn = {t1, t2}
  Key = {k1}
  Role = {"canvas"}
  Shown = {"question"}
  Documents <- ShortDocuments
  Exported = {}
  LegacyItems = 0
  PageSize = 2
  RemovalFails = FALSE
  MaxEvents = 4
  MaxCalls = 2
  MaxFaults = 2
INVARIANTS
  TypeOK
  ReadableIsDurable
  RowsAreContiguous
  TurnsNeverOverlap
  EventsInsideTheirTurn
PROPERTIES
  FilesOnlyGrow
  ImplementsTurns
  NoTurnSurvivesRestart
  StoppedTurnsEnd
CHECK_DEADLOCK FALSE
