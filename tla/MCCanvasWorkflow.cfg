SPECIFICATION Spec
CONSTANTS
  Nothing = Nothing
  u1 = u1
  u2 = u2
  u3 = u3
  n1 = n1
  n2 = n2
  n3 = n3
  p = p
  q = q
  Ids <- MCIds
  Refs = {p, q}
  UserScene <- MCUserScene
  Clipboard <- MCClipboard
  BuildTurns <- MCBuildTurns
  ReviewTurns <- MCReviewTurns
  MAX_ITERATIONS = 3
  MaxSends = 2
  MaxUserEdits = 1
  Edited = {u3, n1}
INVARIANTS
  TypeOK
  CallsAnsweredOnce
  ReviewStaysInScope
  ReportedIsSaved
  FrozenStayPut
  MessagesDeliveredOnce
PROPERTIES
  NothingAfterCancel
  PlanIsMaterialized
  SendEnds
CHECK_DEADLOCK FALSE
