SPECIFICATION Spec
CONSTANTS
  Talks = {"a", "b"}
  PageSize = 2
  MaxEvents = 3
  MaxUserRuns = 2
  MaxSelects = 2
  MaxExits = 1
  MaxAside = 1
  Accounts = {"gpt"}
  Gateways = {"gateway"}
  MaxOps = 2
  MaxTroubles = 1
  Folders = {"old", "new"}
  OldFolder = "old"
  OldCanvases <- MCOldCanvases
  MaxCanvas = 4
  MaxCommands = 3
  MaxEdits = 2
  MaxBreaks = 1
  Roots = {"a", "b"}
  Paths = {"x", "y"}
  MaxActs = 3
  MaxTyped = 1
  Sources <- MCSources
  Tools <- MCTools
  MaxJournal = 6
  Pages <- MCPages
  Openings <- MCOpenings
  Batches <- MCBatches
  MaxBatches = 3
INVARIANTS
  SettledViewIsJournal
  CompletedHasItsRecords
  ConnectionIsCurrent
  LoginsAreOwned
  EditsSurvive
  WorkspaceIsWhole
  PanelsAgree
  TextIsShownOnce
  EndedTurnsRest
  PlacedIsClear
  RepairKeepsComposition
  RoutesHold
CHECK_DEADLOCK FALSE
