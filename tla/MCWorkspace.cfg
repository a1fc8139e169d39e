SPECIFICATION WorkspaceSpec
CONSTANTS
  Folders = {"old"}
  OldFolder = "old"
  OldCanvases <- MCOldCanvases
  MaxCanvas = 3
  MaxCommands = 3
  MaxEdits = 1
  MaxBreaks = 0
INVARIANT FilesHoldTheirCanvas
CHECK_DEADLOCK FALSE
