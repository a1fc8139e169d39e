SPECIFICATION LayoutSpec
CONSTANTS
  Pages <- MCPages
  Openings <- MCOpenings
  Batches <- MCOpenings
  MaxBatches = 1
INVARIANT RowsStayWhole
CHECK_DEADLOCK FALSE
