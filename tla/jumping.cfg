SPECIFICATION PersistentCaller
CONSTANTS
  Minute = 2
  Interval = 6
  Width = 32
  CollectorsCount = 2
  Unified = FALSE
  EmptyDumps = FALSE
  Grid <- MCGrid
  Archives <- LastCollectorArchive
  Requests <- TwoRequests
  Times = {7, 18, 24, 29}
  Clock = {29}
  Lag = 0
  Dense = FALSE
  AlignedStart = TRUE
  LiveAllowed = FALSE
CHECK_DEADLOCK FALSE
INVARIANTS TypeOK RecordsAreCurrent FlaggedTablesComplete CursorFitsTable BlankOnlyInGap
PROPERTIES NeverBack CatchesUpAtLast TablesFollowCursor
