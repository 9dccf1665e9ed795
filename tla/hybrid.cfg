SPECIFICATION Spec
CONSTANTS
  Minute = 2
  Interval = 6
  Width = 32
  CollectorsCount = 1
  Unified = FALSE
  EmptyDumps = TRUE
  Grid <- MCGrid
  Archives <- GaplessArchive
  Requests <- OpenRequests
  Times = {13, 18, 19, 20, 24, 26}
  Clock = {14, 18, 19, 24, 25, 26, 29}
  Lag = 1
  Dense = FALSE
  AlignedStart = TRUE
  LiveAllowed = TRUE
CHECK_DEADLOCK FALSE
INVARIANTS CursorFitsTable ConnectionClosed
PROPERTIES NeverBack LiveIsFinal IsOracle UsesConnection
