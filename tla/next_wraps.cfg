SPECIFICATION Spec
CONSTANTS
  Minute = 2
  Interval = 6
  Width = 32
  CollectorsCount = 1
  Unified = FALSE
  EmptyDumps = FALSE
  Grid <- MCGrid
  Archives <- GaplessArchive
  Requests <- OneRequest
  Times = {7, 12, 18, 24, 29}
  Clock = {29}
  Lag = 0
  Dense = TRUE
  AlignedStart = FALSE
  LiveAllowed = FALSE
CHECK_DEADLOCK FALSE
INVARIANT NextIsLater
