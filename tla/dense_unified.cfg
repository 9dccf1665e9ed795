SPECIFICATION Spec
CONSTANTS
  Minute = 2
  Interval = 6
  Width = 32
  CollectorsCount = 2
  Unified = TRUE
  EmptyDumps = FALSE
  Grid <- MCGrid
  Archives <- AnyArchive
  Requests <- ClosedRequests
  Times = {7, 12, 17, 18, 23, 29}
  Clock = {29}
  Lag = 0
  Dense = TRUE
  AlignedStart = TRUE
  LiveAllowed = FALSE
CHECK_DEADLOCK FALSE
INVARIANTS NewestDump NoAnswerInGap
PROPERTIES StableAnswers IsOracle
