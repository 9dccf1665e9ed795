SPECIFICATION Spec
CONSTANTS
  Minute = 6
  Interval = 18
  Width = 128
  Tables <- MCTables
  Stamps <- MCStamps
  Repeats = {0, 1}
  Used = {0, 1, 2, 3}
INVARIANTS LoopsAgree CurrentCovers NextSucceeds
PROPERTY SearchEnds
CHECK_DEADLOCK FALSE
