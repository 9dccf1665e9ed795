SPECIFICATION Spec
CONSTANTS
  Width = 100000
  MaxCount = 5
  MaxWindows = 8
  MaxInputLength = 128
  MaxSshLen = 1024
  Inputs <- MCInputs
CHECK_DEADLOCK FALSE
INVARIANTS TypeOK ManagerHasSockets AllFreed OptionsAsGiven
PROPERTY ImplementsConnection
