SPECIFICATION BSpec
CONSTANTS
  Width = 100000
  MaxCount = 5
  MaxWindows = 8
  MaxInputLength = 128
  MaxSshLen = 1024
  Replies <- MCIrregular
  TokNr = 6
  RoaUrlsCount = 13
  MaxCalls = 1
CHECK_DEADLOCK FALSE
INVARIANT AnswerAsDocumented
