SPECIFICATION BSpec
CONSTANTS
  Width = 100000
  MaxCount = 5
  MaxWindows = 8
  MaxInputLength = 128
  MaxSshLen = 1024
  Replies <- MCReplies
  TokNr = 6
  RoaUrlsCount = 13
  MaxCalls = 3
CHECK_DEADLOCK FALSE
INVARIANTS BTypeOK TokensMatch CutOffRefused AcceptedIsWhole LookupFinds
PROPERTIES NothingLost EachCallIsOneStep CallEnds
