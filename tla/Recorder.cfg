SPECIFICATION RecorderSpec
CONSTANTS
  Runs = 3
  MaxLoss = 2
  Buffer = 2
CHECK_DEADLOCK FALSE
INVARIANTS
  ServerSurvives
  RunningIsServed
  FailuresExplained
PROPERTIES
  RunsEnd
  SendersEnd
