SPECIFICATION Spec
CHECK_DEADLOCK FALSE
SYMMETRY MCSymmetry
CONSTANTS
  s1 = s1
  s2 = s2
  s3 = s3
  NaN = NaN
  Shells <- MCShells
  MaxOctet = 6
  HostAddresses = {2}
  WORD = 4096
  UINT = 1024
  HeavyLines <- MCHeavyLines
  TrainLines <- MCTrainLines
  OffsetLines <- MCOffsetLines
  QueueTypes = {"infinite", "droptail", "pie"}
  QueueArgs <- MCQueueArgs
  StartTimestamps = {0, 1}
  MaxLines = 3
INVARIANTS
  OwnAddresses
  BaseReachable
  AcceptedUsable
  LoadedAsFiled
