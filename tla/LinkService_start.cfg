SPECIFICATION ServiceSpec
CONSTANTS
  QueueType = "infinite"
  packet_limit_ = 0
  byte_limit_ = 0
  Sizes = {1400}
  PACKET_SIZE = 1400
  heavy_pdo_schedule_ <- MCSchedule
  repeat_ = TRUE
  Times <- MCTimes
  MaxPackets = 1
  ClockMayStepBack = FALSE
PROPERTIES
  TraceStartsAtItsBeginning
