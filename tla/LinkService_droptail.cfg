SPECIFICATION ServiceSpec
CONSTANTS
  QueueType = "droptail"
  packet_limit_ = 2
  byte_limit_ = 1800
  Sizes = {400, 1400}
  PACKET_SIZE = 1400
  heavy_pdo_schedule_ <- MCSchedule
  repeat_ = TRUE
  Times <- MCTimes
  MaxPackets = 3
  ClockMayStepBack = TRUE
INVARIANTS
  WithinLimits
  LinkAssertsHold
  LinkSizeCovers
  ServedAsIdealLink
