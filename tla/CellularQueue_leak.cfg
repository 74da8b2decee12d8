SPECIFICATION Spec
CONSTANTS
  QueueType = "droptail"
  packet_limit_ = 1
  byte_limit_ = 0
  Sizes = {1400}
  PACKET_SIZE = 1400
  heavy_pdo_schedule_ <- MCSchedule
  repeat_ = TRUE
  sizeof_iphdr = 20
  delay_pdo_traces_ <- MCTrace
  psize_latency_offset_ <- MCNoOffsets
  long_to_short_timer_ = 1
  WORD = 100000
  INT_MAX = 999
  MaxTime = 14
  MaxPackets = 5
  ArrivalEnd = 8
  MaxStall = 0
PROPERTIES
  LightPacketsSkipIdleLink
