SPECIFICATION FairSpec
CONSTANTS
  QueueType = "infinite"
  packet_limit_ = 0
  byte_limit_ = 0
  Sizes = {700, 1400}
  PACKET_SIZE = 1400
  heavy_pdo_schedule_ <- MCSchedule
  repeat_ = TRUE
  sizeof_iphdr = 20
  delay_pdo_traces_ <- MCSparseTrace
  psize_latency_offset_ <- MCNoOffsets
  long_to_short_timer_ = 1
  WORD = 100000
  INT_MAX = 999
  MaxTime = 13
  MaxPackets = 3
  ArrivalEnd = 3
  MaxStall = 1
INVARIANTS
  DeliveredOnTime
  NoSleepOnWork
  LinkArrivalNotStale
PROPERTIES
  ImplementsFifoChannel
  EventuallyDelivered
  LightPacketsSkipIdleLink
