SPECIFICATION FairSpec
CONSTANTS
  QueueType = "drophead"
  packet_limit_ = 1
  byte_limit_ = 0
  Sizes = {150, 300, 400}
  PACKET_SIZE = 300
  heavy_pdo_schedule_ <- MCOnceSchedule
  repeat_ = FALSE
  sizeof_iphdr = 20
  delay_pdo_traces_ <- MCTrace
  psize_latency_offset_ <- MCOffsets
  long_to_short_timer_ = 1
  WORD = 100000
  INT_MAX = 999
  MaxTime = 15
  MaxPackets = 3
  ArrivalEnd = 5
  MaxStall = 1
INVARIANTS
  ReleaseOrder
  PdoAssertHolds
  ExitsDrained
PROPERTIES
  ImplementsFifoChannel
  EventuallyEnds
