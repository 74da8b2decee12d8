SPECIFICATION DelayServiceSpec
CONSTANTS
  PACKET_SIZE = 1400
  Sizes = {1400}
  sizeof_iphdr = 20
  delay_pdo_traces_ <- MCLateTrace
  psize_latency_offset_ <- MCNoOffsets
  long_to_short_timer_ = 1
  WORD = 100000
  INT_MAX = 999
  MaxTime = 4
  MaxPackets = 2
INVARIANTS
  BaseDelayInterpolated
