SPECIFICATION QueueSpec
CONSTANTS
  PACKET_SIZE = 1400
  QueueType = "drophead"
  packet_limit_ = 0
  byte_limit_ = 1500
  Sizes = {20, 700, 1400}
INVARIANTS
  QueueAssertsHold
