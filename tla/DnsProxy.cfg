SPECIFICATION FairSpec
CHECK_DEADLOCK FALSE
CONSTANTS
  Size = 3
  StreamLength <- MCStreamLength
  SocketBuffer = 2
  q1 = q1
  q2 = q2
  Queries = {q1, q2}
INVARIANTS
  BytesInOrder
  RelayAssertsHold
  ExitsComplete
  EndsExplained
PROPERTIES
  StreamsArrive
  RelayEnds
  RequestsServed
