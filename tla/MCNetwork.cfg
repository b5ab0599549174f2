SPECIFICATION Spec
CONSTANTS
  NSock = 1
  RING = 4
  NArp = 1
  Stations = {"gw", "host"}
  MaxArrived = 3
  Servers = {"s1", "s2"}
  Sizes = {1, 2}
  FULL = 2
  DNSMAX = 2
  Polls = 2
  MaxCalls = 2
  NConns = 1
  RXBUF = 3
  MSS = 2
  Windows = {2}
  Limits <- MCLimits
  NRX = 3
  NTX = 3
  MaxFrames = 6
  MaxSent = 4
INVARIANTS
  TypeOK
  BytesExact
  AnswersAreOwn
  CardTrue
  
PROPERTY
  CallsReturn
CHECK_DEADLOCK FALSE
