SPECIFICATION FairSpec
CONSTANTS
  RealExceptions = {0}
  MaxLimit = 1
  MaxDepth = 2
  MaxKeys = 2
  MaxCountdown = 1
  SetSigs = {"SIGINT", "SIGTIMR"}
  Changers = {}
CHECK_DEADLOCK FALSE
PROPERTIES PendingIsDelivered TimerServed
