SPECIFICATION Spec
CONSTANTS
  RealExceptions = {0}
  MaxLimit = 2
  MaxDepth = 2
  MaxKeys = 1
  MaxCountdown = 1
  SetSigs = {"SIGINT", "SIGTIMR"}
  Changers = {"sbrk", "nearptr"}
CHECK_DEADLOCK FALSE
INVARIANTS NotLockedOut StatePtrLive FlaggedStopsProgram LimitCoversBreak
PROPERTIES RealFaultReported
