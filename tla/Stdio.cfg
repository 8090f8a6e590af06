SPECIFICATION Spec
CONSTANTS
  FILL = 1
  TB = 4
  BufSizes = {2}
  MaxBuf = 4
  Bytes = {"0", "a", "b", "c", "d", "e", "x", "n", "y", "z"}
  Cap = 6
  Contents <- FiveBytes
  Data <- ShortWrites
  Pushable = {"a", "z"}
  MaxRead = 3
  MaxCalls = 5
  Uses = {}
CHECK_DEADLOCK FALSE
INVARIANTS InsideBuffer NoGarbage
PROPERTIES ActsAsStream
