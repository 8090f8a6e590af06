SPECIFICATION Spec
CONSTANTS
  NFD = 4
  MinDirFd = 2
  Names = {"a", "b"}
  MaxObjs = 3
  MaxData = 2
  OOM = TRUE
  MaxCalls = 5
CHECK_DEADLOCK FALSE
INVARIANTS RefCountsExact NamesAgree ContextsAlive
PROPERTIES TempGoesWithLast
