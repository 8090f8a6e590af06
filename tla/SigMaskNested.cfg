SPECIFICATION MaskSpec
CONSTANTS
  SIGMAX = 4
  SIGKILL = 3
  SIGQUIT = 2
  MaxArrivals = 3
  MaxCalls = 2
  Sets = {{1}, {2}}
  Uses = {"nested"}
CHECK_DEADLOCK FALSE
INVARIANT NoSignalLost
