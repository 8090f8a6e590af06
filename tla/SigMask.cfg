SPECIFICATION MaskSpec
CONSTANTS
  SIGMAX = 4
  SIGKILL = 2
  SIGQUIT = 3
  MaxArrivals = 3
  MaxCalls = 1
  Sets = {{}, {0, 1}, {3}, {1, 2, 3}}
  Uses = {"query"}
CHECK_DEADLOCK FALSE
INVARIANTS BlockedIsSuspended UnblockedIsRestored PendingIsBlocked
