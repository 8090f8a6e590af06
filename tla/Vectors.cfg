SPECIFICATION VectorsSpec
CONSTANTS
  NmiSignal = TRUE
  MaxOps = 40
  TimerWhenToggled = FALSE
CHECK_DEADLOCK FALSE
INVARIANTS ExitRestoresHandlers ExitRestoresTimer ToggledBlocks NoSelfChain
