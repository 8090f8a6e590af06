SPECIFICATION ConsoleSpec
CONSTANTS
  MaxCol = 3
  MaxRow = 2
  Drivers = {"direct", "vbios"}
  Commands <- TheCommands
  Uses = {}
  MaxPieces = 2
CHECK_DEADLOCK FALSE
INVARIANTS WritesAsMeant TextVisible ExitRestoresVideo
