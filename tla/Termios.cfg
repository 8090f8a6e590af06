SPECIFICATION Spec
CONSTANTS
  LineMax = 2
  QueueMax = 3
  KbdMax = 2
  Keys = {"a", "cr", "bs", "nak", "eot", "etx", "up", "dead"}
  Attributes <- TheAttributes
  ReadSizes = {2}
  MaxKeys = 4
  Margin = 1
CHECK_DEADLOCK FALSE
PROPERTIES ActsAsTty EchoFollowsLine LineEndsRead
