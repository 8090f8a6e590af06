SPECIFICATION Spec
CONSTANTS
  ALIGN = 8
  DATAOFFSET = 16
  MINSBRK = 64
  MAXSBRKS = 3
  WORD = 1024
  MAXREQUEST = 440
  NFLISTS = 10
  START = 64
  LIMIT = 300
  Requests = {0, 30}
  Counts = {2}
  Alignments = {32}
  Foreign = {12}
  MaxLive = 3
CHECK_DEADLOCK FALSE
INVARIANTS HeapSound NothingLeaked RequestsMet
PROPERTIES KeepsPromise
