SPECIFICATION Spec
CONSTANTS
  Multiple = TRUE
  MaxDepth = 3
  MaxCalls = 2
  MaxPipes = 1
  PipeCalls = 2
  CMDLEN_LIMIT = 11
  CMDLINE_MAX = 12
  Programs <- MCPrograms
  SpawnArgs <- MCSpawnArgs
  Lines <- MCLines
  PipeLines <- MCPipeLines
  Texts <- MCTexts
  Responses <- MCResponses
  Matches <- MCMatches
  TmpNames <- MCTmpNames
  Shells = {"dos", "unix"}
  ShellLimits = {11, 13}
  Uses = {}
CHECK_DEADLOCK FALSE
INVARIANTS ArgsArrive NothingLeftBehind OutputInPlace ForeignArgs
