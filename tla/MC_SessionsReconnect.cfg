SPECIFICATION AgentSessionsSpec
CONSTANTS
  a1 = a1
  Conns = {c1, c2}
  Agents = {a1}
  Agent <- OneAdapter
  Calls = {k1}
  NoConn = NoConn
  TimerIds = {t1, t2, t3}
  NoTimer = NoTimer
  MaxStarts = 2
  PriorSessions = {1, 2, 3}
  WorkShapes <- MCShapes
  NoWork <- MCNoWork
  DigestBudgets = {0, 37}
  HorizonTicks = 2
  WindowTicks = 1
  RunningMaxAge = 2
  MaxCohort = 2
  CandidateLimit = 3
  MaxMidTurn = 2
  MinMessage = 2
  HeadCap = 2
  IndexCreatedMax = 2
  IndexTouchedMax = 1
  IndexStubLines = 3
  MarkupLen <- MCMarkup
  CaptureHooks = {h1, h2}
  TraceMemories = {e1}
  MaxTraceTurns = 2
  MaxTurnMessages = 2
  MaxRevisions = 2
  MaxHookRuns = 2
  MaxHookFaults = 2
INVARIANTS LeasesExact GraceSound RowsTrue HandoverTold
PROPERTIES RowsDurable TracesTrue
CHECK_DEADLOCK FALSE
