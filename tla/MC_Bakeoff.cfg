SPECIFICATION BakeoffSpec
CONSTANTS
  FreshExperiments = {x1, x2}
  FreshQueries <- MCFreshQueries
  RecordFiles <- MCRecordFiles
  ProtectedFamilies = {"fp"}
  ProtectedSources = {"p1"}
  IndexStates <- MCIndexStates
  FreshTop = 2
  RrfK = 60
  Discounts <- MCDiscounts
  PanelGrades = {0, 2}
  RunSpeeds <- MCRunSpeeds
  PacketSize = 2
  MinEffect = 10
  MaxSlower = 10
  MaxRedone = 1
  Unwritten = Unwritten
  Orchestrators = {o1, o2}
  Experiments = {s1, s2}
  Pipelines = {p1, p2}
  QueryFiles = {f1}
  MaxLedgerKills = 1
  MaxSigned = 3
  e1 = e1
  e2 = e2
  Contenders = {lex, col}
  Lexical = lex
  ColBert = col
  Docs = {e1, e2}
  SourceDocs = {e1}
  Roles = {j1, j2, j3}
  Opinions <- MCOpinions
  MaxRemakes <- MCMaxRemakes
  TopN = 1
  NotWritten = NotWritten
INVARIANTS FreshSound
PROPERTIES LedgerSound JudgingSound
SYMMETRY MCAlike
CHECK_DEADLOCK FALSE
