SPECIFICATION AnswersSpec
CONSTANTS
  Entities = {e1}
  Base = {"entity"}
  Texts = {x1}
  NoText = NoText
  NoKey = NoKey
  Tasks = {t1, t2}
  Capacity = 1
  MaxAttempts = 2
  MaxStarts = 1
  MaxEdits = 0
  Prompts = {r1}
  StartBudget = 1
  RetryBudget = 1
  RunningGrace = 2
  ClaimStale = 3
  MaxRetries = 2
  MaxSessionStarts = 2
  MaxKills = 1
  MemoryIds = {i1, i2}
  MaxListed = 1
  MaxPrompts = 2
  MaxCap = 2
  MaxTurns = 2
  MaxToolLines = 2
INVARIANTS PartsKept GatesBounded
PROPERTIES EveryJobEnds MarkersSettle TurnCloses
CHECK_DEADLOCK FALSE
