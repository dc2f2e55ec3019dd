SPECIFICATION LifetimeSpec
CONSTANTS
  a1 = a1
  Conns = {c1}
  Agents = {a1}
  Agent <- OneAdapter
  Calls = {k1}
  NoConn = NoConn
  TimerIds = {t1, t2, t3}
  NoTimer = NoTimer
  MaxStarts = 1
  MaxProcs = 2
  Adapters = {ad1}
  ProbeEvery = 1
  ProbeMisses = 2
  RespawnEvery = 1
  MaxTries = 2
  SpawnGap = 3
  StartCap = 5
  MaxFaults = 1
INVARIANTS OneOwner
PROPERTIES SessionsEnd ElectionEnds
CHECK_DEADLOCK FALSE
