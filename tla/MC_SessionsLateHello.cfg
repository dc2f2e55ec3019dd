SPECIFICATION SessionsSpec
CONSTANTS
  a1 = a1
  Conns = {c1, c2}
  Agents = {a1}
  Agent <- OneAdapter
  Calls = {k1}
  NoConn = NoConn
  TimerIds = {t1, t2, t3}
  NoTimer = NoTimer
  MaxStarts = 1
PROPERTIES GoodbyeIsFinal
CHECK_DEADLOCK FALSE
