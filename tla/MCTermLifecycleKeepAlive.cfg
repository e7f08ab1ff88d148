SPECIFICATION Spec
CONSTANTS
  s1 = s1
  s2 = s2
  t1 = t1
  t2 = t2
  Terms <- MCTerms
  Sessions <- MCSessions
  MaxClients = 2
  None = None
  MaxCloses = 1
  Budget = 5
  PerTermMin = 1
  DefaultCap = 3
PROPERTY OthersKeepAlive
CHECK_DEADLOCK FALSE
