SPECIFICATION Both
CONSTANTS
  a1 = a1
  a2 = a2
  a3 = a3
  s1 = s1
  s2 = s2
  r1 = r1
  r2 = r2
  w1 = w1
  w2 = w2
  NULL = NULL
  Address <- MCAddress
  MAX_TIMER_NUM = 2
  MaxLag = 1
  MaxSets = 1
  MaxBack = 1
  MaxConnects = 2
  Status <- MCStatus
  Random <- MCRandom
  Words <- MCWords
  MaxSwitches = 2
  Readings <- MCReadings
  GET_TA_STATUS_CNT = 2
  Authentications = 2
  MaxChanges = 2
CHECK_DEADLOCK FALSE
INVARIANTS
  OneBlinkTimer
  OwnAnswers
  PolledIsVerified
  GenuineAnswers
PROPERTIES
  PeriodicKept
  EveryTimerFires
  RecordsAreMeasured
  CallBackEnds
