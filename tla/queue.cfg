SPECIFICATION Both
CONSTANTS
  a = a
  b = b
  t1 = t1
  t2 = t2
  Nothing = Nothing
  Event <- MCEvent
  QUEUEMAXSIZE = 4
  Thread <- MCThread
  ThreadEvent <- MCThreadEvent
  RingSize = 3
  MaxDrift = 3
  Measured <- Readings
  Watched <- Groups
  TIME <- Seconds
  BYTE = 3
  NO_VOLTAGE_U = 150
  NO_VOLTAGE_I = 5
  LOW_VOLTAGE_U = 190
  LOW_VOLTAGE_I = 5
  OVER_VOLTAGE_U = 260
  NO_PHSREGPQ_U = 130
  NO_PHSREGPQ_I = 2
  START_U = 130
  START_I = 1
  RATED_I = 100
  PHSREGPQ_ERR = 15
  CURRENT_PCT = 30
  VOLTAGE_PCT = 30
INVARIANTS
  CountIsLength
  
PROPERTIES
  FifoSpec
  ChangedAfterTime
