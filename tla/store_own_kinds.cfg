SPECIFICATION Spec
CONSTANTS
  e1 = e1
  e2 = e2
  s1 = s1
  s2 = s2
  NoSaver = NoSaver
  Erc <- MCErc
  Saver <- TwoSavers
  Saves <- OwnKinds
  MAX_NUM_EACH_ERC = 2
  EveMax = 3
  MaxTime = 0
  Bound <- TwoThreads
CHECK_DEADLOCK FALSE
INVARIANTS
  ErcBound
