SPECIFICATION ReportSpec
CONSTANTS
  e1 = e1
  s1 = s1
  c1 = c1
  c2 = c2
  NoSaver = NoSaver
  Erc <- OneErc
  Saver <- OneSaver
  Saves <- OneSaves
  Channel <- OneChannel
  MAX_NUM_EACH_ERC = 4
  EveMax = 4
  MaxTime = 0
  Bound <- ThreeEvents
  Capacity = 2
  SeqRange = 4
  WireRange = 2
CHECK_DEADLOCK FALSE
INVARIANT ConfirmedNotQueued
