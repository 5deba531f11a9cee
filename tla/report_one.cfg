SPECIFICATION FairReportSpec
CONSTANTS
  e1 = e1
  s1 = s1
  c1 = c1
  c2 = c2
  NoSaver = NoSaver
  Erc <- OneErc
  Saver <- OneSaver
  Saves <- OneSaves
  Channel <- OneChannel
  MAX_NUM_EACH_ERC = 4
  EveMax = 4
  MaxTime = 0
  Bound <- TwoAndCrash
  Capacity = 1
  SeqRange = 8
  WireRange = 8
CHECK_DEADLOCK FALSE
INVARIANTS
  ReportedOnce
  ConfirmedNotQueued
PROPERTIES
  FlaggedIsQueued
  HeldIsReleased
