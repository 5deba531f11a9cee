SPECIFICATION Both
CONSTANTS
  c1 = c1
  c2 = c2
  None = None
  Channel <- MCChannel
  Asked <- MCAsked
  Rows <- MCRows
  Ordinary <- MCOrdinary
  Flagged <- MCFlagged
  Limit = 8
  Room = 7
  SeqNumbers = 16
  Start = 0
  PageSize = 3
  BIN_HEAD_LEN = 1
  MaxData = 2
  Sent <- MCSent
  MaxFile = 7
  MaxTransfers = 2
INVARIANTS
  FramesInOrder
  EventsWhole
  UnitsAnswered
  OneAnswer
  ControlIsTold
  StoredIsTheFile
