SPECIFICATION FairSpec
CONSTANTS
  w1 = w1
  w2 = w2
  w3 = w3
  Task = {w1, w2, w3}
  Text <- MCText
  Char = {"a", "b", "c", "nl", "cr"}
  CR = "cr"
  NL = "nl"
  Depth = 3
INVARIANTS
  LinesAreMerged
  RoomAfterTheTest
PROPERTY EveryTextIsWritten
