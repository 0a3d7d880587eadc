SPECIFICATION FairSpec
CONSTANTS
  HashBlockSize = 4
  HashNumBlocks = 2
  BtBlockSize = 9
  BtNumBlocks = 2
  NumHashBytes = 2
  MatchMaxLen = 2
  HistorySize = 0
  KeepAddAfter = 0
  Reserve = 2
  MoveAlign = 2
  Sizes = {0, 38}
  Faults = {"read", "tree", "thread"}
INVARIANTS
  TypeOK
  BufferLocked
  HandshakesSound
  PositionsSound
PROPERTIES
  ImplementsFeed
  CallsReturn
