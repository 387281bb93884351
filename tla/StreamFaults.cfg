SPECIFICATION FairSpec
CONSTANTS
  Conns = {1, 2}
  None = None
  SENT_HISTORY_LIMIT = 2
  SENT_HISTORY_MAX_CHARS = 3
  Chars <- EventChars
  MaxSeq = 3
  MaxRunner = 2
  MaxDaemon = 2
  MaxUpset = 2
INVARIANTS TypeOK OnceInOrder NothingSkipped OnlyWrittenLeaves
PROPERTIES ReplayIsKept EventsArrive
CHECK_DEADLOCK FALSE
