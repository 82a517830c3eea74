SPECIFICATION ReaderSpec
CONSTANTS
  MaxFix = 3
  NoFix = {2}
  Overlap = 1
  Sent <- Receiver
INVARIANTS
  TokensCycle
  CutSentences
  NoPositionNoReport
PROPERTIES
  ReaderIsThread
CHECK_DEADLOCK FALSE
