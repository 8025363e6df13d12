SPECIFICATION Spec
CONSTANTS
  Script <- TwoMessages
  RingSize = 2
  DedupWindow = 2
  MaxDrops = 0
  MaxRecycles = 0
  MaxRetries = 0
  Assumed <- HistoryMayRace
PROPERTIES
  KeepsConversation
CHECK_DEADLOCK FALSE
