SPECIFICATION Spec
CONSTANTS
  Script <- TwoMessages
  RingSize = 2
  DedupWindow = 2
  MaxDrops = 2
  MaxRecycles = 1
  MaxRetries = 1
  Assumed <- Spared
INVARIANTS
  TypeOK
  CaughtUp
PROPERTIES
  KeepsConversation
\* The session has said everything, or waits for a task nobody has to send.
CHECK_DEADLOCK FALSE
