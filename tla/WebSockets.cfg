SPECIFICATION FairSpec
CONSTANTS
  Endpoints = {"terminal", "logs", "exec"}
  MaxSent = 3
  MaxInts = 1
  MaxOuts = 1
  Cap = 2
INVARIANTS SlotHeld NothingLost DoneIsLast WritersTakeTurns
PROPERTIES NoWorkAfterLogout Answered InterruptEnds NoOrphans
CHECK_DEADLOCK FALSE
