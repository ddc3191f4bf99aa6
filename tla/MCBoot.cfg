CONSTANTS
  NBlocks = 2
  RetryCount = 2
  Faults = {"data", "type", "reply", "frame"}
  MaxFaults = 9
SPECIFICATION FairSpec
INVARIANTS AnswersMatch AckedBlocksHold JumpRunsImage
PROPERTY RetriesEnd
CHECK_DEADLOCK FALSE
