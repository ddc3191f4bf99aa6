CONSTANTS
  PCs = 4
  Vals = 2
  NRegs = 3
  Code <- CodeData
  Entry = 0
  Tvec = 3
  BadAddrs = {}
  DivLatency = 1
  Waits = {0, 1}
  FetchMiss = TRUE
  SkipHits = {}
  Bubbles <- BubblesData
  Irqs = FALSE
SPECIFICATION FairSpec
INVARIANT CorrectionAddress
PROPERTIES ProgramOrder Progress
