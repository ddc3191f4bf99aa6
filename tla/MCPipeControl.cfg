CONSTANTS
  PCs = 4
  Vals = 2
  NRegs = 3
  Code <- CodeControl
  Entry = 0
  Tvec = 3
  BadAddrs = {1}
  DivLatency = 1
  Waits = {0}
  FetchMiss = FALSE
  SkipHits = {}
  Bubbles <- BubblesControl
  Irqs = TRUE
SPECIFICATION Spec
PROPERTIES ProgramOrder TrapEntersVector
