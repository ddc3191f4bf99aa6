CONSTANTS
  Lines = 2
  LineSize = 2
  Tags = 3
  Used = {1, 2, 4, 8}
  Repeating = {TRUE}
  MaxWait = 1
  Flushes <- NoFlushes
  Stalls = {FALSE}
SPECIFICATION Spec
INVARIANT TagsTrue
