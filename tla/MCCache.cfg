CONSTANTS
  Lines = 2
  LineSize = 2
  Tags = 3
  Used = {1, 2, 4, 8}
  Repeating = {TRUE, FALSE}
  MaxWait = 1
  Flushes <- FlushReads
  Stalls = {FALSE}
SPECIFICATION FairSpec
INVARIANTS ReadsLatest TagsTrue
PROPERTY Answered
