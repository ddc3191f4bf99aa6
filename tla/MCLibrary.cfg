CONSTANTS
  Size = 5
  Chars = {0, 90, 122}
  Cols = 16
  Symbols = {"0", "1", "9", "a", "x", "-", "g"}
SPECIFICATION FairSpec
INVARIANTS MovesWhole WritesText  TextRight
PROPERTY Returns
CHECK_DEADLOCK FALSE
