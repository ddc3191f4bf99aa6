CONSTANTS
  Bits = 2
  Bytes <- MCBytes
  NoByte = NoByte
  TxDepth = 4
  Divs = {2, 3}
  Retune = "keeps"
SPECIFICATION FairSpec
INVARIANTS DeliversInOrder NothingLost
PROPERTIES WriteCompletes Drains
