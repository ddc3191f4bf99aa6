CONSTANTS
  RomMax = 2
  HostMax = 3
  BlockSize = 3
  RetryCount = 1
  MaxFaults = 2
  Freq = 40
  DefaultSpeed = 5
  InitSpeed = 5
  Nonce = 77
  Hit <- MCHit
  Ram <- MCRam
  Ident <- MCIdent
  Returning <- MCReturning
  Noise <- MCNoise
  Upload <- MCUpload
  Sessions <- MCSessions
SPECIFICATION FairSpec
INVARIANTS ReadsMemory WritesMemory CallsAsAsked SpeedsAgree HangsOnlyAlone
PROPERTIES IsBoot SessionEnds
CHECK_DEADLOCK FALSE
