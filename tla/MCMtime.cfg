CONSTANTS
  W = 1
  Regs = {"lo", "hi", "cmplo", "cmphi"}
SPECIFICATION FairSpec
PROPERTIES WritesOwnData WriteEnds IrqSilenced
