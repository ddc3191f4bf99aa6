CONSTANTS
  N = 4
  Addrs = {a1, a2}
  NoReq = NoReq
  Arbiter = "rr"
  MaxWait = 2
SPECIFICATION DemuxFairSpec
INVARIANTS OneCustodian AnswerIsMine
PROPERTY CustodianServed
