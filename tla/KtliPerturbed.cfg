SPECIFICATION Spec
CONSTANTS
  Kio = {k1, k2, b1}
  ReqOnly = {b1}
  Unsol = {}
  NoKio = NoKio
  MaxSends = 3
  MaxConnect = 1
  MissIsNeg = TRUE
  Env = {"clock", "stall", "garbled"}
INVARIANTS Custody BackPointers ResponseMatches
PROPERTY CompletionStable
CHECK_DEADLOCK FALSE
