SPECIFICATION Spec
CONSTANTS
  Kio = {k1}
  ReqOnly = {k1}
  Unsol = {}
  NoKio = NoKio
  MaxSends = 2
  MaxConnect = 1
  MissIsNeg = TRUE
  Env = {"reuse"}
INVARIANT NeverAsserts
