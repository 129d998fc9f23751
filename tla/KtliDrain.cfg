SPECIFICATION Spec
CONSTANTS
  Kio = {k1}
  ReqOnly = {}
  Unsol = {}
  NoKio = NoKio
  MaxSends = 1
  MaxConnect = 1
  MissIsNeg = TRUE
  Env = {"clock", "disconnect"}
INVARIANT NotStranded
CHECK_DEADLOCK FALSE
