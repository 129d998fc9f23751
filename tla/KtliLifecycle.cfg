SPECIFICATION Spec
CONSTANTS
  Kio = {k1, k2, b1}
  ReqOnly = {b1}
  Unsol = {}
  NoKio = NoKio
  MaxSends = 2
  MaxConnect = 2
  MissIsNeg = TRUE
  Env = {"clock", "disconnect", "close", "fin", "rst"}
SYMMETRY Symmetry
INVARIANTS OneQueue ResponseMatches SubmissionOrder
PROPERTY CompletionStable
CHECK_DEADLOCK FALSE
