SPECIFICATION FairSpec
CONSTANTS
  Kio = {k1, k2}
  ReqOnly = {}
  Unsol = {u1}
  NoKio = NoKio
  MaxSends = 3
  MaxConnect = 1
  MissIsNeg = TRUE
  Env = {"clock", "reuse"}
INVARIANTS TypeOK Custody BackPointers ResponseMatches SubmissionOrder NoCrash CalmInv
PROPERTIES CompletionStable RpcSpec Completes
