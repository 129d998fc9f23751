------------------------------ MODULE MCStream ------------------------------
(***************************************************************************)
(* Headers of two bytes.  Two messages sent, with and without an empty     *)
(* segment between two others; two received, one of them without a value;  *)
(* and one each way at the same time.                                      *)
(***************************************************************************)
EXTENDS Stream

MCLoads == {[req |-> <<<<2, 0, 2>>, <<2, 1, 2>>>>, rsp |-> <<>>],
            [req |-> <<>>, rsp |-> <<<<2, 1, 2>>, <<2, 2, 0>>>>],
            [req |-> <<<<2, 1>>>>, rsp |-> <<<<2, 1, 0>>>>]}
=============================================================================
