------------------------------- MODULE MCKtli -------------------------------
(***************************************************************************)
(* The root module of the runs of Ktli.                                    *)
(***************************************************************************)
EXTENDS KtliCalm

\* No action or property tells one ordinary request from another.
Symmetry == Permutations(Kio \ ReqOnly)
=============================================================================
