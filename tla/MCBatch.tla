------------------------------- MODULE MCBatch -------------------------------
(* Two threads, three batches and a device that takes one at a time.      *)
EXTENDS Batch, TLC

Symmetry == Permutations(Thread) \cup Permutations(Batch)
=============================================================================
