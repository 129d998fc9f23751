------------------------------- MODULE MCStore -------------------------------
(***************************************************************************)
(* Two clients and an iterator over four keys: two parts of a value, the   *)
(* key of the one-key calls and one that no client uses.  Two bytes fit    *)
(* into a key, two keys into a window.                                     *)
(***************************************************************************)
EXTENDS Store, TLC

MCKey == 0 .. 3
MCStored == {{}, {0, 1, 2, 3}}
Symmetry == Permutations(Client)

\* Three calls, for a failed put, a put and a get of the same value, or two
\* next to an iterator.
CallsBound == calls < 3 \/ it.pc = "new"

MCRanges == {[lo |-> 0, ilo |-> TRUE, hi |-> 3, ihi |-> TRUE, count |-> KVR_COUNT_INF],
             [lo |-> 0, ilo |-> FALSE, hi |-> 3, ihi |-> FALSE, count |-> 2],
             [lo |-> 0, ilo |-> TRUE, hi |-> 3, ihi |-> TRUE, count |-> 3]}
=============================================================================
