------------------------------- MODULE KvStore -------------------------------
(***************************************************************************)
(* The device as the layers above the requests see it: a map from ordered  *)
(* keys to values in which a put, a delete, a get and a range request are  *)
(* single steps.  Any request may fail, and one that was not answered may  *)
(* be executed all the same, at any time from then on (module Requests:    *)
(* Api).                                                                   *)
(***************************************************************************)
EXTENDS Integers, Sequences, FiniteSets, SequencesExt

CONSTANTS
    Key,        \* the keys of the device, integers in key order
    Stored      \* what the device may hold to begin with: sets of keys

ASSUME KeyAssumption ==
    /\ Key \subseteq Nat /\ IsFiniteSet(Key)
    /\ Stored \subseteq SUBSET Key

VARIABLES
    db,         \* device: the value of every key, Absent if it has none
    present,    \* history: the keys that were there all the time since the
                \* iteration was started
    late        \* puts and deletes that have failed for their caller and are
                \* still under way to the device: caller, key and value

storevars == <<db, present, late>>

Absent == [w |-> 0, i |-> 0, len |-> 0]

Has(m) == {k \in Key : m[k] # Absent}

Old(k) == [w |-> 0, i |-> k, len |-> 1]

StoreInit ==
    /\ \E s \in Stored : db = [k \in Key |-> IF k \in s THEN Old(k) ELSE Absent]
    /\ present = {}
    /\ late = {}

\* A put or delete that the device executes.
Store(k, v) ==
    /\ db' = [db EXCEPT ![k] = v]
    /\ present' = present \cap Has(db')

\* ki_put or ki_del of key k for call w: executed and acknowledged, or an
\* error.  An error that is a timeout or the loss of the answer leaves the
\* request under way: it is executed at once, after later requests, or never.
Update(w, k, v, ok) ==
    \/ ok /\ Store(k, v) /\ UNCHANGED late
    \/ /\ ~ok
       /\ late' \in {late, late \cup {[w |-> w, k |-> k, v |-> v]}}
       /\ UNCHANGED <<db, present>>

\* The device executes request u, whose call is over.
Arrives(u) ==
    /\ u \in late /\ late' = late \ {u}
    /\ Store(u.k, u.v)

\* Is key k in the range from lo to hi, inclusive or not?
Within(k, lo, ilo, hi, ihi) ==
    /\ k > lo \/ (ilo /\ k = lo)
    /\ k < hi \/ (ihi /\ k = hi)

\* The keys of S that are not above k.
UpTo(S, k) == {j \in S : j <= k}

\* The first n elements of S, in order.
FirstOf(S, n) ==
    [i \in 1 .. (IF n < Cardinality(S) THEN n ELSE Cardinality(S)) |->
        CHOOSE k \in S : Cardinality(UpTo(S, k)) = i]

\* ki_getrange: the first n keys of the range, in order.
KeysIn(lo, ilo, hi, ihi, n) ==
    FirstOf({k \in Has(db) : Within(k, lo, ilo, hi, ihi)}, n)
=============================================================================
