-------------------------------- MODULE Iter --------------------------------
(***************************************************************************)
(* The key iterator (src/src/iter.c): it walks through a range by asking   *)
(* for windows of at most ki_maxkeyreq keys, the next one from the last    *)
(* key of the window before, exclusive.                                    *)
(***************************************************************************)
EXTENDS KvStore

CONSTANTS
    ki_maxkeyreq,   \* kl_rangekeycnt
    Ranges          \* the ranges asked for: lo, ilo, hi, ihi, count

KVR_COUNT_INF == -1

KeyRange == [lo : Int, ilo : BOOLEAN, hi : Int, ihi : BOOLEAN,
          count : Nat \cup {KVR_COUNT_INF}]

ASSUME IterAssumption ==
    /\ ki_maxkeyreq \in Nat \ {0}
    /\ Ranges \subseteq KeyRange

VARIABLE it         \* the iterator

\* rreq: the range asked for; start, istart: start key of the next window;
\* win: the keys of the current window; out: history of the keys returned.
\* pc: "bogus" once a key was returned that is not there.
NoIter == [pc |-> "new", rreq |-> <<>>, start |-> 0, istart |-> FALSE,
           win |-> <<>>, curkey |-> 0, seenkeys |-> 0, out |-> <<>>]

IterInit == it = NoIter

\* The count of a window.
Window(left) ==
    IF left = KVR_COUNT_INF \/ left > ki_maxkeyreq THEN ki_maxkeyreq ELSE left

\* The iterator i has fetched a window and returns its first key.  It looks
\* at kr_count, the number asked for, to see whether there is one, so that
\* an empty window gives a key from behind the table of keys.
Fetched(i) ==
    IF i.win = <<>> THEN [i EXCEPT !.pc = "bogus"]
    ELSE [i EXCEPT !.pc = "on", !.curkey = 0, !.seenkeys = @ + 1,
                   !.out = Append(@, i.win[1])]

\* No memory for a copy of the range, or an error from ki_getrange: NULL.
Stops == it' = [it EXCEPT !.pc = "end"] /\ UNCHANGED storevars

ki_start(kr) ==
    /\ it.pc = "new"
    /\ kr.count # 0
    /\ it' = Fetched([NoIter EXCEPT !.rreq = kr, !.start = kr.lo,
                          !.istart = kr.ilo,
                          !.win = KeysIn(kr.lo, kr.ilo, kr.hi, kr.ihi,
                                         Window(kr.count))])
    /\ present' = Has(db)
    /\ UNCHANGED <<db, late>>

StartFails == it.pc = "new" /\ Stops

\* The count of the range is used up.
NextDone ==
    /\ it.pc = "on"
    /\ it.rreq.count # KVR_COUNT_INF
    /\ it.seenkeys >= it.rreq.count
    /\ Stops

More == /\ it.pc = "on"
        /\ it.rreq.count = KVR_COUNT_INF \/ it.seenkeys < it.rreq.count

\* The next key of the window.
NextInWindow ==
    /\ More
    /\ it.curkey + 1 < Len(it.win)
    /\ it' = [it EXCEPT !.curkey = @ + 1, !.seenkeys = @ + 1,
                        !.out = Append(@, it.win[it.curkey + 2])]
    /\ UNCHANGED storevars

\* Mutant: the start key of the next window is inclusive.
NextWindowInclusive ==
    /\ More
    /\ it.curkey + 1 >= Len(it.win)
    /\ LET last == it.win[Len(it.win)]
       IN  it' = Fetched([it EXCEPT !.start = last,
                     !.win = KeysIn(last, TRUE, it.rreq.hi, it.rreq.ihi,
                                    ki_maxkeyreq)])
    /\ UNCHANGED storevars

\* The window is used up: fetch the one that follows its last key.
NextWindow ==
    /\ More
    /\ it.curkey + 1 >= Len(it.win)
    /\ LET last == it.win[Len(it.win)]
           left == IF it.rreq.count = KVR_COUNT_INF THEN KVR_COUNT_INF
                   ELSE it.rreq.count - it.seenkeys
       IN  it' = Fetched([it EXCEPT !.start = last, !.istart = FALSE,
                     !.win = KeysIn(last, FALSE, it.rreq.hi, it.rreq.ihi,
                                    Window(left))])
    /\ UNCHANGED storevars

NextFails == More /\ it.curkey + 1 >= Len(it.win) /\ Stops

\* An iterator can be started again with another range.
Restart ==
    /\ it.pc \in {"on", "end"}
    /\ it' = NoIter
    /\ present' = {}
    /\ UNCHANGED <<db, late>>

IterNext ==
    \/ \E kr \in Ranges : ki_start(kr)
    \/ StartFails \/ NextDone \/ NextInWindow \/ NextWindow \/ NextFails
    \/ Restart
=============================================================================
