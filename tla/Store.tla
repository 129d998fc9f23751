-------------------------------- MODULE Store --------------------------------
(***************************************************************************)
(* Clients of the basic key/value layer and a key iterator that work on    *)
(* the same device at the same time.                                       *)
(***************************************************************************)
EXTENDS BasicKV, Iter

vars == <<storevars, bkvvars, it>>

Init == StoreInit /\ BkvInit /\ IterInit

Next ==
    \/ \E c \in Client : BkvNext(c) /\ UNCHANGED it
    \/ LateExecution /\ UNCHANGED it
    \/ IterNext /\ UNCHANGED bkvvars

Spec == Init /\ [][Next]_vars

----------------------------------------------------------------------------
Parts(v) == [j \in 1 .. v.n |-> Part(v.w, v.vlen, v.n, j - 1)]

\* The length of the parts in s together.
Length(s) ==
    LET sum[i \in 0 .. Len(s)] == IF i = 0 THEN 0 ELSE sum[i - 1] + s[i].len
    IN  sum[Len(s)]

\* basickv.c: what bkv_getn hands back for the number of keys bkv_putn
\* returned is the value of that bkv_putn, all parts, in order, of the right
\* total length, when no multi-key call has overlapped or followed the put
\* before the get ended, and no request of an earlier one that failed was
\* executed as late as that; and a bkv_putn that fails at part i has touched
\* no part beyond i, and has all parts before i in the store, now and when
\* its own last request is executed late, as long as no other client's is.
ValuesExact ==
    /\ \A c \in Client :
           cl[c].op = "getn" /\ cl[c].rc > 0 /\ cl[c].clean =>
               cl[c].got = Parts(good) /\ Length(cl[c].got) = good.vlen
    /\ \A c \in Client :
           cl[c].op = "putn" /\ cl[c].rc = -1 /\ cl[c].clean =>
               \A k \in 0 .. BKV_N_MAXKEYS - 1 :
                   /\ k < cl[c].i =>
                          db[k] = Part(cl[c].w, cl[c].vlen, cl[c].n, k)
                   /\ k > cl[c].i => db[k] = before[k]

InRange(k) ==
    Within(k, it.rreq.lo, it.rreq.ilo, it.rreq.hi, it.rreq.ihi)

\* iter.c: whatever other clients store and delete meanwhile, the iterator
\* returns keys of the range in ascending order, none twice, at most as many
\* as asked for, and skips none that was there all the time; it returns a
\* key that does not exist only when it has been through all of those.
IterSound ==
    it.pc # "new" /\ it.out # <<>> =>
        LET passed == {k \in present : InRange(k) /\ k <= Last(it.out)}
            asked == it.rreq.count
        IN  /\ \A j \in DOMAIN it.out : InRange(it.out[j])
            /\ \A j \in 2 .. Len(it.out) : it.out[j - 1] < it.out[j]
            /\ passed \subseteq ToSet(it.out)
            /\ asked # KVR_COUNT_INF => Len(it.out) <= asked
            /\ it.pc = "bogus" =>
                   {k \in present : InRange(k)} \subseteq ToSet(it.out)
=============================================================================
