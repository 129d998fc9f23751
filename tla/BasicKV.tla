------------------------------- MODULE BasicKV -------------------------------
(***************************************************************************)
(* The basic key/value layer (src/src/basickv.c): one-key calls, and calls *)
(* that spread a value over the keys "key.000", "key.001", ... with one    *)
(* request after the other.  Part i of the value of length vlen that call  *)
(* w stores is the record [w, i, len].                                     *)
(***************************************************************************)
EXTENDS KvStore

CONSTANTS
    Client,
    KEYLEN, VALLEN,     \* kl_keylen, kl_vallen
    BKV_N_MAXKEYS,      \* keys of a value (256 in the code)
    KLens, VLens,       \* lengths of keys and values the callers use
    MaxCalls            \* bound on the calls made

ASSUME BasicKVAssumption ==
    /\ KEYLEN \in Nat \ {0} /\ VALLEN \in Nat \ {0}
    /\ BKV_N_MAXKEYS \in Nat /\ KLens \subseteq Nat /\ VLens \subseteq Nat
    /\ MaxCalls \in Nat
    /\ 0 .. BKV_N_MAXKEYS \subseteq Key

VARIABLES
    cl,         \* the clients: the call each is in, and its result
    calls,      \* calls made
    good,       \* history: the value the last multi-key call left, if whole
    before      \* history: the store when the last multi-key put began

bkvvars == <<cl, calls, good, before>>

BKV_N_MAXKEYS_DIGITS == 3
Plain == BKV_N_MAXKEYS          \* the key of the one-key calls

NoCall == [op |-> "none", w |-> 0, n |-> 0, vlen |-> 0, i |-> 0,
           got |-> <<>>, rc |-> 0, clean |-> FALSE]
NoValue == [w |-> 0, n |-> 0, vlen |-> 0]

BkvInit ==
    /\ cl = [c \in Client |-> NoCall]
    /\ calls = 0
    /\ good = NoValue
    /\ before = db

Busy(c) == cl[c].op # "none" /\ cl[c].rc = 0
Writing(c) == Busy(c) /\ cl[c].op \in {"putn", "deln"}

\* The limits of the key, with room for the index; a length of 0 stands for
\* a missing argument.
KeyFits(klen) == klen > 0 /\ ~(klen > KEYLEN)
KeyFitsN(klen) == klen > 0 /\ ~(klen + 1 + BKV_N_MAXKEYS_DIGITS > KEYLEN)

\* The number of keys a value takes, and the length of part i.
NumKeys(vlen) == (vlen \div VALLEN) + (IF vlen % VALLEN # 0 THEN 1 ELSE 0)

\* Mutant: the last part always has the remainder's length.
PartLenRemainder(vlen, n, i) == IF i = n - 1 THEN vlen % VALLEN ELSE VALLEN

PartLen(vlen, n, i) ==
    IF i = n - 1 /\ vlen % VALLEN # 0 THEN vlen % VALLEN ELSE VALLEN

Part(w, vlen, n, i) == [w |-> w, i |-> i, len |-> PartLen(vlen, n, i)]

\* A call starts, with its arguments checked, or is refused at once.  A
\* writer that starts spoils what other clients are reading.
Start(c, ok, rec, writes) ==
    /\ ~Busy(c)
    /\ calls < MaxCalls /\ calls' = calls + 1
    /\ LET spoils == ok /\ writes
           new == IF ok THEN rec ELSE [NoCall EXCEPT !.op = rec.op, !.rc = -1]
       IN  /\ cl' = [d \in Client |->
                 IF d = c THEN new
                 ELSE [cl[d] EXCEPT !.clean = @ /\ ~spoils]]
           /\ good' = IF spoils THEN NoValue ELSE good
    /\ UNCHANGED storevars

bkv_putn(c, klen, vlen) ==
    LET n == NumKeys(vlen)
        ok == KeyFitsN(klen) /\ vlen > 0 /\ ~(n > BKV_N_MAXKEYS)
    IN  /\ Start(c, ok, [NoCall EXCEPT !.op = "putn", !.w = calls + 1,
                             !.n = n, !.vlen = vlen,
                             !.clean = ~\E d \in Client : Writing(d)], TRUE)
        /\ before' = IF ok THEN db ELSE before

\* Mutant: the last request may fail.
PutPartUnchecked(c) ==
    LET r == cl[c]
        next == [r EXCEPT !.i = @ + 1]
    IN  /\ Busy(c) /\ r.op = "putn"
        /\ \E ok \in BOOLEAN :
              /\ Update(r.w, r.i, Part(r.w, r.vlen, r.n, r.i), ok)
              /\ cl' = [cl EXCEPT ![c] =
                     CASE next.i = r.n -> [next EXCEPT !.rc = r.n]
                       [] ~ok /\ next.i # r.n -> [r EXCEPT !.rc = -1]
                       [] OTHER -> next]
              /\ good' = IF cl'[c].rc = r.n /\ r.clean
                         THEN [w |-> r.w, n |-> r.n, vlen |-> r.vlen]
                         ELSE good
        /\ UNCHANGED <<calls, before>>

\* One round of the loop; the first request that fails ends the call.
PutPart(c) ==
    LET r == cl[c]
        next == [r EXCEPT !.i = @ + 1]
    IN  /\ Busy(c) /\ r.op = "putn"
        /\ \E ok \in BOOLEAN :
              /\ Update(r.w, r.i, Part(r.w, r.vlen, r.n, r.i), ok)
              /\ cl' = [cl EXCEPT ![c] =
                     CASE ~ok -> [r EXCEPT !.rc = -1]
                       [] ok /\ next.i = r.n -> [next EXCEPT !.rc = r.n]
                       [] OTHER -> next]
              /\ good' = IF cl'[c].rc = r.n /\ r.clean
                         THEN [w |-> r.w, n |-> r.n, vlen |-> r.vlen]
                         ELSE good
        /\ UNCHANGED <<calls, before>>

\* n is what a bkv_putn has returned, or not.
bkv_getn(c, klen, n) ==
    /\ Start(c, KeyFitsN(klen) /\ n > 0 /\ ~(n > BKV_N_MAXKEYS),
             [NoCall EXCEPT !.op = "getn", !.n = n,
                  !.clean = good # NoValue /\ n = good.n], FALSE)
    /\ UNCHANGED before

\* A part that is not there, an error, and at the end a buffer that cannot
\* be allocated give the caller nothing.
GetPart(c) ==
    LET r == cl[c]
        next == [r EXCEPT !.got = Append(@, db[r.i]), !.i = @ + 1]
    IN  /\ Busy(c) /\ r.op = "getn"
        /\ \E ok \in BOOLEAN :
              /\ ok => db[r.i] # Absent
              /\ cl' = [cl EXCEPT ![c] =
                     CASE ~ok -> [r EXCEPT !.rc = -1, !.got = <<>>]
                       [] ok /\ next.i = r.n -> [next EXCEPT !.rc = r.n]
                       [] OTHER -> next]
        /\ UNCHANGED <<calls, good, before>> /\ UNCHANGED storevars

bkv_deln(c, klen, n) ==
    /\ Start(c, KeyFitsN(klen) /\ n > 0 /\ ~(n > BKV_N_MAXKEYS),
             [NoCall EXCEPT !.op = "deln", !.w = calls + 1, !.n = n], TRUE)
    /\ UNCHANGED before

DelPart(c) ==
    LET r == cl[c]
        next == [r EXCEPT !.i = @ + 1]
    IN  /\ Busy(c) /\ r.op = "deln"
        /\ \E ok \in BOOLEAN :
              /\ Update(r.w, r.i, Absent, ok)
              /\ cl' = [cl EXCEPT ![c] =
                     CASE ~ok -> [r EXCEPT !.rc = -1]
                       [] ok /\ next.i = r.n -> [next EXCEPT !.rc = r.n]
                       [] OTHER -> next]
        /\ UNCHANGED <<calls, good, before>>

\* A request whose call has failed is executed after all.  One for part of a
\* value spoils what the other calls store and read, as their own would not.
LateExecution ==
    \E u \in late :
        LET spoils == u.k # Plain
        IN  /\ Arrives(u)
            /\ cl' = [d \in Client |->
                   [cl[d] EXCEPT !.clean = @ /\ (spoils => cl[d].w = u.w)]]
            /\ good' = IF spoils THEN NoValue ELSE good
            /\ UNCHANGED <<calls, before>>

----------------------------------------------------------------------------
\* The one-key calls: bkv_put, bkv_get, bkv_del and bkv_exists.
One(c, op, rc, got) ==
    /\ ~Busy(c)
    /\ calls < MaxCalls /\ calls' = calls + 1
    /\ cl' = [cl EXCEPT ![c] = [NoCall EXCEPT !.op = op, !.got = got,
                                              !.rc = rc]]
    /\ UNCHANGED <<good, before>>

\* bkv_put leaves the length of the value to ki_validate_kv.
bkv_put(c, klen, vlen) ==
    \/ /\ KeyFits(klen) /\ vlen <= VALLEN
       /\ \E ok \in BOOLEAN :
              /\ Update(calls + 1, Plain,
                        [w |-> calls + 1, i |-> 0, len |-> vlen], ok)
              /\ One(c, "put", IF ok THEN 1 ELSE -1, <<>>)
    \/ /\ ~KeyFits(klen) \/ vlen > VALLEN
       /\ One(c, "put", -1, <<>>) /\ UNCHANGED storevars

bkv_get(c, klen) ==
    /\ \/ /\ KeyFits(klen) /\ db[Plain] # Absent
          /\ One(c, "get", 1, <<db[Plain]>>)
       \/ One(c, "get", -1, <<>>)
    /\ UNCHANGED storevars

bkv_del(c, klen) ==
    \/ /\ KeyFits(klen)
       /\ \E ok \in BOOLEAN :
              /\ Update(calls + 1, Plain, Absent, ok)
              /\ One(c, "del", IF ok THEN 1 ELSE -1, <<>>)
    \/ /\ ~KeyFits(klen)
       /\ One(c, "del", -1, <<>>) /\ UNCHANGED storevars

bkv_exists(c, klen) ==
    /\ \/ KeyFits(klen) /\ One(c, "exists", IF db[Plain] # Absent THEN 1 ELSE 2,
                               <<>>)
       \/ One(c, "exists", -1, <<>>)
    /\ UNCHANGED storevars

BkvNext(c) ==
    \/ \E klen \in KLens, vlen \in VLens :
           bkv_putn(c, klen, vlen) \/ bkv_put(c, klen, vlen)
    \/ \E klen \in KLens, n \in 0 .. BKV_N_MAXKEYS + 1 :
           bkv_getn(c, klen, n) \/ bkv_deln(c, klen, n)
    \/ \E klen \in KLens :
           bkv_get(c, klen) \/ bkv_del(c, klen) \/ bkv_exists(c, klen)
    \/ PutPart(c) \/ GetPart(c) \/ DelPart(c)
=============================================================================
