-------------------------------- MODULE Batch --------------------------------
(***************************************************************************)
(* Batches (src/src/batch.c, and the batch accounting of put.c and del.c): *)
(* threads that share a session start, fill, submit and abort batches.     *)
(* The session counts batches with lock-free counters, a batch counts its  *)
(* operations under a mutex, and the device has limits on both.            *)
(***************************************************************************)
EXTENDS Integers, FiniteSets

CONSTANTS
    Thread, Batch,
    Modulus,    \* of the unsigned counters (2^32 in the code)
    Retries,    \* compare-and-swap retries of b_atom_inc (1000 in the code)
    DevBats,    \* kl_devbatcnt, batches the device takes at a time
    BatOps,     \* kl_batopscnt, operations the device takes in a batch
    BatDels,    \* kl_batdelcnt, deletes among them
    BatLen,     \* kl_batlen, bytes the device takes in a batch
    MaxCalls    \* bound on the calls the threads make

KFIRSTBID == 1000

ASSUME BatchAssumption ==
    /\ Modulus \in Nat /\ Modulus > KFIRSTBID
    /\ IsFiniteSet(Thread) /\ IsFiniteSet(Batch)
    /\ Retries \in Nat /\ MaxCalls \in Nat
    /\ DevBats \in Nat /\ BatOps \in Nat /\ BatDels \in Nat /\ BatLen \in Nat

VARIABLES
    ks_bid,     \* session: next batch id
    ks_bats,    \* session: batches counted as active
    kb,         \* the batch structures
    thr,        \* what each thread is doing
    net,        \* start, end and abort requests on their way to the device
    active,     \* device: ids of the open batches
    exhausted,  \* history: has b_atom_inc used up its retries?
    calls       \* calls made so far

vars == <<ks_bid, ks_bats, kb, thr, net, active, exhausted, calls>>

\* A limit of 0 is no limit.
Over(n, limit) == limit > 0 /\ n > limit

\* start, end: how the batch requests went; kb_m: its mutex; sent, sentdels,
\* sentbytes: history of the operations that were handed to ktli_send.
NoKb == [bid |-> 0, ops |-> 0, dels |-> 0, bytes |-> 0, kb_m |-> "none",
         start |-> "none", end |-> "none", sent |-> 0, sentdels |-> 0,
         sentbytes |-> 0]
Idle == [pc |-> "idle", b |-> "none", type |-> "none", v |-> 0,
         tries |-> 0, resp |-> "none"]

Init ==
    /\ ks_bid = KFIRSTBID
    /\ ks_bats = 0
    /\ kb = [b \in Batch |-> NoKb]
    /\ thr = [t \in Thread |-> Idle]
    /\ net = {}
    /\ active = {}
    /\ exhausted = FALSE
    /\ calls = 0

At(t, pc) == thr[t].pc = pc
Set(t, f, x) == [thr EXCEPT ![t][f] = x]
Goto(t, pc) == thr' = Set(t, "pc", pc)
Return(t) == thr' = [thr EXCEPT ![t] = Idle]

----------------------------------------------------------------------------
\* Mutant: a plain load and store.
b_atom_incPlain(t, cur, new, i, ok, fail) ==
    /\ new = (thr[t].v + i) % Modulus
    /\ UNCHANGED exhausted
    /\ ok

(***************************************************************************)
(* b_atom_inc: a failed compare-and-swap reloads the counter and is tried  *)
(* again.  v is left with the value the counter had before.  When the last *)
(* retry succeeds the call reports a failure, and when it fails too the    *)
(* call reports a success although the counter has not moved.              *)
(***************************************************************************)
b_atom_inc(t, cur, new, i, ok, fail) ==
    LET v == thr[t].v
        last == thr[t].tries = 0
    IN  \/ /\ cur = v
           /\ new = (cur + i) % Modulus
           /\ exhausted' = (exhausted \/ last)
           /\ IF last THEN fail ELSE ok
        \/ /\ cur # v /\ last
           /\ new = cur
           /\ exhausted' = TRUE
           /\ ok
        \/ /\ cur # v /\ ~last
           /\ new = cur
           /\ thr' = [thr EXCEPT ![t].v = cur, ![t].tries = @ - 1]
           /\ UNCHANGED <<kb, exhausted>>

\* Enter b_atom_inc: the first load of the counter.
AtomLoad(t, pc, cur) ==
    thr' = [thr EXCEPT ![t].pc = pc, ![t].v = cur, ![t].tries = Retries]

----------------------------------------------------------------------------
(* b_batch_aio_generic *)

\* ki_create of a batch: b_startbatch.
StartBatch(t, b) ==
    /\ calls < MaxCalls /\ calls' = calls + 1
    /\ At(t, "idle")
    /\ kb[b].start = "none"
    /\ kb' = [kb EXCEPT ![b].start = "starting"]
    /\ thr' = [thr EXCEPT ![t] =
           [Idle EXCEPT !.pc = "bid", !.b = b, !.type = "START",
                        !.v = ks_bid, !.tries = Retries]]
    /\ UNCHANGED <<ks_bid, ks_bats, net, active, exhausted>>

\* kb_bid is the v of b_atom_inc, so it is stored in any case.  Without an
\* id the call returns, and so does ki_create, with a batch that looks
\* started.
TakeBid(t) ==
    /\ At(t, "bid")
    /\ LET b == thr[t].b
       IN  b_atom_inc(t, ks_bid, ks_bid', 1,
               /\ kb' = [kb EXCEPT ![b].bid = thr[t].v]
               /\ AtomLoad(t, "bats", ks_bats),
               /\ kb' = [kb EXCEPT ![b].bid = thr[t].v, ![b].start = "refused"]
               /\ Return(t))
    /\ UNCHANGED <<ks_bats, net, active, calls>>

CountBatch(t) ==
    /\ At(t, "bats")
    /\ b_atom_inc(t, ks_bats, ks_bats', 1,
           Goto(t, "limit") /\ UNCHANGED kb,
           kb' = [kb EXCEPT ![thr[t].b].start = "refused"] /\ Return(t))
    /\ UNCHANGED <<ks_bid, net, active, calls>>

\* Mutant: the limit is off by one more.
CheckLimitMore(t) ==
    /\ At(t, "limit")
    /\ IF Over(thr[t].v, DevBats + 1)
       THEN AtomLoad(t, "undo", ks_bats) /\ UNCHANGED kb
       ELSE /\ kb' = [kb EXCEPT ![thr[t].b].kb_m = "ready"]
            /\ Goto(t, "build")
    /\ UNCHANGED <<ks_bid, ks_bats, net, active, exhausted, calls>>

\* The limit test looks at the count before this batch.
CheckLimit(t) ==
    /\ At(t, "limit")
    /\ IF Over(thr[t].v, DevBats)
       THEN AtomLoad(t, "undo", ks_bats) /\ UNCHANGED kb
       ELSE /\ kb' = [kb EXCEPT ![thr[t].b].ops = 0, ![thr[t].b].dels = 0,
                                ![thr[t].b].bytes = 0,
                                ![thr[t].b].kb_m = "ready"]
            /\ Goto(t, "build")
    /\ UNCHANGED <<ks_bid, ks_bats, net, active, exhausted, calls>>

\* ki_create does not look at the status of b_startbatch: whatever came of
\* it, the caller has a batch that ki_validate_kb accepts.
Created == {"ok", "refused", "refusedbydev", "unknown"}

\* ki_submitbatch and ki_abortbatch; a caller does not end a batch again
\* once that has succeeded.
EndBatch(t, b, type) ==
    /\ calls < MaxCalls /\ calls' = calls + 1
    /\ At(t, "idle")
    /\ kb[b].start \in Created
    /\ kb[b].end # "ok"
    /\ kb[b].bid >= KFIRSTBID
    /\ thr' = [thr EXCEPT ![t] =
           [Idle EXCEPT !.pc = "build", !.b = b, !.type = type]]
    /\ UNCHANGED <<ks_bid, ks_bats, kb, net, active, exhausted>>

\* The kio, the message and the buffers are made and queued.
SendBatch(t) ==
    /\ At(t, "build")
    /\ net' = net \cup {[t |-> t, type |-> thr[t].type,
                         bid |-> kb[thr[t].b].bid, count |-> kb[thr[t].b].ops]}
    /\ Goto(t, "wait")
    /\ UNCHANGED <<ks_bid, ks_bats, kb, active, exhausted, calls>>

\* Mutant: the exit ladder does not take the batch off the count.
BuildFailsOnly(t) ==
    /\ At(t, "build")
    /\ kb' = [kb EXCEPT ![thr[t].b].start = IF @ = "starting" THEN "refused"
                                            ELSE @]
    /\ Return(t)
    /\ UNCHANGED <<ks_bid, ks_bats, net, active, exhausted, calls>>

\* One of the stages up to ktli_send fails: the exit ladder ends in bex_kb,
\* which takes a starting batch off the count again.
BuildFails(t) ==
    /\ At(t, "build")
    /\ IF thr[t].type = "START" THEN AtomLoad(t, "undo", ks_bats)
                                ELSE Return(t)
    /\ UNCHANGED <<ks_bid, ks_bats, kb, net, active, exhausted, calls>>

UndoCount(t) ==
    /\ At(t, "undo")
    /\ b_atom_inc(t, ks_bats, ks_bats', -1,
           /\ kb' = [kb EXCEPT ![thr[t].b].start = "refused",
                               ![thr[t].b].kb_m = "destroyed"]
           /\ Return(t),
           kb' = [kb EXCEPT ![thr[t].b].start = "refused"] /\ Return(t))
    /\ UNCHANGED <<ks_bid, net, active, calls>>

----------------------------------------------------------------------------
(* b_batch_aio_complete *)

\* How the outcome of a request changes the batch: a start that was not
\* answered may or may not have reached the device.
Outcome(b, type, krc) ==
    IF type = "START"
    THEN [kb EXCEPT ![b].start = CASE krc = "OK" -> "ok"
                                   [] krc = "ERR" -> "refusedbydev"
                                   [] OTHER -> "unknown"]
    ELSE [kb EXCEPT ![b].end = IF @ = "ok" THEN @ ELSE "failed"]

\* The device has answered.  Only a successful end or abort lowers the count.
CompleteBatch(t) ==
    /\ At(t, "wait")
    /\ thr[t].resp # "none"
    /\ IF thr[t].resp = "OK" /\ thr[t].type # "START"
       THEN AtomLoad(t, "dec", ks_bats) /\ UNCHANGED kb
       ELSE /\ kb' = Outcome(thr[t].b, thr[t].type, thr[t].resp)
            /\ Return(t)
    /\ UNCHANGED <<ks_bid, ks_bats, net, active, exhausted, calls>>

\* The request timed out or failed, or the session was lost: K_EINTERNAL.
LoseBatch(t) ==
    /\ At(t, "wait")
    /\ thr[t].resp = "none"
    /\ kb' = Outcome(thr[t].b, thr[t].type, "EINTERNAL")
    /\ Return(t)
    /\ UNCHANGED <<ks_bid, ks_bats, net, active, exhausted, calls>>

UncountBatch(t) ==
    /\ At(t, "dec")
    /\ LET b == thr[t].b
       IN  b_atom_inc(t, ks_bats, ks_bats', -1,
               /\ kb' = [kb EXCEPT ![b].end = "ok", ![b].kb_m = "destroyed"]
               /\ Return(t),
               kb' = [kb EXCEPT ![b].end = "ok"] /\ Return(t))
    /\ UNCHANGED <<ks_bid, net, active, calls>>

----------------------------------------------------------------------------
(* the batch part of p_put_aio_generic and d_del_aio_generic *)

BatchOp(t, b, type) ==
    /\ calls < MaxCalls /\ calls' = calls + 1
    /\ At(t, "idle")
    /\ kb[b].start \in Created
    /\ kb[b].end # "ok"
    /\ kb[b].bid >= KFIRSTBID
    /\ thr' = [thr EXCEPT ![t] =
           [Idle EXCEPT !.pc = "count", !.b = b, !.type = type]]
    /\ UNCHANGED <<ks_bid, ks_bats, kb, net, active, exhausted>>

Size(type) == IF type = "PUT" THEN 2 ELSE 1
Dels(type) == IF type = "DEL" THEN 1 ELSE 0

\* Mutant: a delete is not counted as an operation.
CountOpDels(t) ==
    /\ At(t, "count")
    /\ LET b == thr[t].b
       IN  kb' = [kb EXCEPT ![b].ops = @ + 1 - Dels(thr[t].type),
                            ![b].dels = @ + Dels(thr[t].type),
                            ![b].bytes = @ + Size(thr[t].type)]
    /\ Goto(t, "check")
    /\ UNCHANGED <<ks_bid, ks_bats, net, active, exhausted, calls>>

\* The operation is counted under kb_m ...
CountOp(t) ==
    /\ At(t, "count")
    /\ LET b == thr[t].b
       IN  kb' = [kb EXCEPT ![b].ops = @ + 1,
                            ![b].dels = @ + Dels(thr[t].type),
                            ![b].bytes = @ + Size(thr[t].type)]
    /\ Goto(t, "check")
    /\ UNCHANGED <<ks_bid, ks_bats, net, active, exhausted, calls>>

\* ... and the counts are compared with the limits after the unlock.
PutFits(b) == ~Over(kb[b].bytes, BatLen) /\ ~Over(kb[b].ops, BatOps)
\* Mutant: deletes are tested like puts.
DelFitsAsPut(b) == PutFits(b)

DelFits(b) == PutFits(b) /\ ~Over(kb[b].dels, BatDels)

CheckOp(t) ==
    /\ At(t, "check")
    /\ IF IF thr[t].type = "DEL" THEN DelFits(thr[t].b) ELSE PutFits(thr[t].b)
       THEN Goto(t, "opsend") ELSE Return(t)
    /\ UNCHANGED <<ks_bid, ks_bats, kb, net, active, exhausted, calls>>

\* ktli_send of the one-way request; the counts stay when it fails.
SendOp(t) ==
    /\ At(t, "opsend")
    /\ LET b == thr[t].b
       IN  \/ kb' = [kb EXCEPT ![b].sent = @ + 1,
                               ![b].sentdels = @ + Dels(thr[t].type),
                               ![b].sentbytes = @ + Size(thr[t].type)]
           \/ UNCHANGED kb
    /\ Return(t)
    /\ UNCHANGED <<ks_bid, ks_bats, net, active, exhausted, calls>>

----------------------------------------------------------------------------
(* the device *)

Answer(m, krc) ==
    thr' = IF At(m.t, "wait") /\ thr[m.t].type = m.type
              /\ kb[thr[m.t].b].bid = m.bid
           THEN Set(m.t, "resp", krc) ELSE thr

\* A start opens a batch or is refused, an end or abort closes an open one;
\* a request may be handled after its sender has stopped waiting.
DeviceStart(m) ==
    /\ m \in net /\ m.type = "START"
    /\ \/ active' = active \cup {m.bid} /\ Answer(m, "OK")
       \/ active' = active /\ Answer(m, "ERR")
    /\ net' = net \ {m}
    /\ UNCHANGED <<ks_bid, ks_bats, kb, exhausted, calls>>

DeviceEnd(m) ==
    /\ m \in net /\ m.type # "START"
    /\ \/ m.bid \in active /\ Answer(m, "OK")
       \/ Answer(m, "ERR")
    /\ active' = active \ {m.bid}
    /\ net' = net \ {m}
    /\ UNCHANGED <<ks_bid, ks_bats, kb, exhausted, calls>>

----------------------------------------------------------------------------
Step(t) ==
    \/ TakeBid(t) \/ CountBatch(t) \/ CheckLimit(t) \/ SendBatch(t)
    \/ BuildFails(t) \/ UndoCount(t) \/ CompleteBatch(t) \/ LoseBatch(t)
    \/ UncountBatch(t) \/ CountOp(t) \/ CheckOp(t) \/ SendOp(t)

Next ==
    \/ \E t \in Thread : Step(t)
    \/ \E t \in Thread, b \in Batch :
           \/ StartBatch(t, b)
           \/ EndBatch(t, b, "END") \/ EndBatch(t, b, "ABORT")
           \/ BatchOp(t, b, "PUT") \/ BatchOp(t, b, "DEL")
    \/ \E m \in net : DeviceStart(m) \/ DeviceEnd(m)

Spec == Init /\ [][Next]_vars

----------------------------------------------------------------------------
(* Properties *)

PCs == {"idle", "bid", "bats", "limit", "build", "undo", "wait", "dec",
        "count", "check", "opsend"}
BatchTypes == {"START", "END", "ABORT"}

KbType ==
    [bid : Nat, ops : Nat, dels : Nat, bytes : Nat,
     kb_m : {"none", "ready", "destroyed"},
     start : Created \cup {"none", "starting"}, end : {"none", "ok", "failed"},
     sent : Nat, sentdels : Nat, sentbytes : Nat]
ThrType ==
    [pc : PCs, b : Batch \cup {"none"},
     type : BatchTypes \cup {"PUT", "DEL", "none"},
     v : 0 .. Modulus - 1, tries : 0 .. Retries, resp : {"none", "OK", "ERR"}]
MsgType == [t : Thread, type : BatchTypes, bid : Nat, count : Nat]

\* Every variable holds a value of its kind: the counters are unsigned, all
\* ids in use are ids that b_atom_inc gave out, and a batch has no more
\* deletes than operations.
TypeOK ==
    /\ ks_bid \in KFIRSTBID .. Modulus - 1
    /\ ks_bats \in 0 .. Modulus - 1
    /\ kb \in [Batch -> KbType]
    /\ thr \in [Thread -> ThrType]
    /\ net \subseteq MsgType
    /\ \A b \in Batch : /\ kb[b].bid \in {0} \cup KFIRSTBID .. ks_bid
                        /\ kb[b].dels <= kb[b].ops
    /\ \A m \in net : m.bid \in KFIRSTBID .. ks_bid
    /\ active \subseteq KFIRSTBID .. ks_bid
    /\ exhausted \in BOOLEAN
    /\ calls \in 0 .. MaxCalls

\* Two batches of a session never carry the same id, however the threads
\* that create them interleave in b_atom_inc, as long as no call has used
\* up its retries.
BidsUnique ==
    ~exhausted =>
        \A a, b \in Batch :
            a # b /\ kb[a].bid # 0 => kb[a].bid # kb[b].bid

\* A batch holds a slot of the session's count from the moment it is counted
\* until a step of the code takes it off again.
HoldsSlot(b) ==
    \/ \E t \in Thread : /\ thr[t].b = b /\ thr[t].type = "START"
                         /\ thr[t].pc \in {"limit", "build", "wait", "undo"}
    \/ kb[b].start \in Created \ {"refused"} /\ kb[b].end # "ok"

\* ks_bats counts exactly the batches that hold a slot: a start that fails
\* before it is sent gives its slot back once, an end gives it back once
\* whether it is submitted or aborted, by one thread or by two.  A start the
\* device refused, or that was never answered, keeps its slot.
SlotAccounting ==
    ~exhausted => ks_bats = Cardinality({b \in Batch : HoldsSlot(b)})

\* The device never has more than one batch more open than its limit (one
\* more, because the test looks at the count before the batch), although the
\* count is raised, tested and lowered by different threads in separate
\* steps.
LimitKept ==
    ~exhausted /\ DevBats > 0 => Cardinality(active) <= DevBats + 1

\* The operations that reach ktli_send stay within the device's limits for a
\* batch, although threads count under the mutex and test after they have
\* released it.
BatchFits ==
    \A b \in Batch : /\ ~Over(kb[b].sent, BatOps)
                     /\ ~Over(kb[b].sentbytes, BatLen)
                     /\ ~Over(kb[b].sentdels, BatDels)
=============================================================================
