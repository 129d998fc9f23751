------------------------------ MODULE Requests ------------------------------
(***************************************************************************)
(* The request API of libkinetic: threads that share a session call the    *)
(* synchronous and the aio form of each operation, complete aio requests   *)
(* with ki_aio_complete, and update the session's statistics, while the    *)
(* session answers, times out, fails and is lost.                          *)
(***************************************************************************)
EXTENDS KvOps, CtlOps

CONSTANT Workloads

(***************************************************************************)
(* A workload bounds what the callers do: the operations and modes used,   *)
(* which threads make how many calls, the arguments (kv, get, app, log,    *)
(* range, and kb: a batch or none), at which stages a call may be turned   *)
(* away, and how requests come back (outs).                                *)
(***************************************************************************)
ASSUME WorkloadsAssumption ==
    \A w \in Workloads :
        /\ w.modes \subseteq {"sync", "aio"}
        /\ w.kv \subseteq KvArgs
        /\ w.kb \subseteq Optional(KbArgs)
        /\ \A in \in w.get : in.kv \in KvArgs /\ in.alt \in Optional(KvArgs)
        /\ \A app \in w.app :
               /\ app.fnkeys \in Seq(KvArgs) /\ app.outkey \in Optional(KvArgs)
               /\ app.fntype \in FnTypes \cup {"unset"}
               /\ app.magic \in BOOLEAN /\ app.flagsok \in BOOLEAN
        /\ w.log \subseteq LogArgs
        /\ w.range \subseteq RangeArgs

VARIABLE load                   \* the workload of this behaviour

PutOps == {"put", "cas"}
DelOps == {"del", "cad"}
GetOps == {"get", "getnext", "getvers"}
WaitOps == {"getlog", "getrange"}   \* send and wait in one function

Family(op) ==
    CASE op \in PutOps -> "puts" [] op \in DelOps -> "dels"
      [] op \in GetOps -> "gets" [] op = "exec" -> "execs"
      [] op = "noop" -> "noops" [] op = "flush" -> "flushs"

Init == KioInit /\ load \in Workloads

----------------------------------------------------------------------------
\* The call of thread t, if the workload has it.
Try(t, op, mode, kb, in, r) ==
    /\ t \in load.threads /\ Cardinality(Used) < load.calls
    /\ r.phase = "returned" => r.why \in load.fails
    /\ Begin(t, op, mode, kb, in, r)

Put(t) ==
    \E op \in PutOps \cap load.ops, mode \in load.modes, kb \in load.kb,
       in \in load.kv :
        \E r \in p_put_aio_generic(mode, in, kb, PutVerck(op)) :
            Try(t, op, mode, kb, in, r)

Del(t) ==
    \E op \in DelOps \cap load.ops, mode \in load.modes, kb \in load.kb,
       in \in load.kv :
        \E r \in d_del_aio_generic(mode, in, kb, DelVerck(op)) :
            Try(t, op, mode, kb, in, r)

Get(t) ==
    \E op \in GetOps \cap load.ops, mode \in load.modes, in \in load.get :
        \E r \in g_get_aio_generic(mode, in, GetType(op, mode)) :
            Try(t, op, mode, <<>>, in, r)

Noop(t) ==
    \E op \in {"noop"} \cap load.ops, mode \in load.modes :
        \E r \in n_noop_aio_generic(mode) :
            Try(t, op, mode, <<>>, <<>>, r)

Flush(t) ==
    \E op \in {"flush"} \cap load.ops, mode \in load.modes :
        \E r \in f_flush_aio_generic(mode) :
            Try(t, op, mode, <<>>, <<>>, r)

Exec(t) ==
    \E op \in {"exec"} \cap load.ops, mode \in load.modes, app \in load.app :
        \E r \in e_exec_aio_generic(mode, app) :
            Try(t, op, mode, <<>>, app, r)

Getlog(t) ==
    \E op \in {"getlog"} \cap load.ops, glog \in load.log :
        \E r \in ki_getlog(glog) : Try(t, op, "sync", <<>>, glog, r)

Getrange(t) ==
    \E op \in {"getrange"} \cap load.ops, kr \in load.range :
        \E r \in ki_getrange(kr) : Try(t, op, "sync", <<>>, kr, r)

Submit(t) ==
    \/ Put(t) \/ Del(t) \/ Get(t) \/ Noop(t) \/ Flush(t) \/ Exec(t)
    \/ Getlog(t) \/ Getrange(t)

----------------------------------------------------------------------------
\* The completion half of each operation, for a kio ktli_receive returned.
ki_aio_complete(cl) ==
    CASE cl.op \in PutOps -> p_put_aio_complete(cl)
      [] cl.op \in DelOps -> d_del_aio_complete(cl)
      [] cl.op \in GetOps -> g_get_aio_complete(cl)
      [] cl.op = "noop" -> n_noop_aio_complete(cl)
      [] cl.op = "flush" -> f_flush_aio_complete(cl)
      [] cl.op = "exec" -> e_exec_aio_complete(cl)
      [] cl.op = "getlog" -> LogSettle(cl)
      [] cl.op = "getrange" -> RangeSettle(cl)

PollTimeout(op) ==
    CASE op \in PutOps -> PutPoll [] op \in DelOps -> DelPoll
      [] op \in GetOps -> GetPoll [] op = "noop" -> NoopPoll
      [] op = "flush" -> FlushPoll [] op = "exec" -> ExecPoll
      [] op = "getlog" -> LogPoll [] op = "getrange" -> RangePoll

\* Mutant: the kio is freed although the session still has it.
GiveUpFreeing(cl) ==
    CASE cl.op = "getlog" -> LogGivesUp
      [] cl.op = "getrange" -> RangeGivesUp
      [] OTHER -> Settled("EINTERNAL", {"kio"}, "none", "none", <<"err">>)

\* ktli_receive failed with something else than ENOENT.  The aio
\* operations count an error and leave the kio where it is; getlog and
\* getrange free it.
GiveUp(cl) ==
    CASE cl.op = "getlog" -> LogGivesUp
      [] cl.op = "getrange" -> RangeGivesUp
      [] OTHER -> Settled("EINTERNAL", {}, "none", "none", <<"err">>)

Answers(cl) ==
    NotReceived \cup
    CASE cl.kb # <<>> -> {"sent"}
      [] cl.op = "getlog" -> KvAnswers \cup {"value"}
      [] cl.op = "getrange" -> KvAnswers \cup {"value", "nokeys"}
      [] OTHER -> KvAnswers

\* Thread t is in the wait loop of call c, or calls ki_aio_complete for it.
Takes(t, c) ==
    \/ thr[t].pc = "collect" /\ thr[t].c = c
    \/ /\ thr[t].pc = "idle"
       /\ call[c].mode = "aio"
       /\ call[c].phase \in {"pending", "done"}

Receive(t, c) ==
    /\ Running /\ up
    /\ Takes(t, c)
    /\ call[c].phase = "done"
    /\ \E r \in ki_aio_complete(call[c]) : End(t, c, call[c].out, "sent", r)

\* K_EAGAIN: not completed yet, or never sent.
TryAgain(t) ==
    /\ Running /\ up
    /\ thr[t].pc = "collect"
    /\ call[thr[t].c].phase \in {"pending", "unsent"}
    /\ thr' = [thr EXCEPT ![t].pc = "poll"]
    /\ UNCHANGED <<call, kst, up, raced, crashed>>

\* A draining session hands back a kio it finds on sendq as failed.
ReceiveDrained(t, c) ==
    /\ Running /\ ~up
    /\ Takes(t, c)
    /\ call[c].phase = "pending"
    /\ \E r \in ki_aio_complete([call[c] EXCEPT !.out = "failed"]) :
           End(t, c, "failed", "sent", r)

ReceiveLost(t, c) ==
    /\ Running /\ ~up
    /\ Takes(t, c)
    /\ End(t, c, call[c].out, "lost", GiveUp(call[c]))

----------------------------------------------------------------------------
Waiting(t) ==
    \/ Poll(t, PollTimeout(call[thr[t].c].op))
    \/ PollWoken(t)
    \/ TryAgain(t)
    \/ CountLoad(t, Family(call[thr[t].c].op))
    \/ CountStore(t, Family(call[thr[t].c].op))

Collect(t) ==
    \E c \in Calls : Receive(t, c) \/ ReceiveDrained(t, c) \/ ReceiveLost(t, c)

Finish(c) == \E out \in Answers(call[c]) \cap load.outs : Complete(c, out)

Next ==
    /\ \/ \E t \in Thread : Submit(t) \/ Waiting(t) \/ Collect(t)
       \/ \E c \in Calls : Finish(c) \/ DeviceApply(c)
       \/ SessionLost
    /\ UNCHANGED load

\* A thread inside a call keeps running, and the session completes every
\* request it was given (Completes of module Ktli).
InCall(t) == thr[t].pc # "idle" /\ (Waiting(t) \/ Collect(t)) /\ UNCHANGED load

Fairness ==
    /\ \A t \in Thread : WF_<<vars, load>>(InCall(t))
    /\ \A c \in Calls : WF_<<vars, load>>(Finish(c) /\ UNCHANGED load)

Spec == Init /\ [][Next]_<<vars, load>>
FairSpec == Spec /\ Fairness

----------------------------------------------------------------------------
Krcs == {"none", "OK", "ERR", "EINVAL", "EBADSESS", "ENOMEM", "EINTERNAL",
         "EBATCH", "ETIMEDOUT", "ENOMSG"}

\* Every variable has its type.
TypeOK ==
    /\ \A c \in Calls :
           /\ call[c].phase \in {"idle", "pending", "unsent", "done",
                                 "returned"}
           /\ call[c].krc \in Krcs
           /\ call[c].krc = "none" <=> call[c].phase # "returned"
           /\ call[c].mem \subseteq SendBufs \cup RecvBufs
           /\ call[c].val \in {"none", "given", "freed"}
           /\ call[c].pb \in {"none", "given", "freed", "leaked"}
           /\ call[c].applied \in BOOLEAN
    /\ \A t \in Thread :
           /\ thr[t].pc \in {"idle", "poll", "blocked", "collect", "count",
                             "store"}
           /\ thr[t].c \in 0 .. MaxCalls
           /\ thr[t].pc \in {"count", "store"} => thr[t].todo # <<>>
    /\ \A f \in Families : kst[f] \in [DOMAIN NoCounts -> Int]
    /\ up \in BOOLEAN /\ raced \in BOOLEAN

Returned == {c \in Calls : call[c].phase = "returned"}

\* put.c, get.c, del.c, exec.c, noop.c, flush.c, getlog.c, range.c: once a
\* call has returned, on whatever path, none of the memory it allocated is
\* left except the value handed to the caller.  Left over in the code: the
\* kio of a call that gave up on a lost session, the value of an answer to
\* getlog, getrange or an exec without output key.
Reclaimed ==
    \A c \in Returned :
        LET cl == call[c]
            unclaimed == \/ cl.op \in WaitOps
                         \/ cl.op = "exec" /\ cl.in.outkey = <<>>
        IN  \/ cl.why = "lost"
            \/ crashed = cl.op
            \/ cl.mem = {}
            \/ cl.mem = {"rval"} /\ (cl.val = "given" \/ unclaimed)

\* The same files: a kio is freed only when the transport has handed it
\* back, so that no queue holds a freed kio; getlog and getrange break this
\* when the session is lost (getlog.c:177, range.c:228).
FreedWhenHandedBack ==
    \A c \in Returned :
        /\ call[c].why \in {"sent", "lost"}
        /\ "kio" \notin call[c].mem
        /\ call[c].op \notin WaitOps
        => call[c].out # "none"

\* No thread touches memory that is not allocated.  The exceptions are the
\* error paths of getlog and getrange, and an exec whose table of function
\* keys cannot be allocated (exec.c:681).
CrashFree ==
    crashed # "none" =>
        \/ crashed \in WaitOps
        \/ \E c \in Calls : crashed = call[c].op /\ call[c].why = "progkey"

\* What a successful call leaves the caller with is usable: a get returns a
\* value that is still allocated, except for one of the metadata only
\* (get.c:487), and the response a kv points to has not been destroyed.
ResultUsable ==
    \A c \in Returned :
        call[c].krc = "OK" =>
            /\ call[c].pb # "freed"
            /\ call[c].val = "given" => "rval" \in call[c].mem
            /\ call[c].val = "freed" => call[c].in.kv.metaonly
            /\ call[c].wire.type \in {"GET", "GETNEXT"} =>
                   call[c].val # "none"

\* What a request may ask for, stated without the code's tests: a kv whose
\* lengths respect the limits of the device, and one that also has a value.
WithinLimits(kv) ==
    /\ Total(kv.key) \in 0 .. Limits.keylen
    /\ {kv.ver, kv.newver} \subseteq {Null} \cup 1 .. Limits.verlen
    /\ kv.disum \in {Null} \cup 1 .. Limits.disumlen

LegalKv(kv) ==
    /\ WithinLimits(kv) /\ kv.key # <<>> /\ kv.magic
    /\ kv.disum = Null \/ kv.ditype # "unset"
    /\ kv.cpolicy # "bogus"

HasValue(kv) == kv.val # <<>> /\ Total(kv.val) \in 0 .. Limits.vallen

Acceptable(op, mode, kb, in) ==
    CASE op \in PutOps \cup DelOps ->
             /\ LegalKv(in) /\ HasValue(in)
             /\ op \in {"cas", "cad"} => in.ver # Null
             /\ \A i \in DOMAIN kb : kb[i].magic /\ kb[i].bid >= KFIRSTBID
      [] op \in GetOps ->
             /\ op = "getnext" /\ mode = "sync" => Len(in.alt) = 1
             /\ \A kv \in {in.kv} \cup {in.alt[i] : i \in DOMAIN in.alt} :
                    LegalKv(kv) /\ HasValue(kv)
      [] op = "exec" ->
             /\ in.magic /\ in.flagsok /\ in.fntype # "unset"
             /\ Len(in.fnkeys) > 0
             /\ \A i \in DOMAIN in.fnkeys : LegalKv(in.fnkeys[i])
             /\ \A i \in DOMAIN in.outkey :
                    LegalKv(in.outkey[i]) /\ HasValue(in.outkey[i])
      [] op = "getlog" ->
             /\ in.magic /\ ~in.results
             /\ Len(in.types) > 0
             /\ in.types \in Seq(LogTypes) /\ IsInjective(in.types)
             /\ in.name \in IF \E i \in DOMAIN in.types : in.types[i] = "LOG"
                            THEN 1 .. LogNameMax ELSE {Null}
      [] op = "getrange" ->
             /\ in.magic /\ in.flagsok
             /\ in.count \in {KVR_COUNT_INF} \cup 1 .. Limits.rangekeycnt
             /\ \A k \in {in.start, in.end} \ {<<>>} :
                    Total(k) \in 1 .. Limits.keylen
      [] OTHER -> TRUE

\* validate.c and the message constructors: a request reaches the wire only
\* when its arguments respect the limits of the device, a request refused as
\* invalid does not, a compare-and-swap or compare-and-delete is never sent
\* as forced, and a range never asks for more keys than the device returns.
Screened ==
    \A c \in Used :
        LET cl == call[c]
            acceptable == Acceptable(cl.op, cl.mode, cl.kb, cl.in)
        IN  /\ cl.why \in {"sent", "lost", "unsent"} => acceptable
            /\ cl.why = "invalid" => ~acceptable
            /\ cl.op \in {"cas", "cad"} /\ cl.wire # NoWire =>
                   ~cl.wire.force /\ cl.wire.ver # Null
            /\ cl.op = "getrange" /\ cl.wire # NoWire =>
                   cl.wire.count \in 1 .. Limits.rangekeycnt

\* The calls of a family that have returned, and how often each counted.
CountedIn(f) ==
    {c \in Returned : call[c].op \notin WaitOps /\ Family(call[c].op) = f}
Succeeded(c) == call[c].krc = "OK"
Failed(c) == call[c].krc # "OK" /\ call[c].why \notin {"badktd", "nockio"}
FailedTwice(c) ==
    Failed(c) /\ call[c].why = "sent" /\ call[c].out \in NotReceived

\* The counters of stat.c: as long as no update has overwritten another,
\* and no call is still counting, kop_ok and kop_dropped together are the
\* calls that succeeded, and kop_err is one per failed call, two when the
\* request timed out or could not be sent, none when the arguments did not
\* even name a session.
StatsExact ==
    ~raced /\ (\A t \in Thread : thr[t].pc \notin {"count", "store"}) =>
        \A f \in Families :
            /\ kst[f].ok + kst[f].dropped =
                   Cardinality({c \in CountedIn(f) : Succeeded(c)})
            /\ kst[f].err = Cardinality({c \in CountedIn(f) : Failed(c)})
                            + Cardinality({c \in CountedIn(f) : FailedTwice(c)})

\* A synchronous call returns: the answer, a timeout or the loss of the
\* session ends its wait loop.  Not so for getlog and getrange, which poll
\* without a timeout and do not look at the result of ktli_send: they stay
\* when the session is lost or the request was never queued.
Returns ==
    \A t \in Thread :
        thr[t].pc # "idle" ~>
            \/ thr[t].pc = "idle" \/ ~Running
            \/ /\ call[thr[t].c].op \in WaitOps
               /\ ~up \/ call[thr[t].c].phase = "unsent"

\* What a call tells its caller.  A request of a batch is only handed to the
\* device when it returns K_OK.
Outcome(cl) ==
    CASE cl.phase = "idle" -> "idle"
      [] cl.phase \in {"pending", "done", "unsent"} -> "open"
      [] cl.phase = "returned" /\ cl.wire = NoWire -> "refused"
      [] /\ cl.phase = "returned" /\ cl.wire # NoWire
         /\ cl.krc = "OK" /\ cl.kb = <<>> -> "acked"
      [] OTHER -> "unknown"

\* The requests implement Api.
A == INSTANCE Api WITH
        result <- [c \in Calls |-> Outcome(call[c])],
        applied <- [c \in Calls |-> call[c].applied]

ApiSpec == A!Spec
=============================================================================
