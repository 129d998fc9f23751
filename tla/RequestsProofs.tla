--------------------------- MODULE RequestsProofs ---------------------------
(***************************************************************************)
(* Theorems about the request API (module Requests), for every finite set  *)
(* of threads, every number of calls and every workload.                   *)
(***************************************************************************)
EXTENDS Requests, TLAPS, FiniteSetTheorems, SequenceTheorems,
        WellFoundedInduction

-----------------------------------------------------------------------------
(* The inductive invariant.                                                *)

Fields == {"op", "mode", "kb", "in", "phase", "out", "krc", "why", "mem",
           "val", "pb", "wire", "applied"}
AllOps == {"put", "cas", "del", "cad", "get", "getnext", "getvers", "getlog",
           "getrange", "noop", "flush", "exec"}
Open == {"pending", "unsent", "done"}
Fetches == {"GET", "GETNEXT"}

\* What a request has allocated when it is handed to ktli_send, and what the
\* session has added to it when it is handed back.
Base(op) == IF op \in WaitOps THEN LogMem ELSE SendBufs \ {"req"}
Brought(out) == IF out \in NotReceived \cup {"sent"} THEN {} ELSE RecvBufs

\* What is on the wire, if anything is.
WireOK(cl) ==
    \/ cl.wire = NoWire
    \/ /\ cl.wire.type # "none"
       /\ cl.wire.type \in Fetches => cl.op \in GetOps

\* A call that is open, by how far it has come.
OpenOK(cl) ==
    /\ cl.krc = "none" /\ cl.val = "none" /\ cl.pb = "none"
    /\ cl.phase = "unsent" => /\ cl.op \in WaitOps /\ cl.wire = NoWire
                              /\ cl.out = "none" /\ cl.mem = Base(cl.op)
    /\ cl.phase = "pending" => /\ cl.wire # NoWire
                               /\ cl.out = "none" /\ cl.mem = Base(cl.op)
    /\ cl.phase = "done" => /\ cl.wire # NoWire
                            /\ cl.out \in Answers(cl)
                            /\ cl.out \in {"ok", "nobody"} => cl.applied
                            /\ cl.mem = Base(cl.op) \cup Brought(cl.out)

\* What a successful call leaves the caller with.
Usable(cl) ==
    /\ cl.pb # "freed"
    /\ cl.val = "given" => "rval" \in cl.mem
    /\ cl.val = "freed" => cl.in.kv.metaonly
    /\ cl.wire.type \in Fetches => cl.val # "none"

\* A call that has returned: what it allocated and has not freed, ...
Tidy(cl) ==
    \/ cl.mem = {}
    \/ /\ cl.mem = {"rval"}
       /\ \/ cl.val = "given"
          \/ cl.op \in WaitOps
          \/ cl.op = "exec" /\ cl.in.outkey = <<>>

\* ... what it tells the caller, and what that says about the device.
ReturnedOK(cl) ==
    /\ cl.krc \in Krcs \ {"none"}
    /\ cl.mem \subseteq SendBufs \cup RecvBufs
    /\ cl.val \in {"none", "given", "freed"}
    /\ cl.pb \in {"none", "given", "freed", "leaked"}
    /\ cl.why = "sent" => cl.out # "none"
    /\ cl.why = "lost" /\ cl.op \notin WaitOps => "kio" \in cl.mem
    /\ cl.krc = "OK" => /\ Usable(cl)
                        /\ cl.kb = <<>> /\ cl.wire # NoWire => cl.applied

CallOK(cl) ==
    /\ DOMAIN cl = Fields
    /\ cl.applied \in BOOLEAN
    /\ cl.applied => cl.wire # NoWire
    /\ WireOK(cl)
    /\ cl.phase \in {"idle", "returned"} \cup Open
    /\ cl.phase = "idle" => cl = NoCall
    /\ cl.phase # "idle" => cl.op \in AllOps
    /\ cl.phase \in Open => OpenOK(cl)
    /\ cl.phase = "returned" => ReturnedOK(cl)

CallsOK == DOMAIN call = Calls /\ \A c \in Calls : CallOK(call[c])

\* The calls are numbered in the order in which they were made.
Numbered == \E n \in 0 .. MaxCalls : Used = 1 .. n

Todos == {<<>>, <<"ok">>, <<"ok", "unok", "dropped">>, <<"unok", "dropped">>,
          <<"dropped">>, <<"err">>, <<"err", "err">>}
ThrType ==
    [pc : {"idle", "poll", "blocked", "collect", "count", "store"},
     c : 0 .. MaxCalls, todo : Todos, reg : Int]
Waits == {"poll", "blocked", "collect"}
Counts == {"count", "store"}

\* A thread in a wait loop waits for a call that is open and that no other
\* thread waits for; one that is counting has something to count.
ThreadsOK ==
    /\ thr \in [Thread -> ThrType]
    /\ \A t \in Thread :
           /\ thr[t].pc \in Waits =>
                  /\ thr[t].c \in Calls
                  /\ call[thr[t].c].mode = "sync"
                  /\ call[thr[t].c].phase \in Open
           /\ thr[t].pc \in Counts =>
                  /\ thr[t].c \in Calls /\ thr[t].todo # <<>>
                  /\ call[thr[t].c].phase = "returned"
                  /\ call[thr[t].c].op \in AllOps \ WaitOps
    /\ \A t, u \in Thread :
           thr[t].pc \in Waits /\ thr[u].pc \in Waits /\ thr[t].c = thr[u].c
               => t = u

CountersOK == kst \in [Families -> [{"ok", "err", "dropped"} -> Int]]

Inv ==
    /\ CallsOK /\ Numbered /\ ThreadsOK /\ CountersOK
    /\ up \in BOOLEAN /\ raced \in BOOLEAN

\* Memory: what is left over, and who may have crashed.
MemInv == CrashFree /\ \A c \in Returned :
              call[c].why = "lost" \/ crashed = call[c].op \/ Tidy(call[c])

-----------------------------------------------------------------------------
(* Statistics: what the threads have still to count.                       *)

AddTodos == {<<"ok">>, <<"ok", "unok", "dropped">>, <<"dropped">>}
ErrTodos == {<<"err">>, <<"err", "err">>}

Counting(t, f) == thr[t].pc \in Counts /\ Family(call[thr[t].c].op) = f
Adding(f) ==
    {t \in Thread : Counting(t, f) /\ thr[t].todo \in AddTodos}
Erring(f) ==
    {t \in Thread : Counting(t, f) /\ thr[t].todo \in ErrTodos}
ErringTwice(f) == {t \in Thread : Counting(t, f) /\ thr[t].todo = <<"err", "err">>}

Good(f) == {c \in CountedIn(f) : Succeeded(c)}
Bad(f) == {c \in CountedIn(f) : Failed(c)}
BadTwice(f) == {c \in CountedIn(f) : FailedTwice(c)}

Balanced(f) ==
    /\ kst[f].ok + kst[f].dropped + Cardinality(Adding(f)) = Cardinality(Good(f))
    /\ kst[f].err + Cardinality(Erring(f)) + Cardinality(ErringTwice(f)) =
           Cardinality(Bad(f)) + Cardinality(BadTwice(f))

StatsInv == ~raced => \A f \in Families : Balanced(f)

-----------------------------------------------------------------------------
(* Submission: what the first half of an operation can end with.           *)

GoodStart(op, r) ==
    /\ r.phase \in {"returned", "pending", "unsent"}
    /\ r.wild \in BOOLEAN
    /\ r.phase = "returned" =>
           /\ r.krc \in Krcs \ {"none", "OK"}
           /\ r.mem = {} /\ r.wire = NoWire
           /\ r.why \notin {"sent", "lost"}
           /\ r.todo = IF op \in WaitOps \/ r.why \in {"badktd", "nockio"}
                       THEN <<>> ELSE <<"err">>
           /\ r.wild => op \in WaitOps \/ r.why = "progkey"
    /\ r.phase # "returned" =>
           /\ r.krc = "none" /\ r.mem = Base(op) /\ r.todo = <<>> /\ ~r.wild
    /\ r.phase = "pending" => /\ r.why = "sent" /\ r.wire.type # "none"
                              /\ r.wire.type \in Fetches => op \in GetOps
    /\ r.phase = "unsent" => /\ r.why = "unsent" /\ r.wire = NoWire
                             /\ op \in WaitOps

\* What the exit ladders free, from each of their labels on.
LEMMA Ladder ==
    LET L == <<"msg", "pdu", "vec", "req", "kio">>
    IN  /\ FreedFrom(L, "return") = {}
        /\ FreedFrom(L, "kio") = {"kio"}
        /\ FreedFrom(L, "req") = {"kio", "req"}
        /\ FreedFrom(L, "vec") = {"kio", "req", "vec"}
        /\ FreedFrom(L, "pdu") = {"kio", "req", "vec", "pdu"}
        /\ FreedFrom(L, "msg") = SendBufs
<1>1. FreedFrom(<<"msg", "pdu", "vec", "req", "kio">>, "return") = {}
    BY DEF FreedFrom
<1>2. FreedFrom(<<"msg", "pdu", "vec", "req", "kio">>, "kio") = {"kio"}
    BY DEF FreedFrom
<1>3. FreedFrom(<<"msg", "pdu", "vec", "req", "kio">>, "req") = {"kio", "req"}
    BY DEF FreedFrom
<1>4. FreedFrom(<<"msg", "pdu", "vec", "req", "kio">>, "vec")
          = {"kio", "req", "vec"}
    BY DEF FreedFrom
<1>5. FreedFrom(<<"msg", "pdu", "vec", "req", "kio">>, "pdu")
          = {"kio", "req", "vec", "pdu"}
    BY DEF FreedFrom
<1>6. FreedFrom(<<"msg", "pdu", "vec", "req", "kio">>, "msg") = SendBufs
    BY DEF FreedFrom, SendBufs
<1> QED
    BY <1>1, <1>2, <1>3, <1>4, <1>5, <1>6

LEMMA ShortLadder ==
    LET L == <<"msg", "vec", "req", "kio">>
    IN  /\ FreedFrom(L, "return") = {}
        /\ FreedFrom(L, "kio") = {"kio"}
        /\ FreedFrom(L, "req") = {"kio", "req"}
        /\ FreedFrom(L, "msg") = LogMem
<1>1. FreedFrom(<<"msg", "vec", "req", "kio">>, "return") = {}
    BY DEF FreedFrom
<1>2. FreedFrom(<<"msg", "vec", "req", "kio">>, "kio") = {"kio"}
    BY DEF FreedFrom
<1>3. FreedFrom(<<"msg", "vec", "req", "kio">>, "req") = {"kio", "req"}
    BY DEF FreedFrom
<1>4. FreedFrom(<<"msg", "vec", "req", "kio">>, "msg") = LogMem
    BY DEF FreedFrom, LogMem
<1> QED
    BY <1>1, <1>2, <1>3, <1>4

LEMMA RefusedStart ==
    ASSUME NEW op, NEW krc \in Krcs \ {"none", "OK"}, NEW why, NEW todo,
           why \notin {"sent", "lost"},
           todo = IF op \in WaitOps \/ why \in {"badktd", "nockio"}
                  THEN <<>> ELSE <<"err">>
    PROVE  GoodStart(op, Refused(krc, why, todo))
BY DEF GoodStart, Refused

\* A stage fails and the ladder frees what the earlier stages have allocated.
LEMMA AbortedStart ==
    ASSUME NEW op, NEW stage, NEW held, NEW ladder, NEW exit, NEW todo,
           exit.krc \in Krcs \ {"none", "OK"},
           stage \notin {"sent", "lost", "badktd", "nockio"},
           todo = IF op \in WaitOps THEN <<>> ELSE <<"err">>,
           held \subseteq FreedFrom(ladder, exit.at),
           op \in WaitOps \/ held = FreedFrom(ladder, exit.at)
    PROVE  GoodStart(op, Aborted(stage, held, ladder, exit, todo))
BY DEF GoodStart, Aborted, Refused

LEMMA SentStart ==
    ASSUME NEW op, NEW wire, wire.type # "none",
           wire.type \in Fetches => op \in GetOps
    PROVE  GoodStart(op, Sent(Base(op), wire))
BY DEF GoodStart, Sent

LEMMA UnsentStart ==
    ASSUME NEW op \in WaitOps
    PROVE  GoodStart(op, Unsent(Base(op)))
BY DEF GoodStart, Sent, Unsent

LEMMA BadCallStart ==
    ASSUME NEW op, NEW mode, NEW r \in BadCall(mode) \cup CtlBadCall(mode)
    PROVE  GoodStart(op, r)
BY RefusedStart DEF BadCall, CtlBadCall, Krcs

Stages == {"kio", "create", "vec", "pdu", "pack", "batch", "send"}

\* The seven exits of put and delete, which the other operations share.
LEMMA StageExits ==
    ASSUME NEW s \in Stages
    PROVE  /\ PutExits[s].krc \in Krcs \ {"none", "OK"}
           /\ FreedFrom(PutLadder, PutExits[s].at) = Held[s]
<1>1. CASE s = "kio"
    BY <1>1, Ladder DEF PutExits, Exit, Krcs, PutLadder, Held
<1>2. CASE s = "create"
    BY <1>2, Ladder DEF PutExits, Exit, Krcs, PutLadder, Held
<1>3. CASE s = "vec"
    BY <1>3, Ladder DEF PutExits, Exit, Krcs, PutLadder, Held
<1>4. CASE s = "pdu"
    BY <1>4, Ladder DEF PutExits, Exit, Krcs, PutLadder, Held
<1>5. CASE s = "pack"
    BY <1>5, Ladder DEF PutExits, Exit, Krcs, PutLadder, Held
<1>6. CASE s = "batch"
    BY <1>6, Ladder DEF PutExits, Exit, Krcs, PutLadder, Held
<1>7. CASE s = "send"
    BY <1>7, Ladder DEF PutExits, Exit, Krcs, PutLadder, Held
<1> QED
    BY <1>1, <1>2, <1>3, <1>4, <1>5, <1>6, <1>7 DEF Stages

LEMMA PutStart ==
    ASSUME NEW op \in PutOps, NEW mode, NEW in, NEW kb, NEW verck,
           NEW r \in p_put_aio_generic(mode, in, kb, verck)
    PROVE  GoodStart(op, r)
<1>1. op \notin WaitOps /\ Base(op) = SendBufs \ {"req"}
    BY DEF PutOps, WaitOps, Base
<1>2. CASE r \in BadCall(mode)
    BY <1>2, BadCallStart
<1>3. CASE r = Refused("EINVAL", "invalid", <<"err">>)
    BY <1>1, <1>3, RefusedStart DEF Krcs
<1>4. ASSUME NEW s \in DOMAIN PutExits,
             r = Aborted(s, Held[s], PutLadder, PutExits[s], <<"err">>)
      PROVE  GoodStart(op, r)
    <2>1. s \in Stages
        BY <1>4 DEF PutExits, Stages
    <2>2. s \notin {"sent", "lost", "badktd", "nockio"}
        BY <2>1 DEF Stages
    <2> QED
        BY <1>1, <1>4, <2>1, <2>2, StageExits, AbortedStart
<1>5. CASE r = Sent(SendBufs \ {"req"}, create_put_message(in, kb, verck))
    <2>1. create_put_message(in, kb, verck).type = "PUT"
        BY DEF create_put_message
    <2> QED
        BY <1>1, <1>5, <2>1, SentStart DEF Fetches
<1> QED
    BY <1>2, <1>3, <1>4, <1>5 DEF p_put_aio_generic

LEMMA DelStageExits ==
    ASSUME NEW s \in DOMAIN DelExits
    PROVE  /\ s \in Stages
           /\ DelExits[s].krc \in Krcs \ {"none", "OK"}
           /\ FreedFrom(DelLadder, DelExits[s].at) = Held[s]
<1>1. s \in Stages
    BY DEF DelExits, Stages
<1>2. DelExits[s].krc \in Krcs \ {"none", "OK"} /\ DelExits[s].at = PutExits[s].at
    BY DEF DelExits, PutExits, Exit, Krcs
<1>3. DelLadder = PutLadder
    BY DEF DelLadder, PutLadder
<1> QED
    BY <1>1, <1>2, <1>3, StageExits

LEMMA DelStart ==
    ASSUME NEW op \in DelOps, NEW mode, NEW in, NEW kb, NEW verck,
           NEW r \in d_del_aio_generic(mode, in, kb, verck)
    PROVE  GoodStart(op, r)
<1>1. op \notin WaitOps /\ Base(op) = SendBufs \ {"req"}
    BY DEF DelOps, WaitOps, Base
<1>2. CASE r \in BadCall(mode)
    BY <1>2, BadCallStart
<1>3. CASE r = Refused("EINVAL", "invalid", <<"err">>)
    BY <1>1, <1>3, RefusedStart DEF Krcs
<1>4. ASSUME NEW s \in DOMAIN DelExits,
             r = Aborted(s, Held[s], DelLadder, DelExits[s], <<"err">>)
      PROVE  GoodStart(op, r)
    <2>1. s \in Stages
        BY <1>4, DelStageExits
    <2>2. s \notin {"sent", "lost", "badktd", "nockio"}
        BY <2>1 DEF Stages
    <2> QED
        BY <1>1, <1>4, <2>1, <2>2, DelStageExits, AbortedStart
<1>5. CASE r = Sent(SendBufs \ {"req"}, create_delkey_message(in, kb, verck))
    <2>1. create_delkey_message(in, kb, verck).type = "DEL"
        BY DEF create_delkey_message
    <2> QED
        BY <1>1, <1>5, <2>1, SentStart DEF Fetches
<1> QED
    BY <1>2, <1>3, <1>4, <1>5 DEF d_del_aio_generic

LEMMA GetStageExits ==
    ASSUME NEW s \in DOMAIN GetExits
    PROVE  /\ s \in Stages
           /\ GetExits[s].krc \in Krcs \ {"none", "OK"}
           /\ FreedFrom(GetLadder, GetExits[s].at) = Held[s]
<1>1. s \in Stages
    BY DEF GetExits, Stages
<1>2. GetExits[s].krc \in Krcs \ {"none", "OK"} /\ GetExits[s].at = PutExits[s].at
    BY DEF GetExits, PutExits, Exit, Krcs
<1>3. GetLadder = PutLadder
    BY DEF GetLadder, PutLadder
<1> QED
    BY <1>1, <1>2, <1>3, StageExits

LEMMA GetStart ==
    ASSUME NEW op \in GetOps, NEW mode, NEW in,
           NEW r \in g_get_aio_generic(mode, in, GetType(op, mode))
    PROVE  GoodStart(op, r)
<1>1. op \notin WaitOps /\ Base(op) = SendBufs \ {"req"}
    BY DEF GetOps, WaitOps, Base
<1>2. CASE r \in BadCall(mode)
    BY <1>2, BadCallStart
<1>3. CASE r = Refused("EINVAL", "invalid", <<"err">>)
    BY <1>1, <1>3, RefusedStart DEF Krcs
<1>4. ASSUME NEW s \in DOMAIN GetExits,
             r = Aborted(s, Held[s], GetLadder, GetExits[s], <<"err">>)
      PROVE  GoodStart(op, r)
    <2>1. s \in Stages
        BY <1>4, GetStageExits
    <2>2. s \notin {"sent", "lost", "badktd", "nockio"}
        BY <2>1 DEF Stages
    <2> QED
        BY <1>1, <1>4, <2>1, <2>2, GetStageExits, AbortedStart
<1>5. CASE r = Sent(SendBufs \ {"req"}, create_getkey_message(in, GetType(op, mode)))
    <2>1. create_getkey_message(in, GetType(op, mode)).type # "none"
        BY DEF create_getkey_message, GetType
    <2> QED
        BY <1>1, <1>5, <2>1, SentStart DEF Fetches
<1> QED
    BY <1>2, <1>3, <1>4, <1>5 DEF g_get_aio_generic

LEMMA NoopStageExits ==
    ASSUME NEW s \in DOMAIN NoopExits
    PROVE  /\ s \in Stages
           /\ NoopExits[s].krc \in Krcs \ {"none", "OK"}
           /\ FreedFrom(NoopLadder, NoopExits[s].at) = Held[s]
<1>1. s \in Stages
    BY DEF NoopExits, Stages
<1>2. NoopExits[s].krc \in Krcs \ {"none", "OK"} /\ NoopExits[s].at = PutExits[s].at
    BY DEF NoopExits, PutExits, Exit, Krcs
<1>3. NoopLadder = PutLadder
    BY DEF NoopLadder, PutLadder
<1> QED
    BY <1>1, <1>2, <1>3, StageExits

LEMMA NoopStart ==
    ASSUME NEW op \in {"noop"}, NEW mode,
           NEW r \in n_noop_aio_generic(mode)
    PROVE  GoodStart(op, r)
<1>1. op \notin WaitOps /\ Base(op) = SendBufs \ {"req"}
    BY DEF WaitOps, Base
<1>2. CASE r \in CtlBadCall(mode)
    BY <1>2, BadCallStart
<1>4. ASSUME NEW s \in DOMAIN NoopExits,
             r = Aborted(s, Held[s], NoopLadder, NoopExits[s], <<"err">>)
      PROVE  GoodStart(op, r)
    <2>1. s \in Stages
        BY <1>4, NoopStageExits
    <2>2. s \notin {"sent", "lost", "badktd", "nockio"}
        BY <2>1 DEF Stages
    <2> QED
        BY <1>1, <1>4, <2>1, <2>2, NoopStageExits, AbortedStart
<1>5. CASE r = Sent(SendBufs \ {"req"}, create_noop_message)
    <2>1. create_noop_message.type = "NOOP"
        BY DEF create_noop_message
    <2> QED
        BY <1>1, <1>5, <2>1, SentStart DEF Fetches
<1> QED
    BY <1>2, <1>4, <1>5 DEF n_noop_aio_generic

LEMMA FlushStageExits ==
    ASSUME NEW s \in DOMAIN FlushExits
    PROVE  /\ s \in Stages
           /\ FlushExits[s].krc \in Krcs \ {"none", "OK"}
           /\ FreedFrom(FlushLadder, FlushExits[s].at) = Held[s]
<1>1. s \in Stages
    BY DEF FlushExits, Stages
<1>2. FlushExits[s].krc \in Krcs \ {"none", "OK"} /\ FlushExits[s].at = PutExits[s].at
    BY DEF FlushExits, PutExits, Exit, Krcs
<1>3. FlushLadder = PutLadder
    BY DEF FlushLadder, PutLadder
<1> QED
    BY <1>1, <1>2, <1>3, StageExits

LEMMA FlushStart ==
    ASSUME NEW op \in {"flush"}, NEW mode,
           NEW r \in f_flush_aio_generic(mode)
    PROVE  GoodStart(op, r)
<1>1. op \notin WaitOps /\ Base(op) = SendBufs \ {"req"}
    BY DEF WaitOps, Base
<1>2. CASE r \in CtlBadCall(mode)
    BY <1>2, BadCallStart
<1>4. ASSUME NEW s \in DOMAIN FlushExits,
             r = Aborted(s, Held[s], FlushLadder, FlushExits[s], <<"err">>)
      PROVE  GoodStart(op, r)
    <2>1. s \in Stages
        BY <1>4, FlushStageExits
    <2>2. s \notin {"sent", "lost", "badktd", "nockio"}
        BY <2>1 DEF Stages
    <2> QED
        BY <1>1, <1>4, <2>1, <2>2, FlushStageExits, AbortedStart
<1>5. CASE r = Sent(SendBufs \ {"req"}, create_flush_message)
    <2>1. create_flush_message.type = "FLUSH"
        BY DEF create_flush_message
    <2> QED
        BY <1>1, <1>5, <2>1, SentStart DEF Fetches
<1> QED
    BY <1>2, <1>4, <1>5 DEF f_flush_aio_generic

LEMMA ExecStageExits ==
    ASSUME NEW s \in DOMAIN ExecExits
    PROVE  /\ s \in Stages
           /\ ExecExits[s].krc \in Krcs \ {"none", "OK"}
           /\ FreedFrom(ExecLadder, ExecExits[s].at) = Held[s]
<1>1. s \in Stages
    BY DEF ExecExits, Stages
<1>2. ExecExits[s].krc \in Krcs \ {"none", "OK"} /\ ExecExits[s].at = PutExits[s].at
    BY DEF ExecExits, PutExits, Exit, Krcs
<1>3. ExecLadder = PutLadder
    BY DEF ExecLadder, PutLadder
<1> QED
    BY <1>1, <1>2, <1>3, StageExits

LEMMA ExecStart ==
    ASSUME NEW op \in {"exec"}, NEW mode, NEW app,
           NEW r \in e_exec_aio_generic(mode, app)
    PROVE  GoodStart(op, r)
<1>1. op \notin WaitOps /\ Base(op) = SendBufs \ {"req"}
    BY DEF WaitOps, Base
<1>2. CASE r \in CtlBadCall(mode)
    BY <1>2, BadCallStart
<1>3. CASE r = Refused("EINVAL", "invalid", <<"err">>)
    BY <1>1, <1>3, RefusedStart DEF Krcs
<1>4. ASSUME NEW s \in DOMAIN ExecExits,
             r = Aborted(s, Held[s], ExecLadder, ExecExits[s], <<"err">>)
      PROVE  GoodStart(op, r)
    <2>1. s \in Stages
        BY <1>4, ExecStageExits
    <2>2. s \notin {"sent", "lost", "badktd", "nockio"}
        BY <2>1 DEF Stages
    <2> QED
        BY <1>1, <1>4, <2>1, <2>2, ExecStageExits, AbortedStart
<1>5. CASE r = Sent(SendBufs \ {"req"}, create_exec_message(app))
    <2>1. create_exec_message(app).type = "APPLET"
        BY DEF create_exec_message
    <2> QED
        BY <1>1, <1>5, <2>1, SentStart DEF Fetches
<1>6. CASE r = ExecNoKeyTable
    BY <1>1, <1>6 DEF GoodStart, ExecNoKeyTable, Refused, Krcs
<1> QED
    BY <1>2, <1>3, <1>4, <1>5, <1>6 DEF e_exec_aio_generic

LEMMA LogStart ==
    ASSUME NEW glog, NEW r \in ki_getlog(glog)
    PROVE  GoodStart("getlog", r)
<1>1. "getlog" \in WaitOps /\ Base("getlog") = LogMem
    BY DEF WaitOps, Base
<1>2. CASE r = Refused("EBADSESS", "badktd", <<>>)
    BY <1>1, <1>2, RefusedStart DEF Krcs
<1>3. CASE r = Refused("EINVAL", "invalid", <<>>)
    BY <1>1, <1>3, RefusedStart DEF Krcs
<1>4. ASSUME NEW s \in DOMAIN LogExits,
             r = Aborted(s, LogHeld[s], LogLadder, LogExits[s], <<>>)
      PROVE  GoodStart("getlog", r)
    <2>1. s \in {"kio", "create", "vec", "pack"}
        BY <1>4 DEF LogExits
    <2>2. LogExits[s].krc \in Krcs \ {"none", "OK"}
        BY <2>1 DEF LogExits, Exit, Krcs
    <2>3. LogHeld[s] \subseteq FreedFrom(LogLadder, LogExits[s].at)
        <3>1. CASE s = "kio"
            BY <3>1, ShortLadder DEF LogExits, Exit, LogLadder, LogHeld
        <3>2. CASE s = "create"
            BY <3>2, ShortLadder DEF LogExits, Exit, LogLadder, LogHeld
        <3>3. CASE s = "vec"
            BY <3>3, ShortLadder DEF LogExits, Exit, LogLadder, LogHeld
        <3>4. CASE s = "pack"
            BY <3>4, ShortLadder DEF LogExits, Exit, LogLadder, LogHeld, LogMem
        <3> QED
            BY <2>1, <3>1, <3>2, <3>3, <3>4
    <2> QED
        BY <1>1, <1>4, <2>1, <2>2, <2>3, AbortedStart
<1>5. ASSUME NEW w, w.type = "GETLOG", r = Sent(LogMem, w)
      PROVE  GoodStart("getlog", r)
    BY <1>1, <1>5, SentStart DEF Fetches
<1>6. CASE r = Unsent(LogMem)
    BY <1>1, <1>6, UnsentStart
<1> QED
    BY <1>2, <1>3, <1>4, <1>5, <1>6 DEF ki_getlog, create_getlog_message

LEMMA RangeStart ==
    ASSUME NEW kr, NEW r \in ki_getrange(kr)
    PROVE  GoodStart("getrange", r)
<1>1. "getrange" \in WaitOps /\ Base("getrange") = LogMem
    BY DEF WaitOps, Base
<1>2. CASE r = Refused("EBADSESS", "badktd", <<>>)
    BY <1>1, <1>2, RefusedStart DEF Krcs
<1>3. CASE r = Refused("EINVAL", "invalid", <<>>)
    BY <1>1, <1>3, RefusedStart DEF Krcs
<1>4. ASSUME NEW s \in DOMAIN RangeExits,
             r = Aborted(s, LogHeld[s], RangeLadder, RangeExits[s], <<>>)
      PROVE  GoodStart("getrange", r)
    <2>1. s \in {"kio", "create", "vec", "pack"}
        BY <1>4 DEF RangeExits
    <2>2. RangeExits[s].krc \in Krcs \ {"none", "OK"}
        BY <2>1 DEF RangeExits, Exit, Krcs
    <2>3. LogHeld[s] \subseteq FreedFrom(RangeLadder, RangeExits[s].at)
        <3>1. CASE s = "kio"
            BY <3>1, ShortLadder DEF RangeExits, Exit, RangeLadder, LogHeld
        <3>2. CASE s = "create"
            BY <3>2, ShortLadder DEF RangeExits, Exit, RangeLadder, LogHeld
        <3>3. CASE s = "vec"
            BY <3>3, ShortLadder DEF RangeExits, Exit, RangeLadder, LogHeld
        <3>4. CASE s = "pack"
            BY <3>4, ShortLadder DEF RangeExits, Exit, RangeLadder, LogHeld, LogMem
        <3> QED
            BY <2>1, <3>1, <3>2, <3>3, <3>4
    <2> QED
        BY <1>1, <1>4, <2>1, <2>2, <2>3, AbortedStart
<1>5. ASSUME NEW w, w.type = "GETRANGE", r = Sent(LogMem, w)
      PROVE  GoodStart("getrange", r)
    BY <1>1, <1>5, SentStart DEF Fetches
<1>6. CASE r = Unsent(LogMem)
    BY <1>1, <1>6, UnsentStart
<1> QED
    BY <1>2, <1>3, <1>4, <1>5, <1>6 DEF ki_getrange, create_rangekey_message

-----------------------------------------------------------------------------
(* Completion: what the second half of an operation makes of a request     *)
(* that the session has handed back.                                       *)

Back(cl) ==
    /\ cl.op \in AllOps /\ cl.out \in Answers(cl)
    /\ cl.mem = Base(cl.op) \cup Brought(cl.out)

GoodEnd(cl, r) ==
    /\ r.krc \in Krcs \ {"none"}
    /\ r.val \in {"none", "given", "freed"}
    /\ r.pb \in {"none", "given", "freed", "leaked"}
    /\ cl.op \in WaitOps => r.todo = <<>>
    /\ cl.op \notin WaitOps =>
           /\ ~r.wild /\ r.frees \subseteq cl.mem
           /\ r.krc = "OK" =>
                  r.todo \in {<<"ok">>, <<"ok", "unok", "dropped">>}
           /\ r.krc # "OK" =>
                  r.todo = IF cl.out \in NotReceived THEN <<"err", "err">>
                           ELSE <<"err">>
    /\ r.krc = "OK" =>
           /\ cl.kb = <<>> => cl.out \in {"ok", "nobody"}
           /\ r.pb # "freed"
           /\ r.val = "given" => "rval" \in cl.mem \ r.frees
           /\ r.val = "freed" => cl.in.kv.metaonly
           /\ cl.wire.type \in Fetches /\ cl.op \in GetOps => r.val # "none"
    /\ \/ cl.mem \ r.frees = {}
       \/ /\ cl.mem \ r.frees = {"rval"}
          /\ \/ r.val = "given"
             \/ cl.op \in WaitOps
             \/ cl.op = "exec" /\ cl.in.outkey = <<>>

LEMMA OkTodo ==
    ASSUME NEW kb, NEW n \in OkCounts(kb)
    PROVE  n \in {<<"ok">>, <<"ok", "unok", "dropped">>}
BY DEF OkCounts

LEMMA NotReceivedErr ==
    ASSUME NEW out
    PROVE  NotReceivedKrc(out) \in Krcs \ {"none", "OK"}
BY DEF NotReceivedKrc, Krcs

\* The pieces a request is handed back with.
LEMMA BackMem ==
    ASSUME NEW cl, Back(cl)
    PROVE  /\ cl.op \notin WaitOps =>
                  cl.mem = {"kio", "vec", "pdu", "msg"} \cup Brought(cl.out)
           /\ cl.op \in WaitOps => cl.mem = LogMem \cup Brought(cl.out)
BY DEF Back, Base, SendBufs

LEMMA PutEnd ==
    ASSUME NEW cl, Back(cl), cl.op \in PutOps, NEW r \in p_put_aio_complete(cl)
    PROVE  GoodEnd(cl, r)
<1>1. cl.op \notin WaitOps /\ cl.op \notin GetOps
    BY DEF PutOps, WaitOps, GetOps
<1>2. cl.out \in NotReceived \/ cl.kb # <<>> \/ cl.out \in KvAnswers
    BY <1>1 DEF Back, Answers, WaitOps
<1>3. PICK krc, pb, n :
          /\ r = Settled(krc, PutRelease(cl.mem) \cup {"kio"}, "none", pb, n)
          /\ n \in PutCounts(krc, cl.out, cl.kb)
          /\ \/ /\ cl.out \in NotReceived
                /\ krc = NotReceivedKrc(cl.out) /\ pb = "none"
             \/ /\ cl.out \notin NotReceived /\ cl.kb # <<>>
                /\ krc = "OK" /\ pb = "none"
             \/ /\ cl.out \notin NotReceived /\ cl.kb = <<>>
                /\ krc = extract_putkey(cl.out).krc /\ pb = extract_putkey(cl.out).pb
    BY DEF p_put_aio_complete
<1>4. /\ krc \in Krcs \ {"none"} /\ pb \in {"none", "given", "freed"}
      /\ krc = "OK" => /\ cl.out \notin NotReceived /\ pb # "freed"
                       /\ cl.kb = <<>> => cl.out \in {"ok", "nobody"}
    BY <1>2, <1>3, NotReceivedErr DEF extract_putkey, Krcs, KvAnswers, NotReceived
<1>5. /\ krc = "OK" => n \in {<<"ok">>, <<"ok", "unok", "dropped">>}
      /\ krc # "OK" => n = IF cl.out \in NotReceived THEN <<"err", "err">>
                           ELSE <<"err">>
    BY <1>3, OkTodo DEF PutCounts
<1>6. /\ PutRelease(cl.mem) \cup {"kio"} \subseteq cl.mem
      /\ cl.mem \ (PutRelease(cl.mem) \cup {"kio"}) = {}
    BY <1>1, BackMem DEF PutRelease, Brought
<1> QED
    BY <1>1, <1>3, <1>4, <1>5, <1>6 DEF GoodEnd, Settled

LEMMA DelEnd ==
    ASSUME NEW cl, Back(cl), cl.op \in DelOps, NEW r \in d_del_aio_complete(cl)
    PROVE  GoodEnd(cl, r)
<1>1. cl.op \notin WaitOps /\ cl.op \notin GetOps
    BY DEF DelOps, WaitOps, GetOps
<1>2. cl.out \in NotReceived \/ cl.kb # <<>> \/ cl.out \in KvAnswers
    BY <1>1 DEF Back, Answers, WaitOps
<1>3. PICK krc, pb, n :
          /\ r = Settled(krc, DelRelease(cl.mem) \cup {"kio"}, "none", pb, n)
          /\ n \in DelCounts(krc, cl.out, cl.kb)
          /\ \/ /\ cl.out \in NotReceived
                /\ krc = NotReceivedKrc(cl.out) /\ pb = "none"
             \/ /\ cl.out \notin NotReceived /\ cl.kb # <<>>
                /\ krc = "OK" /\ pb = "none"
             \/ /\ cl.out \notin NotReceived /\ cl.kb = <<>>
                /\ krc = extract_delkey(cl.out).krc /\ pb = extract_delkey(cl.out).pb
    BY DEF d_del_aio_complete
<1>4. /\ krc \in Krcs \ {"none"} /\ pb \in {"none", "given", "freed"}
      /\ krc = "OK" => /\ cl.out \notin NotReceived /\ pb # "freed"
                       /\ cl.kb = <<>> => cl.out \in {"ok", "nobody"}
    BY <1>2, <1>3, NotReceivedErr DEF extract_delkey, Krcs, KvAnswers, NotReceived
<1>5. /\ krc = "OK" => n \in {<<"ok">>, <<"ok", "unok", "dropped">>}
      /\ krc # "OK" => n = IF cl.out \in NotReceived THEN <<"err", "err">>
                           ELSE <<"err">>
    BY <1>3, OkTodo DEF DelCounts
<1>6. /\ DelRelease(cl.mem) \cup {"kio"} \subseteq cl.mem
      /\ cl.mem \ (DelRelease(cl.mem) \cup {"kio"}) = {}
    BY <1>1, BackMem DEF DelRelease, Brought
<1> QED
    BY <1>1, <1>3, <1>4, <1>5, <1>6 DEF GoodEnd, Settled

LEMMA NoopEnd ==
    ASSUME NEW cl, Back(cl), cl.op = "noop", NEW r \in n_noop_aio_complete(cl)
    PROVE  GoodEnd(cl, r)
<1>1. cl.op \notin WaitOps /\ cl.op \notin GetOps
    BY DEF WaitOps, GetOps
<1>2. PICK krc, n :
          /\ r = Settled(krc, NoopRelease(cl.mem) \cup {"kio"}, "none", "none", n)
          /\ n \in NoopCounts(krc, cl.out)
          /\ krc = IF cl.out \in NotReceived THEN NotReceivedKrc(cl.out)
                   ELSE extract_noop(cl.out)
    BY DEF n_noop_aio_complete
<1>3. /\ krc \in Krcs \ {"none"}
      /\ krc = "OK" => cl.out \notin NotReceived /\ cl.out \in {"ok", "nobody"}
    BY <1>2, NotReceivedErr DEF extract_noop, Krcs
<1>4. /\ krc = "OK" => n \in {<<"ok">>, <<"ok", "unok", "dropped">>}
      /\ krc # "OK" => n = IF cl.out \in NotReceived THEN <<"err", "err">>
                           ELSE <<"err">>
    BY <1>2, OkTodo DEF NoopCounts
<1>5. /\ NoopRelease(cl.mem) \cup {"kio"} \subseteq cl.mem
      /\ cl.mem \ (NoopRelease(cl.mem) \cup {"kio"}) = {}
    BY <1>1, BackMem DEF NoopRelease, Brought
<1> QED
    BY <1>1, <1>2, <1>3, <1>4, <1>5 DEF GoodEnd, Settled

LEMMA FlushEnd ==
    ASSUME NEW cl, Back(cl), cl.op = "flush", NEW r \in f_flush_aio_complete(cl)
    PROVE  GoodEnd(cl, r)
<1>1. cl.op \notin WaitOps /\ cl.op \notin GetOps
    BY DEF WaitOps, GetOps
<1>2. PICK krc, n :
          /\ r = Settled(krc, FlushRelease(cl.mem) \cup {"kio"}, "none", "none", n)
          /\ n \in FlushCounts(krc, cl.out)
          /\ krc = IF cl.out \in NotReceived THEN NotReceivedKrc(cl.out)
                   ELSE extract_flush(cl.out)
    BY DEF f_flush_aio_complete
<1>3. /\ krc \in Krcs \ {"none"}
      /\ krc = "OK" => cl.out \notin NotReceived /\ cl.out \in {"ok", "nobody"}
    BY <1>2, NotReceivedErr DEF extract_flush, Krcs
<1>4. /\ krc = "OK" => n \in {<<"ok">>, <<"ok", "unok", "dropped">>}
      /\ krc # "OK" => n = IF cl.out \in NotReceived THEN <<"err", "err">>
                           ELSE <<"err">>
    BY <1>2, OkTodo DEF FlushCounts
<1>5. /\ FlushRelease(cl.mem) \cup {"kio"} \subseteq cl.mem
      /\ cl.mem \ (FlushRelease(cl.mem) \cup {"kio"}) = {}
    BY <1>1, BackMem DEF FlushRelease, Brought
<1> QED
    BY <1>1, <1>2, <1>3, <1>4, <1>5 DEF GoodEnd, Settled

\* A get keeps the value exactly when it hands it to the caller.
LEMMA GetEnd ==
    ASSUME NEW cl, Back(cl), cl.op \in GetOps, NEW r \in g_get_aio_complete(cl)
    PROVE  GoodEnd(cl, r)
<1>1. cl.op \notin WaitOps
    BY DEF WaitOps, GetOps
<1>2. PICK krc, pb, val, n :
          /\ r = Settled(krc, GetRelease(cl, krc) \cup {"kio"}, val, pb, n)
          /\ n \in GetCounts(krc, cl.out)
          /\ \/ /\ cl.out \in NotReceived
                /\ krc = NotReceivedKrc(cl.out) /\ pb = "none"
             \/ /\ cl.out \notin NotReceived
                /\ krc = extract_getkey(cl.out).krc
                /\ pb = extract_getkey(cl.out).pb
          /\ val = CASE ~(/\ cl.out \notin NotReceived \cup {"nomsg"}
                          /\ cl.wire.type # "GETVERS") -> "none"
                     [] /\ cl.out \notin NotReceived \cup {"nomsg"}
                        /\ cl.wire.type # "GETVERS"
                        /\ "rval" \in GetRelease(cl, krc) -> "freed"
                     [] OTHER -> "given"
    BY DEF g_get_aio_complete
<1>3. /\ krc \in Krcs \ {"none"} /\ pb \in {"none", "given"}
      /\ krc = "OK" => cl.out = "ok" /\ cl.out \notin NotReceived
    BY <1>2, NotReceivedErr DEF extract_getkey, Krcs, NotReceived
<1>4. /\ krc = "OK" => n \in {<<"ok">>, <<"ok", "unok", "dropped">>}
      /\ krc # "OK" => n = IF cl.out \in NotReceived THEN <<"err", "err">>
                           ELSE <<"err">>
    BY <1>2, OkTodo DEF GetCounts
<1>5. cl.mem = {"kio", "vec", "pdu", "msg"} \cup Brought(cl.out)
    BY <1>1, BackMem
<1>6. val \in {"none", "given", "freed"}
    BY <1>2
<1>7. CASE krc # "OK" \/ cl.wire.type = "GETVERS" \/ cl.in.kv.metaonly
    <2>1. /\ GetRelease(cl, krc) \cup {"kio"} \subseteq cl.mem
          /\ cl.mem \ (GetRelease(cl, krc) \cup {"kio"}) = {}
        BY <1>5, <1>7 DEF GetRelease, Brought, RecvBufs
    <2>2. krc = "OK" => "rval" \in GetRelease(cl, krc)
        BY <1>3, <1>5, <1>7 DEF GetRelease, Brought, RecvBufs, NotReceived
    <2>3. krc = "OK" => /\ val # "given"
                        /\ val = "freed" => cl.in.kv.metaonly
                        /\ cl.wire.type \in Fetches => val # "none"
        BY <1>2, <1>3, <1>7, <2>2 DEF Fetches
    <2> QED
        BY <1>1, <1>2, <1>3, <1>4, <1>6, <2>1, <2>3 DEF GoodEnd, Settled
<1>8. CASE ~(krc # "OK" \/ cl.wire.type = "GETVERS" \/ cl.in.kv.metaonly)
    <2>1. /\ GetRelease(cl, krc) \cup {"kio"} \subseteq cl.mem
          /\ cl.mem \ (GetRelease(cl, krc) \cup {"kio"}) = {"rval"}
          /\ "rval" \notin GetRelease(cl, krc)
        BY <1>3, <1>5, <1>8 DEF GetRelease, Brought, RecvBufs, NotReceived
    <2>2. val = "given"
        BY <1>2, <1>3, <1>8, <2>1
    <2> QED
        BY <1>1, <1>2, <1>3, <1>4, <2>1, <2>2 DEF GoodEnd, Settled
<1> QED
    BY <1>7, <1>8

\* An exec keeps the value when it succeeds, asked for or not.
LEMMA ExecEnd ==
    ASSUME NEW cl, Back(cl), cl.op = "exec", NEW r \in e_exec_aio_complete(cl)
    PROVE  GoodEnd(cl, r)
<1>1. cl.op \notin WaitOps /\ cl.op \notin GetOps
    BY DEF WaitOps, GetOps
<1>2. PICK krc, pb, val, n :
          /\ r = Settled(krc, ExecRelease(cl.mem, krc) \cup {"kio"}, val, pb, n)
          /\ n \in ExecCounts(krc, cl.out)
          /\ \/ /\ cl.out \in NotReceived
                /\ krc = NotReceivedKrc(cl.out) /\ pb = "none"
             \/ /\ cl.out \notin NotReceived
                /\ krc = extract_exec_response(cl.out).krc
                /\ pb = extract_exec_response(cl.out).pb
          /\ val = CASE ~(/\ cl.in.outkey # <<>>
                          /\ cl.out \notin NotReceived \cup {"nomsg"}) -> "none"
                     [] /\ cl.in.outkey # <<>>
                        /\ cl.out \notin NotReceived \cup {"nomsg"}
                        /\ "rval" \in ExecRelease(cl.mem, krc) -> "freed"
                     [] OTHER -> "given"
    BY DEF e_exec_aio_complete
<1>3. /\ krc \in Krcs \ {"none"} /\ pb \in {"none", "leaked"}
      /\ krc = "OK" => cl.out = "ok" /\ cl.out \notin NotReceived
    BY <1>2, NotReceivedErr DEF extract_exec_response, Krcs, NotReceived
<1>4. /\ krc = "OK" => n \in {<<"ok">>, <<"ok", "unok", "dropped">>}
      /\ krc # "OK" => n = IF cl.out \in NotReceived THEN <<"err", "err">>
                           ELSE <<"err">>
    BY <1>2, OkTodo DEF ExecCounts
<1>5. cl.mem = {"kio", "vec", "pdu", "msg"} \cup Brought(cl.out)
    BY <1>1, BackMem
<1>6. CASE krc # "OK"
    <2>1. /\ ExecRelease(cl.mem, krc) \cup {"kio"} \subseteq cl.mem
          /\ cl.mem \ (ExecRelease(cl.mem, krc) \cup {"kio"}) = {}
        BY <1>5, <1>6 DEF ExecRelease, Brought, RecvBufs
    <2>2. val \in {"none", "given", "freed"}
        <3>1. CASE cl.in.outkey = <<>> \/ cl.out \in NotReceived \cup {"nomsg"}
            BY <1>2, <3>1
        <3>2. CASE ~(cl.in.outkey = <<>> \/ cl.out \in NotReceived \cup {"nomsg"})
            BY <1>2, <3>2
        <3> QED
            BY <3>1, <3>2
    <2> QED
        BY <1>1, <1>2, <1>3, <1>4, <1>6, <2>1, <2>2 DEF GoodEnd, Settled
<1>7. CASE krc = "OK"
    <2>1. /\ ExecRelease(cl.mem, krc) \cup {"kio"} \subseteq cl.mem
          /\ cl.mem \ (ExecRelease(cl.mem, krc) \cup {"kio"}) = {"rval"}
          /\ "rval" \notin ExecRelease(cl.mem, krc)
        BY <1>3, <1>5, <1>7 DEF ExecRelease, Brought, RecvBufs, NotReceived
    <2>2. val = IF cl.in.outkey = <<>> THEN "none" ELSE "given"
        <3>1. CASE cl.in.outkey = <<>>
            BY <1>2, <2>1, <3>1
        <3>2. CASE cl.in.outkey # <<>>
            BY <1>2, <1>3, <1>7, <2>1, <3>2
        <3> QED
            BY <3>1, <3>2
    <2> QED
        BY <1>1, <1>2, <1>3, <1>4, <1>7, <2>1, <2>2 DEF GoodEnd, Settled
<1> QED
    BY <1>6, <1>7

LEMMA LogEnd ==
    ASSUME NEW cl, Back(cl), cl.op = "getlog", NEW r \in LogSettle(cl)
    PROVE  GoodEnd(cl, r)
<1>1. cl.op \in WaitOps /\ cl.op \notin GetOps
    BY DEF WaitOps, GetOps
<1>2. PICK krc, pb, wild :
          /\ r = [krc |-> krc, frees |-> LogMem \cup {"rpdu", "rmsg", "rvec"},
                  val |-> "none", pb |-> pb, todo |-> <<>>, wild |-> wild]
          /\ \/ /\ cl.out \in NotReceived
                /\ krc = NotReceivedKrc(cl.out) /\ pb = "none" /\ wild = FALSE
             \/ /\ cl.out \notin NotReceived
                /\ krc = extract_getlog(cl.out).krc
                /\ pb = extract_getlog(cl.out).pb /\ wild = extract_getlog(cl.out).wild
    BY ZenonT(60) DEF LogSettle, Settled, extract_getlog
<1>3. /\ krc \in Krcs \ {"none"} /\ pb \in {"none", "given"}
      /\ krc = "OK" => cl.out = "ok"
    BY <1>2, NotReceivedErr DEF extract_getlog, Krcs, NotReceived
<1>4. \/ cl.mem \ (LogMem \cup {"rpdu", "rmsg", "rvec"}) = {}
      \/ cl.mem \ (LogMem \cup {"rpdu", "rmsg", "rvec"}) = {"rval"}
    BY <1>1, BackMem DEF Brought, RecvBufs, LogMem
<1> QED
    BY <1>1, <1>2, <1>3, <1>4 DEF GoodEnd

LEMMA RangeEnd ==
    ASSUME NEW cl, Back(cl), cl.op = "getrange", NEW r \in RangeSettle(cl)
    PROVE  GoodEnd(cl, r)
<1>1. cl.op \in WaitOps /\ cl.op \notin GetOps
    BY DEF WaitOps, GetOps
<1>2. PICK krc, pb, wild :
          /\ r = [krc |-> krc, frees |-> LogMem \cup {"rpdu", "rmsg", "rvec"},
                  val |-> "none", pb |-> pb, todo |-> <<>>, wild |-> wild]
          /\ \/ /\ cl.out \in NotReceived
                /\ krc = NotReceivedKrc(cl.out) /\ pb = "none" /\ wild = FALSE
             \/ /\ cl.out \notin NotReceived
                /\ krc = extract_keyrange(cl.out).krc
                /\ pb = extract_keyrange(cl.out).pb /\ wild = FALSE
    BY DEF RangeSettle, Settled, extract_keyrange
<1>3. /\ krc \in Krcs \ {"none"} /\ pb \in {"none", "given"}
      /\ krc = "OK" => cl.out = "ok"
    BY <1>2, NotReceivedErr DEF extract_keyrange, Krcs, NotReceived
<1>4. \/ cl.mem \ (LogMem \cup {"rpdu", "rmsg", "rvec"}) = {}
      \/ cl.mem \ (LogMem \cup {"rpdu", "rmsg", "rvec"}) = {"rval"}
    BY <1>1, BackMem DEF Brought, RecvBufs, LogMem
<1> QED
    BY <1>1, <1>2, <1>3, <1>4 DEF GoodEnd

LEMMA CompleteEnd ==
    ASSUME NEW cl, Back(cl), NEW r \in ki_aio_complete(cl)
    PROVE  GoodEnd(cl, r)
<1>1. CASE cl.op \in PutOps
    BY <1>1, PutEnd DEF ki_aio_complete, PutOps, DelOps, GetOps
<1>2. CASE cl.op \in DelOps
    BY <1>2, DelEnd DEF ki_aio_complete, PutOps, DelOps, GetOps
<1>3. CASE cl.op \in GetOps
    BY <1>3, GetEnd DEF ki_aio_complete, PutOps, DelOps, GetOps
<1>4. CASE cl.op = "noop"
    BY <1>4, NoopEnd DEF ki_aio_complete, PutOps, DelOps, GetOps
<1>5. CASE cl.op = "flush"
    BY <1>5, FlushEnd DEF ki_aio_complete, PutOps, DelOps, GetOps
<1>6. CASE cl.op = "exec"
    BY <1>6, ExecEnd DEF ki_aio_complete, PutOps, DelOps, GetOps
<1>7. CASE cl.op = "getlog"
    BY <1>7, LogEnd DEF ki_aio_complete, PutOps, DelOps, GetOps
<1>8. CASE cl.op = "getrange"
    BY <1>8, RangeEnd DEF ki_aio_complete, PutOps, DelOps, GetOps
<1> QED
    BY <1>1, <1>2, <1>3, <1>4, <1>5, <1>6, <1>7, <1>8
       DEF Back, AllOps, PutOps, DelOps, GetOps

LEMMA SubmitStart ==
    ASSUME NEW t \in Thread, Submit(t)
    PROVE  \E op, mode, kb, in, r :
               op \in AllOps /\ Begin(t, op, mode, kb, in, r) /\ GoodStart(op, r)
<1>1. CASE Put(t)
    BY <1>1, PutStart DEF Put, Try, AllOps, PutOps
<1>2. CASE Del(t)
    BY <1>2, DelStart DEF Del, Try, AllOps, DelOps
<1>3. CASE Get(t)
    BY <1>3, GetStart DEF Get, Try, AllOps, GetOps
<1>4. CASE Noop(t)
    BY <1>4, NoopStart DEF Noop, Try, AllOps
<1>5. CASE Flush(t)
    BY <1>5, FlushStart DEF Flush, Try, AllOps
<1>6. CASE Exec(t)
    BY <1>6, ExecStart DEF Exec, Try, AllOps
<1>7. CASE Getlog(t)
    BY <1>7, LogStart DEF Getlog, Try, AllOps
<1>8. CASE Getrange(t)
    BY <1>8, RangeStart DEF Getrange, Try, AllOps
<1> QED
    BY <1>1, <1>2, <1>3, <1>4, <1>5, <1>6, <1>7, <1>8 DEF Submit

-----------------------------------------------------------------------------
(* The steps, point by point.                                              *)

\* Only call c changes, only thread t.
OtherCalls(c) == DOMAIN call' = Calls /\ \A d \in Calls : d # c => call'[d] = call[d]
OtherThreads(t) ==
    thr' \in [Thread -> ThrType] /\ \A u \in Thread : u # t => thr'[u] = thr[u]

\* Thread t makes call c, and it gets as far as r says.
Made(t, c, op, mode, r) ==
    /\ call[c] = NoCall
    /\ OtherCalls(c) /\ DOMAIN call'[c] = Fields
    /\ call'[c].op = op /\ call'[c].mode = mode /\ call'[c].phase = r.phase
    /\ call'[c].krc = r.krc /\ call'[c].why = r.why /\ call'[c].mem = r.mem
    /\ call'[c].wire = r.wire /\ call'[c].out = "none" /\ call'[c].val = "none"
    /\ call'[c].pb = "none" /\ call'[c].applied = FALSE
    /\ OtherThreads(t)
    /\ thr[t].pc = "idle" /\ thr'[t].c = c /\ thr'[t].todo = r.todo
    /\ thr'[t].pc = NextPc(r.todo, r.phase # "returned" /\ mode = "sync")
    /\ crashed = "none" /\ crashed' \in (IF r.wild THEN {op, "none"} ELSE {"none"})
    /\ UNCHANGED <<kst, up, raced>>

LEMMA NextCall ==
    ASSUME Inv, Cardinality(Used) + 1 \in Calls
    PROVE  /\ call[Cardinality(Used) + 1] = NoCall
           /\ Used = 1 .. Cardinality(Used)
           /\ Cardinality(Used) \in Nat
<1>1. PICK n \in 0 .. MaxCalls : Used = 1 .. n
    BY DEF Inv, Numbered
<1>2. Cardinality(Used) = n
    BY <1>1, FS_Interval, KioAssumption
<1>3. n + 1 \notin Used
    BY <1>1, KioAssumption
<1>4. call[n + 1].phase = "idle"
    BY <1>2, <1>3 DEF Used
<1> QED
    BY <1>1, <1>2, <1>4 DEF Inv, CallsOK, CallOK

LEMMA BeginDoes ==
    ASSUME Inv, NEW t \in Thread, NEW op \in AllOps, NEW mode, NEW kb, NEW in,
           NEW r, Begin(t, op, mode, kb, in, r), GoodStart(op, r)
    PROVE  /\ Cardinality(Used) + 1 \in Calls
           /\ Made(t, Cardinality(Used) + 1, op, mode, r)
<1>1. PICK c \in Calls : c = Cardinality(Used) + 1
    BY DEF Begin
<1>2. call[c] = NoCall
    BY <1>1, NextCall
<1>3. call' = [call EXCEPT ![c] =
          [NoCall EXCEPT !.op = op, !.mode = mode, !.kb = kb, !.in = in,
              !.phase = r.phase, !.krc = r.krc, !.why = r.why, !.mem = r.mem,
              !.wire = r.wire]]
    BY <1>1 DEF Begin
<1>4. DOMAIN call = Calls
    BY DEF Inv, CallsOK
<1>5. OtherCalls(c)
    BY <1>3, <1>4 DEF OtherCalls
<1>6. PICK cl : cl = [NoCall EXCEPT !.op = op, !.mode = mode, !.kb = kb, !.in = in,
              !.phase = r.phase, !.krc = r.krc, !.why = r.why, !.mem = r.mem,
              !.wire = r.wire]
    OBVIOUS
<1>7. call'[c] = cl
    BY <1>3, <1>4, <1>6
<1>8. /\ DOMAIN cl = Fields
      /\ cl.op = op /\ cl.mode = mode /\ cl.phase = r.phase
      /\ cl.krc = r.krc /\ cl.why = r.why /\ cl.mem = r.mem
      /\ cl.wire = r.wire /\ cl.out = "none" /\ cl.val = "none"
      /\ cl.pb = "none" /\ cl.applied = FALSE
    BY <1>6 DEF NoCall, Fields
<1>9. thr' = [thr EXCEPT ![t] =
          [NoThread EXCEPT !.c = c, !.todo = r.todo,
              !.pc = NextPc(r.todo, r.phase # "returned" /\ mode = "sync")]]
    BY <1>1 DEF Begin
<1>10. r.todo \in Todos
    BY DEF GoodStart, Todos
<1>11. NextPc(r.todo, r.phase # "returned" /\ mode = "sync")
           \in {"count", "poll", "idle"}
    BY DEF NextPc
<1>12. PICK th : th = [NoThread EXCEPT !.c = c, !.todo = r.todo,
              !.pc = NextPc(r.todo, r.phase # "returned" /\ mode = "sync")]
    OBVIOUS
<1>13. /\ th \in ThrType /\ th.c = c /\ th.todo = r.todo
       /\ th.pc = NextPc(r.todo, r.phase # "returned" /\ mode = "sync")
    <2>1. c \in 0 .. MaxCalls
        BY DEF Calls
    <2>2. PICK pc \in {"count", "poll", "idle"} :
              pc = NextPc(r.todo, r.phase # "returned" /\ mode = "sync")
        BY <1>11
    <2>3. PICK todo \in Todos : todo = r.todo
        BY <1>10
    <2>4. th = [pc |-> pc, c |-> c, todo |-> todo, reg |-> 0]
        BY <1>12, <2>2, <2>3 DEF NoThread
    <2> QED
        BY <2>1, <2>2, <2>3, <2>4 DEF ThrType
<1>14. thr \in [Thread -> ThrType]
    BY DEF Inv, ThreadsOK
<1>15. OtherThreads(t) /\ thr'[t] = th
    BY <1>9, <1>12, <1>13, <1>14 DEF OtherThreads
<1>16. /\ crashed = "none" /\ crashed' \in (IF r.wild THEN {op, "none"} ELSE {"none"})
       /\ thr[t].pc = "idle" /\ UNCHANGED <<kst, up, raced>>
    BY SMTT(60) DEF Begin, Running
<1> QED
    BY <1>1, <1>2, <1>5, <1>7, <1>8, <1>13, <1>15, <1>16 DEF Made

\* Call c returns to thread t with result r.
Handed(t, c, out, why, r) ==
    /\ OtherCalls(c) /\ DOMAIN call'[c] = Fields
    /\ call'[c].op = call[c].op /\ call'[c].mode = call[c].mode
    /\ call'[c].kb = call[c].kb /\ call'[c].in = call[c].in
    /\ call'[c].wire = call[c].wire /\ call'[c].applied = call[c].applied
    /\ call'[c].phase = "returned" /\ call'[c].krc = r.krc
    /\ call'[c].out = out /\ call'[c].why = why
    /\ call'[c].mem = call[c].mem \ r.frees
    /\ call'[c].val = r.val /\ call'[c].pb = r.pb
    /\ OtherThreads(t)
    /\ thr'[t].c = c /\ thr'[t].todo = r.todo /\ thr'[t].pc = NextPc(r.todo, FALSE)
    /\ crashed' = IF r.wild \/ ~(r.frees \subseteq call[c].mem)
                  THEN call[c].op ELSE crashed
    /\ UNCHANGED <<kst, up, raced>>

LEMMA EndDoes ==
    ASSUME Inv, NEW t \in Thread, NEW c \in Calls, NEW out, NEW why, NEW r,
           r.todo \in Todos, End(t, c, out, why, r)
    PROVE  Handed(t, c, out, why, r)
<1>1. DOMAIN call = Calls /\ DOMAIN call[c] = Fields
    BY DEF Inv, CallsOK, CallOK
<1>2. call' = [call EXCEPT ![c].phase = "returned", ![c].krc = r.krc,
                           ![c].out = out, ![c].why = why,
                           ![c].mem = @ \ r.frees,
                           ![c].val = r.val, ![c].pb = r.pb]
    BY DEF End
<1>3. /\ OtherCalls(c) /\ DOMAIN call'[c] = Fields
      /\ call'[c].op = call[c].op /\ call'[c].mode = call[c].mode
      /\ call'[c].kb = call[c].kb /\ call'[c].in = call[c].in
      /\ call'[c].wire = call[c].wire /\ call'[c].applied = call[c].applied
    BY <1>1, <1>2 DEF OtherCalls, Fields
<1>4. /\ call'[c].phase = "returned" /\ call'[c].krc = r.krc
      /\ call'[c].out = out /\ call'[c].why = why
      /\ call'[c].mem = call[c].mem \ r.frees
      /\ call'[c].val = r.val /\ call'[c].pb = r.pb
    BY <1>1, <1>2 DEF Fields
<1>5. thr \in [Thread -> ThrType] /\ c \in 0 .. MaxCalls
    BY DEF Inv, ThreadsOK, Calls
<1>6. NextPc(r.todo, FALSE) \in {"count", "idle"}
    BY DEF NextPc
<1>7. PICK pc \in {"count", "idle"} : pc = NextPc(r.todo, FALSE)
    BY <1>6
<1>8. thr' = [thr EXCEPT ![t].pc = pc, ![t].c = c, ![t].todo = r.todo]
    BY <1>7 DEF End
<1>9. /\ OtherThreads(t)
      /\ thr'[t].c = c /\ thr'[t].todo = r.todo /\ thr'[t].pc = pc
    BY ZenonT(60), <1>5, <1>8 DEF OtherThreads, ThrType
<1> QED
    BY <1>3, <1>4, <1>7, <1>9 DEF Handed, End

-----------------------------------------------------------------------------
(* The invariant is kept.                                                  *)

LEMMA Grow ==
    ASSUME NEW n \in Nat PROVE (1 .. n) \cup {n + 1} = 1 .. n + 1
OBVIOUS

LEMMA MadeKeeps ==
    ASSUME Inv, NEW t \in Thread, NEW c \in Calls, c = Cardinality(Used) + 1,
           NEW op \in AllOps, NEW mode, NEW r, GoodStart(op, r),
           Made(t, c, op, mode, r)
    PROVE  Inv'
<1>1. /\ call[c] = NoCall /\ call[c].phase = "idle"
      /\ DOMAIN call' = Calls
      /\ \A d \in Calls : d # c => call'[d] = call[d]
    BY DEF Made, OtherCalls, NoCall
<1>2. CallOK(call'[c])
    <2>1. /\ DOMAIN call'[c] = Fields /\ call'[c].applied = FALSE
          /\ call'[c].op \in AllOps /\ call'[c].phase = r.phase
          /\ r.phase \in {"returned", "pending", "unsent"}
        BY DEF Made, GoodStart
    <2>2. r.phase = "pending" => r.wire # NoWire
        BY DEF GoodStart, NoWire
    <2>3. WireOK(call'[c])
        BY DEF Made, GoodStart, WireOK
    <2>4. r.phase \in Open => OpenOK(call'[c])
        BY <2>2 DEF Made, GoodStart, Open, OpenOK
    <2>5. r.phase = "returned" => ReturnedOK(call'[c])
        BY DEF Made, GoodStart, ReturnedOK
    <2> QED
        BY <2>1, <2>3, <2>4, <2>5 DEF CallOK, Open
<1>3. CallsOK'
    BY <1>1, <1>2 DEF Inv, CallsOK
<1>4. Numbered'
    <2>1. PICK n \in Nat : Used = 1 .. n /\ c = n + 1
        BY NextCall
    <2>2. call'[c].phase # "idle"
        BY DEF Made, GoodStart
    <2>3. Used' = Used \cup {c}
        BY <1>1, <2>2 DEF Used
    <2>4. Used' = 1 .. n + 1
        BY <2>1, <2>3, Grow
    <2>5. n + 1 \in 0 .. MaxCalls
        BY <2>1, KioAssumption DEF Calls
    <2> QED
        BY <2>4, <2>5 DEF Numbered
<1>5. ThreadsOK'
    <2>1. ThreadsOK
        BY DEF Inv
    <2>2. /\ thr' \in [Thread -> ThrType]
          /\ \A u \in Thread : u # t => thr'[u] = thr[u]
        BY DEF Made, OtherThreads
    <2>3. /\ thr'[t].c = c
          /\ thr'[t].pc \in Waits =>
                 mode = "sync" /\ r.phase # "returned"
          /\ thr'[t].pc \in Counts =>
                 r.todo # <<>> /\ thr'[t].todo = r.todo
        BY DEF Made, NextPc, Waits, Counts
    <2>4. /\ call'[c].mode = mode /\ call'[c].phase = r.phase /\ call'[c].op = op
          /\ r.phase # "returned" => r.phase \in Open /\ r.todo = <<>>
          /\ r.phase = "returned" /\ r.todo # <<>> => op \notin WaitOps
        BY DEF Made, GoodStart, Open
    <2>5. \A u \in Thread : u # t /\ thr'[u].pc \in Waits \cup Counts =>
              thr'[u].c \in Calls /\ thr'[u].c # c
        BY <1>1, <2>1, <2>2 DEF ThreadsOK, Open
    <2>6. \A u \in Thread :
              thr'[u].pc \in Waits =>
                  /\ thr'[u].c \in Calls
                  /\ call'[thr'[u].c].mode = "sync"
                  /\ call'[thr'[u].c].phase \in Open
        BY <1>1, <2>1, <2>2, <2>3, <2>4, <2>5 DEF ThreadsOK
    <2>7. \A u \in Thread :
              thr'[u].pc \in Counts =>
                  /\ thr'[u].c \in Calls /\ thr'[u].todo # <<>>
                  /\ call'[thr'[u].c].phase = "returned"
                  /\ call'[thr'[u].c].op \in AllOps \ WaitOps
        <3>1. thr'[t].pc \in Counts => r.phase = "returned" /\ op \notin WaitOps
            BY <2>3, <2>4
        <3>2. \A u \in Thread : u # t /\ thr'[u].pc \in Counts =>
                  thr[u].pc \in Counts /\ thr'[u] = thr[u]
                  /\ call'[thr[u].c] = call[thr[u].c]
            BY <1>1, <2>2, <2>5
        <3> QED
            BY <2>1, <2>3, <2>4, <3>1, <3>2 DEF ThreadsOK
    <2>8. \A u, v \in Thread :
              thr'[u].pc \in Waits /\ thr'[v].pc \in Waits /\ thr'[u].c = thr'[v].c
                  => u = v
        BY <2>1, <2>2, <2>3, <2>5 DEF ThreadsOK
    <2> QED
        BY <2>2, <2>6, <2>7, <2>8 DEF ThreadsOK
<1>6. kst' = kst /\ up' = up /\ raced' = raced
    BY DEF Made
<1>7. up' \in BOOLEAN /\ raced' \in BOOLEAN
    BY <1>6, Zenon DEF Inv
<1>8. CountersOK'
    BY <1>6 DEF Inv, CountersOK
<1> QED
    BY <1>3, <1>4, <1>5, <1>7, <1>8 DEF Inv

\* The result of a completion, as far as the caller can see it.
Fit(c, out, why, r) ==
    /\ r.krc \in Krcs \ {"none"}
    /\ r.val \in {"none", "given", "freed"}
    /\ r.pb \in {"none", "given", "freed", "leaked"}
    /\ r.todo \in Todos /\ (call[c].op \in WaitOps => r.todo = <<>>)
    /\ why = "sent" => out # "none"
    /\ why = "lost" /\ call[c].op \notin WaitOps => "kio" \in call[c].mem \ r.frees
    /\ r.krc = "OK" =>
           /\ r.pb # "freed"
           /\ r.val = "given" => "rval" \in call[c].mem \ r.frees
           /\ r.val = "freed" => call[c].in.kv.metaonly
           /\ call[c].wire.type \in Fetches => r.val # "none"
           /\ call[c].kb = <<>> /\ call[c].wire # NoWire => call[c].applied

\* Nobody else waits for call c.
Sole(t, c) == \A u \in Thread : thr[u].pc \in Waits /\ thr[u].c = c => u = t

LEMMA HandedKeeps ==
    ASSUME Inv, NEW t \in Thread, NEW c \in Calls, NEW out, NEW why, NEW r,
           call[c].phase \in Open, Sole(t, c), Fit(c, out, why, r),
           Handed(t, c, out, why, r)
    PROVE  Inv'
<1>1. DOMAIN call' = Calls /\ \A d \in Calls : d # c => call'[d] = call[d]
    BY DEF Handed, OtherCalls
<1>2. /\ CallOK(call[c]) /\ call[c].phase # "idle" /\ call[c].op \in AllOps
      /\ OpenOK(call[c])
    BY DEF Inv, CallsOK, CallOK, Open
<1>3. CallOK(call'[c])
    <2>1. call[c].mem \subseteq SendBufs \cup RecvBufs
        BY <1>2 DEF OpenOK, Open, Base, Brought, LogMem, SendBufs
    <2>2. call'[c].mem \subseteq SendBufs \cup RecvBufs
        BY <2>1 DEF Handed
    <2>3. Usable(call'[c]) \/ r.krc # "OK"
        BY DEF Handed, Fit, Usable
    <2>4. ReturnedOK(call'[c])
        BY <2>2, <2>3 DEF Handed, Fit, ReturnedOK
    <2>5. WireOK(call'[c])
        BY <1>2 DEF Handed, CallOK, WireOK
    <2>6. /\ call'[c].applied \in BOOLEAN
          /\ call'[c].applied => call'[c].wire # NoWire
        BY <1>2 DEF Handed, CallOK
    <2>7. /\ DOMAIN call'[c] = Fields /\ call'[c].phase = "returned"
          /\ call'[c].op \in AllOps
        BY <1>2 DEF Handed
    <2> QED
        BY <2>4, <2>5, <2>6, <2>7 DEF CallOK, Open
<1>4. CallsOK'
    BY <1>1, <1>3 DEF Inv, CallsOK
<1>5. Numbered'
    <2>1. call'[c].phase # "idle"
        BY DEF Handed
    <2>2. Used' = Used
        BY <1>1, <1>2, <2>1 DEF Used
    <2> QED
        BY <2>2 DEF Inv, Numbered
<1>6. ThreadsOK'
    <2>1. ThreadsOK
        BY DEF Inv
    <2>2. /\ thr' \in [Thread -> ThrType]
          /\ \A u \in Thread : u # t => thr'[u] = thr[u]
        BY DEF Handed, OtherThreads
    <2>3. /\ thr'[t].pc \notin Waits
          /\ thr'[t].pc \in Counts =>
                 /\ thr'[t].c = c /\ thr'[t].todo # <<>>
                 /\ call[c].op \notin WaitOps
        BY DEF Handed, Fit, NextPc, Waits, Counts
    <2>4. call'[c].phase = "returned" /\ call'[c].op = call[c].op
        BY DEF Handed
    <2>5. \A u \in Thread : u # t /\ thr'[u].pc \in Waits \cup Counts =>
              thr'[u].c \in Calls /\ thr'[u].c # c
        BY <2>1, <2>2 DEF ThreadsOK, Open, Sole
    <2>6. \A u \in Thread :
              thr'[u].pc \in Waits =>
                  /\ thr'[u].c \in Calls
                  /\ call'[thr'[u].c].mode = "sync"
                  /\ call'[thr'[u].c].phase \in Open
        BY <1>1, <2>1, <2>2, <2>3, <2>5 DEF ThreadsOK
    <2>7. \A u \in Thread :
              thr'[u].pc \in Counts =>
                  /\ thr'[u].c \in Calls /\ thr'[u].todo # <<>>
                  /\ call'[thr'[u].c].phase = "returned"
                  /\ call'[thr'[u].c].op \in AllOps \ WaitOps
        BY <1>1, <1>2, <2>1, <2>2, <2>3, <2>4, <2>5 DEF ThreadsOK
    <2>8. \A u, v \in Thread :
              thr'[u].pc \in Waits /\ thr'[v].pc \in Waits /\ thr'[u].c = thr'[v].c
                  => u = v
        BY <2>1, <2>2, <2>3 DEF ThreadsOK
    <2> QED
        BY <2>2, <2>6, <2>7, <2>8 DEF ThreadsOK
<1>7. kst' = kst /\ up' = up /\ raced' = raced
    BY DEF Handed
<1>8. up' \in BOOLEAN /\ raced' \in BOOLEAN
    BY <1>7, Zenon DEF Inv
<1>9. CountersOK'
    BY <1>7 DEF Inv, CountersOK
<1> QED
    BY <1>4, <1>5, <1>6, <1>8, <1>9 DEF Inv

\* A thread that may receive call c is the only one to wait for it.
LEMMA TakerAlone ==
    ASSUME Inv, NEW t \in Thread, NEW c \in Calls, Takes(t, c)
    PROVE  call[c].phase \in Open /\ Sole(t, c)
<1>1. ThreadsOK
    BY DEF Inv
<1>2. CASE thr[t].pc = "collect" /\ thr[t].c = c
    BY <1>1, <1>2 DEF ThreadsOK, Sole, Waits
<1>3. CASE call[c].mode = "aio" /\ call[c].phase \in {"pending", "done"}
    BY <1>1, <1>3 DEF ThreadsOK, Sole, Open
<1> QED
    BY <1>2, <1>3 DEF Takes

LEMMA ReceiveDoes ==
    ASSUME Inv, NEW t \in Thread, NEW c \in Calls, Receive(t, c)
    PROVE  \E r : /\ GoodEnd(call[c], r) /\ Back(call[c])
                  /\ call[c].phase = "done"
                  /\ Handed(t, c, call[c].out, "sent", r)
<1>1. PICK r \in ki_aio_complete(call[c]) : End(t, c, call[c].out, "sent", r)
    BY DEF Receive
<1>2. call[c].phase = "done" /\ call[c].op \in AllOps /\ OpenOK(call[c])
    BY DEF Receive, Inv, CallsOK, CallOK, Open
<1>3. Back(call[c])
    BY <1>2 DEF Back, OpenOK
<1>4. GoodEnd(call[c], r)
    BY <1>1, <1>3, CompleteEnd
<1>5. r.todo \in Todos
    BY <1>4 DEF GoodEnd, Todos
<1> QED
    BY <1>1, <1>2, <1>3, <1>4, <1>5, EndDoes

\* What the session hands back when it drains its send queue.
LEMMA DrainedDoes ==
    ASSUME Inv, NEW t \in Thread, NEW c \in Calls, ReceiveDrained(t, c)
    PROVE  \E cl, r : /\ GoodEnd(cl, r) /\ Back(cl)
                      /\ cl.out = "failed" /\ cl.op = call[c].op
                      /\ cl.mem = call[c].mem /\ cl.kb = call[c].kb
                      /\ cl.in = call[c].in /\ cl.wire = call[c].wire
                      /\ call[c].phase = "pending"
                      /\ Handed(t, c, "failed", "sent", r)
<1>1. PICK cl : cl = [call[c] EXCEPT !.out = "failed"]
    OBVIOUS
<1>2. PICK r \in ki_aio_complete(cl) : End(t, c, "failed", "sent", r)
    BY <1>1 DEF ReceiveDrained
<1>3. /\ call[c].phase = "pending" /\ call[c].op \in AllOps /\ OpenOK(call[c])
      /\ DOMAIN call[c] = Fields
    BY DEF ReceiveDrained, Inv, CallsOK, CallOK, Open
<1>4. /\ cl.out = "failed" /\ cl.op = call[c].op /\ cl.mem = call[c].mem
      /\ cl.kb = call[c].kb /\ cl.in = call[c].in /\ cl.wire = call[c].wire
    BY <1>1, <1>3 DEF Fields
<1>5. "failed" \in Answers(cl) /\ Brought("failed") = {}
    BY DEF Answers, NotReceived, Brought
<1>6. Back(cl)
    BY <1>3, <1>4, <1>5 DEF Back, OpenOK
<1>7. GoodEnd(cl, r)
    BY <1>2, <1>6, CompleteEnd
<1>8. r.todo \in Todos
    BY <1>7 DEF GoodEnd, Todos
<1> QED
    BY <1>2, <1>3, <1>4, <1>6, <1>7, <1>8, EndDoes

\* Giving up on a lost session: getlog and getrange free what they sent.
LEMMA LostDoes ==
    ASSUME Inv, NEW t \in Thread, NEW c \in Calls, ReceiveLost(t, c)
    PROVE  \E r : /\ r.krc = "EINTERNAL" /\ r.val = "none" /\ r.pb = "none"
                  /\ r.wild = FALSE
                  /\ r.frees = IF call[c].op \in WaitOps THEN LogMem ELSE {}
                  /\ r.todo = IF call[c].op \in WaitOps THEN <<>> ELSE <<"err">>
                  /\ Handed(t, c, call[c].out, "lost", r)
<1>1. PICK r : r = GiveUp(call[c])
    OBVIOUS
<1>2. End(t, c, call[c].out, "lost", r)
    BY <1>1 DEF ReceiveLost
<1>3. /\ r.krc = "EINTERNAL" /\ r.val = "none" /\ r.pb = "none"
      /\ r.wild = FALSE
      /\ r.frees = IF call[c].op \in WaitOps THEN LogMem ELSE {}
      /\ r.todo = IF call[c].op \in WaitOps THEN <<>> ELSE <<"err">>
    BY <1>1 DEF GiveUp, LogGivesUp, RangeGivesUp, Settled, WaitOps
<1>4. r.todo \in Todos
    BY <1>3 DEF Todos
<1> QED
    BY <1>2, <1>3, <1>4, EndDoes

\* The counters a call that has returned makes its thread update, ...
Tallied(cl, todo) ==
    /\ cl.op \in WaitOps => todo = <<>>
    /\ cl.op \notin WaitOps =>
           /\ cl.krc = "OK" => todo \in {<<"ok">>, <<"ok", "unok", "dropped">>}
           /\ cl.krc # "OK" =>
                  todo = IF cl.why \in {"badktd", "nockio"} THEN <<>>
                         ELSE IF cl.why = "sent" /\ cl.out \in NotReceived
                         THEN <<"err", "err">> ELSE <<"err">>

\* ... and what becomes of its memory: only getlog and getrange may crash.
Clean(cl) ==
    /\ cl.why = "lost" \/ Tidy(cl)
    /\ crashed' # "none" => crashed' = cl.op /\ cl.op \in WaitOps

\* A completion of any of the three kinds is fit for the caller.
LEMMA CollectDoes ==
    ASSUME Inv, NEW t \in Thread, Collect(t)
    PROVE  \E c \in Calls : \E out, why, r :
               /\ call[c].phase \in Open /\ Sole(t, c)
               /\ crashed = "none" /\ thr[t].pc \notin Counts
               /\ Fit(c, out, why, r) /\ Handed(t, c, out, why, r)
               /\ Tallied(call'[c], r.todo) /\ Clean(call'[c])
<1>1. PICK c \in Calls : Receive(t, c) \/ ReceiveDrained(t, c) \/ ReceiveLost(t, c)
    BY DEF Collect
<1>2. Takes(t, c) /\ crashed = "none"
    BY <1>1 DEF Receive, ReceiveDrained, ReceiveLost, Running
<1>3. call[c].phase \in Open /\ Sole(t, c) /\ thr[t].pc \notin Counts
    BY <1>2, TakerAlone DEF Takes, Counts
<1>4. CallOK(call[c]) /\ OpenOK(call[c]) /\ WireOK(call[c])
    BY <1>3 DEF Inv, CallsOK, CallOK
<1>5. call[c].wire.type \in Fetches => call[c].op \in GetOps
    BY <1>4 DEF WireOK, NoWire, Fetches
<1>6. CASE Receive(t, c)
    <2>1. PICK r : /\ GoodEnd(call[c], r) /\ Back(call[c])
                   /\ call[c].phase = "done"
                   /\ Handed(t, c, call[c].out, "sent", r)
        BY <1>6, ReceiveDoes
    <2>2. call[c].out # "none"
        BY <1>4, <2>1 DEF OpenOK, Answers, NotReceived, KvAnswers
    <2>3. call[c].out \in {"ok", "nobody"} => call[c].applied
        BY <1>4, <2>1 DEF OpenOK
    <2>4. r.todo \in Todos
        BY <2>1 DEF GoodEnd, Todos
    <2>5. Fit(c, call[c].out, "sent", r)
        BY <1>5, <2>1, <2>2, <2>3, <2>4 DEF GoodEnd, Fit
    <2>6. Tallied(call'[c], r.todo)
        BY <2>1 DEF GoodEnd, Handed, Tallied
    <2>7. Clean(call'[c])
        BY <1>2, <2>1 DEF GoodEnd, Handed, Clean, Tidy
    <2> QED
        BY <1>2, <1>3, <2>1, <2>5, <2>6, <2>7
<1>7. CASE ReceiveDrained(t, c)
    <2>1. PICK cl, r :
              /\ GoodEnd(cl, r) /\ Back(cl)
              /\ cl.out = "failed" /\ cl.op = call[c].op
              /\ cl.mem = call[c].mem /\ cl.kb = call[c].kb
              /\ cl.in = call[c].in /\ cl.wire = call[c].wire
              /\ call[c].phase = "pending"
              /\ Handed(t, c, "failed", "sent", r)
        BY <1>7, DrainedDoes
    <2>2. r.todo \in Todos
        BY <2>1 DEF GoodEnd, Todos
    <2>3. Fit(c, "failed", "sent", r)
        BY <1>5, <2>1, <2>2 DEF GoodEnd, Fit
    <2>4. Tallied(call'[c], r.todo)
        BY <2>1 DEF GoodEnd, Handed, Tallied
    <2>5. Clean(call'[c])
        BY <1>2, <2>1 DEF GoodEnd, Handed, Clean, Tidy
    <2> QED
        BY <1>2, <1>3, <2>1, <2>3, <2>4, <2>5
<1>8. CASE ReceiveLost(t, c)
    <2>1. PICK r : /\ r.krc = "EINTERNAL" /\ r.val = "none" /\ r.pb = "none"
                   /\ r.wild = FALSE
                   /\ r.frees = IF call[c].op \in WaitOps THEN LogMem ELSE {}
                   /\ r.todo = IF call[c].op \in WaitOps THEN <<>> ELSE <<"err">>
                   /\ Handed(t, c, call[c].out, "lost", r)
        BY <1>8, LostDoes
    <2>2. call[c].op \notin WaitOps => "kio" \in call[c].mem
        BY <1>3, <1>4 DEF OpenOK, Open, Base, SendBufs
    <2>3. Fit(c, call[c].out, "lost", r)
        BY <2>1, <2>2 DEF Fit, Krcs, Todos
    <2>4. Tallied(call'[c], r.todo)
        BY <2>1 DEF Handed, Tallied
    <2>5. Clean(call'[c])
        BY <1>2, <2>1 DEF Handed, Clean
    <2> QED
        BY <1>2, <1>3, <2>1, <2>3, <2>4, <2>5
<1> QED
    BY <1>1, <1>6, <1>7, <1>8

\* One round of the wait loop.
LEMMA WaitDoes ==
    ASSUME Inv, NEW t \in Thread,
           \/ \E timeout : Poll(t, timeout)
           \/ PollWoken(t) \/ TryAgain(t)
    PROVE  /\ OtherThreads(t)
           /\ thr[t].pc \in Waits /\ thr'[t].pc \in Waits
           /\ thr'[t].c = thr[t].c
           /\ UNCHANGED <<call, kst, up, raced, crashed>>
<1>1. thr \in [Thread -> ThrType]
    BY DEF Inv, ThreadsOK
<1>2. PICK pc \in Waits : thr' = [thr EXCEPT ![t].pc = pc]
    BY DEF Poll, PollWoken, TryAgain, Waits
<1>3. thr[t].pc \in Waits /\ UNCHANGED <<call, kst, up, raced, crashed>>
    BY DEF Poll, PollWoken, TryAgain, Waits
<1>4. OtherThreads(t) /\ thr'[t].pc = pc /\ thr'[t].c = thr[t].c
    BY <1>1, <1>2 DEF OtherThreads, ThrType, Waits
<1> QED
    BY <1>3, <1>4

\* The family a call is counted in.
LEMMA FamilyOf ==
    ASSUME NEW op \in AllOps \ WaitOps PROVE Family(op) \in Families
BY DEF AllOps, WaitOps, Family, Families, PutOps, DelOps, GetOps

LEMMA TodoParts ==
    ASSUME NEW todo \in Todos, todo # <<>>
    PROVE  /\ Head(todo) \in {"ok", "unok", "dropped", "err"}
           /\ Tail(todo) \in Todos
<1>1. CASE todo = <<"ok">>
    BY <1>1 DEF Todos
<1>2. CASE todo = <<"ok", "unok", "dropped">>
    BY <1>2 DEF Todos
<1>3. CASE todo = <<"unok", "dropped">>
    BY <1>3 DEF Todos
<1>4. CASE todo = <<"dropped">>
    BY <1>4 DEF Todos
<1>5. CASE todo = <<"err">>
    BY <1>5 DEF Todos
<1>6. CASE todo = <<"err", "err">>
    BY <1>6 DEF Todos
<1> QED
    BY <1>1, <1>2, <1>3, <1>4, <1>5, <1>6 DEF Todos

\* What a thread that is counting works on.
LEMMA CounterAt ==
    ASSUME Inv, NEW t \in Thread, thr[t].pc \in Counts
    PROVE  /\ thr[t].c \in Calls
           /\ Family(call[thr[t].c].op) \in Families
           /\ thr[t].todo \in Todos /\ thr[t].todo # <<>>
           /\ thr[t].reg \in Int
<1>1. /\ thr[t].c \in Calls /\ thr[t].todo # <<>>
      /\ call[thr[t].c].op \in AllOps \ WaitOps
      /\ thr[t] \in ThrType
    BY DEF Inv, ThreadsOK
<1> QED
    BY <1>1, FamilyOf DEF ThrType

Field(what) == IF what = "unok" THEN "ok" ELSE what

LEMMA LoadDoes ==
    ASSUME Inv, NEW t \in Thread, NEW f, f = Family(call[thr[t].c].op),
           CountLoad(t, f)
    PROVE  /\ OtherThreads(t)
           /\ thr[t].pc = "count" /\ thr'[t].pc = "store"
           /\ thr'[t].c = thr[t].c /\ thr'[t].todo = thr[t].todo
           /\ thr'[t].reg = kst[f][Field(Head(thr[t].todo))]
           /\ UNCHANGED <<call, kst, up, raced, crashed>>
<1>1. thr[t].pc = "count" /\ thr[t].pc \in Counts
      /\ UNCHANGED <<call, kst, up, raced, crashed>>
    BY DEF CountLoad, Counts
<1>2. f \in Families /\ thr[t].todo \in Todos /\ thr[t].todo # <<>>
    BY <1>1, CounterAt
<1>3. PICK x : x = kst[f][Field(Head(thr[t].todo))]
    OBVIOUS
<1>4. Field(Head(thr[t].todo)) \in {"ok", "dropped", "err"}
    BY <1>2, TodoParts DEF Field
<1>5. x \in Int
    BY <1>2, <1>3, <1>4 DEF Inv, CountersOK
<1>6. thr' = [thr EXCEPT ![t].pc = "store", ![t].reg = x]
    BY <1>3 DEF CountLoad, Field
<1>7. thr \in [Thread -> ThrType]
    BY DEF Inv, ThreadsOK
<1>8. /\ OtherThreads(t) /\ thr'[t].pc = "store" /\ thr'[t].c = thr[t].c
      /\ thr'[t].todo = thr[t].todo /\ thr'[t].reg = x
    BY ZenonT(60), <1>5, <1>6, <1>7 DEF OtherThreads, ThrType
<1> QED
    BY <1>1, <1>3, <1>8

LEMMA StoreDoes ==
    ASSUME Inv, NEW t \in Thread, NEW f, f = Family(call[thr[t].c].op),
           CountStore(t, f)
    PROVE  /\ OtherThreads(t)
           /\ thr[t].pc = "store" /\ f \in Families
           /\ thr'[t].c = thr[t].c /\ thr'[t].todo = Tail(thr[t].todo)
           /\ thr'[t].pc = IF Tail(thr[t].todo) # <<>> THEN "count" ELSE "idle"
           /\ CountersOK'
           /\ \A g \in Families : g # f => kst'[g] = kst[g]
           /\ \A x \in {"ok", "dropped", "err"} :
                  x # Field(Head(thr[t].todo)) => kst'[f][x] = kst[f][x]
           /\ kst'[f][Field(Head(thr[t].todo))] =
                  IF Head(thr[t].todo) = "unok" THEN thr[t].reg - 1
                  ELSE thr[t].reg + 1
           /\ raced' \in BOOLEAN
           /\ ~raced' => ~raced /\ kst[f][Field(Head(thr[t].todo))] = thr[t].reg
           /\ UNCHANGED <<call, up, crashed>>
<1>1. thr[t].pc = "store" /\ thr[t].pc \in Counts /\ UNCHANGED <<call, up, crashed>>
    BY DEF CountStore, Counts
<1>2. /\ f \in Families /\ thr[t].todo \in Todos /\ thr[t].todo # <<>>
      /\ thr[t].reg \in Int
    BY <1>1, CounterAt
<1>3. PICK field \in {"ok", "dropped", "err"} : field = Field(Head(thr[t].todo))
    BY <1>2, TodoParts DEF Field
<1>4. PICK rest \in Todos : rest = Tail(thr[t].todo)
    BY ZenonT(60), <1>2, TodoParts
<1>5. PICK new \in Int : new = IF Head(thr[t].todo) = "unok" THEN thr[t].reg - 1
                               ELSE thr[t].reg + 1
    BY SMTT(60), <1>2
<1>6. kst' = [kst EXCEPT ![f][field] = new]
    BY ZenonT(60), <1>3, <1>5 DEF CountStore, Field
<1>7. raced' = (raced \/ kst[f][field] # thr[t].reg)
    BY <1>3 DEF CountStore, Field
<1>8. raced' \in BOOLEAN /\ (~raced' => ~raced /\ kst[f][field] = thr[t].reg)
    BY <1>7, Zenon
<1>9. PICK pc \in {"count", "idle"} :
          pc = IF rest # <<>> THEN "count" ELSE "idle"
    BY SMTT(60)
<1>10. thr' = [thr EXCEPT ![t].todo = rest, ![t].reg = 0, ![t].pc = pc]
    BY <1>4, <1>9 DEF CountStore, NextPc
<1>11. thr \in [Thread -> ThrType]
    BY DEF Inv, ThreadsOK
<1>12. /\ OtherThreads(t) /\ thr'[t].pc = pc /\ thr'[t].c = thr[t].c
       /\ thr'[t].todo = rest
    <2>1. rest \in Todos /\ pc \in {"count", "idle"}
        BY <1>4, <1>9
    <2>2. PICK x : x = 0
        OBVIOUS
    <2>3. x \in Int
        BY <2>2
    <2>4. thr' = [thr EXCEPT ![t].todo = rest, ![t].reg = x, ![t].pc = pc]
        BY SMTT(60), <1>10, <2>2
    <2> QED
        BY ZenonT(60), <1>11, <2>1, <2>3, <2>4 DEF OtherThreads, ThrType
<1>13. /\ kst' \in [Families -> [{"ok", "err", "dropped"} -> Int]]
       /\ \A g \in Families : g # f => kst'[g] = kst[g]
       /\ \A x \in {"ok", "dropped", "err"} : x # field => kst'[f][x] = kst[f][x]
       /\ kst'[f][field] = new
    BY <1>2, <1>6 DEF Inv, CountersOK
<1> QED
    BY ZenonT(60), <1>1, <1>2, <1>3, <1>4, <1>5, <1>8, <1>9, <1>12, <1>13 DEF CountersOK

\* The session completes call c.
LEMMA CompleteDoes ==
    ASSUME Inv, NEW c \in Calls, NEW out \in Answers(call[c]), Complete(c, out)
    PROVE  /\ call[c].phase = "pending" /\ OtherCalls(c) /\ DOMAIN call'[c] = Fields
           /\ call'[c].phase = "done" /\ call'[c].out = out
           /\ call'[c].mem = call[c].mem \cup Brought(out)
           /\ out \in {"ok", "nobody"} => call[c].applied
           /\ \A x \in Fields \ {"phase", "out", "mem"} : call'[c][x] = call[c][x]
           /\ UNCHANGED <<thr, kst, up, raced, crashed>>
<1>1. DOMAIN call = Calls /\ DOMAIN call[c] = Fields
    BY DEF Inv, CallsOK, CallOK
<1>2. call' = [call EXCEPT ![c].phase = "done", ![c].out = out,
                           ![c].mem = @ \cup Brought(out)]
    BY <1>1 DEF Complete, Brought, Fields
<1>3. /\ OtherCalls(c) /\ DOMAIN call'[c] = Fields
      /\ call'[c].phase = "done" /\ call'[c].out = out
      /\ call'[c].mem = call[c].mem \cup Brought(out)
      /\ \A x \in Fields \ {"phase", "out", "mem"} : call'[c][x] = call[c][x]
    BY <1>1, <1>2 DEF OtherCalls, Fields
<1> QED
    BY <1>3 DEF Complete

\* The device executes the request of call c.
LEMMA ApplyDoes ==
    ASSUME Inv, NEW c \in Calls, DeviceApply(c)
    PROVE  /\ call[c].wire # NoWire /\ ~call[c].applied
           /\ OtherCalls(c) /\ DOMAIN call'[c] = Fields
           /\ call'[c].applied = TRUE
           /\ \A x \in Fields \ {"applied"} : call'[c][x] = call[c][x]
           /\ UNCHANGED <<thr, kst, up, raced, crashed>>
<1>1. DOMAIN call = Calls /\ DOMAIN call[c] = Fields
    BY DEF Inv, CallsOK, CallOK
<1>2. /\ OtherCalls(c) /\ DOMAIN call'[c] = Fields
      /\ call'[c].applied = TRUE
      /\ \A x \in Fields \ {"applied"} : call'[c][x] = call[c][x]
    BY <1>1 DEF DeviceApply, OtherCalls, Fields
<1> QED
    BY <1>2 DEF DeviceApply, NoWire

\* A step of one thread that leaves the calls alone.
LEMMA ThreadKeeps ==
    ASSUME Inv, NEW t \in Thread, OtherThreads(t), UNCHANGED call,
           \/ thr[t].pc \in Waits /\ thr'[t].pc \in Waits
           \/ thr[t].pc \in Counts /\ thr'[t].pc \in Counts /\ thr'[t].todo # <<>>
           \/ thr'[t].pc = "idle",
           thr'[t].c = thr[t].c,
           CountersOK', up' \in BOOLEAN, raced' \in BOOLEAN
    PROVE  Inv'
<1>1. CallsOK' /\ Numbered'
    BY DEF Inv, CallsOK, Numbered, Used
<1>2. ThreadsOK'
    <2>1. ThreadsOK
        BY DEF Inv
    <2>2. thr' \in [Thread -> ThrType]
        BY DEF OtherThreads
    <2>3. \A u \in Thread :
              /\ thr'[u].c = thr[u].c
              /\ thr'[u].pc \in Waits => thr[u].pc \in Waits
              /\ thr'[u].pc \in Counts => thr[u].pc \in Counts /\ thr'[u].todo # <<>>
        BY <2>1 DEF OtherThreads, ThreadsOK, Waits, Counts
    <2> QED
        BY <2>1, <2>2, <2>3 DEF ThreadsOK
<1> QED
    BY <1>1, <1>2 DEF Inv

\* A step of one call that leaves the threads alone.
LEMMA CallKeeps ==
    ASSUME Inv, NEW c \in Calls, OtherCalls(c), CallOK(call'[c]),
           call[c].phase # "idle", call'[c].phase # "idle",
           call'[c].op = call[c].op, call'[c].mode = call[c].mode,
           call[c].phase \in Open <=> call'[c].phase \in Open,
           UNCHANGED <<thr, kst, up, raced>>
    PROVE  Inv'
<1>1. CallsOK'
    BY DEF Inv, CallsOK, OtherCalls
<1>2. Used' = Used
    BY DEF Used, OtherCalls
<1>3. Numbered'
    BY <1>2 DEF Inv, Numbered
<1>4. \A d \in Calls : /\ call'[d].op = call[d].op /\ call'[d].mode = call[d].mode
                       /\ call[d].phase \in Open => call'[d].phase \in Open
                       /\ call[d].phase = "returned" => call'[d].phase = "returned"
    BY <1>1 DEF OtherCalls, CallsOK, CallOK, Open
<1>5. ThreadsOK'
    BY <1>4 DEF Inv, ThreadsOK
<1>6. up' \in BOOLEAN /\ raced' \in BOOLEAN
    <2>1. up' = up /\ raced' = raced
        OBVIOUS
    <2> QED
        BY <2>1, Zenon DEF Inv
<1>7. CountersOK'
    BY DEF Inv, CountersOK
<1> QED
    BY <1>1, <1>3, <1>5, <1>6, <1>7 DEF Inv

LEMMA CompleteKeeps ==
    ASSUME Inv, NEW c \in Calls, NEW out \in Answers(call[c]), Complete(c, out)
    PROVE  Inv'
<1>1. /\ call[c].phase = "pending" /\ OtherCalls(c) /\ DOMAIN call'[c] = Fields
      /\ call'[c].phase = "done" /\ call'[c].out = out
      /\ call'[c].mem = call[c].mem \cup Brought(out)
      /\ out \in {"ok", "nobody"} => call[c].applied
      /\ \A x \in Fields \ {"phase", "out", "mem"} : call'[c][x] = call[c][x]
      /\ UNCHANGED <<thr, kst, up, raced, crashed>>
    BY CompleteDoes
<1>2. /\ call'[c].op = call[c].op /\ call'[c].mode = call[c].mode
      /\ call'[c].kb = call[c].kb /\ call'[c].krc = call[c].krc
      /\ call'[c].val = call[c].val /\ call'[c].pb = call[c].pb
      /\ call'[c].wire = call[c].wire /\ call'[c].applied = call[c].applied
    BY <1>1 DEF Fields
<1>3. CallOK(call[c]) /\ OpenOK(call[c])
    BY <1>1 DEF Inv, CallsOK, CallOK, Open
<1>4. Answers(call'[c]) = Answers(call[c])
    BY <1>2 DEF Answers
<1>5. OpenOK(call'[c])
    BY <1>1, <1>2, <1>3, <1>4 DEF OpenOK
<1>6. CallOK(call'[c])
    BY <1>1, <1>2, <1>3, <1>5 DEF CallOK, WireOK, Open
<1> QED
    BY <1>1, <1>2, <1>6, CallKeeps DEF Open

LEMMA ApplyKeeps ==
    ASSUME Inv, NEW c \in Calls, DeviceApply(c)
    PROVE  Inv'
<1>1. /\ call[c].wire # NoWire
      /\ OtherCalls(c) /\ DOMAIN call'[c] = Fields
      /\ call'[c].applied = TRUE
      /\ \A x \in Fields \ {"applied"} : call'[c][x] = call[c][x]
      /\ UNCHANGED <<thr, kst, up, raced, crashed>>
    BY ApplyDoes
<1>2. /\ call'[c].op = call[c].op /\ call'[c].mode = call[c].mode
      /\ call'[c].kb = call[c].kb /\ call'[c].krc = call[c].krc
      /\ call'[c].val = call[c].val /\ call'[c].pb = call[c].pb
      /\ call'[c].wire = call[c].wire /\ call'[c].mem = call[c].mem
      /\ call'[c].phase = call[c].phase /\ call'[c].out = call[c].out
      /\ call'[c].why = call[c].why /\ call'[c].in = call[c].in
    BY <1>1 DEF Fields
<1>3. CallOK(call[c]) /\ call[c].phase # "idle"
    BY <1>1 DEF Inv, CallsOK, CallOK, NoCall
<1>4. Answers(call'[c]) = Answers(call[c])
    BY <1>2 DEF Answers
<1>5. call[c].phase \in Open => OpenOK(call'[c])
    BY <1>1, <1>2, <1>3, <1>4 DEF OpenOK, CallOK
<1>6. call[c].phase = "returned" => ReturnedOK(call'[c])
    BY <1>1, <1>2, <1>3 DEF ReturnedOK, CallOK, Usable
<1>7. CallOK(call'[c])
    BY <1>1, <1>2, <1>3, <1>5, <1>6 DEF CallOK, WireOK
<1> QED
    BY <1>1, <1>2, <1>3, <1>7, CallKeeps

LEMMA InvInit == Init => Inv
<1> SUFFICES ASSUME Init PROVE Inv
    OBVIOUS
<1>1. /\ call = [c \in Calls |-> NoCall] /\ thr = [t \in Thread |-> NoThread]
      /\ kst = [f \in Families |-> NoCounts]
    BY DEF Init, KioInit
<1>2. up \in BOOLEAN /\ raced \in BOOLEAN
    BY Zenon DEF Init, KioInit
<1>3. CallOK(NoCall)
    BY DEF CallOK, NoCall, Fields, WireOK, Open
<1>4. CallsOK
    BY <1>1, <1>3 DEF CallsOK
<1>5. Used = {}
    BY <1>1 DEF Used, NoCall
<1>6. Numbered
    <2>1. 0 \in 0 .. MaxCalls /\ 1 .. 0 = {}
        BY KioAssumption
    <2> QED
        BY <1>5, <2>1 DEF Numbered
<1>7. NoThread \in ThrType
    BY KioAssumption DEF NoThread, ThrType, Todos
<1>8. ThreadsOK
    BY <1>1, <1>7 DEF ThreadsOK, NoThread, Waits, Counts
<1>9. CountersOK
    BY <1>1 DEF CountersOK, NoCounts
<1> QED
    BY <1>2, <1>4, <1>6, <1>8, <1>9 DEF Inv

LEMMA InvNext ==
    ASSUME Inv, [Next]_<<vars, load>>
    PROVE  Inv'
<1>1. CASE UNCHANGED <<vars, load>>
    BY <1>1 DEF vars, Inv, CallsOK, Numbered, Used, ThreadsOK, CountersOK
<1>2. ASSUME NEW t \in Thread, Submit(t) PROVE Inv'
    <2>1. PICK op, mode, kb, in, r :
              op \in AllOps /\ Begin(t, op, mode, kb, in, r) /\ GoodStart(op, r)
        BY <1>2, SubmitStart
    <2> QED
        BY <2>1, BeginDoes, MadeKeeps
<1>3. ASSUME NEW t \in Thread, Waiting(t) PROVE Inv'
    <2>1. CASE \/ \E timeout : Poll(t, timeout)
               \/ PollWoken(t) \/ TryAgain(t)
        <3>1. /\ OtherThreads(t) /\ thr[t].pc \in Waits /\ thr'[t].pc \in Waits
              /\ thr'[t].c = thr[t].c
              /\ UNCHANGED <<call, kst, up, raced, crashed>>
            BY <2>1, WaitDoes
        <3>2. CountersOK'
            BY <3>1 DEF Inv, CountersOK
        <3>3. up' = up /\ raced' = raced
            BY <3>1
        <3>4. up' \in BOOLEAN /\ raced' \in BOOLEAN
            BY <3>3, Zenon DEF Inv
        <3> QED
            BY <3>1, <3>2, <3>4, ThreadKeeps
    <2>2. CASE CountLoad(t, Family(call[thr[t].c].op))
        <3>1. /\ OtherThreads(t) /\ thr[t].pc = "count" /\ thr'[t].pc = "store"
              /\ thr'[t].c = thr[t].c /\ thr'[t].todo = thr[t].todo
              /\ UNCHANGED <<call, kst, up, raced, crashed>>
            BY <2>2, LoadDoes
        <3>2. CountersOK'
            BY <3>1 DEF Inv, CountersOK
        <3>3. up' = up /\ raced' = raced
            BY <3>1
        <3>4. up' \in BOOLEAN /\ raced' \in BOOLEAN
            BY <3>3, Zenon DEF Inv
        <3>5. thr[t].todo # <<>> /\ thr[t].pc \in Counts /\ thr'[t].pc \in Counts
            BY <3>1, CounterAt DEF Counts
        <3> QED
            BY <3>1, <3>2, <3>4, <3>5, ThreadKeeps
    <2>3. CASE CountStore(t, Family(call[thr[t].c].op))
        <3>1. /\ OtherThreads(t) /\ thr[t].pc = "store"
              /\ thr'[t].c = thr[t].c /\ thr'[t].todo = Tail(thr[t].todo)
              /\ thr'[t].pc = IF Tail(thr[t].todo) # <<>> THEN "count" ELSE "idle"
              /\ CountersOK' /\ raced' \in BOOLEAN
              /\ UNCHANGED <<call, up, crashed>>
            BY <2>3, StoreDoes
        <3>2. up' = up
            BY <3>1
        <3>3. up' \in BOOLEAN
            BY <3>2, Zenon DEF Inv
        <3>4. \/ /\ thr[t].pc \in Counts /\ thr'[t].pc \in Counts
                 /\ thr'[t].todo # <<>>
              \/ thr'[t].pc = "idle"
            BY <3>1 DEF Counts
        <3> QED
            BY <3>1, <3>3, <3>4, ThreadKeeps
    <2> QED
        BY <1>3, <2>1, <2>2, <2>3 DEF Waiting
<1>4. ASSUME NEW t \in Thread, Collect(t) PROVE Inv'
    BY <1>4, CollectDoes, HandedKeeps
<1>5. ASSUME NEW c \in Calls, Finish(c) PROVE Inv'
    BY <1>5, CompleteKeeps DEF Finish
<1>6. ASSUME NEW c \in Calls, DeviceApply(c) PROVE Inv'
    BY <1>6, ApplyKeeps
<1>7. CASE SessionLost
    <2>1. UNCHANGED <<call, thr, kst, raced>> /\ up' = FALSE
        BY <1>7 DEF SessionLost
    <2>2. up' \in BOOLEAN
        BY <2>1
    <2> QED
        BY <2>1, <2>2 DEF Inv, CallsOK, Numbered, Used, ThreadsOK, CountersOK
<1> QED
    BY <1>1, <1>2, <1>3, <1>4, <1>5, <1>6, <1>7 DEF Next

LEMMA Invariant == Spec => []Inv
BY InvInit, InvNext, PTL DEF Spec

(***************************************************************************)
(* Every variable has its type, whatever the callers, the session and the  *)
(* device do: in particular every call ends with a result code of the API, *)
(* and a thread is never left counting with nothing to count.              *)
(***************************************************************************)
THEOREM TypeCorrect == Spec => []TypeOK
<1>1. Inv => TypeOK
    <2> SUFFICES ASSUME Inv PROVE TypeOK
        OBVIOUS
    <2>1. \A c \in Calls :
              /\ call[c].phase \in {"idle", "pending", "unsent", "done", "returned"}
              /\ call[c].krc \in Krcs
              /\ call[c].krc = "none" <=> call[c].phase # "returned"
              /\ call[c].mem \subseteq SendBufs \cup RecvBufs
              /\ call[c].val \in {"none", "given", "freed"}
              /\ call[c].pb \in {"none", "given", "freed", "leaked"}
              /\ call[c].applied \in BOOLEAN
        <3> SUFFICES ASSUME NEW c \in Calls
            PROVE  /\ call[c].phase
                          \in {"idle", "pending", "unsent", "done", "returned"}
                   /\ call[c].krc \in Krcs
                   /\ call[c].krc = "none" <=> call[c].phase # "returned"
                   /\ call[c].mem \subseteq SendBufs \cup RecvBufs
                   /\ call[c].val \in {"none", "given", "freed"}
                   /\ call[c].pb \in {"none", "given", "freed", "leaked"}
                   /\ call[c].applied \in BOOLEAN
            OBVIOUS
        <3>1. CallOK(call[c])
            BY DEF Inv, CallsOK
        <3>2. CASE call[c].phase = "idle"
            BY <3>1, <3>2 DEF CallOK, NoCall, Krcs
        <3>3. CASE call[c].phase \in Open
            <4>1. OpenOK(call[c])
                BY <3>1, <3>3 DEF CallOK
            <4>2. call[c].mem \subseteq SendBufs \cup RecvBufs
                BY <3>3, <4>1 DEF OpenOK, Open, Base, Brought, LogMem, SendBufs
            <4> QED
                BY <3>1, <3>3, <4>1, <4>2 DEF CallOK, OpenOK, Open, Krcs
        <3>4. CASE call[c].phase = "returned"
            BY <3>1, <3>4 DEF CallOK, ReturnedOK
        <3> QED
            BY <3>1, <3>2, <3>3, <3>4 DEF CallOK
    <2>2. \A t \in Thread :
              /\ thr[t].pc \in {"idle", "poll", "blocked", "collect", "count",
                                "store"}
              /\ thr[t].c \in 0 .. MaxCalls
              /\ thr[t].pc \in {"count", "store"} => thr[t].todo # <<>>
        BY DEF Inv, ThreadsOK, ThrType, Counts
    <2>3. \A f \in Families : kst[f] \in [DOMAIN NoCounts -> Int]
        BY DEF Inv, CountersOK, NoCounts
    <2> QED
        BY <2>1, <2>2, <2>3 DEF TypeOK, Inv
<1> QED
    BY <1>1, Invariant, PTL

(***************************************************************************)
(* put.c, get.c, del.c, exec.c, noop.c and flush.c free a kio only when    *)
(* the session has handed it back, however many threads wait, poll and     *)
(* complete at the same time and whenever the session is lost.             *)
(***************************************************************************)
THEOREM FreedOnlyWhenBack == Spec => []FreedWhenHandedBack
<1>1. Inv => FreedWhenHandedBack
    BY DEF Inv, CallsOK, CallOK, ReturnedOK, FreedWhenHandedBack, Returned
<1> QED
    BY <1>1, Invariant, PTL

(***************************************************************************)
(* What a successful call leaves its caller with can be used: the value of *)
(* a get is still allocated, except when only the metadata was asked for,  *)
(* and the response has not been destroyed.                                *)
(***************************************************************************)
THEOREM ResultsAreUsable == Spec => []ResultUsable
<1>1. Inv => ResultUsable
    BY DEF Inv, CallsOK, CallOK, ReturnedOK, Usable, Fetches, ResultUsable, Returned
<1> QED
    BY <1>1, Invariant, PTL

-----------------------------------------------------------------------------
(* Memory.  Every step is taken while nothing has crashed.                 *)

\* A step of call c: it may return or crash, the other calls stay as they are.
LEMMA CallMem ==
    ASSUME Inv, MemInv, crashed = "none", NEW c \in Calls, OtherCalls(c),
           call'[c].phase = "returned" => call'[c].why = "lost" \/ Tidy(call'[c]),
           crashed' # "none" =>
               /\ crashed' = call'[c].op
               /\ call'[c].op \in WaitOps \/ call'[c].why = "progkey"
    PROVE  MemInv'
<1>1. CrashFree'
    BY DEF CrashFree
<1>2. ASSUME NEW d \in Calls, d # c, call[d].phase = "returned"
      PROVE  call[d].why = "lost" \/ Tidy(call[d])
    <2>1. call[d].op \in AllOps
        BY <1>2 DEF Inv, CallsOK, CallOK
    <2>2. call[d].op # "none"
        BY <2>1 DEF AllOps
    <2> QED
        BY <1>2, <2>2 DEF MemInv, Returned
<1>3. ASSUME NEW d \in Calls, call'[d].phase = "returned"
      PROVE  call'[d].why = "lost" \/ Tidy(call'[d])
    BY <1>2, <1>3 DEF OtherCalls
<1> QED
    BY <1>1, <1>3 DEF MemInv, Returned

LEMMA MemInit == Init => MemInv
<1> SUFFICES ASSUME Init PROVE MemInv
    OBVIOUS
<1>1. crashed = "none" /\ Returned = {}
    BY DEF Init, KioInit, NoCall, Returned
<1> QED
    BY <1>1 DEF MemInv, CrashFree

LEMMA MemNext ==
    ASSUME Inv, MemInv, [Next]_<<vars, load>>
    PROVE  MemInv'
<1>1. CASE UNCHANGED <<call, crashed>>
    BY <1>1 DEF MemInv, CrashFree, Returned, Tidy
<1>2. ASSUME NEW t \in Thread, Submit(t) PROVE MemInv'
    <2>1. PICK op, mode, kb, in, r :
              op \in AllOps /\ Begin(t, op, mode, kb, in, r) /\ GoodStart(op, r)
        BY <1>2, SubmitStart
    <2>2. PICK c \in Calls : Made(t, c, op, mode, r)
        BY <2>1, BeginDoes
    <2>3. OtherCalls(c) /\ crashed = "none"
        BY <2>2 DEF Made
    <2>4. call'[c].phase = "returned" => Tidy(call'[c])
        BY <2>1, <2>2 DEF Made, GoodStart, Tidy
    <2>5. crashed' # "none" => /\ crashed' = call'[c].op
                               /\ call'[c].op \in WaitOps \/ call'[c].why = "progkey"
        BY SMTT(60), <2>1, <2>2 DEF Made, GoodStart
    <2> QED
        BY <2>3, <2>4, <2>5, CallMem
<1>3. ASSUME NEW t \in Thread, Waiting(t) PROVE UNCHANGED <<call, crashed>>
    BY <1>3 DEF Waiting, Poll, PollWoken, TryAgain, CountLoad, CountStore
<1>4. ASSUME NEW t \in Thread, Collect(t) PROVE MemInv'
    <2>0. PICK c \in Calls : \E out, why, r :
              /\ crashed = "none" /\ Handed(t, c, out, why, r) /\ Clean(call'[c])
        BY <1>4, CollectDoes
    <2>1. PICK out, why, r :
              /\ crashed = "none" /\ Handed(t, c, out, why, r) /\ Clean(call'[c])
        BY <2>0
    <2>2. OtherCalls(c)
        BY <2>1 DEF Handed
    <2> QED
        BY <2>1, <2>2, CallMem DEF Clean
<1>5. ASSUME NEW c \in Calls, Finish(c) PROVE MemInv'
    <2>1. PICK out \in Answers(call[c]) : Complete(c, out)
        BY <1>5 DEF Finish
    <2>2. OtherCalls(c) /\ call'[c].phase = "done" /\ crashed' = crashed
        BY <2>1, CompleteDoes
    <2>3. crashed = "none"
        BY <2>1 DEF Complete, Running
    <2> QED
        BY <2>2, <2>3, CallMem
<1>6. ASSUME NEW c \in Calls, DeviceApply(c) PROVE MemInv'
    <2>1. /\ OtherCalls(c) /\ crashed' = crashed
          /\ \A x \in Fields \ {"applied"} : call'[c][x] = call[c][x]
        BY <1>6, ApplyDoes
    <2>2. crashed = "none"
        BY <1>6 DEF DeviceApply, Running
    <2>3. /\ call'[c].phase = call[c].phase /\ call'[c].why = call[c].why
          /\ call'[c].mem = call[c].mem /\ call'[c].val = call[c].val
          /\ call'[c].op = call[c].op /\ call'[c].in = call[c].in
        BY <2>1 DEF Fields
    <2>4. call[c].phase = "returned" => call[c].op # "none"
        BY DEF Inv, CallsOK, CallOK, AllOps
    <2>5. call'[c].phase = "returned" => call'[c].why = "lost" \/ Tidy(call'[c])
        BY <2>2, <2>3, <2>4 DEF MemInv, Returned, Tidy
    <2> QED
        BY <2>1, <2>2, <2>5, CallMem
<1>7. SessionLost => UNCHANGED <<call, crashed>>
    BY DEF SessionLost
<1>8. UNCHANGED <<vars, load>> => UNCHANGED <<call, crashed>>
    BY DEF vars
<1> QED
    BY <1>1, <1>2, <1>3, <1>4, <1>5, <1>6, <1>7, <1>8 DEF Next

LEMMA Memory == Spec => []MemInv
<1>1. Inv /\ MemInv /\ [Next]_<<vars, load>> => MemInv'
    BY MemNext
<1> QED
    BY <1>1, MemInit, Invariant, PTL DEF Spec

(***************************************************************************)
(* The only memory errors of the request files are the ones on the error   *)
(* paths of getlog and getrange and in an exec whose table of function     *)
(* keys cannot be allocated: no put, get, delete, noop or flush, and no    *)
(* other exec, ever frees what it does not hold.                           *)
(***************************************************************************)
THEOREM CrashesAreKnown == Spec => []CrashFree
<1>1. MemInv => CrashFree
    BY DEF MemInv
<1> QED
    BY <1>1, Memory, PTL

(***************************************************************************)
(* A call that has returned, on whatever path, has released everything it  *)
(* allocated except the value it hands to the caller; left over are the    *)
(* kio of a call that gave up on a lost session and the value of an answer *)
(* to getlog, getrange or an exec without output key.                      *)
(***************************************************************************)
THEOREM MemoryIsReclaimed == Spec => []Reclaimed
<1>1. MemInv => Reclaimed
    BY SMTT(60) DEF MemInv, Reclaimed, Returned, Tidy
<1> QED
    BY <1>1, Memory, PTL

-----------------------------------------------------------------------------
(* The requests implement Api: a call that is refused never reaches the    *)
(* device, one that is acknowledged has been executed.                     *)

\* The variables of Api.
Outcomes == [c \in Calls |-> Outcome(call[c])]
Executed == [c \in Calls |-> call[c].applied]

\* The actions of Api, read in terms of Outcomes and Executed.
Resolves(c, from, res) ==
    /\ Outcomes[c] \in from
    /\ Outcomes' = [Outcomes EXCEPT ![c] = res]
    /\ Executed' = Executed

LEMMA ApiNext ==
    ASSUME NEW c \in Calls,
           \/ Resolves(c, {"idle"}, "open")
           \/ ~Executed[c] /\ Resolves(c, {"idle", "open"}, "refused")
           \/ Executed[c] /\ Resolves(c, {"open"}, "acked")
           \/ Resolves(c, {"open"}, "unknown")
           \/ /\ Outcomes[c] \in {"open", "unknown"}
              /\ ~Executed[c]
              /\ Executed' = [Executed EXCEPT ![c] = TRUE]
              /\ Outcomes' = Outcomes
    PROVE  A!Next
BY DEF A!Next, A!Begin, A!Refuse, A!Ack, A!Lose, A!Return, A!Apply,
       Resolves, Outcomes, Outcome, Executed

\* A step of call c that the device does not take part in.
LEMMA OutcomeMoves ==
    ASSUME NEW c \in Calls, OtherCalls(c), call'[c].applied = call[c].applied
    PROVE  /\ Outcomes' = [Outcomes EXCEPT ![c] = Outcome(call'[c])]
           /\ Executed' = Executed
<1>1. \A d \in Calls : call'[d].applied = call[d].applied
    BY DEF OtherCalls
<1>2. \A d \in Calls : d # c => Outcome(call'[d]) = Outcome(call[d])
    BY DEF OtherCalls
<1>3. Outcomes' = [d \in Calls |-> Outcome(call'[d])]
    BY DEF Outcomes, Outcome
<1> QED
    BY <1>1, <1>2, <1>3 DEF Outcomes, Executed

LEMMA ApiInit == Init => A!Init
BY DEF Init, KioInit, A!Init, NoCall, Outcome

LEMMA ApiStep ==
    ASSUME Inv, [Next]_<<vars, load>>
    PROVE  A!Next \/ (Outcomes' = Outcomes /\ Executed' = Executed)
<1>1. CASE call' = call
    BY <1>1 DEF Outcomes, Outcome, Executed
<1>2. ASSUME NEW t \in Thread, Submit(t) PROVE A!Next
    <2>1. PICK op, mode, kb, in, r :
              op \in AllOps /\ Begin(t, op, mode, kb, in, r) /\ GoodStart(op, r)
        BY <1>2, SubmitStart
    <2>2. PICK c \in Calls : Made(t, c, op, mode, r)
        BY <2>1, BeginDoes
    <2>3. /\ OtherCalls(c) /\ call'[c].applied = FALSE
          /\ call[c].applied = FALSE
        BY <2>2 DEF Made, NoCall
    <2>4. Outcome(call[c]) = "idle"
        BY <2>2 DEF Made, NoCall, Outcome
    <2>5. Outcome(call'[c]) \in {"open", "refused"}
        BY <2>1, <2>2 DEF Made, GoodStart, Outcome
    <2>6. Resolves(c, {"idle"}, Outcome(call'[c]))
        BY <2>3, <2>4, OutcomeMoves DEF Resolves, Outcomes
    <2>7. ~Executed[c]
        BY <2>3 DEF Executed
    <2>8. Resolves(c, {"idle"}, "open") \/ Resolves(c, {"idle", "open"}, "refused")
        BY <2>5, <2>6 DEF Resolves
    <2> QED
        BY <2>7, <2>8, ApiNext
<1>3. ASSUME NEW t \in Thread, Waiting(t) PROVE call' = call
    BY <1>3 DEF Waiting, Poll, PollWoken, TryAgain, CountLoad, CountStore
<1>4. ASSUME NEW t \in Thread, Collect(t) PROVE A!Next
    <2>0. PICK c \in Calls : \E out, why, r :
              /\ call[c].phase \in Open
              /\ Fit(c, out, why, r) /\ Handed(t, c, out, why, r)
        BY <1>4, CollectDoes
    <2>1. PICK out, why, r :
              /\ call[c].phase \in Open
              /\ Fit(c, out, why, r) /\ Handed(t, c, out, why, r)
        BY <2>0
    <2>2. OtherCalls(c) /\ call'[c].applied = call[c].applied
        BY <2>1 DEF Handed
    <2>3. Outcome(call[c]) = "open"
        BY <2>1 DEF Open, Outcome
    <2>4. Resolves(c, {"open"}, Outcome(call'[c]))
        BY <2>2, <2>3, OutcomeMoves DEF Resolves, Outcomes
    <2>5. Executed[c] = call[c].applied
        BY DEF Executed
    <2>6. CASE call[c].wire = NoWire
        <3>1. ~Executed[c]
            BY <2>5, <2>6 DEF Inv, CallsOK, CallOK
        <3>2. Outcome(call'[c]) = "refused"
            BY <2>1, <2>6 DEF Handed, Outcome
        <3>3. Resolves(c, {"idle", "open"}, "refused")
            BY <2>4, <3>2 DEF Resolves
        <3> QED
            BY <3>1, <3>3, ApiNext
    <2>7. CASE call[c].wire # NoWire /\ r.krc = "OK" /\ call[c].kb = <<>>
        <3>1. Executed[c]
            BY <2>1, <2>5, <2>7 DEF Fit
        <3>2. Outcome(call'[c]) = "acked"
            BY <2>1, <2>7 DEF Handed, Outcome
        <3> QED
            BY <2>4, <3>1, <3>2, ApiNext
    <2>8. CASE call[c].wire # NoWire /\ ~(r.krc = "OK" /\ call[c].kb = <<>>)
        <3>1. Outcome(call'[c]) = "unknown"
            BY <2>1, <2>8 DEF Handed, Outcome
        <3> QED
            BY <2>4, <3>1, ApiNext
    <2> QED
        BY <2>6, <2>7, <2>8
<1>5. ASSUME NEW c \in Calls, Finish(c)
      PROVE  Outcomes' = Outcomes /\ Executed' = Executed
    <2>1. PICK out \in Answers(call[c]) : Complete(c, out)
        BY <1>5 DEF Finish
    <2>2. /\ call[c].phase = "pending" /\ call'[c].phase = "done" /\ OtherCalls(c)
          /\ \A x \in Fields \ {"phase", "out", "mem"} : call'[c][x] = call[c][x]
        BY <2>1, CompleteDoes
    <2>3. call'[c].applied = call[c].applied
        BY <2>2 DEF Fields
    <2>4. Outcome(call'[c]) = "open" /\ Outcome(call[c]) = "open"
        BY <2>2 DEF Outcome
    <2> QED
        BY <2>2, <2>3, <2>4, OutcomeMoves DEF Outcomes
<1>6. ASSUME NEW c \in Calls, DeviceApply(c) PROVE A!Next
    <2>1. /\ call[c].wire # NoWire /\ ~call[c].applied
          /\ OtherCalls(c) /\ call'[c].applied = TRUE
          /\ \A x \in Fields \ {"applied"} : call'[c][x] = call[c][x]
        BY <1>6, ApplyDoes
    <2>2. /\ call'[c].phase = call[c].phase /\ call'[c].wire = call[c].wire
          /\ call'[c].krc = call[c].krc /\ call'[c].kb = call[c].kb
        BY <2>1 DEF Fields
    <2>3. \A d \in Calls : Outcome(call'[d]) = Outcome(call[d])
        BY <2>1, <2>2 DEF OtherCalls, Outcome
    <2>4. Outcomes' = Outcomes
        <3>1. Outcomes' = [d \in Calls |-> Outcome(call'[d])]
            BY DEF Outcomes, Outcome
        <3> QED
            BY <2>3, <3>1 DEF Outcomes
    <2>5. Executed' = [Executed EXCEPT ![c] = TRUE]
        BY <2>1 DEF Executed, OtherCalls
    <2>6. CallOK(call[c])
        BY DEF Inv, CallsOK
    <2>7. Outcome(call[c]) \in {"open", "unknown"}
        <3>1. call[c].phase # "idle"
            BY <2>1, <2>6 DEF CallOK, NoCall
        <3>2. CASE call[c].phase \in Open
            BY <3>2 DEF Open, Outcome
        <3>3. CASE call[c].phase = "returned"
            BY <2>1, <2>6, <3>3 DEF CallOK, ReturnedOK, Outcome
        <3> QED
            BY <2>6, <3>1, <3>2, <3>3 DEF CallOK
    <2>8. Outcomes[c] = Outcome(call[c]) /\ Executed[c] = call[c].applied
        BY DEF Outcomes, Executed
    <2> QED
        BY <2>1, <2>4, <2>5, <2>7, <2>8, ApiNext
<1>7. SessionLost => call' = call
    BY DEF SessionLost
<1>8. UNCHANGED <<vars, load>> => call' = call
    BY DEF vars
<1> QED
    BY <1>1, <1>2, <1>3, <1>4, <1>5, <1>6, <1>7, <1>8 DEF Next

(***************************************************************************)
(* The request API implements Api, for any threads, calls and workload: a  *)
(* call refused on the way to the wire never reaches the device, and K_OK  *)
(* outside a batch means that the device has executed the request.         *)
(***************************************************************************)
THEOREM RequestsImplementApi == Spec => ApiSpec
<1>1. Inv /\ [Next]_<<vars, load>> => [A!Next]_(A!vars)
    BY ApiStep DEF Outcomes, Executed, A!vars
<1> QED
    BY <1>1, ApiInit, Invariant, PTL DEF Spec, ApiSpec, A!Spec

-----------------------------------------------------------------------------
(* Statistics.  While no update has been overwritten, the counters and     *)
(* what the threads have still to count add up to what has returned.       *)

\* Two finite sets that differ in x at most.
LEMMA Shift ==
    ASSUME NEW S, NEW T, NEW x, IsFiniteSet(S), T \ {x} = S \ {x}
    PROVE  /\ Cardinality(S) \in Nat /\ Cardinality(T) \in Nat
           /\ (x \in T <=> x \in S) => Cardinality(T) = Cardinality(S)
           /\ x \in T /\ x \notin S => Cardinality(T) = Cardinality(S) + 1
           /\ x \notin T /\ x \in S => Cardinality(T) = Cardinality(S) - 1
<1>1. Cardinality(S) \in Nat
    BY FS_CardinalityType
<1>2. CASE x \in T <=> x \in S
    <2>1. T = S
        BY <1>2
    <2> QED
        BY <1>1, <2>1
<1>3. CASE x \in T /\ x \notin S
    <2>1. T = S \cup {x}
        BY <1>3
    <2>2. Cardinality(T) = Cardinality(S) + 1
        BY <1>3, <2>1, FS_AddElement
    <2> QED
        BY <1>1, <1>3, <2>2
<1>4. CASE x \notin T /\ x \in S
    <2>1. T = S \ {x}
        BY <1>4
    <2>2. IsFiniteSet(T) /\ Cardinality(T) = Cardinality(S) - 1
        BY <1>4, <2>1, FS_RemoveElement
    <2>3. Cardinality(T) \in Nat
        BY <2>2, FS_CardinalityType
    <2> QED
        BY <1>1, <1>4, <2>2, <2>3
<1> QED
    BY <1>2, <1>3, <1>4

\* Two sets that gain an element each, or neither.
LEMMA Paired ==
    ASSUME NEW S, NEW T, NEW x, IsFiniteSet(S), x \notin S, T \ {x} = S \ {x},
           NEW U, NEW V, NEW y, IsFiniteSet(U), y \notin U, V \ {y} = U \ {y},
           x \in T <=> y \in V
    PROVE  /\ Cardinality(T) - Cardinality(S) = Cardinality(V) - Cardinality(U)
           /\ Cardinality(S) \in Nat /\ Cardinality(T) \in Nat
           /\ Cardinality(U) \in Nat /\ Cardinality(V) \in Nat
<1>1. CASE x \in T /\ y \in V
    BY <1>1, Shift
<1>2. CASE x \notin T /\ y \notin V
    BY <1>2, Shift
<1> QED
    BY <1>1, <1>2

\* The counters a todo list stands for.
LEMMA TodoKinds ==
    /\ <<>> \notin AddTodos /\ <<>> \notin ErrTodos /\ <<>> # <<"err", "err">>
    /\ <<"err">> \notin AddTodos /\ <<"err">> \in ErrTodos
    /\ <<"err">> # <<"err", "err">>
    /\ <<"err", "err">> \notin AddTodos /\ <<"err", "err">> \in ErrTodos
    /\ \A todo \in {<<"ok">>, <<"ok", "unok", "dropped">>, <<"dropped">>} :
           todo \in AddTodos /\ todo \notin ErrTodos
    /\ <<"unok", "dropped">> \notin AddTodos /\ <<"unok", "dropped">> \notin ErrTodos
BY DEF AddTodos, ErrTodos

LEMMA Finite ==
    ASSUME Inv, NEW f
    PROVE  /\ IsFiniteSet(Adding(f)) /\ IsFiniteSet(Erring(f))
           /\ IsFiniteSet(ErringTwice(f))
           /\ IsFiniteSet(Good(f)) /\ IsFiniteSet(Bad(f)) /\ IsFiniteSet(BadTwice(f))
<1>1. IsFiniteSet(Thread) /\ IsFiniteSet(Calls)
    BY KioAssumption, FS_Interval DEF Calls
<1>2. Adding(f) \subseteq Thread /\ Erring(f) \subseteq Thread
      /\ ErringTwice(f) \subseteq Thread
    BY DEF Adding, Erring, ErringTwice
<1>3. Good(f) \subseteq Calls /\ Bad(f) \subseteq Calls /\ BadTwice(f) \subseteq Calls
    BY DEF Good, Bad, BadTwice, CountedIn, Returned
<1> QED
    BY <1>1, <1>2, <1>3, FS_Subset

\* Thread t alone moves: the others have still the same to count.
LEMMA OneThread ==
    ASSUME Inv, NEW t \in Thread, OtherThreads(t), NEW f,
           \A d \in Calls : call[d].phase = "returned" => call'[d].op = call[d].op
    PROVE  /\ Adding(f)' \ {t} = Adding(f) \ {t}
           /\ Erring(f)' \ {t} = Erring(f) \ {t}
           /\ ErringTwice(f)' \ {t} = ErringTwice(f) \ {t}
<1>1. \A u \in Thread : u # t => thr'[u] = thr[u]
    BY DEF OtherThreads
<1>2. \A u \in Thread : thr[u].pc \in Counts =>
          thr[u].c \in Calls /\ call'[thr[u].c].op = call[thr[u].c].op
    BY DEF Inv, ThreadsOK
<1>3. \A u \in Thread : u # t => (Counting(u, f)' <=> Counting(u, f))
    BY <1>1, <1>2 DEF Counting
<1> QED
    BY <1>1, <1>3 DEF Adding, Erring, ErringTwice

\* Call c alone moves: the others count as before.
LEMMA OneCall ==
    ASSUME NEW c \in Calls, OtherCalls(c), NEW f
    PROVE  /\ Good(f)' \ {c} = Good(f) \ {c}
           /\ Bad(f)' \ {c} = Bad(f) \ {c}
           /\ BadTwice(f)' \ {c} = BadTwice(f) \ {c}
<1>1. \A d \in Calls : d # c => call'[d] = call[d]
    BY DEF OtherCalls
<1>2. CountedIn(f)' \ {c} = CountedIn(f) \ {c}
    BY <1>1 DEF CountedIn, Returned, Family
<1>3. \A d \in Calls : d # c =>
          /\ Succeeded(d)' <=> Succeeded(d)
          /\ Failed(d)' <=> Failed(d)
          /\ FailedTwice(d)' <=> FailedTwice(d)
    BY <1>1 DEF Succeeded, Failed, FailedTwice
<1>4. CountedIn(f) \subseteq Calls /\ CountedIn(f)' \subseteq Calls
    BY DEF CountedIn, Returned
<1> QED
    BY <1>2, <1>3, <1>4 DEF Good, Bad, BadTwice

\* Call c returns to thread t, which goes on to count it.
LEMMA ReturnStats ==
    ASSUME Inv, StatsInv, NEW t \in Thread, NEW c \in Calls,
           OtherCalls(c), OtherThreads(t), thr[t].pc \notin Counts,
           call[c].phase # "returned", call'[c].phase = "returned",
           thr'[t].c = c, thr'[t].pc \in Counts <=> thr'[t].todo # <<>>,
           Tallied(call'[c], thr'[t].todo), UNCHANGED <<kst, raced>>
    PROVE  StatsInv'
<1> SUFFICES ASSUME ~raced, NEW f \in Families PROVE Balanced(f)'
    BY DEF StatsInv
<1>1. Balanced(f)
    BY DEF StatsInv
<1>2. \A d \in Calls : call[d].phase = "returned" => call'[d].op = call[d].op
    BY DEF OtherCalls
<1>3. /\ t \notin Adding(f) /\ t \notin Erring(f) /\ t \notin ErringTwice(f)
      /\ c \notin Good(f) /\ c \notin Bad(f) /\ c \notin BadTwice(f)
    BY DEF Adding, Erring, ErringTwice, Counting, Good, Bad, BadTwice,
           CountedIn, Returned
<1>4. PICK todo : todo = thr'[t].todo
    OBVIOUS
<1>5. /\ t \in Adding(f)' <=> /\ todo # <<>> /\ Family(call'[c].op) = f
                              /\ todo \in AddTodos
      /\ t \in Erring(f)' <=> /\ todo # <<>> /\ Family(call'[c].op) = f
                              /\ todo \in ErrTodos
      /\ t \in ErringTwice(f)' <=> /\ todo # <<>> /\ Family(call'[c].op) = f
                                   /\ todo = <<"err", "err">>
    BY <1>4 DEF Adding, Erring, ErringTwice, Counting, Family
<1>6. c \in CountedIn(f)' <=> /\ call'[c].op \notin WaitOps
                              /\ Family(call'[c].op) = f
    BY DEF CountedIn, Returned, Family
<1>7. /\ c \in Good(f)' <=> c \in CountedIn(f)' /\ call'[c].krc = "OK"
      /\ c \in Bad(f)' <=> /\ c \in CountedIn(f)' /\ call'[c].krc # "OK"
                           /\ call'[c].why \notin {"badktd", "nockio"}
      /\ c \in BadTwice(f)' <=>
             /\ c \in Bad(f)'
             /\ call'[c].why = "sent" /\ call'[c].out \in NotReceived
    BY DEF Good, Bad, BadTwice, Succeeded, Failed, FailedTwice
<1>8. /\ t \in Adding(f)' <=> c \in Good(f)'
      /\ t \in Erring(f)' <=> c \in Bad(f)'
      /\ t \in ErringTwice(f)' <=> c \in BadTwice(f)'
    <2>1. Tallied(call'[c], todo)
        BY <1>4
    <2>2. CASE call'[c].op \in WaitOps
        BY <1>5, <1>6, <1>7, <2>1, <2>2, TodoKinds DEF Tallied
    <2>3. CASE call'[c].op \notin WaitOps /\ call'[c].krc = "OK"
        <3>1. todo \in AddTodos /\ todo \notin ErrTodos /\ todo # <<>>
              /\ todo # <<"err", "err">>
            BY <2>1, <2>3, TodoKinds DEF Tallied
        <3> QED
            BY <1>5, <1>6, <1>7, <2>3, <3>1
    <2>4. CASE call'[c].op \notin WaitOps /\ call'[c].krc # "OK"
        <3>1. todo = IF call'[c].why \in {"badktd", "nockio"} THEN <<>>
                     ELSE IF call'[c].why = "sent" /\ call'[c].out \in NotReceived
                     THEN <<"err", "err">> ELSE <<"err">>
            BY <2>1, <2>4 DEF Tallied
        <3> QED
            BY <1>5, <1>6, <1>7, <2>4, <3>1, TodoKinds
    <2> QED
        BY <2>2, <2>3, <2>4
<1>9. /\ Adding(f)' \ {t} = Adding(f) \ {t} /\ Erring(f)' \ {t} = Erring(f) \ {t}
      /\ ErringTwice(f)' \ {t} = ErringTwice(f) \ {t}
      /\ Good(f)' \ {c} = Good(f) \ {c} /\ Bad(f)' \ {c} = Bad(f) \ {c}
      /\ BadTwice(f)' \ {c} = BadTwice(f) \ {c}
    BY <1>2, OneThread, OneCall
<1>10. /\ Cardinality(Adding(f)') - Cardinality(Adding(f)) =
              Cardinality(Good(f)') - Cardinality(Good(f))
       /\ Cardinality(Adding(f)) \in Nat /\ Cardinality(Adding(f)') \in Nat
       /\ Cardinality(Good(f)) \in Nat /\ Cardinality(Good(f)') \in Nat
    <2>1. /\ IsFiniteSet(Adding(f)) /\ t \notin Adding(f)
          /\ Adding(f)' \ {t} = Adding(f) \ {t}
        BY <1>3, <1>9, Finite
    <2>2. /\ IsFiniteSet(Good(f)) /\ c \notin Good(f)
          /\ Good(f)' \ {c} = Good(f) \ {c}
        BY <1>3, <1>9, Finite
    <2>3. t \in Adding(f)' <=> c \in Good(f)'
        BY <1>8
    <2> QED
        BY <2>1, <2>2, <2>3, Paired
<1>11. /\ Cardinality(Erring(f)') - Cardinality(Erring(f)) =
              Cardinality(Bad(f)') - Cardinality(Bad(f))
       /\ Cardinality(Erring(f)) \in Nat /\ Cardinality(Erring(f)') \in Nat
       /\ Cardinality(Bad(f)) \in Nat /\ Cardinality(Bad(f)') \in Nat
    <2>1. /\ IsFiniteSet(Erring(f)) /\ t \notin Erring(f)
          /\ Erring(f)' \ {t} = Erring(f) \ {t}
        BY <1>3, <1>9, Finite
    <2>2. /\ IsFiniteSet(Bad(f)) /\ c \notin Bad(f)
          /\ Bad(f)' \ {c} = Bad(f) \ {c}
        BY <1>3, <1>9, Finite
    <2>3. t \in Erring(f)' <=> c \in Bad(f)'
        BY <1>8
    <2> QED
        BY <2>1, <2>2, <2>3, Paired
<1>12. /\ Cardinality(ErringTwice(f)') - Cardinality(ErringTwice(f)) =
              Cardinality(BadTwice(f)') - Cardinality(BadTwice(f))
       /\ Cardinality(ErringTwice(f)) \in Nat /\ Cardinality(ErringTwice(f)') \in Nat
       /\ Cardinality(BadTwice(f)) \in Nat /\ Cardinality(BadTwice(f)') \in Nat
    <2>1. /\ IsFiniteSet(ErringTwice(f)) /\ t \notin ErringTwice(f)
          /\ ErringTwice(f)' \ {t} = ErringTwice(f) \ {t}
        BY <1>3, <1>9, Finite
    <2>2. /\ IsFiniteSet(BadTwice(f)) /\ c \notin BadTwice(f)
          /\ BadTwice(f)' \ {c} = BadTwice(f) \ {c}
        BY <1>3, <1>9, Finite
    <2>3. t \in ErringTwice(f)' <=> c \in BadTwice(f)'
        BY <1>8
    <2> QED
        BY <2>1, <2>2, <2>3, Paired
<1>13. kst[f].ok \in Int /\ kst[f].dropped \in Int /\ kst[f].err \in Int
    BY DEF Inv, CountersOK
<1>14. kst'[f] = kst[f]
    OBVIOUS
<1>15. kst'[f].ok + kst'[f].dropped + Cardinality(Adding(f)') = Cardinality(Good(f)')
    <2>1. kst[f].ok + kst[f].dropped + Cardinality(Adding(f)) = Cardinality(Good(f))
        BY <1>1 DEF Balanced
    <2>2. PICK a \in Nat : a = Cardinality(Adding(f))
        BY <1>10
    <2>3. PICK b \in Nat : b = Cardinality(Adding(f)')
        BY <1>10
    <2>4. PICK g \in Nat : g = Cardinality(Good(f))
        BY <1>10
    <2>5. PICK h \in Nat : h = Cardinality(Good(f)')
        BY <1>10
    <2>6. PICK k \in Int, l \in Int : k = kst[f].ok /\ l = kst[f].dropped
        BY <1>13
    <2>7. k + l + a = g /\ b - a = h - g
        BY <1>10, <2>1, <2>2, <2>3, <2>4, <2>5, <2>6
    <2>8. k + l + b = h
        BY <2>7
    <2> QED
        BY <1>14, <2>3, <2>5, <2>6, <2>8
<1>16. kst'[f].err + Cardinality(Erring(f)') + Cardinality(ErringTwice(f)') =
           Cardinality(Bad(f)') + Cardinality(BadTwice(f)')
    <2>1. kst[f].err + Cardinality(Erring(f)) + Cardinality(ErringTwice(f)) =
              Cardinality(Bad(f)) + Cardinality(BadTwice(f))
        BY <1>1 DEF Balanced
    <2>2. PICK a \in Nat : a = Cardinality(Erring(f))
        BY <1>11
    <2>3. PICK b \in Nat : b = Cardinality(Erring(f)')
        BY <1>11
    <2>4. PICK g \in Nat : g = Cardinality(Bad(f))
        BY <1>11
    <2>5. PICK h \in Nat : h = Cardinality(Bad(f)')
        BY <1>11
    <2>6. PICK a2 \in Nat : a2 = Cardinality(ErringTwice(f))
        BY <1>12
    <2>7. PICK b2 \in Nat : b2 = Cardinality(ErringTwice(f)')
        BY <1>12
    <2>8. PICK g2 \in Nat : g2 = Cardinality(BadTwice(f))
        BY <1>12
    <2>9. PICK h2 \in Nat : h2 = Cardinality(BadTwice(f)')
        BY <1>12
    <2>10. PICK k \in Int : k = kst[f].err
        BY <1>13
    <2>11. /\ k + a + a2 = g + g2 /\ b - a = h - g /\ b2 - a2 = h2 - g2
        BY <1>11, <1>12, <2>1, <2>2, <2>3, <2>4, <2>5, <2>6, <2>7, <2>8, <2>9, <2>10
    <2>12. k + b + b2 = h + h2
        BY <2>11
    <2> QED
        BY <1>14, <2>3, <2>5, <2>7, <2>9, <2>10, <2>12
<1> QED
    BY <1>15, <1>16 DEF Balanced

\* A counter is written: one less to count, one more counted.
LEMMA StoreStats ==
    ASSUME Inv, StatsInv, NEW t \in Thread, NEW fam,
           fam = Family(call[thr[t].c].op), CountStore(t, fam)
    PROVE  StatsInv'
<1> SUFFICES ASSUME ~raced', NEW f \in Families PROVE Balanced(f)'
    BY DEF StatsInv
<1>1. /\ OtherThreads(t) /\ thr[t].pc = "store" /\ fam \in Families
      /\ thr'[t].c = thr[t].c /\ thr'[t].todo = Tail(thr[t].todo)
      /\ thr'[t].pc = IF Tail(thr[t].todo) # <<>> THEN "count" ELSE "idle"
      /\ call' = call
    BY StoreDoes
<1>2. /\ \A g \in Families : g # fam => kst'[g] = kst[g]
      /\ \A x \in {"ok", "dropped", "err"} :
             x # Field(Head(thr[t].todo)) => kst'[fam][x] = kst[fam][x]
      /\ kst'[fam][Field(Head(thr[t].todo))] =
             IF Head(thr[t].todo) = "unok" THEN thr[t].reg - 1 ELSE thr[t].reg + 1
      /\ ~raced /\ kst[fam][Field(Head(thr[t].todo))] = thr[t].reg
    BY StoreDoes
<1>3. thr[t].pc \in Counts /\ thr[t].todo \in Todos /\ thr[t].todo # <<>>
    BY <1>1, CounterAt DEF Counts
<1>4. Balanced(f)
    BY <1>2 DEF StatsInv
<1>5. /\ kst[f].ok \in Int /\ kst[f].dropped \in Int /\ kst[f].err \in Int
      /\ kst'[f].ok \in Int /\ kst'[f].dropped \in Int /\ kst'[f].err \in Int
    <2>1. CountersOK /\ CountersOK'
        BY SMTT(60), StoreDoes DEF Inv
    <2> QED
        BY <2>1 DEF CountersOK
<1>6. Good(f)' = Good(f) /\ Bad(f)' = Bad(f) /\ BadTwice(f)' = BadTwice(f)
    BY <1>1 DEF Good, Bad, BadTwice, CountedIn, Returned, Family, Succeeded,
                Failed, FailedTwice
<1>7. /\ Adding(f)' \ {t} = Adding(f) \ {t} /\ Erring(f)' \ {t} = Erring(f) \ {t}
      /\ ErringTwice(f)' \ {t} = ErringTwice(f) \ {t}
    BY SMTT(60), <1>1, OneThread
<1>8. CASE f # fam
    <2>1. /\ t \notin Adding(f) /\ t \notin Erring(f) /\ t \notin ErringTwice(f)
          /\ t \notin Adding(f)' /\ t \notin Erring(f)' /\ t \notin ErringTwice(f)'
        BY <1>1, <1>8 DEF Adding, Erring, ErringTwice, Counting, Family
    <2>2. Adding(f)' = Adding(f) /\ Erring(f)' = Erring(f)
          /\ ErringTwice(f)' = ErringTwice(f)
        BY <1>7, <2>1
    <2>3. kst'[f] = kst[f]
        BY <1>2, <1>8
    <2> QED
        BY <1>4, <1>6, <2>2, <2>3 DEF Balanced
<1>9. CASE f = fam
    <2>1. thr'[t].pc \in Counts <=> Tail(thr[t].todo) # <<>>
        BY <1>1 DEF Counts
    <2>2. /\ t \in Adding(f) <=> thr[t].todo \in AddTodos
          /\ t \in Erring(f) <=> thr[t].todo \in ErrTodos
          /\ t \in ErringTwice(f) <=> thr[t].todo = <<"err", "err">>
          /\ t \in Adding(f)' <=> Tail(thr[t].todo) \in AddTodos
          /\ t \in Erring(f)' <=> Tail(thr[t].todo) \in ErrTodos
          /\ t \in ErringTwice(f)' <=> Tail(thr[t].todo) = <<"err", "err">>
        <3>1. Counting(t, f)
            BY <1>3, <1>9 DEF Counting
        <3>2. Counting(t, f)' <=> Tail(thr[t].todo) # <<>>
            BY <1>1, <1>9, <2>1 DEF Counting, Family
        <3> QED
            BY <1>1, <3>1, <3>2, TodoKinds DEF Adding, Erring, ErringTwice
    <2>3. /\ IsFiniteSet(Adding(f)) /\ IsFiniteSet(Erring(f))
          /\ IsFiniteSet(ErringTwice(f)) /\ IsFiniteSet(Good(f))
          /\ IsFiniteSet(Bad(f)) /\ IsFiniteSet(BadTwice(f))
        BY Finite
    <2>4. PICK a \in Nat, b \in Nat :
              /\ a = Cardinality(Adding(f)) /\ b = Cardinality(Adding(f)')
              /\ (t \in Adding(f)' <=> t \in Adding(f)) => b = a
              /\ t \in Adding(f)' /\ t \notin Adding(f) => b = a + 1
              /\ t \notin Adding(f)' /\ t \in Adding(f) => b = a - 1
        BY <1>7, <2>3, Shift
    <2>5. a \in Nat /\ b \in Nat
        BY <2>4
    <2>6. PICK e \in Nat, e1 \in Nat :
              /\ e = Cardinality(Erring(f)) /\ e1 = Cardinality(Erring(f)')
              /\ (t \in Erring(f)' <=> t \in Erring(f)) => e1 = e
              /\ t \in Erring(f)' /\ t \notin Erring(f) => e1 = e + 1
              /\ t \notin Erring(f)' /\ t \in Erring(f) => e1 = e - 1
        BY <1>7, <2>3, Shift
    <2>7. e \in Nat /\ e1 \in Nat
        BY <2>6
    <2>8. PICK w \in Nat, w1 \in Nat :
              /\ w = Cardinality(ErringTwice(f)) /\ w1 = Cardinality(ErringTwice(f)')
              /\ (t \in ErringTwice(f)' <=> t \in ErringTwice(f)) => w1 = w
              /\ t \in ErringTwice(f)' /\ t \notin ErringTwice(f) => w1 = w + 1
              /\ t \notin ErringTwice(f)' /\ t \in ErringTwice(f) => w1 = w - 1
        BY <1>7, <2>3, Shift
    <2>9. w \in Nat /\ w1 \in Nat
        BY SMTT(60), <2>8
    <2>10. PICK ok \in Int, ok1 \in Int, dr \in Int, dr1 \in Int, er \in Int,
                er1 \in Int :
               /\ ok = kst[fam]["ok"] /\ ok1 = kst'[fam]["ok"]
               /\ dr = kst[fam]["dropped"] /\ dr1 = kst'[fam]["dropped"]
               /\ er = kst[fam]["err"] /\ er1 = kst'[fam]["err"]
        BY <1>5, <1>9
    <2>11. PICK g \in Nat, h \in Nat :
               /\ g = Cardinality(Good(f))
               /\ h = Cardinality(Bad(f)) + Cardinality(BadTwice(f))
               /\ ok + dr + a = g /\ er + e + w = h
        <3>1. /\ Cardinality(Good(f)) \in Nat /\ Cardinality(Bad(f)) \in Nat
              /\ Cardinality(BadTwice(f)) \in Nat
            BY <2>3, FS_CardinalityType
        <3>2. PICK x \in Nat, y \in Nat :
                  x = Cardinality(Bad(f)) /\ y = Cardinality(BadTwice(f))
            BY <3>1
        <3>3. x + y \in Nat
            OBVIOUS
        <3>4. Cardinality(Bad(f)) + Cardinality(BadTwice(f)) \in Nat
            BY <3>2, <3>3
        <3>5. /\ kst[f].ok + kst[f].dropped + Cardinality(Adding(f))
                     = Cardinality(Good(f))
              /\ kst[f].err + Cardinality(Erring(f)) + Cardinality(ErringTwice(f))
                     = Cardinality(Bad(f)) + Cardinality(BadTwice(f))
            BY SMTT(60), <1>4 DEF Balanced
        <3>6. /\ kst[f].ok = ok /\ kst[f].dropped = dr /\ kst[f].err = er
            BY <1>9, <2>10
        <3> QED
            BY <2>4, <2>6, <2>8, <3>1, <3>4, <3>5, <3>6
    <2>12. ASSUME thr[t].todo = <<"ok">>
           PROVE  ok1 + dr1 + b = g /\ er1 + e1 + w1 = h
        <3>1. Head(thr[t].todo) = "ok" /\ Tail(thr[t].todo) = <<>>
            BY <2>12
        <3>2. /\ t \in Adding(f) /\ t \notin Adding(f)'
              /\ t \notin Erring(f) /\ t \notin Erring(f)'
              /\ t \notin ErringTwice(f) /\ t \notin ErringTwice(f)'
            BY <2>2, <2>12, <3>1, TodoKinds
        <3>3. b = a - 1 /\ e1 = e /\ w1 = w
            BY SMTT(60), <2>4, <2>5, <2>6, <2>7, <2>8, <2>9, <3>2
        <3>4. ok1 = ok + 1 /\ dr1 = dr /\ er1 = er
            BY <1>2, <1>3, <1>5, <2>10, <3>1 DEF Field
        <3> QED
            BY <2>5, <2>7, <2>9, <2>11, <3>3, <3>4
    <2>13. ASSUME thr[t].todo = <<"ok", "unok", "dropped">>
           PROVE  ok1 + dr1 + b = g /\ er1 + e1 + w1 = h
        <3>1. Head(thr[t].todo) = "ok" /\ Tail(thr[t].todo) = <<"unok", "dropped">>
            BY <2>13
        <3>2. /\ t \in Adding(f) /\ t \notin Adding(f)'
              /\ t \notin Erring(f) /\ t \notin Erring(f)'
              /\ t \notin ErringTwice(f) /\ t \notin ErringTwice(f)'
            BY SMTT(60), <2>2, <2>13, <3>1, TodoKinds
        <3>3. b = a - 1 /\ e1 = e /\ w1 = w
            BY <2>4, <2>5, <2>6, <2>7, <2>8, <2>9, <3>2
        <3>4. ok1 = ok + 1 /\ dr1 = dr /\ er1 = er
            BY <1>2, <1>3, <1>5, <2>10, <3>1 DEF Field
        <3> QED
            BY <2>5, <2>7, <2>9, <2>11, <3>3, <3>4
    <2>14. ASSUME thr[t].todo = <<"unok", "dropped">>
           PROVE  ok1 + dr1 + b = g /\ er1 + e1 + w1 = h
        <3>1. Head(thr[t].todo) = "unok" /\ Tail(thr[t].todo) = <<"dropped">>
            BY <2>14
        <3>2. /\ t \notin Adding(f) /\ t \in Adding(f)'
              /\ t \notin Erring(f) /\ t \notin Erring(f)'
              /\ t \notin ErringTwice(f) /\ t \notin ErringTwice(f)'
            BY <2>2, <2>14, <3>1, TodoKinds
        <3>3. b = a + 1 /\ e1 = e /\ w1 = w
            BY SMTT(60), <2>4, <2>5, <2>6, <2>7, <2>8, <2>9, <3>2
        <3>4. ok1 = ok - 1 /\ dr1 = dr /\ er1 = er
            BY <1>2, <1>3, <1>5, <2>10, <3>1 DEF Field
        <3> QED
            BY <2>5, <2>7, <2>9, <2>11, <3>3, <3>4
    <2>15. ASSUME thr[t].todo = <<"dropped">>
           PROVE  ok1 + dr1 + b = g /\ er1 + e1 + w1 = h
        <3>1. Head(thr[t].todo) = "dropped" /\ Tail(thr[t].todo) = <<>>
            BY <2>15
        <3>2. /\ t \in Adding(f) /\ t \notin Adding(f)'
              /\ t \notin Erring(f) /\ t \notin Erring(f)'
              /\ t \notin ErringTwice(f) /\ t \notin ErringTwice(f)'
            BY SMTT(60), <2>2, <2>15, <3>1, TodoKinds
        <3>3. b = a - 1 /\ e1 = e /\ w1 = w
            BY <2>4, <2>5, <2>6, <2>7, <2>8, <2>9, <3>2
        <3>4. ok1 = ok /\ dr1 = dr + 1 /\ er1 = er
            BY <1>2, <1>3, <1>5, <2>10, <3>1 DEF Field
        <3> QED
            BY <2>5, <2>7, <2>9, <2>11, <3>3, <3>4
    <2>16. ASSUME thr[t].todo = <<"err">>
           PROVE  ok1 + dr1 + b = g /\ er1 + e1 + w1 = h
        <3>1. Head(thr[t].todo) = "err" /\ Tail(thr[t].todo) = <<>>
            BY <2>16
        <3>2. /\ t \notin Adding(f) /\ t \notin Adding(f)'
              /\ t \in Erring(f) /\ t \notin Erring(f)'
              /\ t \notin ErringTwice(f) /\ t \notin ErringTwice(f)'
            BY <2>2, <2>16, <3>1, TodoKinds
        <3>3. b = a /\ e1 = e - 1 /\ w1 = w
            BY SMTT(60), <2>4, <2>5, <2>6, <2>7, <2>8, <2>9, <3>2
        <3>4. ok1 = ok /\ dr1 = dr /\ er1 = er + 1
            BY <1>2, <1>3, <1>5, <2>10, <3>1 DEF Field
        <3> QED
            BY <2>5, <2>7, <2>9, <2>11, <3>3, <3>4
    <2>17. ASSUME thr[t].todo = <<"err", "err">>
           PROVE  ok1 + dr1 + b = g /\ er1 + e1 + w1 = h
        <3>1. Head(thr[t].todo) = "err" /\ Tail(thr[t].todo) = <<"err">>
            BY <2>17
        <3>2. /\ t \notin Adding(f) /\ t \notin Adding(f)'
              /\ t \in Erring(f) /\ t \in Erring(f)'
              /\ t \in ErringTwice(f) /\ t \notin ErringTwice(f)'
            BY <2>2, <2>17, <3>1, TodoKinds
        <3>3. b = a /\ e1 = e /\ w1 = w - 1
            BY SMTT(60), <2>4, <2>5, <2>6, <2>7, <2>8, <2>9, <3>2
        <3>4. ok1 = ok /\ dr1 = dr /\ er1 = er + 1
            BY <1>2, <1>3, <1>5, <2>10, <3>1 DEF Field
        <3> QED
            BY <2>5, <2>7, <2>9, <2>11, <3>3, <3>4
    <2>18. ok1 + dr1 + b = g /\ er1 + e1 + w1 = h
        BY SMTT(60), <1>3, <2>12, <2>13, <2>14, <2>15, <2>16, <2>17 DEF Todos
    <2>19. kst'[f].ok = ok1 /\ kst'[f].dropped = dr1 /\ kst'[f].err = er1
        BY <1>9, <2>10
    <2> QED
        BY <1>6, <2>4, <2>6, <2>8, <2>11, <2>18, <2>19 DEF Balanced
<1> QED
    BY <1>8, <1>9

\* A step after which the same threads have the same to count, and the same
\* calls have returned with the same results.
LEMMA QuietStats ==
    ASSUME Inv, StatsInv, UNCHANGED <<kst, raced>>,
           \A f \in Families :
               /\ Adding(f)' = Adding(f) /\ Erring(f)' = Erring(f)
               /\ ErringTwice(f)' = ErringTwice(f)
               /\ Good(f)' = Good(f) /\ Bad(f)' = Bad(f)
               /\ BadTwice(f)' = BadTwice(f)
    PROVE  StatsInv'
BY DEF StatsInv, Balanced

\* A step of a thread that does not count, before or after.
LEMMA IdleThread ==
    ASSUME Inv, NEW t \in Thread, OtherThreads(t), NEW f,
           \A d \in Calls : call[d].phase = "returned" => call'[d].op = call[d].op,
           thr[t].pc \notin Counts, thr'[t].pc \notin Counts
    PROVE  /\ Adding(f)' = Adding(f) /\ Erring(f)' = Erring(f)
           /\ ErringTwice(f)' = ErringTwice(f)
<1>1. /\ Adding(f)' \ {t} = Adding(f) \ {t} /\ Erring(f)' \ {t} = Erring(f) \ {t}
      /\ ErringTwice(f)' \ {t} = ErringTwice(f) \ {t}
    BY OneThread
<1>2. /\ t \notin Adding(f) /\ t \notin Erring(f) /\ t \notin ErringTwice(f)
      /\ t \notin Adding(f)' /\ t \notin Erring(f)' /\ t \notin ErringTwice(f)'
    BY DEF Adding, Erring, ErringTwice, Counting
<1> QED
    BY <1>1, <1>2

\* A step of a call that has returned with the same result, or not at all.
LEMMA IdleCall ==
    ASSUME NEW c \in Calls, OtherCalls(c), NEW f,
           call'[c].phase = "returned" <=> call[c].phase = "returned",
           call[c].phase = "returned" =>
               /\ call'[c].op = call[c].op /\ call'[c].krc = call[c].krc
               /\ call'[c].why = call[c].why /\ call'[c].out = call[c].out
    PROVE  Good(f)' = Good(f) /\ Bad(f)' = Bad(f) /\ BadTwice(f)' = BadTwice(f)
<1>1. Good(f)' \ {c} = Good(f) \ {c} /\ Bad(f)' \ {c} = Bad(f) \ {c}
      /\ BadTwice(f)' \ {c} = BadTwice(f) \ {c}
    BY OneCall
<1>2. c \in CountedIn(f)' <=> c \in CountedIn(f)
    BY DEF CountedIn, Returned, Family
<1>3. /\ c \in Good(f)' <=> c \in Good(f)
      /\ c \in Bad(f)' <=> c \in Bad(f)
      /\ c \in BadTwice(f)' <=> c \in BadTwice(f)
    <2>1. c \in CountedIn(f) => call[c].phase = "returned"
        BY DEF CountedIn, Returned
    <2> QED
        BY <1>2, <2>1 DEF Good, Bad, BadTwice, Succeeded, Failed, FailedTwice
<1> QED
    BY <1>1, <1>3

\* The same threads count for the same calls.
LEMMA SameThreads ==
    ASSUME Inv, NEW f, UNCHANGED thr,
           \A d \in Calls : call[d].phase = "returned" => call'[d].op = call[d].op
    PROVE  /\ Adding(f)' = Adding(f) /\ Erring(f)' = Erring(f)
           /\ ErringTwice(f)' = ErringTwice(f)
<1>1. \A u \in Thread : thr[u].pc \in Counts =>
          thr[u].c \in Calls /\ call'[thr[u].c].op = call[thr[u].c].op
    BY DEF Inv, ThreadsOK
<1>2. \A u \in Thread : Counting(u, f)' <=> Counting(u, f)
    BY <1>1 DEF Counting, Family
<1> QED
    BY <1>2 DEF Adding, Erring, ErringTwice

LEMMA SameCalls ==
    ASSUME NEW f, UNCHANGED call
    PROVE  Good(f)' = Good(f) /\ Bad(f)' = Bad(f) /\ BadTwice(f)' = BadTwice(f)
BY DEF Good, Bad, BadTwice, CountedIn, Returned, Family, Succeeded, Failed,
       FailedTwice

LEMMA MadeStats ==
    ASSUME Inv, StatsInv, NEW t \in Thread, NEW c \in Calls, NEW op \in AllOps,
           NEW mode, NEW r, GoodStart(op, r), Made(t, c, op, mode, r)
    PROVE  StatsInv'
<1>1. /\ OtherCalls(c) /\ OtherThreads(t) /\ UNCHANGED <<kst, raced>>
      /\ call[c].phase = "idle" /\ call'[c].phase = r.phase
      /\ thr[t].pc \notin Counts /\ thr'[t].c = c /\ thr'[t].todo = r.todo
    BY DEF Made, NoCall, Counts
<1>2. CASE r.phase = "returned"
    <2>1. thr'[t].pc \in Counts <=> r.todo # <<>>
        BY <1>2 DEF Made, NextPc, Counts
    <2>2. Tallied(call'[c], r.todo)
        BY <1>2 DEF Made, GoodStart, Tallied
    <2> QED
        BY <1>1, <1>2, <2>1, <2>2, ReturnStats
<1>3. CASE r.phase # "returned"
    <2>1. thr'[t].pc \notin Counts
        BY <1>3 DEF Made, GoodStart, NextPc, Counts
    <2>2. \A d \in Calls : call[d].phase = "returned" => call'[d].op = call[d].op
        BY <1>1 DEF OtherCalls
    <2> QED
        BY <1>1, <1>3, <2>1, <2>2, IdleThread, IdleCall, QuietStats
<1> QED
    BY <1>2, <1>3

LEMMA StatsInit == Init => StatsInv
<1> SUFFICES ASSUME Init, NEW f \in Families PROVE Balanced(f)
    BY DEF StatsInv
<1>1. /\ call = [c \in Calls |-> NoCall] /\ thr = [t \in Thread |-> NoThread]
      /\ kst = [g \in Families |-> NoCounts]
    BY DEF Init, KioInit
<1>2. Adding(f) = {} /\ Erring(f) = {} /\ ErringTwice(f) = {}
    BY <1>1 DEF Adding, Erring, ErringTwice, Counting, NoThread, Counts
<1>3. Good(f) = {} /\ Bad(f) = {} /\ BadTwice(f) = {}
    BY <1>1 DEF Good, Bad, BadTwice, CountedIn, Returned, NoCall
<1>4. kst[f].ok = 0 /\ kst[f].dropped = 0 /\ kst[f].err = 0
    BY <1>1 DEF NoCounts
<1> QED
    BY <1>2, <1>3, <1>4, FS_EmptySet DEF Balanced

LEMMA StatsNext ==
    ASSUME Inv, StatsInv, [Next]_<<vars, load>>
    PROVE  StatsInv'
<1>1. ASSUME UNCHANGED <<call, thr, kst, raced>> PROVE StatsInv'
    BY <1>1, SameThreads, SameCalls, QuietStats
<1>2. ASSUME NEW t \in Thread, Submit(t) PROVE StatsInv'
    <2>1. PICK op, mode, kb, in, r :
              op \in AllOps /\ Begin(t, op, mode, kb, in, r) /\ GoodStart(op, r)
        BY <1>2, SubmitStart
    <2> QED
        BY <2>1, BeginDoes, MadeStats
<1>3. ASSUME NEW t \in Thread, Waiting(t) PROVE StatsInv'
    <2>1. CASE \/ \E timeout : Poll(t, timeout)
               \/ PollWoken(t) \/ TryAgain(t)
        <3>1. /\ OtherThreads(t) /\ thr[t].pc \in Waits /\ thr'[t].pc \in Waits
              /\ UNCHANGED <<call, kst, raced>>
            BY <2>1, WaitDoes
        <3>2. thr[t].pc \notin Counts /\ thr'[t].pc \notin Counts
            BY <3>1 DEF Waits, Counts
        <3> QED
            BY <3>1, <3>2, IdleThread, SameCalls, QuietStats
    <2>2. CASE CountLoad(t, Family(call[thr[t].c].op))
        <3>1. /\ OtherThreads(t) /\ thr[t].pc = "count" /\ thr'[t].pc = "store"
              /\ thr'[t].c = thr[t].c /\ thr'[t].todo = thr[t].todo
              /\ call' = call /\ UNCHANGED <<kst, raced>>
            BY <2>2, LoadDoes
        <3>2. \A u \in Thread :
                  /\ thr'[u].c = thr[u].c /\ thr'[u].todo = thr[u].todo
                  /\ thr'[u].pc \in Counts <=> thr[u].pc \in Counts
            BY <3>1 DEF OtherThreads, Counts
        <3>3. \A f : /\ Adding(f)' = Adding(f) /\ Erring(f)' = Erring(f)
                     /\ ErringTwice(f)' = ErringTwice(f)
            <4> SUFFICES ASSUME NEW f
                         PROVE  /\ Adding(f)' = Adding(f) /\ Erring(f)' = Erring(f)
                                /\ ErringTwice(f)' = ErringTwice(f)
                OBVIOUS
            <4>1. \A u \in Thread : Counting(u, f)' <=> Counting(u, f)
                BY <3>1, <3>2 DEF Counting, Family
            <4> QED
                BY <3>2, <4>1 DEF Adding, Erring, ErringTwice
        <3> QED
            BY <3>1, <3>3, SameCalls, QuietStats
    <2>3. CASE CountStore(t, Family(call[thr[t].c].op))
        BY <2>3, StoreStats
    <2> QED
        BY <1>3, <2>1, <2>2, <2>3 DEF Waiting
<1>4. ASSUME NEW t \in Thread, Collect(t) PROVE StatsInv'
    <2>0. PICK c \in Calls : \E out, why, r :
              /\ call[c].phase \in Open /\ thr[t].pc \notin Counts
              /\ Handed(t, c, out, why, r) /\ Tallied(call'[c], r.todo)
        BY <1>4, CollectDoes
    <2>1. PICK out, why, r :
              /\ call[c].phase \in Open /\ thr[t].pc \notin Counts
              /\ Handed(t, c, out, why, r) /\ Tallied(call'[c], r.todo)
        BY <2>0
    <2>2. /\ OtherCalls(c) /\ OtherThreads(t) /\ UNCHANGED <<kst, raced>>
          /\ call'[c].phase = "returned"
          /\ thr'[t].c = c /\ thr'[t].todo = r.todo
          /\ thr'[t].pc \in Counts <=> r.todo # <<>>
        BY <2>1 DEF Handed, NextPc, Counts
    <2>3. call[c].phase # "returned"
        BY <2>1 DEF Open
    <2> QED
        BY <2>1, <2>2, <2>3, ReturnStats
<1>5. ASSUME NEW c \in Calls, Finish(c) PROVE StatsInv'
    <2>1. PICK out \in Answers(call[c]) : Complete(c, out)
        BY <1>5 DEF Finish
    <2>2. /\ call[c].phase = "pending" /\ call'[c].phase = "done" /\ OtherCalls(c)
          /\ UNCHANGED <<thr, kst, raced>>
        BY <2>1, CompleteDoes
    <2>3. \A d \in Calls : call[d].phase = "returned" => call'[d].op = call[d].op
        BY <2>2 DEF OtherCalls
    <2> QED
        BY <2>2, <2>3, SameThreads, IdleCall, QuietStats
<1>6. ASSUME NEW c \in Calls, DeviceApply(c) PROVE StatsInv'
    <2>1. /\ OtherCalls(c) /\ UNCHANGED <<thr, kst, raced>>
          /\ \A x \in Fields \ {"applied"} : call'[c][x] = call[c][x]
        BY <1>6, ApplyDoes
    <2>2. /\ call'[c].phase = call[c].phase /\ call'[c].why = call[c].why
          /\ call'[c].krc = call[c].krc /\ call'[c].out = call[c].out
          /\ call'[c].op = call[c].op
        BY <2>1 DEF Fields
    <2>3. \A d \in Calls : call[d].phase = "returned" => call'[d].op = call[d].op
        BY <2>1, <2>2 DEF OtherCalls
    <2> QED
        BY <2>1, <2>2, <2>3, SameThreads, IdleCall, QuietStats
<1>7. SessionLost => UNCHANGED <<call, thr, kst, raced>>
    BY DEF SessionLost
<1>8. UNCHANGED <<vars, load>> => UNCHANGED <<call, thr, kst, raced>>
    BY DEF vars
<1> QED
    BY <1>1, <1>2, <1>3, <1>4, <1>5, <1>6, <1>7, <1>8 DEF Next

(***************************************************************************)
(* The counters of stat.c are exact as long as none of their unlocked      *)
(* updates has overwritten another: for every family of operations,        *)
(* kop_ok + kop_dropped is the number of calls that succeeded and kop_err  *)
(* one per failed call, two when the request timed out or could not be     *)
(* sent.  A lost update is the only way to a wrong counter.                *)
(***************************************************************************)
THEOREM CountersAreExact == Spec => []StatsExact
<1>1. Inv /\ StatsInv => StatsExact
    <2> SUFFICES ASSUME Inv, StatsInv, ~raced,
                        \A t \in Thread : thr[t].pc \notin {"count", "store"},
                        NEW f \in Families
                 PROVE  /\ kst[f].ok + kst[f].dropped = Cardinality(Good(f))
                        /\ kst[f].err = Cardinality(Bad(f)) + Cardinality(BadTwice(f))
        BY DEF StatsExact, Good, Bad, BadTwice
    <2>1. Adding(f) = {} /\ Erring(f) = {} /\ ErringTwice(f) = {}
        BY DEF Adding, Erring, ErringTwice, Counting, Counts
    <2>2. Balanced(f)
        BY DEF StatsInv
    <2>3. kst[f].ok \in Int /\ kst[f].dropped \in Int /\ kst[f].err \in Int
        BY DEF Inv, CountersOK
    <2>4. Cardinality({}) = 0
        BY FS_EmptySet
    <2> QED
        BY <2>1, <2>2, <2>3, <2>4 DEF Balanced
<1>2. Inv /\ StatsInv /\ [Next]_<<vars, load>> => StatsInv'
    BY StatsNext
<1> QED
    BY <1>1, <1>2, StatsInit, Invariant, PTL DEF Spec

-----------------------------------------------------------------------------
(* The argument checks.                                                    *)

\* A nonempty set of naturals has a least element.
LEMMA Least ==
    ASSUME NEW T \in SUBSET Nat, T # {}
    PROVE  \E n \in T : \A m \in T : n <= m
<1>1. PICK n \in T : \A m \in T : ~(<<m, n>> \in OpToRel(<, Nat))
    BY WFMin, NatLessThanWellFounded
<1>2. OpToRel(<, Nat) = {ss \in Nat \X Nat : ss[1] < ss[2]}
    BY Zenon DEF OpToRel
<1>3. ASSUME NEW m \in T PROVE n <= m
    <2>1. m \in Nat /\ n \in Nat
        OBVIOUS
    <2>2. <<m, n>> \notin {ss \in Nat \X Nat : ss[1] < ss[2]}
        BY <1>1, <1>2
    <2> QED
        BY <2>1, <2>2
<1> QED
    BY <1>3

\* The partial sums of the first n lengths.
PartialSums(s, n, g) ==
    g = [i \in 0 .. n |-> IF i = 0 THEN 0 ELSE g[i - 1] + s[i]]

LEMMA SumsExist ==
    ASSUME NEW s \in Seq(Nat), NEW n \in Nat
    PROVE  \E g : PartialSums(s, n, g)
<1> DEFINE T == {m \in Nat : ~\E g : PartialSums(s, m, g)}
<1>1. ASSUME T # {} PROVE FALSE
    <2>1. T \in SUBSET Nat
        OBVIOUS
    <2>2. PICK m \in T : \A k \in T : m <= k
        <3> HIDE DEF T
        <3> QED
            BY <1>1, <2>1, Least
    <2>3. m \in Nat /\ ~\E g : PartialSums(s, m, g)
        OBVIOUS
    <2>4. m # 0
        <3>1. PartialSums(s, 0, [i \in 0 .. 0 |-> 0])
            BY DEF PartialSums
        <3> QED
            BY <2>3, <3>1
    <2>5. m - 1 \in Nat /\ m - 1 \notin T
        BY <2>2, <2>3, <2>4
    <2>6. PICK g : PartialSums(s, m - 1, g)
        BY <2>5
    <2> DEFINE h == [i \in 0 .. m |-> IF i = m THEN g[m - 1] + s[m] ELSE g[i]]
    <2>7. \A i \in 0 .. m - 1 : g[i] = IF i = 0 THEN 0 ELSE g[i - 1] + s[i]
        BY <2>6 DEF PartialSums
    <2>8. ASSUME NEW i \in 0 .. m
          PROVE  h[i] = IF i = 0 THEN 0 ELSE h[i - 1] + s[i]
        <3>1. CASE i = m
            BY <2>3, <2>4, <3>1
        <3>2. CASE i # m
            <4>1. i \in 0 .. m - 1 /\ i - 1 # m
                BY <2>3, <3>2
            <4>2. h[i] = g[i] /\ (i # 0 => h[i - 1] = g[i - 1])
                BY <2>3, <4>1
            <4> HIDE DEF h
            <4> QED
                BY <2>7, <4>1, <4>2
        <3> QED
            BY <3>1, <3>2
    <2>9. PartialSums(s, m, h)
        <3>1. h = [i \in 0 .. m |-> h[i]]
            OBVIOUS
        <3> HIDE DEF h
        <3> QED
            BY <2>8, <3>1, Zenon DEF PartialSums
    <2> QED
        BY <2>3, <2>9
<1> QED
    BY <1>1

LEMMA TotalType ==
    ASSUME NEW s \in Seq(Nat)
    PROVE  Total(s) \in Nat
<1> DEFINE sum[i \in 0 .. Len(s)] == IF i = 0 THEN 0 ELSE sum[i - 1] + s[i]
<1>1. sum = CHOOSE g : g = [i \in 0 .. Len(s) |->
                                IF i = 0 THEN 0 ELSE g[i - 1] + s[i]]
    OBVIOUS
<1> HIDE DEF sum
<1>2. Len(s) \in Nat
    OBVIOUS
<1>3. \E g : g = [i \in 0 .. Len(s) |-> IF i = 0 THEN 0 ELSE g[i - 1] + s[i]]
    BY <1>2, SumsExist DEF PartialSums
<1>4. sum = [i \in 0 .. Len(s) |-> IF i = 0 THEN 0 ELSE sum[i - 1] + s[i]]
    BY <1>1, <1>3, Zenon
<1> DEFINE T == {i \in 0 .. Len(s) : sum[i] \notin Nat}
<1>5. ASSUME T # {} PROVE FALSE
    <2>1. T \in SUBSET Nat
        OBVIOUS
    <2>2. PICK n \in T : \A m \in T : n <= m
        <3> HIDE DEF T
        <3> QED
            BY <1>5, <2>1, Least
    <2>3. n \in 0 .. Len(s) /\ sum[n] \notin Nat
        OBVIOUS
    <2>4. n # 0
        BY <1>4, <2>3
    <2>5. n - 1 \in 0 .. Len(s) /\ n - 1 \notin T
        BY <2>2, <2>3, <2>4
    <2>6. sum[n - 1] \in Nat /\ s[n] \in Nat
        BY <2>3, <2>4, <2>5
    <2>7. sum[n] = sum[n - 1] + s[n]
        BY <1>4, <2>3, <2>4
    <2> QED
        BY <2>3, <2>6, <2>7
<1>6. sum[Len(s)] \in Nat
    BY <1>2, <1>5
<1> QED
    BY <1>6 DEF Total, sum

\* ki_validate_kv accepts exactly the kvs the limits allow.
LEMMA KvScreen ==
    ASSUME NEW kv \in KvArgs, NEW verck \in BOOLEAN, NEW valck \in BOOLEAN
    PROVE  ki_validate_kv(kv, verck, valck, Limits) <=>
               /\ LegalKv(kv)
               /\ valck => HasValue(kv)
               /\ verck => kv.ver # Null
<1>1. /\ kv.key \in Seq(Nat) /\ kv.val \in Seq(Nat) /\ kv.ver \in Nat \cup {Null}
      /\ kv.newver \in Nat \cup {Null} /\ kv.disum \in Nat \cup {Null}
      /\ kv.ditype \in DiTypes \cup {"unset"}
      /\ kv.cpolicy \in CachePolicies \cup {"bogus"}
    BY DEF KvArgs
<1>2. Total(kv.key) \in Nat /\ Total(kv.val) \in Nat
    BY <1>1, TotalType
<1>3. /\ Limits.keylen \in Nat /\ Limits.vallen \in Nat /\ Limits.verlen \in Nat
      /\ Limits.disumlen \in Nat
    BY LimitsAssumption
<1>4. Total(kv.key) <= Limits.keylen <=> Total(kv.key) \in 0 .. Limits.keylen
    BY <1>2, <1>3
<1>5. Total(kv.val) <= Limits.vallen <=> Total(kv.val) \in 0 .. Limits.vallen
    BY <1>2, <1>3
<1>6. /\ (kv.ver = Null \/ ~(kv.ver < 1 \/ kv.ver > Limits.verlen)) <=>
             kv.ver \in {Null} \cup 1 .. Limits.verlen
      /\ (kv.newver = Null \/ ~(kv.newver < 1 \/ kv.newver > Limits.verlen)) <=>
             kv.newver \in {Null} \cup 1 .. Limits.verlen
      /\ (kv.disum = Null \/ (kv.disum >= 1 /\ kv.disum <= Limits.disumlen)) <=>
             kv.disum \in {Null} \cup 1 .. Limits.disumlen
    BY <1>1, <1>3 DEF Null
<1>7. kv.ditype \in DiTypes <=> kv.ditype # "unset"
    BY <1>1 DEF DiTypes
<1>8. kv.cpolicy \in CachePolicies <=> kv.cpolicy # "bogus"
    BY <1>1 DEF CachePolicies
<1> QED
    BY <1>4, <1>5, <1>6, <1>7, <1>8, Zenon
       DEF ki_validate_kv, LegalKv, WithinLimits, HasValue

LEMMA OptionalIs ==
    ASSUME NEW S, NEW s \in Optional(S)
    PROVE  /\ Len(s) \in 0 .. 1
           /\ s # <<>> => Len(s) = 1 /\ s[1] \in S
           /\ \A i \in DOMAIN s : i = 1 /\ s # <<>>
<1>1. s \in Seq(S) /\ Len(s) <= 1
    BY DEF Optional
<1>2. DOMAIN s = 1 .. Len(s) /\ Len(s) \in Nat
    BY <1>1, LenProperties
<1>3. s # <<>> => Len(s) = 1
    BY <1>1, <1>2, EmptySeq
<1>4. Len(s) = 1 => s[1] \in S /\ s # <<>>
    BY <1>1, <1>2
<1>5. \A i \in DOMAIN s : i = 1 /\ Len(s) = 1
    BY <1>1, <1>2
<1> QED
    BY <1>2, <1>3, <1>4, <1>5

\* Whether a log type occurs, and occurs twice.
LEMMA AskedIs ==
    ASSUME NEW glog \in LogArgs, NEW x
    PROVE  /\ Asked(glog, x) \in Nat
           /\ Asked(glog, x) > 0 <=> \E i \in DOMAIN glog.types : glog.types[i] = x
           /\ Asked(glog, x) <= 1 <=>
                  \A i, j \in DOMAIN glog.types :
                      glog.types[i] = x /\ glog.types[j] = x => i = j
<1> DEFINE S == {i \in DOMAIN glog.types : glog.types[i] = x}
<1>1. Asked(glog, x) = Cardinality(S)
    BY DEF Asked
<1>2. glog.types \in Seq(LogTypes \cup {"bogus"})
    BY DEF LogArgs
<1>3. DOMAIN glog.types = 1 .. Len(glog.types) /\ Len(glog.types) \in Nat
    BY <1>2
<1>4. IsFiniteSet(DOMAIN glog.types)
    BY <1>3, FS_Interval
<1>5. IsFiniteSet(S) /\ Cardinality(S) \in Nat
    BY <1>4, FS_Subset, FS_CardinalityType
<1>6. Cardinality(S) > 0 <=> \E i \in DOMAIN glog.types : glog.types[i] = x
    <2>1. Cardinality(S) = 0 <=> S = {}
        BY <1>5, FS_EmptySet
    <2> QED
        BY <1>5, <2>1
<1>7. ASSUME \A i, j \in S : i = j PROVE Cardinality(S) <= 1
    <2>1. CASE S = {}
        BY <2>1, FS_EmptySet
    <2>2. CASE S # {}
        <3>1. PICK i \in S : TRUE
            BY <2>2
        <3>2. S = {i}
            BY <1>7, <3>1
        <3> HIDE DEF S
        <3> QED
            BY <3>2, FS_Singleton
    <2> QED
        BY <2>1, <2>2
<1>8. ASSUME NEW i \in S, NEW j \in S, i # j PROVE Cardinality(S) > 1
    <2>1. IsFiniteSet({i}) /\ Cardinality({i}) = 1
        BY FS_Singleton
    <2>2. {i} \cup {j} \subseteq S /\ j \notin {i}
        BY <1>8
    <2>3. Cardinality({i} \cup {j}) = 2
        BY <2>1, <2>2, FS_AddElement
    <2> HIDE DEF S
    <2>4. 2 <= Cardinality(S)
        BY <1>5, <2>2, <2>3, FS_Subset
    <2> QED
        BY <1>5, <2>4
<1>9. Cardinality(S) <= 1 <=> \A i, j \in S : i = j
    BY <1>5, <1>7, <1>8
<1> QED
    BY <1>1, <1>5, <1>6, <1>9

\* A call is turned away as invalid, or sent, as its arguments deserve.
Screens(op, mode, kb, in, why, wire) ==
    /\ why \in {"sent", "lost", "unsent"} => Acceptable(op, mode, kb, in)
    /\ why = "invalid" => ~Acceptable(op, mode, kb, in)
    /\ op \in {"cas", "cad"} /\ wire # NoWire => ~wire.force /\ wire.ver # Null
    /\ op = "getrange" /\ wire # NoWire => wire.count \in 1 .. Limits.rangekeycnt

LEMMA BatchScreen ==
    ASSUME NEW kb \in Optional(KbArgs)
    PROVE  (kb # <<>> => ki_validate_kb(kb[1], "PUT")) <=>
               \A i \in DOMAIN kb : kb[i].magic /\ kb[i].bid >= KFIRSTBID
<1>1. CASE kb = <<>>
    BY <1>1, OptionalIs
<1>2. CASE kb # <<>>
    <2>1. Len(kb) = 1 /\ kb \in Seq(KbArgs) /\ \A i \in DOMAIN kb : i = 1
        BY <1>2, OptionalIs DEF Optional
    <2>2. 1 \in DOMAIN kb
        BY <2>1
    <2> QED
        BY <1>2, <2>1, <2>2 DEF ki_validate_kb
<1> QED
    BY <1>1, <1>2

LEMMA PutScreen ==
    ASSUME NEW op \in PutOps, NEW mode, NEW in \in KvArgs,
           NEW kb \in Optional(KbArgs),
           NEW r \in p_put_aio_generic(mode, in, kb, PutVerck(op))
    PROVE  Screens(op, mode, kb, in, r.why, r.wire)
<1>1. Acceptable(op, mode, kb, in) <=>
          /\ LegalKv(in) /\ HasValue(in) /\ (op = "cas" => in.ver # Null)
          /\ \A i \in DOMAIN kb : kb[i].magic /\ kb[i].bid >= KFIRSTBID
    BY DEF Acceptable, PutOps, DelOps, GetOps
<1>2. PutVerck(op) \in BOOLEAN /\ (PutVerck(op) <=> op = "cas")
    BY DEF PutVerck
<1>3. PutAccepts(in, kb, PutVerck(op)) <=> Acceptable(op, mode, kb, in)
    BY <1>1, <1>2, KvScreen, BatchScreen DEF PutAccepts
<1>4. op \notin {"cad", "getrange"}
    BY DEF PutOps
<1>5. CASE r \in BadCall(mode)
    BY <1>4, <1>5 DEF Screens, BadCall, Refused
<1>6. CASE ~PutAccepts(in, kb, PutVerck(op)) /\
           r = Refused("EINVAL", "invalid", <<"err">>)
    BY <1>3, <1>4, <1>6 DEF Screens, Refused
<1>7. ASSUME NEW s \in DOMAIN PutExits,
             r = Aborted(s, Held[s], PutLadder, PutExits[s], <<"err">>)
      PROVE  Screens(op, mode, kb, in, r.why, r.wire)
    <2>1. s \in Stages
        BY <1>7 DEF PutExits, Stages
    <2>2. r.why = s /\ r.wire = NoWire
        BY <1>7 DEF Aborted, Refused
    <2> QED
        BY <1>4, <2>1, <2>2 DEF Screens, Stages
<1>8. CASE /\ PutAccepts(in, kb, PutVerck(op))
           /\ r = Sent(SendBufs \ {"req"}, create_put_message(in, kb, PutVerck(op)))
    <2>1. r.why = "sent" /\ r.wire = create_put_message(in, kb, PutVerck(op))
        BY <1>8 DEF Sent
    <2>2. r.wire.ver = in.ver
        BY <2>1 DEF create_put_message
    <2>3. ASSUME op = "cas" PROVE ~r.wire.force /\ r.wire.ver # Null
        <3>1. PutVerck(op) = TRUE
            BY <1>2, <2>3
        <3>2. ~create_put_message(in, kb, TRUE).force
            BY DEF create_put_message
        <3> QED
            BY <1>1, <1>3, <1>8, <2>1, <2>2, <2>3, <3>1, <3>2
    <2> QED
        BY <1>3, <1>4, <1>8, <2>1, <2>3 DEF Screens
<1> QED
    BY <1>5, <1>6, <1>7, <1>8 DEF p_put_aio_generic

LEMMA DelScreen ==
    ASSUME NEW op \in DelOps, NEW mode, NEW in \in KvArgs,
           NEW kb \in Optional(KbArgs),
           NEW r \in d_del_aio_generic(mode, in, kb, DelVerck(op))
    PROVE  Screens(op, mode, kb, in, r.why, r.wire)
<1>1. Acceptable(op, mode, kb, in) <=>
          /\ LegalKv(in) /\ HasValue(in) /\ (op = "cad" => in.ver # Null)
          /\ \A i \in DOMAIN kb : kb[i].magic /\ kb[i].bid >= KFIRSTBID
    BY DEF Acceptable, PutOps, DelOps, GetOps
<1>2. DelVerck(op) \in BOOLEAN /\ (DelVerck(op) <=> op = "cad")
    BY DEF DelVerck
<1>3. DelAccepts(in, kb, DelVerck(op)) <=> Acceptable(op, mode, kb, in)
    BY <1>1, <1>2, KvScreen, BatchScreen DEF DelAccepts
<1>4. op \notin {"cas", "getrange"}
    BY DEF DelOps
<1>5. CASE r \in BadCall(mode)
    BY <1>4, <1>5 DEF Screens, BadCall, Refused
<1>6. CASE ~DelAccepts(in, kb, DelVerck(op)) /\
           r = Refused("EINVAL", "invalid", <<"err">>)
    BY <1>3, <1>4, <1>6 DEF Screens, Refused
<1>7. ASSUME NEW s \in DOMAIN DelExits,
             r = Aborted(s, Held[s], DelLadder, DelExits[s], <<"err">>)
      PROVE  Screens(op, mode, kb, in, r.why, r.wire)
    <2>1. s \in Stages
        BY <1>7 DEF DelExits, Stages
    <2>2. r.why = s /\ r.wire = NoWire
        BY <1>7 DEF Aborted, Refused
    <2> QED
        BY <1>4, <2>1, <2>2 DEF Screens, Stages
<1>8. CASE /\ DelAccepts(in, kb, DelVerck(op))
           /\ r = Sent(SendBufs \ {"req"}, create_delkey_message(in, kb, DelVerck(op)))
    <2>1. r.why = "sent" /\ r.wire = create_delkey_message(in, kb, DelVerck(op))
        BY <1>8 DEF Sent
    <2>2. r.wire.ver = in.ver
        BY <2>1 DEF create_delkey_message
    <2>3. ASSUME op = "cad" PROVE ~r.wire.force /\ r.wire.ver # Null
        <3>1. DelVerck(op) = TRUE
            BY <1>2, <2>3
        <3>2. ~create_delkey_message(in, kb, TRUE).force
            BY DEF create_delkey_message
        <3> QED
            BY <1>1, <1>3, <1>8, <2>1, <2>2, <2>3, <3>1, <3>2
    <2> QED
        BY <1>3, <1>4, <1>8, <2>1, <2>3 DEF Screens
<1> QED
    BY <1>5, <1>6, <1>7, <1>8 DEF d_del_aio_generic

LEMMA GetScreen ==
    ASSUME NEW op \in GetOps, NEW mode \in {"sync", "aio"}, NEW kb, NEW in,
           in.kv \in KvArgs, in.alt \in Optional(KvArgs),
           NEW r \in g_get_aio_generic(mode, in, GetType(op, mode))
    PROVE  Screens(op, mode, kb, in, r.why, r.wire)
<1>1. Acceptable(op, mode, kb, in) <=>
          /\ op = "getnext" /\ mode = "sync" => Len(in.alt) = 1
          /\ \A kv \in {in.kv} \cup {in.alt[i] : i \in DOMAIN in.alt} :
                 LegalKv(kv) /\ HasValue(kv)
    BY DEF Acceptable, GetOps, PutOps, DelOps
<1>2. GetType(op, mode) = "GETNEXT" <=> op = "getnext" /\ mode = "sync"
    BY DEF GetType, GetOps
<1>3. ki_validate_kv(in.kv, FALSE, TRUE, Limits) <=>
          LegalKv(in.kv) /\ HasValue(in.kv)
    BY KvScreen
<1>4. GetAccepts(in, GetType(op, mode)) <=> Acceptable(op, mode, kb, in)
    <2>1. CASE in.alt = <<>>
        <3>1. DOMAIN in.alt = {} /\ Len(in.alt) # 1
            BY <2>1
        <3> QED
            BY <1>1, <1>2, <1>3, <2>1, <3>1 DEF GetAccepts
    <2>2. CASE in.alt # <<>>
        <3>1. /\ Len(in.alt) = 1 /\ in.alt[1] \in KvArgs
              /\ \A i \in DOMAIN in.alt : i = 1
            BY <2>2, OptionalIs
        <3>2. 1 \in DOMAIN in.alt
            BY <3>1 DEF Optional
        <3>3. ki_validate_kv(in.alt[1], FALSE, TRUE, Limits) <=>
                  LegalKv(in.alt[1]) /\ HasValue(in.alt[1])
            BY <3>1, KvScreen
        <3>4. {in.alt[i] : i \in DOMAIN in.alt} = {in.alt[1]}
            BY <3>1, <3>2
        <3> QED
            BY <1>1, <1>2, <1>3, <2>2, <3>1, <3>3, <3>4 DEF GetAccepts
    <2> QED
        BY <2>1, <2>2
<1>5. op \notin {"cas", "cad", "getrange"}
    BY DEF GetOps
<1>6. CASE r \in BadCall(mode)
    BY <1>5, <1>6 DEF Screens, BadCall, Refused
<1>7. CASE ~GetAccepts(in, GetType(op, mode)) /\
           r = Refused("EINVAL", "invalid", <<"err">>)
    BY <1>4, <1>5, <1>7 DEF Screens, Refused
<1>8. ASSUME NEW s \in DOMAIN GetExits,
             r = Aborted(s, Held[s], GetLadder, GetExits[s], <<"err">>)
      PROVE  Screens(op, mode, kb, in, r.why, r.wire)
    <2>1. s \in Stages
        BY <1>8 DEF GetExits, Stages
    <2>2. r.why = s
        BY <1>8 DEF Aborted, Refused
    <2> QED
        BY <1>5, <2>1, <2>2 DEF Screens, Stages
<1>9. CASE /\ GetAccepts(in, GetType(op, mode))
           /\ r = Sent(SendBufs \ {"req"},
                       create_getkey_message(in, GetType(op, mode)))
    BY <1>4, <1>5, <1>9 DEF Screens, Sent
<1> QED
    BY <1>6, <1>7, <1>8, <1>9 DEF g_get_aio_generic

LEMMA NoopScreen ==
    ASSUME NEW mode, NEW kb, NEW in, NEW r \in n_noop_aio_generic(mode)
    PROVE  Screens("noop", mode, kb, in, r.why, r.wire)
<1>1. Acceptable("noop", mode, kb, in)
    BY DEF Acceptable, PutOps, DelOps, GetOps
<1>2. CASE r \in CtlBadCall(mode)
    BY <1>1, <1>2 DEF Screens, CtlBadCall, Refused
<1>3. ASSUME NEW s \in DOMAIN NoopExits,
             r = Aborted(s, Held[s], NoopLadder, NoopExits[s], <<"err">>)
      PROVE  Screens("noop", mode, kb, in, r.why, r.wire)
    <2>1. s # "invalid" /\ r.why = s
        BY <1>3 DEF NoopExits, Aborted, Refused
    <2> QED
        BY <1>1, <2>1 DEF Screens
<1>4. CASE r = Sent(SendBufs \ {"req"}, create_noop_message)
    BY <1>1, <1>4 DEF Screens, Sent
<1> QED
    BY <1>2, <1>3, <1>4 DEF n_noop_aio_generic

LEMMA FlushScreen ==
    ASSUME NEW mode, NEW kb, NEW in, NEW r \in f_flush_aio_generic(mode)
    PROVE  Screens("flush", mode, kb, in, r.why, r.wire)
<1>1. Acceptable("flush", mode, kb, in)
    BY DEF Acceptable, PutOps, DelOps, GetOps
<1>2. CASE r \in CtlBadCall(mode)
    BY <1>1, <1>2 DEF Screens, CtlBadCall, Refused
<1>3. ASSUME NEW s \in DOMAIN FlushExits,
             r = Aborted(s, Held[s], FlushLadder, FlushExits[s], <<"err">>)
      PROVE  Screens("flush", mode, kb, in, r.why, r.wire)
    <2>1. s # "invalid" /\ r.why = s
        BY <1>3 DEF FlushExits, Aborted, Refused
    <2> QED
        BY <1>1, <2>1 DEF Screens
<1>4. CASE r = Sent(SendBufs \ {"req"}, create_flush_message)
    BY <1>1, <1>4 DEF Screens, Sent
<1> QED
    BY <1>2, <1>3, <1>4 DEF f_flush_aio_generic

\* An applet whose fields have their types.
AppArg(app) ==
    /\ app.fnkeys \in Seq(KvArgs) /\ app.outkey \in Optional(KvArgs)
    /\ app.fntype \in FnTypes \cup {"unset"}
    /\ app.magic \in BOOLEAN /\ app.flagsok \in BOOLEAN

LEMMA ExecScreen ==
    ASSUME NEW mode, NEW kb, NEW app, AppArg(app),
           NEW r \in e_exec_aio_generic(mode, app)
    PROVE  Screens("exec", mode, kb, app, r.why, r.wire)
<1>1. Acceptable("exec", mode, kb, app) <=>
          /\ app.magic /\ app.flagsok /\ app.fntype # "unset"
          /\ Len(app.fnkeys) > 0
          /\ \A i \in DOMAIN app.fnkeys : LegalKv(app.fnkeys[i])
          /\ \A i \in DOMAIN app.outkey :
                 LegalKv(app.outkey[i]) /\ HasValue(app.outkey[i])
    BY DEF Acceptable, GetOps, PutOps, DelOps
<1>2. /\ app.fnkeys \in Seq(KvArgs) /\ app.outkey \in Optional(KvArgs)
      /\ app.fntype \in FnTypes \cup {"unset"}
    BY DEF AppArg
<1>3. app.fnkeys # <<>> <=> Len(app.fnkeys) > 0
    BY <1>2, EmptySeq, LenProperties
<1>4. ASSUME NEW i \in DOMAIN app.fnkeys
      PROVE  ki_validate_kv(app.fnkeys[i], FALSE, FALSE, Limits) <=>
                 LegalKv(app.fnkeys[i])
    <2>1. app.fnkeys[i] \in KvArgs
        BY <1>2
    <2> QED
        BY <2>1, KvScreen
<1>5. app.fntype \in FnTypes <=> app.fntype # "unset"
    BY <1>2 DEF FnTypes
<1>6. (app.outkey # <<>> => ki_validate_kv(app.outkey[1], FALSE, TRUE, Limits)) <=>
          \A i \in DOMAIN app.outkey :
              LegalKv(app.outkey[i]) /\ HasValue(app.outkey[i])
    <2>1. CASE app.outkey = <<>>
        BY <2>1
    <2>2. CASE app.outkey # <<>>
        <3>1. /\ app.outkey[1] \in KvArgs /\ Len(app.outkey) = 1
              /\ \A i \in DOMAIN app.outkey : i = 1
            BY <1>2, <2>2, OptionalIs
        <3>2. 1 \in DOMAIN app.outkey
            BY <1>2, <3>1 DEF Optional
        <3>3. ki_validate_kv(app.outkey[1], FALSE, TRUE, Limits) <=>
                  LegalKv(app.outkey[1]) /\ HasValue(app.outkey[1])
            BY <3>1, KvScreen
        <3> QED
            BY <2>2, <3>1, <3>2, <3>3
    <2> QED
        BY <2>1, <2>2
<1>7. ExecAccepts(app) <=> Acceptable("exec", mode, kb, app)
    BY <1>1, <1>3, <1>4, <1>5, <1>6, Zenon DEF ExecAccepts, ki_validate_kapplet
<1>8. CASE r \in CtlBadCall(mode)
    BY <1>8 DEF Screens, CtlBadCall, Refused
<1>9. CASE ~ExecAccepts(app) /\ r = Refused("EINVAL", "invalid", <<"err">>)
    BY <1>7, <1>9 DEF Screens, Refused
<1>10. ASSUME NEW s \in DOMAIN ExecExits,
              r = Aborted(s, Held[s], ExecLadder, ExecExits[s], <<"err">>)
       PROVE  Screens("exec", mode, kb, app, r.why, r.wire)
    <2>1. s \in Stages
        BY <1>10 DEF ExecExits, Stages
    <2>2. r.why = s
        BY <1>10 DEF Aborted, Refused
    <2> QED
        BY <2>1, <2>2 DEF Screens, Stages
<1>11. CASE r = ExecNoKeyTable
    <2>1. r.why = "progkey"
        BY <1>11 DEF ExecNoKeyTable, Refused
    <2> QED
        BY <2>1 DEF Screens
<1>12. CASE /\ ExecAccepts(app)
            /\ r = Sent(SendBufs \ {"req"}, create_exec_message(app))
    BY <1>7, <1>12 DEF Screens, Sent
<1> QED
    BY <1>8, <1>9, <1>10, <1>11, <1>12 DEF e_exec_aio_generic

LEMMA NameLength ==
    ASSUME NEW n \in Nat \cup {Null}
    PROVE  (n # Null /\ n # 0 /\ n <= LogNameMax) <=> n \in 1 .. LogNameMax
BY DEF Null, LogNameMax

LEMMA SentWhy ==
    ASSUME NEW mem, NEW wire
    PROVE  /\ Sent(mem, wire).why = "sent"
           /\ Unsent(mem).why = "unsent" /\ Unsent(mem).wire = NoWire
BY DEF Sent, Unsent

LEMMA LogScreen ==
    ASSUME NEW mode, NEW kb, NEW glog \in LogArgs, NEW r \in ki_getlog(glog)
    PROVE  Screens("getlog", mode, kb, glog, r.why, r.wire)
<1> DEFINE named == \E i \in DOMAIN glog.types : glog.types[i] = "LOG"
<1>1. Acceptable("getlog", mode, kb, glog) <=>
          /\ glog.magic /\ ~glog.results
          /\ Len(glog.types) > 0
          /\ glog.types \in Seq(LogTypes) /\ IsInjective(glog.types)
          /\ glog.name \in IF named THEN 1 .. LogNameMax ELSE {Null}
    BY DEF Acceptable, GetOps, PutOps, DelOps
<1>2. /\ glog.types \in Seq(LogTypes \cup {"bogus"}) /\ glog.name \in Nat \cup {Null}
    BY DEF LogArgs
<1>3. glog.types # <<>> <=> Len(glog.types) > 0
    BY <1>2, EmptySeq, LenProperties
<1>4. (\A i \in DOMAIN glog.types : glog.types[i] \in LogTypes) <=>
          glog.types \in Seq(LogTypes)
    BY <1>2
<1>5. ASSUME \A i \in DOMAIN glog.types : glog.types[i] \in LogTypes
      PROVE  (\A x \in LogTypes : Asked(glog, x) <= 1) <=> IsInjective(glog.types)
    <2>1. (\A x \in LogTypes : Asked(glog, x) <= 1) <=>
              \A x \in LogTypes : \A i, j \in DOMAIN glog.types :
                  glog.types[i] = x /\ glog.types[j] = x => i = j
        BY AskedIs
    <2> QED
        BY <1>5, <2>1, Zenon DEF IsInjective
<1>6. Asked(glog, "LOG") > 0 <=> named
    BY AskedIs
<1> HIDE DEF named
<1>7. (IF Asked(glog, "LOG") > 0
       THEN glog.name # Null /\ glog.name # 0 /\ glog.name <= LogNameMax
       ELSE glog.name = Null) <=>
          glog.name \in IF named THEN 1 .. LogNameMax ELSE {Null}
    <2>0. (glog.name # Null /\ glog.name # 0 /\ glog.name <= LogNameMax) <=>
              glog.name \in 1 .. LogNameMax
        BY <1>2, NameLength
    <2>1. CASE named
        <3>1. Asked(glog, "LOG") > 0
            BY <1>6, <2>1
        <3> QED
            BY <2>0, <2>1, <3>1, Zenon
    <2>2. CASE ~named
        BY <1>2, <1>6, <2>2
    <2> QED
        BY <2>1, <2>2
<1>8. LogAccepts(glog) <=> Acceptable("getlog", mode, kb, glog)
    BY <1>1, <1>3, <1>4, <1>5, <1>7, Zenon DEF LogAccepts, ki_validate_glog
<1>9. CASE r = Refused("EBADSESS", "badktd", <<>>)
    BY <1>9 DEF Screens, Refused
<1>10. CASE ~LogAccepts(glog) /\ r = Refused("EINVAL", "invalid", <<>>)
    BY <1>8, <1>10 DEF Screens, Refused
<1>11. ASSUME NEW s \in DOMAIN LogExits,
              r = Aborted(s, LogHeld[s], LogLadder, LogExits[s], <<>>)
       PROVE  Screens("getlog", mode, kb, glog, r.why, r.wire)
    <2>1. s \in Stages
        BY <1>11 DEF LogExits, Stages
    <2>2. r.why = s
        BY <1>11 DEF Aborted, Refused
    <2> QED
        BY <2>1, <2>2 DEF Screens, Stages
<1>12. CASE /\ LogAccepts(glog)
            /\ r \in {Sent(LogMem, create_getlog_message(glog)), Unsent(LogMem)}
    <2>1. r.why \in {"sent", "unsent"}
        BY <1>12, SentWhy
    <2> QED
        BY <1>8, <1>12, <2>1 DEF Screens
<1> QED
    BY <1>9, <1>10, <1>11, <1>12 DEF ki_getlog

LEMMA RangeScreen ==
    ASSUME NEW mode, NEW kb, NEW kr \in RangeArgs, NEW r \in ki_getrange(kr)
    PROVE  Screens("getrange", mode, kb, kr, r.why, r.wire)
<1>1. Acceptable("getrange", mode, kb, kr) <=>
          /\ kr.magic /\ kr.flagsok
          /\ kr.count \in {KVR_COUNT_INF} \cup 1 .. Limits.rangekeycnt
          /\ \A k \in {kr.start, kr.end} \ {<<>>} : Total(k) \in 1 .. Limits.keylen
    BY DEF Acceptable, GetOps, PutOps, DelOps
<1>2. /\ kr.start \in Seq(Nat) /\ kr.end \in Seq(Nat)
      /\ kr.count \in Nat \cup {KVR_COUNT_INF}
      /\ DOMAIN kr = {"magic", "start", "end", "flagsok", "count"}
    BY DEF RangeArgs
<1>3. Limits.keylen \in Nat /\ Limits.rangekeycnt \in Nat \ {0}
    BY LimitsAssumption
<1>4. Total(kr.start) \in Nat /\ Total(kr.end) \in Nat
    BY <1>2, TotalType
<1>5. \A k \in {kr.start, kr.end} :
          (Total(k) # 0 /\ Total(k) <= Limits.keylen) <=>
              Total(k) \in 1 .. Limits.keylen
    BY <1>3, <1>4
<1>6. (kr.count # KVR_COUNT_INF =>
           kr.count # 0 /\ ~(kr.count > Limits.rangekeycnt)) <=>
          kr.count \in {KVR_COUNT_INF} \cup 1 .. Limits.rangekeycnt
    BY <1>2, <1>3 DEF KVR_COUNT_INF
<1>7. RangeAccepts(kr) <=> Acceptable("getrange", mode, kb, kr)
    BY <1>1, <1>5, <1>6, Zenon DEF RangeAccepts, ki_validate_range
<1>8. CASE r = Refused("EBADSESS", "badktd", <<>>)
    BY <1>8 DEF Screens, Refused
<1>9. CASE ~RangeAccepts(kr) /\ r = Refused("EINVAL", "invalid", <<>>)
    BY <1>7, <1>9 DEF Screens, Refused
<1>10. ASSUME NEW s \in DOMAIN RangeExits,
              r = Aborted(s, LogHeld[s], RangeLadder, RangeExits[s], <<>>)
       PROVE  Screens("getrange", mode, kb, kr, r.why, r.wire)
    <2>1. s \in Stages
        BY <1>10 DEF RangeExits, Stages
    <2>2. r.why = s /\ r.wire = NoWire
        BY <1>10 DEF Aborted, Refused
    <2> QED
        BY <2>1, <2>2 DEF Screens, Stages
<1>11. CASE RangeAccepts(kr) /\ r = Unsent(LogMem)
    <2>1. r.why = "unsent" /\ r.wire = NoWire
        BY <1>11 DEF Unsent, Sent
    <2> QED
        BY <1>7, <1>11, <2>1 DEF Screens
<1>12. ASSUME NEW most, RangeAccepts(kr),
              most = IF kr.count = KVR_COUNT_INF THEN Limits.rangekeycnt
                     ELSE kr.count,
              r = Sent(LogMem, create_rangekey_message([kr EXCEPT !.count = most]))
       PROVE  Screens("getrange", mode, kb, kr, r.why, r.wire)
    <2>1. most \in 1 .. Limits.rangekeycnt
        BY <1>1, <1>3, <1>7, <1>12
    <2>2. [kr EXCEPT !.count = most].count = most
        BY <1>2
    <2>3. r.why = "sent" /\ r.wire.count = most
        BY <1>12, <2>2 DEF Sent, create_rangekey_message
    <2> QED
        BY <1>7, <1>12, <2>1, <2>3 DEF Screens
<1> QED
    BY <1>8, <1>9, <1>10, <1>11, <1>12 DEF ki_getrange

-----------------------------------------------------------------------------
(* Screening: why a call is where it is.                                   *)

ScreenOK(cl) ==
    /\ Screens(cl.op, cl.mode, cl.kb, cl.in, cl.why, cl.wire)
    /\ cl.phase \in Open => cl.why \in {"sent", "unsent"}

ScreenInv == load \in Workloads /\ \A c \in Used : ScreenOK(call[c])

LEMMA SubmitScreen ==
    ASSUME load \in Workloads, NEW t \in Thread, Submit(t)
    PROVE  \E op, mode, kb, in, r :
               /\ op \in AllOps /\ Begin(t, op, mode, kb, in, r) /\ GoodStart(op, r)
               /\ Screens(op, mode, kb, in, r.why, r.wire)
<1>1. /\ load.modes \subseteq {"sync", "aio"}
      /\ load.kv \subseteq KvArgs /\ load.kb \subseteq Optional(KbArgs)
      /\ \A in \in load.get : in.kv \in KvArgs /\ in.alt \in Optional(KvArgs)
      /\ \A app \in load.app : AppArg(app)
      /\ load.log \subseteq LogArgs /\ load.range \subseteq RangeArgs
    BY WorkloadsAssumption DEF AppArg
<1>2. CASE Put(t)
    <2>1. PICK op \in PutOps, mode \in load.modes, kb \in load.kb, in \in load.kv :
              \E r \in p_put_aio_generic(mode, in, kb, PutVerck(op)) :
                  Begin(t, op, mode, kb, in, r)
        BY <1>2 DEF Put, Try
    <2>2. PICK r \in p_put_aio_generic(mode, in, kb, PutVerck(op)) :
              Begin(t, op, mode, kb, in, r)
        BY <2>1
    <2>3. Screens(op, mode, kb, in, r.why, r.wire)
        BY <1>1, PutScreen
    <2> QED
        BY <2>2, <2>3, PutStart DEF AllOps, PutOps
<1>3. CASE Del(t)
    <2>1. PICK op \in DelOps, mode \in load.modes, kb \in load.kb, in \in load.kv :
              \E r \in d_del_aio_generic(mode, in, kb, DelVerck(op)) :
                  Begin(t, op, mode, kb, in, r)
        BY <1>3 DEF Del, Try
    <2>2. PICK r \in d_del_aio_generic(mode, in, kb, DelVerck(op)) :
              Begin(t, op, mode, kb, in, r)
        BY <2>1
    <2>3. Screens(op, mode, kb, in, r.why, r.wire)
        BY <1>1, DelScreen
    <2> QED
        BY <2>2, <2>3, DelStart DEF AllOps, DelOps
<1>4. CASE Get(t)
    <2>1. PICK op \in GetOps, mode \in load.modes, in \in load.get :
              \E r \in g_get_aio_generic(mode, in, GetType(op, mode)) :
                  Begin(t, op, mode, <<>>, in, r)
        BY <1>4 DEF Get, Try
    <2>2. PICK r \in g_get_aio_generic(mode, in, GetType(op, mode)) :
              Begin(t, op, mode, <<>>, in, r)
        BY <2>1
    <2>3. Screens(op, mode, <<>>, in, r.why, r.wire)
        BY <1>1, GetScreen
    <2> QED
        BY <2>2, <2>3, GetStart DEF AllOps, GetOps
<1>5. CASE Noop(t)
    <2>1. PICK mode \in load.modes :
              \E r \in n_noop_aio_generic(mode) : Begin(t, "noop", mode, <<>>, <<>>, r)
        BY <1>5 DEF Noop, Try
    <2>2. PICK r \in n_noop_aio_generic(mode) : Begin(t, "noop", mode, <<>>, <<>>, r)
        BY <2>1
    <2>3. Screens("noop", mode, <<>>, <<>>, r.why, r.wire)
        BY <1>1, NoopScreen
    <2>4. GoodStart("noop", r)
        BY NoopStart
    <2> QED
        BY <2>2, <2>3, <2>4, Zenon DEF AllOps
<1>6. CASE Flush(t)
    <2>1. PICK mode \in load.modes :
              \E r \in f_flush_aio_generic(mode) :
                  Begin(t, "flush", mode, <<>>, <<>>, r)
        BY <1>6 DEF Flush, Try
    <2>2. PICK r \in f_flush_aio_generic(mode) : Begin(t, "flush", mode, <<>>, <<>>, r)
        BY <2>1
    <2>3. Screens("flush", mode, <<>>, <<>>, r.why, r.wire)
        BY <1>1, FlushScreen
    <2>4. GoodStart("flush", r)
        BY FlushStart
    <2> QED
        BY <2>2, <2>3, <2>4, Zenon DEF AllOps
<1>7. CASE Exec(t)
    <2>1. PICK mode \in load.modes, app \in load.app :
              \E r \in e_exec_aio_generic(mode, app) :
                  Begin(t, "exec", mode, <<>>, app, r)
        BY <1>7 DEF Exec, Try
    <2>2. PICK r \in e_exec_aio_generic(mode, app) :
              Begin(t, "exec", mode, <<>>, app, r)
        BY <2>1
    <2>3. Screens("exec", mode, <<>>, app, r.why, r.wire)
        BY <1>1, ExecScreen
    <2>4. GoodStart("exec", r)
        BY ExecStart
    <2> QED
        BY <2>2, <2>3, <2>4, Zenon DEF AllOps
<1>8. CASE Getlog(t)
    <2>1. PICK glog \in load.log :
              \E r \in ki_getlog(glog) : Begin(t, "getlog", "sync", <<>>, glog, r)
        BY <1>8 DEF Getlog, Try
    <2>2. PICK r \in ki_getlog(glog) : Begin(t, "getlog", "sync", <<>>, glog, r)
        BY <2>1
    <2>3. Screens("getlog", "sync", <<>>, glog, r.why, r.wire)
        BY <1>1, LogScreen
    <2>4. GoodStart("getlog", r)
        BY LogStart
    <2> QED
        BY <2>2, <2>3, <2>4, Zenon DEF AllOps
<1>9. CASE Getrange(t)
    <2>1. PICK kr \in load.range :
              \E r \in ki_getrange(kr) : Begin(t, "getrange", "sync", <<>>, kr, r)
        BY <1>9 DEF Getrange, Try
    <2>2. PICK r \in ki_getrange(kr) : Begin(t, "getrange", "sync", <<>>, kr, r)
        BY <2>1
    <2>3. Screens("getrange", "sync", <<>>, kr, r.why, r.wire)
        BY <1>1, RangeScreen
    <2>4. GoodStart("getrange", r)
        BY RangeStart
    <2> QED
        BY <2>2, <2>3, <2>4, Zenon DEF AllOps
<1> QED
    BY <1>2, <1>3, <1>4, <1>5, <1>6, <1>7, <1>8, <1>9 DEF Submit

\* A new call records what it was made with.
LEMMA BeginRecords ==
    ASSUME Inv, NEW t, NEW op, NEW mode, NEW kb, NEW in,
           NEW r, Begin(t, op, mode, kb, in, r)
    PROVE  LET c == Cardinality(Used) + 1
           IN  call'[c].kb = kb /\ call'[c].in = in
<1> DEFINE c == Cardinality(Used) + 1
<1>1. c \in Calls /\ DOMAIN call = Calls
    BY DEF Begin, Inv, CallsOK
<1>2. PICK cl : cl = [NoCall EXCEPT !.op = op, !.mode = mode, !.kb = kb, !.in = in,
              !.phase = r.phase, !.krc = r.krc, !.why = r.why, !.mem = r.mem,
              !.wire = r.wire]
    OBVIOUS
<1>3. call'[c] = cl
    BY <1>1, <1>2 DEF Begin
<1>4. cl.kb = kb /\ cl.in = in
    BY <1>2 DEF NoCall
<1> QED
    BY <1>3, <1>4

\* A call is handed back because it was sent, or because the session is lost.
LEMMA CollectWhy ==
    ASSUME Inv, NEW t \in Thread, Collect(t)
    PROVE  \E c \in Calls : \E out, why, r :
               /\ call[c].phase \in Open /\ why \in {"sent", "lost"}
               /\ Handed(t, c, out, why, r)
<1>1. PICK c \in Calls : Receive(t, c) \/ ReceiveDrained(t, c) \/ ReceiveLost(t, c)
    BY DEF Collect
<1>2. Takes(t, c)
    BY <1>1 DEF Receive, ReceiveDrained, ReceiveLost
<1>3. call[c].phase \in Open
    BY <1>2, TakerAlone
<1>4. CASE Receive(t, c)
    BY <1>3, <1>4, ReceiveDoes
<1>5. CASE ReceiveDrained(t, c)
    BY <1>3, <1>5, DrainedDoes
<1>6. CASE ReceiveLost(t, c)
    BY <1>3, <1>6, LostDoes
<1> QED
    BY <1>1, <1>4, <1>5, <1>6

LEMMA ScreenKept ==
    ASSUME Inv, ScreenInv, load' = load, NEW c \in Calls, OtherCalls(c),
           call'[c].phase # "idle" => ScreenOK(call'[c])
    PROVE  ScreenInv'
<1>1. ASSUME NEW d \in Calls, call'[d].phase # "idle" PROVE ScreenOK(call'[d])
    <2>1. CASE d = c
        BY <1>1, <2>1
    <2>2. CASE d # c
        BY <1>1, <2>2 DEF OtherCalls, ScreenInv, Used
    <2> QED
        BY <2>1, <2>2
<1>2. Used' = {d \in Calls : call'[d].phase # "idle"}
    BY DEF Used, Calls
<1> QED
    BY <1>1, <1>2 DEF ScreenInv

LEMMA ScreenInit == Init => ScreenInv
<1> SUFFICES ASSUME Init PROVE ScreenInv
    OBVIOUS
<1>1. Used = {}
    BY DEF Init, KioInit, Used, NoCall
<1> QED
    BY <1>1 DEF Init, ScreenInv

LEMMA ScreenNext ==
    ASSUME Inv, ScreenInv, [Next]_<<vars, load>>
    PROVE  ScreenInv'
<1>0. load \in Workloads /\ load' = load
    BY DEF ScreenInv, Next
<1>1. UNCHANGED call => ScreenInv'
    BY <1>0 DEF ScreenInv, Used
<1>2. ASSUME NEW t \in Thread, Submit(t) PROVE ScreenInv'
    <2>1. PICK op, mode, kb, in, r :
              /\ op \in AllOps /\ Begin(t, op, mode, kb, in, r) /\ GoodStart(op, r)
              /\ Screens(op, mode, kb, in, r.why, r.wire)
        BY <1>0, <1>2, SubmitScreen
    <2>2. PICK c \in Calls : c = Cardinality(Used) + 1
        BY <2>1 DEF Begin
    <2>3. Made(t, c, op, mode, r)
        BY <2>1, <2>2, BeginDoes
    <2>4. call'[c].kb = kb /\ call'[c].in = in
        BY <2>1, <2>2, BeginRecords
    <2>5. /\ call'[c].op = op /\ call'[c].mode = mode /\ call'[c].why = r.why
          /\ call'[c].wire = r.wire /\ call'[c].phase = r.phase /\ OtherCalls(c)
        BY <2>3 DEF Made
    <2>6. r.phase \in Open => r.why \in {"sent", "unsent"}
        BY <2>1 DEF GoodStart, Open
    <2>7. ScreenOK(call'[c])
        BY SMTT(60), <2>1, <2>4, <2>5, <2>6 DEF ScreenOK
    <2> QED
        BY <1>0, <2>5, <2>7, ScreenKept
<1>3. ASSUME NEW t \in Thread, Waiting(t) PROVE UNCHANGED call
    BY <1>3 DEF Waiting, Poll, PollWoken, TryAgain, CountLoad, CountStore
<1>4. ASSUME NEW t \in Thread, Collect(t) PROVE ScreenInv'
    <2>1. PICK c \in Calls : \E out, why, r :
              /\ call[c].phase \in Open /\ why \in {"sent", "lost"}
              /\ Handed(t, c, out, why, r)
        BY <1>4, CollectWhy
    <2>2. PICK out, why, r :
              /\ call[c].phase \in Open /\ why \in {"sent", "lost"}
              /\ Handed(t, c, out, why, r)
        BY <2>1
    <2>3. /\ call'[c].op = call[c].op /\ call'[c].mode = call[c].mode
          /\ call'[c].kb = call[c].kb /\ call'[c].in = call[c].in
          /\ call'[c].wire = call[c].wire /\ call'[c].why = why
          /\ call'[c].phase = "returned" /\ OtherCalls(c)
        BY <2>2 DEF Handed
    <2>4. ScreenOK(call[c]) /\ call[c].why \in {"sent", "unsent"}
        BY <2>2 DEF ScreenInv, ScreenOK, Used, Open
    <2>5. ScreenOK(call'[c])
        BY <2>2, <2>3, <2>4 DEF ScreenOK, Screens, Open
    <2> QED
        BY <1>0, <2>3, <2>5, ScreenKept
<1>5. ASSUME NEW c \in Calls, Finish(c) PROVE ScreenInv'
    <2>1. PICK out \in Answers(call[c]) : Complete(c, out)
        BY <1>5 DEF Finish
    <2>2. /\ OtherCalls(c) /\ call'[c].phase = "done" /\ call[c].phase = "pending"
          /\ \A x \in Fields \ {"phase", "out", "mem"} : call'[c][x] = call[c][x]
        BY <2>1, CompleteDoes
    <2>3. /\ call'[c].op = call[c].op /\ call'[c].mode = call[c].mode
          /\ call'[c].kb = call[c].kb /\ call'[c].in = call[c].in
          /\ call'[c].wire = call[c].wire /\ call'[c].why = call[c].why
        BY <2>2 DEF Fields
    <2>4. ScreenOK(call[c])
        BY <2>2 DEF ScreenInv, Used
    <2>5. ScreenOK(call'[c])
        BY <2>2, <2>3, <2>4 DEF ScreenOK, Open
    <2> QED
        BY <1>0, <2>2, <2>5, ScreenKept
<1>6. ASSUME NEW c \in Calls, DeviceApply(c) PROVE ScreenInv'
    <2>1. /\ OtherCalls(c)
          /\ \A x \in Fields \ {"applied"} : call'[c][x] = call[c][x]
        BY <1>6, ApplyDoes
    <2>2. /\ call'[c].op = call[c].op /\ call'[c].mode = call[c].mode
          /\ call'[c].kb = call[c].kb /\ call'[c].in = call[c].in
          /\ call'[c].wire = call[c].wire /\ call'[c].why = call[c].why
          /\ call'[c].phase = call[c].phase
        BY <2>1 DEF Fields
    <2>3. call[c].phase # "idle" => ScreenOK(call[c])
        BY DEF ScreenInv, Used
    <2>4. call'[c].phase # "idle" => ScreenOK(call'[c])
        BY <2>2, <2>3 DEF ScreenOK
    <2> QED
        BY <1>0, <2>1, <2>4, ScreenKept
<1>7. SessionLost => UNCHANGED call
    BY DEF SessionLost
<1>8. UNCHANGED <<vars, load>> => UNCHANGED call
    BY DEF vars
<1> QED
    BY <1>1, <1>2, <1>3, <1>4, <1>5, <1>6, <1>7, <1>8 DEF Next

\* validate.c and the message constructors of put.c, get.c, del.c, exec.c,
\* getlog.c and range.c, for every input and every device limit: a request
\* is sent exactly when its arguments respect the limits, an invalid one is
\* refused for being invalid and for nothing else, a checked put or delete
\* is never forced, and the number of keys asked for is one the device can
\* return.
THEOREM OnlyLegalRequests == Spec => []Screened
<1>1. Inv /\ ScreenInv /\ [Next]_<<vars, load>> => ScreenInv'
    BY ScreenNext
<1>2. ScreenInv => Screened
    BY DEF ScreenInv, ScreenOK, Screens, Screened
<1> QED
    BY <1>1, <1>2, ScreenInit, Invariant, PTL DEF Spec
=============================================================================
