--------------------------------- MODULE Kio ---------------------------------
(***************************************************************************)
(* What the request files of libkinetic (put.c, get.c, del.c, exec.c,      *)
(* noop.c, flush.c, getlog.c, range.c) share: an API call builds a kio     *)
(* piece by piece, hands it to ktli_send, waits with ktli_poll, takes it   *)
(* back with ktli_receive, and then releases every piece.  The transport   *)
(* below is the one module KtliRpc promises.                               *)
(*                                                                         *)
(* The memory of a call is the set of pieces allocated for it:             *)
(*   kio, req (request message), vec, pdu, msg   when it is built          *)
(*   rvec, rpdu, rmsg, rval                      when it is answered       *)
(*   cmd (unpacked response command)             when it is completed      *)
(* Freeing a piece that is not there crashes the process.                  *)
(***************************************************************************)
EXTENDS Integers, Sequences, FiniteSets

CONSTANTS
    Thread,     \* threads that share the session
    MaxCalls,   \* bound on the API calls of a behaviour
    TStat,      \* are time stamp statistics on (KOPF_TSTAT)?
    Limits      \* ks_l, the device limits read when the session was opened

ASSUME KioAssumption ==
    MaxCalls \in Nat /\ TStat \in BOOLEAN /\ IsFiniteSet(Thread)

\* A device returns at least one key of a range.
ASSUME LimitsAssumption ==
    Limits \in [keylen : Nat, vallen : Nat, verlen : Nat, disumlen : Nat,
                rangekeycnt : Nat \ {0}]

VARIABLES
    call,      \* the API calls made so far
    thr,       \* what each thread is doing
    kst,       \* ks_stats: the counters of each family of operations
    up,        \* is the session connected?
    raced,     \* history: has a counter update overwritten another?
    crashed    \* the operation whose memory error ended the process

vars == <<call, thr, kst, up, raced, crashed>>

Calls == 1 .. MaxCalls
SendBufs == {"kio", "req", "vec", "pdu", "msg"}
RecvBufs == {"rvec", "rpdu", "rmsg", "rval"}

NoWire == [type |-> "none"]
NoCall == [op |-> "none", mode |-> "none", kb |-> <<>>, in |-> <<>>,
           phase |-> "idle", out |-> "none", krc |-> "none", why |-> "none",
           mem |-> {}, val |-> "none", pb |-> "none", wire |-> NoWire,
           applied |-> FALSE]
NoThread == [pc |-> "idle", c |-> 0, todo |-> <<>>, reg |-> 0]

Families == {"puts", "gets", "dels", "execs", "noops", "flushs"}
NoCounts == [ok |-> 0, err |-> 0, dropped |-> 0]

KioInit ==
    /\ call = [c \in Calls |-> NoCall]
    /\ thr = [t \in Thread |-> NoThread]
    /\ kst = [f \in Families |-> NoCounts]
    /\ up = TRUE
    /\ raced = FALSE
    /\ crashed = "none"

Used == {c \in Calls : call[c].phase # "idle"}
Running == crashed = "none"

----------------------------------------------------------------------------
(***************************************************************************)
(* Building a request.  It can fail at a stage, the pieces of the earlier  *)
(* stages being Held; the code then jumps to a label of its exit ladder,   *)
(* and the pieces from there on down are freed.                            *)
(***************************************************************************)
Held == [kio    |-> {},
         create |-> {"kio"},
         vec    |-> {"kio", "req"},
         pdu    |-> {"kio", "req", "vec"},
         pack   |-> {"kio", "req", "vec", "pdu"},
         batch  |-> SendBufs,
         send   |-> SendBufs]

Exit(krc, at) == [krc |-> krc, at |-> at]

FreedFrom(ladder, label) ==
    {ladder[i] : i \in {j \in DOMAIN ladder :
                            \E k \in 1 .. j : ladder[k] = label}}

\* The results of an attempt to start a request.
Refused(krc, why, todo) ==
    [phase |-> "returned", krc |-> krc, why |-> why, mem |-> {},
     todo |-> todo, wire |-> NoWire, wild |-> FALSE]

Aborted(stage, held, ladder, exit, todo) ==
    [Refused(exit.krc, stage, todo) EXCEPT
        !.mem = held \ FreedFrom(ladder, exit.at),
        !.wild = ~(FreedFrom(ladder, exit.at) \subseteq held)]

Sent(mem, wire) ==
    [phase |-> "pending", krc |-> "none", why |-> "sent", mem |-> mem,
     todo |-> <<>>, wire |-> wire, wild |-> FALSE]

\* ktli_send has failed and the caller waits for an answer all the same.
Unsent(mem) ==
    [Sent(mem, NoWire) EXCEPT !.phase = "unsent", !.why = "unsent"]

\* The results of completing one: what is freed, what the caller is left
\* with (val, pb: "none", "given" or "freed"), the counters to update, and
\* whether the code touches memory it does not own.
Settled(krc, frees, val, pb, todo) ==
    [krc |-> krc, frees |-> frees, val |-> val, pb |-> pb, todo |-> todo,
     wild |-> FALSE]

\* The statistics of a completed request.  s_stats_addts takes the success
\* back when one of the three intervals is zero or out of range; a request
\* of a batch has no receive time, so it never has a usable sample.
OkCounts(kb) ==
    IF ~TStat THEN {<<"ok">>}
    ELSE {<<"ok", "unok", "dropped">>} \cup
         (IF kb = <<>> THEN {<<"ok">>} ELSE {})

NotReceived == {"timedout", "failed"}
\* Mutant: a request that could not be sent is reported as done.
NotReceivedKrcOk(out) == IF out = "timedout" THEN "ETIMEDOUT" ELSE "OK"

NotReceivedKrc(out) == IF out = "timedout" THEN "ETIMEDOUT" ELSE "ENOMSG"

----------------------------------------------------------------------------
(***************************************************************************)
(* The calls of a thread.                                                  *)
(***************************************************************************)
NextPc(todo, waits) ==
    IF todo # <<>> THEN "count" ELSE IF waits THEN "poll" ELSE "idle"

\* Thread t makes an API call that gets as far as r says.  ktli_send takes
\* requests of a connected session only.
Begin(t, op, mode, kb, in, r) ==
    LET c == Cardinality(Used) + 1
    IN  /\ Running
        /\ thr[t].pc = "idle"
        /\ c \in Calls
        /\ r.phase = "pending" => up
        /\ call' = [call EXCEPT ![c] =
               [NoCall EXCEPT !.op = op, !.mode = mode, !.kb = kb, !.in = in,
                   !.phase = r.phase, !.krc = r.krc, !.why = r.why, !.mem = r.mem,
                   !.wire = r.wire]]
        /\ thr' = [thr EXCEPT ![t] =
               [NoThread EXCEPT !.c = c, !.todo = r.todo,
                   !.pc = NextPc(r.todo, r.phase # "returned" /\ mode = "sync")]]
        /\ crashed' \in (IF r.wild THEN {op, crashed} ELSE {crashed})
        /\ UNCHANGED <<kst, up, raced>>

\* The completion half has decided that call c ends with result r.
End(t, c, out, why, r) ==
    /\ call' = [call EXCEPT ![c].phase = "returned", ![c].krc = r.krc,
                            ![c].out = out, ![c].why = why,
                            ![c].mem = @ \ r.frees,
                            ![c].val = r.val, ![c].pb = r.pb]
    /\ thr' = [thr EXCEPT ![t].pc = NextPc(r.todo, FALSE), ![t].c = c,
                          ![t].todo = r.todo]
    /\ crashed' = IF r.wild \/ ~(r.frees \subseteq call[c].mem)
                  THEN call[c].op ELSE crashed
    /\ UNCHANGED <<kst, up, raced>>

\* Is anything on compq for ktli_poll to report?
CompletionReady == \E c \in Calls : call[c].phase = "done"

\* One round of the wait loop: ktli_poll with a timeout gives up after one
\* interval and is called again, which also finds out that the session is
\* no longer connected.  Without a timeout it looks at the session once, and
\* then waits for a completion whatever becomes of the session.
Poll(t, timeout) ==
    /\ Running
    /\ thr[t].pc = "poll"
    /\ \/ /\ ~up \/ CompletionReady
          /\ thr' = [thr EXCEPT ![t].pc = "collect"]
       \/ /\ timeout = 0 /\ up
          /\ thr' = [thr EXCEPT ![t].pc = "blocked"]
    /\ UNCHANGED <<call, kst, up, raced, crashed>>

PollWoken(t) ==
    /\ Running
    /\ thr[t].pc = "blocked"
    /\ CompletionReady
    /\ thr' = [thr EXCEPT ![t].pc = "collect"]
    /\ UNCHANGED <<call, kst, up, raced, crashed>>

\* One of the kop_ counters: read, modify, write, without a lock.
CountLoad(t, f) ==
    /\ Running
    /\ thr[t].pc = "count"
    /\ LET field == IF Head(thr[t].todo) = "unok" THEN "ok"
                    ELSE Head(thr[t].todo)
       IN  thr' = [thr EXCEPT ![t].pc = "store", ![t].reg = kst[f][field]]
    /\ UNCHANGED <<call, kst, up, raced, crashed>>

CountStore(t, f) ==
    /\ Running
    /\ thr[t].pc = "store"
    /\ LET what  == Head(thr[t].todo)
           field == IF what = "unok" THEN "ok" ELSE what
           rest  == Tail(thr[t].todo)
       IN  /\ kst' = [kst EXCEPT ![f][field] =
                  IF what = "unok" THEN thr[t].reg - 1 ELSE thr[t].reg + 1]
           /\ raced' = (raced \/ kst[f][field] # thr[t].reg)
           /\ thr' = [thr EXCEPT ![t].todo = rest, ![t].reg = 0,
                                 ![t].pc = NextPc(rest, FALSE)]
    /\ UNCHANGED <<call, up, crashed>>

----------------------------------------------------------------------------
(***************************************************************************)
(* The session and the device underneath.                                  *)
(***************************************************************************)
\* The device executes a request; a late one too.
DeviceApply(c) ==
    /\ Running
    /\ call[c].wire.type # "none"
    /\ ~call[c].applied
    /\ call[c].out \in {"none", "sent"} \cup NotReceived
    /\ call' = [call EXCEPT ![c].applied = TRUE]
    /\ UNCHANGED <<thr, kst, up, raced, crashed>>

\* The session completes a request: the receiver has read an answer, or the
\* request has timed out or could not be sent.  An answer always brings a
\* vector, a PDU, a message and a value, the value of length zero included.
Complete(c, out) ==
    /\ Running
    /\ up
    /\ call[c].phase = "pending"
    /\ out \in {"ok", "nobody"} => call[c].applied
    /\ call' = [call EXCEPT ![c].phase = "done", ![c].out = out,
           ![c].mem = IF out \in NotReceived \cup {"sent"} THEN @
                      ELSE @ \cup RecvBufs]
    /\ UNCHANGED <<thr, kst, up, raced, crashed>>

\* Another thread disconnects the session, or the peer closes it.
SessionLost ==
    /\ Running
    /\ up
    /\ up' = FALSE
    /\ UNCHANGED <<call, thr, kst, raced, crashed>>
=============================================================================
