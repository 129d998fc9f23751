----------------------------- MODULE MCRequests -----------------------------
(***************************************************************************)
(* An instance of Requests: two threads, two calls, and inputs that each   *)
(* break one of the checks of validate.c, next to legal ones at the limit. *)
(***************************************************************************)
EXTENDS Requests

MCLimits == [keylen |-> 3, vallen |-> 2, verlen |-> 1, disumlen |-> 1,
             rangekeycnt |-> 2]

Kv == [key |-> <<1, 2>>, magic |-> TRUE, val |-> <<2>>, ver |-> Null,
       newver |-> Null, disum |-> Null, ditype |-> "unset",
       cpolicy |-> "unset", metaonly |-> FALSE]

VersionedKv == [Kv EXCEPT !.ver = 1, !.newver = 1, !.disum = 1,
                          !.ditype = "SHA1", !.cpolicy = "WB"]

KvInputs ==
    {Kv, VersionedKv,
     [Kv EXCEPT !.key = <<>>], [Kv EXCEPT !.key = <<2, 2>>],
     [Kv EXCEPT !.magic = FALSE],
     [Kv EXCEPT !.val = <<>>], [Kv EXCEPT !.val = <<1, 2>>],
     [VersionedKv EXCEPT !.ver = 0], [VersionedKv EXCEPT !.newver = 2],
     [VersionedKv EXCEPT !.disum = 2], [VersionedKv EXCEPT !.ditype = "unset"],
     [Kv EXCEPT !.cpolicy = "bogus"]}

GetInputs ==
    {[kv |-> Kv, alt |-> <<>>], [kv |-> Kv, alt |-> <<Kv>>],
     [kv |-> [Kv EXCEPT !.metaonly = TRUE], alt |-> <<Kv>>],
     [kv |-> [Kv EXCEPT !.key = <<2, 2>>], alt |-> <<Kv>>],
     [kv |-> [Kv EXCEPT !.key = <<>>], alt |-> <<>>],
     [kv |-> Kv, alt |-> <<[Kv EXCEPT !.val = <<>>]>>]}

App == [magic |-> TRUE, fnkeys |-> <<Kv>>, fntype |-> "EBPF",
        flagsok |-> TRUE, outkey |-> <<>>]

AppInputs ==
    {App, [App EXCEPT !.outkey = <<Kv>>], [App EXCEPT !.fnkeys = <<>>],
     [App EXCEPT !.fntype = "unset"],
     [App EXCEPT !.fnkeys = <<Kv, [Kv EXCEPT !.key = <<4>>]>>],
     [App EXCEPT !.fnkeys = <<[Kv EXCEPT !.cpolicy = "bogus"]>>],
     [App EXCEPT !.outkey = <<[Kv EXCEPT !.val = <<>>]>>]}

Log == [types |-> <<"LIMITS">>, magic |-> TRUE, name |-> Null,
        results |-> FALSE]

LogInputs ==
    {Log, [Log EXCEPT !.types = <<"LOG", "LIMITS">>, !.name = 1024],
     [Log EXCEPT !.types = <<"LOG">>, !.name = 1025],
     [Log EXCEPT !.types = <<"LIMITS", "LIMITS">>],
     [Log EXCEPT !.types = <<"LIMITS", "bogus">>],
     [Log EXCEPT !.name = 3], [Log EXCEPT !.name = 0], [Log EXCEPT !.results = TRUE]}

Range2 == [magic |-> TRUE, start |-> <<1>>, end |-> <<>>, flagsok |-> TRUE,
           count |-> 2]

RangeInputs ==
    {Range2, [Range2 EXCEPT !.count = KVR_COUNT_INF],
     [Range2 EXCEPT !.count = 0], [Range2 EXCEPT !.count = 3],
     [Range2 EXCEPT !.start = <<0>>], [Range2 EXCEPT !.end = <<2, 2>>]}

BatchInputs ==
    {<<>>, <<[magic |-> TRUE, bid |-> KFIRSTBID]>>,
     <<[magic |-> TRUE, bid |-> KFIRSTBID - 1]>>}
AllFails == {"badktd", "nockio", "invalid", "progkey"} \cup DOMAIN Held

\* One call with every argument and every failure.
Alone(op) ==
    [ops |-> {op}, modes |-> {"sync", "aio"}, calls |-> 1,
     threads |-> {CHOOSE t \in Thread : TRUE},
     fails |-> AllFails, kv |-> KvInputs, kb |-> BatchInputs,
     get |-> GetInputs, app |-> AppInputs, log |-> LogInputs,
     range |-> RangeInputs,
     outs |-> KvAnswers \cup NotReceived \cup {"sent", "value", "nokeys"}]

\* Calls that run side by side.
Together(ops, modes, kbs) ==
    [ops |-> ops, modes |-> modes, calls |-> MaxCalls, threads |-> Thread,
     fails |-> {},
     kv |-> {VersionedKv}, kb |-> kbs, get |-> {[kv |-> Kv, alt |-> <<Kv>>]},
     app |-> {[App EXCEPT !.outkey = <<Kv>>]}, log |-> {Log},
     range |-> {Range2}, outs |-> {"ok", "error", "timedout", "sent"}]

MCWorkloads ==
    {Alone(op) : op \in PutOps \cup DelOps \cup GetOps \cup WaitOps
                           \cup {"noop", "flush", "exec"}}
    \cup {Together({"put"}, {"sync"}, {<<>>}),
          Together({"put"}, {"aio"}, {<<[magic |-> TRUE, bid |-> KFIRSTBID]>>}),
          Together({"get", "del"}, {"sync"}, {<<>>}),
          Together({"exec", "getlog"}, {"sync"}, {<<>>}),
          Together({"noop", "getrange"}, {"sync"}, {<<>>})}
=============================================================================
