-------------------------------- MODULE KvOps --------------------------------
(***************************************************************************)
(* Put, delete and get, in their plain and their version-checked forms:    *)
(* src/src/put.c, del.c and get.c.  For each operation: the calls of the   *)
(* API, the possible results of its submission half, and the result of its *)
(* completion half as a function of how the request came back.             *)
(***************************************************************************)
EXTENDS Kio, Validate

\* The possible answers: "ok"; a status other than success; a success
\* without the expected body; and, for lack of memory, a message or its
\* command that cannot be unpacked.
KvAnswers == {"ok", "error", "nobody", "nomsg", "nocmd"}

BadCall(mode) ==
    {Refused("EBADSESS", "badktd", <<>>)} \cup
    (IF mode = "aio" THEN {Refused("EINVAL", "nockio", <<>>)} ELSE {})

----------------------------------------------------------------------------
(* put.c *)

\* ki_put and ki_cas, and their aio forms: the version check.
PutVerck(op) == op = "cas"

PutAccepts(in, kb, verck) ==
    /\ ki_validate_kv(in, verck, TRUE, Limits)
    /\ kb # <<>> => ki_validate_kb(kb[1], "PUT")

\* Mutant: every put is forced.
create_put_messageForced(in, kb, verck) ==
    [type |-> "PUT", key |-> Total(in.key), val |-> Total(in.val),
     ver |-> in.ver, newver |-> in.newver, force |-> TRUE,
     oneway |-> kb # <<>>]

\* A plain put is forced, a checked one carries the version it expects.
create_put_message(in, kb, verck) ==
    [type |-> "PUT", key |-> Total(in.key), val |-> Total(in.val),
     ver |-> in.ver, newver |-> in.newver, force |-> ~verck,
     oneway |-> kb # <<>>]

PutExits == [kio    |-> Exit("ENOMEM", "return"),
             create |-> Exit("EINTERNAL", "kio"),
             vec    |-> Exit("ENOMEM", "req"),
             pdu    |-> Exit("ENOMEM", "vec"),
             pack   |-> Exit("EINTERNAL", "pdu"),
             batch  |-> Exit("EBATCH", "msg"),
             send   |-> Exit("EINTERNAL", "msg")]

\* Mutant: the exit ladder forgets the request message.
PutLadderShort == <<"msg", "pdu", "vec", "kio">>

PutLadder == <<"msg", "pdu", "vec", "req", "kio">>

p_put_aio_generic(mode, in, kb, verck) ==
    BadCall(mode) \cup
    IF ~PutAccepts(in, kb, verck)
    THEN {Refused("EINVAL", "invalid", <<"err">>)}
    ELSE {Aborted(s, Held[s], PutLadder, PutExits[s], <<"err">>) :
              s \in DOMAIN PutExits \ (IF kb = <<>> THEN {"batch"} ELSE {})}
         \cup {Sent(SendBufs \ {"req"}, create_put_message(in, kb, verck))}

\* Mutant: a status that was never filled in is passed on.
extract_putkeyRaw(out) ==
    [krc |-> CASE out = "ok" -> "OK"
               [] out = "error" -> "ERR"
               [] OTHER -> "INVALID_SC",
     pb  |-> IF out \in {"ok", "error", "nobody"} THEN "given" ELSE "none"]

\* The response command is hung on the kv, also when the put failed.
extract_putkey(out) ==
    [krc |-> CASE out = "ok" -> "OK"
               [] out = "error" -> "ERR"
               [] OTHER -> "EINTERNAL",
     pb  |-> IF out \in {"ok", "error", "nobody"} THEN "given" ELSE "none"]

\* Everything received and everything sent but the caller's values.
PutRelease(mem) == mem \cap (RecvBufs \cup {"pdu", "msg", "vec"})

\* A request that was not received is counted as an error twice.
PutCounts(krc, out, kb) ==
    IF krc = "OK" THEN OkCounts(kb)
    ELSE {IF out \in NotReceived THEN <<"err", "err">> ELSE <<"err">>}

p_put_aio_complete(cl) ==
    LET x == CASE cl.out \in NotReceived ->
                      [krc |-> NotReceivedKrc(cl.out), pb |-> "none"]
               [] cl.out \notin NotReceived /\ cl.kb # <<>> ->
                      [krc |-> "OK", pb |-> "none"]
               [] OTHER -> extract_putkey(cl.out)
    IN  {Settled(x.krc, PutRelease(cl.mem) \cup {"kio"}, "none", x.pb, n) :
             n \in PutCounts(x.krc, cl.out, cl.kb)}

PutPoll == 100

----------------------------------------------------------------------------
(* del.c *)

DelVerck(op) == op = "cad"

\* The batch is checked as for a put.
DelAccepts(in, kb, verck) ==
    /\ ki_validate_kv(in, verck, TRUE, Limits)
    /\ kb # <<>> => ki_validate_kb(kb[1], "PUT")

create_delkey_message(in, kb, verck) ==
    [type |-> "DEL", key |-> Total(in.key), ver |-> in.ver,
     force |-> ~verck, oneway |-> kb # <<>>]

DelExits == [kio    |-> Exit("ENOMEM", "return"),
             create |-> Exit("EINTERNAL", "kio"),
             vec    |-> Exit("ENOMEM", "req"),
             pdu    |-> Exit("ENOMEM", "vec"),
             pack   |-> Exit("EINTERNAL", "pdu"),
             batch  |-> Exit("EBATCH", "msg"),
             send   |-> Exit("EINTERNAL", "msg")]

DelLadder == <<"msg", "pdu", "vec", "req", "kio">>

d_del_aio_generic(mode, in, kb, verck) ==
    BadCall(mode) \cup
    IF ~DelAccepts(in, kb, verck)
    THEN {Refused("EINVAL", "invalid", <<"err">>)}
    ELSE {Aborted(s, Held[s], DelLadder, DelExits[s], <<"err">>) :
              s \in DOMAIN DelExits \ (IF kb = <<>> THEN {"batch"} ELSE {})}
         \cup {Sent(SendBufs \ {"req"}, create_delkey_message(in, kb, verck))}

\* On an error the command is destroyed, and the kv still points to it.
extract_delkey(out) ==
    [krc |-> CASE out = "ok" -> "OK"
               [] out = "error" -> "ERR"
               [] OTHER -> "EINTERNAL",
     pb  |-> CASE out = "ok" -> "given"
               [] out \in {"error", "nobody"} -> "freed"
               [] OTHER -> "none"]

DelRelease(mem) == mem \cap (RecvBufs \cup {"pdu", "msg", "vec"})

\* Mutant: the label for a request not received does not count.
DelCountsOnce(krc, out, kb) ==
    IF krc = "OK" THEN OkCounts(kb) ELSE {<<"err">>}

DelCounts(krc, out, kb) ==
    IF krc = "OK" THEN OkCounts(kb)
    ELSE {IF out \in NotReceived THEN <<"err", "err">> ELSE <<"err">>}

d_del_aio_complete(cl) ==
    LET x == CASE cl.out \in NotReceived ->
                      [krc |-> NotReceivedKrc(cl.out), pb |-> "none"]
               [] cl.out \notin NotReceived /\ cl.kb # <<>> ->
                      [krc |-> "OK", pb |-> "none"]
               [] OTHER -> extract_delkey(cl.out)
    IN  {Settled(x.krc, DelRelease(cl.mem) \cup {"kio"}, "none", x.pb, n) :
             n \in DelCounts(x.krc, cl.out, cl.kb)}

DelPoll == 100

----------------------------------------------------------------------------
(* get.c; getnext stands for getprev too, in.alt is the second kv *)

\* The aio forms of getnext, getprev and getvers ask for a plain get.
GetType(op, mode) ==
    CASE mode = "sync" /\ op = "getnext" -> "GETNEXT"
      [] mode = "sync" /\ op = "getvers" -> "GETVERS"
      [] OTHER -> "GET"

GetAccepts(in, type) ==
    /\ type = "GETNEXT" => in.alt # <<>>
    /\ ki_validate_kv(in.kv, FALSE, TRUE, Limits)
    /\ in.alt # <<>> => ki_validate_kv(in.alt[1], FALSE, TRUE, Limits)

create_getkey_message(in, type) ==
    [type |-> type, key |-> Total(in.kv.key), metaonly |-> in.kv.metaonly]

GetExits == [kio    |-> Exit("ENOMEM", "return"),
             create |-> Exit("ENOMEM", "kio"),
             vec    |-> Exit("ENOMEM", "req"),
             pdu    |-> Exit("ENOMEM", "vec"),
             pack   |-> Exit("EINTERNAL", "pdu"),
             send   |-> Exit("EINTERNAL", "msg")]

GetLadder == <<"msg", "pdu", "vec", "req", "kio">>

g_get_aio_generic(mode, in, type) ==
    BadCall(mode) \cup
    IF ~GetAccepts(in, type)
    THEN {Refused("EINVAL", "invalid", <<"err">>)}
    ELSE {Aborted(s, Held[s], GetLadder, GetExits[s], <<"err">>) :
              s \in DOMAIN GetExits}
         \cup {Sent(SendBufs \ {"req"}, create_getkey_message(in, type))}

extract_getkey(out) ==
    [krc |-> CASE out = "ok" -> "OK"
               [] out = "error" -> "ERR"
               [] OTHER -> "EINTERNAL",
     pb  |-> IF out \in {"ok", "error", "nobody"} THEN "given" ELSE "none"]

\* Mutant: the value is freed with the rest.
GetReleaseAll(cl, krc) ==
    cl.mem \cap (RecvBufs \cup {"pdu", "msg", "vec"})

\* The received value stays with the caller after a successful get; after a
\* get of the version or of the metadata only it is freed.
GetRelease(cl, krc) ==
    cl.mem \cap
    ({"rpdu", "rmsg", "rvec", "pdu", "msg", "vec"} \cup
     (IF krc # "OK" \/ cl.wire.type = "GETVERS" \/ cl.in.kv.metaonly
      THEN {"rval"} ELSE {}))

GetCounts(krc, out) ==
    IF krc = "OK" THEN OkCounts(<<>>)
    ELSE {IF out \in NotReceived THEN <<"err", "err">> ELSE <<"err">>}

\* The caller's kv (the second one for getnext) is pointed at the value
\* before the status of the answer is known.
g_get_aio_complete(cl) ==
    LET x == IF cl.out \in NotReceived
             THEN [krc |-> NotReceivedKrc(cl.out), pb |-> "none"]
             ELSE extract_getkey(cl.out)
        frees == GetRelease(cl, x.krc)
        hung  == /\ cl.out \notin NotReceived \cup {"nomsg"}
                 /\ cl.wire.type # "GETVERS"
        val   == CASE ~hung -> "none"
                   [] hung /\ "rval" \in frees -> "freed"
                   [] OTHER -> "given"
    IN  {Settled(x.krc, frees \cup {"kio"}, val, x.pb, n) :
             n \in GetCounts(x.krc, cl.out)}

\* Mutant: wait without a timeout.
GetPollForever == 0

GetPoll == 100
=============================================================================
