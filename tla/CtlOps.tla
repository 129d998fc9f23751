-------------------------------- MODULE CtlOps -------------------------------
(***************************************************************************)
(* The other requests: noop, flush and the execution of an applet, which   *)
(* are built like put, and getlog and getrange, which send and wait in one *)
(* function (src/src/noop.c, flush.c, exec.c, getlog.c, range.c).          *)
(***************************************************************************)
EXTENDS Kio, Validate

CtlBadCall(mode) ==
    {Refused("EBADSESS", "badktd", <<>>)} \cup
    (IF mode = "aio" THEN {Refused("EINVAL", "nockio", <<>>)} ELSE {})

----------------------------------------------------------------------------
(* noop.c *)

create_noop_message == [type |-> "NOOP"]

NoopExits == [kio    |-> Exit("ENOMEM", "return"),
              create |-> Exit("EINTERNAL", "kio"),
              vec    |-> Exit("ENOMEM", "req"),
              pdu    |-> Exit("ENOMEM", "vec"),
              pack   |-> Exit("EINTERNAL", "pdu"),
              send   |-> Exit("EINTERNAL", "msg")]

NoopLadder == <<"msg", "pdu", "vec", "req", "kio">>

n_noop_aio_generic(mode) ==
    CtlBadCall(mode)
    \cup {Aborted(s, Held[s], NoopLadder, NoopExits[s], <<"err">>) :
              s \in DOMAIN NoopExits}
    \cup {Sent(SendBufs \ {"req"}, create_noop_message)}

\* Only the status counts, there is no body to look for.
extract_noop(out) ==
    CASE out \in {"ok", "nobody"} -> "OK"
      [] out = "error" -> "ERR"
      [] OTHER -> "EINTERNAL"

\* Mutant: the receive buffers are freed without a test.
NoopReleaseBlind(mem) == RecvBufs \cup {"pdu", "msg", "vec"}

NoopRelease(mem) == mem \cap (RecvBufs \cup {"pdu", "msg", "vec"})

NoopCounts(krc, out) ==
    IF krc = "OK" THEN OkCounts(<<>>)
    ELSE {IF out \in NotReceived THEN <<"err", "err">> ELSE <<"err">>}

n_noop_aio_complete(cl) ==
    LET krc == IF cl.out \in NotReceived THEN NotReceivedKrc(cl.out)
               ELSE extract_noop(cl.out)
    IN  {Settled(krc, NoopRelease(cl.mem) \cup {"kio"}, "none", "none", n) :
             n \in NoopCounts(krc, cl.out)}

NoopPoll == 100

----------------------------------------------------------------------------
(* flush.c *)

create_flush_message == [type |-> "FLUSH"]

FlushExits == [kio    |-> Exit("ENOMEM", "return"),
               create |-> Exit("EINTERNAL", "kio"),
               vec    |-> Exit("ENOMEM", "req"),
               pdu    |-> Exit("ENOMEM", "vec"),
               pack   |-> Exit("EINTERNAL", "pdu"),
               send   |-> Exit("EINTERNAL", "msg")]

FlushLadder == <<"msg", "pdu", "vec", "req", "kio">>

f_flush_aio_generic(mode) ==
    CtlBadCall(mode)
    \cup {Aborted(s, Held[s], FlushLadder, FlushExits[s], <<"err">>) :
              s \in DOMAIN FlushExits}
    \cup {Sent(SendBufs \ {"req"}, create_flush_message)}

extract_flush(out) ==
    CASE out \in {"ok", "nobody"} -> "OK"
      [] out = "error" -> "ERR"
      [] OTHER -> "EINTERNAL"

FlushRelease(mem) == mem \cap (RecvBufs \cup {"pdu", "msg", "vec"})

FlushCounts(krc, out) ==
    IF krc = "OK" THEN OkCounts(<<>>)
    ELSE {IF out \in NotReceived THEN <<"err", "err">> ELSE <<"err">>}

f_flush_aio_complete(cl) ==
    LET krc == IF cl.out \in NotReceived THEN NotReceivedKrc(cl.out)
               ELSE extract_flush(cl.out)
    IN  {Settled(krc, FlushRelease(cl.mem) \cup {"kio"}, "none", "none", n) :
             n \in FlushCounts(krc, cl.out)}

FlushPoll == 100

----------------------------------------------------------------------------
(* exec.c *)

ExecAccepts(app) == ki_validate_kapplet(app, Limits)

create_exec_message(app) ==
    [type |-> "APPLET", fnkeys |-> Len(app.fnkeys),
     valueback |-> app.outkey # <<>>]

\* When the table of function keys cannot be allocated, the exit path of
\* create_exec_message goes through that table.
ExecNoKeyTable ==
    [Refused("EINTERNAL", "progkey", <<"err">>) EXCEPT !.wild = TRUE]

ExecExits == [kio    |-> Exit("ENOMEM", "return"),
              create |-> Exit("EINTERNAL", "kio"),
              vec    |-> Exit("ENOMEM", "req"),
              pdu    |-> Exit("ENOMEM", "vec"),
              pack   |-> Exit("EINTERNAL", "pdu"),
              send   |-> Exit("EINTERNAL", "msg")]

ExecLadder == <<"msg", "pdu", "vec", "req", "kio">>

e_exec_aio_generic(mode, app) ==
    CtlBadCall(mode) \cup
    IF ~ExecAccepts(app) THEN {Refused("EINVAL", "invalid", <<"err">>)}
    ELSE {Aborted(s, Held[s], ExecLadder, ExecExits[s], <<"err">>) :
              s \in DOMAIN ExecExits}
         \cup {ExecNoKeyTable}
         \cup {Sent(SendBufs \ {"req"}, create_exec_message(app))}

\* Status code, status message and a detailed message of the right form are
\* all required.  The unpacked command is never freed.
extract_exec_response(out) ==
    [krc |-> CASE out = "ok" -> "OK"
               [] out = "error" -> "ERR"
               [] OTHER -> "EINTERNAL",
     pb  |-> IF out \in {"ok", "error", "nobody"} THEN "leaked" ELSE "none"]

\* The value is kept whenever the applet succeeded, wanted or not.
ExecRelease(mem, krc) ==
    mem \cap ({"rpdu", "rmsg", "rvec", "pdu", "msg", "vec"} \cup
              (IF krc # "OK" THEN {"rval"} ELSE {}))

ExecCounts(krc, out) ==
    IF krc = "OK" THEN OkCounts(<<>>)
    ELSE {IF out \in NotReceived THEN <<"err", "err">> ELSE <<"err">>}

e_exec_aio_complete(cl) ==
    LET x == IF cl.out \in NotReceived
             THEN [krc |-> NotReceivedKrc(cl.out), pb |-> "none"]
             ELSE extract_exec_response(cl.out)
        frees == ExecRelease(cl.mem, x.krc)
        hung  == /\ cl.in.outkey # <<>>
                 /\ cl.out \notin NotReceived \cup {"nomsg"}
        val   == CASE ~hung -> "none"
                   [] hung /\ "rval" \in frees -> "freed"
                   [] OTHER -> "given"
    IN  {Settled(x.krc, frees \cup {"kio"}, val, x.pb, n) :
             n \in ExecCounts(x.krc, cl.out)}

ExecPoll == 100

----------------------------------------------------------------------------
(* getlog.c: the PDU is on the stack, there are no statistics *)

LogAccepts(glog) == ki_validate_glog(glog)

create_getlog_message(glog) ==
    [type |-> "GETLOG", types |-> {glog.types[i] : i \in DOMAIN glog.types}]

LogMem == {"kio", "req", "vec", "msg"}
LogHeld == [kio |-> {}, create |-> {"kio"}, vec |-> {"kio", "req"},
            pack |-> {"kio", "req", "vec"}]

\* A failed pack leaves through the label that frees the message it has not
\* made: a field of a vector malloc has not cleared.
LogExits == [kio    |-> Exit("ENOMEM", "return"),
             create |-> Exit("EINTERNAL", "kio"),
             vec    |-> Exit("ENOMEM", "req"),
             pack   |-> Exit("EINTERNAL", "msg")]

LogLadder == <<"msg", "vec", "req", "kio">>

\* The result of ktli_send is not looked at.
ki_getlog(glog) ==
    {Refused("EBADSESS", "badktd", <<>>)} \cup
    IF ~LogAccepts(glog) THEN {Refused("EINVAL", "invalid", <<>>)}
    ELSE {Aborted(s, LogHeld[s], LogLadder, LogExits[s], <<>>) :
              s \in DOMAIN LogExits}
         \cup {Sent(LogMem, create_getlog_message(glog)), Unsent(LogMem)}

\* An answer that is not a success destroys the same command twice, or
\* calls a function pointer that was never set.
extract_getlog(out) ==
    [krc  |-> CASE out = "ok" -> "OK"
                [] out = "error" -> "ERR"
                [] OTHER -> "EINTERNAL",
     pb   |-> IF out = "ok" THEN "given" ELSE "none",
     wild |-> out \in {"error", "nobody", "nocmd"}]

\* All exits but the one taken when ktli_receive fails free the received
\* vector without asking whether there is one, and never the value.
LogSettle(cl) ==
    LET x == IF cl.out \in NotReceived
             THEN [krc |-> NotReceivedKrc(cl.out), pb |-> "none",
                   wild |-> FALSE]
             ELSE extract_getlog(cl.out)
    IN  {[Settled(x.krc, LogMem \cup {"rpdu", "rmsg", "rvec"}, "none", x.pb,
                  <<>>) EXCEPT !.wild = x.wild]}

LogGivesUp == Settled("EINTERNAL", LogMem, "none", "none", <<>>)

LogPoll == 0

----------------------------------------------------------------------------
(* range.c *)

RangeAccepts(kr) == ki_validate_range(kr, Limits)

create_rangekey_message(kr) ==
    [type |-> "GETRANGE", start |-> Total(kr.start), end |-> Total(kr.end),
     count |-> kr.count]

RangeExits == [kio    |-> Exit("ENOMEM", "return"),
               create |-> Exit("EINTERNAL", "kio"),
               vec    |-> Exit("ENOMEM", "req"),
               pack   |-> Exit("EINTERNAL", "msg")]

RangeLadder == <<"msg", "vec", "req", "kio">>

\* An unlimited count becomes the most the device returns.
ki_getrange(kr) ==
    LET most == IF kr.count = KVR_COUNT_INF THEN Limits.rangekeycnt
                ELSE kr.count
    IN  {Refused("EBADSESS", "badktd", <<>>)} \cup
        IF ~RangeAccepts(kr) THEN {Refused("EINVAL", "invalid", <<>>)}
        ELSE {Aborted(s, LogHeld[s], RangeLadder, RangeExits[s], <<>>) :
                  s \in DOMAIN RangeExits}
             \cup {Sent(LogMem,
                        create_rangekey_message([kr EXCEPT !.count = most])),
                   Unsent(LogMem)}

\* "nokeys": the table of keys cannot be allocated.
extract_keyrange(out) ==
    [krc |-> CASE out = "ok" -> "OK"
               [] out = "error" -> "ERR"
               [] out = "nokeys" -> "ENOMEM"
               [] OTHER -> "EINTERNAL",
     pb  |-> IF out \in {"ok", "error", "nobody", "nokeys"} THEN "given"
             ELSE "none"]

RangeSettle(cl) ==
    LET x == IF cl.out \in NotReceived
             THEN [krc |-> NotReceivedKrc(cl.out), pb |-> "none"]
             ELSE extract_keyrange(cl.out)
    IN  {Settled(x.krc, LogMem \cup {"rpdu", "rmsg", "rvec"}, "none", x.pb,
                 <<>>)}

RangeGivesUp == Settled("EINTERNAL", LogMem, "none", "none", <<>>)

RangePoll == 0
=============================================================================
