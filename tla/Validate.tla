------------------------------ MODULE Validate ------------------------------
(***************************************************************************)
(* The argument checks of src/src/validate.c, over records that keep of a  *)
(* request's structures the fields the checks read.  A key or a value is   *)
(* the sequence of the lengths of its fragments, <<>> for a null vector; a *)
(* version or a data integrity sum is its length, Null for a null pointer. *)
(* "magic" is whether the structure came from ki_create.                   *)
(***************************************************************************)
EXTENDS Integers, Sequences, FiniteSets, SequencesExt

Null == -1
KFIRSTBID == 1000
KVR_COUNT_INF == -1
LogNameMax == 1024

\* The total length of a fragmented key or value.
Total(frags) ==
    LET sum[i \in 0 .. Len(frags)] ==
            IF i = 0 THEN 0 ELSE sum[i - 1] + frags[i]
    IN  sum[Len(frags)]

DiTypes == {"SHA1", "SHA2", "SHA3", "CRC32C", "CRC64", "CRC32"}
CachePolicies == {"unset", "WT", "WB", "FLUSH"}
FnTypes == {"NATIVE", "LLVMIR", "JAVA", "EBPF"}
LogTypes == {"UTILIZATIONS", "TEMPERATURES", "CAPACITIES", "CONFIGURATION",
             "STATISTICS", "MESSAGES", "LIMITS", "LOG"}

\* What a caller can pass: "unset" and "bogus" stand for the values of an
\* enumeration that it does not define, and a pointer to a structure that
\* may be null is a sequence of at most one.
Optional(S) == {s \in Seq(S) : Len(s) <= 1}
KvArgs == [key : Seq(Nat), magic : BOOLEAN, val : Seq(Nat),
           ver : Nat \cup {Null}, newver : Nat \cup {Null},
           disum : Nat \cup {Null}, ditype : DiTypes \cup {"unset"},
           cpolicy : CachePolicies \cup {"bogus"}, metaonly : BOOLEAN]
KbArgs == [magic : BOOLEAN, bid : Int]
RangeArgs == [magic : BOOLEAN, start : Seq(Nat), end : Seq(Nat),
              flagsok : BOOLEAN, count : Nat \cup {KVR_COUNT_INF}]
LogArgs == [types : Seq(LogTypes \cup {"bogus"}), magic : BOOLEAN,
            name : Nat \cup {Null}, results : BOOLEAN]

ki_validate_kv(kv, verck, valck, lim) ==
    /\ kv.key # <<>>
    /\ kv.magic
    /\ Total(kv.key) <= lim.keylen
    /\ valck => kv.val # <<>> /\ Total(kv.val) <= lim.vallen
    /\ kv.ver = Null \/ ~(kv.ver < 1 \/ kv.ver > lim.verlen)
    /\ kv.newver = Null \/ ~(kv.newver < 1 \/ kv.newver > lim.verlen)
    /\ verck => kv.ver # Null
    /\ kv.disum # Null =>
           /\ kv.disum >= 1 /\ kv.disum <= lim.disumlen
           /\ kv.ditype \in DiTypes
    /\ kv.cpolicy \in CachePolicies

ki_validate_range(kr, lim) ==
    /\ kr.magic
    /\ \A end \in {kr.start, kr.end} :
           end # <<>> => Total(end) # 0 /\ Total(end) <= lim.keylen
    /\ kr.flagsok
    /\ kr.count # KVR_COUNT_INF =>
           kr.count # 0 /\ ~(kr.count > lim.rangekeycnt)

\* A null batch fails too; put and delete then ignore the result.
ki_validate_kb(kb, type) ==
    /\ kb.magic
    /\ \/ type = "STARTBAT"
       \/ /\ type \in {"ENDBAT", "ABORTBAT", "PUT", "DEL"}
          /\ kb.bid >= KFIRSTBID

\* The number of times log type x is asked for.
Asked(glog, x) == Cardinality({i \in DOMAIN glog.types : glog.types[i] = x})

ki_validate_glog(glog) ==
    /\ glog.types # <<>>
    /\ glog.magic
    /\ \A i \in DOMAIN glog.types : glog.types[i] \in LogTypes
    /\ \A x \in LogTypes : Asked(glog, x) <= 1
    /\ IF Asked(glog, "LOG") > 0
       THEN glog.name # Null /\ glog.name # 0 /\ glog.name <= LogNameMax
       ELSE glog.name = Null
    /\ ~glog.results

ki_validate_kapplet(app, lim) ==
    /\ app.magic
    /\ app.fnkeys # <<>>
    /\ \A i \in DOMAIN app.fnkeys :
           ki_validate_kv(app.fnkeys[i], FALSE, FALSE, lim)
    /\ app.fntype \in FnTypes
    /\ app.flagsok
    /\ app.outkey # <<>> => ki_validate_kv(app.outkey[1], FALSE, TRUE, lim)
=============================================================================
