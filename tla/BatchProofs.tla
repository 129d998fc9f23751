---------------------------- MODULE BatchProofs ----------------------------
(***************************************************************************)
(* Theorems about batches (module Batch), for every finite set of threads  *)
(* and batches, every limit of the device and every number of retries.     *)
(***************************************************************************)
EXTENDS Batch, TLAPS, FiniteSetTheorems

(***************************************************************************)
(* The hypothesis of the theorems: fewer calls are made than there are     *)
(* batch ids, so that the 32-bit counters do not wrap around.              *)
(***************************************************************************)
NoWrap == KFIRSTBID + MaxCalls < Modulus

-----------------------------------------------------------------------------
(* The inductive invariant.                                                *)

\* Thread t is inside b_startbatch for batch b.
Starter(t, b) == thr[t].b = b /\ thr[t].type = "START"

\* Which calls a thread can be in at which place of the code.
PcOK ==
    \A t \in Thread :
        /\ thr[t].pc # "idle" => thr[t].b \in Batch
        /\ thr[t].pc = "idle" => thr[t].b = "none" /\ thr[t].type = "none"
        /\ thr[t].pc \in {"bid", "bats", "limit", "undo"} => thr[t].type = "START"
        /\ thr[t].pc \in {"build", "wait"} => thr[t].type \in BatchTypes
        /\ thr[t].pc = "dec" => thr[t].type \in {"END", "ABORT"}
        /\ thr[t].pc \in {"count", "check", "opsend"} =>
               thr[t].type \in {"PUT", "DEL"}
        /\ thr[t].pc \notin {"wait", "dec"} => thr[t].resp = "none"

\* A thread that has come past b_atom_inc works on a batch that has an id.
IdsOK ==
    \A t \in Thread :
        /\ thr[t].pc = "bid" => thr[t].v \in KFIRSTBID .. ks_bid
        /\ thr[t].pc \notin {"idle", "bid"} => kb[thr[t].b].bid # 0

\* Every id given out was asked for by a call.
IdsBounded ==
    ks_bid + Cardinality({t \in Thread : thr[t].pc = "bid"})
        <= KFIRSTBID + calls

TypeInv == TypeOK /\ PcOK /\ IdsOK /\ IdsBounded

\* As long as no call has used up its retries every id in use is below
\* ks_bid.
IdsFresh ==
    ~exhausted =>
        /\ \A b \in Batch : kb[b].bid # 0 => kb[b].bid < ks_bid
        /\ \A m \in net : m.bid < ks_bid
        /\ \A x \in active : x < ks_bid

\* The life of a batch: one thread starts it, and the other calls come when
\* that thread has returned.
StagesOK ==
    /\ \A t \in Thread, b \in Batch :
           Starter(t, b) => /\ kb[b].start = "starting"
                            /\ thr[t].pc = "bid" => kb[b].bid = 0
    /\ \A t, u \in Thread, b \in Batch :
           Starter(t, b) /\ Starter(u, b) => t = u
    /\ \A t \in Thread :
           thr[t].type \in {"END", "ABORT", "PUT", "DEL"} =>
               kb[thr[t].b].start \in Created
    /\ \A b \in Batch :
           /\ kb[b].start = "none" => kb[b].bid = 0
           /\ kb[b].start \in {"none", "starting"} =>
                  /\ kb[b].end = "none"
                  /\ kb[b].sent = 0 /\ kb[b].sentdels = 0
                  /\ kb[b].sentbytes = 0

\* Every batch that was started was asked for by a call.
StartsBounded ==
    Cardinality({b \in Batch : kb[b].start # "none"}) <= calls

(***************************************************************************)
(* What entitles a caller to take batch b off the count wanders: from the  *)
(* start request on its way to the open batch on the device, to the one    *)
(* thread that is told that its end or abort has succeeded, to the batch   *)
(* that is marked as ended.                                                *)
(***************************************************************************)
Starting(b) == \E m \in net : m.type = "START" /\ m.bid = kb[b].bid
Open(b) == kb[b].bid \in active
Ending(t, b) ==
    /\ thr[t].b = b /\ thr[t].type \in {"END", "ABORT"}
    /\ thr[t].pc = "dec" \/ (thr[t].pc = "wait" /\ thr[t].resp = "OK")
Ended(b) == kb[b].end = "ok"

\* It is in one place at a time.
OnePlace ==
    /\ \A m, n \in net :
           m.type = "START" /\ n.type = "START" /\ m.bid = n.bid => m = n
    /\ \A b \in Batch :
           /\ Starting(b) => ~Open(b) /\ ~Ended(b)
           /\ Open(b) => ~Ended(b)
           /\ \A t \in Thread :
                  Ending(t, b) => ~Starting(b) /\ ~Open(b) /\ ~Ended(b)
           /\ \A t, u \in Thread : Ending(t, b) /\ Ending(u, b) => t = u

\* Only a batch whose start request was sent has it.
Entitled(b) ==
    Starting(b) \/ Open(b) \/ Ended(b) \/ \E t \in Thread : Ending(t, b)
Sent(b) ==
    \/ kb[b].start \in Created \ {"refused"}
    \/ \E t \in Thread : Starter(t, b) /\ thr[t].pc = "wait"

SentFirst == \A b \in Batch : Entitled(b) => Sent(b)

\* The ids the device knows or will hear of are ids of batches.
Known ==
    /\ \A m \in net : \E b \in Batch : kb[b].bid = m.bid
    /\ \A x \in active : \E b \in Batch : kb[b].bid = x

TokenOK == ~exhausted => OnePlace /\ SentFirst /\ Known

Holders == {b \in Batch : HoldsSlot(b)}

\* A batch that is counted but will be taken off again unsent.
Doomed(b) ==
    \E t \in Thread :
        /\ Starter(t, b)
        /\ thr[t].pc = "undo" \/ (thr[t].pc = "limit" /\ Over(thr[t].v, DevBats))

Admitted == {b \in Batch : HoldsSlot(b) /\ ~Doomed(b)}

AdmittedBounded ==
    ~exhausted /\ DevBats > 0 => Cardinality(Admitted) <= DevBats + 1

\* The threads with an operation of a kind on a batch, at a place.
OpsAt(b, pc, type) ==
    {t \in Thread : thr[t].b = b /\ thr[t].pc = pc /\ thr[t].type = type}
Num(b, pc, type) == Cardinality(OpsAt(b, pc, type))

\* The counts of a batch cover what was sent and what is still on its way to
\* the test or past it ...
Counted(b) ==
    /\ kb[b].sent + Num(b, "opsend", "PUT") + Num(b, "opsend", "DEL")
           + Num(b, "check", "PUT") + Num(b, "check", "DEL") <= kb[b].ops
    /\ kb[b].sentdels + Num(b, "opsend", "DEL") + Num(b, "check", "DEL")
           <= kb[b].dels
    /\ kb[b].sentbytes + 2 * Num(b, "opsend", "PUT") + Num(b, "opsend", "DEL")
           + 2 * Num(b, "check", "PUT") + Num(b, "check", "DEL") <= kb[b].bytes

\* ... and what was sent or has passed the test is within the limits.
Passed(b) ==
    /\ ~Over(kb[b].sent + Num(b, "opsend", "PUT") + Num(b, "opsend", "DEL"),
             BatOps)
    /\ ~Over(kb[b].sentdels + Num(b, "opsend", "DEL"), BatDels)
    /\ ~Over(kb[b].sentbytes + 2 * Num(b, "opsend", "PUT")
                 + Num(b, "opsend", "DEL"), BatLen)

OpsOK == \A b \in Batch : Counted(b) /\ Passed(b)

-----------------------------------------------------------------------------
(* The operators.                                                          *)

\* The unsigned counters stay in their range ...
LEMMA ModRange ==
    ASSUME NEW x \in Int PROVE x % Modulus \in 0 .. Modulus - 1
BY BatchAssumption DEF KFIRSTBID

\* ... and are exact as long as they do not leave it.
LEMMA ModExact ==
    ASSUME NEW x \in 0 .. Modulus - 1 PROVE x % Modulus = x
BY BatchAssumption DEF KFIRSTBID

-----------------------------------------------------------------------------
(* Types.                                                                  *)

LEMMA TypeInit == Init => TypeInv
<1> SUFFICES ASSUME Init PROVE TypeInv
    OBVIOUS
<1>1. NoKb \in KbType
    BY DEF NoKb, KbType
<1>2. Idle \in ThrType
    BY BatchAssumption DEF Idle, ThrType, PCs, KFIRSTBID
<1>3. {t \in Thread : thr[t].pc = "bid"} = {}
    BY DEF Init, Idle
<1>4. TypeOK
    <2>1. exhausted \in BOOLEAN
        BY Zenon DEF Init
    <2>2. kb \in [Batch -> KbType] /\ thr \in [Thread -> ThrType]
        BY <1>1, <1>2 DEF Init
    <2> QED
        BY <2>1, <2>2, BatchAssumption DEF Init, TypeOK, NoKb, KFIRSTBID
<1> QED
    BY <1>3, <1>4, FS_EmptySet DEF Init, TypeInv, PcOK, IdsOK, IdsBounded, Idle,
       KFIRSTBID

\* The counting in IdsBounded: no thread has come to the first b_atom_inc.
LEMMA SameBidders ==
    ASSUME TypeInv, ks_bid' = ks_bid, calls' \in Int, calls' >= calls,
           \A t \in Thread : thr'[t].pc = "bid" => thr[t].pc = "bid"
    PROVE  IdsBounded'
<1> DEFINE S == {t \in Thread : thr[t].pc = "bid"}
<1>1. IsFiniteSet(S) /\ S' \subseteq S
    BY BatchAssumption, FS_Subset
<1>2. Cardinality(S') <= Cardinality(S) /\ Cardinality(S) \in Nat
      /\ Cardinality(S') \in Nat
    BY <1>1, FS_Subset, FS_CardinalityType
<1> HIDE DEF S
<1>3. ks_bid + Cardinality(S) <= KFIRSTBID + calls /\ calls \in Int /\ ks_bid \in Int
    BY DEF TypeInv, TypeOK, IdsBounded, S, KFIRSTBID
<1>4. ks_bid' + Cardinality(S') <= KFIRSTBID + calls'
    BY <1>2, <1>3 DEF KFIRSTBID
<1> QED
    BY <1>4 DEF IdsBounded, S

LEMMA IdleType == Idle \in ThrType
BY BatchAssumption DEF Idle, ThrType, PCs, KFIRSTBID

-----------------------------------------------------------------------------
(* What the steps of a thread do, without EXCEPT.                          *)

\* Step of thread t: no other thread and no other batch is touched.
Alone(t) ==
    /\ thr[t].pc # "idle" /\ thr[t].b \in Batch
    /\ \A u \in Thread : u # t => thr'[u] = thr[u]
    /\ \A a \in Batch : a # thr[t].b => kb'[a] = kb[a]
    /\ UNCHANGED <<active, calls>>

\* Thread t goes on at pc with the same request.
GoesTo(t, pc) ==
    /\ thr'[t].pc = pc /\ thr'[t].b = thr[t].b /\ thr'[t].type = thr[t].type
    /\ thr'[t].resp = thr[t].resp

SameLife(b) ==
    kb'[b].bid = kb[b].bid /\ kb'[b].start = kb[b].start /\ kb'[b].end = kb[b].end

SameCounts(b) ==
    /\ kb'[b].ops = kb[b].ops /\ kb'[b].dels = kb[b].dels
    /\ kb'[b].bytes = kb[b].bytes /\ kb'[b].sent = kb[b].sent
    /\ kb'[b].sentdels = kb[b].sentdels /\ kb'[b].sentbytes = kb[b].sentbytes

\* A thread changes only its own batch.
LEMMA StepAlone ==
    ASSUME TypeInv, NEW t \in Thread, Step(t)
    PROVE  Alone(t)
<1> USE DEF TypeInv, TypeOK, At, Goto, Set, Return, AtomLoad, b_atom_inc, Alone
<1>0. thr[t].pc # "idle" => thr[t].b \in Batch
    BY DEF PcOK
<1>1. CASE TakeBid(t)
    BY <1>0, <1>1 DEF TakeBid
<1>2. CASE CountBatch(t)
    BY <1>0, <1>2 DEF CountBatch
<1>3. CASE CheckLimit(t)
    BY <1>0, <1>3 DEF CheckLimit
<1>4. CASE SendBatch(t)
    BY <1>0, <1>4 DEF SendBatch
<1>5. CASE BuildFails(t)
    BY <1>0, <1>5 DEF BuildFails
<1>6. CASE UndoCount(t)
    BY <1>0, <1>6 DEF UndoCount
<1>7. CASE CompleteBatch(t)
    BY <1>0, <1>7 DEF CompleteBatch, Outcome
<1>8. CASE LoseBatch(t)
    BY <1>0, <1>8 DEF LoseBatch, Outcome
<1>9. CASE UncountBatch(t)
    BY <1>0, <1>9 DEF UncountBatch
<1>10. CASE CountOp(t)
    BY <1>0, <1>10 DEF CountOp
<1>11. CASE CheckOp(t)
    BY <1>0, <1>11 DEF CheckOp
<1>12. CASE SendOp(t)
    BY <1>0, <1>12 DEF SendOp
<1> QED
    BY <1>1, <1>2, <1>3, <1>4, <1>5, <1>6, <1>7, <1>8, <1>9, <1>10, <1>11, <1>12
       DEF Step

\* b_atom_inc on ks_bid.
LEMMA TakeBidDoes ==
    ASSUME TypeInv, NEW t \in Thread, TakeBid(t)
    PROVE  LET b == thr[t].b IN
           /\ thr[t].pc = "bid"
           /\ SameCounts(b) /\ kb'[b].end = kb[b].end
           /\ UNCHANGED <<ks_bats, net>>
           /\ exhausted => exhausted'
           /\ \/ GoesTo(t, "bats") /\ kb'[b].start = kb[b].start
              \/ thr'[t] = Idle /\ kb'[b].start = "refused" /\ exhausted'
              \/ GoesTo(t, "bid") /\ UNCHANGED <<kb, ks_bid>>
           /\ ~exhausted' =>
                  \/ /\ GoesTo(t, "bats")
                     /\ kb'[b].bid = ks_bid /\ ks_bid' = (ks_bid + 1) % Modulus
                  \/ GoesTo(t, "bid") /\ UNCHANGED <<kb, ks_bid>>
<1>1. thr[t] \in ThrType /\ thr[t].b \in Batch /\ kb[thr[t].b] \in KbType
      /\ kb \in [Batch -> KbType] /\ thr \in [Thread -> ThrType]
    BY DEF TypeInv, TypeOK, PcOK, TakeBid, At
<1>0. thr[t].v = ks_bid => (exhausted \/ thr[t].tries = 0 => exhausted')
    BY Zenon DEF TakeBid, b_atom_inc
<1>2. CASE thr[t].v = ks_bid /\ thr[t].tries # 0
    <2>1. /\ kb' = [kb EXCEPT ![thr[t].b].bid = thr[t].v]
          /\ thr' = [thr EXCEPT ![t].pc = "bats", ![t].v = ks_bats,
                                ![t].tries = Retries]
          /\ ks_bid' = (ks_bid + 1) % Modulus
          /\ thr[t].pc = "bid" /\ UNCHANGED <<ks_bats, net>>
        BY <1>2, Zenon DEF TakeBid, At, b_atom_inc, AtomLoad, Goto, Set, Return
    <2>2. SameCounts(thr[t].b) /\ kb'[thr[t].b].end = kb[thr[t].b].end
        BY <1>1, <2>1 DEF SameCounts, ThrType, KbType
    <2>3. GoesTo(t, "bats")
        BY <1>1, <2>1 DEF GoesTo, ThrType, KbType
    <2>4. kb'[thr[t].b].start = kb[thr[t].b].start /\ kb'[thr[t].b].bid = thr[t].v
        BY <1>1, <2>1 DEF KbType
    <2> QED
        BY <1>0, <1>2, <2>1, <2>2, <2>3, <2>4
<1>3. CASE thr[t].v = ks_bid /\ thr[t].tries = 0
    <2>1. /\ kb' = [kb EXCEPT ![thr[t].b].bid = thr[t].v,
                              ![thr[t].b].start = "refused"]
          /\ thr' = [thr EXCEPT ![t] = Idle]
          /\ ks_bid' = (ks_bid + 1) % Modulus
          /\ thr[t].pc = "bid" /\ UNCHANGED <<ks_bats, net>>
        BY <1>3, Zenon DEF TakeBid, At, b_atom_inc, AtomLoad, Goto, Set, Return
    <2> QED
        BY <1>0, <1>1, <1>3, <2>1 DEF GoesTo, SameCounts, ThrType, KbType
<1>4. CASE thr[t].v # ks_bid /\ thr[t].tries = 0
    BY <1>1, <1>4
       DEF TakeBid, At, b_atom_inc, AtomLoad, Goto, Set, Return, GoesTo,
           SameLife, SameCounts, ThrType, KbType
<1>5. CASE thr[t].v # ks_bid /\ thr[t].tries # 0
    BY <1>1, <1>5
       DEF TakeBid, At, b_atom_inc, AtomLoad, Goto, Set, Return, GoesTo,
           SameLife, SameCounts, ThrType, KbType
<1> QED
    BY <1>2, <1>3, <1>4, <1>5

\* b_atom_inc on ks_bats.
LEMMA CountBatchDoes ==
    ASSUME TypeInv, NEW t \in Thread, CountBatch(t)
    PROVE  LET b == thr[t].b IN
           /\ thr[t].pc = "bats"
           /\ SameCounts(b) /\ kb'[b].end = kb[b].end /\ kb'[b].bid = kb[b].bid
           /\ UNCHANGED <<ks_bid, net>>
           /\ exhausted => exhausted'
           /\ \/ GoesTo(t, "limit") /\ kb'[b].start = kb[b].start
              \/ thr'[t] = Idle /\ kb'[b].start = "refused" /\ exhausted'
              \/ GoesTo(t, "bats") /\ UNCHANGED <<kb, ks_bats>>
           /\ ~exhausted' =>
                  \/ /\ GoesTo(t, "limit") /\ thr'[t].v = ks_bats
                     /\ UNCHANGED kb /\ ks_bats' = (ks_bats + 1) % Modulus
                  \/ GoesTo(t, "bats") /\ UNCHANGED <<kb, ks_bats>>
<1>1. thr[t] \in ThrType /\ thr[t].b \in Batch /\ kb[thr[t].b] \in KbType
      /\ kb \in [Batch -> KbType] /\ thr \in [Thread -> ThrType]
    BY DEF TypeInv, TypeOK, PcOK, CountBatch, At
<1>0. thr[t].v = ks_bats => (exhausted \/ thr[t].tries = 0 => exhausted')
    BY Zenon DEF CountBatch, b_atom_inc
<1>2. CASE thr[t].v = ks_bats /\ thr[t].tries # 0
    <2>1. /\ kb' = kb /\ thr' = [thr EXCEPT ![t]["pc"] = "limit"]
          /\ ks_bats' = (ks_bats + 1) % Modulus
          /\ thr[t].pc = "bats" /\ UNCHANGED <<ks_bid, net>>
        BY <1>2, Zenon DEF CountBatch, At, b_atom_inc, AtomLoad, Goto, Set, Return
    <2> QED
        BY <1>0, <1>1, <1>2, <2>1 DEF GoesTo, SameCounts, ThrType, KbType
<1>3. CASE thr[t].v = ks_bats /\ thr[t].tries = 0
    <2>1. /\ kb' = [kb EXCEPT ![thr[t].b].start = "refused"]
          /\ thr' = [thr EXCEPT ![t] = Idle]
          /\ ks_bats' = (ks_bats + 1) % Modulus
          /\ thr[t].pc = "bats" /\ UNCHANGED <<ks_bid, net>>
        BY <1>3, Zenon DEF CountBatch, At, b_atom_inc, AtomLoad, Goto, Set, Return
    <2> QED
        BY <1>0, <1>1, <1>3, <2>1 DEF GoesTo, SameCounts, ThrType, KbType
<1>4. CASE thr[t].v # ks_bats /\ thr[t].tries = 0
    BY <1>1, <1>4
       DEF CountBatch, At, b_atom_inc, AtomLoad, Goto, Set, Return, GoesTo,
           SameLife, SameCounts, ThrType, KbType
<1>5. CASE thr[t].v # ks_bats /\ thr[t].tries # 0
    BY <1>1, <1>5
       DEF CountBatch, At, b_atom_inc, AtomLoad, Goto, Set, Return, GoesTo,
           SameLife, SameCounts, ThrType, KbType
<1> QED
    BY <1>2, <1>3, <1>4, <1>5

\* The test of the limit.
LEMMA CheckLimitDoes ==
    ASSUME TypeInv, NEW t \in Thread, CheckLimit(t)
    PROVE  LET b == thr[t].b IN
           /\ thr[t].pc = "limit"
           /\ SameLife(b)
           /\ UNCHANGED <<ks_bid, ks_bats, net, exhausted>>
           /\ \/ GoesTo(t, "undo") /\ UNCHANGED kb
              \/ /\ GoesTo(t, "build") /\ ~Over(thr[t].v, DevBats)
                 /\ kb'[b].ops = 0 /\ kb'[b].dels = 0 /\ kb'[b].bytes = 0
                 /\ kb'[b].sent = kb[b].sent
                 /\ kb'[b].sentdels = kb[b].sentdels
                 /\ kb'[b].sentbytes = kb[b].sentbytes
<1>1. thr[t] \in ThrType /\ thr[t].b \in Batch /\ kb[thr[t].b] \in KbType
      /\ kb \in [Batch -> KbType] /\ thr \in [Thread -> ThrType]
    BY DEF TypeInv, TypeOK, PcOK, CheckLimit, At
<1> QED
    BY <1>1
       DEF CheckLimit, At, b_atom_inc, AtomLoad, Goto, Set, Return, Over,
           GoesTo, SameLife, SameCounts, ThrType, KbType

\* The request is queued.
LEMMA SendBatchDoes ==
    ASSUME TypeInv, NEW t \in Thread, SendBatch(t)
    PROVE  LET b == thr[t].b IN
           /\ thr[t].pc = "build" /\ GoesTo(t, "wait")
           /\ UNCHANGED <<ks_bid, ks_bats, kb, exhausted>>
           /\ net' = net \cup {[t |-> t, type |-> thr[t].type,
                                bid |-> kb[b].bid, count |-> kb[b].ops]}
<1>1. thr[t] \in ThrType /\ thr[t].b \in Batch /\ kb[thr[t].b] \in KbType
      /\ kb \in [Batch -> KbType] /\ thr \in [Thread -> ThrType]
    BY DEF TypeInv, TypeOK, PcOK, SendBatch, At
<1> QED
    BY <1>1
       DEF SendBatch, At, b_atom_inc, AtomLoad, Goto, Set, Return, GoesTo,
           SameLife, SameCounts, ThrType, KbType

\* The request is not queued.
LEMMA BuildFailsDoes ==
    ASSUME TypeInv, NEW t \in Thread, BuildFails(t)
    PROVE  LET b == thr[t].b IN
           /\ thr[t].pc = "build"
           /\ \/ thr[t].type = "START" /\ GoesTo(t, "undo")
              \/ thr[t].type # "START" /\ thr'[t] = Idle
           /\ UNCHANGED <<ks_bid, ks_bats, kb, net, exhausted>>
<1>1. thr[t] \in ThrType /\ thr[t].b \in Batch /\ kb[thr[t].b] \in KbType
      /\ kb \in [Batch -> KbType] /\ thr \in [Thread -> ThrType]
    BY DEF TypeInv, TypeOK, PcOK, BuildFails, At
<1> QED
    BY <1>1
       DEF BuildFails, At, b_atom_inc, AtomLoad, Goto, Set, Return, GoesTo,
           SameLife, SameCounts, ThrType, KbType

\* b_atom_inc in the exit ladder of a start.
LEMMA UndoCountDoes ==
    ASSUME TypeInv, NEW t \in Thread, UndoCount(t)
    PROVE  LET b == thr[t].b IN
           /\ thr[t].pc = "undo"
           /\ SameCounts(b) /\ kb'[b].end = kb[b].end /\ kb'[b].bid = kb[b].bid
           /\ UNCHANGED <<ks_bid, net>>
           /\ exhausted => exhausted'
           /\ \/ thr'[t] = Idle /\ kb'[b].start = "refused"
              \/ GoesTo(t, "undo") /\ UNCHANGED <<kb, ks_bats>>
           /\ ~exhausted' =>
                  \/ thr'[t] = Idle /\ ks_bats' = (ks_bats - 1) % Modulus
                  \/ GoesTo(t, "undo") /\ UNCHANGED <<kb, ks_bats>>
<1>1. thr[t] \in ThrType /\ thr[t].b \in Batch /\ kb[thr[t].b] \in KbType
      /\ kb \in [Batch -> KbType] /\ thr \in [Thread -> ThrType]
    BY DEF TypeInv, TypeOK, PcOK, UndoCount, At
<1>0. thr[t].v = ks_bats => (exhausted \/ thr[t].tries = 0 => exhausted')
    BY Zenon DEF UndoCount, b_atom_inc
<1>2. CASE thr[t].v = ks_bats /\ thr[t].tries # 0
    <2>1. /\ kb' = [kb EXCEPT ![thr[t].b].start = "refused",
                              ![thr[t].b].kb_m = "destroyed"]
          /\ thr' = [thr EXCEPT ![t] = Idle]
          /\ ks_bats' = (ks_bats + -1) % Modulus
          /\ thr[t].pc = "undo" /\ UNCHANGED <<ks_bid, net>>
        BY <1>2, Zenon DEF UndoCount, At, b_atom_inc, AtomLoad, Goto, Set, Return
    <2> QED
        BY <1>0, <1>1, <1>2, <2>1 DEF GoesTo, SameCounts, ThrType, KbType
<1>3. CASE thr[t].v = ks_bats /\ thr[t].tries = 0
    <2>1. /\ kb' = [kb EXCEPT ![thr[t].b].start = "refused"]
          /\ thr' = [thr EXCEPT ![t] = Idle]
          /\ ks_bats' = (ks_bats + -1) % Modulus
          /\ thr[t].pc = "undo" /\ UNCHANGED <<ks_bid, net>>
        BY <1>3, Zenon DEF UndoCount, At, b_atom_inc, AtomLoad, Goto, Set, Return
    <2> QED
        BY <1>0, <1>1, <1>3, <2>1 DEF GoesTo, SameCounts, ThrType, KbType
<1>4. CASE thr[t].v # ks_bats /\ thr[t].tries = 0
    BY <1>1, <1>4
       DEF UndoCount, At, b_atom_inc, AtomLoad, Goto, Set, Return, GoesTo,
           SameLife, SameCounts, ThrType, KbType
<1>5. CASE thr[t].v # ks_bats /\ thr[t].tries # 0
    BY <1>1, <1>5
       DEF UndoCount, At, b_atom_inc, AtomLoad, Goto, Set, Return, GoesTo,
           SameLife, SameCounts, ThrType, KbType
<1> QED
    BY <1>2, <1>3, <1>4, <1>5

\* The answer is taken.
LEMMA CompleteBatchDoes ==
    ASSUME TypeInv, NEW t \in Thread, CompleteBatch(t)
    PROVE  LET b == thr[t].b IN
           /\ thr[t].pc = "wait" /\ SameCounts(b) /\ kb'[b].bid = kb[b].bid
           /\ UNCHANGED <<ks_bid, ks_bats, net, exhausted>>
           /\ \/ /\ thr[t].type # "START" /\ thr[t].resp = "OK"
                 /\ GoesTo(t, "dec") /\ UNCHANGED kb
              \/ /\ thr[t].type = "START" /\ thr'[t] = Idle
                 /\ kb'[b].start \in Created \ {"refused"}
                 /\ kb'[b].end = kb[b].end
              \/ /\ thr[t].type # "START" /\ thr'[t] = Idle
                 /\ kb'[b].start = kb[b].start
                 /\ kb'[b].end = IF kb[b].end = "ok" THEN "ok" ELSE "failed"
<1>1. thr[t] \in ThrType /\ thr[t].b \in Batch /\ kb[thr[t].b] \in KbType
      /\ kb \in [Batch -> KbType] /\ thr \in [Thread -> ThrType]
    BY DEF TypeInv, TypeOK, PcOK, CompleteBatch, At
<1> QED
    BY <1>1
       DEF CompleteBatch, At, b_atom_inc, AtomLoad, Goto, Set, Return, Outcome,
           Created, GoesTo, SameLife, SameCounts, ThrType, KbType

\* The answer is given up.
LEMMA LoseBatchDoes ==
    ASSUME TypeInv, NEW t \in Thread, LoseBatch(t)
    PROVE  LET b == thr[t].b IN
           /\ thr[t].pc = "wait" /\ SameCounts(b) /\ kb'[b].bid = kb[b].bid
           /\ UNCHANGED <<ks_bid, ks_bats, net, exhausted>>
           /\ thr'[t] = Idle
           /\ \/ /\ thr[t].type = "START"
                 /\ kb'[b].start \in Created \ {"refused"}
                 /\ kb'[b].end = kb[b].end
              \/ /\ thr[t].type # "START"
                 /\ kb'[b].start = kb[b].start
                 /\ kb'[b].end = IF kb[b].end = "ok" THEN "ok" ELSE "failed"
<1>1. thr[t] \in ThrType /\ thr[t].b \in Batch /\ kb[thr[t].b] \in KbType
      /\ kb \in [Batch -> KbType] /\ thr \in [Thread -> ThrType]
    BY DEF TypeInv, TypeOK, PcOK, LoseBatch, At
<1> QED
    BY <1>1
       DEF LoseBatch, At, b_atom_inc, AtomLoad, Goto, Set, Return, Outcome,
           Created, GoesTo, SameLife, SameCounts, ThrType, KbType

\* b_atom_inc after a successful end or abort.
LEMMA UncountBatchDoes ==
    ASSUME TypeInv, NEW t \in Thread, UncountBatch(t)
    PROVE  LET b == thr[t].b IN
           /\ thr[t].pc = "dec"
           /\ SameCounts(b) /\ kb'[b].start = kb[b].start /\ kb'[b].bid = kb[b].bid
           /\ UNCHANGED <<ks_bid, net>>
           /\ exhausted => exhausted'
           /\ \/ thr'[t] = Idle /\ kb'[b].end = "ok"
              \/ GoesTo(t, "dec") /\ UNCHANGED <<kb, ks_bats>>
           /\ ~exhausted' =>
                  \/ thr'[t] = Idle /\ ks_bats' = (ks_bats - 1) % Modulus
                  \/ GoesTo(t, "dec") /\ UNCHANGED <<kb, ks_bats>>
<1>1. thr[t] \in ThrType /\ thr[t].b \in Batch /\ kb[thr[t].b] \in KbType
      /\ kb \in [Batch -> KbType] /\ thr \in [Thread -> ThrType]
    BY DEF TypeInv, TypeOK, PcOK, UncountBatch, At
<1>0. thr[t].v = ks_bats => (exhausted \/ thr[t].tries = 0 => exhausted')
    BY Zenon DEF UncountBatch, b_atom_inc
<1>2. CASE thr[t].v = ks_bats /\ thr[t].tries # 0
    <2>1. /\ kb' = [kb EXCEPT ![thr[t].b].end = "ok", ![thr[t].b].kb_m = "destroyed"]
          /\ thr' = [thr EXCEPT ![t] = Idle]
          /\ ks_bats' = (ks_bats + -1) % Modulus
          /\ thr[t].pc = "dec" /\ UNCHANGED <<ks_bid, net>>
        BY <1>2, Zenon DEF UncountBatch, At, b_atom_inc, AtomLoad, Goto, Set, Return
    <2> QED
        BY <1>0, <1>1, <1>2, <2>1 DEF GoesTo, SameCounts, ThrType, KbType
<1>3. CASE thr[t].v = ks_bats /\ thr[t].tries = 0
    <2>1. /\ kb' = [kb EXCEPT ![thr[t].b].end = "ok"]
          /\ thr' = [thr EXCEPT ![t] = Idle]
          /\ ks_bats' = (ks_bats + -1) % Modulus
          /\ thr[t].pc = "dec" /\ UNCHANGED <<ks_bid, net>>
        BY <1>3, Zenon DEF UncountBatch, At, b_atom_inc, AtomLoad, Goto, Set, Return
    <2> QED
        BY <1>0, <1>1, <1>3, <2>1 DEF GoesTo, SameCounts, ThrType, KbType
<1>4. CASE thr[t].v # ks_bats /\ thr[t].tries = 0
    BY <1>1, <1>4
       DEF UncountBatch, At, b_atom_inc, AtomLoad, Goto, Set, Return, GoesTo,
           SameLife, SameCounts, ThrType, KbType
<1>5. CASE thr[t].v # ks_bats /\ thr[t].tries # 0
    BY <1>1, <1>5
       DEF UncountBatch, At, b_atom_inc, AtomLoad, Goto, Set, Return, GoesTo,
           SameLife, SameCounts, ThrType, KbType
<1> QED
    BY <1>2, <1>3, <1>4, <1>5

\* The operation is counted.
LEMMA CountOpDoes ==
    ASSUME TypeInv, NEW t \in Thread, CountOp(t)
    PROVE  LET b == thr[t].b IN
           /\ thr[t].pc = "count" /\ GoesTo(t, "check") /\ SameLife(b)
           /\ UNCHANGED <<ks_bid, ks_bats, net, exhausted>>
           /\ kb'[b].ops = kb[b].ops + 1
           /\ kb'[b].dels = kb[b].dels + Dels(thr[t].type)
           /\ kb'[b].bytes = kb[b].bytes + Size(thr[t].type)
           /\ kb'[b].sent = kb[b].sent
           /\ kb'[b].sentdels = kb[b].sentdels
           /\ kb'[b].sentbytes = kb[b].sentbytes
<1>1. thr[t] \in ThrType /\ thr[t].b \in Batch /\ kb[thr[t].b] \in KbType
      /\ kb \in [Batch -> KbType] /\ thr \in [Thread -> ThrType]
    BY DEF TypeInv, TypeOK, PcOK, CountOp, At
<1> QED
    BY <1>1
       DEF CountOp, At, b_atom_inc, AtomLoad, Goto, Set, Return, GoesTo,
           SameLife, SameCounts, ThrType, KbType

\* The counts are tested.
LEMMA CheckOpDoes ==
    ASSUME TypeInv, NEW t \in Thread, CheckOp(t)
    PROVE  LET b == thr[t].b IN
           /\ thr[t].pc = "check"
           /\ UNCHANGED <<ks_bid, ks_bats, kb, net, exhausted>>
           /\ \/ /\ GoesTo(t, "opsend")
                 /\ ~Over(kb[b].ops, BatOps) /\ ~Over(kb[b].bytes, BatLen)
                 /\ thr[t].type = "DEL" => ~Over(kb[b].dels, BatDels)
              \/ thr'[t] = Idle
<1>1. thr[t] \in ThrType /\ thr[t].b \in Batch /\ kb[thr[t].b] \in KbType
      /\ kb \in [Batch -> KbType] /\ thr \in [Thread -> ThrType]
    BY DEF TypeInv, TypeOK, PcOK, CheckOp, At
<1> QED
    BY <1>1
       DEF CheckOp, At, b_atom_inc, AtomLoad, Goto, Set, Return, PutFits,
           DelFits, GoesTo, SameLife, SameCounts, ThrType, KbType

\* The operation is sent or lost.
LEMMA SendOpDoes ==
    ASSUME TypeInv, NEW t \in Thread, SendOp(t)
    PROVE  LET b == thr[t].b IN
           /\ thr[t].pc = "opsend" /\ thr'[t] = Idle /\ SameLife(b)
           /\ UNCHANGED <<ks_bid, ks_bats, net, exhausted>>
           /\ \/ UNCHANGED kb
              \/ /\ kb'[b].ops = kb[b].ops /\ kb'[b].dels = kb[b].dels
                 /\ kb'[b].bytes = kb[b].bytes
                 /\ kb'[b].sent = kb[b].sent + 1
                 /\ kb'[b].sentdels = kb[b].sentdels + Dels(thr[t].type)
                 /\ kb'[b].sentbytes = kb[b].sentbytes + Size(thr[t].type)
<1>1. thr[t] \in ThrType /\ thr[t].b \in Batch /\ kb[thr[t].b] \in KbType
      /\ kb \in [Batch -> KbType] /\ thr \in [Thread -> ThrType]
    BY DEF TypeInv, TypeOK, PcOK, SendOp, At
<1> QED
    BY <1>1
       DEF SendOp, At, b_atom_inc, AtomLoad, Goto, Set, Return, GoesTo,
           SameLife, SameCounts, ThrType, KbType
\* A call begins: the thread was idle, and only a start touches the batch.
LEMMA StartBatchDoes ==
    ASSUME TypeInv, NEW t \in Thread, NEW b \in Batch, StartBatch(t, b)
    PROVE  /\ thr[t].pc = "idle" /\ kb[b].start = "none"
           /\ thr'[t].pc = "bid" /\ thr'[t].b = b /\ thr'[t].type = "START"
           /\ \A u \in Thread : u # t => thr'[u] = thr[u]
           /\ \A a \in Batch : a # b => kb'[a] = kb[a]
           /\ kb'[b].start = "starting" /\ kb'[b].bid = kb[b].bid
           /\ kb'[b].end = kb[b].end /\ SameCounts(b)
           /\ calls' = calls + 1
           /\ UNCHANGED <<ks_bid, ks_bats, net, active, exhausted>>
BY DEF TypeInv, TypeOK, StartBatch, At, Idle, KbType, SameCounts

LEMMA CallDoes ==
    ASSUME TypeInv, NEW t \in Thread, NEW b \in Batch,
           \/ EndBatch(t, b, "END") \/ EndBatch(t, b, "ABORT")
           \/ BatchOp(t, b, "PUT") \/ BatchOp(t, b, "DEL")
    PROVE  /\ thr[t].pc = "idle" /\ kb[b].start \in Created
           /\ thr'[t].b = b /\ thr'[t].resp = "none"
           /\ \/ thr'[t].pc = "build" /\ thr'[t].type \in {"END", "ABORT"}
              \/ thr'[t].pc = "count" /\ thr'[t].type \in {"PUT", "DEL"}
           /\ \A u \in Thread : u # t => thr'[u] = thr[u]
           /\ calls' = calls + 1
           /\ UNCHANGED <<ks_bid, ks_bats, kb, net, active, exhausted>>
<1> USE DEF TypeInv, TypeOK, At, Idle
<1>1. CASE EndBatch(t, b, "END")
    BY <1>1 DEF EndBatch
<1>2. CASE EndBatch(t, b, "ABORT")
    BY <1>2 DEF EndBatch
<1>3. CASE BatchOp(t, b, "PUT")
    BY <1>3 DEF BatchOp
<1>4. CASE BatchOp(t, b, "DEL")
    BY <1>4 DEF BatchOp
<1> QED
    BY <1>1, <1>2, <1>3, <1>4

\* The device answers: of the threads only a resp changes, and it is OK for an
\* end or abort only when the batch was open.
LEMMA DeviceDoes ==
    ASSUME TypeInv, NEW m \in net, DeviceStart(m) \/ DeviceEnd(m)
    PROVE  /\ net' = net \ {m}
           /\ m.type = "START" => active' = active \/ active' = active \cup {m.bid}
           /\ m.type # "START" => active' = active \ {m.bid}
           /\ UNCHANGED <<ks_bid, ks_bats, kb, exhausted, calls>>
           /\ \A u \in Thread :
                  /\ thr'[u].pc = thr[u].pc /\ thr'[u].b = thr[u].b
                  /\ thr'[u].type = thr[u].type /\ thr'[u].v = thr[u].v
                  /\ \/ thr'[u].resp = thr[u].resp \/ thr'[u].resp = "ERR"
                     \/ /\ u = m.t /\ thr[u].pc = "wait" /\ thr[u].type = m.type
                        /\ kb[thr[u].b].bid = m.bid
                        /\ m.type # "START" => m.bid \in active
<1>1. m \in MsgType /\ m.t \in Thread /\ thr \in [Thread -> ThrType]
    BY DEF TypeInv, TypeOK, MsgType
<1>2. /\ net' = net \ {m}
      /\ m.type = "START" => active' = active \/ active' = active \cup {m.bid}
      /\ m.type # "START" => active' = active \ {m.bid}
      /\ UNCHANGED <<ks_bid, ks_bats, kb, exhausted, calls>>
    BY DEF DeviceStart, DeviceEnd
<1>3. \/ thr' = thr \/ thr' = [thr EXCEPT ![m.t].resp = "ERR"]
      \/ /\ thr' = [thr EXCEPT ![m.t].resp = "OK"]
         /\ thr[m.t].pc = "wait" /\ thr[m.t].type = m.type
         /\ kb[thr[m.t].b].bid = m.bid
         /\ m.type # "START" => m.bid \in active
    BY DEF DeviceStart, DeviceEnd, Answer, Set, At
<1> QED
    BY <1>1, <1>2, <1>3 DEF ThrType

-----------------------------------------------------------------------------
(* A step of a thread keeps the types.                                     *)

\* The first b_atom_inc is kept apart: the other steps of a thread make no ids.
OtherStep(t) ==
    \/ CountBatch(t) \/ CheckLimit(t) \/ SendBatch(t) \/ BuildFails(t)
    \/ UndoCount(t) \/ CompleteBatch(t) \/ LoseBatch(t) \/ UncountBatch(t)
    \/ CountOp(t) \/ CheckOp(t) \/ SendOp(t)

\* The records keep their types.
LEMMA RecordsStep ==
    ASSUME TypeInv, NEW t \in Thread, OtherStep(t)
    PROVE  thr' \in [Thread -> ThrType] /\ kb' \in [Batch -> KbType]
<1>0. /\ thr \in [Thread -> ThrType] /\ kb \in [Batch -> KbType]
      /\ thr[t].pc # "idle" => thr[t].b \in Batch
      /\ ks_bats \in 0 .. Modulus - 1 /\ Retries \in 0 .. Retries
    BY BatchAssumption DEF TypeInv, TypeOK, PcOK
<1> USE <1>0, IdleType DEF At, Goto, Set, Return, AtomLoad, b_atom_inc
<1>1. CASE CountBatch(t)
    <2>1. thr' \in [Thread -> ThrType]
        BY <1>1 DEF CountBatch, ThrType, PCs
    <2>2. kb' \in [Batch -> KbType]
        BY <1>1 DEF CountBatch, KbType, Created
    <2> QED
        BY <2>1, <2>2
<1>2. CASE CheckLimit(t)
    <2>1. thr' \in [Thread -> ThrType]
        BY SMTT(60), <1>2 DEF CheckLimit, ThrType, PCs
    <2>2. kb' \in [Batch -> KbType]
        <3>1. \/ kb' = kb
              \/ /\ kb' = [kb EXCEPT ![thr[t].b].ops = 0, ![thr[t].b].dels = 0,
                                     ![thr[t].b].bytes = 0,
                                     ![thr[t].b].kb_m = "ready"]
                 /\ thr[t].b \in Batch
            BY <1>2 DEF CheckLimit
        <3> QED
            BY <3>1 DEF KbType
    <2> QED
        BY <2>1, <2>2
<1>3. CASE SendBatch(t)
    <2>1. thr' \in [Thread -> ThrType]
        BY <1>3 DEF SendBatch, ThrType, PCs
    <2>2. kb' \in [Batch -> KbType]
        BY <1>3 DEF SendBatch, KbType, Created
    <2> QED
        BY <2>1, <2>2
<1>4. CASE BuildFails(t)
    <2>1. thr' \in [Thread -> ThrType]
        BY <1>4 DEF BuildFails, ThrType, PCs
    <2>2. kb' \in [Batch -> KbType]
        BY <1>4 DEF BuildFails, KbType, Created
    <2> QED
        BY <2>1, <2>2
<1>5. CASE UndoCount(t)
    <2>1. thr' \in [Thread -> ThrType]
        BY <1>5 DEF UndoCount, ThrType, PCs
    <2>2. kb' \in [Batch -> KbType]
        BY <1>5 DEF UndoCount, KbType, Created
    <2> QED
        BY <2>1, <2>2
<1>6. CASE CompleteBatch(t)
    <2>1. thr' \in [Thread -> ThrType]
        BY <1>6 DEF CompleteBatch, ThrType, PCs
    <2>2. kb' \in [Batch -> KbType]
        BY SMTT(60), <1>6 DEF CompleteBatch, Outcome, KbType, Created
    <2> QED
        BY <2>1, <2>2
<1>7. CASE LoseBatch(t)
    <2>1. thr' \in [Thread -> ThrType]
        BY <1>7 DEF LoseBatch, ThrType, PCs
    <2>2. kb' \in [Batch -> KbType]
        BY <1>7 DEF LoseBatch, Outcome, KbType, Created
    <2> QED
        BY <2>1, <2>2
<1>8. CASE UncountBatch(t)
    <2>1. thr' \in [Thread -> ThrType]
        BY <1>8 DEF UncountBatch, ThrType, PCs
    <2>2. kb' \in [Batch -> KbType]
        BY <1>8 DEF UncountBatch, KbType, Created
    <2> QED
        BY <2>1, <2>2
<1>9. CASE CountOp(t)
    <2>1. thr' \in [Thread -> ThrType]
        BY SMTT(60), <1>9 DEF CountOp, ThrType, PCs
    <2>2. kb' \in [Batch -> KbType]
        BY <1>9 DEF CountOp, Dels, Size, KbType, Created
    <2> QED
        BY <2>1, <2>2
<1>10. CASE CheckOp(t)
    <2>1. thr' \in [Thread -> ThrType]
        BY <1>10 DEF CheckOp, ThrType, PCs
    <2>2. kb' \in [Batch -> KbType]
        BY <1>10 DEF CheckOp, KbType, Created
    <2> QED
        BY <2>1, <2>2
<1>11. CASE SendOp(t)
    <2>1. thr' \in [Thread -> ThrType]
        BY <1>11 DEF SendOp, ThrType, PCs
    <2>2. kb' \in [Batch -> KbType]
        BY <1>11 DEF SendOp, Dels, Size, KbType, Created
    <2> QED
        BY <2>1, <2>2
<1> QED
    BY <1>1, <1>2, <1>3, <1>4, <1>5, <1>6, <1>7, <1>8, <1>9, <1>10, <1>11
       DEF OtherStep

\* A step keeps the places of the threads, the ids and the counters in order.
LEMMA TypeOther ==
    ASSUME TypeInv, NEW t \in Thread, OtherStep(t)
    PROVE  TypeInv'
<1>1. Alone(t) /\ TypeOK /\ PcOK /\ IdsOK
    BY StepAlone DEF Step, OtherStep, TypeInv
<1>2. thr' \in [Thread -> ThrType] /\ kb' \in [Batch -> KbType]
    BY RecordsStep
<1>3. /\ PcOK' /\ thr[t].pc # "bid" /\ thr'[t].pc # "bid"
      /\ thr'[t].pc # "idle" => thr'[t].b = thr[t].b
      /\ kb'[thr[t].b].bid = kb[thr[t].b].bid
      /\ kb'[thr[t].b].dels <= kb'[thr[t].b].ops
      /\ ks_bid' = ks_bid
    <2>1. kb[thr[t].b].dels <= kb[thr[t].b].ops /\ kb[thr[t].b] \in KbType
        BY <1>1 DEF TypeOK, Alone
    <2> USE <1>1, <2>1 DEF PcOK, Alone, GoesTo, SameLife, SameCounts, Idle, BatchTypes
    <2>2. CASE CountBatch(t)
        BY <2>2, CountBatchDoes
    <2>3. CASE CheckLimit(t)
        BY <2>3, CheckLimitDoes
    <2>4. CASE SendBatch(t)
        BY <2>4, SendBatchDoes
    <2>5. CASE BuildFails(t)
        BY <2>5, BuildFailsDoes
    <2>6. CASE UndoCount(t)
        BY <2>6, UndoCountDoes
    <2>7. CASE CompleteBatch(t)
        BY <2>7, CompleteBatchDoes
    <2>8. CASE LoseBatch(t)
        BY <2>8, LoseBatchDoes
    <2>9. CASE UncountBatch(t)
        BY <2>9, UncountBatchDoes
    <2>10. CASE CountOp(t)
        BY <2>10, CountOpDoes DEF Dels, KbType
    <2>11. CASE CheckOp(t)
        BY <2>11, CheckOpDoes
    <2>12. CASE SendOp(t)
        BY <2>12, SendOpDoes
    <2> QED
        BY <2>2, <2>3, <2>4, <2>5, <2>6, <2>7, <2>8, <2>9, <2>10, <2>11, <2>12
           DEF OtherStep
<1>4. \A a \in Batch : kb'[a].bid = kb[a].bid /\ kb'[a].dels <= kb'[a].ops
    BY <1>1, <1>3 DEF Alone, TypeOK
<1>5. IdsOK'
    <2> SUFFICES ASSUME NEW u \in Thread
                 PROVE  /\ thr'[u].pc # "bid" \/ thr'[u] = thr[u]
                        /\ thr'[u].pc \notin {"idle", "bid"} => kb'[thr'[u].b].bid # 0
        BY <1>1, <1>3 DEF IdsOK
    <2>1. CASE u = t
        BY <1>1, <1>3, <2>1 DEF IdsOK, Alone
    <2>2. CASE u # t
        BY <1>1, <1>4, <2>2 DEF IdsOK, PcOK, Alone
    <2> QED
        BY <2>1, <2>2
<1>6. IdsBounded'
    BY <1>1, <1>3, SameBidders DEF Alone, TypeOK
<1>7. net' \subseteq MsgType /\ \A m \in net' : m.bid \in KFIRSTBID .. ks_bid
    <2>1. CASE SendBatch(t)
        <3>1. /\ kb[thr[t].b].bid \in KFIRSTBID .. ks_bid /\ kb[thr[t].b].bid \in Nat
              /\ kb[thr[t].b].ops \in Nat /\ thr[t].type \in BatchTypes
            BY <1>1, <2>1, SendBatchDoes DEF Alone, TypeOK, KbType, IdsOK, PcOK
        <3> QED
            BY <1>1, <2>1, <3>1, SendBatchDoes DEF TypeOK, MsgType
    <2>2. CASE ~SendBatch(t)
        BY SMTT(60), <1>1, <2>2, CountBatchDoes, CheckLimitDoes, BuildFailsDoes,
           UndoCountDoes,
           CompleteBatchDoes, LoseBatchDoes, UncountBatchDoes, CountOpDoes,
           CheckOpDoes, SendOpDoes DEF OtherStep, TypeOK
    <2> QED
        BY <2>1, <2>2
<1>8. exhausted' \in BOOLEAN
    BY <1>1 DEF OtherStep, CountBatch, CheckLimit, SendBatch, BuildFails, UndoCount,
       CompleteBatch, LoseBatch, UncountBatch, CountOp, CheckOp, SendOp, b_atom_inc,
       TypeOK
<1>9. ks_bats' \in 0 .. Modulus - 1
    <2>1. ks_bats + 1 \in Int /\ ks_bats + -1 \in Int
        BY SMTT(60), <1>1 DEF TypeOK
    <2>2. ks_bats' \in {ks_bats, (ks_bats + 1) % Modulus, (ks_bats + -1) % Modulus}
        BY DEF OtherStep, CountBatch, CheckLimit, SendBatch, BuildFails, UndoCount,
           CompleteBatch, LoseBatch, UncountBatch, CountOp, CheckOp, SendOp, b_atom_inc
    <2> QED
        BY <1>1, <2>1, <2>2, ModRange DEF TypeOK
<1> QED
    BY <1>1, <1>2, <1>3, <1>4, <1>5, <1>6, <1>7, <1>8, <1>9
       DEF TypeInv, TypeOK, Alone

\* As long as the ids do not run out, b_atom_inc on ks_bid gives the next one.
LEMMA NextBid ==
    ASSUME NoWrap, TypeInv, NEW t \in Thread, thr[t].pc = "bid"
    PROVE  (ks_bid + 1) % Modulus = ks_bid + 1 /\ ks_bid + 1 \in KFIRSTBID .. Modulus - 1
<1> DEFINE S == {u \in Thread : thr[u].pc = "bid"}
<1>1. IsFiniteSet(S) /\ t \in S /\ Cardinality(S) \in Nat
    BY BatchAssumption, FS_Subset, FS_CardinalityType
<1>2. Cardinality(S \ {t}) = Cardinality(S) - 1 /\ Cardinality(S \ {t}) \in Nat
    BY <1>1, FS_RemoveElement, FS_CardinalityType
<1>3. ks_bid + Cardinality(S) <= KFIRSTBID + calls
    BY DEF TypeInv, IdsBounded
<1> HIDE DEF S
<1>4. ks_bid + 1 \in 0 .. Modulus - 1 /\ ks_bid >= KFIRSTBID
    BY <1>1, <1>2, <1>3, BatchAssumption DEF NoWrap, KFIRSTBID, TypeInv, TypeOK
<1> QED
    BY <1>4, ModExact, BatchAssumption DEF KFIRSTBID, TypeInv, TypeOK

LEMMA TypeTakeBid ==
    ASSUME NoWrap, TypeInv, NEW t \in Thread, TakeBid(t)
    PROVE  TypeInv'
<1> USE DEF TypeInv, TypeOK
<1> DEFINE b == thr[t].b
           S == {u \in Thread : thr[u].pc = "bid"}
<1>1. /\ t \in Thread /\ thr[t] \in ThrType /\ b \in Batch /\ kb[b] \in KbType
      /\ thr[t].pc = "bid" /\ thr[t].v \in KFIRSTBID .. ks_bid
      /\ ks_bid + Cardinality(S) <= KFIRSTBID + calls
    BY DEF TakeBid, At, PcOK, IdsOK, IdsBounded
<1>2. IsFiniteSet(S) /\ t \in S /\ Cardinality(S) \in Nat
    BY <1>1, BatchAssumption, FS_Subset, FS_CardinalityType
<1>3. Cardinality(S \ {t}) = Cardinality(S) - 1 /\ Cardinality(S \ {t}) \in Nat
    BY <1>2, FS_RemoveElement, FS_CardinalityType
<1>4. (ks_bid + 1) % Modulus = ks_bid + 1 /\ ks_bid + 1 \in KFIRSTBID .. Modulus - 1
    BY <1>1, NextBid
<1>5. \/ /\ ks_bid' \in {ks_bid, ks_bid + 1}
         /\ \/ kb' = [kb EXCEPT ![b].bid = thr[t].v]
            \/ kb' = [kb EXCEPT ![b].bid = thr[t].v, ![b].start = "refused"]
         /\ \/ thr' = [thr EXCEPT ![t].pc = "bats", ![t].v = ks_bats,
                                  ![t].tries = Retries]
            \/ thr' = [thr EXCEPT ![t] = Idle]
      \/ /\ ks_bid' = ks_bid /\ kb' = kb
         /\ thr' = [thr EXCEPT ![t].v = ks_bid, ![t].tries = @ - 1]
         /\ thr[t].tries # 0
    BY <1>4 DEF TakeBid, b_atom_inc, AtomLoad, Return
<1>6. exhausted' \in BOOLEAN
    BY DEF TakeBid, b_atom_inc
<1>7. UNCHANGED <<ks_bats, net, active, calls>>
    BY DEF TakeBid
<1>8. thr' \in [Thread -> ThrType]
    BY <1>1, <1>5, IdleType, BatchAssumption DEF ThrType, PCs
<1>9. kb' \in [Batch -> KbType]
    BY <1>1, <1>5 DEF KbType, Created, KFIRSTBID
<1>10. PcOK'
    BY <1>1, <1>5 DEF PcOK, Idle, ThrType
<1>11. ASSUME NEW a \in Batch
       PROVE  /\ kb'[a].bid \in {0} \cup KFIRSTBID .. ks_bid'
              /\ kb'[a].dels <= kb'[a].ops
              /\ kb[a].bid # 0 => kb'[a].bid # 0
              /\ kb' # kb => kb'[b].bid # 0
    <2>1. kb[a] \in KbType
        OBVIOUS
    <2> QED
        BY <1>1, <1>4, <1>5, <2>1 DEF KbType, KFIRSTBID
<1>12. IdsOK'
    <2> SUFFICES ASSUME NEW u \in Thread
                 PROVE  /\ thr'[u].pc = "bid" => thr'[u].v \in KFIRSTBID .. ks_bid'
                        /\ thr'[u].pc \notin {"idle", "bid"} => kb'[thr'[u].b].bid # 0
        BY DEF IdsOK
    <2>1. CASE u = t
        <3>1. thr'[t].pc # "bid" => kb'[b].bid # 0
            BY <1>1, <1>5 DEF KbType, ThrType, KFIRSTBID
        <3>2. thr'[t].pc = "bid" => thr'[t].v = ks_bid
            BY <1>1, <1>5 DEF ThrType, Idle
        <3>3. thr'[t].pc # "idle" => thr'[t].b = b
            BY <1>1, <1>5 DEF ThrType, Idle
        <3> QED
            BY <1>4, <1>5, <2>1, <3>1, <3>2, <3>3 DEF KFIRSTBID
    <2>2. CASE u # t
        <3>1. thr'[u] = thr[u] /\ (thr[u].pc # "idle" => thr[u].b \in Batch)
            BY <1>1, <1>5, <2>2 DEF PcOK
        <3> QED
            BY <1>1, <1>4, <1>5, <1>11, <3>1 DEF IdsOK, KFIRSTBID
    <2> QED
        BY <2>1, <2>2
<1>13. IdsBounded'
    <2>1. \/ S' = S /\ ks_bid' = ks_bid
          \/ S' = S \ {t} /\ ks_bid' \in {ks_bid, ks_bid + 1}
        BY <1>1, <1>5 DEF Idle, ThrType
    <2> HIDE DEF S
    <2>3. ks_bid \in Int /\ calls \in Int /\ calls' = calls
        BY <1>7 DEF KFIRSTBID
    <2>4. \/ Cardinality(S') = Cardinality(S) /\ ks_bid' = ks_bid
          \/ Cardinality(S') = Cardinality(S) - 1 /\ ks_bid' \in {ks_bid, ks_bid + 1}
        BY <1>3, <2>1
    <2> HIDE DEF TypeInv, TypeOK
    <2>2. ks_bid' + Cardinality(S') <= KFIRSTBID + calls'
        BY <1>1, <1>2, <2>3, <2>4 DEF KFIRSTBID
    <2> QED
        BY <2>2 DEF IdsBounded, S
<1>14. ks_bid' \in KFIRSTBID .. Modulus - 1 /\ ks_bid' >= ks_bid
    BY <1>4, <1>5
<1> QED
    BY <1>6, <1>7, <1>8, <1>9, <1>10, <1>11, <1>12, <1>13, <1>14 DEF KFIRSTBID

LEMMA TypeStartBatch ==
    ASSUME TypeInv, NEW t \in Thread, NEW b \in Batch, StartBatch(t, b)
    PROVE  TypeInv'
<1> USE DEF TypeInv, TypeOK
<1> DEFINE S == {u \in Thread : thr[u].pc = "bid"}
<1>1. /\ thr[t].pc = "idle" /\ calls' = calls + 1 /\ calls < MaxCalls
      /\ kb' = [kb EXCEPT ![b].start = "starting"]
      /\ thr' = [thr EXCEPT ![t] =
             [Idle EXCEPT !.pc = "bid", !.b = b, !.type = "START",
                          !.v = ks_bid, !.tries = Retries]]
      /\ UNCHANGED <<ks_bid, ks_bats, net, active, exhausted>>
    BY DEF StartBatch, At
<1>2. thr' \in [Thread -> ThrType]
    <2>0. ks_bid \in 0 .. Modulus - 1 /\ Retries \in 0 .. Retries
        BY BatchAssumption DEF KFIRSTBID
    <2>1. [Idle EXCEPT !.pc = "bid", !.b = b, !.type = "START",
                       !.v = ks_bid, !.tries = Retries] \in ThrType
        BY <2>0, IdleType DEF ThrType, PCs, BatchTypes
    <2> QED
        BY <1>1, <2>1
<1>3. kb' \in [Batch -> KbType]
    BY <1>1 DEF KbType
<1>4. PcOK'
    BY <1>1 DEF PcOK, Idle, ThrType
<1>5. ASSUME NEW a \in Batch
      PROVE  kb'[a].bid = kb[a].bid /\ kb'[a].dels <= kb'[a].ops
    BY <1>1 DEF KbType
<1>6. IdsOK'
    BY <1>1, <1>5 DEF IdsOK, PcOK, Idle, KFIRSTBID
<1>7. IdsBounded'
    <2>1. S' = S \cup {t} /\ t \notin S /\ IsFiniteSet(S)
        BY <1>1, BatchAssumption, FS_Subset DEF Idle
    <2>2. Cardinality(S') = Cardinality(S) + 1 /\ Cardinality(S) \in Nat
        BY <2>1, FS_AddElement, FS_CardinalityType
    <2> HIDE DEF S
    <2>3. ks_bid \in Int /\ calls \in Int /\ ks_bid' = ks_bid
          /\ ks_bid + Cardinality(S) <= KFIRSTBID + calls
        BY <1>1 DEF KFIRSTBID, IdsBounded, S
    <2> HIDE DEF TypeInv, TypeOK
    <2>4. ks_bid' + Cardinality(S') <= KFIRSTBID + calls'
        BY <1>1, <2>2, <2>3 DEF KFIRSTBID
    <2> QED
        BY <2>4 DEF IdsBounded, S
<1>8. calls' \in 0 .. MaxCalls
    BY <1>1, BatchAssumption
<1> QED
    BY <1>1, <1>2, <1>3, <1>4, <1>5, <1>6, <1>7, <1>8

\* The calls on a batch that exists: ki_submitbatch, ki_abortbatch, and a put
\* or delete with the batch.
LEMMA TypeCall ==
    ASSUME TypeInv, NEW t \in Thread, NEW b \in Batch,
           \/ EndBatch(t, b, "END") \/ EndBatch(t, b, "ABORT")
           \/ BatchOp(t, b, "PUT") \/ BatchOp(t, b, "DEL")
    PROVE  TypeInv'
<1> USE DEF TypeInv, TypeOK
<1>1. /\ thr[t].pc = "idle" /\ calls' = calls + 1 /\ calls < MaxCalls
      /\ kb[b].bid >= KFIRSTBID
      /\ UNCHANGED <<kb, ks_bid, ks_bats, net, active, exhausted>>
    BY DEF EndBatch, BatchOp, At
<1>2. \E type \in {"END", "ABORT", "PUT", "DEL"} :
         thr' = [thr EXCEPT ![t] =
             [Idle EXCEPT !.pc = IF type \in {"END", "ABORT"} THEN "build"
                                 ELSE "count", !.b = b, !.type = type]]
    BY DEF EndBatch, BatchOp
<1>3. thr' \in [Thread -> ThrType]
    <2>1. ASSUME NEW type \in {"END", "ABORT", "PUT", "DEL"},
                 NEW pc \in {"build", "count"}
          PROVE  [Idle EXCEPT !.pc = pc, !.b = b, !.type = type] \in ThrType
        BY IdleType DEF ThrType, PCs, BatchTypes
    <2> QED
        BY <1>2, <2>1
<1>4. PcOK'
    BY <1>2 DEF PcOK, Idle, BatchTypes
<1>5. IdsOK'
    BY <1>1, <1>2 DEF IdsOK, PcOK, Idle, KFIRSTBID
<1>6. calls' \in 0 .. MaxCalls
    BY <1>1, BatchAssumption
<1>7. IdsBounded'
    <2>1. \A u \in Thread : thr'[u].pc = "bid" => thr[u].pc = "bid"
        BY <1>2 DEF Idle
    <2> QED
        BY <1>1, <2>1, SameBidders DEF KFIRSTBID
<1> QED
    BY <1>1, <1>3, <1>4, <1>5, <1>6, <1>7

LEMMA TypeDevice ==
    ASSUME TypeInv, NEW m \in net, DeviceStart(m) \/ DeviceEnd(m)
    PROVE  TypeInv'
<1> USE DEF TypeInv, TypeOK
<1>1. m \in MsgType /\ m.t \in Thread /\ m.bid \in KFIRSTBID .. ks_bid
    BY DEF MsgType
<1>2. /\ net' = net \ {m} /\ active' \subseteq active \cup {m.bid}
      /\ UNCHANGED <<ks_bid, ks_bats, kb, exhausted, calls>>
    BY DEF DeviceStart, DeviceEnd
<1>3. \/ thr' = thr
      \/ /\ thr[m.t].pc = "wait"
         /\ \E krc \in {"OK", "ERR"} : thr' = [thr EXCEPT ![m.t].resp = krc]
    BY DEF DeviceStart, DeviceEnd, Answer, Set, At
<1>4. thr' \in [Thread -> ThrType]
    BY <1>1, <1>3 DEF ThrType
<1>5. ASSUME NEW u \in Thread
      PROVE  /\ thr'[u].pc = thr[u].pc /\ thr'[u].b = thr[u].b
             /\ thr'[u].type = thr[u].type /\ thr'[u].v = thr[u].v
             /\ thr[u].pc # "wait" => thr'[u].resp = thr[u].resp
    BY <1>1, <1>3 DEF ThrType
<1>6. PcOK' /\ IdsOK'
    BY <1>2, <1>5 DEF PcOK, IdsOK
<1>7. IdsBounded'
    BY <1>2, <1>5, SameBidders DEF KFIRSTBID
<1> QED
    BY <1>1, <1>2, <1>4, <1>6, <1>7

\* Every step keeps the types.
LEMMA TypeNext ==
    ASSUME NoWrap, TypeInv, [Next]_vars
    PROVE  TypeInv'
<1>1. CASE UNCHANGED vars
    BY <1>1 DEF vars, TypeInv, TypeOK, PcOK, IdsOK, IdsBounded
<1>2. ASSUME NEW t \in Thread, Step(t) PROVE TypeInv'
    BY <1>2, TypeTakeBid, TypeOther DEF Step, OtherStep
<1> QED
    BY <1>1, <1>2, TypeStartBatch, TypeCall, TypeDevice DEF Next

\* Every behaviour that does not run out of batch ids keeps the counters in
\* their range, every id in use between KFIRSTBID and ks_bid, and no more
\* deletes than operations in a batch.
THEOREM TypeCorrect ==
    ASSUME NoWrap
    PROVE  Spec => []TypeOK
<1>1. Init => TypeInv
    BY TypeInit
<1>2. TypeInv /\ [Next]_vars => TypeInv'
    BY TypeNext
<1>3. TypeInv => TypeOK
    BY DEF TypeInv
<1> QED
    BY <1>1, <1>2, <1>3, PTL DEF Spec
-----------------------------------------------------------------------------
(* The life of a batch.                                                    *)

LEMMA StagesInit == Init => StagesOK
BY DEF Init, StagesOK, Starter, Idle, NoKb

LEMMA StagesStep ==
    ASSUME TypeInv, TypeInv', StagesOK, NEW t \in Thread, Step(t)
    PROVE  StagesOK'
<1>0. Alone(t) /\ PcOK /\ PcOK' /\ IdsOK /\ IdsOK'
    BY StepAlone DEF TypeInv
<1> USE <1>0
   DEF Alone, GoesTo, SameLife, SameCounts, Starter, StagesOK, PcOK, Idle,
       BatchTypes, Created
<1>1. CASE TakeBid(t)
    BY SMTT(60), <1>1, TakeBidDoes
<1>2. CASE CountBatch(t)
    BY SMTT(60), <1>2, CountBatchDoes
<1>3. CASE CheckLimit(t)
    BY <1>3, CheckLimitDoes
<1>4. CASE SendBatch(t)
    BY <1>4, SendBatchDoes
<1>5. CASE BuildFails(t)
    BY <1>5, BuildFailsDoes
<1>6. CASE UndoCount(t)
    BY <1>6, UndoCountDoes
<1>7. CASE CompleteBatch(t)
    BY SMTT(60), <1>7, CompleteBatchDoes
<1>8. CASE LoseBatch(t)
    BY SMTT(60), <1>8, LoseBatchDoes
<1>9. CASE UncountBatch(t)
    BY SMTT(60), <1>9, UncountBatchDoes
<1>10. CASE CountOp(t)
    BY SMTT(60), <1>10, CountOpDoes
<1>11. CASE CheckOp(t)
    BY <1>11, CheckOpDoes
<1>12. CASE SendOp(t)
    BY <1>12, SendOpDoes
<1> QED
    BY <1>1, <1>2, <1>3, <1>4, <1>5, <1>6, <1>7, <1>8, <1>9, <1>10, <1>11, <1>12
       DEF Step
LEMMA StagesOthers ==
    ASSUME TypeInv, TypeInv', StagesOK,
           \/ \E t \in Thread, b \in Batch :
                  \/ StartBatch(t, b)
                  \/ EndBatch(t, b, "END") \/ EndBatch(t, b, "ABORT")
                  \/ BatchOp(t, b, "PUT") \/ BatchOp(t, b, "DEL")
           \/ \E m \in net : DeviceStart(m) \/ DeviceEnd(m)
    PROVE  StagesOK'
<1>0. PcOK /\ PcOK'
    BY DEF TypeInv
<1> USE <1>0 DEF StagesOK, Starter, PcOK, SameCounts, Created
<1>1. ASSUME NEW t \in Thread, NEW b \in Batch, StartBatch(t, b) PROVE StagesOK'
    BY <1>1, StartBatchDoes
<1>2. ASSUME NEW t \in Thread, NEW b \in Batch,
             \/ EndBatch(t, b, "END") \/ EndBatch(t, b, "ABORT")
             \/ BatchOp(t, b, "PUT") \/ BatchOp(t, b, "DEL")
      PROVE  StagesOK'
    BY <1>2, CallDoes
<1>3. ASSUME NEW m \in net, DeviceStart(m) \/ DeviceEnd(m) PROVE StagesOK'
    BY <1>3, DeviceDoes
<1> QED
    BY <1>1, <1>2, <1>3

\* No batch is started without a call.
LEMMA StartsNext ==
    ASSUME TypeInv, TypeInv', StagesOK, StartsBounded, Next
    PROVE  StartsBounded'
<1> DEFINE S == {b \in Batch : kb[b].start # "none"}
<1>1. IsFiniteSet(S) /\ Cardinality(S) \in Nat
    BY BatchAssumption, FS_Subset, FS_CardinalityType
<1>2. Cardinality(S) <= calls /\ calls \in Int /\ calls' \in Int
    BY DEF StartsBounded, TypeInv, TypeOK
<1>3. ASSUME S' \subseteq S, calls' >= calls PROVE StartsBounded'
    <2>1. Cardinality(S') <= Cardinality(S) /\ Cardinality(S') \in Nat
        BY <1>1, <1>3, FS_Subset, FS_CardinalityType
    <2> HIDE DEF S
    <2>2. Cardinality(S') <= calls'
        BY <1>1, <1>2, <1>3, <2>1
    <2> QED
        BY <2>2 DEF StartsBounded, S
<1>4. ASSUME NEW t \in Thread, Step(t) PROVE StartsBounded'
    <2>1. Alone(t) /\ kb[thr[t].b].start # "none"
        BY <1>4, StepAlone
           DEF StagesOK, Starter, TypeInv, PcOK, BatchTypes, TypeOK, ThrType,
           Created, Alone, PCs
    <2> QED
        BY <1>2, <1>3, <2>1 DEF Alone
<1>5. ASSUME NEW t \in Thread, NEW b \in Batch, StartBatch(t, b)
      PROVE  StartsBounded'
    <2>1. S' = S \cup {b} /\ b \notin S /\ calls' = calls + 1
        BY <1>5, StartBatchDoes
    <2>2. Cardinality(S') = Cardinality(S) + 1
        BY <1>1, <2>1, FS_AddElement
    <2> HIDE DEF S
    <2>3. Cardinality(S') <= calls'
        BY <1>1, <1>2, <2>1, <2>2
    <2> QED
        BY <2>3 DEF StartsBounded, S
<1>6. ASSUME NEW t \in Thread, NEW b \in Batch,
             \/ EndBatch(t, b, "END") \/ EndBatch(t, b, "ABORT")
             \/ BatchOp(t, b, "PUT") \/ BatchOp(t, b, "DEL")
      PROVE  StartsBounded'
    BY <1>2, <1>3, <1>6, CallDoes
<1>7. ASSUME NEW m \in net, DeviceStart(m) \/ DeviceEnd(m) PROVE StartsBounded'
    BY <1>2, <1>3, <1>7, DeviceDoes
<1> QED
    BY <1>4, <1>5, <1>6, <1>7 DEF Next
-----------------------------------------------------------------------------
(* The ids of the batches.                                                 *)

\* Nothing but b_atom_inc on ks_bid makes or uses a new id.
LEMMA SameIds ==
    ASSUME IdsFresh, BidsUnique, ks_bid' = ks_bid, exhausted => exhausted',
           \A b \in Batch : kb'[b].bid = kb[b].bid,
           \A m \in net' : m \in net \/ \E b \in Batch :
                                             m.bid = kb[b].bid /\ m.bid # 0,
           \A x \in active' : x \in active \/ \E m \in net : x = m.bid
    PROVE  IdsFresh' /\ BidsUnique'
BY DEF IdsFresh, BidsUnique

LEMMA IdsStep ==
    ASSUME NoWrap, TypeInv, TypeInv', StagesOK, IdsFresh, BidsUnique,
           NEW t \in Thread, Step(t)
    PROVE  IdsFresh' /\ BidsUnique'
<1>0. Alone(t)
    BY StepAlone
<1>1. CASE TakeBid(t)
    <2> DEFINE b == thr[t].b
    <2>1. /\ (ks_bid + 1) % Modulus = ks_bid + 1 /\ ks_bid \in Int
          /\ kb[b].bid = 0
        BY <1>0, <1>1, TakeBidDoes, NextBid DEF Alone, TypeInv, TypeOK, KFIRSTBID,
           StagesOK, Starter, PcOK
    <2> SUFFICES ASSUME ~exhausted' PROVE IdsFresh' /\ BidsUnique'
        BY DEF IdsFresh, BidsUnique
    <2>2. CASE UNCHANGED <<kb, ks_bid>>
        BY <1>0, <1>1, <2>2, TakeBidDoes, SameIds DEF Alone
    <2>3. CASE kb'[b].bid = ks_bid /\ ks_bid' = ks_bid + 1
        <3>1. ~exhausted /\ net' = net /\ active' = active
            BY <1>0, <1>1, TakeBidDoes DEF Alone
        <3>2. \A a \in Batch : kb'[a].bid \in Int /\ kb[a].bid \in Int
            BY DEF TypeInv, TypeOK, KbType
        <3>3. \A m \in net : m.bid \in Int
            BY DEF TypeInv, TypeOK, MsgType
        <3>4. \A x \in active : x \in Int
            BY DEF TypeInv, TypeOK
        <3> QED
            BY <1>0, <2>1, <2>3, <3>1, <3>2, <3>3, <3>4 DEF Alone, IdsFresh, BidsUnique
    <2> QED
        BY <1>1, <2>1, <2>2, <2>3, TakeBidDoes
<1>2. CASE SendBatch(t)
    <2>1. kb[thr[t].b].bid # 0
        BY <1>2, SendBatchDoes DEF TypeInv, IdsOK
    <2> QED
        BY <1>0, <1>2, <2>1, SendBatchDoes, SameIds DEF Alone
<1>3. CASE CountBatch(t) \/ CheckLimit(t) \/ BuildFails(t) \/ UndoCount(t)
           \/ CompleteBatch(t) \/ LoseBatch(t) \/ UncountBatch(t)
           \/ CountOp(t) \/ CheckOp(t) \/ SendOp(t)
    <2>1. /\ ks_bid' = ks_bid /\ net' = net /\ (exhausted => exhausted')
          /\ kb'[thr[t].b].bid = kb[thr[t].b].bid
        BY <1>3, CountBatchDoes, CheckLimitDoes, BuildFailsDoes, UndoCountDoes,
           CompleteBatchDoes, LoseBatchDoes, UncountBatchDoes, CountOpDoes,
           CheckOpDoes, SendOpDoes DEF SameLife
    <2> QED
        BY <1>0, <2>1, SameIds DEF Alone
<1> QED
    BY <1>1, <1>2, <1>3 DEF Step

LEMMA IdsNext ==
    ASSUME NoWrap, TypeInv, TypeInv', StagesOK, IdsFresh, BidsUnique, Next
    PROVE  IdsFresh' /\ BidsUnique'
<1>1. ASSUME NEW t \in Thread, NEW b \in Batch, StartBatch(t, b)
      PROVE  IdsFresh' /\ BidsUnique'
    BY <1>1, StartBatchDoes, SameIds
<1>2. ASSUME NEW t \in Thread, NEW b \in Batch,
             \/ EndBatch(t, b, "END") \/ EndBatch(t, b, "ABORT")
             \/ BatchOp(t, b, "PUT") \/ BatchOp(t, b, "DEL")
      PROVE  IdsFresh' /\ BidsUnique'
    BY <1>2, CallDoes, SameIds
<1>3. ASSUME NEW m \in net, DeviceStart(m) \/ DeviceEnd(m)
      PROVE  IdsFresh' /\ BidsUnique'
    BY <1>3, DeviceDoes, SameIds
<1> QED
    BY <1>1, <1>2, <1>3, IdsStep DEF Next

\* The part of the invariant that makes the ids unique.
IdInv == TypeInv /\ StagesOK /\ StartsBounded /\ IdsFresh /\ BidsUnique

LEMMA IdInit == Init => IdInv
<1> SUFFICES ASSUME Init PROVE IdInv
    OBVIOUS
<1>1. {b \in Batch : kb[b].start # "none"} = {}
    BY DEF Init, NoKb
<1>2. StartsBounded
    BY <1>1, FS_EmptySet DEF Init, StartsBounded
<1>3. IdsFresh /\ BidsUnique
    BY DEF Init, IdsFresh, BidsUnique, NoKb
<1> QED
    BY <1>2, <1>3, TypeInit, StagesInit DEF IdInv

LEMMA IdNext ==
    ASSUME NoWrap, IdInv, [Next]_vars
    PROVE  IdInv'
<1> USE DEF IdInv
<1>0. TypeInv'
    BY TypeNext
<1>1. CASE UNCHANGED vars
    BY <1>0, <1>1 DEF vars, StagesOK, Starter, StartsBounded, IdsFresh, BidsUnique
<1>2. CASE Next
    <2>1. StagesOK'
        BY <1>0, <1>2, StagesStep, StagesOthers DEF Next
    <2> QED
        BY <1>0, <1>2, <2>1, StartsNext, IdsNext
<1> QED
    BY <1>1, <1>2

LEMMA IdAlways ==
    ASSUME NoWrap
    PROVE  Spec => []IdInv
BY IdInit, IdNext, PTL DEF Spec

\* However the threads interleave in b_atom_inc, two batches never get the
\* same id unless a call has used up its retries.
THEOREM BidsAreUnique ==
    ASSUME NoWrap
    PROVE  Spec => []BidsUnique
<1>1. IdInv => BidsUnique
    BY DEF IdInv
<1> QED
    BY <1>1, IdAlways, PTL
-----------------------------------------------------------------------------
(* The entitlement to take a batch off the count.                          *)

\* A step that moves no entitlement on: messages, open batches and answers
\* only disappear.
LEMMA TokenKept ==
    ASSUME OnePlace, SentFirst, Known,
           \A b \in Batch : kb'[b].bid = kb[b].bid,
           \A m \in net' : \/ m \in net
                           \/ m.type # "START" /\ \E b \in Batch : kb[b].bid = m.bid,
           active' \subseteq active,
           \A t \in Thread, b \in Batch : Ending(t, b)' => Ending(t, b),
           \A b \in Batch : Ended(b)' => Ended(b),
           \A b \in Batch : Entitled(b) /\ Sent(b) => Sent(b)'
    PROVE  OnePlace' /\ SentFirst' /\ Known'
<1>1. ASSUME NEW b \in Batch
      PROVE  (Starting(b)' => Starting(b)) /\ (Open(b)' => Open(b))
    BY DEF Starting, Open
<1>2. OnePlace'
    <2>1. \A m, n \in net' :
              m.type = "START" /\ n.type = "START" /\ m.bid = n.bid => m = n
        BY DEF OnePlace
    <2> QED
        BY <1>1, <2>1 DEF OnePlace
<1>3. SentFirst'
    BY <1>1 DEF SentFirst, Entitled
<1>4. Known'
    BY DEF Known
<1> QED
    BY <1>2, <1>3, <1>4

\* Before its request is sent a batch that is being started has none.
LEMMA NotEntitled ==
    ASSUME TypeInv, StagesOK, SentFirst, NEW t \in Thread,
           NEW b \in Batch, Starter(t, b), thr[t].pc # "wait"
    PROVE  ~Entitled(b)
BY DEF StagesOK, SentFirst, Sent, Starter, Created

LEMMA TokenTakeBid ==
    ASSUME NoWrap, IdInv, TypeInv', ~exhausted', OnePlace, SentFirst, Known,
           NEW t \in Thread, TakeBid(t)
    PROVE  OnePlace' /\ SentFirst' /\ Known'
<1>0. Alone(t)
    BY StepAlone DEF Step, IdInv
<1>1. PICK b \in Batch : b = thr[t].b
    BY <1>0 DEF Alone
<1>2. Starter(t, b) /\ thr[t].pc = "bid" /\ kb[b].bid = 0 /\ kb[b].start = "starting"
    BY <1>1, TakeBidDoes DEF IdInv, TypeInv, PcOK, StagesOK, Starter
<1>3. ~Entitled(b)
    BY <1>1, <1>2, NotEntitled DEF IdInv
<1>4. \A u \in Thread, a \in Batch :
          (Ending(u, a)' => Ending(u, a)) /\ (Ended(a)' => Ended(a))
    BY <1>0, <1>1, <1>2, TakeBidDoes DEF Alone, Ending, Ended, GoesTo, Starter, IdInv
<1>5. \A a \in Batch : a # b /\ Sent(a) => Sent(a)'
    BY <1>0, <1>1, <1>2 DEF Sent, Starter, Alone
<1>6. CASE UNCHANGED <<kb, ks_bid>>
    <2>1. net' = net /\ active' = active
        BY <1>0, <1>1, TakeBidDoes DEF Alone, IdInv
    <2> QED
        BY <1>3, <1>4, <1>5, <1>6, <2>1, TokenKept DEF Known
<1>7. CASE kb'[b].bid = ks_bid
    <2>1. /\ net' = net /\ active' = active /\ ~exhausted
          /\ \A a \in Batch : a # b => kb'[a] = kb[a]
        BY <1>0, <1>1, TakeBidDoes DEF Alone, IdInv
    <2>2. (\A m \in net : m.bid # ks_bid /\ m.bid # 0) /\ ks_bid \notin active
          /\ 0 \notin active
        BY <2>1 DEF IdInv, TypeInv, TypeOK, IdsFresh, MsgType, KFIRSTBID
    <2>3. ~Starting(b)' /\ ~Open(b)' /\ ~Ended(b)' /\ \A u \in Thread : ~Ending(u, b)'
        BY <1>1, <1>3, <1>4, <1>7, <2>1, <2>2 DEF Entitled, Starting, Open
    <2>4. \A a \in Batch : a # b => (Starting(a)' <=> Starting(a)) /\ (Open(a)' <=> Open(a))
        BY <2>1 DEF Starting, Open
    <2>5. OnePlace'
        BY <1>4, <2>1, <2>3, <2>4 DEF OnePlace
    <2>6. SentFirst'
        BY <1>4, <1>5, <2>3, <2>4 DEF SentFirst, Entitled
    <2>7. Known'
        BY <1>2, <2>1, <2>2 DEF Known
    <2> QED
        BY <2>5, <2>6, <2>7
<1> QED
    BY <1>1, <1>6, <1>7, TakeBidDoes DEF IdInv
\* The request of a start is new: no other message carries the id.
LEMMA TokenSendBatch ==
    ASSUME IdInv, TypeInv', ~exhausted', OnePlace, SentFirst, Known,
           NEW t \in Thread, SendBatch(t)
    PROVE  OnePlace' /\ SentFirst' /\ Known'
<1>0. Alone(t)
    BY StepAlone DEF Step, IdInv
<1>1. PICK b \in Batch : b = thr[t].b
    BY <1>0 DEF Alone
<1>2. PICK r : /\ net' = net \cup {r} /\ r.type = thr[t].type
               /\ r.bid = kb[b].bid
    <2> DEFINE q == [t |-> t, type |-> thr[t].type, bid |-> kb[b].bid,
                     count |-> kb[b].ops]
    <2>1. net' = net \cup {q} /\ q.type = thr[t].type /\ q.bid = kb[b].bid
        BY <1>1, SendBatchDoes DEF IdInv
    <2> QED
        BY <2>1
<1>3. /\ active' = active /\ kb' = kb /\ ~exhausted /\ kb[b].bid # 0
      /\ thr[t].pc = "build" /\ GoesTo(t, "wait")
    BY <1>0, <1>1, SendBatchDoes DEF IdInv, Alone, TypeInv, IdsOK
<1>4. \A a \in Batch : (Open(a)' <=> Open(a)) /\ (Ended(a)' <=> Ended(a))
    BY <1>3 DEF Open, Ended
<1>5. CASE thr[t].type # "START"
    <2>1. thr[t].resp = "none"
        BY <1>3 DEF IdInv, TypeInv, PcOK
    <2>2. \A u \in Thread, a \in Batch :
              (Ending(u, a)' => Ending(u, a)) /\ (Sent(a) => Sent(a)')
        BY <1>0, <1>3, <1>5, <2>1 DEF Alone, Ending, Sent, Starter, GoesTo
    <2> QED
        BY <1>1, <1>2, <1>3, <1>4, <1>5, <2>2, TokenKept
<1>6. CASE thr[t].type = "START"
    <2>1. Starter(t, b) /\ ~Entitled(b)
        BY <1>1, <1>3, <1>6, NotEntitled DEF Starter, IdInv
    <2>2. \A u \in Thread, a \in Batch : Ending(u, a)' => Ending(u, a)
        BY <1>0, <1>3, <1>6 DEF Alone, Ending, GoesTo
    <2>3. \A a \in Batch : (Sent(a) => Sent(a)') /\ Sent(b)'
        BY <1>0, <1>1, <1>3, <1>6 DEF Alone, Sent, Starter, GoesTo
    <2>4. \A a \in Batch : a # b => kb[a].bid # kb[b].bid
        BY <1>3 DEF IdInv, BidsUnique
    <2>5. \A a \in Batch : Starting(a)' => Starting(a) \/ a = b
        BY <1>2, <1>3, <2>4 DEF Starting
    <2>6. \A m \in net : m.type = "START" => m.bid # kb[b].bid
        BY <2>1 DEF Entitled, Starting
    <2>7. OnePlace'
        <3>1. \A m, n \in net' :
                  m.type = "START" /\ n.type = "START" /\ m.bid = n.bid => m = n
            BY <1>2, <2>6 DEF OnePlace
        <3> QED
            BY <1>4, <2>1, <2>2, <2>5, <3>1 DEF OnePlace, Entitled
    <2>8. SentFirst'
        BY <1>4, <2>2, <2>3, <2>5 DEF SentFirst, Entitled
    <2>9. Known'
        BY <1>2, <1>3 DEF Known
    <2> QED
        BY <2>7, <2>8, <2>9
<1> QED
    BY <1>5, <1>6

\* The thread that was told of the success marks the batch as ended.
LEMMA TokenUncountBatch ==
    ASSUME IdInv, TypeInv', ~exhausted', OnePlace, SentFirst, Known,
           NEW t \in Thread, UncountBatch(t)
    PROVE  OnePlace' /\ SentFirst' /\ Known'
<1>0. Alone(t)
    BY StepAlone DEF Step, IdInv
<1>1. PICK b \in Batch : b = thr[t].b
    BY <1>0 DEF Alone
<1>2. /\ active' = active /\ net' = net /\ Ending(t, b)
      /\ thr[t].pc = "dec" /\ thr[t].type # "START"
      /\ \A a \in Batch : kb'[a].bid = kb[a].bid /\ kb'[a].start = kb[a].start
    BY <1>0, <1>1, UncountBatchDoes DEF Alone, IdInv, TypeInv, PcOK, Ending
<1>3. \A a \in Batch : (Starting(a)' <=> Starting(a)) /\ (Open(a)' <=> Open(a))
    BY <1>2 DEF Starting, Open
<1>4. \A a \in Batch : Sent(a) => Sent(a)'
    BY <1>0, <1>2 DEF Sent, Starter, Alone
<1>5. Known'
    BY <1>2 DEF Known
<1>6. CASE UNCHANGED kb /\ GoesTo(t, "dec")
    <2>1. \A u \in Thread, a \in Batch : Ending(u, a)' => Ending(u, a)
        BY <1>0, <1>1, <1>2, <1>6 DEF Ending, Alone, GoesTo
    <2> QED
        BY <1>2, <1>4, <1>6, <2>1, TokenKept DEF Ended
<1>7. CASE thr'[t] = Idle
    <2>1. \A u \in Thread, a \in Batch : Ending(u, a)' => Ending(u, a) /\ u # t
        BY <1>0, <1>7 DEF Ending, Alone, Idle
    <2>2. \A a \in Batch : Ended(a)' => Ended(a) \/ a = b
        BY <1>0, <1>1 DEF Ended, Alone
    <2>3. ~Starting(b) /\ ~Open(b) /\ ~Ended(b) /\ \A u \in Thread : Ending(u, b) => u = t
        BY <1>2 DEF OnePlace
    <2>4. OnePlace'
        <3>1. \A m, n \in net' :
                  m.type = "START" /\ n.type = "START" /\ m.bid = n.bid => m = n
            BY <1>2 DEF OnePlace
        <3> QED
            BY <1>3, <2>1, <2>2, <2>3, <3>1 DEF OnePlace
    <2>5. SentFirst'
        BY <1>2, <1>3, <1>4, <2>1, <2>2 DEF SentFirst, Entitled
    <2> QED
        BY <1>5, <2>4, <2>5
<1> QED
    BY <1>6, <1>7, UncountBatchDoes DEF IdInv
\* The other steps of a thread move no entitlement on.
LEMMA TokenStep ==
    ASSUME NoWrap, IdInv, TypeInv', ~exhausted', OnePlace, SentFirst, Known,
           NEW t \in Thread, Step(t)
    PROVE  OnePlace' /\ SentFirst' /\ Known'
<1>0. Alone(t) /\ TypeInv /\ PcOK /\ StagesOK
    BY StepAlone DEF IdInv, TypeInv
<1>1. PICK b \in Batch : b = thr[t].b
    BY <1>0 DEF Alone
<1>2. CASE TakeBid(t) \/ SendBatch(t) \/ UncountBatch(t)
    BY <1>2, TokenTakeBid, TokenSendBatch, TokenUncountBatch
<1>3. CASE CountBatch(t) \/ CheckLimit(t) \/ BuildFails(t) \/ UndoCount(t)
           \/ CompleteBatch(t) \/ LoseBatch(t)
           \/ CountOp(t) \/ CheckOp(t) \/ SendOp(t)
    <2>1. /\ net' = net /\ kb'[b].bid = kb[b].bid
          /\ kb'[b].end = "ok" => kb[b].end = "ok"
          /\ \/ thr'[t].pc \in {"idle", "limit", "bats", "build", "undo", "check",
                                "opsend"}
             \/ thr'[t].pc = "dec" /\ GoesTo(t, "dec") /\ thr[t].resp = "OK"
                /\ thr[t].type # "START" /\ thr[t].pc = "wait"
        BY <1>0, <1>1, <1>3, CountBatchDoes, CheckLimitDoes, BuildFailsDoes, UndoCountDoes,
           CompleteBatchDoes, LoseBatchDoes, CountOpDoes, CheckOpDoes, SendOpDoes
           DEF SameLife, GoesTo, Idle
    <2>2. \/ thr[t].type # "START" /\ kb'[b].start = kb[b].start
          \/ Starter(t, b) /\ thr[t].pc # "wait"
          \/ kb'[b].start \in Created \ {"refused"}
        BY <1>0, <1>1, <1>3, CountBatchDoes, CheckLimitDoes, BuildFailsDoes, UndoCountDoes,
           CompleteBatchDoes, LoseBatchDoes, CountOpDoes, CheckOpDoes, SendOpDoes
           DEF SameLife, PcOK, Starter
    <2>3. \A a \in Batch : kb'[a].bid = kb[a].bid /\ (Ended(a)' => Ended(a))
        BY <1>0, <1>1, <2>1 DEF Alone, Ended
    <2>4. \A u \in Thread, a \in Batch : Ending(u, a)' => Ending(u, a)
        <3>1. ASSUME NEW a \in Batch PROVE Ending(t, a)' => Ending(t, a)
            BY <1>0, <2>1 DEF Ending, GoesTo, PcOK, BatchTypes
        <3> QED
            BY <1>0, <3>1 DEF Alone, Ending
    <2>5. \A a \in Batch : Entitled(a) /\ Sent(a) => Sent(a)'
        <3>1. ASSUME NEW a \in Batch, a # b, Sent(a) PROVE Sent(a)'
            BY <1>0, <1>1, <3>1 DEF Sent, Starter, Alone
        <3>2. ASSUME Entitled(b), Sent(b) PROVE Sent(b)'
            <4>1. CASE thr[t].type # "START" /\ kb'[b].start = kb[b].start
                BY <1>0, <3>2, <4>1 DEF Sent, Starter, Alone
            <4>2. CASE Starter(t, b) /\ thr[t].pc # "wait"
                BY <1>0, <3>2, <4>2, NotEntitled
            <4>3. CASE kb'[b].start \in Created \ {"refused"}
                BY <4>3 DEF Sent
            <4> QED
                BY <2>2, <4>1, <4>2, <4>3
        <3> QED
            BY <3>1, <3>2
    <2> QED
        BY SMTT(60), <1>0, <2>1, <2>3, <2>4, <2>5, TokenKept DEF Alone
<1> QED
    BY <1>2, <1>3 DEF Step

\* Nor does a new call.
LEMMA TokenCall ==
    ASSUME IdInv, ~exhausted', OnePlace, SentFirst, Known,
           NEW t \in Thread, NEW b \in Batch,
           \/ StartBatch(t, b)
           \/ EndBatch(t, b, "END") \/ EndBatch(t, b, "ABORT")
           \/ BatchOp(t, b, "PUT") \/ BatchOp(t, b, "DEL")
    PROVE  OnePlace' /\ SentFirst' /\ Known'
<1>0. TypeInv /\ PcOK
    BY DEF IdInv, TypeInv
<1>1. /\ UNCHANGED <<net, active>> /\ thr[t].pc = "idle"
      /\ \A a \in Batch : kb'[a].bid = kb[a].bid /\ kb'[a].end = kb[a].end
      /\ \A a \in Batch : \/ kb'[a].start = kb[a].start
                          \/ kb[a].start = "none"
      /\ \A u \in Thread : u # t => thr'[u] = thr[u]
      /\ thr'[t].pc \notin {"wait", "dec"}
    BY <1>0, StartBatchDoes, CallDoes
<1>2. \A u \in Thread, a \in Batch :
          /\ Ending(u, a)' => Ending(u, a)
          /\ Ended(a)' => Ended(a)
          /\ Sent(a) => Sent(a)'
    BY <1>1 DEF Ending, Ended, Sent, Starter, Created
<1> QED
    BY <1>1, <1>2, TokenKept

\* The device turns a start request into an open batch, and an open batch into
\* the success of one end or abort.
LEMMA TokenDevice ==
    ASSUME IdInv, ~exhausted', OnePlace, SentFirst, Known,
           NEW m \in net, DeviceStart(m) \/ DeviceEnd(m)
    PROVE  OnePlace' /\ SentFirst' /\ Known'
<1>0. TypeInv /\ PcOK /\ ~exhausted /\ m.bid # 0 /\ BidsUnique
    BY DeviceDoes DEF IdInv, TypeInv, TypeOK, KFIRSTBID
<1>1. PICK b \in Batch : kb[b].bid = m.bid
    BY DEF Known
<1>2. \A a \in Batch : kb[a].bid = m.bid => a = b
    BY <1>0, <1>1 DEF BidsUnique
<1>3. net' = net \ {m} /\ kb' = kb
    BY <1>0, DeviceDoes
<1>4. \A a \in Batch : (Sent(a) => Sent(a)') /\ (Ended(a)' <=> Ended(a))
    BY <1>0, <1>3, DeviceDoes DEF Sent, Starter, Ended
<1>5. \A m1, m2 \in net' :
          m1.type = "START" /\ m2.type = "START" /\ m1.bid = m2.bid => m1 = m2
    BY <1>3 DEF OnePlace
<1>6. \A a \in Batch : Starting(a)' => Starting(a)
    BY <1>3 DEF Starting
<1>7. Known'
    BY <1>0, <1>1, <1>3, DeviceDoes DEF Known
<1>8. CASE m.type = "START"
    <2>1. \A u \in Thread, a \in Batch : Ending(u, a)' => Ending(u, a)
        BY <1>0, <1>8, DeviceDoes DEF Ending
    <2>2. \A a \in Batch : Open(a)' => Open(a) \/ a = b
        BY <1>0, <1>2, <1>3, <1>8, DeviceDoes DEF Open
    <2>3. Starting(b) /\ ~Starting(b)'
        BY <1>1, <1>3, <1>8 DEF Starting, OnePlace
    <2>4. OnePlace'
        BY <1>4, <1>5, <1>6, <2>1, <2>2, <2>3 DEF OnePlace
    <2>5. SentFirst'
        BY <1>4, <1>6, <2>1, <2>2, <2>3 DEF SentFirst, Entitled
    <2> QED
        BY <1>7, <2>4, <2>5
<1>9. CASE m.type # "START"
    <2>1. ~Open(b)' /\ \A a \in Batch : Open(a)' => Open(a)
        BY <1>0, <1>1, <1>3, <1>9, DeviceDoes DEF Open
    <2>2. \A u \in Thread, a \in Batch :
              Ending(u, a)' => Ending(u, a) \/ (a = b /\ u = m.t /\ Open(b))
        BY <1>0, <1>1, <1>2, <1>9, DeviceDoes DEF Ending, Open, PcOK
    <2>3. OnePlace'
        BY <1>4, <1>5, <1>6, <2>1, <2>2 DEF OnePlace
    <2>4. SentFirst'
        BY <1>4, <1>6, <2>1, <2>2 DEF SentFirst, Entitled
    <2> QED
        BY <1>7, <2>3, <2>4
<1> QED
    BY <1>8, <1>9
-----------------------------------------------------------------------------
(* The count of batches.                                                   *)

\* What a step does to the batches that hold a slot, and to those of them that
\* will be sent: all stay as they are, ...
SlotsKept ==
    Holders' = Holders /\ ks_bats' = ks_bats /\ Admitted' \subseteq Admitted

\* ... or one that passes the test, or will fail it, comes in, ...
SlotTaken(b) ==
    /\ b \notin Holders /\ Holders' = Holders \cup {b}
    /\ ks_bats' = (ks_bats + 1) % Modulus
    /\ \/ Admitted' \subseteq Admitted
       \/ ~Over(ks_bats, DevBats) /\ Admitted' \subseteq Admitted \cup {b}

\* ... or one goes.
SlotGiven(b) ==
    /\ b \in Holders /\ Holders' = Holders \ {b}
    /\ ks_bats' = (ks_bats - 1) % Modulus
    /\ Admitted' \subseteq Admitted

\* When holding and being doomed change for no batch but b.
LEMMA SlotFrame ==
    ASSUME NEW b \in Batch,
           \A a \in Batch : a # b => (HoldsSlot(a)' <=> HoldsSlot(a)),
           \A a \in Batch : a # b => (Doomed(a)' <=> Doomed(a))
    PROVE  /\ HoldsSlot(b) /\ ~HoldsSlot(b)' =>
                  Holders' = Holders \ {b} /\ Admitted' \subseteq Admitted
           /\ ~HoldsSlot(b) /\ HoldsSlot(b)' =>
                  /\ Holders' = Holders \cup {b} /\ Admitted' \subseteq Admitted \cup {b}
                  /\ Doomed(b)' => Admitted' \subseteq Admitted
           /\ (HoldsSlot(b) <=> HoldsSlot(b)') /\ (Doomed(b) => Doomed(b)') =>
                  Holders' = Holders /\ Admitted' \subseteq Admitted
BY DEF Holders, Admitted

\* A thread changes the standing of its own batch only.
LEMMA SlotAlone ==
    ASSUME NEW t \in Thread, NEW b \in Batch, Alone(t), b = thr[t].b,
           thr'[t] = Idle \/ thr'[t].b = b
    PROVE  /\ \A a \in Batch : a # b => (HoldsSlot(a)' <=> HoldsSlot(a))
           /\ \A a \in Batch : a # b => (Doomed(a)' <=> Doomed(a))
BY DEF Alone, HoldsSlot, Doomed, Starter, Idle

\* The one thread that starts a batch decides on its standing, before and
\* after a step.
LEMMA SlotStarter ==
    ASSUME NEW t \in Thread, NEW b \in Batch
    PROVE  /\ StagesOK /\ Starter(t, b) =>
                  /\ HoldsSlot(b) <=> thr[t].pc \in {"limit", "build", "wait", "undo"}
                  /\ Doomed(b) <=> \/ thr[t].pc = "undo"
                                   \/ thr[t].pc = "limit" /\ Over(thr[t].v, DevBats)
           /\ (StagesOK /\ Starter(t, b))' =>
                  /\ HoldsSlot(b)' <=> thr'[t].pc \in {"limit", "build", "wait", "undo"}
                  /\ Doomed(b)' <=> \/ thr'[t].pc = "undo"
                                    \/ thr'[t].pc = "limit" /\ Over(thr'[t].v, DevBats)
BY DEF StagesOK, HoldsSlot, Doomed, Starter, Created

\* When no thread is starting it, the batch decides itself.
LEMMA SlotAfter ==
    ASSUME NEW b \in Batch
    PROVE  /\ (\A u \in Thread : ~Starter(u, b)) =>
                  /\ HoldsSlot(b) <=>
                         kb[b].start \in Created \ {"refused"} /\ kb[b].end # "ok"
                  /\ ~Doomed(b)
           /\ (\A u \in Thread : ~Starter(u, b)') =>
                  /\ HoldsSlot(b)' <=>
                         kb'[b].start \in Created \ {"refused"} /\ kb'[b].end # "ok"
                  /\ ~Doomed(b)'
BY DEF HoldsSlot, Doomed, Starter

LEMMA SlotStep ==
    ASSUME IdInv, TypeInv', StagesOK', ~exhausted', OnePlace, SentFirst,
           NEW t \in Thread, Step(t)
    PROVE  SlotsKept \/ \E b \in Batch : SlotTaken(b) \/ SlotGiven(b)
<1>0. Alone(t) /\ TypeInv /\ PcOK /\ StagesOK /\ PcOK'
    BY StepAlone DEF IdInv, TypeInv
<1>1. PICK b \in Batch : b = thr[t].b
    BY <1>0 DEF Alone
<1>2. ASSUME thr'[t] = Idle \/ thr'[t].b = b
      PROVE  /\ \A a \in Batch : a # b => (HoldsSlot(a)' <=> HoldsSlot(a))
             /\ \A a \in Batch : a # b => (Doomed(a)' <=> Doomed(a))
    BY <1>0, <1>1, <1>2, SlotAlone
<1>3. ASSUME thr'[t] = Idle \/ thr'[t].b = b, ks_bats' = ks_bats,
             HoldsSlot(b)' <=> HoldsSlot(b), Doomed(b) => Doomed(b)'
      PROVE  SlotsKept
    BY <1>2, <1>3, SlotFrame DEF SlotsKept
<1>4. CASE TakeBid(t)
    BY <1>0, <1>1, <1>3, <1>4, TakeBidDoes, SlotStarter DEF GoesTo, PcOK, Starter
<1>5. CASE CountBatch(t)
    <2>1. Starter(t, b) /\ Starter(t, b)' /\ thr'[t].b = b
        BY <1>0, <1>1, <1>5, CountBatchDoes DEF GoesTo, PcOK, Starter
    <2>2. CASE GoesTo(t, "bats") /\ ks_bats' = ks_bats
        BY <1>0, <1>3, <1>5, <2>1, <2>2, CountBatchDoes, SlotStarter DEF GoesTo
    <2>3. CASE GoesTo(t, "limit") /\ thr'[t].v = ks_bats
               /\ ks_bats' = (ks_bats + 1) % Modulus
        <3>1. ~HoldsSlot(b) /\ HoldsSlot(b)' /\ (Over(ks_bats, DevBats) => Doomed(b)')
            BY <1>0, <1>5, <2>1, <2>3, CountBatchDoes, SlotStarter DEF GoesTo
        <3> QED
            BY <1>2, <2>1, <2>3, <3>1, SlotFrame DEF SlotTaken, Holders
    <2> QED
        BY <1>0, <1>5, <2>2, <2>3, CountBatchDoes
<1>6. CASE CheckLimit(t)
    <2>1. Starter(t, b) /\ Starter(t, b)' /\ thr'[t].b = b
        BY <1>0, <1>1, <1>6, CheckLimitDoes DEF GoesTo, PcOK, Starter
    <2>2. HoldsSlot(b) /\ HoldsSlot(b)'
        BY <1>0, <1>6, <2>1, CheckLimitDoes, SlotStarter DEF GoesTo
    <2>3. Doomed(b) => Doomed(b)'
        BY <1>0, <1>6, <2>1, CheckLimitDoes, SlotStarter DEF GoesTo
    <2> QED
        BY <1>0, <1>3, <1>6, <2>1, <2>2, <2>3, CheckLimitDoes
<1>7. CASE BuildFails(t) /\ thr[t].type = "START"
    <2>1. Starter(t, b) /\ Starter(t, b)' /\ thr'[t].b = b
        BY <1>0, <1>1, <1>7, BuildFailsDoes DEF GoesTo, Starter
    <2> QED
        BY <1>0, <1>3, <1>7, <2>1, BuildFailsDoes, SlotStarter DEF GoesTo
<1>8. CASE SendBatch(t) /\ thr[t].type = "START"
    <2>1. Starter(t, b) /\ Starter(t, b)' /\ thr'[t].b = b
        BY <1>0, <1>1, <1>8, SendBatchDoes DEF GoesTo, Starter
    <2> QED
        BY <1>0, <1>3, <1>8, <2>1, SendBatchDoes, SlotStarter DEF GoesTo
<1>9. ASSUME Starter(t, b), thr'[t] = Idle
      PROVE  \A u \in Thread : ~Starter(u, b)'
    BY <1>0, <1>9 DEF StagesOK, Alone, Starter, Idle
<1>10. CASE UndoCount(t)
    <2>1. Starter(t, b) /\ thr[t].pc = "undo" /\ HoldsSlot(b)
        BY <1>0, <1>1, <1>10, UndoCountDoes, SlotStarter DEF PcOK, Starter
    <2>2. CASE GoesTo(t, "undo") /\ ks_bats' = ks_bats
        BY <1>0, <1>1, <1>3, <2>1, <2>2, SlotStarter DEF GoesTo, Starter
    <2>3. CASE thr'[t] = Idle /\ ks_bats' = (ks_bats - 1) % Modulus
        <3>1. kb'[b].start = "refused"
            BY <1>0, <1>1, <1>10, <2>3, UndoCountDoes DEF GoesTo, Idle
        <3>2. ~HoldsSlot(b)'
            BY <1>9, <2>1, <2>3, <3>1, SlotAfter
        <3> QED
            BY <1>2, <2>1, <2>3, <3>2, SlotFrame DEF SlotGiven, Holders
    <2> QED
        BY <1>0, <1>10, <2>2, <2>3, UndoCountDoes
<1>11. CASE (CompleteBatch(t) \/ LoseBatch(t)) /\ thr[t].type = "START"
    <2>1. /\ Starter(t, b) /\ thr[t].pc = "wait" /\ thr'[t] = Idle
          /\ kb'[b].start \in Created \ {"refused"} /\ kb'[b].end = kb[b].end
          /\ ks_bats' = ks_bats
        BY <1>0, <1>1, <1>11, CompleteBatchDoes, LoseBatchDoes DEF Starter
    <2>2. kb[b].end # "ok"
        BY <1>0, <2>1 DEF StagesOK
    <2>3. HoldsSlot(b) /\ ~Doomed(b) /\ HoldsSlot(b)'
        BY <1>0, <1>9, <2>1, <2>2, SlotStarter, SlotAfter
    <2> QED
        BY <1>3, <2>1, <2>3
<1>12. ASSUME thr[t].type # "START", kb'[b].start = kb[b].start, ks_bats' = ks_bats,
              kb'[b].end = "ok" <=> kb[b].end = "ok",
              thr'[t] = Idle \/ (thr'[t].b = b /\ thr'[t].type # "START")
       PROVE  SlotsKept
    <2>1. (HoldsSlot(b)' <=> HoldsSlot(b)) /\ (Doomed(b)' <=> Doomed(b))
        BY <1>0, <1>12 DEF HoldsSlot, Doomed, Starter, Alone, Idle
    <2> QED
        BY <1>3, <1>12, <2>1
<1>13. CASE \/ CountOp(t) \/ CheckOp(t) \/ SendOp(t)
            \/ /\ thr[t].type # "START"
               /\ BuildFails(t) \/ SendBatch(t) \/ CompleteBatch(t) \/ LoseBatch(t)
    <2>1. /\ thr[t].type # "START" /\ kb'[b].start = kb[b].start /\ ks_bats' = ks_bats
          /\ kb'[b].end = "ok" <=> kb[b].end = "ok"
          /\ thr'[t] = Idle \/ (thr'[t].b = b /\ thr'[t].type # "START")
        BY <1>0, <1>1, <1>13, CountOpDoes, CheckOpDoes, SendOpDoes, BuildFailsDoes,
           SendBatchDoes, CompleteBatchDoes, LoseBatchDoes DEF PcOK, GoesTo, SameLife
    <2> QED
        BY <1>12, <2>1
<1>14. CASE UncountBatch(t)
    <2>1. /\ thr[t].pc = "dec" /\ thr[t].type \in {"END", "ABORT"} /\ Ending(t, b)
          /\ kb[b].start \in Created
        BY <1>0, <1>1, <1>14, UncountBatchDoes DEF PcOK, Ending, StagesOK
    <2>2. CASE GoesTo(t, "dec") /\ UNCHANGED <<kb, ks_bats>>
        BY <1>1, <1>12, <2>1, <2>2 DEF GoesTo
    <2>3. CASE thr'[t] = Idle /\ ks_bats' = (ks_bats - 1) % Modulus
        <3>1. (\A u \in Thread : ~Starter(u, b)) /\ \A u \in Thread : ~Starter(u, b)'
            BY <1>0, <2>1, <2>3 DEF StagesOK, Alone, Starter, Idle, Created
        <3>2. kb[b].start \in Created \ {"refused"} /\ ~Ended(b)
            BY <2>1, <3>1 DEF SentFirst, Entitled, Sent, OnePlace
        <3>3. kb'[b].end = "ok"
            BY <1>0, <1>1, <1>14, <2>3, UncountBatchDoes DEF GoesTo, Idle
        <3>4. HoldsSlot(b) /\ ~HoldsSlot(b)'
            BY <3>1, <3>2, <3>3, SlotAfter DEF Ended
        <3> QED
            BY <1>2, <2>3, <3>4, SlotFrame DEF SlotGiven, Holders
    <2> QED
        BY <1>0, <1>14, <2>2, <2>3, UncountBatchDoes
<1> QED
    BY <1>4, <1>5, <1>6, <1>7, <1>8, <1>10, <1>11, <1>13, <1>14 DEF Step
\* New calls and the device leave the count alone.
LEMMA SlotOthers ==
    ASSUME IdInv, TypeInv',
           \/ \E t \in Thread, b \in Batch :
                  \/ StartBatch(t, b)
                  \/ EndBatch(t, b, "END") \/ EndBatch(t, b, "ABORT")
                  \/ BatchOp(t, b, "PUT") \/ BatchOp(t, b, "DEL")
           \/ \E m \in net : DeviceStart(m) \/ DeviceEnd(m)
    PROVE  SlotsKept
<1>0. TypeInv /\ PcOK /\ StagesOK
    BY DEF IdInv, TypeInv
<1>1. ASSUME NEW t \in Thread, NEW b \in Batch, StartBatch(t, b) PROVE SlotsKept
    <2>1. \A a \in Batch : /\ HoldsSlot(a)' <=> HoldsSlot(a)
                           /\ Doomed(a)' <=> Doomed(a)
        BY <1>0, <1>1, StartBatchDoes DEF HoldsSlot, Doomed, Starter, PcOK, StagesOK,
           Created
    <2> QED
        BY <1>0, <1>1, <2>1, StartBatchDoes DEF SlotsKept, Holders, Admitted
<1>2. ASSUME NEW t \in Thread, NEW b \in Batch,
             \/ EndBatch(t, b, "END") \/ EndBatch(t, b, "ABORT")
             \/ BatchOp(t, b, "PUT") \/ BatchOp(t, b, "DEL")
      PROVE  SlotsKept
    <2>1. \A a \in Batch : /\ HoldsSlot(a)' <=> HoldsSlot(a)
                           /\ Doomed(a)' <=> Doomed(a)
        BY <1>0, <1>2, CallDoes DEF HoldsSlot, Doomed, Starter, PcOK
    <2> QED
        BY <1>0, <1>2, <2>1, CallDoes DEF SlotsKept, Holders, Admitted
<1>3. ASSUME NEW m \in net, DeviceStart(m) \/ DeviceEnd(m) PROVE SlotsKept
    <2>1. \A a \in Batch : /\ HoldsSlot(a)' <=> HoldsSlot(a)
                           /\ Doomed(a)' <=> Doomed(a)
        BY <1>0, <1>3, DeviceDoes DEF HoldsSlot, Doomed, Starter
    <2> QED
        BY <1>0, <1>3, <2>1, DeviceDoes DEF SlotsKept, Holders, Admitted
<1> QED
    BY <1>1, <1>2, <1>3

\* Counting: the slots that are held are at most the batches that were started,
\* so ks_bats never leaves its range.
LEMMA SlotsCounted ==
    ASSUME NoWrap, IdInv, IdInv', ~exhausted, SlotAccounting, AdmittedBounded,
           SlotsKept \/ \E b \in Batch : SlotTaken(b) \/ SlotGiven(b)
    PROVE  SlotAccounting' /\ AdmittedBounded'
<1> DEFINE S == {b \in Batch : kb[b].start # "none"}
<1>1. /\ IsFiniteSet(Holders) /\ IsFiniteSet(Admitted)
      /\ IsFiniteSet(Holders') /\ IsFiniteSet(Admitted') /\ IsFiniteSet(S')
    BY BatchAssumption, FS_Subset DEF Holders, Admitted
<1>2. /\ Cardinality(Holders) \in Nat /\ Cardinality(Admitted) \in Nat
      /\ Cardinality(Holders') \in Nat /\ Cardinality(Admitted') \in Nat
      /\ Cardinality(S') \in Nat
    BY <1>1, FS_CardinalityType
<1>3. Cardinality(Admitted) <= Cardinality(Holders)
    BY <1>1, FS_Subset DEF Admitted, Holders
<1>4. Cardinality(Holders') < Modulus
    <2>1. Holders' \subseteq S'
        BY DEF Holders, HoldsSlot, IdInv, StagesOK, Starter, Created
    <2>2. Cardinality(Holders') <= Cardinality(S')
        BY <1>1, <2>1, FS_Subset
    <2>3. Cardinality(S') <= calls' /\ calls' \in 0 .. MaxCalls
        BY DEF IdInv, StartsBounded, TypeInv, TypeOK
    <2> QED
        BY <1>2, <2>2, <2>3, BatchAssumption DEF NoWrap, KFIRSTBID
<1>5. ks_bats = Cardinality(Holders)
    BY DEF SlotAccounting, Holders
<1>6. DevBats > 0 => Cardinality(Admitted) <= DevBats + 1
    BY DEF AdmittedBounded
<1>7. SUFFICES /\ ks_bats' = Cardinality(Holders')
               /\ DevBats > 0 => Cardinality(Admitted') <= DevBats + 1
    BY DEF SlotAccounting, AdmittedBounded, Holders
<1>8. ASSUME Admitted' \subseteq Admitted
      PROVE  DevBats > 0 => Cardinality(Admitted') <= DevBats + 1
    <2>1. Cardinality(Admitted') <= Cardinality(Admitted)
        BY <1>1, <1>8, FS_Subset
    <2> QED
        BY <1>2, <1>6, <2>1, BatchAssumption
<1>9. CASE SlotsKept
    BY <1>5, <1>8, <1>9 DEF SlotsKept
<1>10. ASSUME NEW b \in Batch, SlotTaken(b)
       PROVE  /\ ks_bats' = Cardinality(Holders')
              /\ DevBats > 0 => Cardinality(Admitted') <= DevBats + 1
    <2>1. Cardinality(Holders') = Cardinality(Holders) + 1
        BY <1>1, <1>10, FS_AddElement DEF SlotTaken
    <2>2. ks_bats' = Cardinality(Holders')
        <3>1. ks_bats + 1 \in 0 .. Modulus - 1
            BY <1>2, <1>4, <1>5, <2>1, BatchAssumption
        <3> QED
            BY <1>5, <1>10, <2>1, <3>1, ModExact DEF SlotTaken
    <2>3. CASE ~Over(ks_bats, DevBats) /\ Admitted' \subseteq Admitted \cup {b}
        <3>1. /\ IsFiniteSet(Admitted \cup {b})
              /\ Cardinality(Admitted \cup {b}) <= Cardinality(Admitted) + 1
              /\ Cardinality(Admitted \cup {b}) \in Nat
            <4>1. /\ IsFiniteSet(Admitted \cup {b})
                  /\ Cardinality(Admitted \cup {b}) =
                         IF b \in Admitted THEN Cardinality(Admitted)
                                           ELSE Cardinality(Admitted) + 1
                BY <1>1, FS_AddElement
            <4> QED
                BY <1>2, <4>1
        <3>2. Cardinality(Admitted') <= Cardinality(Admitted \cup {b})
            BY <2>3, <3>1, FS_Subset
        <3>3. DevBats > 0 => Cardinality(Admitted) <= DevBats
            BY <1>2, <1>3, <1>5, <2>3, BatchAssumption DEF Over
        <3>4. DevBats > 0 => Cardinality(Admitted') <= DevBats + 1
            BY <1>2, <3>1, <3>2, <3>3, BatchAssumption
        <3> QED
            BY <2>2, <3>4
    <2> QED
        BY <1>8, <1>10, <2>2, <2>3 DEF SlotTaken
<1>11. ASSUME NEW b \in Batch, SlotGiven(b)
       PROVE  /\ ks_bats' = Cardinality(Holders')
              /\ DevBats > 0 => Cardinality(Admitted') <= DevBats + 1
    <2>1. Cardinality(Holders') = Cardinality(Holders) - 1
        BY <1>1, <1>11, FS_RemoveElement DEF SlotGiven
    <2>2. ks_bats' = Cardinality(Holders')
        <3>1. ks_bats - 1 \in 0 .. Modulus - 1
            BY <1>2, <1>4, <1>5, <2>1, BatchAssumption
        <3> QED
            BY <1>5, <1>11, <2>1, <3>1, ModExact DEF SlotGiven
    <2> QED
        BY <1>8, <1>11, <2>2 DEF SlotGiven
<1> QED
    BY <1>9, <1>10, <1>11

-----------------------------------------------------------------------------
(* The inductive invariant.                                                *)

SlotInv == IdInv /\ TokenOK /\ SlotAccounting /\ AdmittedBounded

LEMMA SlotInit == Init => SlotInv
<1> SUFFICES ASSUME Init PROVE SlotInv
    OBVIOUS
<1>1. Holders = {} /\ Admitted = {}
    BY DEF Init, Holders, Admitted, HoldsSlot, NoKb, Idle, Created
<1>2. SlotAccounting
    BY <1>1, FS_EmptySet DEF SlotAccounting, Holders, Init
<1>3. AdmittedBounded
    BY <1>1, FS_EmptySet, BatchAssumption DEF AdmittedBounded
<1>4. TokenOK
    BY DEF Init, TokenOK, OnePlace, SentFirst, Known, Entitled, Starting, Open, Ending,
       Ended, NoKb, Idle
<1> QED
    BY <1>2, <1>3, <1>4, IdInit DEF SlotInv

LEMMA SlotNext ==
    ASSUME NoWrap, SlotInv, [Next]_vars
    PROVE  SlotInv'
<1>0. IdInv /\ IdInv' /\ TypeInv' /\ StagesOK'
    BY IdNext DEF SlotInv, IdInv
<1>1. CASE UNCHANGED vars
    <2> USE <1>1 DEF vars, SlotInv
    <2>1. TokenOK'
        BY DEF TokenOK, OnePlace, SentFirst, Known, Entitled, Starting, Open, Ending,
           Ended, Sent, Starter
    <2>2. SlotAccounting' /\ AdmittedBounded'
        BY DEF SlotAccounting, AdmittedBounded, Admitted, HoldsSlot, Doomed, Starter
    <2> QED
        BY <1>0, <2>1, <2>2
<1>2. CASE Next /\ exhausted'
    BY <1>0, <1>2 DEF SlotInv, TokenOK, SlotAccounting, AdmittedBounded
<1>3. CASE Next /\ ~exhausted'
    <2>1. ~exhausted
        <3>1. ASSUME NEW t \in Thread, Step(t), exhausted PROVE exhausted'
            BY <1>0, <3>1, TakeBidDoes, CountBatchDoes, CheckLimitDoes, SendBatchDoes,
               BuildFailsDoes, UndoCountDoes, CompleteBatchDoes, LoseBatchDoes,
               UncountBatchDoes, CountOpDoes, CheckOpDoes, SendOpDoes DEF Step, IdInv
        <3>2. ASSUME ~(\E t \in Thread : Step(t)) PROVE exhausted' = exhausted
            BY <1>0, <1>3, <3>2, StartBatchDoes, CallDoes, DeviceDoes DEF Next, IdInv
        <3> QED
            BY <1>3, <3>1, <3>2
    <2>2. OnePlace /\ SentFirst /\ Known
        BY <2>1 DEF SlotInv, TokenOK
    <2>3. OnePlace' /\ SentFirst' /\ Known'
        BY <1>0, <1>3, <2>2, TokenStep, TokenCall, TokenDevice DEF Next
    <2>4. SlotsKept \/ \E b \in Batch : SlotTaken(b) \/ SlotGiven(b)
        BY <1>0, <1>3, <2>2, SlotStep, SlotOthers DEF Next
    <2>5. SlotAccounting' /\ AdmittedBounded'
        BY <1>0, <2>1, <2>4, SlotsCounted DEF SlotInv
    <2> QED
        BY <1>0, <2>3, <2>5 DEF SlotInv, TokenOK
<1> QED
    BY <1>1, <1>2, <1>3

LEMMA SlotAlways ==
    ASSUME NoWrap
    PROVE  Spec => []SlotInv
BY SlotInit, SlotNext, PTL DEF Spec

\* ks_bats is at every moment the number of batches that hold a slot: each is
\* counted once and taken off at most once, whatever threads, answers and
\* timeouts do, unless b_atom_inc has used up its retries.
THEOREM SlotsAreCounted ==
    ASSUME NoWrap
    PROVE  Spec => []SlotAccounting
<1>1. SlotInv => SlotAccounting
    BY DEF SlotInv
<1> QED
    BY <1>1, SlotAlways, PTL

\* The device never has more than DevBats + 1 batches open, although the count
\* is raised, tested and lowered in separate steps.
THEOREM LimitIsKept ==
    ASSUME NoWrap
    PROVE  Spec => []LimitKept
<1>1. SlotInv => LimitKept
    <2> SUFFICES ASSUME SlotInv, ~exhausted, DevBats > 0
                 PROVE  Cardinality(active) <= DevBats + 1
        BY DEF LimitKept
    <2> DEFINE Image == {kb[b].bid : b \in Admitted}
    <2>1. OnePlace /\ SentFirst /\ Known /\ IdInv /\ StagesOK
        BY DEF SlotInv, TokenOK, IdInv
    <2>2. active \subseteq Image
        <3> SUFFICES ASSUME NEW b \in Batch, Open(b) PROVE b \in Admitted
            BY <2>1 DEF Known, Open
        <3>1. ~Ended(b) /\ Sent(b)
            BY <2>1 DEF OnePlace, SentFirst, Entitled
        <3>2. CASE kb[b].start \in Created \ {"refused"}
            <4>1. \A u \in Thread : ~Starter(u, b)
                BY <2>1, <3>2 DEF StagesOK, Created
            <4> QED
                BY <3>1, <3>2, <4>1, SlotAfter DEF Admitted, Ended
        <3>3. ASSUME NEW t \in Thread, Starter(t, b), thr[t].pc = "wait"
              PROVE  b \in Admitted
            BY <2>1, <3>3, SlotStarter DEF Admitted
        <3> QED
            BY <3>1, <3>2, <3>3 DEF Sent
    <2>3. IsFiniteSet(Admitted) /\ Cardinality(Admitted) <= DevBats + 1
        BY BatchAssumption, FS_Subset DEF SlotInv, AdmittedBounded, Admitted
    <2>4. IsFiniteSet(Image) /\ Cardinality(Image) <= Cardinality(Admitted)
        <3> DEFINE f == [b \in Admitted |-> kb[b].bid]
        <3>1. f \in Surjection(Admitted, Image)
            BY DEF Surjection
        <3> HIDE DEF Image, f
        <3> QED
            BY <2>3, <3>1, FS_Surjection
    <2>5. Cardinality(active) <= Cardinality(Image)
        BY <2>2, <2>4, FS_Subset
    <2>6. /\ Cardinality(active) \in Nat /\ Cardinality(Image) \in Nat
          /\ Cardinality(Admitted) \in Nat
        BY <2>2, <2>3, <2>4, FS_Subset, FS_CardinalityType
    <2> HIDE DEF Image
    <2> QED
        BY <2>3, <2>4, <2>5, <2>6, BatchAssumption
<1> QED
    BY <1>1, SlotAlways, PTL
-----------------------------------------------------------------------------
(* The operations of a batch.                                              *)

\* One thread moves: a number of threads at a place changes by one at most.
LEMMA NumMoved ==
    ASSUME NEW t \in Thread, \A u \in Thread : u # t => thr'[u] = thr[u],
           NEW b, NEW pc, NEW type
    PROVE  /\ Num(b, pc, type) \in Nat /\ Num(b, pc, type)' \in Nat
           /\ (t \in OpsAt(b, pc, type) <=> t \in OpsAt(b, pc, type)') =>
                  Num(b, pc, type)' = Num(b, pc, type)
           /\ t \in OpsAt(b, pc, type) /\ t \notin OpsAt(b, pc, type)' =>
                  Num(b, pc, type)' = Num(b, pc, type) - 1
           /\ t \notin OpsAt(b, pc, type) /\ t \in OpsAt(b, pc, type)' =>
                  Num(b, pc, type)' = Num(b, pc, type) + 1
<1> DEFINE S == OpsAt(b, pc, type)
<1>1. IsFiniteSet(S) /\ IsFiniteSet(S')
    BY BatchAssumption, FS_Subset DEF OpsAt
<1>2. Cardinality(S) \in Nat /\ Cardinality(S') \in Nat
    BY <1>1, FS_CardinalityType
<1>3. /\ (t \in S <=> t \in S') => S' = S
      /\ t \in S /\ t \notin S' => S' = S \ {t}
      /\ t \notin S /\ t \in S' => S' = S \cup {t}
    BY DEF OpsAt
<1>4. /\ t \in S => Cardinality(S \ {t}) = Cardinality(S) - 1
      /\ t \notin S => Cardinality(S \cup {t}) = Cardinality(S) + 1
    BY <1>1, FS_AddElement, FS_RemoveElement
<1> QED
    BY <1>2, <1>3, <1>4 DEF Num

OpPlaces == {"opsend", "check"}

\* A batch on which no thread comes to or leaves those places.
LEMMA OpsSame ==
    ASSUME TypeInv, NEW b \in Batch, Counted(b), Passed(b), NEW t \in Thread,
           \A u \in Thread : u # t => thr'[u] = thr[u],
           thr[t].b # b \/ thr[t].pc \notin OpPlaces,
           thr'[t].b # b \/ thr'[t].pc \notin OpPlaces,
           SameCounts(b)
    PROVE  Counted(b)' /\ Passed(b)'
<1>1. ASSUME NEW pc \in OpPlaces, NEW type
      PROVE  Num(b, pc, type)' = Num(b, pc, type)
    <2>1. t \notin OpsAt(b, pc, type) /\ t \notin OpsAt(b, pc, type)'
        BY DEF OpsAt
    <2> QED
        BY <2>1, NumMoved
<1>2. /\ Num(b, "opsend", "PUT")' = Num(b, "opsend", "PUT")
      /\ Num(b, "opsend", "DEL")' = Num(b, "opsend", "DEL")
      /\ Num(b, "check", "PUT")' = Num(b, "check", "PUT")
      /\ Num(b, "check", "DEL")' = Num(b, "check", "DEL")
    BY <1>1 DEF OpPlaces
<1> QED
    BY <1>2 DEF Counted, Passed, SameCounts

\* A step that counts, tests or sends an operation.
LEMMA OpsMoves ==
    ASSUME TypeInv, TypeInv', NEW t \in Thread, NEW b \in Batch, b = thr[t].b,
           Alone(t), Counted(b), Passed(b), CountOp(t) \/ CheckOp(t) \/ SendOp(t)
    PROVE  Counted(b)' /\ Passed(b)'
<1> DEFINE ps == Num(b, "opsend", "PUT")
           ds == Num(b, "opsend", "DEL")
           pc == Num(b, "check", "PUT")
           dc == Num(b, "check", "DEL")
<1>0. /\ \A u \in Thread : u # t => thr'[u] = thr[u]
      /\ kb[b] \in KbType /\ kb'[b] \in KbType
      /\ thr[t].pc \in {"count", "check", "opsend"} => thr[t].type \in {"PUT", "DEL"}
    BY DEF TypeInv, TypeOK, Alone, PcOK
<1>1. /\ ps \in Nat /\ ds \in Nat /\ pc \in Nat /\ dc \in Nat
      /\ ps' \in Nat /\ ds' \in Nat /\ pc' \in Nat /\ dc' \in Nat
    BY SMTT(60), <1>0, NumMoved
<1>2. CASE CountOp(t)
    <2>1. /\ ps' = ps /\ ds' = ds
          /\ thr[t].type = "PUT" => pc' = pc + 1 /\ dc' = dc
          /\ thr[t].type = "DEL" => pc' = pc /\ dc' = dc + 1
        BY <1>0, <1>2, CountOpDoes, NumMoved DEF GoesTo, OpsAt
    <2> HIDE DEF ps, ds, pc, dc
    <2> QED
        BY <1>0, <1>1, <1>2, <2>1, CountOpDoes
           DEF Counted, Passed, KbType, Dels, Size, ps, ds, pc, dc
<1>3. CASE CheckOp(t) /\ GoesTo(t, "opsend")
    <2>1. /\ thr[t].type = "PUT" =>
                 ps' = ps + 1 /\ ds' = ds /\ pc' = pc - 1 /\ dc' = dc
          /\ thr[t].type = "DEL" =>
                 ps' = ps /\ ds' = ds + 1 /\ pc' = pc /\ dc' = dc - 1
        BY <1>0, <1>3, CheckOpDoes, NumMoved DEF GoesTo, OpsAt
    <2>2. /\ kb' = kb /\ thr[t].type \in {"PUT", "DEL"}
          /\ ~Over(kb[b].ops, BatOps) /\ ~Over(kb[b].bytes, BatLen)
          /\ thr[t].type = "DEL" => ~Over(kb[b].dels, BatDels)
        BY <1>0, <1>3, CheckOpDoes DEF GoesTo, Idle
    <2>3. Counted(b)'
        BY <1>0, <1>1, <2>1, <2>2 DEF Counted, KbType
    <2>4. Passed(b)'
        BY <1>0, <1>1, <2>1, <2>2, BatchAssumption DEF Counted, Passed, KbType, Over
    <2> QED
        BY <2>3, <2>4
<1>4. CASE CheckOp(t) /\ thr'[t] = Idle
    <2>1. /\ thr[t].type = "PUT" =>
                 ps' = ps /\ ds' = ds /\ pc' = pc - 1 /\ dc' = dc
          /\ thr[t].type = "DEL" =>
                 ps' = ps /\ ds' = ds /\ pc' = pc /\ dc' = dc - 1
        BY <1>0, <1>4, CheckOpDoes, NumMoved DEF Idle, OpsAt
    <2>2. kb' = kb /\ thr[t].type \in {"PUT", "DEL"}
        BY <1>0, <1>4, CheckOpDoes
    <2> QED
        BY <1>0, <1>1, <2>1, <2>2 DEF Counted, Passed, KbType
<1>5. CASE SendOp(t)
    <2>1. /\ thr[t].type = "PUT" =>
                 ps' = ps - 1 /\ ds' = ds /\ pc' = pc /\ dc' = dc
          /\ thr[t].type = "DEL" =>
                 ps' = ps /\ ds' = ds - 1 /\ pc' = pc /\ dc' = dc
        BY <1>0, <1>5, SendOpDoes, NumMoved DEF Idle, OpsAt
    <2>2. thr[t].type \in {"PUT", "DEL"}
        BY <1>0, <1>5, SendOpDoes
    <2>3. CASE UNCHANGED kb
        BY <1>0, <1>1, <2>1, <2>2, <2>3, BatchAssumption DEF Counted, Passed, KbType, Over
    <2>4. CASE /\ kb'[b].ops = kb[b].ops /\ kb'[b].dels = kb[b].dels
               /\ kb'[b].bytes = kb[b].bytes
               /\ kb'[b].sent = kb[b].sent + 1
               /\ kb'[b].sentdels = kb[b].sentdels + Dels(thr[t].type)
               /\ kb'[b].sentbytes = kb[b].sentbytes + Size(thr[t].type)
        BY <1>0, <1>1, <2>1, <2>2, <2>4, BatchAssumption
           DEF Counted, Passed, KbType, Over, Dels, Size
    <2> QED
        BY <1>5, <2>3, <2>4, SendOpDoes
<1> QED
    BY <1>2, <1>3, <1>4, <1>5, CheckOpDoes

LEMMA OpsStep ==
    ASSUME TypeInv, TypeInv', StagesOK, OpsOK, NEW t \in Thread, Step(t)
    PROVE  OpsOK'
<1>0. /\ Alone(t) /\ PcOK /\ PcOK'
      /\ \A u \in Thread : u # t => thr'[u] = thr[u]
    BY StepAlone DEF TypeInv, Alone
<1>1. PICK b \in Batch : b = thr[t].b
    BY <1>0 DEF Alone
<1>2. thr'[t].pc \in OpPlaces => thr'[t].b = b
    BY <1>0, <1>1, TakeBidDoes, CountBatchDoes, CheckLimitDoes, SendBatchDoes,
       BuildFailsDoes, UndoCountDoes, CompleteBatchDoes, LoseBatchDoes,
       UncountBatchDoes, CountOpDoes, CheckOpDoes, SendOpDoes
       DEF Step, GoesTo, Idle, OpPlaces
<1>3. ASSUME NEW a \in Batch, a # b PROVE Counted(a)' /\ Passed(a)'
    <2>1. SameCounts(a)
        BY <1>0, <1>1, <1>3 DEF Alone, SameCounts
    <2> QED
        BY <1>0, <1>1, <1>2, <1>3, <2>1, OpsSame DEF OpsOK
<1>4. Counted(b)' /\ Passed(b)'
    <2>1. CASE CountOp(t) \/ CheckOp(t) \/ SendOp(t)
        BY <1>0, <1>1, <2>1, OpsMoves DEF OpsOK
    <2>2. CASE \/ TakeBid(t) \/ CountBatch(t) \/ SendBatch(t) \/ BuildFails(t)
               \/ UndoCount(t) \/ CompleteBatch(t) \/ LoseBatch(t) \/ UncountBatch(t)
        <3>1. SameCounts(b) /\ thr[t].pc \notin OpPlaces /\ thr'[t].pc \notin OpPlaces
            BY <1>0, <1>1, <2>2, TakeBidDoes, CountBatchDoes, SendBatchDoes,
               BuildFailsDoes, UndoCountDoes, CompleteBatchDoes, LoseBatchDoes,
               UncountBatchDoes DEF GoesTo, Idle, OpPlaces, SameCounts
        <3> QED
            BY SMTT(60), <1>0, <3>1, OpsSame DEF OpsOK
    <2>3. CASE CheckLimit(t)
        <3>1. thr[t].pc = "limit" /\ thr'[t].pc \notin OpPlaces
            BY <2>3, CheckLimitDoes DEF GoesTo, OpPlaces
        <3>2. CASE UNCHANGED kb
            BY <1>0, <3>1, <3>2, OpsSame DEF OpsOK, OpPlaces, SameCounts
        <3>3. CASE /\ kb'[b].ops = 0 /\ kb'[b].dels = 0 /\ kb'[b].bytes = 0
                   /\ kb'[b].sent = kb[b].sent
                   /\ kb'[b].sentdels = kb[b].sentdels
                   /\ kb'[b].sentbytes = kb[b].sentbytes
            <4>1. kb[b].start = "starting"
                BY <1>0, <1>1, <3>1 DEF StagesOK, Starter, PcOK
            <4>2. kb[b].sent = 0 /\ kb[b].sentdels = 0 /\ kb[b].sentbytes = 0
                BY <4>1 DEF StagesOK
            <4>3. ASSUME NEW pc \in OpPlaces, NEW type
                  PROVE  Num(b, pc, type)' = 0
                <5>1. OpsAt(b, pc, type)' = {}
                    BY <1>0, <3>1, <4>1 DEF OpsAt, OpPlaces, StagesOK, PcOK, Created
                <5> QED
                    BY <5>1, FS_EmptySet DEF Num
            <4>4. /\ Num(b, "opsend", "PUT")' = 0 /\ Num(b, "opsend", "DEL")' = 0
                  /\ Num(b, "check", "PUT")' = 0 /\ Num(b, "check", "DEL")' = 0
                BY <4>3 DEF OpPlaces
            <4> QED
                BY <3>3, <4>2, <4>4, BatchAssumption DEF Counted, Passed, Over
        <3> QED
            BY <1>1, <2>3, <3>2, <3>3, CheckLimitDoes
    <2> QED
        BY <2>1, <2>2, <2>3 DEF Step
<1> QED
    BY <1>3, <1>4 DEF OpsOK

LEMMA OpsNext ==
    ASSUME TypeInv, TypeInv', StagesOK, OpsOK, [Next]_vars
    PROVE  OpsOK'
<1>1. CASE UNCHANGED vars
    BY <1>1 DEF vars, OpsOK, Counted, Passed, Num, OpsAt
<1>2. ASSUME NEW t \in Thread, NEW b \in Batch,
             \/ StartBatch(t, b)
             \/ EndBatch(t, b, "END") \/ EndBatch(t, b, "ABORT")
             \/ BatchOp(t, b, "PUT") \/ BatchOp(t, b, "DEL")
      PROVE  OpsOK'
    <2>1. /\ \A u \in Thread : u # t => thr'[u] = thr[u]
          /\ thr[t].pc \notin OpPlaces /\ thr'[t].pc \notin OpPlaces
          /\ \A a \in Batch : SameCounts(a)
        BY <1>2, StartBatchDoes, CallDoes DEF OpPlaces, SameCounts
    <2> QED
        BY <2>1, OpsSame DEF OpsOK
<1>3. ASSUME NEW m \in net, DeviceStart(m) \/ DeviceEnd(m) PROVE OpsOK'
    <2>1. \A b, pc, type : OpsAt(b, pc, type)' = OpsAt(b, pc, type)
        BY <1>3, DeviceDoes DEF OpsAt
    <2> QED
        BY <1>3, <2>1, DeviceDoes DEF OpsOK, Counted, Passed, Num
<1> QED
    BY <1>1, <1>2, <1>3, OpsStep DEF Next

\* Whatever threads fill the batch at the same time, the operations that reach
\* ktli_send are within the limits of the device on operations, deletes and
\* bytes.
THEOREM BatchesFit ==
    ASSUME NoWrap
    PROVE  Spec => []BatchFits
<1>1. Init => OpsOK
    <2> SUFFICES ASSUME Init, NEW b \in Batch PROVE Counted(b) /\ Passed(b)
        BY DEF OpsOK
    <2>1. ASSUME NEW pc \in OpPlaces, NEW type PROVE Num(b, pc, type) = 0
        <3>1. OpsAt(b, pc, type) = {}
            BY DEF Init, OpsAt, Idle, OpPlaces
        <3> QED
            BY <3>1, FS_EmptySet DEF Num
    <2>2. /\ Num(b, "opsend", "PUT") = 0 /\ Num(b, "opsend", "DEL") = 0
          /\ Num(b, "check", "PUT") = 0 /\ Num(b, "check", "DEL") = 0
        BY <2>1 DEF OpPlaces
    <2> QED
        BY <2>2, BatchAssumption DEF Init, NoKb, Counted, Passed, Over
<1>2. IdInv /\ IdInv' /\ OpsOK /\ [Next]_vars => OpsOK'
    BY OpsNext DEF IdInv
<1>3. IdInv /\ OpsOK => BatchFits
    <2> SUFFICES ASSUME IdInv, OpsOK, NEW b \in Batch
                 PROVE  /\ ~Over(kb[b].sent, BatOps) /\ ~Over(kb[b].sentbytes, BatLen)
                        /\ ~Over(kb[b].sentdels, BatDels)
        BY DEF BatchFits
    <2>1. kb[b] \in KbType
        BY DEF IdInv, TypeInv, TypeOK
    <2>2. Num(b, "opsend", "PUT") \in Nat /\ Num(b, "opsend", "DEL") \in Nat
        BY BatchAssumption, FS_Subset, FS_CardinalityType DEF Num, OpsAt
    <2> QED
        BY <2>1, <2>2, BatchAssumption DEF OpsOK, Passed, Over, KbType
<1> QED
    BY <1>1, <1>2, <1>3, IdAlways, PTL DEF Spec
=============================================================================
