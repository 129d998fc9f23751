--------------------------- MODULE SessionsProofs ---------------------------
(***************************************************************************)
(* Theorems about the session table (module Sessions), for every set of    *)
(* threads, every size of the table and every number of allocations.       *)
(***************************************************************************)
EXTENDS Sessions, TLAPS

-----------------------------------------------------------------------------
(* The inductive invariant.                                                *)

\* The places at which a thread has the number of a slot.
Slotted == {"driver", "threads", "ready", "connect", "wait", "have", "close",
            "join", "slot", "swap", "test", "free"}

\* Which numbers a thread holds at which place of the code.
PcOK ==
    \A t \in Thread :
        /\ thr[t].pc \in Slotted => thr[t].kts \in Slots
        /\ thr[t].pc \in {"idle", "init", "queues", "scan"} => thr[t].kts = -1
        /\ thr[t].pc = "scan" => thr[t].ks \in Structs /\ thr[t].ks < next

\* The table is initialised once, by the thread that came first.
InitOnce ==
    /\ \A t, u \in Thread : thr[t].pc = "init" /\ thr[u].pc = "init" => t = u
    /\ \A t \in Thread : thr[t].pc = "init" => ktli_up = 1 /\ ~wiped
    /\ ktli_up = 0 => ~wiped

TypeInv == TypeOK /\ PcOK /\ InitOnce /\ wiped \in BOOLEAN /\ retaken \in BOOLEAN

\* Thread t has a slot, from the allocation to the swap that empties it.
Owns(t) == \/ thr[t].pc \in Slotted \ {"test", "free"}
           \/ thr[t].pc = "unwind" /\ thr[t].kts # -1

\* The slot of a thread holds its structure.
Found ==
    \A t \in Thread :
        Owns(t) => /\ thr[t].ks \in Structs
                   /\ Mine(t) = thr[t].ks
                   /\ ses[thr[t].ks].mem = "allocated"

\* No two threads share a slot and no two slots a structure.
Apart ==
    /\ \A t, u \in Thread : Owns(t) /\ Owns(u) /\ thr[t].kts = thr[u].kts => t = u
    /\ \A j, k \in Slots : kts_table[j] # 0 /\ kts_table[j] = kts_table[k] => j = k

\* A structure that is on its way into the table is new to it.
Fresh ==
    /\ \A k \in Slots : kts_table[k] < next
    /\ \A t \in Thread :
           thr[t].pc = "scan" =>
               /\ \A k \in Slots : kts_table[k] # thr[t].ks
               /\ ses[thr[t].ks].mem = "allocated"
    /\ \A t, u \in Thread :
           /\ thr[t].pc = "scan" /\ thr[u].pc = "scan" /\ thr[t].ks = thr[u].ks
           => t = u

\* A slot that is being freed stays empty, so that nothing is freed from it.
Emptied ==
    \A t \in Thread : /\ thr[t].pc = "test" => Mine(t) = 0
                      /\ thr[t].pc # "free"

\* What the opening thread has hung on its session, and the states the
\* session goes through.
Opened ==
    \A t \in Thread :
        /\ thr[t].pc \in {"threads", "ready", "connect", "wait", "have",
                          "close", "join"} => ses[thr[t].ks].cf = t
        /\ thr[t].pc \in {"connect", "wait", "have", "close"} =>
               ses[thr[t].ks].kts_state \in {"OPENED", "CONNECTED", "ABORTED"}

\* As long as the table was not initialised under a thread's feet and no slot
\* was taken while it was being freed.
TableInv ==
    ~wiped /\ ~retaken =>
        Found /\ Apart /\ Fresh /\ Emptied /\ Opened /\ SlotsAccounted

-----------------------------------------------------------------------------
(* Types.                                                                  *)

SesType ==
    [mem : {"none", "allocated", "freed"}, cf : Thread \cup {"none"},
     kts_state : {"UNKNOWN", "OPENED", "CONNECTED", "ABORTED"},
     status : {"none", "there", "taken"},
     receiver : {"none", "spins", "runs", "stuck"}]

ThrType ==
    [pc : {"idle", "have"} \cup InOpen \cup InClose,
     kts : Slots \cup {-1}, ks : 0 .. MaxAlloc, i : 0 .. KTS_MAX_SESSIONS]

\* The step of one thread.
Others(t) == \A u \in Thread : u # t => thr'[u] = thr[u]

LEMMA TypeInit == Init => TypeInv
<1> SUFFICES ASSUME Init PROVE TypeInv
    OBVIOUS
<1>1. NoSes \in SesType
    BY DEF NoSes, SesType
<1>2. NoThread \in ThrType
    BY SessionsAssumption DEF NoThread, ThrType
<1>3. wiped \in BOOLEAN /\ retaken \in BOOLEAN /\ ~wiped
    BY Zenon DEF Init
<1>4. TypeOK
    <2>1. ses \in [Structs -> SesType] /\ thr \in [Thread -> ThrType]
        BY <1>1, <1>2 DEF Init
    <2> QED
        BY <2>1, SessionsAssumption DEF Init, TypeOK, SesType, ThrType
<1>5. \A t \in Thread : thr[t].pc = "idle" /\ thr[t].kts = -1
    BY DEF Init, NoThread
<1> QED
    BY <1>3, <1>4, <1>5 DEF TypeInv, PcOK, InitOnce, Slotted

LEMMA NoThreadType == NoThread \in ThrType
BY SessionsAssumption DEF NoThread, ThrType

\* The parts of the type invariant as the proofs use them.
LEMMA Types ==
    ASSUME TypeInv
    PROVE  /\ kts_table \in [Slots -> 0 .. MaxAlloc]
           /\ ses \in [Structs -> SesType]
           /\ thr \in [Thread -> ThrType]
           /\ next \in 1 .. MaxAlloc + 1
           /\ ktli_up \in 0 .. 1
BY DEF TypeInv, TypeOK, SesType, ThrType

\* What the step of a thread has to respect to keep the types.
LEMMA TypeStep ==
    ASSUME TypeInv, NEW t \in Thread,
           ktli_up' \in 0 .. 1,
           kts_table' \in [Slots -> 0 .. MaxAlloc],
           ses' \in [Structs -> SesType],
           thr' \in [Thread -> ThrType],
           Others(t),
           next' \in 1 .. MaxAlloc + 1, next' >= next,
           wiped' \in BOOLEAN, retaken' \in BOOLEAN,
           thr'[t].pc \in Slotted => thr'[t].kts \in Slots,
           thr'[t].pc \in {"idle", "init", "queues", "scan"} => thr'[t].kts = -1,
           thr'[t].pc = "scan" => thr'[t].ks \in Structs /\ thr'[t].ks < next',
           thr'[t].pc = "init" => ktli_up = 0 /\ thr[t].pc = "idle",
           ktli_up' = IF thr[t].pc = "idle" /\ thr'[t].pc # "idle" THEN 1 ELSE ktli_up,
           wiped' # wiped => thr[t].pc = "init" /\ thr'[t].pc # "init"
    PROVE  TypeInv'
<1>1. TypeOK'
    BY DEF TypeOK, SesType, ThrType
<1>2. PcOK'
    <2> SUFFICES ASSUME NEW u \in Thread
        PROVE  /\ thr'[u].pc \in Slotted => thr'[u].kts \in Slots
               /\ thr'[u].pc \in {"idle", "init", "queues", "scan"} =>
                      thr'[u].kts = -1
               /\ thr'[u].pc = "scan" =>
                      thr'[u].ks \in Structs /\ thr'[u].ks < next'
        BY DEF PcOK
    <2>1. CASE u = t
        BY <2>1
    <2>2. CASE u # t
        <3>1. thr'[u] = thr[u]
            BY <2>2 DEF Others
        <3>2. thr[u].ks \in Int /\ next \in Int /\ next' \in Int
            BY Types, SessionsAssumption DEF ThrType
        <3> QED
            BY <3>1, <3>2 DEF TypeInv, PcOK
    <2> QED
        BY <2>1, <2>2
<1>3. InitOnce'
    <2>1. InitOnce
        BY DEF TypeInv
    <2>2. \A u \in Thread \ {t} : thr'[u].pc = "init" => thr'[t].pc # "init"
                                      /\ ktli_up = 1 /\ ktli_up' = 1
        BY <2>1 DEF InitOnce, Others
    <2>3. \A u \in Thread : thr'[u].pc = "init" => ktli_up' = 1
        BY <2>2
    <2>4. ktli_up' = 0 => ktli_up = 0
        OBVIOUS
    <2>5. thr'[t].pc = "init" => wiped' = wiped
        OBVIOUS
    <2>6. \A u \in Thread : u # t /\ thr'[u].pc = "init" => wiped' = wiped
        BY <2>1 DEF InitOnce, Others
    <2>7. ktli_up = 0 => wiped' = wiped
        BY <2>1 DEF InitOnce
    <2>8. \A u \in Thread : thr'[u].pc = "init" => ~wiped'
        BY <2>1, <2>5, <2>6, Zenon DEF InitOnce, Others
    <2>9. \A u, v \in Thread : thr'[u].pc = "init" /\ thr'[v].pc = "init" => u = v
        <3>1. \A u, v \in Thread : u # t /\ v # t /\ thr'[u].pc = "init"
                                       /\ thr'[v].pc = "init" => u = v
            BY <2>1 DEF InitOnce, Others
        <3> QED
            BY <2>2, <3>1
    <2>10. ktli_up' = 0 => ~wiped'
        BY <2>1, <2>4, <2>7, Zenon DEF InitOnce
    <2> QED
        BY <2>3, <2>8, <2>9, <2>10, Zenon DEF InitOnce
<1> QED
    BY <1>1, <1>2, <1>3 DEF TypeInv

-----------------------------------------------------------------------------
(* The steps, point by point.                                              *)

PCs == {"idle", "have"} \cup InOpen \cup InClose

\* A thread that only goes to another place, and one that leaves the library.
Moves(t, pc) ==
    /\ thr' \in [Thread -> ThrType] /\ Others(t)
    /\ thr'[t].pc = pc
    /\ thr'[t].kts = thr[t].kts /\ thr'[t].ks = thr[t].ks /\ thr'[t].i = thr[t].i

Leaves(t) ==
    /\ thr' \in [Thread -> ThrType] /\ Others(t)
    /\ thr'[t].pc = "idle" /\ thr'[t].kts = -1 /\ thr'[t].ks = 0

LEMMA GotoMoves ==
    ASSUME TypeInv, NEW t \in Thread, NEW pc \in PCs, Goto(t, pc)
    PROVE  Moves(t, pc)
BY Types DEF Goto, Moves, Others, ThrType, PCs

LEMMA NoThreadLeaves ==
    ASSUME TypeInv, NEW t \in Thread, thr' = [thr EXCEPT ![t] = NoThread]
    PROVE  Leaves(t)
<1>1. thr' \in [Thread -> ThrType] /\ thr'[t] = NoThread /\ Others(t)
    BY Types, NoThreadType DEF Others
<1> QED
    BY <1>1 DEF Leaves, NoThread

\* Only structure s changes, and not its memory.
Touches(s) ==
    /\ ses' \in [Structs -> SesType]
    /\ s \in Structs => ses'[s].mem = ses[s].mem
    /\ \A r \in Structs : r # s => ses'[r] = ses[r]

\* A thread that has a slot and goes on with it, changing at most the session
\* it finds there.
Works(t, pc) ==
    /\ thr[t].kts \in Slots
    /\ Moves(t, pc)
    /\ Touches(Mine(t))
    /\ UNCHANGED <<ktli_up, kts_table, next, wiped, retaken>>

LEMMA MineType ==
    ASSUME TypeInv, NEW t \in Thread, thr[t].kts \in Slots
    PROVE  Mine(t) \in 0 .. MaxAlloc /\ (Mine(t) # 0 => Mine(t) \in Structs)
BY Types, SessionsAssumption DEF Mine, Structs

LEMMA NoTouch ==
    ASSUME TypeInv, NEW s, UNCHANGED ses PROVE Touches(s)
BY Types DEF Touches

LEMMA SetTouches ==
    ASSUME TypeInv, NEW t \in Thread, thr[t].kts \in Slots,
           \/ kts_set(t, "cf", t)
           \/ \E x \in {"OPENED", "CONNECTED"} : kts_set(t, "kts_state", x)
           \/ kts_set(t, "status", "taken")
           \/ \E x \in {"none", "spins"} : kts_set(t, "receiver", x)
    PROVE  Touches(Mine(t))
<1>1. CASE Mine(t) = 0
    BY <1>1, NoTouch DEF kts_set
<1>2. CASE Mine(t) # 0
    <2> PICK s \in Structs : s = Mine(t)
        BY <1>2, MineType
    <2>1. ses[s] \in SesType
        BY Types
    <2> QED
        BY <1>2, <2>1, Types DEF kts_set, Touches, SesType
<1> QED
    BY <1>1, <1>2

LEMMA WorksTyped ==
    ASSUME TypeInv, NEW t \in Thread, NEW pc \in Slotted \cup {"unwind"},
           thr[t].pc # "idle", Works(t, pc)
    PROVE  TypeInv'
<1>1. wiped' = wiped /\ retaken' = retaken /\ wiped' \in BOOLEAN
      /\ retaken' \in BOOLEAN
    BY Zenon DEF Works, TypeInv
<1>2. pc \notin {"idle", "init", "queues", "scan"}
    BY DEF Slotted
<1>3. /\ kts_table' = kts_table /\ next' = next /\ ktli_up' = ktli_up
      /\ ses' \in [Structs -> SesType] /\ thr' \in [Thread -> ThrType]
      /\ Others(t) /\ thr'[t].pc = pc /\ thr'[t].kts \in Slots
    BY DEF Works, Moves, Touches
<1>4. next' \in 1 .. MaxAlloc + 1 /\ next' >= next
    BY <1>3, Types, SessionsAssumption
<1> QED
    BY <1>1, <1>2, <1>3, <1>4, TypeStep, Types

LEMMA SlotAt ==
    ASSUME TypeInv, NEW t \in Thread, thr[t].pc \in Slotted
    PROVE  thr[t].kts \in Slots
BY DEF TypeInv, PcOK

LEMMA OpenDriverDoes ==
    ASSUME TypeInv, NEW t \in Thread, OpenDriver(t)
    PROVE  /\ thr[t].pc = "driver"
           /\ \/ Works(t, "threads") /\ (Mine(t) # 0 => ses'[Mine(t)].cf = t)
              \/ Works(t, "unwind")
<1>1. thr[t].pc = "driver" /\ thr[t].kts \in Slots
    BY SlotAt DEF OpenDriver, At, Slotted
<1>2. UNCHANGED <<ktli_up, kts_table, next, wiped, retaken>>
    BY DEF OpenDriver
<1>3. CASE kts_set(t, "cf", t) /\ Goto(t, "threads")
    <2>1. Moves(t, "threads")
        BY <1>3, GotoMoves DEF PCs, InOpen
    <2>2. Touches(Mine(t))
        BY <1>1, <1>3, SetTouches
    <2>3. Mine(t) # 0 => ses'[Mine(t)].cf = t
        BY <1>1, <1>3, MineType, Types DEF kts_set, SesType
    <2> QED
        BY <1>1, <1>2, <2>1, <2>2, <2>3 DEF Works
<1>4. CASE Goto(t, "unwind") /\ UNCHANGED ses
    <2>1. Moves(t, "unwind")
        BY <1>4, GotoMoves DEF PCs, InOpen
    <2>2. Touches(Mine(t))
        BY <1>4, NoTouch
    <2> QED
        BY <1>1, <1>2, <2>1, <2>2 DEF Works
<1> QED
    BY <1>3, <1>4 DEF OpenDriver

LEMMA StartThreadsDoes ==
    ASSUME TypeInv, NEW t \in Thread, StartThreads(t)
    PROVE  /\ thr[t].pc = "threads"
           /\ \/ Works(t, "ready")
                 /\ (Mine(t) # 0 => ses'[Mine(t)].cf = ses[Mine(t)].cf)
              \/ Works(t, "unwind")
<1>1. thr[t].pc = "threads" /\ thr[t].kts \in Slots
    BY SlotAt DEF StartThreads, At, Slotted
<1>2. UNCHANGED <<ktli_up, kts_table, next, wiped, retaken>>
    BY DEF StartThreads
<1>3. CASE kts_set(t, "receiver", "spins") /\ Goto(t, "ready")
    <2>1. Moves(t, "ready")
        BY <1>3, GotoMoves DEF PCs, InOpen
    <2>2. Touches(Mine(t))
        BY <1>1, <1>3, SetTouches
    <2>3. Mine(t) # 0 => ses'[Mine(t)].cf = ses[Mine(t)].cf
        BY <1>1, <1>3, MineType, Types DEF kts_set, SesType
    <2> QED
        BY <1>1, <1>2, <2>1, <2>2, <2>3 DEF Works
<1>4. CASE Goto(t, "unwind") /\ UNCHANGED ses
    <2>1. Moves(t, "unwind")
        BY <1>4, GotoMoves DEF PCs, InOpen
    <2>2. Touches(Mine(t))
        BY <1>4, NoTouch
    <2> QED
        BY <1>1, <1>2, <2>1, <2>2 DEF Works
<1> QED
    BY <1>3, <1>4 DEF StartThreads

LEMMA OpenReadyDoes ==
    ASSUME TypeInv, NEW t \in Thread, OpenReady(t)
    PROVE  /\ thr[t].pc = "ready"
           /\ Works(t, "connect")
           /\ Mine(t) # 0 => /\ ses'[Mine(t)].cf = ses[Mine(t)].cf
                             /\ ses'[Mine(t)].kts_state = "OPENED"
<1>1. thr[t].pc = "ready" /\ thr[t].kts \in Slots
    BY SlotAt DEF OpenReady, At, Slotted
<1>2. Moves(t, "connect")
    BY GotoMoves DEF OpenReady, PCs, InOpen
<1>3. Touches(Mine(t))
    BY <1>1, SetTouches DEF OpenReady
<1>4. Mine(t) # 0 => /\ ses'[Mine(t)].cf = ses[Mine(t)].cf
                     /\ ses'[Mine(t)].kts_state = "OPENED"
    BY <1>1, MineType, Types DEF OpenReady, kts_set, SesType
<1> QED
    BY <1>1, <1>2, <1>3, <1>4 DEF OpenReady, Works

\* The other steps of a thread that is working on its session.
LEMMA SessionStepDoes ==
    ASSUME TypeInv, NEW t \in Thread,
           ktli_connect(t) \/ TakeStatus(t) \/ Disconnect(t) \/ CloseCall(t)
    PROVE  /\ thr[t].pc \in {"connect", "wait", "have"}
           /\ \E pc \in {"wait", "have", "close"} : Works(t, pc)
           /\ Mine(t) # 0 =>
                /\ ses'[Mine(t)].cf = ses[Mine(t)].cf
                /\ \/ ses'[Mine(t)].kts_state = ses[Mine(t)].kts_state
                   \/ ses'[Mine(t)].kts_state \in {"OPENED", "CONNECTED"}
<1>1. thr[t].pc \in {"connect", "wait", "have"} /\ thr[t].kts \in Slots
    BY SlotAt DEF ktli_connect, TakeStatus, Disconnect, CloseCall, At, Slotted
<1>2. UNCHANGED <<ktli_up, kts_table, next, wiped, retaken>>
    BY DEF ktli_connect, TakeStatus, Disconnect, CloseCall
<1>3. \E pc \in {"wait", "have", "close"} : Moves(t, pc)
    <2>1. \A pc \in {"wait", "have", "close"} : Goto(t, pc) => Moves(t, pc)
        BY GotoMoves DEF PCs, InOpen, InClose
    <2>2. CASE Disconnect(t)
        BY <2>2, Types DEF Disconnect, At, Moves, Others
    <2> QED
        BY <2>1, <2>2 DEF ktli_connect, TakeStatus, CloseCall
<1>4. \/ UNCHANGED ses
      \/ /\ Mine(t) # 0
         /\ \/ \E x \in {"OPENED", "CONNECTED"} : kts_set(t, "kts_state", x)
            \/ kts_set(t, "status", "taken")
    BY DEF ktli_connect, TakeStatus, Disconnect, CloseCall, kts_set, kts_isvalid
<1>5. Touches(Mine(t))
    BY <1>1, <1>4, SetTouches, NoTouch
<1>6. Mine(t) # 0 =>
                /\ ses'[Mine(t)].cf = ses[Mine(t)].cf
                /\ \/ ses'[Mine(t)].kts_state = ses[Mine(t)].kts_state
                   \/ ses'[Mine(t)].kts_state \in {"OPENED", "CONNECTED"}
    BY <1>1, <1>4, MineType, Types DEF kts_set, SesType
<1> QED
    BY <1>1, <1>2, <1>3, <1>5, <1>6 DEF Works

LEMMA JoinThreadsDoes ==
    ASSUME TypeInv, NEW t \in Thread, JoinThreads(t)
    PROVE  thr[t].pc = "join" /\ Works(t, "slot")
<1>1. thr[t].pc = "join" /\ thr[t].kts \in Slots
    BY SlotAt DEF JoinThreads, At, Slotted
<1>2. Moves(t, "slot")
    BY GotoMoves DEF JoinThreads, PCs, InClose
<1>3. kts_set(t, "receiver", "none")
    BY DEF JoinThreads, kts_set
<1>4. Touches(Mine(t))
    BY <1>1, <1>3, SetTouches
<1> QED
    BY <1>1, <1>2, <1>4 DEF JoinThreads, Works

LEMMA ktli_closeDoes ==
    ASSUME TypeInv, NEW t \in Thread, ktli_close(t)
    PROVE  /\ thr[t].pc = "close"
           /\ \/ Works(t, "join") /\ UNCHANGED ses
              \/ /\ Leaves(t) /\ ~(kts_isvalid(t) /\ kts_state(t) = "OPENED")
                 /\ UNCHANGED <<ktli_up, kts_table, ses, next, wiped, retaken>>
<1>1. thr[t].pc = "close" /\ thr[t].kts \in Slots
    BY SlotAt DEF ktli_close, At, Slotted
<1>2. CASE kts_isvalid(t) /\ kts_state(t) = "OPENED"
    <2>1. Moves(t, "join")
        BY <1>2, GotoMoves DEF ktli_close, PCs, InClose
    <2> QED
        BY <1>1, <2>1, NoTouch DEF ktli_close, Works
<1>3. CASE ~(kts_isvalid(t) /\ kts_state(t) = "OPENED")
    BY <1>1, <1>3, NoThreadLeaves DEF ktli_close
<1> QED
    BY <1>2, <1>3

LEMMA OpenErrDoes ==
    ASSUME TypeInv, NEW t \in Thread, OpenErr(t)
    PROVE  /\ thr[t].pc = "unwind"
           /\ \/ thr[t].kts # -1 /\ Works(t, "slot")
              \/ thr[t].kts = -1 /\ Leaves(t)
           /\ UNCHANGED <<ktli_up, kts_table, ses, next, wiped, retaken>>
<1>1. thr[t].pc = "unwind"
    BY DEF OpenErr, At
<1>2. CASE thr[t].kts = -1
    <2>1. thr' = [thr EXCEPT ![t] = NoThread]
        BY <1>2 DEF OpenErr
    <2> QED
        BY <1>1, <1>2, <2>1, NoThreadLeaves DEF OpenErr
<1>3. CASE thr[t].kts # -1
    <2>1. thr[t].kts \in Slots
        BY <1>3, Types DEF ThrType
    <2>2. Goto(t, "slot")
        BY <1>3 DEF OpenErr, Goto
    <2>3. Moves(t, "slot")
        BY <2>2, GotoMoves DEF PCs, InClose
    <2> QED
        BY <1>1, <1>3, <2>1, <2>3, NoTouch DEF OpenErr, Works
<1> QED
    BY <1>2, <1>3

LEMMA LoadSlotDoes ==
    ASSUME TypeInv, NEW t \in Thread, LoadSlot(t)
    PROVE  /\ thr[t].pc = "slot" /\ thr[t].kts \in Slots
           /\ thr' \in [Thread -> ThrType] /\ Others(t)
           /\ thr'[t].pc = "swap" /\ thr'[t].kts = thr[t].kts
           /\ thr'[t].ks = Mine(t) /\ thr'[t].i = thr[t].i
           /\ UNCHANGED <<ktli_up, kts_table, ses, next, wiped, retaken>>
<1>1. thr[t].pc = "slot" /\ thr[t].kts \in Slots
    BY SlotAt DEF LoadSlot, At, Slotted
<1>2. Mine(t) \in 0 .. MaxAlloc
    BY <1>1, MineType
<1> QED
    BY <1>1, <1>2, Types DEF LoadSlot, ThrType, Others, InClose

LEMMA kts_free_slotDoes ==
    ASSUME TypeInv, NEW t \in Thread, kts_free_slot(t)
    PROVE  /\ thr[t].pc = "swap" /\ thr[t].kts \in Slots
           /\ \/ /\ Mine(t) = thr[t].ks /\ Moves(t, "test")
                 /\ kts_table' \in [Slots -> 0 .. MaxAlloc]
                 /\ kts_table'[thr[t].kts] = 0
                 /\ \A k \in Slots : k # thr[t].kts => kts_table'[k] = kts_table[k]
              \/ Mine(t) # thr[t].ks /\ Leaves(t) /\ UNCHANGED kts_table
           /\ UNCHANGED <<ktli_up, ses, next, wiped, retaken>>
<1>1. thr[t].pc = "swap" /\ thr[t].kts \in Slots
    BY SlotAt DEF kts_free_slot, At, Slotted
<1>2. CASE Mine(t) = thr[t].ks
    <2>1. Moves(t, "test")
        BY <1>2, GotoMoves DEF kts_free_slot, PCs, InClose
    <2>2. /\ kts_table' \in [Slots -> 0 .. MaxAlloc]
          /\ kts_table'[thr[t].kts] = 0
          /\ \A k \in Slots : k # thr[t].kts => kts_table'[k] = kts_table[k]
        BY <1>1, <1>2, Types, SessionsAssumption DEF kts_free_slot
    <2> QED
        BY <1>1, <1>2, <2>1, <2>2 DEF kts_free_slot
<1>3. CASE Mine(t) # thr[t].ks
    BY <1>1, <1>3, NoThreadLeaves DEF kts_free_slot
<1> QED
    BY <1>2, <1>3

LEMMA TestSlotDoes ==
    ASSUME TypeInv, NEW t \in Thread, TestSlot(t)
    PROVE  /\ thr[t].pc = "test" /\ thr[t].kts \in Slots
           /\ \/ Mine(t) # 0 /\ Moves(t, "free")
              \/ Mine(t) = 0 /\ Leaves(t)
           /\ UNCHANGED <<ktli_up, kts_table, ses, next, wiped, retaken>>
<1>1. thr[t].pc = "test" /\ thr[t].kts \in Slots
    BY SlotAt DEF TestSlot, At, Slotted
<1>2. CASE Mine(t) = 0
    BY <1>1, <1>2, NoThreadLeaves DEF TestSlot
<1>3. CASE Mine(t) # 0
    <2>1. Moves(t, "free")
        BY <1>3, GotoMoves DEF TestSlot, PCs, InClose
    <2> QED
        BY <1>1, <1>3, <2>1 DEF TestSlot
<1> QED
    BY <1>2, <1>3

LEMMA FreeSlotDoes ==
    ASSUME TypeInv, NEW t \in Thread, FreeSlot(t)
    PROVE  /\ thr[t].pc = "free" /\ Leaves(t)
           /\ ses' \in [Structs -> SesType]
           /\ UNCHANGED <<ktli_up, kts_table, next, wiped, retaken>>
<1>1. thr[t].pc = "free" /\ thr[t].kts \in Slots
    BY SlotAt DEF FreeSlot, At, Slotted
<1>2. Leaves(t)
    BY NoThreadLeaves DEF FreeSlot
<1>3. ses' \in [Structs -> SesType]
    <2>1. CASE Mine(t) = 0
        BY <2>1, Types DEF FreeSlot, kts_set
    <2>2. CASE Mine(t) # 0
        <3> PICK s \in Structs : s = Mine(t)
            BY <1>1, <2>2, MineType
        <3>1. ses' = [ses EXCEPT ![s].mem = "freed"]
            BY <2>2 DEF FreeSlot, kts_set
        <3> QED
            BY <3>1, Types DEF SesType
    <2> QED
        BY <2>1, <2>2
<1> QED
    BY <1>1, <1>2, <1>3 DEF FreeSlot

LEMMA ktli_openDoes ==
    ASSUME TypeInv, NEW t \in Thread, ktli_open(t)
    PROVE  /\ thr[t].pc = "idle" /\ ktli_up' = 1
           /\ \/ ktli_up = 0 /\ Moves(t, "init")
              \/ Moves(t, "queues")
           /\ UNCHANGED <<kts_table, ses, next, wiped, retaken>>
<1>1. \A pc \in {"init", "queues"} : Goto(t, pc) => Moves(t, pc)
    BY GotoMoves DEF PCs, InOpen
<1> QED
    BY <1>1 DEF ktli_open, At

LEMMA kts_initDoes ==
    ASSUME TypeInv, NEW t \in Thread, kts_init(t)
    PROVE  /\ thr[t].pc = "init" /\ Moves(t, "queues")
           /\ kts_table' \in [Slots -> 0 .. MaxAlloc]
           /\ wiped' \in BOOLEAN
           /\ ~wiped' => kts_table' = kts_table
           /\ UNCHANGED <<ktli_up, ses, next, retaken>>
<1>1. Moves(t, "queues")
    BY GotoMoves DEF kts_init, PCs, InOpen
<1>2. wiped' \in BOOLEAN
    BY Zenon DEF kts_init
<1>3. kts_table' \in [Slots -> 0 .. MaxAlloc]
    BY SessionsAssumption DEF kts_init
<1>4. ~wiped' => \A k \in Slots : kts_table[k] = 0
    BY Zenon DEF kts_init
<1>5. kts_table = [k \in Slots |-> kts_table[k]] /\ kts_table' = [k \in Slots |-> 0]
    BY Types DEF kts_init
<1>6. (\A k \in Slots : kts_table[k] = 0) => kts_table' = kts_table
    BY <1>5
<1> QED
    BY <1>1, <1>2, <1>3, <1>4, <1>6 DEF kts_init, At

LEMMA OpenRefusedDoes ==
    ASSUME TypeInv, NEW t \in Thread, OpenRefused(t)
    PROVE  /\ thr[t].pc = "queues" /\ Leaves(t)
           /\ UNCHANGED <<ktli_up, kts_table, ses, next, wiped, retaken>>
BY NoThreadLeaves DEF OpenRefused, At

LEMMA AllocSessionDoes ==
    ASSUME TypeInv, NEW t \in Thread, AllocSession(t)
    PROVE  /\ thr[t].pc = "queues"
           /\ thr' \in [Thread -> ThrType] /\ Others(t)
           /\ \/ /\ next \in Structs /\ next' = next + 1
                 /\ thr'[t].pc = "scan" /\ thr'[t].ks = next
                 /\ thr'[t].kts = -1 /\ thr'[t].i = 0
                 /\ ses' \in [Structs -> SesType]
                 /\ ses'[next].mem = "allocated"
                 /\ \A s \in Structs : s # next => ses'[s] = ses[s]
              \/ /\ thr'[t].pc = "unwind" /\ thr'[t].kts = -1
                 /\ UNCHANGED <<ses, next>>
           /\ UNCHANGED <<ktli_up, kts_table, wiped, retaken>>
<1>1. thr[t].pc = "queues" /\ thr[t].kts = -1
    BY DEF AllocSession, At, TypeInv, PcOK
<1>2. CASE /\ next \in Structs
           /\ thr' = [thr EXCEPT ![t].pc = "scan", ![t].ks = next, ![t].i = 0]
           /\ ses' = [ses EXCEPT ![next].mem = "allocated"]
           /\ next' = next + 1
    <2>1. /\ thr' \in [Thread -> ThrType] /\ Others(t)
          /\ thr'[t].pc = "scan" /\ thr'[t].ks = next
          /\ thr'[t].kts = -1 /\ thr'[t].i = 0
        <3>1. 0 \in 0 .. KTS_MAX_SESSIONS /\ next \in 0 .. MaxAlloc
            BY <1>2, SessionsAssumption DEF Structs
        <3> QED
            BY <1>1, <1>2, <3>1, Types DEF ThrType, Others, InOpen
    <2>2. /\ ses' \in [Structs -> SesType]
          /\ ses'[next].mem = "allocated"
          /\ \A s \in Structs : s # next => ses'[s] = ses[s]
        BY <1>2, Types DEF SesType
    <2> QED
        BY <1>1, <1>2, <2>1, <2>2 DEF AllocSession
<1>3. CASE /\ thr' = [thr EXCEPT ![t].pc = "unwind", ![t].kts = -1]
           /\ UNCHANGED <<ses, next>>
    <2>1. /\ thr' \in [Thread -> ThrType] /\ Others(t)
          /\ thr'[t].pc = "unwind" /\ thr'[t].kts = -1
        BY ZenonT(60), <1>3, Types DEF ThrType, Others, InOpen
    <2> QED
        BY <1>1, <1>3, <2>1 DEF AllocSession
<1> QED
    BY <1>2, <1>3 DEF AllocSession

\* The three ways through the loop of kts_alloc_slot.
Takes(t) ==
    /\ thr[t].i \in Slots /\ kts_table[thr[t].i] = 0
    /\ thr'[t].pc = "driver" /\ thr'[t].kts = thr[t].i /\ thr'[t].ks = thr[t].ks
    /\ kts_table' \in [Slots -> 0 .. MaxAlloc]
    /\ kts_table'[thr[t].i] = thr[t].ks
    /\ \A k \in Slots : k # thr[t].i => kts_table'[k] = kts_table[k]
    /\ ~retaken' => ~retaken /\ \A u \in Thread : ~Freeing(u, thr[t].i)
    /\ UNCHANGED ses

GoesRound(t) ==
    /\ thr'[t].pc = "scan" /\ thr'[t].kts = thr[t].kts /\ thr'[t].ks = thr[t].ks
    /\ UNCHANGED <<kts_table, ses, retaken>>

GivesUp(t) ==
    /\ thr'[t].pc = "unwind" /\ thr'[t].kts = -1 /\ thr'[t].ks = thr[t].ks
    /\ ses' \in [Structs -> SesType]
    /\ \A s \in Structs : s # thr[t].ks => ses'[s] = ses[s]
    /\ UNCHANGED <<kts_table, retaken>>

LEMMA kts_alloc_slotDoes ==
    ASSUME TypeInv, NEW t \in Thread, kts_alloc_slot(t)
    PROVE  /\ thr[t].pc = "scan"
           /\ thr' \in [Thread -> ThrType] /\ Others(t)
           /\ Takes(t) \/ GoesRound(t) \/ GivesUp(t)
           /\ retaken' \in BOOLEAN
           /\ UNCHANGED <<ktli_up, next, wiped>>
<1>1. thr[t].pc = "scan" /\ thr[t].ks \in Structs
    BY DEF kts_alloc_slot, At, TypeInv, PcOK
<1>2. retaken' \in BOOLEAN
    BY Zenon DEF kts_alloc_slot, TypeInv
<1>3. thr[t].i \in 0 .. KTS_MAX_SESSIONS /\ thr[t].ks \in 0 .. MaxAlloc
    BY Types DEF ThrType
<1>4. CASE /\ thr[t].i \in Slots /\ kts_table[thr[t].i] = 0
           /\ kts_table' = [kts_table EXCEPT ![thr[t].i] = thr[t].ks]
           /\ thr' = [thr EXCEPT ![t].pc = "driver", ![t].kts = thr[t].i,
                                 ![t].i = 0]
           /\ retaken' = (retaken \/ \E u \in Thread : Freeing(u, thr[t].i))
           /\ UNCHANGED ses
    <2>1. /\ thr' \in [Thread -> ThrType] /\ Others(t)
          /\ thr'[t].pc = "driver" /\ thr'[t].kts = thr[t].i
          /\ thr'[t].ks = thr[t].ks
        <3>1. 0 \in 0 .. KTS_MAX_SESSIONS
            BY SessionsAssumption
        <3>2. PICK j \in Slots : j = thr[t].i
            BY <1>4
        <3>3. thr' = [thr EXCEPT ![t] =
                          [[[@ EXCEPT !.pc = "driver"] EXCEPT !.kts = j] EXCEPT !.i = 0]]
            BY <1>4, <3>2, Types DEF ThrType
        <3>4. [[[thr[t] EXCEPT !.pc = "driver"] EXCEPT !.kts = j] EXCEPT !.i = 0]
                  \in ThrType
            BY <3>1, Types DEF ThrType, InOpen
        <3> QED
            BY <1>4, <3>2, <3>3, <3>4, Types DEF ThrType, Others
    <2>2. /\ kts_table' \in [Slots -> 0 .. MaxAlloc]
          /\ kts_table'[thr[t].i] = thr[t].ks
          /\ \A k \in Slots : k # thr[t].i => kts_table'[k] = kts_table[k]
        BY <1>3, <1>4, Types
    <2>3. ~retaken' => ~retaken /\ \A u \in Thread : ~Freeing(u, thr[t].i)
        BY <1>4, Zenon
    <2>4. Takes(t)
        BY <1>4, <2>1, <2>2, <2>3 DEF Takes
    <2> QED
        BY <1>1, <1>2, <2>1, <2>4 DEF kts_alloc_slot
<1>5. CASE /\ thr[t].i \in Slots /\ kts_table[thr[t].i] # 0
           /\ thr' = [thr EXCEPT ![t].i = thr[t].i + 1]
           /\ UNCHANGED <<kts_table, ses, retaken>>
    <2>1. /\ thr' \in [Thread -> ThrType] /\ Others(t)
          /\ thr'[t].pc = "scan" /\ thr'[t].kts = thr[t].kts
          /\ thr'[t].ks = thr[t].ks
        <3>1. thr[t].i + 1 \in 0 .. KTS_MAX_SESSIONS
            BY <1>3, <1>5, SessionsAssumption DEF Slots
        <3> QED
            BY <1>1, <1>5, <3>1, Types DEF ThrType, Others
    <2> QED
        BY <1>1, <1>2, <1>5, <2>1 DEF kts_alloc_slot, GoesRound
<1>6. CASE /\ thr[t].i \notin Slots
           /\ ses' = [ses EXCEPT ![thr[t].ks].mem = "freed"]
           /\ thr' = [thr EXCEPT ![t].pc = "unwind", ![t].kts = -1]
           /\ UNCHANGED <<kts_table, retaken>>
    <2>1. /\ thr' \in [Thread -> ThrType] /\ Others(t)
          /\ thr'[t].pc = "unwind" /\ thr'[t].kts = -1 /\ thr'[t].ks = thr[t].ks
        BY ZenonT(60), <1>6, Types DEF ThrType, Others, InOpen
    <2>2. /\ ses' \in [Structs -> SesType]
          /\ \A s \in Structs : s # thr[t].ks => ses'[s] = ses[s]
        BY <1>1, <1>6, Types DEF SesType
    <2> QED
        BY <1>1, <1>2, <1>6, <2>1, <2>2 DEF kts_alloc_slot, GivesUp
<1> QED
    BY <1>4, <1>5, <1>6 DEF kts_alloc_slot

\* The receiver of session s and its device.
Outside(s) == ReceiverRuns(s) \/ DeviceStatus(s) \/ PeerCloses(s)

LEMMA OutsideDoes ==
    ASSUME TypeInv, NEW s \in Structs, Outside(s)
    PROVE  /\ ses' \in [Structs -> SesType]
           /\ ses'[s].mem = ses[s].mem /\ ses'[s].cf = ses[s].cf
           /\ ses'[s].kts_state \in {"CONNECTED", "ABORTED"}
           /\ \A r \in Structs : r # s => ses'[r] = ses[r]
           /\ UNCHANGED <<ktli_up, kts_table, thr, next, wiped, retaken>>
BY Types DEF Outside, ReceiverRuns, DeviceStatus, PeerCloses, SesType

-----------------------------------------------------------------------------
(* Types are kept.                                                         *)

\* A step of thread t that initialises nothing.
LEMMA TypeKept ==
    ASSUME TypeInv, NEW t \in Thread, thr[t].pc # "idle",
           UNCHANGED <<ktli_up, wiped>>, retaken' \in BOOLEAN,
           kts_table' \in [Slots -> 0 .. MaxAlloc],
           ses' \in [Structs -> SesType],
           thr' \in [Thread -> ThrType], Others(t),
           \/ next' = next \/ (next \in Structs /\ next' = next + 1),
           thr'[t].pc \in Slotted => thr'[t].kts \in Slots,
           thr'[t].pc \in {"idle", "queues", "scan"} => thr'[t].kts = -1,
           thr'[t].pc = "scan" => thr'[t].ks \in Structs /\ thr'[t].ks < next',
           thr'[t].pc # "init"
    PROVE  TypeInv'
<1>1. wiped' = wiped
    OBVIOUS
<1>2. wiped' \in BOOLEAN
    BY <1>1, Zenon DEF TypeInv
<1>3. next' \in 1 .. MaxAlloc + 1 /\ next' >= next
    BY Types, SessionsAssumption DEF Structs
<1> QED
    BY <1>1, <1>2, <1>3, TypeStep, Types

LEMMA RetakenKept == ASSUME TypeInv, retaken' = retaken PROVE retaken' \in BOOLEAN
BY Zenon DEF TypeInv

LEMMA LeavesTyped ==
    ASSUME TypeInv, NEW t \in Thread, thr[t].pc # "idle", Leaves(t),
           UNCHANGED <<ktli_up, kts_table, next, wiped, retaken>>,
           ses' \in [Structs -> SesType]
    PROVE  TypeInv'
BY TypeKept, RetakenKept, Types DEF Leaves, Slotted

LEMMA TypeNext ==
    ASSUME TypeInv, [Next]_vars
    PROVE  TypeInv'
<1>1. CASE UNCHANGED vars
    BY <1>1 DEF vars, TypeInv, TypeOK, PcOK, InitOnce
<1>2. ASSUME NEW s \in Structs, Outside(s) PROVE TypeInv'
    <2>1. /\ ses' \in [Structs -> SesType]
          /\ UNCHANGED <<ktli_up, kts_table, thr, next, wiped, retaken>>
        BY <1>2, OutsideDoes
    <2> QED
        BY <2>1 DEF TypeInv, TypeOK, PcOK, InitOnce, SesType
<1>3. ASSUME NEW t \in Thread, Opening(t) \/ Closing(t) \/ ktli_open(t)
                                   \/ Disconnect(t) \/ CloseCall(t)
      PROVE TypeInv'
    <2>1. CASE kts_init(t)
        <3>1. /\ thr[t].pc = "init" /\ Moves(t, "queues")
              /\ kts_table' \in [Slots -> 0 .. MaxAlloc]
              /\ wiped' \in BOOLEAN
              /\ UNCHANGED <<ktli_up, ses, next, retaken>>
            BY <2>1, kts_initDoes
        <3>2. thr[t].kts = -1
            BY <3>1 DEF TypeInv, PcOK
        <3>3. retaken' \in BOOLEAN
            BY <3>1, RetakenKept
        <3>4. next' \in 1 .. MaxAlloc + 1 /\ next' >= next
            BY <3>1, Types, SessionsAssumption
        <3> QED
            BY <3>1, <3>2, <3>3, <3>4, TypeStep, Types DEF Moves, Slotted
    <2>2. CASE OpenRefused(t)
        BY <2>2, OpenRefusedDoes, LeavesTyped, Types
    <2>3. CASE AllocSession(t)
        BY <2>3, AllocSessionDoes, TypeKept, RetakenKept, Types, SessionsAssumption
           DEF Slotted, Structs
    <2>4. CASE kts_alloc_slot(t)
        <3>1. /\ thr[t].pc = "scan"
              /\ thr' \in [Thread -> ThrType] /\ Others(t)
              /\ Takes(t) \/ GoesRound(t) \/ GivesUp(t)
              /\ retaken' \in BOOLEAN
              /\ UNCHANGED <<ktli_up, next, wiped>>
            BY <2>4, kts_alloc_slotDoes
        <3>2. thr[t].kts = -1 /\ thr[t].ks \in Structs /\ thr[t].ks < next
            BY <3>1 DEF TypeInv, PcOK
        <3>3. /\ kts_table' \in [Slots -> 0 .. MaxAlloc]
              /\ ses' \in [Structs -> SesType]
            BY <3>1, Types DEF Takes, GoesRound, GivesUp
        <3>4. /\ thr'[t].pc \in Slotted => thr'[t].kts \in Slots
              /\ thr'[t].pc \in {"idle", "queues", "scan"} => thr'[t].kts = -1
              /\ thr'[t].pc = "scan" => thr'[t].ks = thr[t].ks
              /\ thr'[t].pc # "init"
            BY <3>1, <3>2 DEF Takes, GoesRound, GivesUp, Slotted
        <3> QED
            BY <3>1, <3>2, <3>3, <3>4, TypeKept
    <2>5. CASE OpenDriver(t)
        BY <2>5, OpenDriverDoes, WorksTyped DEF Slotted
    <2>6. CASE StartThreads(t)
        BY <2>6, StartThreadsDoes, WorksTyped DEF Slotted
    <2>7. CASE OpenReady(t)
        BY <2>7, OpenReadyDoes, WorksTyped DEF Slotted
    <2>8. CASE OpenErr(t)
        BY <2>8, OpenErrDoes, WorksTyped, LeavesTyped, Types DEF Slotted
    <2>9. CASE ktli_connect(t) \/ TakeStatus(t) \/ Disconnect(t) \/ CloseCall(t)
        BY <2>9, SessionStepDoes, WorksTyped DEF Slotted
    <2>10. CASE ktli_close(t)
        BY <2>10, ktli_closeDoes, WorksTyped, LeavesTyped, Types DEF Slotted
    <2>11. CASE JoinThreads(t)
        BY <2>11, JoinThreadsDoes, WorksTyped DEF Slotted
    <2>12. CASE LoadSlot(t)
        BY <2>12, LoadSlotDoes, TypeKept, RetakenKept, Types
    <2>13. CASE kts_free_slot(t)
        BY <2>13, kts_free_slotDoes, TypeKept, LeavesTyped, RetakenKept, Types
           DEF Moves
    <2>14. CASE TestSlot(t)
        BY <2>14, TestSlotDoes, TypeKept, LeavesTyped, RetakenKept, Types
           DEF Moves
    <2>15. CASE FreeSlot(t)
        BY <2>15, FreeSlotDoes, LeavesTyped, Types
    <2>16. CASE ktli_open(t)
        <3>1. /\ thr[t].pc = "idle" /\ ktli_up' = 1
              /\ \/ ktli_up = 0 /\ Moves(t, "init")
                 \/ Moves(t, "queues")
              /\ UNCHANGED <<kts_table, ses, next, wiped, retaken>>
            BY <2>16, ktli_openDoes
        <3>2. thr[t].kts = -1
            BY <3>1 DEF TypeInv, PcOK
        <3>3. wiped' = wiped /\ retaken' \in BOOLEAN
            BY <3>1, RetakenKept
        <3>4. wiped' \in BOOLEAN
            BY <3>3, Zenon DEF TypeInv
        <3>5. next' \in 1 .. MaxAlloc + 1 /\ next' >= next
            BY <3>1, Types, SessionsAssumption
        <3> QED
            BY <3>1, <3>2, <3>3, <3>4, <3>5, TypeStep, Types DEF Moves, Slotted
    <2> QED
        BY <1>3, <2>1, <2>2, <2>3, <2>4, <2>5, <2>6, <2>7, <2>8, <2>9, <2>10,
           <2>11, <2>12, <2>13, <2>14, <2>15, <2>16 DEF Opening, Closing
<1> QED
    BY <1>1, <1>2, <1>3 DEF Next, Outside

LEMMA TypeInvariant == Spec => []TypeInv
BY TypeInit, TypeNext, PTL DEF Spec

(***************************************************************************)
(* Every variable has its type, for every number of threads, slots and     *)
(* allocations; in particular no thread works past the end of the table.   *)
(***************************************************************************)
THEOREM TypeCorrect == Spec => []TypeOK
<1>1. TypeInv => TypeOK
    BY DEF TypeInv
<1> QED
    BY <1>1, TypeInvariant, PTL

-----------------------------------------------------------------------------
(* The table.                                                              *)

\* What the invariant says when the hypotheses of its parts are met.
LEMMA TableNow ==
    ASSUME TableInv, ~wiped, ~retaken
    PROVE  /\ Found /\ Apart /\ Fresh /\ Emptied /\ Opened
           /\ \A k \in Slots :
                 kts_table[k] # 0 =>
                     \/ \E t \in Thread : thr[t].kts = k
                     \/ ses[kts_table[k]].kts_state \in {"CONNECTED", "ABORTED"}
BY DEF TableInv, SlotsAccounted

LEMMA OwnerSlot ==
    ASSUME TypeInv, NEW t \in Thread, Owns(t)
    PROVE  thr[t].kts \in Slots
BY Types DEF Owns, TypeInv, PcOK, ThrType

\* Two threads that have slots have different structures in them.
LEMMA OwnApart ==
    ASSUME TypeInv, Found, Apart, NEW t \in Thread, NEW u \in Thread,
           Owns(t), Owns(u), thr[t].ks = thr[u].ks
    PROVE  t = u
<1>1. thr[t].kts \in Slots /\ thr[u].kts \in Slots
    BY OwnerSlot
<1>2. /\ kts_table[thr[t].kts] = thr[t].ks /\ kts_table[thr[u].kts] = thr[u].ks
      /\ thr[t].ks \in Structs
    BY DEF Found, Mine
<1>3. kts_table[thr[t].kts] # 0
    BY <1>2, SessionsAssumption DEF Structs
<1>4. thr[t].kts = thr[u].kts
    BY <1>1, <1>2, <1>3 DEF Apart
<1> QED
    BY <1>4 DEF Apart

\* The invariant in the next state, part by part.
LEMMA TableNext ==
    ASSUME ~wiped' /\ ~retaken' =>
               Found' /\ Apart' /\ Fresh' /\ Emptied' /\ Opened' /\ SlotsAccounted'
    PROVE  TableInv'
BY DEF TableInv

Working == {"driver", "threads", "ready", "connect", "wait", "have", "close",
            "join", "slot", "swap", "unwind"}

\* A thread goes on working on its session.
LEMMA WorksKeeps ==
    ASSUME TypeInv, TypeInv', TableInv, ~wiped, ~retaken,
           NEW t \in Thread, Owns(t), NEW pc \in Working, Works(t, pc),
           pc \in {"threads", "ready", "connect", "wait", "have", "close", "join"}
               => ses'[thr[t].ks].cf = t,
           pc \in {"connect", "wait", "have", "close"} =>
               ses'[thr[t].ks].kts_state \in {"OPENED", "CONNECTED", "ABORTED"}
    PROVE  TableInv'
<1>1. /\ Found /\ Apart /\ Fresh /\ Emptied /\ Opened
      /\ \A k \in Slots :
             kts_table[k] # 0 =>
                 \/ \E u \in Thread : thr[u].kts = k
                 \/ ses[kts_table[k]].kts_state \in {"CONNECTED", "ABORTED"}
    BY TableNow
<1>2. /\ kts_table' = kts_table /\ next' = next
      /\ thr[t].kts \in Slots
      /\ \A u \in Thread : u # t => thr'[u] = thr[u]
      /\ thr'[t].pc = pc /\ thr'[t].kts = thr[t].kts /\ thr'[t].ks = thr[t].ks
    BY DEF Works, Moves, Others
<1>3. /\ thr[t].ks \in Structs /\ kts_table[thr[t].kts] = thr[t].ks
      /\ ses[thr[t].ks].mem = "allocated"
    BY <1>1 DEF Found, Mine
<1>4. /\ ses'[thr[t].ks].mem = "allocated"
      /\ \A s \in Structs : s # thr[t].ks => ses'[s] = ses[s]
    BY <1>3 DEF Works, Touches, Mine
<1>5. \A u \in Thread : Owns(u)' <=> Owns(u)
    BY <1>2, OwnerSlot, SessionsAssumption DEF Owns, Working, Slotted, Slots
<1>6. \A u \in Thread : u # t /\ Owns(u) =>
          thr[u].ks # thr[t].ks /\ thr[u].ks \in Structs
    BY <1>1, OwnApart DEF Found
<1>7. Found'
    <2> SUFFICES ASSUME NEW u \in Thread, Owns(u)'
        PROVE  /\ thr'[u].ks \in Structs /\ kts_table'[thr'[u].kts] = thr'[u].ks
               /\ ses'[thr'[u].ks].mem = "allocated"
        BY DEF Found, Mine
    <2>1. CASE u = t
        BY <2>1, <1>2, <1>3, <1>4
    <2>2. CASE u # t
        BY <2>2, <1>1, <1>2, <1>4, <1>5, <1>6 DEF Found, Mine
    <2> QED
        BY <2>1, <2>2
<1>8. Apart'
    BY <1>1, <1>2, <1>5 DEF Apart
<1>9. Fresh'
    <2>1. \A u \in Thread : thr'[u].pc = "scan" =>
              u # t /\ thr'[u] = thr[u] /\ thr[u].ks # thr[t].ks
              /\ thr[u].ks \in Structs
        BY <1>1, <1>2, <1>3 DEF Fresh, Working, TypeInv, PcOK
    <2> QED
        BY <1>1, <1>2, <1>4, <2>1 DEF Fresh
<1>10. Emptied'
    BY <1>1, <1>2 DEF Emptied, Mine, Working
<1>11. Opened'
    <2> SUFFICES ASSUME NEW u \in Thread
        PROVE  /\ thr'[u].pc \in {"threads", "ready", "connect", "wait", "have",
                                  "close", "join"} => ses'[thr'[u].ks].cf = u
               /\ thr'[u].pc \in {"connect", "wait", "have", "close"} =>
                      ses'[thr'[u].ks].kts_state
                          \in {"OPENED", "CONNECTED", "ABORTED"}
        BY DEF Opened
    <2>1. CASE u = t
        BY <2>1, <1>2
    <2>2. CASE u # t
        <3>1. thr[u].pc \in {"threads", "ready", "connect", "wait", "have",
                             "close", "join"} => Owns(u)
            BY DEF Owns, Slotted
        <3> QED
            BY <2>2, <1>1, <1>2, <1>4, <1>6, <3>1 DEF Opened
    <2> QED
        BY <2>1, <2>2
<1>12. SlotsAccounted'
    <2> SUFFICES ASSUME NEW k \in Slots, kts_table[k] # 0
        PROVE  \/ \E u \in Thread : thr'[u].kts = k
               \/ ses'[kts_table[k]].kts_state \in {"CONNECTED", "ABORTED"}
        BY <1>2 DEF SlotsAccounted
    <2>1. \A u \in Thread : thr'[u].kts = thr[u].kts
        BY <1>2
    <2>2. CASE k = thr[t].kts
        BY <2>1, <2>2
    <2>3. CASE k # thr[t].kts
        <3>1. kts_table[k] # thr[t].ks
            BY <1>1, <1>2, <1>3, <2>3 DEF Apart
        <3>2. kts_table[k] \in Structs
            BY Types, SessionsAssumption DEF Structs
        <3> QED
            BY <1>1, <1>4, <2>1, <3>1, <3>2
    <2> QED
        BY <2>2, <2>3
<1> QED
    BY <1>7, <1>8, <1>9, <1>10, <1>11, <1>12, TableNext

\* A thread without a slot moves about outside the table.
LEMMA OutsiderKeeps ==
    ASSUME TypeInv, TypeInv', TableInv, ~wiped, ~retaken,
           NEW t \in Thread, ~Owns(t), ~Owns(t)', Others(t),
           UNCHANGED <<kts_table, next>>,
           thr'[t].pc \notin {"test", "free"},
           thr'[t].pc = "scan" => thr[t].pc = "scan" /\ thr'[t].ks = thr[t].ks
                                  /\ UNCHANGED ses,
           thr[t].pc = "test" \/ thr[t].kts = -1 \/ thr'[t].kts = thr[t].kts,
           \/ UNCHANGED ses
           \/ /\ thr[t].pc = "scan" /\ ses' \in [Structs -> SesType]
              /\ \A s \in Structs : s # thr[t].ks => ses'[s] = ses[s]
    PROVE  TableInv'
<1>1. /\ Found /\ Apart /\ Fresh /\ Emptied /\ Opened
      /\ \A k \in Slots :
             kts_table[k] # 0 =>
                 \/ \E u \in Thread : thr[u].kts = k
                 \/ ses[kts_table[k]].kts_state \in {"CONNECTED", "ABORTED"}
    BY TableNow
<1>2. \A u \in Thread : u # t => thr'[u] = thr[u]
    BY DEF Others
<1>3. \A u \in Thread : Owns(u)' <=> Owns(u)
    BY <1>2 DEF Owns
<1>4. \A u \in Thread : Owns(u) => u # t /\ thr'[u] = thr[u]
    BY <1>2
<1>5. \A k \in Slots : kts_table[k] # 0 =>
          kts_table[k] \in Structs /\ ses'[kts_table[k]] = ses[kts_table[k]]
    <2> SUFFICES ASSUME NEW k \in Slots, kts_table[k] # 0
        PROVE  kts_table[k] \in Structs /\ ses'[kts_table[k]] = ses[kts_table[k]]
        OBVIOUS
    <2>1. kts_table[k] \in Structs
        BY Types, SessionsAssumption DEF Structs
    <2>2. thr[t].pc = "scan" => kts_table[k] # thr[t].ks
        BY <1>1 DEF Fresh
    <2> QED
        BY <2>1, <2>2
<1>6. \A u \in Thread : Owns(u) =>
          thr[u].ks \in Structs /\ ses'[thr[u].ks] = ses[thr[u].ks]
    <2> SUFFICES ASSUME NEW u \in Thread, Owns(u)
        PROVE  thr[u].ks \in Structs /\ ses'[thr[u].ks] = ses[thr[u].ks]
        OBVIOUS
    <2>1. thr[u].kts \in Slots /\ kts_table[thr[u].kts] = thr[u].ks
          /\ thr[u].ks \in Structs
        BY <1>1, OwnerSlot DEF Found, Mine
    <2>2. thr[u].ks # 0
        BY <2>1, SessionsAssumption DEF Structs
    <2> QED
        BY <1>5, <2>1, <2>2
<1>7. Found'
    BY <1>1, <1>3, <1>4, <1>6 DEF Found, Mine
<1>8. Apart'
    BY <1>1, <1>3, <1>4 DEF Apart
<1>9. Fresh'
    <2>1. \A u \in Thread : thr'[u].pc = "scan" =>
              /\ thr[u].pc = "scan" /\ thr'[u].ks = thr[u].ks
              /\ ses'[thr[u].ks] = ses[thr[u].ks]
        <3> SUFFICES ASSUME NEW u \in Thread, thr'[u].pc = "scan"
            PROVE  /\ thr[u].pc = "scan" /\ thr'[u].ks = thr[u].ks
                   /\ ses'[thr[u].ks] = ses[thr[u].ks]
            OBVIOUS
        <3>1. CASE u = t
            BY <3>1
        <3>2. CASE u # t
            BY <3>2, <1>1, <1>2 DEF Fresh, TypeInv, PcOK
        <3> QED
            BY <3>1, <3>2
    <2> QED
        BY <1>1, <2>1 DEF Fresh
<1>10. Emptied'
    BY <1>1, <1>2 DEF Emptied, Mine
<1>11. Opened'
    <2>1. \A u \in Thread :
              thr'[u].pc \in {"threads", "ready", "connect", "wait", "have",
                              "close", "join"} => Owns(u)
        BY <1>3 DEF Owns, Slotted
    <2> QED
        BY <1>1, <1>4, <1>6, <2>1 DEF Opened
<1>12. SlotsAccounted'
    <2> SUFFICES ASSUME NEW k \in Slots, kts_table[k] # 0
        PROVE  \/ \E u \in Thread : thr'[u].kts = k
               \/ ses'[kts_table[k]].kts_state \in {"CONNECTED", "ABORTED"}
        BY DEF SlotsAccounted
    <2>1. CASE ses[kts_table[k]].kts_state \in {"CONNECTED", "ABORTED"}
        BY <1>5, <2>1
    <2>2. ASSUME NEW u \in Thread, thr[u].kts = k PROVE thr'[u].kts = k
        <3>1. CASE u # t
            BY <1>2, <2>2, <3>1
        <3>2. CASE u = t
            <4>1. thr[t].pc # "test"
                BY <1>1, <2>2, <3>2 DEF Emptied, Mine
            <4>2. thr[t].kts # -1
                BY <2>2, <3>2, SessionsAssumption DEF Slots
            <4> QED
                BY <2>2, <3>2, <4>1, <4>2
        <3> QED
            BY <3>1, <3>2
    <2> QED
        BY <1>1, <2>1, <2>2
<1> QED
    BY <1>7, <1>8, <1>9, <1>10, <1>11, <1>12, TableNext

\* ktli_close refuses a session: it stays in its slot, connected or aborted.
LEMMA RefusalKeeps ==
    ASSUME TypeInv, TypeInv', TableInv, ~wiped, ~retaken,
           NEW t \in Thread, thr[t].pc = "close", Leaves(t),
           ~(kts_isvalid(t) /\ kts_state(t) = "OPENED"),
           UNCHANGED <<kts_table, ses, next>>
    PROVE  TableInv'
<1>1. /\ Found /\ Apart /\ Fresh /\ Emptied /\ Opened
      /\ \A k \in Slots :
             kts_table[k] # 0 =>
                 \/ \E u \in Thread : thr[u].kts = k
                 \/ ses[kts_table[k]].kts_state \in {"CONNECTED", "ABORTED"}
    BY TableNow
<1>2. \A u \in Thread : u # t => thr'[u] = thr[u]
    BY DEF Leaves, Others
<1>3. thr'[t].pc = "idle" /\ ~Owns(t)' /\ Owns(t)
    BY DEF Leaves, Owns, Slotted
<1>4. \A u \in Thread : Owns(u)' => Owns(u) /\ u # t
    BY <1>2, <1>3 DEF Owns
<1>5. /\ thr[t].ks \in Structs /\ kts_table[thr[t].kts] = thr[t].ks
      /\ thr[t].kts \in Slots
    BY <1>1, <1>3, OwnerSlot DEF Found, Mine
<1>6. thr[t].ks # 0
    BY <1>5, SessionsAssumption DEF Structs
<1>7. ses[kts_table[thr[t].kts]].kts_state \in {"CONNECTED", "ABORTED"}
    <2>1. ses[thr[t].ks].kts_state # "OPENED"
        BY <1>5, <1>6 DEF kts_isvalid, kts_state, Mine
    <2>2. ses[thr[t].ks].kts_state \in {"OPENED", "CONNECTED", "ABORTED"}
        BY <1>1 DEF Opened
    <2> QED
        BY <1>5, <2>1, <2>2
<1>8. Found'
    BY <1>1, <1>2, <1>4 DEF Found, Mine
<1>9. Apart'
    BY <1>1, <1>2, <1>4 DEF Apart
<1>10. Fresh'
    <2>1. \A u \in Thread : thr'[u].pc = "scan" => u # t
        BY <1>3
    <2> QED
        BY <1>1, <1>2, <2>1 DEF Fresh
<1>11. Emptied'
    BY <1>1, <1>2, <1>3 DEF Emptied, Mine
<1>12. Opened'
    BY <1>1, <1>2, <1>3 DEF Opened
<1>13. SlotsAccounted'
    <2> SUFFICES ASSUME NEW k \in Slots, kts_table[k] # 0
        PROVE  \/ \E u \in Thread : thr'[u].kts = k
               \/ ses[kts_table[k]].kts_state \in {"CONNECTED", "ABORTED"}
        BY DEF SlotsAccounted
    <2>1. CASE k = thr[t].kts
        BY <1>7, <2>1
    <2>2. CASE k # thr[t].kts
        BY <1>1, <1>2, <2>2
    <2> QED
        BY <2>1, <2>2
<1> QED
    BY <1>8, <1>9, <1>10, <1>11, <1>12, <1>13, TableNext

\* The swap takes the structure of its own session out of the table.
LEMMA SwapKeeps ==
    ASSUME TypeInv, TypeInv', TableInv, ~wiped, ~retaken,
           NEW t \in Thread, thr[t].pc = "swap", Moves(t, "test"),
           kts_table'[thr[t].kts] = 0,
           \A k \in Slots : k # thr[t].kts => kts_table'[k] = kts_table[k],
           UNCHANGED <<ses, next>>
    PROVE  TableInv'
<1>1. /\ Found /\ Apart /\ Fresh /\ Emptied /\ Opened
      /\ \A k \in Slots :
             kts_table[k] # 0 =>
                 \/ \E u \in Thread : thr[u].kts = k
                 \/ ses[kts_table[k]].kts_state \in {"CONNECTED", "ABORTED"}
    BY TableNow
<1>2. /\ \A u \in Thread : u # t => thr'[u] = thr[u]
      /\ thr'[t].pc = "test" /\ thr'[t].kts = thr[t].kts /\ thr'[t].ks = thr[t].ks
    BY DEF Moves, Others
<1>3. Owns(t) /\ ~Owns(t)' /\ thr[t].kts \in Slots
    BY <1>2, SlotAt DEF Owns, Slotted
<1>4. \A u \in Thread : Owns(u)' =>
          Owns(u) /\ u # t /\ thr'[u] = thr[u] /\ thr[u].kts # thr[t].kts
    BY <1>1, <1>2, <1>3 DEF Owns, Apart
<1>5. \A u \in Thread : Owns(u)' => thr[u].kts \in Slots
    BY <1>4, OwnerSlot
<1>6. Found'
    BY <1>1, <1>4, <1>5 DEF Found, Mine
<1>7. Apart'
    <2>1. \A j, k \in Slots :
              kts_table'[j] # 0 /\ kts_table'[j] = kts_table'[k] => j = k
        BY <1>1, <1>3 DEF Apart
    <2>2. \A u, v \in Thread :
              Owns(u)' /\ Owns(v)' /\ thr'[u].kts = thr'[v].kts => u = v
        BY <1>1, <1>4 DEF Apart
    <2> QED
        BY <2>1, <2>2 DEF Apart
<1>8. Fresh'
    <2>1. \A k \in Slots : kts_table'[k] < next'
        BY <1>1, Types, SessionsAssumption DEF Fresh
    <2>2. \A u \in Thread : thr'[u].pc = "scan" =>
              u # t /\ thr'[u] = thr[u] /\ thr[u].ks # 0
        BY <1>2, SessionsAssumption DEF TypeInv, PcOK, Structs
    <2>3. \A u \in Thread : thr'[u].pc = "scan" =>
              /\ \A k \in Slots : kts_table'[k] # thr'[u].ks
              /\ ses'[thr'[u].ks].mem = "allocated"
        BY <1>1, <2>2 DEF Fresh
    <2>4. \A u, v \in Thread :
              /\ thr'[u].pc = "scan" /\ thr'[v].pc = "scan" /\ thr'[u].ks = thr'[v].ks
              => u = v
        BY <1>1, <2>2 DEF Fresh
    <2> QED
        BY <2>1, <2>3, <2>4 DEF Fresh
<1>9. Emptied'
    <2> SUFFICES ASSUME NEW u \in Thread
        PROVE  /\ thr'[u].pc = "test" => kts_table'[thr'[u].kts] = 0
               /\ thr'[u].pc # "free"
        BY DEF Emptied, Mine
    <2>1. CASE u = t
        BY <1>2, <2>1
    <2>2. CASE u # t
        <3>1. thr[u].pc = "test" => thr[u].kts \in Slots
            BY SlotAt DEF Slotted
        <3> QED
            BY <1>1, <1>2, <2>2, <3>1 DEF Emptied, Mine
    <2> QED
        BY <2>1, <2>2
<1>10. Opened'
    BY <1>1, <1>2 DEF Opened
<1>11. SlotsAccounted'
    <2> SUFFICES ASSUME NEW k \in Slots, kts_table'[k] # 0
        PROVE  \/ \E u \in Thread : thr'[u].kts = k
               \/ ses[kts_table'[k]].kts_state \in {"CONNECTED", "ABORTED"}
        BY DEF SlotsAccounted
    <2>1. kts_table'[k] = kts_table[k]
        OBVIOUS
    <2> QED
        BY <1>1, <1>2, <2>1
<1> QED
    BY <1>6, <1>7, <1>8, <1>9, <1>10, <1>11, TableNext

\* malloc: the structure is new, so in no slot and in no other hands.
LEMMA AllocKeeps ==
    ASSUME TypeInv, TypeInv', TableInv, ~wiped, ~retaken,
           NEW t \in Thread, thr[t].pc = "queues", Others(t),
           next \in Structs, next' = next + 1,
           thr'[t].pc = "scan", thr'[t].ks = next, thr'[t].kts = -1,
           ses'[next].mem = "allocated",
           \A s \in Structs : s # next => ses'[s] = ses[s],
           UNCHANGED kts_table
    PROVE  TableInv'
<1>1. /\ Found /\ Apart /\ Fresh /\ Emptied /\ Opened
      /\ \A k \in Slots :
             kts_table[k] # 0 =>
                 \/ \E u \in Thread : thr[u].kts = k
                 \/ ses[kts_table[k]].kts_state \in {"CONNECTED", "ABORTED"}
    BY TableNow
<1>2. \A u \in Thread : u # t => thr'[u] = thr[u]
    BY DEF Others
<1>3. ~Owns(t) /\ ~Owns(t)' /\ thr[t].kts = -1
    BY DEF Owns, Slotted, TypeInv, PcOK
<1>4. \A u \in Thread : Owns(u)' => Owns(u) /\ u # t /\ thr'[u] = thr[u]
    BY <1>2, <1>3 DEF Owns
<1>5. \A k \in Slots : kts_table[k] # next /\ (kts_table[k] # 0 =>
                           kts_table[k] \in Structs
                           /\ ses'[kts_table[k]] = ses[kts_table[k]])
    <2> SUFFICES ASSUME NEW k \in Slots
        PROVE  kts_table[k] # next /\ (kts_table[k] # 0 =>
                           kts_table[k] \in Structs
                           /\ ses'[kts_table[k]] = ses[kts_table[k]])
        OBVIOUS
    <2>1. kts_table[k] # 0 => kts_table[k] \in Structs
        BY Types, SessionsAssumption DEF Structs
    <2>2. kts_table[k] # next
        BY <1>1, Types, SessionsAssumption DEF Fresh
    <2> QED
        BY <2>1, <2>2
<1>6. \A u \in Thread : Owns(u) =>
          /\ thr[u].ks \in Structs /\ ses'[thr[u].ks] = ses[thr[u].ks]
    <2> SUFFICES ASSUME NEW u \in Thread, Owns(u)
        PROVE  thr[u].ks \in Structs /\ ses'[thr[u].ks] = ses[thr[u].ks]
        OBVIOUS
    <2>1. thr[u].kts \in Slots /\ kts_table[thr[u].kts] = thr[u].ks
          /\ thr[u].ks \in Structs
        BY <1>1, OwnerSlot DEF Found, Mine
    <2>2. thr[u].ks # 0
        BY <2>1, SessionsAssumption DEF Structs
    <2> QED
        BY <1>5, <2>1, <2>2
<1>7. Found'
    BY <1>1, <1>4, <1>6 DEF Found, Mine
<1>8. Apart'
    BY <1>1, <1>4 DEF Apart
<1>9. Fresh'
    <2>1. \A k \in Slots : kts_table'[k] < next'
        BY <1>1, Types, SessionsAssumption DEF Fresh
    <2>2. \A u \in Thread : u # t /\ thr'[u].pc = "scan" =>
              /\ thr'[u] = thr[u] /\ thr[u].ks # next
              /\ ses'[thr[u].ks] = ses[thr[u].ks]
        <3> SUFFICES ASSUME NEW u \in Thread, u # t, thr'[u].pc = "scan"
            PROVE  /\ thr'[u] = thr[u] /\ thr[u].ks # next
                   /\ ses'[thr[u].ks] = ses[thr[u].ks]
            OBVIOUS
        <3>1. thr'[u] = thr[u] /\ thr[u].ks \in Structs /\ thr[u].ks < next
            BY <1>2 DEF TypeInv, PcOK
        <3>2. thr[u].ks # next
            BY <3>1, Types, SessionsAssumption DEF Structs
        <3> QED
            BY <3>1, <3>2
    <2>3. \A u \in Thread : thr'[u].pc = "scan" =>
              /\ \A k \in Slots : kts_table'[k] # thr'[u].ks
              /\ ses'[thr'[u].ks].mem = "allocated"
        BY <1>1, <1>5, <2>2 DEF Fresh
    <2>4. \A u, v \in Thread :
              /\ thr'[u].pc = "scan" /\ thr'[v].pc = "scan" /\ thr'[u].ks = thr'[v].ks
              => u = v
        BY <1>1, <2>2 DEF Fresh
    <2> QED
        BY <2>1, <2>3, <2>4 DEF Fresh
<1>10. Emptied'
    BY <1>1, <1>2 DEF Emptied, Mine
<1>11. Opened'
    <2>1. \A u \in Thread :
              thr'[u].pc \in {"threads", "ready", "connect", "wait", "have",
                              "close", "join"} => Owns(u)'
        BY DEF Owns, Slotted
    <2> QED
        BY <1>1, <1>4, <1>6, <2>1 DEF Opened
<1>12. SlotsAccounted'
    <2> SUFFICES ASSUME NEW k \in Slots, kts_table[k] # 0
        PROVE  \/ \E u \in Thread : thr'[u].kts = k
               \/ ses'[kts_table[k]].kts_state \in {"CONNECTED", "ABORTED"}
        BY DEF SlotsAccounted
    <2>1. thr[t].kts # k
        BY <1>3, SessionsAssumption DEF Slots
    <2> QED
        BY <1>1, <1>2, <1>5, <2>1
<1> QED
    BY <1>7, <1>8, <1>9, <1>10, <1>11, <1>12, TableNext

\* kts_alloc_slot takes a free slot that no thread is freeing.
LEMMA TakeKeeps ==
    ASSUME TypeInv, TypeInv', TableInv, ~wiped, ~retaken, ~retaken',
           NEW t \in Thread, thr[t].pc = "scan", Others(t), Takes(t),
           UNCHANGED next
    PROVE  TableInv'
<1>1. /\ Found /\ Apart /\ Fresh /\ Emptied /\ Opened
      /\ \A k \in Slots :
             kts_table[k] # 0 =>
                 \/ \E u \in Thread : thr[u].kts = k
                 \/ ses[kts_table[k]].kts_state \in {"CONNECTED", "ABORTED"}
    BY TableNow
<1>2. \A u \in Thread : u # t => thr'[u] = thr[u]
    BY DEF Others
<1>3. PICK i \in Slots : i = thr[t].i
    BY DEF Takes
<1>4. /\ kts_table[i] = 0 /\ kts_table'[i] = thr[t].ks
      /\ \A k \in Slots : k # i => kts_table'[k] = kts_table[k]
      /\ thr'[t].pc = "driver" /\ thr'[t].kts = i /\ thr'[t].ks = thr[t].ks
      /\ UNCHANGED ses
      /\ \A u \in Thread : ~Freeing(u, i)
    BY <1>3 DEF Takes
<1>5. /\ thr[t].ks \in Structs /\ thr[t].ks < next /\ thr[t].kts = -1
      /\ ses[thr[t].ks].mem = "allocated"
      /\ \A k \in Slots : kts_table[k] # thr[t].ks
    BY <1>1 DEF Fresh, TypeInv, PcOK
<1>6. thr[t].ks # 0
    BY <1>5, SessionsAssumption DEF Structs
<1>7. ~Owns(t) /\ Owns(t)'
    BY <1>4 DEF Owns, Slotted
<1>8. \A u \in Thread : u # t /\ Owns(u)' =>
          /\ Owns(u) /\ thr'[u] = thr[u] /\ thr[u].kts \in Slots
          /\ thr[u].kts # i
    <2> SUFFICES ASSUME NEW u \in Thread, u # t, Owns(u)'
        PROVE  Owns(u) /\ thr'[u] = thr[u] /\ thr[u].kts \in Slots /\ thr[u].kts # i
        OBVIOUS
    <2>1. thr'[u] = thr[u] /\ Owns(u)
        BY <1>2 DEF Owns
    <2>2. thr[u].ks \in Structs /\ kts_table[thr[u].kts] = thr[u].ks
        BY <1>1, <2>1 DEF Found, Mine
    <2>3. thr[u].ks # 0
        BY <2>2, SessionsAssumption DEF Structs
    <2> QED
        BY <1>4, <2>1, <2>2, <2>3, OwnerSlot
<1>9. Found'
    <2> SUFFICES ASSUME NEW u \in Thread, Owns(u)'
        PROVE  /\ thr'[u].ks \in Structs /\ kts_table'[thr'[u].kts] = thr'[u].ks
               /\ ses'[thr'[u].ks].mem = "allocated"
        BY DEF Found, Mine
    <2>1. CASE u = t
        BY <1>4, <1>5, <2>1
    <2>2. CASE u # t
        BY <1>1, <1>4, <1>8, <2>2 DEF Found, Mine
    <2> QED
        BY <2>1, <2>2
<1>10. Apart'
    <2>1. \A j, k \in Slots :
              kts_table'[j] # 0 /\ kts_table'[j] = kts_table'[k] => j = k
        BY <1>1, <1>4, <1>5 DEF Apart
    <2>2. \A u, v \in Thread :
              Owns(u)' /\ Owns(v)' /\ thr'[u].kts = thr'[v].kts => u = v
        BY <1>1, <1>4, <1>8 DEF Apart
    <2> QED
        BY <2>1, <2>2 DEF Apart
<1>11. Fresh'
    <2>1. \A k \in Slots : kts_table'[k] < next'
        BY <1>1, <1>4, <1>5 DEF Fresh
    <2>2. \A u \in Thread : thr'[u].pc = "scan" =>
              u # t /\ thr'[u] = thr[u] /\ thr[u].ks # thr[t].ks
        BY <1>1, <1>2, <1>4 DEF Fresh
    <2>3. \A u \in Thread : thr'[u].pc = "scan" =>
              /\ \A k \in Slots : kts_table'[k] # thr'[u].ks
              /\ ses'[thr'[u].ks].mem = "allocated"
        BY <1>1, <1>4, <2>2 DEF Fresh
    <2>4. \A u, v \in Thread :
              /\ thr'[u].pc = "scan" /\ thr'[v].pc = "scan" /\ thr'[u].ks = thr'[v].ks
              => u = v
        BY <1>1, <2>2 DEF Fresh
    <2> QED
        BY <2>1, <2>3, <2>4 DEF Fresh
<1>12. Emptied'
    <2> SUFFICES ASSUME NEW u \in Thread
        PROVE  /\ thr'[u].pc = "test" => kts_table'[thr'[u].kts] = 0
               /\ thr'[u].pc # "free"
        BY DEF Emptied, Mine
    <2>1. CASE u = t
        BY <1>4, <2>1
    <2>2. CASE u # t
        <3>1. thr[u].pc = "test" => thr[u].kts \in Slots /\ thr[u].kts # i
            BY <1>4, SlotAt DEF Slotted, Freeing
        <3> QED
            BY <1>1, <1>2, <1>4, <2>2, <3>1 DEF Emptied, Mine
    <2> QED
        BY <2>1, <2>2
<1>13. Opened'
    BY <1>1, <1>2, <1>4 DEF Opened
<1>14. SlotsAccounted'
    <2> SUFFICES ASSUME NEW k \in Slots, kts_table'[k] # 0
        PROVE  \/ \E u \in Thread : thr'[u].kts = k
               \/ ses[kts_table'[k]].kts_state \in {"CONNECTED", "ABORTED"}
        BY <1>4 DEF SlotsAccounted
    <2>1. CASE k = i
        BY <1>4, <2>1
    <2>2. CASE k # i
        <3>1. thr[t].kts # k
            BY <1>5, SessionsAssumption DEF Slots
        <3> QED
            BY <1>1, <1>2, <1>4, <2>2, <3>1
    <2> QED
        BY <2>1, <2>2
<1> QED
    BY <1>9, <1>10, <1>11, <1>12, <1>13, <1>14, TableNext

\* The receiver and the device change the state of a session, not the table.
LEMMA OutsideKeeps ==
    ASSUME TypeInv, TypeInv', TableInv, ~wiped, ~retaken,
           NEW s \in Structs, Outside(s)
    PROVE  TableInv'
<1>1. /\ Found /\ Apart /\ Fresh /\ Emptied /\ Opened
      /\ \A k \in Slots :
             kts_table[k] # 0 =>
                 \/ \E u \in Thread : thr[u].kts = k
                 \/ ses[kts_table[k]].kts_state \in {"CONNECTED", "ABORTED"}
    BY TableNow
<1>2. /\ \A r \in Structs : ses'[r].mem = ses[r].mem /\ ses'[r].cf = ses[r].cf
      /\ \A r \in Structs : r # s => ses'[r] = ses[r]
      /\ ses'[s].kts_state \in {"CONNECTED", "ABORTED"}
      /\ UNCHANGED <<ktli_up, kts_table, thr, next, wiped, retaken>>
    BY OutsideDoes
<1>3. \A u \in Thread : Owns(u)' <=> Owns(u)
    BY <1>2 DEF Owns
<1>4. Found'
    BY <1>1, <1>2, <1>3 DEF Found, Mine
<1>5. Apart'
    BY <1>1, <1>2, <1>3 DEF Apart
<1>6. Fresh'
    BY <1>1, <1>2 DEF Fresh, TypeInv, PcOK
<1>7. Emptied'
    BY <1>1, <1>2 DEF Emptied, Mine
<1>8. Opened'
    <2>1. \A u \in Thread :
              thr[u].pc \in {"threads", "ready", "connect", "wait", "have",
                              "close", "join"} => thr[u].ks \in Structs
        BY <1>1 DEF Owns, Slotted, Found
    <2> QED
        BY <1>1, <1>2, <2>1 DEF Opened
<1>9. SlotsAccounted'
    <2>1. \A k \in Slots : kts_table[k] # 0 => kts_table[k] \in Structs
        BY Types, SessionsAssumption DEF Structs
    <2> QED
        BY <1>1, <1>2, <2>1 DEF SlotsAccounted
<1> QED
    BY <1>4, <1>5, <1>6, <1>7, <1>8, <1>9, TableNext

LEMMA TableInit == Init => TableInv
<1> SUFFICES ASSUME Init PROVE TableInv
    OBVIOUS
<1>1. \A t \in Thread : thr[t].pc = "idle" /\ thr[t].kts = -1
    BY DEF Init, NoThread
<1>2. \A t \in Thread : ~Owns(t)
    BY <1>1 DEF Owns, Slotted
<1>3. (\A k \in Slots : kts_table[k] = 0) /\ next = 1
    BY DEF Init
<1> QED
    BY <1>1, <1>2, <1>3
       DEF TableInv, Found, Apart, Fresh, Emptied, Opened, SlotsAccounted

\* Every step keeps the table in order, unless it breaks a hypothesis.
LEMMA TableStep ==
    ASSUME TypeInv, TypeInv', TableInv, [Next]_vars
    PROVE  TableInv'
<1> SUFFICES ASSUME ~wiped', ~retaken' PROVE TableInv'
    BY DEF TableInv
<1>1. CASE UNCHANGED vars
    BY <1>1 DEF vars, TableInv, Found, Apart, Fresh, Emptied, Opened,
                SlotsAccounted, Owns, Mine
<1>2. ASSUME NEW s \in Structs, Outside(s) PROVE TableInv'
    <2>1. ~wiped /\ ~retaken
        BY <1>2, OutsideDoes
    <2> QED
        BY <1>2, <2>1, OutsideKeeps
<1>3. ASSUME NEW t \in Thread, Opening(t) \/ Closing(t) \/ ktli_open(t)
                                   \/ Disconnect(t) \/ CloseCall(t)
      PROVE TableInv'
    <2>0. ASSUME ~wiped, ~retaken, Owns(t)
          PROVE  thr[t].ks # 0 /\ Mine(t) = thr[t].ks /\ Opened
        BY <2>0, TableNow, SessionsAssumption DEF Found, Structs
    <2>1. CASE kts_init(t)
        <3>1. /\ thr[t].pc = "init" /\ Moves(t, "queues")
              /\ UNCHANGED <<kts_table, ses, next, retaken>>
            BY <2>1, kts_initDoes
        <3>2. ~wiped /\ ~retaken /\ thr[t].kts = -1
            BY <3>1 DEF TypeInv, InitOnce, PcOK
        <3>3. ~Owns(t) /\ ~Owns(t)'
            BY <3>1 DEF Owns, Moves, Slotted
        <3> QED
            BY <3>1, <3>2, <3>3, OutsiderKeeps DEF Moves
    <2>2. CASE OpenRefused(t)
        <3>1. /\ thr[t].pc = "queues" /\ Leaves(t)
              /\ UNCHANGED <<ktli_up, kts_table, ses, next, wiped, retaken>>
            BY <2>2, OpenRefusedDoes
        <3>2. ~wiped /\ ~retaken /\ thr[t].kts = -1
            BY <3>1 DEF TypeInv, PcOK
        <3>3. ~Owns(t) /\ ~Owns(t)'
            BY <3>1 DEF Owns, Leaves, Slotted
        <3> QED
            BY <3>1, <3>2, <3>3, OutsiderKeeps DEF Leaves
    <2>3. CASE AllocSession(t)
        <3>1. /\ thr[t].pc = "queues" /\ Others(t)
              /\ UNCHANGED <<ktli_up, kts_table, wiped, retaken>>
            BY <2>3, AllocSessionDoes
        <3>2. ~wiped /\ ~retaken /\ thr[t].kts = -1
            BY <3>1 DEF TypeInv, PcOK
        <3>3. CASE /\ next \in Structs /\ next' = next + 1
                   /\ thr'[t].pc = "scan" /\ thr'[t].ks = next /\ thr'[t].kts = -1
                   /\ ses'[next].mem = "allocated"
                   /\ \A s \in Structs : s # next => ses'[s] = ses[s]
            BY <3>1, <3>2, <3>3, AllocKeeps
        <3>4. CASE /\ thr'[t].pc = "unwind" /\ thr'[t].kts = -1
                   /\ UNCHANGED <<ses, next>>
            <4>1. ~Owns(t) /\ ~Owns(t)'
                BY <3>1, <3>4 DEF Owns, Slotted
            <4> QED
                BY <3>1, <3>2, <3>4, <4>1, OutsiderKeeps
        <3> QED
            BY <2>3, <3>3, <3>4, AllocSessionDoes
    <2>4. CASE kts_alloc_slot(t)
        <3>1. /\ thr[t].pc = "scan"
              /\ Others(t)
              /\ Takes(t) \/ GoesRound(t) \/ GivesUp(t)
              /\ UNCHANGED <<ktli_up, next, wiped>>
            BY <2>4, kts_alloc_slotDoes
        <3>2. thr[t].kts = -1 /\ ~Owns(t) /\ ~wiped
            BY <3>1 DEF TypeInv, PcOK, Owns, Slotted
        <3>3. ~retaken
            BY <3>1 DEF Takes, GoesRound, GivesUp
        <3>4. CASE Takes(t)
            BY <3>1, <3>2, <3>3, <3>4, TakeKeeps
        <3>5. CASE GoesRound(t) \/ GivesUp(t)
            <4>1. ~Owns(t)'
                BY <3>5 DEF Owns, GoesRound, GivesUp, Slotted
            <4> QED
                BY <3>1, <3>2, <3>3, <3>5, <4>1, OutsiderKeeps
                   DEF GoesRound, GivesUp
        <3> QED
            BY <3>1, <3>4, <3>5
    <2>5. CASE OpenDriver(t)
        <3>1. Owns(t)
            BY <2>5, OpenDriverDoes DEF Owns, Slotted
        <3>2. ~wiped /\ ~retaken
            BY <2>5, OpenDriverDoes DEF Works
        <3> QED
            BY <2>0, <2>5, <3>1, <3>2, OpenDriverDoes, WorksKeeps DEF Working
    <2>6. CASE StartThreads(t)
        <3>1. Owns(t)
            BY <2>6, StartThreadsDoes DEF Owns, Slotted
        <3>2. ~wiped /\ ~retaken
            BY <2>6, StartThreadsDoes DEF Works
        <3>3. ses[thr[t].ks].cf = t
            BY <2>0, <2>6, <3>1, <3>2, StartThreadsDoes DEF Opened
        <3> QED
            BY <2>0, <2>6, <3>1, <3>2, <3>3, StartThreadsDoes, WorksKeeps
               DEF Working
    <2>7. CASE OpenReady(t)
        <3>1. Owns(t)
            BY <2>7, OpenReadyDoes DEF Owns, Slotted
        <3>2. ~wiped /\ ~retaken
            BY <2>7, OpenReadyDoes DEF Works
        <3>3. ses[thr[t].ks].cf = t
            BY <2>0, <2>7, <3>1, <3>2, OpenReadyDoes DEF Opened
        <3> QED
            BY <2>0, <2>7, <3>1, <3>2, <3>3, OpenReadyDoes, WorksKeeps
               DEF Working
    <2>8. CASE OpenErr(t)
        <3>1. /\ thr[t].pc = "unwind" /\ ~wiped /\ ~retaken
              /\ UNCHANGED <<kts_table, ses, next>>
            BY <2>8, OpenErrDoes
        <3>2. CASE thr[t].kts # -1 /\ Works(t, "slot")
            <4>1. Owns(t)
                BY <3>1, <3>2 DEF Owns
            <4> QED
                BY <3>1, <3>2, <4>1, WorksKeeps DEF Working
        <3>3. CASE thr[t].kts = -1 /\ Leaves(t)
            <4>1. ~Owns(t) /\ ~Owns(t)'
                BY <3>1, <3>3 DEF Owns, Leaves, Slotted
            <4> QED
                BY <3>1, <3>3, <4>1, OutsiderKeeps DEF Leaves
        <3> QED
            BY <2>8, <3>2, <3>3, OpenErrDoes
    <2>9. CASE ktli_connect(t) \/ TakeStatus(t) \/ Disconnect(t) \/ CloseCall(t)
        <3>1. PICK pc \in {"wait", "have", "close"} : Works(t, pc)
            BY <2>9, SessionStepDoes
        <3>2. ~wiped /\ ~retaken
            BY <3>1 DEF Works
        <3>3. thr[t].pc \in {"connect", "wait", "have"} /\ Owns(t)
            BY <2>9, SessionStepDoes DEF Owns, Slotted
        <3>4. /\ ses[thr[t].ks].cf = t
              /\ ses[thr[t].ks].kts_state \in {"OPENED", "CONNECTED", "ABORTED"}
            BY <2>0, <3>2, <3>3 DEF Opened
        <3>5. /\ ses'[thr[t].ks].cf = t
              /\ ses'[thr[t].ks].kts_state \in {"OPENED", "CONNECTED", "ABORTED"}
            BY <2>0, <2>9, <3>2, <3>3, <3>4, SessionStepDoes
        <3> QED
            BY <3>1, <3>2, <3>3, <3>5, WorksKeeps DEF Working
    <2>10. CASE ktli_close(t)
        <3>1. thr[t].pc = "close" /\ Owns(t)
            BY <2>10, ktli_closeDoes DEF Owns, Slotted
        <3>2. ~wiped /\ ~retaken
            BY <2>10, ktli_closeDoes DEF Works
        <3>3. CASE Works(t, "join") /\ UNCHANGED ses
            <4>1. ses[thr[t].ks].cf = t
                BY <2>0, <3>1, <3>2 DEF Opened
            <4> QED
                BY <3>1, <3>2, <3>3, <4>1, WorksKeeps DEF Working
        <3>4. CASE /\ Leaves(t) /\ ~(kts_isvalid(t) /\ kts_state(t) = "OPENED")
                   /\ UNCHANGED <<ktli_up, kts_table, ses, next, wiped, retaken>>
            BY <3>1, <3>2, <3>4, RefusalKeeps
        <3> QED
            BY <2>10, <3>3, <3>4, ktli_closeDoes
    <2>11. CASE JoinThreads(t)
        <3>1. Owns(t) /\ Works(t, "slot")
            BY <2>11, JoinThreadsDoes DEF Owns, Slotted
        <3>2. ~wiped /\ ~retaken
            BY <3>1 DEF Works
        <3> QED
            BY <3>1, <3>2, WorksKeeps DEF Working
    <2>12. CASE LoadSlot(t)
        <3>1. Owns(t) /\ ~wiped /\ ~retaken
            BY <2>12, LoadSlotDoes DEF Owns, Slotted
        <3>2. Mine(t) = thr[t].ks
            BY <2>0, <3>1
        <3>3. Works(t, "swap")
            BY <2>12, <3>2, LoadSlotDoes, NoTouch DEF Works, Moves
        <3> QED
            BY <3>1, <3>3, WorksKeeps DEF Working
    <2>13. CASE kts_free_slot(t)
        <3>1. Owns(t) /\ ~wiped /\ ~retaken
            BY <2>13, kts_free_slotDoes DEF Owns, Slotted
        <3>2. Mine(t) = thr[t].ks
            BY <2>0, <3>1
        <3> QED
            BY <2>13, <3>1, <3>2, kts_free_slotDoes, SwapKeeps
    <2>14. CASE TestSlot(t)
        <3>1. thr[t].pc = "test" /\ ~wiped /\ ~retaken
              /\ UNCHANGED <<kts_table, ses, next>>
            BY <2>14, TestSlotDoes
        <3>2. Leaves(t)
            BY <2>14, <3>1, TestSlotDoes, TableNow DEF Emptied
        <3>3. ~Owns(t) /\ ~Owns(t)'
            BY <3>1, <3>2 DEF Owns, Leaves, Slotted
        <3> QED
            BY <3>1, <3>2, <3>3, OutsiderKeeps DEF Leaves
    <2>15. CASE FreeSlot(t)
        <3>1. thr[t].pc = "free" /\ ~wiped /\ ~retaken
            BY <2>15, FreeSlotDoes
        <3> QED
            BY <3>1, TableNow DEF Emptied
    <2>16. CASE ktli_open(t)
        <3>1. /\ thr[t].pc = "idle" /\ ~wiped /\ ~retaken
              /\ UNCHANGED <<kts_table, ses, next>>
              /\ Moves(t, "init") \/ Moves(t, "queues")
            BY <2>16, ktli_openDoes
        <3>2. thr[t].kts = -1
            BY <3>1 DEF TypeInv, PcOK
        <3>3. ~Owns(t) /\ ~Owns(t)'
            BY <3>1 DEF Owns, Moves, Slotted
        <3> QED
            BY <3>1, <3>2, <3>3, OutsiderKeeps DEF Moves
    <2> QED
        BY <1>3, <2>1, <2>2, <2>3, <2>4, <2>5, <2>6, <2>7, <2>8, <2>9, <2>10,
           <2>11, <2>12, <2>13, <2>14, <2>15, <2>16 DEF Opening, Closing
<1> QED
    BY <1>1, <1>2, <1>3 DEF Next, Outside

LEMMA TableInvariant == Spec => []TableInv
<1>1. TypeInv /\ TypeInv' /\ TableInv /\ [Next]_vars => TableInv'
    BY TableStep
<1> QED
    BY <1>1, TableInit, TypeInvariant, PTL DEF Spec

(***************************************************************************)
(* As long as the table is not initialised under a thread's feet and no    *)
(* slot is taken while it is being freed, a thread that opens, uses or     *)
(* closes a session finds its own structure in its slot, allocated, in no  *)
(* other slot and with its own configuration: the compare-and-swaps of     *)
(* kts_alloc_slot and kts_free_slot keep the sessions of any number of     *)
(* threads apart.                                                          *)
(***************************************************************************)
THEOREM SessionsKeptApart == Spec => []OwnSession
<1>1. TypeInv /\ TableInv => OwnSession
    <2> SUFFICES ASSUME TypeInv, TableInv, ~wiped, ~retaken, NEW t \in Thread,
                        thr[t].pc \in {"driver", "threads", "ready", "connect",
                                       "wait", "have", "join"}
        PROVE  /\ Mine(t) = thr[t].ks
               /\ \A k \in Slots \ {thr[t].kts} : kts_table[k] # thr[t].ks
               /\ ses[thr[t].ks].mem = "allocated"
               /\ thr[t].pc \notin {"driver"} => ses[thr[t].ks].cf = t
        BY DEF OwnSession
    <2>1. Found /\ Apart /\ Opened
        BY TableNow
    <2>2. Owns(t)
        BY DEF Owns, Slotted
    <2>3. thr[t].kts \in Slots
        BY <2>2, OwnerSlot
    <2>4. /\ Mine(t) = thr[t].ks /\ thr[t].ks \in Structs
          /\ ses[thr[t].ks].mem = "allocated"
        BY <2>1, <2>2 DEF Found
    <2>5. thr[t].ks # 0
        BY <2>4, SessionsAssumption DEF Structs
    <2>6. \A k \in Slots \ {thr[t].kts} : kts_table[k] # thr[t].ks
        BY <2>1, <2>3, <2>4, <2>5 DEF Apart, Mine
    <2> QED
        BY <2>1, <2>4, <2>6 DEF Opened
<1> QED
    BY <1>1, TypeInvariant, TableInvariant, PTL

(***************************************************************************)
(* Under the same condition no slot is lost: whatever way an open fails, a *)
(* slot that is occupied belongs to a thread or holds a session that       *)
(* ktli_close refused to close.                                            *)
(***************************************************************************)
THEOREM NoSlotIsLost == Spec => []SlotsAccounted
<1>1. TableInv => SlotsAccounted
    BY DEF TableInv, SlotsAccounted
<1> QED
    BY <1>1, TableInvariant, PTL

\* kts_free_slot: the structure that was taken out of the slot is not freed.
NothingFreed ==
    ~wiped /\ ~retaken => \A t \in Thread : thr[t].pc # "free"

(***************************************************************************)
(* Under the same condition kts_free_slot never comes to its free: what it *)
(* tests after the swap is the slot it has just emptied, so the structure  *)
(* of every session that is closed is leaked.                              *)
(***************************************************************************)
THEOREM StructuresAreLeaked == Spec => []NothingFreed
<1>1. TableInv => NothingFreed
    BY DEF TableInv, Emptied, NothingFreed
<1> QED
    BY <1>1, TableInvariant, PTL
=============================================================================
