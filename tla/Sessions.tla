------------------------------ MODULE Sessions ------------------------------
(***************************************************************************)
(* Opening and closing sessions (src/src/open.c, the open, connect and     *)
(* close of ktli.c, and the session table of ktli_session.c): threads that *)
(* share nothing but the table open sessions in parallel, the first of     *)
(* them initialising the table, wait for the device's unsolicited status,  *)
(* and close.  The table is changed with compare-and-swap only.            *)
(***************************************************************************)
EXTENDS Integers, FiniteSets

CONSTANTS
    Thread,
    KTS_MAX_SESSIONS,   \* slots of the table (1024 in the code)
    MaxAlloc            \* bound on the session structures allocated

ASSUME SessionsAssumption ==
    KTS_MAX_SESSIONS \in Nat \ {0} /\ MaxAlloc \in Nat

VARIABLES
    ktli_up,    \* has a thread claimed the initialisation?
    kts_table,  \* slot -> session structure, 0 for NULL
    ses,        \* the session structures
    thr,        \* what each thread is doing
    next,       \* next structure malloc returns
    wiped,      \* history: has the initialisation cleared a slot in use?
    retaken,    \* history: was a slot taken again while it was being freed?
    crashed     \* how the process ended

vars == <<ktli_up, kts_table, ses, thr, next, wiped, retaken, crashed>>

Slots == 0 .. KTS_MAX_SESSIONS - 1
Structs == 1 .. MaxAlloc

\* cf: the thread whose ktli_config, queues and driver handle hang on it;
\* status: the unsolicited status on compq; receiver: "spins" until the
\* session is connected, "stuck" when it has locked itself out (module Ktli).
NoSes == [mem |-> "none", cf |-> "none", kts_state |-> "UNKNOWN",
          status |-> "none", receiver |-> "none"]
NoThread == [pc |-> "idle", kts |-> -1, ks |-> 0, i |-> 0]

Init ==
    /\ ktli_up = 0
    /\ kts_table = [k \in Slots |-> 0]
    /\ ses = [s \in Structs |-> NoSes]
    /\ thr = [t \in Thread |-> NoThread]
    /\ next = 1
    /\ wiped = FALSE /\ retaken = FALSE
    /\ crashed = "none"

At(t, pc) == crashed = "none" /\ thr[t].pc = pc
Goto(t, pc) == thr' = [thr EXCEPT ![t].pc = pc]
Mine(t) == kts_table[thr[t].kts]        \* the structure in t's slot

\* The setters of ktli_session.c do nothing when the slot is empty.
kts_set(t, f, x) ==
    ses' = IF Mine(t) = 0 THEN ses ELSE [ses EXCEPT ![Mine(t)][f] = x]

kts_state(t) == IF Mine(t) = 0 THEN "UNKNOWN" ELSE ses[Mine(t)].kts_state
kts_isvalid(t) == Mine(t) # 0

----------------------------------------------------------------------------
(* ktli_open *)

\* The thread whose compare-and-swap succeeds initialises the table; the
\* others go on without waiting for it.
ktli_open(t) ==
    /\ At(t, "idle")
    /\ next \in Structs
    /\ ktli_up' = 1
    /\ Goto(t, IF ktli_up = 0 THEN "init" ELSE "queues")
    /\ UNCHANGED <<kts_table, ses, next, wiped, retaken, crashed>>

kts_init(t) ==
    /\ At(t, "init")
    /\ kts_table' = [k \in Slots |-> 0]
    /\ wiped' = (\E k \in Slots : kts_table[k] # 0)
    /\ Goto(t, "queues")
    /\ UNCHANGED <<ktli_up, ses, next, retaken, crashed>>

\* No such driver or no helpers: EINVAL.  Of the queues, lists and the slot
\* number something cannot be allocated: ENOMEM, or a null pointer when it
\* was a queue, since the clean-up looks into all three of them.
OpenRefused(t) ==
    /\ At(t, "queues")
    /\ thr' = [thr EXCEPT ![t] = NoThread]
    /\ crashed' \in {"none", "queue"}
    /\ UNCHANGED <<ktli_up, kts_table, ses, next, wiped, retaken>>

\* kts_alloc_slot: the structure is not cleared; no memory is -1.
AllocSession(t) ==
    /\ At(t, "queues")
    /\ \/ /\ next \in Structs
          /\ thr' = [thr EXCEPT ![t].pc = "scan", ![t].ks = next, ![t].i = 0]
          /\ ses' = [ses EXCEPT ![next].mem = "allocated"]
          /\ next' = next + 1
       \/ /\ thr' = [thr EXCEPT ![t].pc = "unwind", ![t].kts = -1]
          /\ UNCHANGED <<ses, next>>
    /\ UNCHANGED <<ktli_up, kts_table, wiped, retaken, crashed>>

\* A thread that is inside kts_free_slot for slot k, past its swap.
Freeing(u, k) == thr[u].pc \in {"test", "free"} /\ thr[u].kts = k

\* Mutant: the result of the swap is not tested.
kts_alloc_slotBlind(t) ==
    /\ At(t, "scan")
    /\ kts_table' = [kts_table EXCEPT ![0] = IF @ = 0 THEN thr[t].ks ELSE @]
    /\ thr' = [thr EXCEPT ![t].pc = "driver", ![t].kts = 0]
    /\ UNCHANGED <<ktli_up, ses, next, wiped, retaken, crashed>>

kts_alloc_slot(t) ==
    /\ At(t, "scan")
    /\ LET i == thr[t].i
       IN  \/ /\ i \in Slots /\ kts_table[i] = 0
              /\ kts_table' = [kts_table EXCEPT ![i] = thr[t].ks]
              /\ thr' = [thr EXCEPT ![t].pc = "driver", ![t].kts = i,
                                    ![t].i = 0]
              /\ retaken' = (retaken \/ \E u \in Thread : Freeing(u, i))
              /\ UNCHANGED ses
           \/ /\ i \in Slots /\ kts_table[i] # 0
              /\ thr' = [thr EXCEPT ![t].i = i + 1]
              /\ UNCHANGED <<kts_table, ses, retaken>>
           \/ /\ i \notin Slots
              /\ ses' = [ses EXCEPT ![thr[t].ks].mem = "freed"]
              /\ thr' = [thr EXCEPT ![t].pc = "unwind", ![t].kts = -1]
              /\ UNCHANGED <<kts_table, retaken>>
    /\ UNCHANGED <<ktli_up, next, wiped, crashed>>

\* Open the driver; hang handle, configuration, helpers and queues on the
\* session; or leave through open_err.
OpenDriver(t) ==
    /\ At(t, "driver")
    /\ \/ kts_set(t, "cf", t) /\ Goto(t, "threads")
       \/ Goto(t, "unwind") /\ UNCHANGED ses
    /\ UNCHANGED <<ktli_up, kts_table, next, wiped, retaken, crashed>>

\* Both threads look the session up and assert that it has a driver handle.
\* When the second cannot be created the first is told to exit and joined.
StartThreads(t) ==
    /\ At(t, "threads")
    /\ \/ /\ Goto(t, "ready")
          /\ kts_set(t, "receiver", "spins")
          /\ crashed' = IF Mine(t) = 0 \/ ses[Mine(t)].cf = "none"
                        THEN "assert" ELSE crashed
       \/ Goto(t, "unwind") /\ UNCHANGED <<ses, crashed>>
    /\ UNCHANGED <<ktli_up, kts_table, next, wiped, retaken>>

OpenReady(t) ==
    /\ At(t, "ready")
    /\ kts_set(t, "kts_state", "OPENED")
    /\ Goto(t, "connect")
    /\ UNCHANGED <<ktli_up, kts_table, next, wiped, retaken, crashed>>

\* Mutant: open_err does not free the slot.
OpenErrKeeps(t) ==
    /\ At(t, "unwind")
    /\ thr' = [thr EXCEPT ![t] = NoThread]
    /\ UNCHANGED <<ktli_up, kts_table, ses, next, wiped, retaken, crashed>>

\* open_err frees the queues and then the slot, also when it never got one:
\* kts_free_slot(-1) works on the word before the table.
OpenErr(t) ==
    /\ At(t, "unwind")
    /\ thr' = [thr EXCEPT ![t] = IF @.kts = -1 THEN NoThread
                                 ELSE [@ EXCEPT !.pc = "slot"]]
    /\ crashed' \in (IF thr[t].kts = -1 THEN {crashed, "slot"} ELSE {crashed})
    /\ UNCHANGED <<ktli_up, kts_table, ses, next, wiped, retaken>>

----------------------------------------------------------------------------
(* kts_free_slot *)

LoadSlot(t) ==
    /\ At(t, "slot")
    /\ thr' = [thr EXCEPT ![t].pc = "swap", ![t].ks = Mine(t)]
    /\ UNCHANGED <<ktli_up, kts_table, ses, next, wiped, retaken, crashed>>

kts_free_slot(t) ==
    /\ At(t, "swap")
    /\ IF Mine(t) = thr[t].ks
       THEN /\ kts_table' = [kts_table EXCEPT ![thr[t].kts] = 0]
            /\ Goto(t, "test")
       ELSE UNCHANGED kts_table /\ thr' = [thr EXCEPT ![t] = NoThread]
    /\ UNCHANGED <<ktli_up, ses, next, wiped, retaken, crashed>>

\* What is tested and freed is what the slot holds now, not the structure
\* that was taken out of it.
TestSlot(t) ==
    /\ At(t, "test")
    /\ IF Mine(t) # 0 THEN Goto(t, "free")
                      ELSE thr' = [thr EXCEPT ![t] = NoThread]
    /\ UNCHANGED <<ktli_up, kts_table, ses, next, wiped, retaken, crashed>>

FreeSlot(t) ==
    /\ At(t, "free")
    /\ kts_set(t, "mem", "freed")
    /\ thr' = [thr EXCEPT ![t] = NoThread]
    /\ UNCHANGED <<ktli_up, kts_table, next, wiped, retaken, crashed>>

----------------------------------------------------------------------------
(* ki_open *)

ktli_connect(t) ==
    /\ At(t, "connect")
    /\ \/ /\ kts_isvalid(t) /\ kts_state(t) = "OPENED"
          /\ ses' = [ses EXCEPT ![Mine(t)].kts_state = "CONNECTED"]
          /\ Goto(t, "wait")
       \/ Goto(t, "close") /\ UNCHANGED ses
    /\ UNCHANGED <<ktli_up, kts_table, next, wiped, retaken, crashed>>

\* The receivers and the devices: what becomes of a session that its caller
\* has dropped makes no difference.
Live(s) == crashed = "none" /\ \E t \in Thread : thr[t].ks = s

\* The receiver sees that the session is connected; from then on it tests
\* its exit flag.
ReceiverRuns(s) ==
    /\ Live(s)
    /\ ses[s].receiver = "spins"
    /\ ses[s].kts_state = "CONNECTED"
    /\ ses' = [ses EXCEPT ![s].receiver = "runs"]
    /\ UNCHANGED <<ktli_up, kts_table, thr, next, wiped, retaken, crashed>>

\* The device sends its unsolicited status.
DeviceStatus(s) ==
    /\ Live(s)
    /\ ses[s].kts_state = "CONNECTED"
    /\ ses[s].receiver = "runs"
    /\ ses[s].status = "none"
    /\ ses' = [ses EXCEPT ![s].status = "there"]
    /\ UNCHANGED <<ktli_up, kts_table, thr, next, wiped, retaken, crashed>>

\* The peer closes the connection: the receiver locks itself out.
PeerCloses(s) ==
    /\ Live(s)
    /\ ses[s].kts_state = "CONNECTED"
    /\ ses[s].receiver = "runs"
    /\ ses' = [ses EXCEPT ![s].kts_state = "ABORTED", ![s].receiver = "stuck"]
    /\ UNCHANGED <<ktli_up, kts_table, thr, next, wiped, retaken, crashed>>

\* Mutant: a stale errno sends the loop round after a success.
TakeStatusAgain(t) ==
    /\ At(t, "wait")
    /\ kts_isvalid(t) /\ kts_state(t) \in {"CONNECTED", "DRAINING"}
    /\ ses[Mine(t)].status = "there"
    /\ ses' = [ses EXCEPT ![Mine(t)].status = "taken"]
    /\ UNCHANGED <<ktli_up, kts_table, thr, next, wiped, retaken, crashed>>

\* ktli_poll(ktd, 0) and ktli_receive_unsolicited, until the status is
\* there: any error goes round the loop as ENOENT does.  Whatever the
\* unpacking of the status gives, the descriptor is returned.
TakeStatus(t) ==
    /\ At(t, "wait")
    /\ kts_isvalid(t) /\ kts_state(t) \in {"CONNECTED", "DRAINING"}
    /\ ses[Mine(t)].status = "there"
    /\ ses' = [ses EXCEPT ![Mine(t)].status = "taken"]
    /\ Goto(t, "have")
    /\ UNCHANGED <<ktli_up, kts_table, next, wiped, retaken, crashed>>

----------------------------------------------------------------------------
(* ktli_disconnect and ktli_close; ki_close is not implemented *)

\* Mutant: the session is not drained.
DisconnectOnly(t) ==
    /\ At(t, "have")
    /\ kts_isvalid(t) /\ kts_state(t) \in {"CONNECTED", "ABORTED"}
    /\ ses' = [ses EXCEPT ![Mine(t)].kts_state = "DRAINING"]
    /\ UNCHANGED <<ktli_up, kts_table, thr, next, wiped, retaken, crashed>>

\* Disconnect and drain, to the state in which ktli_close takes a session.
Disconnect(t) ==
    /\ At(t, "have")
    /\ kts_isvalid(t) /\ kts_state(t) \in {"CONNECTED", "ABORTED"}
    /\ ses' = [ses EXCEPT ![Mine(t)].kts_state = "OPENED"]
    /\ UNCHANGED <<ktli_up, kts_table, thr, next, wiped, retaken, crashed>>

CloseCall(t) ==
    /\ At(t, "have")
    /\ Goto(t, "close")
    /\ UNCHANGED <<ktli_up, kts_table, ses, next, wiped, retaken, crashed>>

\* The tests at the top of ktli_close; a session that is not in the state
\* OPENED is left as it is.
ktli_close(t) ==
    /\ At(t, "close")
    /\ IF kts_isvalid(t) /\ kts_state(t) = "OPENED"
       THEN Goto(t, "join")
       ELSE thr' = [thr EXCEPT ![t] = NoThread]
    /\ UNCHANGED <<ktli_up, kts_table, ses, next, wiped, retaken, crashed>>

\* The sender always comes to its exit test, the receiver only when it is
\* past its first loop.  Then the queues are freed.
JoinThreads(t) ==
    /\ At(t, "join")
    /\ Mine(t) # 0 /\ ses[Mine(t)].receiver = "runs"
    /\ ses' = [ses EXCEPT ![Mine(t)].receiver = "none"]
    /\ Goto(t, "slot")
    /\ UNCHANGED <<ktli_up, kts_table, next, wiped, retaken, crashed>>

----------------------------------------------------------------------------
Opening(t) ==
    \/ kts_init(t) \/ OpenRefused(t) \/ AllocSession(t) \/ kts_alloc_slot(t)
    \/ OpenDriver(t) \/ StartThreads(t) \/ OpenReady(t) \/ OpenErr(t)
    \/ ktli_connect(t) \/ TakeStatus(t)

Closing(t) ==
    \/ ktli_close(t) \/ JoinThreads(t)
    \/ LoadSlot(t) \/ kts_free_slot(t) \/ TestSlot(t) \/ FreeSlot(t)

Next ==
    \/ \E t \in Thread :
           Opening(t) \/ Closing(t) \/ ktli_open(t) \/ Disconnect(t)
                      \/ CloseCall(t)
    \/ \E s \in Structs : ReceiverRuns(s) \/ DeviceStatus(s) \/ PeerCloses(s)

\* A thread inside ki_open or ktli_close and the receiver of a session run
\* on, and a device sends the status of a new connection.
Fairness ==
    /\ \A t \in Thread : WF_vars(Opening(t)) /\ WF_vars(Closing(t))
    /\ \A s \in Structs : WF_vars(ReceiverRuns(s)) /\ WF_vars(DeviceStatus(s))

Spec == Init /\ [][Next]_vars
FairSpec == Spec /\ Fairness

----------------------------------------------------------------------------
(* Properties *)

InOpen == {"init", "queues", "scan", "driver", "threads", "ready", "unwind",
           "connect", "wait"}
InClose == {"close", "join", "slot", "swap", "test", "free"}

\* Every variable has its type.
TypeOK ==
    /\ ktli_up \in 0 .. 1
    /\ kts_table \in [Slots -> 0 .. MaxAlloc]
    /\ ses \in [Structs ->
           [mem : {"none", "allocated", "freed"}, cf : Thread \cup {"none"},
            kts_state : {"UNKNOWN", "OPENED", "CONNECTED", "ABORTED"},
            status : {"none", "there", "taken"},
            receiver : {"none", "spins", "runs", "stuck"}]]
    /\ thr \in [Thread ->
           [pc : {"idle", "have"} \cup InOpen \cup InClose,
            kts : Slots \cup {-1}, ks : 0 .. MaxAlloc,
            i : 0 .. KTS_MAX_SESSIONS]]
    /\ next \in 1 .. MaxAlloc + 1

\* kts_alloc_slot and kts_free_slot: from the allocation of its slot until
\* it gives the slot up, a thread finds its own session structure there,
\* allocated, in no other slot, and, once set, with its own configuration
\* and queues.  It may not when the table was initialised under its feet, or
\* when the slot was taken while another thread was still freeing it.
OwnSession ==
    ~wiped /\ ~retaken =>
        \A t \in Thread :
            thr[t].pc \in {"driver", "threads", "ready", "connect", "wait",
                           "have", "join"} =>
                /\ Mine(t) = thr[t].ks
                /\ \A k \in Slots \ {thr[t].kts} : kts_table[k] # thr[t].ks
                /\ ses[thr[t].ks].mem = "allocated"
                /\ thr[t].pc \notin {"driver"} => ses[thr[t].ks].cf = t

\* ktli_open's error exits and ktli_close: a slot is occupied only as long as
\* a thread is working on its session, or the session was left connected by
\* a close that was refused; no slot is lost to an open that failed.
SlotsAccounted ==
    ~wiped /\ ~retaken =>
        \A k \in Slots :
            kts_table[k] # 0 =>
                \/ \E t \in Thread : thr[t].kts = k
                \/ ses[kts_table[k]].kts_state \in {"CONNECTED", "ABORTED"}

\* ki_open returns to its caller when the connection is made and holds until
\* the device's status has come.  It does not when the connection cannot be
\* made (ktli_close then waits for a receiver that never tests its exit
\* flag) or is closed before the status arrives.
Returns ==
    \A t \in Thread :
        thr[t].pc \in InOpen ~>
            \/ thr[t].pc \in {"idle", "have"}
            \/ crashed # "none" \/ wiped \/ retaken
            \/ thr[t].pc = "join" /\ ses[Mine(t)].receiver = "spins"
            \/ thr[t].pc = "wait" /\ kts_state(t) = "ABORTED"
=============================================================================
