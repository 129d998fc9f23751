-------------------------------- MODULE Ktli --------------------------------
(***************************************************************************)
(* One session of the Kinetic Transport Layer Interface (src/src/ktli.c):  *)
(* the client's calls, the sender thread, the receiver thread and the      *)
(* three queues they hand kios through, over a socket and a server that    *)
(* are modelled from how the code uses them.                               *)
(*                                                                         *)
(* A critical section under one queue mutex is one step.  The receiver     *)
(* keeps the recvq mutex over its whole timeout scan, so there RqFree is   *)
(* false.  A kio is a piece of memory: with "reuse" in Env the allocator   *)
(* may hand a freed kio to the next request, and whatever a thread still   *)
(* does to it lands in that request, and whatever a thread still reads     *)
(* from it is read from that request.                                      *)
(***************************************************************************)
EXTENDS Integers, Sequences, FiniteSets, SequencesExt

CONSTANTS
    Kio,          \* the kios client requests are made with
    ReqOnly,      \* those first used for one-way requests, the puts and
                  \* deletes of a batch
    Unsol,        \* the kios ktli_recvmsg allocates for unsolicited messages
    NoKio,        \* a thread with no kio in hand
    MaxSends,     \* bound on successful ktli_send calls
    MaxConnect,   \* bound on ktli_connect calls
    MissIsNeg,    \* is LIST_EXTENT / LIST_EMPTY of the list library negative?
    Env           \* what the surroundings do, see below

(***************************************************************************)
(* "clock"       time passes, so that a response can be overdue            *)
(* "stall"       the sender may be held up between queueing a kio on recvq *)
(*               and the end of the driver's send, long enough for a       *)
(*               timeout scan to look at that kio                          *)
(* "reuse"       malloc may return a kio that was just freed, for a        *)
(*               request of either kind if the client makes one-way ones   *)
(* "disconnect"  the client calls ktli_disconnect                          *)
(* "close"       the client calls ktli_close                               *)
(* "fin"         the server closes its end (poll: POLLIN, read: EOF)       *)
(* "rst"         the connection is reset (poll: POLLHUP)                   *)
(* "garbled"     a response that ki_getaseq cannot unpack                  *)
(***************************************************************************)
AllEnv == {"clock", "stall", "reuse", "disconnect", "close", "fin", "rst",
           "garbled"}

AnyKio == Kio \cup Unsol

\* A sender that is held up, or whose kio is drained, makes more use of a kio
\* it no longer has than its steps below tell apart: reuse is modelled for a
\* session that stays connected.
ASSUME KtliAssumption ==
    /\ ReqOnly \subseteq Kio
    /\ Kio \cap Unsol = {}
    /\ NoKio \notin AnyKio
    /\ MaxSends \in Nat
    /\ MaxConnect \in Nat
    /\ MissIsNeg \in BOOLEAN
    /\ Env \subseteq AllEnv
    /\ "reuse" \in Env => Env \subseteq {"clock", "reuse"}

VARIABLES
    kts_state,    \* session state
    kts_sequence, \* next sequence number; only the sender uses it
    sendq, recvq, compq,
    kio_state, kio_seq,
    kio_qbp,      \* queue holding the list element the back pointer names
    kio_timeout,  \* "zero" (never set), "armed" or "expired"
    kio_recvmsg,  \* sequence number of the request this response answers
    kio_reqonly,  \* kio_flags: the kios whose KIOF_REQONLY is set
    spc, skio,    \* sender: position, kio in hand
    rpc, rkio,    \* receiver: position, kio in hand
    rmsg,         \* receiver: message in hand
    cpc,          \* client: what the owner of each kio is doing
    drain,        \* client: progress of ktli_drain or ktli_drain_match
    xpc,          \* client: progress of ktli_disconnect or ktli_close
    conn,         \* the driver's socket
    server,       \* sequence numbers the server still owes a response for
    sends, order, \* history: ktli_send calls so far, position of each kio
    connects      \* history: ktli_connect calls so far

kiovars == <<kio_state, kio_seq, kio_qbp, kio_timeout, kio_recvmsg,
             kio_reqonly>>
queues  == <<sendq, recvq, compq>>
sender  == <<spc, skio, kts_sequence>>
receiver == <<rpc, rkio, rmsg>>
history == <<sends, order, connects>>
session == <<kts_state, drain, xpc, conn>>
vars == <<kiovars, queues, sender, receiver, history, session, cpc, server>>

FirstSeq == 100

SessionStates == {"UNKNOWN", "OPENED", "CONNECTED", "ABORTED", "DRAINING"}
KioStates == {"NEW", "SENT", "RECEIVED", "FAILED", "TIMEDOUT"}
Completed == {"RECEIVED", "FAILED", "TIMEDOUT"}
Queues == {"null", "sendq", "recvq", "compq"}
SenderPCs == {"top", "wait", "woken", "loop", "pop", "hand", "queued", "armed",
              "ok", "fail", "compR", "compF", "done", "crash"}
ReceiverPCs == {"init", "poll", "read", "match", "comp", "tmo", "abort",
                "hangup", "dead", "done", "crash"}

Message == [aseq : {-1} \cup Nat, req : Nat]
NoMsg == [aseq |-> 0, req |-> 0]

\* The content of a message nobody can unpack; no sequence number.
Junk == 1

\* A drain call: the kio to match (none for ktli_drain), the queue it is at
\* (compq, recvq, sendq, and 4 past the last), whether a queue it has left was
\* not empty, and what its search of the last queue said.
DrainCalls == [kio : Kio \cup {NoKio}, at : 0 .. 4, left : BOOLEAN,
               found : BOOLEAN]
NoDrain == [kio |-> NoKio, at |-> 0, left |-> FALSE, found |-> FALSE]

-----------------------------------------------------------------------------
(* The list library, as the code uses it.                                  *)

Position(q, k) == CHOOSE i \in DOMAIN q : q[i] = k

\* list_setcurr and list_remove_curr: nothing, for an element of no list.
Dequeue(q, k) == IF Contains(q, k) THEN RemoveAt(q, Position(q, k)) ELSE q

Queued(k) == Contains(sendq, k) \/ Contains(recvq, k) \/ Contains(compq, k)

\* The receiver sleeps or works with the recvq mutex in hand.
RqFree == rpc \notin {"tmo", "dead"}

SqExit == xpc \in {"joinS", "joinR", "closed"}
RqExit == xpc \in {"joinR", "closed"}

\* What becomes of a kio its owner has got back and freed.
Retired == IF "reuse" \in Env THEN "idle" ELSE "freed"

-----------------------------------------------------------------------------
(* State after ktli_open: threads running, nothing queued.                 *)

Init ==
    /\ kts_state = "OPENED"
    /\ kts_sequence = FirstSeq
    /\ sendq = <<>> /\ recvq = <<>> /\ compq = <<>>
    /\ kio_state = [k \in AnyKio |-> "NEW"]
    /\ kio_seq = [k \in AnyKio |-> 0]
    /\ kio_qbp = [k \in AnyKio |-> "null"]
    /\ kio_timeout = [k \in AnyKio |-> "zero"]
    /\ kio_recvmsg = [k \in AnyKio |-> 0]
    /\ kio_reqonly = ReqOnly
    /\ spc = "top" /\ skio = NoKio
    /\ rpc = "init" /\ rkio = NoKio /\ rmsg = NoMsg
    /\ cpc = [k \in Kio |-> "idle"]
    /\ drain = NoDrain
    /\ xpc = "none"
    /\ conn = "down"
    /\ server = {}
    /\ sends = 0 /\ order = [k \in Kio |-> 0] /\ connects = 0

-----------------------------------------------------------------------------
(* Client calls.                                                           *)

\* The flags of kio k when a request is built in it: memory that is used again
\* does not remember which kind of request it was used for.
Flagged(k) ==
    IF "reuse" \in Env /\ ReqOnly # {}
    THEN {kio_reqonly \cup {k}, kio_reqonly \ {k}}
    ELSE {kio_reqonly}

\* A fresh kio, and ktli_send up to its test of the session state.  The
\* early returns change nothing.
SendCheck(k) ==
    /\ cpc[k] = "idle"
    /\ kts_state = "CONNECTED"
    /\ sends < MaxSends
    /\ cpc' = [cpc EXCEPT ![k] = "sending"]
    /\ kio_state' = [kio_state EXCEPT ![k] = "NEW"]
    /\ kio_seq' = [kio_seq EXCEPT ![k] = 0]
    /\ kio_qbp' = [kio_qbp EXCEPT ![k] = "null"]
    /\ kio_timeout' = [kio_timeout EXCEPT ![k] = "zero"]
    /\ kio_recvmsg' = [kio_recvmsg EXCEPT ![k] = 0]
    /\ kio_reqonly' \in Flagged(k)
    /\ UNCHANGED <<queues, sender, receiver, history, session, server>>

\* The rest of ktli_send, under the sendq mutex.
SendEnqueue(k) ==
    /\ cpc[k] = "sending"
    /\ sends < MaxSends
    /\ sendq' = Append(sendq, k)
    /\ kio_qbp' = [kio_qbp EXCEPT ![k] = "sendq"]
    /\ kio_state' = [kio_state EXCEPT ![k] = "NEW"]
    /\ spc' = IF spc = "wait" THEN "woken" ELSE spc
    /\ cpc' = [cpc EXCEPT ![k] = "out"]
    /\ sends' = sends + 1
    /\ order' = [order EXCEPT ![k] = sends + 1]
    /\ UNCHANGED <<recvq, compq, kio_seq, kio_timeout, kio_recvmsg,
                   kio_reqonly, skio, kts_sequence, receiver, connects,
                   session, server>>

\* ktli_receive in a session that was connected when the call tested its
\* state, before it took the mutex.  The back pointer leads to the element;
\* where it does not lead into compq the code asserts.
Receive(k) ==
    /\ cpc[k] = "out" /\ drain.kio # k
    /\ kts_state \in {"CONNECTED", "ABORTED", "DRAINING"}
    /\ kio_state[k] \in Completed
    /\ IF kio_qbp[k] = "compq"
       THEN /\ compq' = Dequeue(compq, k)
            /\ kio_qbp' = [kio_qbp EXCEPT ![k] = "null"]
            /\ cpc' = [cpc EXCEPT ![k] = Retired]
       ELSE /\ cpc' = [cpc EXCEPT ![k] = "assert"]
            /\ UNCHANGED <<compq, kio_qbp>>
    /\ UNCHANGED <<sendq, recvq, kio_state, kio_seq, kio_timeout, kio_recvmsg,
                   kio_reqonly, sender, receiver, history, session, server>>

\* ktli_receive_unsolicited: the first kio of compq without a request; its
\* caller frees it.
ReceiveUnsolicited ==
    /\ kts_state \in {"CONNECTED", "DRAINING"}
    /\ \E i \in DOMAIN compq :
          /\ compq[i] \in Unsol
          /\ \A j \in 1 .. i - 1 : compq[j] \notin Unsol
          /\ compq' = RemoveAt(compq, i)
          /\ kio_qbp' = [kio_qbp EXCEPT ![compq[i]] = "null"]
    /\ UNCHANGED <<sendq, recvq, kio_state, kio_seq, kio_timeout, kio_recvmsg,
                   kio_reqonly, sender, receiver, history, session, cpc,
                   server>>

\* A client calls ktli_drain (k is NoKio), or ktli_receive for k, which in a
\* draining session is ktli_drain_match.  One such call at a time.
DrainCall(k) ==
    /\ kts_state = "DRAINING" /\ drain = NoDrain
    /\ k \in Kio => cpc[k] = "out"
    /\ drain' = [NoDrain EXCEPT !.kio = k, !.at = 1]
    /\ UNCHANGED <<kiovars, queues, sender, receiver, history, kts_state, xpc,
                   conn, cpc, server>>

\* The queue the call is at, and what becomes of the three if that one is q.
DrainQ == <<compq, recvq, sendq>>[drain.at]

DrainTo(q) ==
    /\ drain.at = 2 => RqFree
    /\ compq' = IF drain.at = 1 THEN q ELSE compq
    /\ recvq' = IF drain.at = 2 THEN q ELSE recvq
    /\ sendq' = IF drain.at = 3 THEN q ELSE sendq

\* A kio off a queue of a draining session.
DrainOff(k) ==
    /\ kio_qbp' = [kio_qbp EXCEPT ![k] = "null"]
    /\ kio_state' = [kio_state EXCEPT ![k] = "FAILED"]

DrainUnchanged == UNCHANGED <<kio_seq, kio_timeout, kio_recvmsg, kio_reqonly,
                              sender, receiver, history, xpc, conn, server>>

\* ktli_drain takes the front of the first queue that is not empty and returns.
DrainFront ==
    /\ drain.at \in 1 .. 3 /\ drain.kio = NoKio
    /\ DrainQ # <<>>
    /\ DrainTo(Tail(DrainQ))
    /\ DrainOff(Head(DrainQ))
    /\ cpc' = [k \in Kio |-> IF k = Head(DrainQ) THEN Retired ELSE cpc[k]]
    /\ drain' = NoDrain
    /\ UNCHANGED kts_state /\ DrainUnchanged

DrainSkip ==
    /\ drain.at \in 1 .. 3 /\ drain.kio = NoKio
    /\ DrainQ = <<>>
    /\ DrainTo(DrainQ)
    /\ drain' = [drain EXCEPT !.at = @ + 1]
    /\ UNCHANGED <<kio_qbp, kio_state, kts_state, cpc>> /\ DrainUnchanged

\* ktli_drain_match searches all three queues and forgets what it found in an
\* earlier one.
DrainMatch ==
    /\ drain.at \in 1 .. 3 /\ drain.kio # NoKio
    /\ DrainTo(Dequeue(DrainQ, drain.kio))
    /\ IF Contains(DrainQ, drain.kio) THEN DrainOff(drain.kio)
       ELSE UNCHANGED <<kio_qbp, kio_state>>
    /\ drain' = [drain EXCEPT !.at = @ + 1,
                  !.left = @ \/ Dequeue(DrainQ, drain.kio) # <<>>,
                  !.found = Contains(DrainQ, drain.kio)]
    /\ UNCHANGED <<kts_state, cpc>> /\ DrainUnchanged

\* Past the last queue: OPENED, if every queue was seen empty.
DrainReturn ==
    /\ drain.at = 4
    /\ kts_state' = IF drain.left THEN kts_state ELSE "OPENED"
    /\ cpc' = [k \in Kio |-> IF k = drain.kio /\ (drain.found \/ ~MissIsNeg)
                             THEN Retired ELSE cpc[k]]
    /\ drain' = NoDrain
    /\ UNCHANGED <<queues, kio_qbp, kio_state>> /\ DrainUnchanged

\* Mutant: connecting restarts the sequence.
ConnectRestart ==
    /\ kts_state = "OPENED" /\ xpc = "none"
    /\ connects < MaxConnect
    /\ conn' = "up"
    /\ kts_state' = "CONNECTED"
    /\ connects' = connects + 1
    /\ rmsg' = IF rpc = "read" THEN NoMsg ELSE rmsg
    /\ kts_sequence' = FirstSeq
    /\ UNCHANGED <<kiovars, queues, spc, skio, rpc, rkio, sends, order, drain,
                   xpc, cpc, server>>

\* A failing driver connect changes nothing.  The new socket takes the old
\* one's descriptor: a receiver inside the driver's receive has lost what it
\* was about to read.
Connect ==
    /\ kts_state = "OPENED" /\ xpc = "none"
    /\ connects < MaxConnect
    /\ conn' = "up"
    /\ kts_state' = "CONNECTED"
    /\ connects' = connects + 1
    /\ rmsg' = IF rpc = "read" THEN NoMsg ELSE rmsg
    /\ UNCHANGED <<kiovars, queues, sender, rpc, rkio, sends, order, drain, xpc,
                   cpc, server>>

\* ktli_disconnect needs one of two states and a shutdown(2) that works: it
\* does on a live socket, does not on one that was reset, and may on one that
\* was shut down before.
HangUp ==
    /\ kts_state \in {"CONNECTED", "ABORTED"}
    /\ conn \in {"up", "fin", "down"}
    /\ conn' = "down"
    /\ server' = {}

Disconnect ==
    /\ "disconnect" \in Env
    /\ xpc = "none"
    /\ HangUp
    /\ xpc' = "hangup"
    /\ UNCHANGED <<kiovars, queues, sender, receiver, history, kts_state, drain,
                   cpc>>

\* The rest of the call: both threads may have seen the dead socket by now.
DisconnectEnd ==
    /\ xpc = "hangup"
    /\ kts_state' = "DRAINING"
    /\ xpc' = "none"
    /\ UNCHANGED <<kiovars, queues, sender, receiver, history, drain, conn, cpc,
                   server>>

\* ktli_close up to the join of the sender.  No other call is inside the
\* session.
CloseStart ==
    /\ "close" \in Env
    /\ kts_state = "OPENED" /\ xpc = "none"
    /\ sendq = <<>> /\ recvq = <<>> /\ compq = <<>>
    /\ drain = NoDrain /\ \A k \in Kio : cpc[k] # "sending"
    /\ conn' = "closed"
    /\ xpc' = "joinS"
    /\ spc' = IF spc = "wait" THEN "woken" ELSE spc
    /\ UNCHANGED <<kiovars, queues, skio, kts_sequence, receiver, history,
                   kts_state, drain, cpc, server>>

\* The sender has exited: sendq goes, the receiver is told to exit.
CloseSendq ==
    /\ xpc = "joinS" /\ spc = "done"
    /\ sendq' = <<>>
    /\ xpc' = "joinR"
    /\ UNCHANGED <<kiovars, recvq, compq, sender, receiver, history, kts_state,
                   drain, conn, cpc, server>>

\* The receiver has exited: the other queues and the session slot go.
CloseFinish ==
    /\ xpc = "joinR" /\ rpc = "done"
    /\ recvq' = <<>> /\ compq' = <<>>
    /\ kts_state' = "UNKNOWN"
    /\ xpc' = "closed"
    /\ UNCHANGED <<kiovars, sendq, sender, receiver, history, drain, conn, cpc,
                   server>>

-----------------------------------------------------------------------------
(* The sender thread.                                                      *)

SenderUnchanged == UNCHANGED <<receiver, history, session, cpc>>

\* Wait for a signal only when there is nothing to send and no exit.
SenderTop ==
    /\ spc = "top"
    /\ spc' = IF sendq = <<>> /\ ~SqExit THEN "wait" ELSE "woken"
    /\ UNCHANGED <<kiovars, queues, skio, kts_sequence, server>>
    /\ SenderUnchanged

\* pthread_cond_wait may return without a signal.
SenderSpurious ==
    /\ spc = "wait"
    /\ spc' = "woken"
    /\ UNCHANGED <<kiovars, queues, skio, kts_sequence, server>>
    /\ SenderUnchanged

\* Awake, the thread tests the exit flag.
SenderWoken ==
    /\ spc = "woken"
    /\ spc' = IF SqExit THEN "done" ELSE "loop"
    /\ UNCHANGED <<kiovars, queues, skio, kts_sequence, server>>
    /\ SenderUnchanged

\* while (list_size(sendq)), read without the mutex.
SenderLoop ==
    /\ spc = "loop"
    /\ spc' = IF sendq = <<>> THEN "top" ELSE "pop"
    /\ UNCHANGED <<kiovars, queues, skio, kts_sequence, server>>
    /\ SenderUnchanged

\* Mutant: the sender takes the rear of sendq.
SenderPopRear ==
    /\ spc = "pop" /\ sendq # <<>>
    /\ spc' = "hand"
    /\ skio' = Last(sendq)
    /\ sendq' = Front(sendq)
    /\ kio_qbp' = [kio_qbp EXCEPT ![Last(sendq)] = "null"]
    /\ UNCHANGED <<recvq, compq, kio_state, kio_seq, kio_timeout, kio_recvmsg,
                   kio_reqonly, kts_sequence, server>>
    /\ SenderUnchanged

\* Take the front, if no drain took it since the size was read.
SenderPop ==
    /\ spc = "pop"
    /\ IF sendq = <<>>
       THEN /\ spc' = "crash"
            /\ UNCHANGED <<sendq, skio, kio_qbp>>
       ELSE /\ spc' = "hand"
            /\ skio' = Head(sendq)
            /\ sendq' = Tail(sendq)
            /\ kio_qbp' = [kio_qbp EXCEPT ![Head(sendq)] = "null"]
    /\ UNCHANGED <<recvq, compq, kio_state, kio_seq, kio_timeout, kio_recvmsg,
                   kio_reqonly, kts_sequence, server>>
    /\ SenderUnchanged

\* Mutant: the request is not queued on recvq.
SenderNumberOnly ==
    /\ spc = "hand"
    /\ kio_seq' = [kio_seq EXCEPT ![skio] = kts_sequence]
    /\ kts_sequence' = kts_sequence + 1
    /\ spc' = "queued"
    /\ UNCHANGED <<queues, kio_state, kio_qbp, kio_timeout, kio_recvmsg,
                   kio_reqonly, skio, server>>
    /\ SenderUnchanged

\* Number the request and, if a response is due, queue it on recvq before it
\* is sent.
SenderNumber ==
    /\ spc = "hand"
    /\ kio_seq' = [kio_seq EXCEPT ![skio] = kts_sequence]
    /\ kts_sequence' = kts_sequence + 1
    /\ IF skio \in kio_reqonly
       THEN UNCHANGED <<recvq, kio_qbp>>
       ELSE /\ RqFree
            /\ recvq' = Append(recvq, skio)
            /\ kio_qbp' = [kio_qbp EXCEPT ![skio] = "recvq"]
    /\ spc' = "queued"
    /\ UNCHANGED <<sendq, compq, kio_state, kio_timeout, kio_recvmsg,
                   kio_reqonly, skio, server>>
    /\ SenderUnchanged

\* Only now is the timeout set.
SenderArm ==
    /\ spc = "queued"
    /\ kio_timeout' = [kio_timeout EXCEPT ![skio] = "armed"]
    /\ spc' = "armed"
    /\ UNCHANGED <<queues, kio_state, kio_seq, kio_qbp, kio_recvmsg,
                   kio_reqonly, skio, kts_sequence, server>>
    /\ SenderUnchanged

\* The driver's send: all bytes, or an error.  A write after the peer closed
\* its end may still succeed.
SenderDriver ==
    /\ spc = "armed"
    /\ \/ /\ conn = "up"
          /\ spc' = "ok"
          /\ server' = IF skio \in kio_reqonly THEN server
                       ELSE server \cup {kio_seq[skio]}
       \/ conn = "fin" /\ spc' = "ok" /\ UNCHANGED server
       \/ conn # "up" /\ spc' = "fail" /\ UNCHANGED server
    /\ UNCHANGED <<kiovars, queues, skio, kts_sequence>>
    /\ SenderUnchanged

\* Mutant: a plain store.
MarkSentStore(k) == kio_state' = [kio_state EXCEPT ![k] = "SENT"]

\* SBCAS(&kio->kio_state, KIO_NEW, KIO_SENT)
MarkSent(k) ==
    kio_state' = [kio_state EXCEPT ![k] = IF @ = "NEW" THEN "SENT" ELSE @]

\* The driver took the request: one with a response stays on recvq.  The flag
\* is read after the send, through a pointer to a kio that may be another
\* request by now; if that one is one-way, the sender goes on to complete it.
\* (The compare-and-swap and the test are one step: a reuse between them would
\* only spare the new request the first.)
SenderSent ==
    /\ spc = "ok"
    /\ MarkSent(skio)
    /\ IF skio \in kio_reqonly
       THEN spc' = "compR" /\ skio' = skio
       ELSE spc' = "loop" /\ skio' = NoKio /\ RqFree
    /\ UNCHANGED <<queues, kio_seq, kio_qbp, kio_timeout, kio_recvmsg,
                   kio_reqonly, kts_sequence, server>>
    /\ SenderUnchanged

\* It did not: take the request back from recvq.  A back pointer that is not
\* into recvq leaves the list where it was, at its rear, and the rear goes.
SenderFailed ==
    /\ spc = "fail"
    /\ MarkSent(skio)
    /\ IF skio \in kio_reqonly
       THEN UNCHANGED <<recvq, kio_qbp>>
       ELSE /\ RqFree
            /\ recvq' = IF kio_qbp[skio] = "recvq" THEN Dequeue(recvq, skio)
                        ELSE IF recvq = <<>> THEN recvq ELSE Front(recvq)
            /\ kio_qbp' = [kio_qbp EXCEPT ![skio] = "null"]
    /\ spc' = "compF"
    /\ UNCHANGED <<sendq, compq, kio_seq, kio_timeout, kio_recvmsg,
                   kio_reqonly, skio, kts_sequence, server>>
    /\ SenderUnchanged

\* Failed, or sent with no response due: complete it.
SenderComplete ==
    /\ spc \in {"compR", "compF"}
    /\ compq' = Append(compq, skio)
    /\ kio_qbp' = [kio_qbp EXCEPT ![skio] = "compq"]
    /\ kio_state' = [kio_state EXCEPT ![skio] =
                        IF spc = "compR" THEN "RECEIVED" ELSE "FAILED"]
    /\ spc' = "loop" /\ skio' = NoKio
    /\ UNCHANGED <<sendq, recvq, kio_seq, kio_timeout, kio_recvmsg,
                   kio_reqonly, kts_sequence, server>>
    /\ SenderUnchanged

Sender ==
    \/ SenderTop \/ SenderWoken \/ SenderLoop \/ SenderPop \/ SenderNumber
    \/ SenderArm \/ SenderDriver \/ SenderSent \/ SenderFailed
    \/ SenderComplete

-----------------------------------------------------------------------------
(* The receiver thread.                                                    *)

ReceiverUnchanged == UNCHANGED <<sender, history, cpc, drain, xpc>>

\* Bottom of the loop: leave if told to.
Again == IF RqExit THEN "done" ELSE "poll"

ReceiverStart ==
    /\ rpc = "init"
    /\ kts_state = "CONNECTED"
    /\ rpc' = "poll"
    /\ UNCHANGED <<kiovars, queues, rkio, rmsg, kts_state, conn, server>>
    /\ ReceiverUnchanged

\* The driver's poll returns 0 and a timeout scan is due.  On a socket that
\* was shut down or reset poll returns -1 and the loop starts over: no step.
\* On a closed and freed handle it may return either.
PollIdle ==
    /\ rpc = "poll"
    /\ conn \in {"up", "closed"}
    /\ rpc' = "tmo"
    /\ UNCHANGED <<kiovars, queues, rkio, rmsg, kts_state, conn, server>>
    /\ ReceiverUnchanged

\* In the driver's poll, or already in its receive with nothing to read.
Polling == rpc = "poll" \/ (rpc = "read" /\ rmsg = NoMsg)

\* The driver's poll finds the first bytes of a response.  ki_getaseq will
\* give 0 if it cannot unpack it.
PollResponse(s) ==
    /\ Polling /\ conn = "up"
    /\ server' = server \ {s}
    /\ \/ rmsg' = [aseq |-> s, req |-> s]
       \/ "garbled" \in Env /\ rmsg' = [aseq |-> 0, req |-> Junk]
    /\ rpc' = "read"
    /\ UNCHANGED <<kiovars, queues, rkio, kts_state, conn>>
    /\ ReceiverUnchanged

PollUnsolicited ==
    /\ Polling /\ conn = "up"
    /\ \E u \in Unsol : kio_qbp[u] = "null"
    /\ rmsg' = [aseq |-> -1, req |-> 0]
    /\ rpc' = "read"
    /\ UNCHANGED <<kiovars, queues, rkio, kts_state, conn, server>>
    /\ ReceiverUnchanged

\* Readable because the peer closed its end.
PollEof ==
    /\ rpc = "poll" /\ conn = "fin"
    /\ rpc' = "read"
    /\ UNCHANGED <<kiovars, queues, rkio, rmsg, kts_state, conn, server>>
    /\ ReceiverUnchanged

\* The driver's receive gets the whole message, buffered data included.
ReadMessage ==
    /\ rpc = "read" /\ rmsg # NoMsg
    /\ conn \in {"up", "fin", "down"}
    /\ rpc' = "match"
    /\ UNCHANGED <<kiovars, queues, rkio, rmsg, kts_state, conn, server>>
    /\ ReceiverUnchanged

\* It meets the end of the stream or an error: ktli_recvmsg goes to recvmsgerr
\* and first sets the session ABORTED.
ReadError ==
    /\ rpc = "read" /\ conn # "up"
    /\ kts_state' = "ABORTED"
    /\ rpc' = "abort" /\ rmsg' = NoMsg
    /\ UNCHANGED <<kiovars, queues, rkio, conn, server>>
    /\ ReceiverUnchanged

\* recvmsgerr calls ktli_disconnect.
RecvmsgErr ==
    /\ rpc = "abort"
    /\ \/ HangUp /\ rpc' = "hangup"
       \/ /\ \/ kts_state \notin {"CONNECTED", "ABORTED"}
             \/ conn \notin {"up", "fin"}
          /\ rpc' = "dead"
          /\ UNCHANGED <<conn, server>>
    /\ UNCHANGED <<kiovars, queues, rkio, rmsg, kts_state>>
    /\ ReceiverUnchanged

\* ktli_disconnect ends.  recvmsgerr then takes "sendq's" mutex and recvq's.
\* Both pointers are recvq, so the thread waits for itself with the mutex held.
RecvmsgStuck ==
    /\ rpc = "hangup"
    /\ kts_state' = "DRAINING"
    /\ rpc' = "dead"
    /\ UNCHANGED <<kiovars, queues, rkio, rmsg, conn, server>>
    /\ ReceiverUnchanged

\* What the loop does after a message: scan for timeouts, unless it did so
\* within this second.
AfterMessage == rpc' \in {"tmo", Again}

\* No kio on recvq has the sequence number: a late response is tossed.
MatchToss ==
    /\ rpc = "match" /\ rmsg.aseq > 0
    /\ \A i \in DOMAIN recvq : kio_seq[recvq[i]] # rmsg.aseq
    /\ rmsg' = NoMsg
    /\ AfterMessage
    /\ UNCHANGED <<kiovars, queues, rkio, kts_state, conn, server>>
    /\ ReceiverUnchanged

\* Mutant: the kio is used but not removed.
PeekAtRecvq(i) ==
    /\ rkio' = recvq[i]
    /\ rpc' = "comp"
    /\ UNCHANGED <<kiovars, queues, rmsg, kts_state, conn, server>>
    /\ ReceiverUnchanged

\* recvq loses its i-th kio to the receiver.
TakeFromRecvq(i) ==
    /\ rkio' = recvq[i]
    /\ recvq' = RemoveAt(recvq, i)
    /\ kio_qbp' = [kio_qbp EXCEPT ![recvq[i]] = "null"]
    /\ rpc' = "comp"
    /\ UNCHANGED <<sendq, compq, kio_state, kio_seq, kio_timeout, kio_recvmsg,
                   kio_reqonly, rmsg, kts_state, conn, server>>
    /\ ReceiverUnchanged

\* Mutant: responses are taken to come in request order.
MatchFront ==
    /\ rpc = "match" /\ rmsg.aseq > 0 /\ recvq # <<>>
    /\ TakeFromRecvq(1)

MatchFound ==
    /\ rpc = "match" /\ rmsg.aseq > 0
    /\ \E i \in DOMAIN recvq :
          /\ kio_seq[recvq[i]] = rmsg.aseq
          /\ \A j \in 1 .. i - 1 : kio_seq[recvq[j]] # rmsg.aseq
          /\ TakeFromRecvq(i)

\* A sequence number of 0 is never searched for, and the search's result
\* variable still holds a byte count: the kio at the list's rear is taken.
MatchGarbled ==
    /\ rpc = "match" /\ rmsg.aseq = 0
    /\ recvq # <<>>
    /\ TakeFromRecvq(Len(recvq))

MatchGarbledEmpty ==
    /\ rpc = "match" /\ rmsg.aseq = 0
    /\ recvq = <<>>
    /\ rpc' = "crash"
    /\ UNCHANGED <<kiovars, queues, rkio, rmsg, kts_state, conn, server>>
    /\ ReceiverUnchanged

\* Mutant: no kio is allocated.
MatchUnsolicitedBare ==
    /\ rpc = "match" /\ rmsg.aseq = -1
    /\ rpc' = "comp"
    /\ UNCHANGED <<kiovars, queues, rkio, rmsg, kts_state, conn, server>>
    /\ ReceiverUnchanged

\* An unsolicited message gets a kio of its own.
MatchUnsolicited ==
    /\ rpc = "match" /\ rmsg.aseq = -1
    /\ \E u \in Unsol :
          /\ kio_qbp[u] = "null"
          /\ rkio' = u
          /\ kio_state' = [kio_state EXCEPT ![u] = "NEW"]
    /\ rpc' = "comp"
    /\ UNCHANGED <<queues, kio_seq, kio_qbp, kio_timeout, kio_recvmsg,
                   kio_reqonly, rmsg, kts_state, conn, server>>
    /\ ReceiverUnchanged

\* Hang the response on the kio and complete it.
RecvComplete ==
    /\ rpc = "comp"
    /\ compq' = Append(compq, rkio)
    /\ kio_qbp' = [kio_qbp EXCEPT ![rkio] = "compq"]
    /\ kio_state' = [kio_state EXCEPT ![rkio] = "RECEIVED"]
    /\ kio_recvmsg' = [kio_recvmsg EXCEPT ![rkio] = rmsg.req]
    /\ rkio' = NoKio /\ rmsg' = NoMsg
    /\ AfterMessage
    /\ UNCHANGED <<sendq, recvq, kio_seq, kio_timeout, kio_reqonly, kts_state,
                   conn, server>>
    /\ ReceiverUnchanged

\* ktli_timechk: a timeout that was never set is long past.
Overdue(k) ==
    \/ kio_timeout[k] = "expired"
    \/ kio_timeout[k] = "zero" /\ "stall" \in Env

\* Mutant: the back pointer still names recvq's element.
TimeoutStale ==
    /\ rpc = "tmo"
    /\ \E i \in DOMAIN recvq :
          /\ Overdue(recvq[i])
          /\ \A j \in 1 .. i - 1 : ~Overdue(recvq[j])
          /\ recvq' = RemoveAt(recvq, i)
          /\ compq' = Append(compq, recvq[i])
          /\ kio_state' = [kio_state EXCEPT ![recvq[i]] = "TIMEDOUT"]
    /\ UNCHANGED <<sendq, kio_seq, kio_qbp, kio_timeout, kio_recvmsg,
                   kio_reqonly, receiver, kts_state, conn, server>>
    /\ ReceiverUnchanged

\* One turn of the timeout scan, with recvq's mutex and then compq's.
TimeoutOne ==
    /\ rpc = "tmo"
    /\ \E i \in DOMAIN recvq :
          /\ Overdue(recvq[i])
          /\ \A j \in 1 .. i - 1 : ~Overdue(recvq[j])
          /\ recvq' = RemoveAt(recvq, i)
          /\ compq' = Append(compq, recvq[i])
          /\ kio_qbp' = [kio_qbp EXCEPT ![recvq[i]] = "compq"]
          /\ kio_state' = [kio_state EXCEPT ![recvq[i]] = "TIMEDOUT"]
    /\ UNCHANGED <<sendq, kio_seq, kio_timeout, kio_recvmsg, kio_reqonly,
                   receiver, kts_state, conn, server>>
    /\ ReceiverUnchanged

TimeoutDone ==
    /\ rpc = "tmo"
    /\ \A i \in DOMAIN recvq : ~Overdue(recvq[i])
    /\ rpc' = Again
    /\ UNCHANGED <<kiovars, queues, rkio, rmsg, kts_state, conn, server>>
    /\ ReceiverUnchanged

Receiver ==
    \/ ReceiverStart \/ PollIdle \/ (\E s \in server : PollResponse(s))
    \/ PollUnsolicited \/ PollEof \/ ReadMessage \/ ReadError \/ RecvmsgErr
    \/ RecvmsgStuck \/ MatchToss \/ MatchFound \/ MatchGarbled
    \/ MatchGarbledEmpty \/ MatchUnsolicited \/ RecvComplete \/ TimeoutOne \/ TimeoutDone

-----------------------------------------------------------------------------
(* Surroundings.                                                           *)

\* KIO_TIMEOUT_S passes for k, never before it has for an earlier request.
Expire(k) ==
    /\ "clock" \in Env
    /\ kio_timeout[k] = "armed" /\ Contains(recvq, k)
    /\ \A i \in DOMAIN recvq :
          kio_seq[recvq[i]] < kio_seq[k] => kio_timeout[recvq[i]] = "expired"
    /\ "stall" \in Env \/ skio # k
    /\ kio_timeout' = [kio_timeout EXCEPT ![k] = "expired"]
    /\ UNCHANGED <<kio_state, kio_seq, kio_qbp, kio_recvmsg, kio_reqonly,
                   queues, sender, receiver, history, session, cpc, server>>

\* The peer closes or resets the connection; nothing more comes from it.
PeerGone(how) ==
    /\ how \in Env
    /\ conn = "up" \/ (conn = "fin" /\ how = "rst")
    /\ conn' = how
    /\ server' = {}
    /\ UNCHANGED <<kiovars, queues, sender, receiver, history, kts_state, drain,
                   xpc, cpc>>

-----------------------------------------------------------------------------
Client ==
    \/ \E k \in Kio : SendCheck(k) \/ SendEnqueue(k) \/ Receive(k)
    \/ ReceiveUnsolicited
    \/ \E k \in Kio \cup {NoKio} : DrainCall(k)
    \/ DrainFront \/ DrainSkip \/ DrainMatch \/ DrainReturn
    \/ Connect \/ Disconnect \/ DisconnectEnd
    \/ CloseStart \/ CloseSendq \/ CloseFinish

World == (\E k \in Kio : Expire(k)) \/ PeerGone("fin") \/ PeerGone("rst")

Next == Client \/ Sender \/ SenderSpurious \/ Receiver \/ World

Spec == Init /\ [][Next]_vars

-----------------------------------------------------------------------------
(* Properties.                                                             *)

\* Every variable has its type; the sender never handles the receiver's own
\* kios and sendq and recvq never hold one.
TypeOK ==
    /\ kts_state \in SessionStates
    /\ kts_sequence \in Nat
    /\ sendq \in Seq(Kio) /\ recvq \in Seq(Kio) /\ compq \in Seq(AnyKio)
    /\ kio_state \in [AnyKio -> KioStates]
    /\ kio_seq \in [AnyKio -> Nat]
    /\ kio_qbp \in [AnyKio -> Queues]
    /\ kio_timeout \in [AnyKio -> {"zero", "armed", "expired"}]
    /\ kio_recvmsg \in [AnyKio -> Nat]
    /\ kio_reqonly \subseteq Kio
    /\ spc \in SenderPCs /\ skio \in Kio \cup {NoKio}
    /\ rpc \in ReceiverPCs /\ rkio \in AnyKio \cup {NoKio}
    /\ rmsg \in Message
    /\ cpc \in [Kio -> {"idle", "sending", "out", "freed", "assert"}]
    /\ drain \in DrainCalls
    /\ xpc \in {"none", "hangup", "joinS", "joinR", "closed"}
    /\ conn \in {"down", "up", "fin", "rst", "closed"}
    /\ server \in SUBSET Nat
    /\ sends \in Nat /\ order \in [Kio -> Nat] /\ connects \in Nat

\* The sender has the only reference to k.
SenderHolds(k) == skio = k /\ (spc = "hand" \/ k \in kio_reqonly \/ spc = "compF")

\* A kio the client has sent and not got back is on a queue or in the hand of
\* a thread that will queue it, so ktli_receive can still find it; one the
\* client owns is on no queue, although the sender may still write to it.
Custody ==
    \A k \in Kio :
        /\ cpc[k] = "out" => Queued(k) \/ SenderHolds(k) \/ rkio = k
        /\ cpc[k] # "out" => ~Queued(k) /\ ~SenderHolds(k) /\ rkio # k

\* kio_qbp, which three threads write under three different mutexes, names the
\* queue that holds the kio: ktli_receive removes whatever it leads to.
BackPointers ==
    \A k \in AnyKio :
        /\ Contains(sendq, k) <=> kio_qbp[k] = "sendq"
        /\ Contains(recvq, k) <=> kio_qbp[k] = "recvq"
        /\ Contains(compq, k) <=> kio_qbp[k] = "compq"

Occurrences(q, k) == Cardinality({i \in DOMAIN q : q[i] = k})

\* No kio is on two queues or twice on one, whatever disconnects, drains and
\* failed sends do to it while the sender has it: a client would free it twice.
OneQueue ==
    \A k \in AnyKio :
        Occurrences(sendq, k) + Occurrences(recvq, k) + Occurrences(compq, k) <= 1

\* A completed kio carries the response to its own request if it is RECEIVED
\* (or a message nobody can unpack, see MatchGarbled), and otherwise none:
\* responses come in any order, late, after a timeout or after a reconnect.
ResponseMatches ==
    \A k \in Kio : Contains(compq, k) =>
        kio_recvmsg[k] \in IF kio_state[k] = "RECEIVED" /\ k \notin kio_reqonly
                           THEN {kio_seq[k], Junk} ELSE {0}

\* k was sent, and no call is taking it back from a draining session.
Outstanding(k) == cpc[k] = "out" /\ drain.kio # k

\* Requests are numbered in the order of their ktli_send calls, and no two
\* outstanding ones share a number, which ktli_seqmatch relies on.
SubmissionOrder ==
    \A j, k \in Kio :
        /\ Outstanding(j) /\ Outstanding(k)
        /\ order[j] < order[k] /\ kio_seq[k] # 0
        => kio_seq[j] # 0 /\ kio_seq[j] < kio_seq[k]

\* A kio that stays on compq keeps its state and its response.
OutcomesKept ==
    \A k \in Kio : Contains(compq, k) /\ Contains(compq', k) =>
        kio_state'[k] = kio_state[k] /\ kio_recvmsg'[k] = kio_recvmsg[k]

\* What a completed kio says does not change while it waits on compq, although
\* the sender may still be at the code after its send: the client's first look
\* at kio_state is the final one.
CompletionStable == [][OutcomesKept]_vars

\* No thread removes from an empty list, and ktli_receive does not get to its
\* assert(0): a completed kio's back pointer always leads into compq.
NoCrash == spc # "crash" /\ rpc # "crash" /\ \A k \in Kio : cpc[k] # "assert"

\* The scheduler runs both threads and grants a mutex in the end; poll returns
\* every 10 ms, so a timeout scan comes once per second; KIO_TIMEOUT_S passes.
\* Nothing is assumed of the client.
LibraryFairness ==
    /\ SF_vars(Sender /\ spc # "armed")
    /\ WF_vars(ReceiverStart)
    /\ SF_vars(Receiver /\ rpc' = "tmo")
    /\ WF_vars(ReadError \/ RecvmsgErr \/ RecvmsgStuck)
    /\ WF_vars(MatchToss \/ MatchFound \/ MatchUnsolicited \/ RecvComplete)
    /\ WF_vars(TimeoutOne \/ TimeoutDone)
    /\ \A k \in Kio : WF_vars(Expire(k))

\* The driver retries EAGAIN without a limit, so its calls end only if the peer
\* keeps reading and sends the rest of a message it has begun.  It need not
\* answer.
PeerFairness == WF_vars(SenderDriver) /\ WF_vars(ReadMessage)

FairSpec == Spec /\ LibraryFairness /\ PeerFairness

\* Every request that was sent completes, whether or not the server answers:
\* the timeout scan makes up for a response that never comes.  It does not for
\* one that comes in part (PeerFairness).
Completes ==
    \A k \in Kio : cpc[k] = "out" ~> (Contains(compq, k) \/ cpc[k] # "out")

-----------------------------------------------------------------------------
(* What the sources say and the code does not do.                          *)

\* "Success means that a KIO was located and removed from KTLI's control":
\* once the client has a kio back, no thread is going to touch it.
ReturnedMeansReleased ==
    \A k \in Kio : cpc[k] \in {"idle", "freed"} => skio # k /\ rkio # k

\* "Error means that the KIO was never found": as long as ktli_receive has not
\* succeeded for a kio, it is where a later call can find it.
NotStranded ==
    \A k \in Kio : Outstanding(k) => Queued(k) \/ skio = k \/ rkio = k

\* "Getting here is a bug", says ktli_receive of its assert(0): a completed kio
\* is on compq, also when its memory was another request's before.
NeverAsserts == \A k \in Kio : cpc[k] # "assert"

\* "Take the entire recvq and sendq and move them to compq": after a broken
\* connection every queued request completes.
AbortCompletes ==
    \A k \in Kio :
        rpc = "abort" /\ (Contains(sendq, k) \/ Contains(recvq, k))
            ~> (Contains(compq, k) \/ cpc[k] # "out")
=============================================================================
