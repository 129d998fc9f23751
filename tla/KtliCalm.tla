------------------------------ MODULE KtliCalm ------------------------------
(***************************************************************************)
(* The inductive invariant of a connected session: no disconnect, no close *)
(* and no failure of the connection, the sender not held up for as long as *)
(* a timeout while it sends, every response readable.  Time passes, and    *)
(* responses come in any order, late or never.  Kios may be reused as soon *)
(* as they are freed, as long as the client makes no one-way requests: the *)
(* sender tests KIOF_REQONLY after the send, in memory that may then       *)
(* belong to another request.                                              *)
(***************************************************************************)
EXTENDS Ktli

Calm ==
    /\ Env \subseteq {"clock", "reuse"}
    /\ "reuse" \in Env => ReqOnly = {}

\* Positions at which the sender has a kio in hand.
Busy == {"hand", "queued", "armed", "ok", "fail", "compR", "compF"}

NoDup(q) == \A i, j \in DOMAIN q : q[i] = q[j] => i = j

\* A session is opened, then connected for good; before that nothing is under
\* way.  A kio always serves the same kind of request.
CalmSession ==
    /\ xpc = "none" /\ drain = NoDrain
    /\ kio_reqonly = ReqOnly
    /\ kts_state \in {"OPENED", "CONNECTED"}
    /\ kts_state = "CONNECTED" => conn = "up"
    /\ kts_state = "OPENED" =>
          /\ server = {} /\ sendq = <<>>
          /\ rpc = "init" /\ spc \in {"top", "wait", "woken", "loop"}
          /\ \A k \in Kio : cpc[k] = "idle"

\* The threads keep out of their error paths, and each has a kio in hand
\* exactly where its code says so.
CalmThreads ==
    /\ spc \notin {"fail", "compF", "done", "crash"}
    /\ spc \in Busy <=> skio # NoKio
    /\ spc = "pop" => sendq # <<>>
    /\ spc = "compR" => skio \in kio_reqonly
    /\ rpc \notin {"abort", "hangup", "dead", "done", "crash"}
    /\ rpc = "comp" <=> rkio # NoKio

\* The back pointer of a kio names its queue, and it is there once.
CalmLists == BackPointers /\ NoDup(sendq) /\ NoDup(recvq) /\ NoDup(compq)

\* Who has a kio: its client, a queue, the sender or the receiver.
CalmCustody ==
    /\ \A k \in Kio :
          /\ cpc[k] # "assert"
          /\ cpc[k] # "out" => kio_qbp[k] = "null"
          /\ cpc[k] = "out" /\ kio_qbp[k] = "null" => SenderHolds(k) \/ rkio = k
          /\ SenderHolds(k) => cpc[k] = "out" /\ kio_qbp[k] = "null" /\ rkio # k
          /\ rkio = k => cpc[k] = "out" /\ k \notin kio_reqonly
          /\ k \in kio_reqonly => kio_qbp[k] # "recvq"
          /\ cpc[k] = "out" => (kio_state[k] \in Completed <=> kio_qbp[k] = "compq")
    /\ \A k \in AnyKio : rkio = k => kio_qbp[k] = "null"

\* A request that is queued for a response and not yet handed to the driver is
\* still on recvq: its response cannot have come and it cannot have timed out.
CalmSender ==
    /\ \A k \in Kio : cpc[k] = "sending" \/ kio_qbp[k] = "sendq"
                      => kio_timeout[k] = "zero"
    /\ spc \in {"hand", "queued"} => kio_timeout[skio] = "zero"
    /\ spc = "armed" => kio_timeout[skio] = "armed"
    /\ spc \in {"queued", "armed"} =>
          /\ cpc[skio] = "out"
          /\ skio \notin kio_reqonly => kio_qbp[skio] = "recvq"
          /\ kio_seq[skio] + 1 = kts_sequence
          /\ kio_seq[skio] \notin server
          /\ rmsg.aseq # kio_seq[skio]

\* Sequence numbers on the wire have been given out, and a response in hand is
\* for the kio in hand.
CalmNumbers ==
    /\ kts_sequence >= FirstSeq
    /\ \A s \in server : 0 < s /\ s < kts_sequence
    /\ rmsg.aseq < kts_sequence
    /\ rpc \in {"read", "match"} => rmsg.aseq # 0
    /\ rmsg.aseq > 0 => rmsg.req = rmsg.aseq
    /\ rpc = "comp" /\ rkio \in Kio => rmsg.req = kio_seq[rkio]

\* What hangs on a kio.
CalmResponses ==
    \A k \in Kio :
        /\ cpc[k] = "sending" \/ (cpc[k] = "out" /\ kio_qbp[k] # "compq")
              => kio_recvmsg[k] = 0
        /\ kio_qbp[k] = "compq" =>
              kio_recvmsg[k] = IF kio_state[k] = "RECEIVED" /\ k \notin kio_reqonly
                               THEN kio_seq[k] ELSE 0

CalmInv ==
    /\ CalmSession /\ CalmThreads /\ CalmLists /\ CalmCustody /\ CalmSender
    /\ CalmNumbers /\ CalmResponses

-----------------------------------------------------------------------------
(* The refinement mapping from a session to KtliRpc.                       *)

\* A request is pending from its enqueueing by ktli_send until it is on compq.
PhaseOf(k) == IF cpc[k] # "out" THEN "idle"
              ELSE IF Contains(compq, k) THEN "done" ELSE "pending"

\* What a kio on compq tells its owner.
OutcomeOf(k) ==
    CASE PhaseOf(k) # "done" -> "none"
      [] PhaseOf(k) = "done" /\ kio_state[k] = "FAILED" -> "failed"
      [] PhaseOf(k) = "done" /\ kio_state[k] = "TIMEDOUT" -> "timedout"
      [] PhaseOf(k) = "done" /\ kio_state[k] = "RECEIVED" ->
            IF k \in kio_reqonly THEN "sent"
            ELSE IF kio_recvmsg[k] = kio_seq[k] THEN "answered" ELSE "mixed up"
      [] OTHER -> "unfinished"

Rpc == INSTANCE KtliRpc WITH
           phase   <- [k \in Kio |-> PhaseOf(k)],
           outcome <- [k \in Kio |-> OutcomeOf(k)]

\* A Calm session implements KtliRpc: every request completes at most
\* once, only after it was sent, with the response to itself or with none, and
\* its outcome is final when it is first visible.
RpcSpec == Rpc!Spec
=============================================================================
