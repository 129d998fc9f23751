--------------------------- MODULE KtliOnceProofs ---------------------------
(***************************************************************************)
(* No kio is on two queues or twice on one, through disconnects, drains,   *)
(* failed sends, resets, timeouts, reconnections and close; and, in the    *)
(* second half, where every kio is while the sender is held up and         *)
(* responses cannot be unpacked.                                           *)
(***************************************************************************)
EXTENDS KtliProofs, FiniteSetTheorems

\* The sender is not held up for as long as a timeout, every response can be
\* unpacked and the allocator does not return a kio a thread may still have.
Orderly == Env \subseteq {"clock", "disconnect", "close", "fin", "rst"}

\* Positions at which the sender may still have to take its request back from
\* recvq, and those at which its timeout cannot have passed.
Unsent == {"queued", "armed", "fail"}

\* A queued kio's back pointer names its queue; one that was taken off may still
\* name it, which is what ktli_close and SenderFailed leave behind.
OnceLists ==
    /\ NoDup(sendq) /\ NoDup(recvq) /\ NoDup(compq)
    /\ \A k \in AnyKio :
          /\ Contains(sendq, k) => kio_qbp[k] = "sendq"
          /\ Contains(recvq, k) => kio_qbp[k] = "recvq"
          /\ Contains(compq, k) => kio_qbp[k] = "compq"

\* A kio that is not yet sent is with its client only.
OnceFresh ==
    \A k \in Kio :
        cpc[k] \in {"idle", "sending"} => ~Queued(k) /\ skio # k /\ rkio # k

\* Each thread has a kio in hand where its code says so.
OnceThreads ==
    /\ spc \in Busy <=> skio # NoKio
    /\ spc = "compR" => skio \in kio_reqonly
    /\ rpc = "comp" <=> rkio # NoKio

\* A kio that a thread is going to queue is on no queue and in no other hand.
OnceHands ==
    /\ \A k \in Kio : SenderHolds(k) => ~Queued(k) /\ rkio # k
    /\ \A k \in AnyKio : rkio = k => ~Queued(k)

\* A request the driver has not taken cannot have been answered: it is on recvq,
\* or a drain has taken it.
OnceUnsent ==
    spc \in Unsent =>
        /\ ~Contains(sendq, skio) /\ ~Contains(compq, skio) /\ rkio # skio
        /\ 0 < kio_seq[skio] /\ kio_seq[skio] < kts_sequence
        /\ kio_seq[skio] \notin server /\ rmsg.aseq # kio_seq[skio]

\* Nor has its time passed.
OnceTimely ==
    /\ spc \in Unsent \cup {"hand"} => kio_timeout[skio] # "expired"
    /\ \A k \in Kio : cpc[k] = "sending" \/ Contains(sendq, k)
                      => kio_timeout[k] # "expired"

\* Sequence numbers on the wire have been given out; a message without one is
\* none.
OnceNumbers ==
    /\ 0 < kts_sequence
    /\ \A s \in server : 0 < s /\ s < kts_sequence
    /\ rmsg.aseq < kts_sequence
    /\ rpc = "match" => rmsg.aseq # 0
    /\ rmsg.aseq = 0 => rmsg = NoMsg

\* Nothing hangs on a kio before it completes; a request without a response is
\* never where responses are looked for; a response in hand is for the kio in
\* hand.
OnceResponses ==
    /\ \A k \in Kio :
          /\ \/ cpc[k] = "sending" \/ Contains(sendq, k) \/ Contains(recvq, k)
             \/ SenderHolds(k) \/ rkio = k \/ (spc \in Unsent /\ skio = k)
             => kio_recvmsg[k] = 0
          /\ Contains(recvq, k) \/ rkio = k => k \notin kio_reqonly
          /\ Contains(compq, k) =>
                /\ kio_state[k] \in Completed
                /\ kio_recvmsg[k] = IF kio_state[k] = "RECEIVED" /\ k \notin kio_reqonly
                                    THEN kio_seq[k] ELSE 0
    /\ rmsg.aseq > 0 => rmsg.req = rmsg.aseq
    /\ rkio \in Kio => rmsg.req = kio_seq[rkio]

OnceInv ==
    /\ OnceLists /\ OnceFresh /\ OnceThreads /\ OnceHands /\ OnceUnsent
    /\ OnceTimely /\ OnceNumbers /\ OnceResponses

-----------------------------------------------------------------------------
(* Lists.                                                                  *)

\* Front takes the last element away.
LEMMA FrontList ==
    ASSUME NEW S, NEW s \in Seq(S), s # <<>>, NoDup(s)
    PROVE  NoDup(Front(s)) /\ \A y : Contains(Front(s), y) => Contains(s, y)
<1>1. Len(s) \in Nat /\ Len(s) > 0 /\ DOMAIN s = 1 .. Len(s)
    BY EmptySeq, LenProperties
<1> DEFINE t == Front(s)
<1>2. /\ t \in Seq(S) /\ Len(t) = Len(s) - 1
      /\ \A i \in 1 .. Len(s) - 1 : t[i] = s[i]
    BY <1>1, SubSeqProperties DEF Front
<1>3. DOMAIN t = 1 .. Len(s) - 1
    BY <1>2, LenProperties
<1> HIDE DEF t
<1>4. NoDup(t)
    BY <1>1, <1>2, <1>3 DEF NoDup
<1>5. \A y : Contains(t, y) => Contains(s, y)
    BY <1>1, <1>2 DEF Contains
<1> QED
    BY <1>4, <1>5 DEF t

\* How often a kio is on a list without duplicates.
LEMMA OccursOnce ==
    ASSUME NEW S, NEW s \in Seq(S), NEW k, NoDup(s)
    PROVE  Occurrences(s, k) = IF Contains(s, k) THEN 1 ELSE 0
<1> DEFINE T == {i \in DOMAIN s : s[i] = k}
<1>1. DOMAIN s = 1 .. Len(s)
    BY LenProperties
<1>2. CASE Contains(s, k)
    <2>1. PICK i \in DOMAIN s : s[i] = k
        BY <1>1, <1>2 DEF Contains
    <2>2. T = {i}
        BY <2>1 DEF NoDup
    <2>3. Cardinality(T) = 1
        BY <2>2, FS_Singleton
    <2> QED
        BY <1>2, <2>3 DEF Occurrences
<1>3. CASE ~Contains(s, k)
    <2>1. T = {}
        BY <1>1, <1>3 DEF Contains
    <2>2. Cardinality(T) = 0
        BY <2>1, FS_EmptySet
    <2> QED
        BY <1>3, <2>2 DEF Occurrences
<1> QED
    BY <1>2, <1>3

-----------------------------------------------------------------------------
(* The steps.                                                              *)

\* Steps that queue nothing and put nothing into a thread's hand: the queues may
\* lose kios, the server answers, clients give kios up.
LEMMA OnceShrinks ==
    ASSUME TypeInv, OnceInv,
           UNCHANGED <<kio_seq, kio_timeout, kio_recvmsg, kio_reqonly, skio,
                       kts_sequence, rkio>>,
           NoDup(sendq') /\ NoDup(recvq') /\ NoDup(compq'),
           \A k \in AnyKio :
               /\ Contains(sendq', k) => Contains(sendq, k)
               /\ Contains(recvq', k) => Contains(recvq, k)
               /\ Contains(compq', k) => Contains(compq, k)
               /\ Queued(k)' => kio_qbp'[k] = kio_qbp[k]
               /\ Contains(compq', k) => kio_state'[k] = kio_state[k],
           \A k \in Kio : cpc'[k] = cpc[k] \/ cpc'[k] \in {"freed", "assert"},
           spc' = spc \/ (spc \notin Busy /\ spc' \notin Busy),
           rpc' = "comp" <=> rpc = "comp",
           rpc' = "match" => rmsg'.aseq # 0,
           rmsg' = rmsg \/ (rmsg' = NoMsg /\ rpc # "comp"),
           server' \subseteq server
    PROVE  OnceInv'
<1> USE DEF OnceInv
<1>a. rmsg' = NoMsg => rmsg'.aseq = 0
    BY DEF NoMsg
<1>b. \A k \in AnyKio : Queued(k)' => Queued(k)
    BY DEF Queued
<1>c. /\ \A k \in Kio : SenderHolds(k)' => SenderHolds(k)
      /\ spc' \in Unsent \cup {"hand"} => spc' = spc
      /\ rkio \in Kio => rmsg' = rmsg /\ rkio # NoKio
      /\ \A k \in Kio : k \in AnyKio /\ k # NoKio
    BY KtliAssumption DEF SenderHolds, OnceThreads, Unsent, Busy, AnyKio
<1>d. \A k \in Kio : cpc'[k] \in {"idle", "sending"} => cpc'[k] = cpc[k]
    OBVIOUS
<1>1. OnceLists'
    BY DEF OnceLists, Queued
<1>2. OnceFresh'
    BY <1>b, <1>c, <1>d DEF OnceFresh
<1>3. OnceThreads'
    BY DEF OnceThreads, Busy
<1>4. OnceHands'
    BY <1>b, <1>c DEF OnceHands
<1>5. OnceUnsent'
    BY <1>a, <1>c DEF OnceUnsent, Unsent, TypeInv, HandsOK, Busy
<1>6. OnceTimely'
    BY <1>c, <1>d DEF OnceTimely
<1>7. OnceNumbers'
    BY <1>a DEF OnceNumbers
<1>8. OnceResponses'
    <2>1. ASSUME NEW k \in Kio
          PROVE  /\ \/ cpc'[k] = "sending" \/ Contains(sendq', k) \/ Contains(recvq', k)
                    \/ SenderHolds(k)' \/ rkio' = k \/ (spc' \in Unsent /\ skio' = k)
                    => kio_recvmsg'[k] = 0
                 /\ Contains(recvq', k) \/ rkio' = k => k \notin kio_reqonly
                 /\ Contains(compq', k) =>
                       /\ kio_state'[k] \in Completed
                       /\ kio_recvmsg'[k] = IF kio_state'[k] = "RECEIVED" /\ k \notin kio_reqonly
                                            THEN kio_seq'[k] ELSE 0
        BY <1>c, <1>d, <2>1 DEF OnceResponses
    <2>2. rmsg'.aseq > 0 => rmsg'.req = rmsg'.aseq
        BY <1>a DEF OnceResponses
    <2>3. rkio' \in Kio => rmsg'.req = kio_seq'[rkio']
        BY <1>c DEF OnceResponses
    <2> QED
        BY <2>1, <2>2, <2>3 DEF OnceResponses
<1> QED
    BY <1>1, <1>2, <1>3, <1>4, <1>5, <1>6, <1>7, <1>8

\* ktli_send takes a kio that nobody has.
LEMMA OnceSendCheck ==
    ASSUME Orderly, TypeInv, OnceInv, NEW k \in Kio, SendCheck(k)
    PROVE  OnceInv'
<1> USE DEF TypeInv, TypeOK, AnyKio, OnceInv, SendCheck, queues, sender, receiver,
            history, session
<1>0. ~Queued(k) /\ skio # k /\ rkio # k
    BY DEF OnceFresh
<1>a. kio_reqonly' = kio_reqonly
    BY FlagsKept DEF Orderly
<1>b. UNCHANGED <<sendq, recvq, compq, sender, receiver, server>>
    OBVIOUS
<1>1. OnceLists'
    BY <1>0 DEF OnceLists, Queued
<1>2. OnceFresh'
    <2>2. \A j \in Kio : cpc'[j] \in {"idle", "sending"} =>
                           j = k \/ cpc[j] \in {"idle", "sending"}
        OBVIOUS
    <2>3. OnceFresh
        OBVIOUS
    <2> HIDE DEF TypeInv, OnceInv, SendCheck
    <2> QED
        BY <1>0, <1>b, <2>2, <2>3 DEF OnceFresh, Queued
<1>3. OnceThreads'
    <2>1. OnceThreads
        OBVIOUS
    <2> HIDE DEF TypeInv, OnceInv, SendCheck
    <2> QED
        BY <1>a, <1>b, <2>1 DEF OnceThreads, Busy
<1>4. OnceHands'
    BY <1>0, <1>a DEF OnceHands, OnceThreads, OnceFresh, SenderHolds, Busy,
       Unsent, OnceUnsent, OnceLists, Queued
<1>5. OnceUnsent'
    BY <1>0, <1>a DEF OnceUnsent, OnceThreads, OnceFresh, Unsent, Busy, Queued,
       OnceHands, SenderHolds, OnceNumbers, HandsOK
<1>6. OnceTimely'
    BY <1>0, <1>a DEF OnceTimely, Unsent, OnceFresh, Queued
<1>7. OnceNumbers'
    BY <1>0 DEF OnceNumbers
<1>8. OnceResponses'
    BY <1>0, <1>a DEF OnceResponses, OnceThreads, SenderHolds, Unsent,
       Completed, Queued, OnceFresh, OnceHands
<1> QED
    BY <1>1, <1>2, <1>3, <1>4, <1>5, <1>6, <1>7, <1>8 DEF OnceInv

\* ktli_send queues it.
LEMMA OnceSendEnqueue ==
    ASSUME TypeInv, OnceInv, NEW k \in Kio, SendEnqueue(k)
    PROVE  OnceInv'
<1> USE DEF TypeInv, TypeOK, AnyKio, OnceInv, SendEnqueue, receiver, session
<1>0. /\ ~Queued(k) /\ skio # k /\ rkio # k
      /\ kio_timeout[k] # "expired" /\ kio_recvmsg[k] = 0
    BY DEF OnceFresh, OnceTimely, OnceResponses
<1>a. NoDup(sendq') /\ \A y : Contains(sendq', y) <=> Contains(sendq, y) \/ y = k
    <2>1. ~Contains(sendq, k) /\ NoDup(sendq) /\ sendq' = Append(sendq, k)
        BY <1>0 DEF OnceLists, Queued
    <2> QED
        BY <2>1, AppendList
<1>1. OnceLists'
    BY <1>0, <1>a DEF OnceLists, Queued
<1>2. OnceFresh'
    BY <1>0, <1>a DEF OnceFresh, Queued
<1>3. OnceThreads'
    BY <1>0, <1>a DEF OnceThreads, Busy
<1>4. OnceHands'
    BY <1>0, <1>a DEF OnceHands, OnceThreads, OnceFresh, SenderHolds,
       Busy, Unsent, OnceUnsent, OnceLists, Queued
<1>5. OnceUnsent'
    BY <1>0, <1>a DEF OnceUnsent, OnceThreads, OnceFresh, Unsent, Busy,
       Queued, OnceHands, SenderHolds, OnceNumbers, HandsOK
<1>6. OnceTimely'
    BY <1>0, <1>a DEF OnceTimely, Unsent, OnceFresh, Queued
<1>7. OnceNumbers'
    BY <1>0, <1>a DEF OnceNumbers
<1>8. OnceResponses'
    BY <1>0, <1>a DEF OnceResponses, OnceThreads, SenderHolds, Unsent,
       Completed, Queued, OnceFresh, OnceHands
<1> QED
    BY <1>1, <1>2, <1>3, <1>4, <1>5, <1>6, <1>7, <1>8 DEF OnceInv

\* The sender takes a request off sendq.
LEMMA OnceSenderPop ==
    ASSUME TypeInv, OnceInv, SenderPop, sendq # <<>>
    PROVE  OnceInv'
<1> USE DEF TypeInv, TypeOK, AnyKio, OnceInv, SenderUnchanged, receiver, history,
            session
<1>0. PICK h \in Kio :
          /\ spc = "pop" /\ spc' = "hand" /\ skio' = h /\ Contains(sendq, h)
          /\ kio_qbp' = [kio_qbp EXCEPT ![h] = "null"]
          /\ NoDup(sendq')
          /\ \A y : Contains(sendq', y) <=> Contains(sendq, y) /\ y # h
    <2>1. NoDup(sendq) /\ sendq \in Seq(Kio)
        BY DEF OnceLists
    <2>2. /\ spc = "pop" /\ spc' = "hand" /\ skio' = Head(sendq) /\ sendq' = Tail(sendq)
          /\ kio_qbp' = [kio_qbp EXCEPT ![Head(sendq)] = "null"]
        BY DEF SenderPop
    <2>3. Head(sendq) \in Kio
        BY <2>1, TailType
    <2> QED
        BY <2>1, <2>2, <2>3, TailList
<1>a. UNCHANGED <<recvq, compq, kio_state, kio_seq, kio_timeout, kio_recvmsg,
                  kio_reqonly, kts_sequence, server, receiver, cpc>>
    BY DEF SenderPop
<1>b. /\ ~Contains(recvq, h) /\ ~Contains(compq, h) /\ h # NoKio /\ rkio # h
      /\ kio_timeout[h] # "expired" /\ kio_recvmsg[h] = 0
      /\ cpc[h] \notin {"idle", "sending"}
    BY <1>0, KtliAssumption
    DEF OnceLists, OnceHands, OnceTimely, OnceResponses, OnceFresh, Queued
<1>1. OnceLists'
    BY <1>0, <1>a, <1>b DEF OnceLists, Queued
<1>2. OnceFresh'
    BY <1>0, <1>a, <1>b DEF OnceFresh, Queued
<1>3. OnceThreads'
    BY <1>0, <1>a, <1>b DEF OnceThreads, Busy
<1>4. OnceHands'
    BY <1>0, <1>a, <1>b DEF OnceHands, OnceThreads, OnceFresh,
       SenderHolds, Busy, Unsent, OnceUnsent, OnceLists, Queued
<1>5. OnceUnsent'
    BY <1>0, <1>a, <1>b DEF OnceUnsent, OnceThreads, OnceFresh, Unsent,
       Busy, Queued, OnceHands, SenderHolds, OnceNumbers
<1>6. OnceTimely'
    BY <1>0, <1>a, <1>b DEF OnceTimely, Unsent, OnceFresh, Queued
<1>7. OnceNumbers'
    BY <1>0, <1>a, <1>b DEF OnceNumbers
<1>8. OnceResponses'
    BY <1>0, <1>a, <1>b DEF OnceResponses, OnceThreads, SenderHolds,
       Unsent, Completed, Queued, OnceFresh, OnceHands
<1> QED
    BY <1>1, <1>2, <1>3, <1>4, <1>5, <1>6, <1>7, <1>8 DEF OnceInv

\* The sender numbers its request and queues it for its response.
LEMMA OnceSenderNumber ==
    ASSUME TypeInv, OnceInv, SenderNumber
    PROVE  OnceInv'
<1> USE DEF TypeInv, TypeOK, AnyKio, OnceInv, SenderUnchanged, receiver, history,
            session
<1>0. PICK h \in Kio :
          /\ h = skio /\ skio' = h /\ spc = "hand" /\ spc' = "queued"
          /\ kio_seq' = [kio_seq EXCEPT ![h] = kts_sequence]
          /\ kts_sequence' = kts_sequence + 1
    BY DEF SenderNumber, HandsOK, Busy
<1>a. UNCHANGED <<sendq, compq, kio_state, kio_timeout, kio_recvmsg,
                  kio_reqonly, server, receiver, cpc>>
    BY DEF SenderNumber
<1>b. /\ ~Contains(sendq, h) /\ ~Contains(recvq, h) /\ ~Contains(compq, h)
      /\ rkio # h /\ kio_recvmsg[h] = 0 /\ kio_timeout[h] # "expired"
      /\ cpc[h] \notin {"idle", "sending"}
    BY <1>0
    DEF OnceHands, SenderHolds, OnceResponses, OnceTimely, OnceFresh, Queued
<1>c. /\ NoDup(recvq')
      /\ \/ h \in kio_reqonly /\ UNCHANGED <<recvq, kio_qbp>>
         \/ /\ h \notin kio_reqonly
            /\ \A y : Contains(recvq', y) <=> Contains(recvq, y) \/ y = h
            /\ kio_qbp' = [kio_qbp EXCEPT ![h] = "recvq"]
    <2>1. NoDup(recvq) /\ recvq \in Seq(Kio)
        BY DEF OnceLists
    <2>2. CASE h \in kio_reqonly
        BY <1>0, <2>1, <2>2 DEF SenderNumber
    <2>3. CASE h \notin kio_reqonly
        <3>1. recvq' = Append(recvq, h) /\ kio_qbp' = [kio_qbp EXCEPT ![h] = "recvq"]
            BY <1>0, <2>3 DEF SenderNumber
        <3> QED
            BY <1>b, <2>1, <2>3, <3>1, AppendList
    <2> QED
        BY <2>2, <2>3
<1>d. rmsg.aseq \in Int /\ kts_sequence \notin server /\ rmsg.aseq # kts_sequence
    BY MessageType DEF OnceNumbers
<1>1. OnceLists'
    BY <1>0, <1>a, <1>b, <1>c, <1>d DEF OnceLists, Queued
<1>2. OnceFresh'
    BY <1>0, <1>a, <1>b, <1>c, <1>d DEF OnceFresh, Queued
<1>3. OnceThreads'
    BY <1>0, <1>a, <1>b, <1>c, <1>d DEF OnceThreads, Busy
<1>4. OnceHands'
    BY <1>0, <1>a, <1>b, <1>c, <1>d DEF OnceHands, OnceThreads, OnceFresh,
       SenderHolds, Busy, Unsent, OnceUnsent, OnceLists, Queued
<1>5. OnceUnsent'
    BY <1>0, <1>a, <1>b, <1>c, <1>d DEF OnceUnsent, OnceThreads,
       OnceFresh, Unsent, Busy, Queued, OnceHands, SenderHolds,
       OnceNumbers
<1>6. OnceTimely'
    BY <1>0, <1>a, <1>b, <1>c, <1>d DEF OnceTimely, Unsent, OnceFresh,
       Queued
<1>7. OnceNumbers'
    BY <1>0, <1>a, <1>b, <1>c, <1>d DEF OnceNumbers
<1>8. OnceResponses'
    BY <1>0, <1>a, <1>b, <1>c, <1>d DEF OnceResponses, OnceThreads,
       SenderHolds, Unsent, Completed, Queued, OnceFresh, OnceHands
<1> QED
    BY <1>1, <1>2, <1>3, <1>4, <1>5, <1>6, <1>7, <1>8 DEF OnceInv

\* The sender sets the timeout, and the driver takes the request or does not.
LEMMA OnceSenderDriver ==
    ASSUME TypeInv, OnceInv, SenderArm \/ SenderDriver
    PROVE  OnceInv'
<1> USE DEF TypeInv, TypeOK, AnyKio, OnceInv, SenderUnchanged, receiver, history,
            session
<1>0. PICK h \in Kio :
          /\ h = skio /\ skio' = h
          /\ \/ spc = "queued" /\ spc' = "armed" /\ server' = server
                /\ kio_timeout' = [kio_timeout EXCEPT ![h] = "armed"]
             \/ /\ spc = "armed" /\ spc' \in {"ok", "fail"} /\ kio_timeout' = kio_timeout
                /\ server' \subseteq server \cup {kio_seq[h]}
                /\ spc' = "fail" => server' = server
    BY DEF SenderArm, SenderDriver, HandsOK, Busy, kiovars
<1>a. UNCHANGED <<queues, kio_state, kio_qbp, kio_seq, kio_recvmsg,
                  kio_reqonly, kts_sequence, receiver, cpc>>
    BY DEF SenderArm, SenderDriver, kiovars, queues
<1>b. /\ kio_seq[h] # 0 /\ kio_seq[h] \in Nat /\ kio_seq[h] < kts_sequence
      /\ cpc[h] \notin {"idle", "sending"}
    BY <1>0 DEF OnceUnsent, OnceFresh, Unsent
<1>c. \A k \in AnyKio : Queued(k)' <=> Queued(k)
    BY <1>a DEF queues, Queued
<1> USE DEF queues
<1>1. OnceLists'
    BY <1>0, <1>a, <1>b, <1>c DEF OnceLists, Queued
<1>2. OnceFresh'
    BY <1>0, <1>a, <1>b, <1>c DEF OnceFresh, Queued
<1>3. OnceThreads'
    BY <1>0, <1>a, <1>b, <1>c DEF OnceThreads, Busy
<1>4. OnceHands'
    BY <1>0, <1>a, <1>b, <1>c DEF OnceHands, OnceThreads, OnceFresh,
       SenderHolds, Busy, Unsent, OnceUnsent, OnceLists, Queued
<1>5. OnceUnsent'
    BY <1>0, <1>a, <1>b, <1>c DEF OnceUnsent, OnceThreads, OnceFresh,
       Unsent, Busy, Queued, OnceHands, SenderHolds, OnceNumbers
<1>6. OnceTimely'
    BY <1>0, <1>a, <1>b, <1>c DEF OnceTimely, Unsent, OnceFresh, Queued
<1>7. OnceNumbers'
    <2>1. \A s \in server' : s \in server \/ s = kio_seq[h]
        BY <1>0
    <2>2. UNCHANGED <<kts_sequence, rmsg, rpc>>
        BY <1>a
    <2>3. OnceNumbers
        OBVIOUS
    <2> HIDE DEF TypeInv, OnceInv
    <2> QED
        BY <1>b, <2>1, <2>2, <2>3 DEF OnceNumbers
<1>8. OnceResponses'
    BY <1>0, <1>a, <1>b, <1>c DEF OnceResponses, OnceThreads, SenderHolds,
       Unsent, Completed, Queued, OnceFresh, OnceHands
<1> QED
    BY <1>1, <1>2, <1>3, <1>4, <1>5, <1>6, <1>7, <1>8 DEF OnceInv

\* The driver took the request.
LEMMA OnceSenderSent ==
    ASSUME TypeInv, OnceInv, SenderSent
    PROVE  OnceInv'
<1> USE DEF TypeInv, TypeOK, AnyKio, OnceInv, SenderUnchanged, receiver, history,
            session
<1>0. PICK h \in Kio :
          /\ h = skio /\ spc = "ok" /\ h # NoKio
          /\ \A k \in AnyKio : kio_state'[k] = kio_state[k] \/ kio_state[k] = "NEW"
          /\ \/ h \in kio_reqonly /\ spc' = "compR" /\ skio' = h
             \/ h \notin kio_reqonly /\ spc' = "loop" /\ skio' = NoKio
    BY KtliAssumption DEF SenderSent, MarkSent, HandsOK, Busy
<1>a. UNCHANGED <<queues, kio_qbp, kio_seq, kio_timeout, kio_recvmsg,
                  kio_reqonly, kts_sequence, server, receiver, cpc>>
    BY DEF SenderSent
<1>b. \A k \in AnyKio : Queued(k)' <=> Queued(k)
    BY <1>a DEF queues, Queued
<1>c. \A k \in Kio : k # NoKio
    BY KtliAssumption
<1> USE DEF queues
<1>1. OnceLists'
    BY <1>0, <1>a, <1>b, <1>c DEF OnceLists, Queued
<1>2. OnceFresh'
    BY <1>0, <1>a, <1>b, <1>c DEF OnceFresh, Queued
<1>3. OnceThreads'
    BY <1>0, <1>a, <1>b, <1>c DEF OnceThreads, Busy
<1>4. OnceHands'
    BY <1>0, <1>a, <1>b, <1>c DEF OnceHands, OnceThreads, OnceFresh,
       SenderHolds, Busy, Unsent, OnceUnsent, OnceLists, Queued
<1>5. OnceUnsent'
    BY <1>0, <1>a, <1>b, <1>c DEF OnceUnsent, OnceThreads, OnceFresh,
       Unsent, Busy, Queued, OnceHands, SenderHolds, OnceNumbers
<1>6. OnceTimely'
    BY <1>0, <1>a, <1>b, <1>c DEF OnceTimely, Unsent, OnceFresh, Queued
<1>7. OnceNumbers'
    BY <1>0, <1>a, <1>b, <1>c DEF OnceNumbers
<1>8. OnceResponses'
    <2>1. /\ \A k \in Kio : SenderHolds(k)' => SenderHolds(k)
          /\ spc' \notin Unsent
        BY <1>0, <1>c DEF SenderHolds, Unsent
    <2>2. \A k \in Kio : kio_state[k] \in Completed => kio_state'[k] = kio_state[k]
        BY <1>0 DEF Completed
    <2>3. UNCHANGED <<sendq, recvq, compq, kio_reqonly, rkio, rmsg>>
        BY <1>a
    <2>4. OnceResponses
        OBVIOUS
    <2> HIDE DEF TypeInv, OnceInv
    <2> QED
        BY <1>a, <2>1, <2>2, <2>3, <2>4 DEF OnceResponses
<1> QED
    BY <1>1, <1>2, <1>3, <1>4, <1>5, <1>6, <1>7, <1>8 DEF OnceInv

\* The driver did not take it: the sender finds it where it put it, or not at all.
LEMMA OnceSenderFailed ==
    ASSUME TypeInv, OnceInv, SenderFailed
    PROVE  OnceInv'
<1> USE DEF TypeInv, TypeOK, AnyKio, OnceInv, SenderUnchanged, receiver, history,
            session
<1>0. PICK h \in Kio :
          /\ h = skio /\ spc = "fail" /\ spc' = "compF" /\ skio' = h
          /\ \A k \in AnyKio : kio_state'[k] = kio_state[k] \/ kio_state[k] = "NEW"
    BY DEF SenderFailed, MarkSent, HandsOK, Busy
<1>a. UNCHANGED <<sendq, compq, kio_seq, kio_timeout, kio_recvmsg, kio_reqonly,
                  kts_sequence, server, receiver, cpc>>
    BY DEF SenderFailed
<1>b. /\ NoDup(recvq') /\ ~Contains(recvq', h)
      /\ \A y : Contains(recvq', y) => Contains(recvq, y)
      /\ kio_qbp' = kio_qbp \/ kio_qbp' = [kio_qbp EXCEPT ![h] = "null"]
    <2>1. NoDup(recvq) /\ recvq \in Seq(Kio)
          /\ (Contains(recvq, h) => kio_qbp[h] = "recvq")
        BY DEF OnceLists
    <2>2. CASE h \in kio_reqonly
        BY <1>0, <2>1, <2>2 DEF SenderFailed, OnceHands, SenderHolds, Queued
    <2>3. CASE h \notin kio_reqonly
        <3>1. /\ recvq' = IF kio_qbp[h] = "recvq" THEN Dequeue(recvq, h)
                          ELSE IF recvq = <<>> THEN recvq ELSE Front(recvq)
              /\ kio_qbp' = [kio_qbp EXCEPT ![h] = "null"]
            BY <1>0, <2>3 DEF SenderFailed
        <3> HIDE DEF TypeInv, OnceInv
        <3>2. CASE Contains(recvq, h)
            BY <2>1, <3>1, <3>2, DequeueList
        <3>3. CASE ~Contains(recvq, h) /\ kio_qbp[h] = "recvq"
            BY <2>1, <3>1, <3>3 DEF Dequeue
        <3>4. CASE ~Contains(recvq, h) /\ kio_qbp[h] # "recvq"
            BY <2>1, <3>1, <3>4, FrontList
        <3> QED
            BY <3>2, <3>3, <3>4
    <2> QED
        BY <2>2, <2>3
<1>c. /\ ~Contains(sendq, h) /\ ~Contains(compq, h) /\ rkio # h
      /\ kio_recvmsg[h] = 0 /\ cpc[h] \notin {"idle", "sending"}
    BY <1>0 DEF OnceUnsent, Unsent, OnceResponses, OnceFresh
<1>1. OnceLists'
    BY <1>0, <1>a, <1>b, <1>c DEF OnceLists, Queued
<1>2. OnceFresh'
    BY <1>0, <1>a, <1>b, <1>c DEF OnceFresh, Queued
<1>3. OnceThreads'
    BY <1>0, <1>a, <1>b, <1>c DEF OnceThreads, Busy
<1>4. OnceHands'
    BY <1>0, <1>a, <1>b, <1>c DEF OnceHands, OnceThreads, OnceFresh,
       SenderHolds, Busy, Unsent, OnceUnsent, OnceLists, Queued
<1>5. OnceUnsent'
    BY <1>0, <1>a, <1>b, <1>c DEF OnceUnsent, OnceThreads, OnceFresh,
       Unsent, Busy, Queued, OnceHands, SenderHolds, OnceNumbers
<1>6. OnceTimely'
    BY <1>0, <1>a, <1>b, <1>c DEF OnceTimely, Unsent, OnceFresh, Queued
<1>7. OnceNumbers'
    BY <1>0, <1>a, <1>b, <1>c DEF OnceNumbers
<1>8. OnceResponses'
    BY <1>0, <1>a, <1>b, <1>c DEF OnceResponses, OnceThreads, SenderHolds,
       Unsent, Completed, Queued, OnceFresh, OnceHands
<1> QED
    BY <1>1, <1>2, <1>3, <1>4, <1>5, <1>6, <1>7, <1>8 DEF OnceInv

\* The sender completes a request that failed or has no response.
LEMMA OnceSenderComplete ==
    ASSUME TypeInv, OnceInv, SenderComplete
    PROVE  OnceInv'
<1> USE DEF TypeInv, TypeOK, AnyKio, OnceInv, SenderUnchanged, receiver, history,
            session
<1>0. PICK h \in Kio :
          /\ h = skio /\ spc \in {"compR", "compF"} /\ spc' = "loop" /\ skio' = NoKio
          /\ kio_qbp' = [kio_qbp EXCEPT ![h] = "compq"]
          /\ kio_state' = [kio_state EXCEPT ![h] =
                               IF spc = "compR" THEN "RECEIVED" ELSE "FAILED"]
          /\ spc = "compR" => h \in kio_reqonly
          /\ SenderHolds(h)
    BY DEF SenderComplete, HandsOK, Busy, OnceThreads, SenderHolds
<1>a. UNCHANGED <<sendq, recvq, kio_seq, kio_timeout, kio_recvmsg, kio_reqonly,
                  kts_sequence, server, receiver, cpc>>
    BY DEF SenderComplete
<1>b. /\ ~Queued(h) /\ rkio # h /\ kio_recvmsg[h] = 0
      /\ cpc[h] \notin {"idle", "sending"}
      /\ \A k \in Kio : k # NoKio
    BY <1>0, KtliAssumption DEF OnceHands, OnceResponses, OnceFresh
<1>c. NoDup(compq') /\ \A y : Contains(compq', y) <=> Contains(compq, y) \/ y = h
    <2>1. NoDup(compq) /\ compq \in Seq(AnyKio) /\ compq' = Append(compq, h)
          /\ ~Contains(compq, h)
        BY <1>0, <1>b DEF OnceLists, SenderComplete, Queued
    <2> QED
        BY <2>1, AppendList
<1>1. OnceLists'
    BY <1>0, <1>a, <1>b, <1>c DEF OnceLists, Queued
<1>2. OnceFresh'
    BY <1>0, <1>a, <1>b, <1>c DEF OnceFresh, Queued
<1>3. OnceThreads'
    BY <1>0, <1>a, <1>b, <1>c DEF OnceThreads, Busy
<1>4. OnceHands'
    BY <1>0, <1>a, <1>b, <1>c DEF OnceHands, OnceThreads, OnceFresh,
       SenderHolds, Busy, Unsent, OnceUnsent, OnceLists, Queued
<1>5. OnceUnsent'
    BY <1>0, <1>a, <1>b, <1>c DEF OnceUnsent, OnceThreads, OnceFresh,
       Unsent, Busy, Queued, OnceHands, SenderHolds, OnceNumbers
<1>6. OnceTimely'
    BY <1>0, <1>a, <1>b, <1>c DEF OnceTimely, Unsent, OnceFresh, Queued
<1>7. OnceNumbers'
    BY <1>0, <1>a, <1>b, <1>c DEF OnceNumbers
<1>8. OnceResponses'
    BY <1>0, <1>a, <1>b, <1>c DEF OnceResponses, OnceThreads, SenderHolds,
       Unsent, Completed, Queued, OnceFresh, OnceHands
<1> QED
    BY <1>1, <1>2, <1>3, <1>4, <1>5, <1>6, <1>7, <1>8 DEF OnceInv

\* A message arrives.
LEMMA OncePoll ==
    ASSUME Orderly, TypeInv, OnceInv,
           (\E s \in server : PollResponse(s)) \/ PollUnsolicited
    PROVE  OnceInv'
<1> USE DEF TypeInv, TypeOK, AnyKio, OnceInv, ReceiverUnchanged, sender, history
<1>0. /\ rpc' = "read" /\ rpc # "comp" /\ server' \subseteq server
      /\ \/ rmsg'.aseq = -1
         \/ rmsg'.aseq \in server /\ rmsg'.req = rmsg'.aseq
    <2>1. rpc' = "read" /\ rpc # "comp" /\ server' \subseteq server
        BY DEF PollResponse, PollUnsolicited, Polling
    <2>2. ASSUME NEW s \in server, PollResponse(s)
          PROVE  rmsg'.aseq \in server /\ rmsg'.req = rmsg'.aseq
        <3>1. rmsg' = [aseq |-> s, req |-> s]
            BY <2>2 DEF PollResponse, Orderly
        <3> QED
            BY <3>1
    <2>3. PollUnsolicited => rmsg'.aseq = -1
        BY DEF PollUnsolicited
    <2> QED
        BY <2>1, <2>2, <2>3
<1>a. UNCHANGED <<queues, kio_state, kio_qbp, kio_seq, kio_timeout,
                  kio_recvmsg, kio_reqonly, spc, skio, kts_sequence, rkio,
                  cpc>>
    BY DEF PollResponse, PollUnsolicited, kiovars
<1>b. \A k \in AnyKio : Queued(k)' <=> Queued(k)
    BY <1>a DEF queues, Queued
<1>c. \A s \in server : s \in Nat /\ 0 < s /\ s < kts_sequence
    BY DEF OnceNumbers
<1>d. rkio \notin Kio
    BY <1>0, KtliAssumption DEF OnceThreads
<1>e. rmsg'.aseq # 0 /\ rmsg'.aseq < kts_sequence
      /\ (rmsg'.aseq > 0 => rmsg'.req = rmsg'.aseq)
    <2>1. 0 < kts_sequence /\ kts_sequence \in Nat
        BY DEF OnceNumbers
    <2> HIDE DEF TypeInv, OnceInv
    <2>2. CASE rmsg'.aseq = -1
        BY <2>1, <2>2
    <2>3. CASE rmsg'.aseq \in server /\ rmsg'.req = rmsg'.aseq
        BY <1>c, <2>3
    <2> QED
        BY <1>0, <2>2, <2>3
<1> USE DEF queues
<1>1. OnceLists'
    BY <1>0, <1>a, <1>b, <1>d, <1>e DEF OnceLists, Queued
<1>2. OnceFresh'
    BY <1>0, <1>a, <1>b, <1>d, <1>e DEF OnceFresh, Queued
<1>3. OnceThreads'
    BY <1>0, <1>a, <1>b, <1>d, <1>e DEF OnceThreads, Busy
<1>4. OnceHands'
    BY <1>0, <1>a, <1>b, <1>d, <1>e DEF OnceHands, OnceThreads, OnceFresh,
       SenderHolds, Busy, Unsent, OnceUnsent, OnceLists, Queued
<1>5. OnceUnsent'
    BY <1>0, <1>a, <1>b, <1>d, <1>e DEF OnceUnsent, OnceThreads,
       OnceFresh, Unsent, Busy, Queued, OnceHands, SenderHolds,
       OnceNumbers
<1>6. OnceTimely'
    BY <1>0, <1>a, <1>b, <1>d, <1>e DEF OnceTimely, Unsent, OnceFresh,
       Queued
<1>7. OnceNumbers'
    BY <1>0, <1>a, <1>b, <1>d, <1>e DEF OnceNumbers
<1>8. OnceResponses'
    BY <1>0, <1>a, <1>b, <1>d, <1>e DEF OnceResponses, OnceThreads,
       SenderHolds, Unsent, Completed, Queued, OnceFresh, OnceHands
<1> QED
    BY <1>1, <1>2, <1>3, <1>4, <1>5, <1>6, <1>7, <1>8 DEF OnceInv

\* A response takes its request off recvq, never one the sender may still have to
\* take back.
LEMMA OnceMatchFound ==
    ASSUME TypeInv, OnceInv, MatchFound
    PROVE  OnceInv'
<1> USE DEF TypeInv, TypeOK, AnyKio, OnceInv, ReceiverUnchanged, sender, history
<1>0. PICK h \in Kio :
          /\ kio_seq[h] = rmsg.aseq /\ rmsg.aseq > 0 /\ Contains(recvq, h)
          /\ rkio' = h /\ rpc = "match" /\ rpc' = "comp"
          /\ kio_qbp' = [kio_qbp EXCEPT ![h] = "null"]
          /\ NoDup(recvq')
          /\ \A y : Contains(recvq', y) <=> Contains(recvq, y) /\ y # h
    <2>1. PICK i \in DOMAIN recvq :
              rmsg.aseq > 0 /\ kio_seq[recvq[i]] = rmsg.aseq /\ TakeFromRecvq(i)
              /\ rpc = "match"
        BY DEF MatchFound
    <2>2. /\ recvq \in Seq(Kio) /\ NoDup(recvq) /\ recvq' = RemoveAt(recvq, i)
          /\ rkio' = recvq[i] /\ rpc' = "comp"
          /\ kio_qbp' = [kio_qbp EXCEPT ![recvq[i]] = "null"]
        BY <2>1 DEF OnceLists, TakeFromRecvq
    <2>3. /\ recvq[i] \in Kio /\ Contains(recvq, recvq[i])
          /\ NoDup(recvq')
          /\ \A y : Contains(recvq', y) <=> Contains(recvq, y) /\ y # recvq[i]
        BY <2>2, RemoveIndex
    <2> QED
        BY <2>1, <2>2, <2>3
<1>a. UNCHANGED <<sendq, compq, kio_state, kio_seq, kio_timeout, kio_recvmsg,
                  kio_reqonly, rmsg, server, spc, skio, kts_sequence, cpc>>
    BY DEF MatchFound, TakeFromRecvq
<1>b. /\ ~Contains(sendq, h) /\ ~Contains(compq, h) /\ h \notin kio_reqonly
      /\ kio_recvmsg[h] = 0 /\ cpc[h] \notin {"idle", "sending"}
      /\ ~SenderHolds(h) /\ (spc \in Unsent => skio # h) /\ h # NoKio
    BY <1>0, KtliAssumption
    DEF OnceLists, OnceHands, OnceUnsent, OnceResponses, OnceFresh, Queued
<1>c. rmsg.req = kio_seq[h] /\ rkio = NoKio
    BY <1>0 DEF OnceResponses, OnceThreads
<1>1. OnceLists'
    BY <1>0, <1>a, <1>b, <1>c DEF OnceLists, Queued
<1>2. OnceFresh'
    BY <1>0, <1>a, <1>b, <1>c DEF OnceFresh, Queued
<1>3. OnceThreads'
    BY <1>0, <1>a, <1>b, <1>c DEF OnceThreads, Busy
<1>4. OnceHands'
    BY <1>0, <1>a, <1>b, <1>c DEF OnceHands, OnceThreads, OnceFresh,
       SenderHolds, Busy, Unsent, OnceUnsent, OnceLists, Queued
<1>5. OnceUnsent'
    BY <1>0, <1>a, <1>b, <1>c DEF OnceUnsent, OnceThreads, OnceFresh,
       Unsent, Busy, Queued, OnceHands, SenderHolds, OnceNumbers
<1>6. OnceTimely'
    BY <1>0, <1>a, <1>b, <1>c DEF OnceTimely, Unsent, OnceFresh, Queued
<1>7. OnceNumbers'
    BY <1>0, <1>a, <1>b, <1>c DEF OnceNumbers
<1>8. OnceResponses'
    BY <1>0, <1>a, <1>b, <1>c DEF OnceResponses, OnceThreads, SenderHolds,
       Unsent, Completed, Queued, OnceFresh, OnceHands
<1> QED
    BY <1>1, <1>2, <1>3, <1>4, <1>5, <1>6, <1>7, <1>8 DEF OnceInv

\* An unsolicited message gets a kio that is on no queue.
LEMMA OnceMatchUnsolicited ==
    ASSUME TypeInv, OnceInv, MatchUnsolicited
    PROVE  OnceInv'
<1> USE DEF TypeInv, TypeOK, AnyKio, OnceInv, ReceiverUnchanged, sender, history
<1>0. PICK u \in Unsol :
          /\ kio_qbp[u] = "null" /\ rkio' = u /\ u \notin Kio /\ u # NoKio
          /\ kio_state' = [kio_state EXCEPT ![u] = "NEW"]
          /\ rpc = "match" /\ rpc' = "comp"
    BY KtliAssumption DEF MatchUnsolicited
<1>a. UNCHANGED <<queues, kio_seq, kio_qbp, kio_timeout, kio_recvmsg,
                  kio_reqonly, rmsg, server, spc, skio, kts_sequence, cpc>>
    BY DEF MatchUnsolicited
<1>b. /\ ~Queued(u) /\ rkio = NoKio
      /\ \A k \in AnyKio : Queued(k)' <=> Queued(k)
    BY <1>0, <1>a DEF OnceLists, OnceThreads, Queued, queues
<1>c. skio # u
    BY <1>0
<1> USE DEF queues
<1>1. OnceLists'
    BY <1>0, <1>a, <1>b, <1>c DEF OnceLists, Queued
<1>2. OnceFresh'
    BY <1>0, <1>a, <1>b, <1>c DEF OnceFresh, Queued
<1>3. OnceThreads'
    BY <1>0, <1>a, <1>b, <1>c DEF OnceThreads, Busy
<1>4. OnceHands'
    BY <1>0, <1>a, <1>b, <1>c DEF OnceHands, OnceThreads, OnceFresh,
       SenderHolds, Busy, Unsent, OnceUnsent, OnceLists, Queued
<1>5. OnceUnsent'
    BY <1>0, <1>a, <1>b, <1>c DEF OnceUnsent, OnceThreads, OnceFresh,
       Unsent, Busy, Queued, OnceHands, SenderHolds, OnceNumbers
<1>6. OnceTimely'
    BY <1>0, <1>a, <1>b, <1>c DEF OnceTimely, Unsent, OnceFresh, Queued
<1>7. OnceNumbers'
    BY <1>0, <1>a, <1>b, <1>c DEF OnceNumbers
<1>8. OnceResponses'
    BY <1>0, <1>a, <1>b, <1>c DEF OnceResponses, OnceThreads, SenderHolds,
       Unsent, Completed, Queued, OnceFresh, OnceHands
<1> QED
    BY <1>1, <1>2, <1>3, <1>4, <1>5, <1>6, <1>7, <1>8 DEF OnceInv

\* The receiver completes the kio in its hand.
LEMMA OnceRecvComplete ==
    ASSUME TypeInv, OnceInv, RecvComplete
    PROVE  OnceInv'
<1> USE DEF TypeInv, TypeOK, AnyKio, OnceInv, ReceiverUnchanged, sender, history
<1>0. PICK h \in AnyKio :
          /\ h = rkio /\ rpc = "comp" /\ rpc' \notin {"comp", "match"}
          /\ rkio' = NoKio /\ rmsg' = NoMsg
          /\ kio_qbp' = [kio_qbp EXCEPT ![h] = "compq"]
          /\ kio_state' = [kio_state EXCEPT ![h] = "RECEIVED"]
          /\ kio_recvmsg' = [kio_recvmsg EXCEPT ![h] = rmsg.req]
    BY DEF RecvComplete, HandsOK, AfterMessage, Again
<1>a. UNCHANGED <<sendq, recvq, kio_seq, kio_timeout, kio_reqonly, server, spc,
                  skio, kts_sequence, cpc>>
    BY DEF RecvComplete
<1>b. /\ ~Queued(h) /\ ~SenderHolds(h) /\ (spc \in Unsent => skio # h)
      /\ h \in Kio => /\ rmsg.req = kio_seq[h] /\ h \notin kio_reqonly
                      /\ cpc[h] \notin {"idle", "sending"}
      /\ \A k \in AnyKio : k # NoKio
    <2>1. ~Queued(h) /\ (spc \in Unsent => skio # h)
        BY <1>0 DEF OnceHands, OnceUnsent
    <2>2. ~SenderHolds(h)
        BY <1>0, KtliAssumption DEF OnceHands, SenderHolds
    <2>3. h \in Kio => /\ rmsg.req = kio_seq[h] /\ h \notin kio_reqonly
                      /\ cpc[h] \notin {"idle", "sending"}
        BY <1>0 DEF OnceResponses, OnceFresh
    <2> QED
        BY <2>1, <2>2, <2>3, KtliAssumption
<1>c. NoDup(compq') /\ \A y : Contains(compq', y) <=> Contains(compq, y) \/ y = h
    <2>1. NoDup(compq) /\ compq \in Seq(AnyKio) /\ compq' = Append(compq, h)
          /\ ~Contains(compq, h)
        BY <1>0, <1>b DEF OnceLists, RecvComplete, Queued
    <2> QED
        BY <2>1, AppendList
<1>d. rmsg'.aseq = 0 /\ rmsg'.req = 0 /\ NoKio \notin Kio /\ NoKio \notin AnyKio
    BY <1>0, KtliAssumption DEF NoMsg
<1>1. OnceLists'
    BY <1>0, <1>a, <1>b, <1>c, <1>d DEF OnceLists, Queued
<1>2. OnceFresh'
    BY <1>0, <1>a, <1>b, <1>c, <1>d DEF OnceFresh, Queued
<1>3. OnceThreads'
    BY <1>0, <1>a, <1>b, <1>c, <1>d DEF OnceThreads, Busy
<1>4. OnceHands'
    BY <1>0, <1>a, <1>b, <1>c, <1>d DEF OnceHands, OnceThreads, OnceFresh,
       SenderHolds, Busy, Unsent, OnceUnsent, OnceLists, Queued
<1>5. OnceUnsent'
    BY <1>0, <1>a, <1>b, <1>c, <1>d DEF OnceUnsent, OnceThreads,
       OnceFresh, Unsent, Busy, Queued, OnceHands, SenderHolds,
       OnceNumbers
<1>6. OnceTimely'
    BY <1>0, <1>a, <1>b, <1>c, <1>d DEF OnceTimely, Unsent, OnceFresh,
       Queued
<1>7. OnceNumbers'
    BY <1>0, <1>a, <1>b, <1>c, <1>d DEF OnceNumbers
<1>8. OnceResponses'
    BY <1>0, <1>a, <1>b, <1>c, <1>d DEF OnceResponses, OnceThreads,
       SenderHolds, Unsent, Completed, Queued, OnceFresh, OnceHands
<1> QED
    BY <1>1, <1>2, <1>3, <1>4, <1>5, <1>6, <1>7, <1>8 DEF OnceInv

\* The timeout scan completes a request, never one the sender may still have to
\* take back.
LEMMA OnceTimeoutOne ==
    ASSUME Orderly, TypeInv, OnceInv, TimeoutOne
    PROVE  OnceInv'
<1> USE DEF TypeInv, TypeOK, AnyKio, OnceInv, ReceiverUnchanged, sender, history
<1>0. PICK h \in Kio :
          /\ kio_timeout[h] = "expired" /\ Contains(recvq, h)
          /\ kio_qbp' = [kio_qbp EXCEPT ![h] = "compq"]
          /\ kio_state' = [kio_state EXCEPT ![h] = "TIMEDOUT"]
          /\ NoDup(recvq') /\ NoDup(compq')
          /\ \A y : Contains(recvq', y) <=> Contains(recvq, y) /\ y # h
          /\ \A y : Contains(compq', y) <=> Contains(compq, y) \/ y = h
    <2>1. PICK i \in DOMAIN recvq :
              /\ Overdue(recvq[i])
              /\ recvq' = RemoveAt(recvq, i)
              /\ compq' = Append(compq, recvq[i])
              /\ kio_qbp' = [kio_qbp EXCEPT ![recvq[i]] = "compq"]
              /\ kio_state' = [kio_state EXCEPT ![recvq[i]] = "TIMEDOUT"]
        BY DEF TimeoutOne
    <2>2. /\ recvq \in Seq(Kio) /\ NoDup(recvq)
          /\ compq \in Seq(AnyKio) /\ NoDup(compq)
        BY DEF OnceLists
    <2>3. /\ recvq[i] \in Kio /\ Contains(recvq, recvq[i])
          /\ NoDup(recvq')
          /\ \A y : Contains(recvq', y) <=> Contains(recvq, y) /\ y # recvq[i]
        BY <2>1, <2>2, RemoveIndex
    <2>4. ~Contains(compq, recvq[i])
        BY <2>3 DEF OnceLists
    <2>5. /\ NoDup(compq')
          /\ \A y : Contains(compq', y) <=> Contains(compq, y) \/ y = recvq[i]
        BY <2>1, <2>2, <2>3, <2>4, AppendList
    <2>6. kio_timeout[recvq[i]] = "expired"
        BY <2>1 DEF Orderly, Overdue
    <2> QED
        BY <2>1, <2>2, <2>3, <2>4, <2>5, <2>6
<1>a. UNCHANGED <<sendq, kio_seq, kio_timeout, kio_recvmsg, kio_reqonly,
                  receiver, server, spc, skio, kts_sequence, cpc>>
    BY DEF TimeoutOne
<1>b. /\ ~Contains(sendq, h) /\ ~Contains(compq, h) /\ h \notin kio_reqonly /\ rkio # h
      /\ kio_recvmsg[h] = 0 /\ cpc[h] \notin {"idle", "sending"}
      /\ ~SenderHolds(h) /\ (spc \in Unsent => skio # h)
    BY <1>0
    DEF OnceLists, OnceHands, OnceTimely, OnceResponses, OnceFresh, Queued
<1> USE DEF receiver
<1>1. OnceLists'
    BY <1>0, <1>a, <1>b DEF OnceLists, Queued
<1>2. OnceFresh'
    BY <1>0, <1>a, <1>b DEF OnceFresh, Queued
<1>3. OnceThreads'
    BY <1>0, <1>a, <1>b DEF OnceThreads, Busy
<1>4. OnceHands'
    BY <1>0, <1>a, <1>b DEF OnceHands, OnceThreads, OnceFresh,
       SenderHolds, Busy, Unsent, OnceUnsent, OnceLists, Queued
<1>5. OnceUnsent'
    BY <1>0, <1>a, <1>b DEF OnceUnsent, OnceThreads, OnceFresh, Unsent,
       Busy, Queued, OnceHands, SenderHolds, OnceNumbers
<1>6. OnceTimely'
    BY <1>0, <1>a, <1>b DEF OnceTimely, Unsent, OnceFresh, Queued
<1>7. OnceNumbers'
    BY <1>0, <1>a, <1>b DEF OnceNumbers
<1>8. OnceResponses'
    BY <1>0, <1>a, <1>b DEF OnceResponses, OnceThreads, SenderHolds,
       Unsent, Completed, Queued, OnceFresh, OnceHands
<1> QED
    BY <1>1, <1>2, <1>3, <1>4, <1>5, <1>6, <1>7, <1>8 DEF OnceInv

\* Time passes for a request the sender is done with.
LEMMA OnceExpire ==
    ASSUME Orderly, TypeInv, OnceInv, NEW k \in Kio, Expire(k)
    PROVE  OnceInv'
<1> USE DEF TypeInv, TypeOK, AnyKio, OnceInv, Expire, queues, sender, receiver,
            history, session
<1>0. skio # k /\ Contains(recvq, k) /\ ~Contains(sendq, k) /\ cpc[k] # "sending"
    BY DEF Orderly, OnceLists, OnceFresh, Queued
<1>1. OnceLists'
    BY <1>0 DEF OnceLists, Queued
<1>2. OnceFresh'
    BY <1>0 DEF OnceFresh, Queued
<1>3. OnceThreads'
    BY <1>0 DEF OnceThreads, Busy
<1>4. OnceHands'
    BY <1>0 DEF OnceHands, OnceThreads, OnceFresh, SenderHolds, Busy,
       Unsent, OnceUnsent, OnceLists, Queued
<1>5. OnceUnsent'
    BY <1>0 DEF OnceUnsent, OnceThreads, OnceFresh, Unsent, Busy, Queued,
       OnceHands, SenderHolds, OnceNumbers
<1>6. OnceTimely'
    BY <1>0 DEF OnceTimely, Unsent, OnceFresh, Queued, HandsOK, Busy
<1>7. OnceNumbers'
    BY <1>0 DEF OnceNumbers
<1>8. OnceResponses'
    BY <1>0 DEF OnceResponses, OnceThreads, SenderHolds, Unsent,
       Completed, Queued, OnceFresh, OnceHands
<1> QED
    BY <1>1, <1>2, <1>3, <1>4, <1>5, <1>6, <1>7, <1>8 DEF OnceInv

\* Steps that leave the queues and the kios alone.
LEMMA OnceStays ==
    ASSUME TypeInv, OnceInv,
           UNCHANGED <<kiovars, queues, skio, kts_sequence, rkio>>,
           \A k \in Kio : cpc'[k] = cpc[k] \/ cpc'[k] \in {"freed", "assert"},
           spc' = spc \/ (spc \notin Busy /\ spc' \notin Busy),
           rpc' = "comp" <=> rpc = "comp",
           rpc' = "match" => rmsg'.aseq # 0,
           rmsg' = rmsg \/ (rmsg' = NoMsg /\ rpc # "comp"),
           server' \subseteq server
    PROVE  OnceInv'
<1>1. UNCHANGED <<sendq, recvq, compq, kio_state, kio_seq, kio_qbp,
                  kio_timeout, kio_recvmsg, kio_reqonly, skio, kts_sequence,
                  rkio>>
    BY DEF kiovars, queues
<1>2. NoDup(sendq') /\ NoDup(recvq') /\ NoDup(compq')
    BY <1>1 DEF OnceInv, OnceLists
<1>3. \A k \in AnyKio :
          /\ Contains(sendq', k) => Contains(sendq, k)
          /\ Contains(recvq', k) => Contains(recvq, k)
          /\ Contains(compq', k) => Contains(compq, k)
          /\ Queued(k)' => kio_qbp'[k] = kio_qbp[k]
          /\ Contains(compq', k) => kio_state'[k] = kio_state[k]
    BY <1>1
<1> QED
    BY <1>1, <1>2, <1>3, OnceShrinks

\* A list loses a kio, whose back pointer then names nothing, and perhaps its
\* state changes.
LEMMA OnceTakesOff ==
    ASSUME TypeInv, OnceInv, NEW h \in AnyKio,
           UNCHANGED <<kio_seq, kio_timeout, kio_recvmsg, kio_reqonly, skio,
                       kts_sequence, rkio, spc, rpc, rmsg, server>>,
           NoDup(sendq') /\ NoDup(recvq') /\ NoDup(compq'),
           \A k \in AnyKio :
               /\ Contains(sendq', k) => Contains(sendq, k) /\ k # h
               /\ Contains(recvq', k) => Contains(recvq, k) /\ k # h
               /\ Contains(compq', k) => Contains(compq, k) /\ k # h
               /\ k # h => kio_qbp'[k] = kio_qbp[k] /\ kio_state'[k] = kio_state[k],
           \A k \in Kio : cpc'[k] = cpc[k] \/ cpc'[k] \in {"freed", "assert"}
    PROVE  OnceInv'
<1>1. \A k \in AnyKio :
          /\ Contains(sendq', k) => Contains(sendq, k)
          /\ Contains(recvq', k) => Contains(recvq, k)
          /\ Contains(compq', k) => Contains(compq, k)
          /\ Queued(k)' => kio_qbp'[k] = kio_qbp[k]
          /\ Contains(compq', k) => kio_state'[k] = kio_state[k]
    BY DEF Queued
<1>2. rpc = "match" => rmsg.aseq # 0
    BY DEF OnceInv, OnceNumbers
<1> QED
    BY <1>1, <1>2, OnceShrinks

\* ktli_receive and ktli_receive_unsolicited take a kio off compq.
LEMMA OnceReceive ==
    ASSUME Orderly, TypeInv, OnceInv,
           (\E k \in Kio : Receive(k)) \/ ReceiveUnsolicited
    PROVE  OnceInv'
<1>0. /\ compq \in Seq(AnyKio) /\ NoDup(sendq) /\ NoDup(recvq) /\ NoDup(compq)
      /\ kio_qbp \in [AnyKio -> Queues]
      /\ cpc \in [Kio -> {"idle", "sending", "out", "freed", "assert"}]
      /\ Retired = "freed" /\ \A k \in Kio : k \in AnyKio
    BY DEF TypeInv, TypeOK, OnceInv, OnceLists, Orderly, Retired, AnyKio
<1>1. \A k \in AnyKio : Contains(compq, k) => ~Contains(sendq, k) /\ ~Contains(recvq, k)
    BY DEF OnceInv, OnceLists
<1>2. ASSUME NEW k \in Kio, Receive(k), kio_qbp[k] = "compq"
      PROVE  OnceInv'
    <2>1. /\ UNCHANGED <<kio_seq, kio_timeout, kio_recvmsg, skio, kts_sequence,
                         rkio, spc, rpc, rmsg, server, kio_state, kio_reqonly,
                         sendq, recvq>>
          /\ compq' = Dequeue(compq, k)
          /\ kio_qbp' = [kio_qbp EXCEPT ![k] = "null"]
          /\ cpc' = [cpc EXCEPT ![k] = "freed"]
        BY <1>0, <1>2 DEF Receive, sender, receiver
    <2>2. NoDup(compq') /\ \A y : Contains(compq', y) => Contains(compq, y) /\ y # k
        <3>1. CASE Contains(compq, k)
            BY <1>0, <2>1, <3>1, DequeueList
        <3>2. CASE ~Contains(compq, k)
            BY <1>0, <2>1, <3>2 DEF Dequeue
        <3> QED
            BY <3>1, <3>2
    <2>3. ~Contains(sendq, k) /\ ~Contains(recvq, k) /\ k \in AnyKio
        BY <1>0, <1>2 DEF OnceInv, OnceLists
    <2>4. \A j \in Kio : cpc'[j] = cpc[j] \/ cpc'[j] \in {"freed", "assert"}
        BY <1>0, <2>1
    <2>5. \A j \in AnyKio : j # k => kio_qbp'[j] = kio_qbp[j]
        BY <1>0, <2>1
    <2> QED
        BY <1>0, <2>1, <2>2, <2>3, <2>4, <2>5, OnceTakesOff
<1>3. ASSUME NEW k \in Kio, Receive(k), kio_qbp[k] # "compq"
      PROVE  OnceInv'
    <2>1. /\ UNCHANGED <<kiovars, queues, skio, kts_sequence, rkio, spc, rpc, rmsg, server>>
          /\ cpc' = [cpc EXCEPT ![k] = "assert"]
        BY <1>3 DEF Receive, sender, receiver, kiovars, queues
    <2>2. \A j \in Kio : cpc'[j] = cpc[j] \/ cpc'[j] \in {"freed", "assert"}
        BY <1>0, <2>1
    <2>3. rpc = "match" => rmsg.aseq # 0
        BY DEF OnceInv, OnceNumbers
    <2> QED
        BY <2>1, <2>2, <2>3, OnceStays
<1>4. CASE ReceiveUnsolicited
    <2>1. PICK i \in DOMAIN compq :
              /\ compq' = RemoveAt(compq, i)
              /\ kio_qbp' = [kio_qbp EXCEPT ![compq[i]] = "null"]
        BY <1>4 DEF ReceiveUnsolicited
    <2>2. UNCHANGED <<kio_seq, kio_timeout, kio_recvmsg, skio, kts_sequence,
                      rkio, spc, rpc, rmsg, server, kio_state, kio_reqonly,
                      sendq, recvq, cpc>>
        BY <1>4 DEF ReceiveUnsolicited, sender, receiver
    <2>3. PICK h \in AnyKio :
              /\ h = compq[i] /\ Contains(compq, h) /\ NoDup(compq')
              /\ \A y : Contains(compq', y) => Contains(compq, y) /\ y # h
        BY <1>0, <2>1, RemoveIndex
    <2>4. \A j \in AnyKio : j # h => kio_qbp'[j] = kio_qbp[j]
        BY <1>0, <2>1, <2>3
    <2>5. ~Contains(sendq, h) /\ ~Contains(recvq, h)
        BY <1>1, <2>3
    <2> QED
        BY <1>0, <2>2, <2>3, <2>4, <2>5, OnceTakesOff
<1> QED
    BY <1>2, <1>3, <1>4

\* A drain call takes a kio off the queue it is on, and there is only one.
LEMMA OnceDrainOff ==
    ASSUME Orderly, TypeInv, OnceInv, DrainFront \/ DrainMatch
    PROVE  OnceInv'
<1>0. /\ sendq \in Seq(Kio) /\ recvq \in Seq(Kio) /\ compq \in Seq(AnyKio)
      /\ NoDup(sendq) /\ NoDup(recvq) /\ NoDup(compq)
      /\ kio_qbp \in [AnyKio -> Queues] /\ kio_state \in [AnyKio -> KioStates]
      /\ Retired = "freed" /\ \A k \in Kio : k \in AnyKio
    BY DEF TypeInv, TypeOK, OnceInv, OnceLists, Orderly, Retired, AnyKio
<1>1. \A k \in AnyKio :
          /\ Contains(sendq, k) => ~Contains(recvq, k) /\ ~Contains(compq, k)
          /\ Contains(recvq, k) => ~Contains(sendq, k) /\ ~Contains(compq, k)
          /\ Contains(compq, k) => ~Contains(sendq, k) /\ ~Contains(recvq, k)
    BY DEF OnceInv, OnceLists
<1>2. /\ drain.at \in 1 .. 3
      /\ \/ drain.at = 1 /\ DrainQ = compq
         \/ drain.at = 2 /\ DrainQ = recvq
         \/ drain.at = 3 /\ DrainQ = sendq
    BY SMTT(60) DEF DrainFront, DrainMatch, DrainQ, TypeInv, TypeOK, DrainCalls
<1>3. UNCHANGED <<kio_seq, kio_timeout, kio_recvmsg, kio_reqonly, skio,
                  kts_sequence, rkio, spc, rpc, rmsg, server>>
    BY DEF DrainFront, DrainMatch, DrainUnchanged, sender, receiver
<1>4. ASSUME NEW h \in AnyKio, NEW q, Contains(DrainQ, h), DrainTo(q), NoDup(q),
             \A y : Contains(q, y) => Contains(DrainQ, y) /\ y # h,
             DrainOff(h),
             \A k \in Kio : cpc'[k] = cpc[k] \/ cpc'[k] \in {"freed", "assert"}
      PROVE  OnceInv'
    <2>1. \A k \in AnyKio : k # h => /\ kio_qbp'[k] = kio_qbp[k]
                                     /\ kio_state'[k] = kio_state[k]
        BY <1>0, <1>4 DEF DrainOff
    <2>2. CASE drain.at = 1
        <3>1. compq' = q /\ recvq' = recvq /\ sendq' = sendq /\ DrainQ = compq
            BY <1>2, <1>4, <2>2 DEF DrainTo
        <3> QED
            BY <1>0, <1>1, <1>3, <1>4, <2>1, <3>1, OnceTakesOff
    <2>3. CASE drain.at = 2
        <3>1. compq' = compq /\ recvq' = q /\ sendq' = sendq /\ DrainQ = recvq
            BY <1>2, <1>4, <2>3 DEF DrainTo
        <3> QED
            BY <1>0, <1>1, <1>3, <1>4, <2>1, <3>1, OnceTakesOff
    <2>4. CASE drain.at = 3
        <3>1. compq' = compq /\ recvq' = recvq /\ sendq' = q /\ DrainQ = sendq
            BY <1>2, <1>4, <2>4 DEF DrainTo
        <3> QED
            BY <1>0, <1>1, <1>3, <1>4, <2>1, <3>1, OnceTakesOff
    <2> QED
        BY <1>2, <2>2, <2>3, <2>4
<1>5. PICK S : DrainQ \in Seq(S) /\ NoDup(DrainQ) /\ S \subseteq AnyKio
    BY <1>0, <1>2
<1>6. CASE DrainFront
    <2>1. /\ DrainQ # <<>> /\ DrainTo(Tail(DrainQ)) /\ DrainOff(Head(DrainQ))
          /\ \A k \in Kio : cpc'[k] = cpc[k] \/ cpc'[k] \in {"freed", "assert"}
        BY <1>0, <1>6 DEF DrainFront
    <2>2. Head(DrainQ) \in AnyKio
        BY <1>5, <2>1, TailType
    <2>3. /\ NoDup(Tail(DrainQ)) /\ Contains(DrainQ, Head(DrainQ))
          /\ \A y : Contains(Tail(DrainQ), y) => Contains(DrainQ, y) /\ y # Head(DrainQ)
        BY <1>5, <2>1, TailList
    <2> QED
        BY <1>4, <2>1, <2>2, <2>3
<1>7. CASE DrainMatch /\ Contains(DrainQ, drain.kio)
    <2>1. /\ drain.kio \in AnyKio /\ DrainTo(Dequeue(DrainQ, drain.kio))
          /\ DrainOff(drain.kio) /\ cpc' = cpc
        BY <1>0, <1>7 DEF DrainMatch, TypeInv, TypeOK, DrainCalls
    <2>2. /\ NoDup(Dequeue(DrainQ, drain.kio))
          /\ \A y : Contains(Dequeue(DrainQ, drain.kio), y)
                    => Contains(DrainQ, y) /\ y # drain.kio
        BY <1>5, <1>7, DequeueList
    <2> QED
        BY <1>4, <1>7, <2>1, <2>2
<1>8. CASE DrainMatch /\ ~Contains(DrainQ, drain.kio)
    <2>1. UNCHANGED <<sendq, recvq, compq, kio_qbp, kio_state, cpc>>
        BY <1>2, <1>8 DEF DrainMatch, DrainTo, Dequeue
    <2>2. rpc = "match" => rmsg.aseq # 0
        BY DEF OnceInv, OnceNumbers
    <2> QED
        BY <1>3, <2>1, <2>2, OnceStays DEF kiovars, queues
<1> QED
    BY <1>6, <1>7, <1>8

\* The other calls of the client leave the queues alone, or, in ktli_close, throw
\* them away.
LEMMA OnceClient ==
    ASSUME Orderly, TypeInv, OnceInv,
           \/ \E k \in Kio \cup {NoKio} : DrainCall(k)
           \/ DrainSkip \/ DrainReturn \/ Connect \/ Disconnect \/ DisconnectEnd
           \/ CloseStart \/ CloseSendq \/ CloseFinish
    PROVE  OnceInv'
<1> USE DEF sender, receiver
<1>0. /\ rpc = "match" => rmsg.aseq # 0
      /\ Retired = "freed"
    BY DEF OnceInv, OnceNumbers, Orderly, Retired
<1>1. CASE \E k \in Kio \cup {NoKio} : DrainCall(k)
    BY <1>0, <1>1, OnceStays DEF DrainCall
<1>2. CASE DrainSkip
    <2>1. UNCHANGED <<sendq, recvq, compq>>
        BY <1>2 DEF DrainSkip, DrainTo, DrainQ
    <2> QED
        BY <1>0, <1>2, <2>1, OnceStays DEF DrainSkip, DrainUnchanged, kiovars, queues
<1>3. CASE DrainReturn
    <2>1. \A k \in Kio : cpc'[k] = cpc[k] \/ cpc'[k] = "freed"
        BY <1>0, <1>3 DEF DrainReturn
    <2> QED
        BY <1>0, <1>3, <2>1, OnceStays DEF DrainReturn, DrainUnchanged, kiovars
<1>4. CASE Connect
    BY <1>0, <1>4, OnceStays DEF Connect
<1>5. CASE Disconnect \/ DisconnectEnd
    BY <1>0, <1>5, OnceStays DEF Disconnect, DisconnectEnd, HangUp
<1>6. CASE CloseStart
    BY <1>0, <1>6, OnceStays DEF CloseStart, Busy
<1>7. CASE CloseSendq \/ CloseFinish
    <2>1. /\ sendq' = sendq \/ sendq' = <<>>
          /\ recvq' = recvq \/ recvq' = <<>>
          /\ compq' = compq \/ compq' = <<>>
          /\ UNCHANGED <<kio_state, kio_seq, kio_qbp, kio_timeout, kio_recvmsg,
                         kio_reqonly, spc, skio, kts_sequence, rpc, rkio, rmsg,
                         server, cpc>>
        BY <1>7 DEF CloseSendq, CloseFinish, kiovars
    <2>2. NoDup(<<>>) /\ \A y : ~Contains(<<>>, y)
        BY DEF NoDup, Contains
    <2>3. NoDup(sendq') /\ NoDup(recvq') /\ NoDup(compq')
        BY <2>1, <2>2 DEF OnceInv, OnceLists
    <2>4. \A k \in AnyKio : /\ Contains(sendq', k) => Contains(sendq, k)
                            /\ Contains(recvq', k) => Contains(recvq, k)
                            /\ Contains(compq', k) => Contains(compq, k)
        BY <2>1, <2>2
    <2> QED
        BY <1>0, <2>1, <2>3, <2>4, OnceShrinks
<1> QED
    BY <1>1, <1>2, <1>3, <1>4, <1>5, <1>6, <1>7

\* The sender waits, or finds that a drain has emptied sendq.
LEMMA OnceSenderIdle ==
    ASSUME TypeInv, OnceInv,
           \/ SenderTop \/ SenderSpurious \/ SenderWoken \/ SenderLoop
           \/ SenderPop /\ sendq = <<>>
    PROVE  OnceInv'
<1>0. rpc = "match" => rmsg.aseq # 0
    BY DEF OnceInv, OnceNumbers
<1>1. /\ UNCHANGED <<kiovars, queues, skio, kts_sequence, receiver, server, cpc>>
      /\ spc \notin Busy /\ spc' \notin Busy
    BY DEF SenderTop, SenderSpurious, SenderWoken, SenderLoop, SenderPop,
           SenderUnchanged, Busy, kiovars, queues
<1> QED
    BY <1>0, <1>1, OnceStays DEF receiver

\* The receiver polls, reads, gives up or tosses a message.
LEMMA OnceReceiverIdle ==
    ASSUME TypeInv, OnceInv,
           \/ ReceiverStart \/ PollIdle \/ PollEof \/ ReadMessage \/ ReadError
           \/ RecvmsgErr \/ RecvmsgStuck \/ MatchToss \/ TimeoutDone
    PROVE  OnceInv'
<1>1. /\ UNCHANGED <<kiovars, queues, sender, rkio, cpc>> /\ server' \subseteq server
      /\ rpc # "comp" /\ rpc' # "comp"
      /\ rmsg' = rmsg \/ rmsg' = NoMsg
    BY DEF ReceiverStart, PollIdle, PollEof, ReadMessage, ReadError, RecvmsgErr,
           RecvmsgStuck, HangUp, MatchToss, AfterMessage, Again, TimeoutDone,
           ReceiverUnchanged
<1>2. rpc' = "match" => rmsg' = rmsg /\ rmsg # NoMsg
    BY DEF ReceiverStart, PollIdle, PollEof, ReadMessage, ReadError, RecvmsgErr,
           RecvmsgStuck, MatchToss, AfterMessage, Again, TimeoutDone
<1>3. rpc' = "match" => rmsg'.aseq # 0
    BY <1>2 DEF OnceInv, OnceNumbers
<1> QED
    BY <1>1, <1>3, OnceStays DEF sender

LEMMA OnceInit == Init => OnceInv
<1> SUFFICES ASSUME Init PROVE OnceInv
    OBVIOUS
<1>1. /\ sendq = <<>> /\ recvq = <<>> /\ compq = <<>>
      /\ spc = "top" /\ skio = NoKio /\ rpc = "init" /\ rkio = NoKio /\ rmsg = NoMsg
      /\ kts_sequence = 100 /\ server = {}
      /\ \A k \in Kio : cpc[k] = "idle" /\ k # NoKio /\ k \in AnyKio
      /\ NoKio \notin AnyKio /\ NoKio \notin Kio
    BY KtliAssumption DEF Init, FirstSeq, AnyKio
<1>2. \A k : ~Queued(k) /\ ~Contains(sendq, k) /\ ~Contains(recvq, k) /\ ~Contains(compq, k)
    BY <1>1 DEF Contains, Queued
<1>3. rmsg.aseq = 0 /\ NoDup(<<>>)
    BY <1>1 DEF NoMsg, NoDup
<1>4. OnceLists /\ OnceFresh /\ OnceThreads
    BY <1>1, <1>2, <1>3 DEF OnceLists, OnceFresh, OnceThreads, Busy
<1>5. OnceHands /\ OnceUnsent /\ OnceTimely
    BY <1>1, <1>2 DEF OnceHands, OnceUnsent, OnceTimely, SenderHolds, Unsent
<1>6. OnceNumbers /\ OnceResponses
    BY <1>1, <1>2, <1>3
    DEF OnceNumbers, OnceResponses, SenderHolds, Unsent
<1> QED
    BY <1>4, <1>5, <1>6 DEF OnceInv

LEMMA OnceStep ==
    ASSUME Orderly, TypeInv, OnceInv, [Next]_vars
    PROVE  OnceInv'
<1>1. CASE Client
    BY <1>1, OnceSendCheck, OnceSendEnqueue, OnceReceive, OnceDrainOff, OnceClient
    DEF Client
<1>2. CASE Sender \/ SenderSpurious
    BY <1>2, OnceSenderIdle, OnceSenderPop, OnceSenderNumber, OnceSenderDriver,
       OnceSenderSent, OnceSenderFailed, OnceSenderComplete DEF Sender
<1>3. CASE Receiver
    <2>1. ~MatchGarbled /\ ~MatchGarbledEmpty
        BY DEF MatchGarbled, MatchGarbledEmpty, OnceInv, OnceNumbers
    <2> QED
        BY <1>3, <2>1, OnceReceiverIdle, OncePoll, OnceMatchFound, OnceMatchUnsolicited,
           OnceRecvComplete, OnceTimeoutOne DEF Receiver
<1>4. CASE World
    <2>1. ASSUME PeerGone("fin") \/ PeerGone("rst") PROVE OnceInv'
        <3>1. rpc = "match" => rmsg.aseq # 0
            BY DEF OnceInv, OnceNumbers
        <3> QED
            BY <2>1, <3>1, OnceStays DEF PeerGone, sender, receiver
    <2> QED
        BY <1>4, <2>1, OnceExpire DEF World
<1>5. CASE UNCHANGED vars
    <2>1. rpc = "match" => rmsg.aseq # 0
        BY DEF OnceInv, OnceNumbers
    <2> QED
        BY <1>5, <2>1, OnceStays DEF vars, sender, receiver
<1> QED
    BY <1>1, <1>2, <1>3, <1>4, <1>5 DEF Next

\* Whatever clients and the peer do to an orderly session, the invariant holds.
LEMMA OnceAlways ==
    ASSUME Orderly
    PROVE  Spec => [](TypeInv /\ OnceInv)
<1>1. Init => TypeInv /\ OnceInv
    BY TypeInit, OnceInit
<1>2. TypeInv /\ OnceInv /\ [Next]_vars => TypeInv' /\ OnceInv'
    BY TypeStep, OnceStep
<1> QED
    BY <1>1, <1>2, PTL DEF Spec

-----------------------------------------------------------------------------
(* The theorems.                                                           *)

\* A kio is on one queue at most when the lists have no duplicates and its back
\* pointer, which names one queue, is right for the queue it is on.
LEMMA OneQueueHolds ==
    ASSUME TypeOK, NoDup(sendq), NoDup(recvq), NoDup(compq),
           \A k \in AnyKio : /\ Contains(sendq, k) => kio_qbp[k] = "sendq"
                             /\ Contains(recvq, k) => kio_qbp[k] = "recvq"
                             /\ Contains(compq, k) => kio_qbp[k] = "compq"
    PROVE  OneQueue
<1> SUFFICES ASSUME NEW k \in AnyKio
             PROVE  Occurrences(sendq, k) + Occurrences(recvq, k)
                    + Occurrences(compq, k) <= 1
    BY DEF OneQueue
<1>1. sendq \in Seq(Kio) /\ recvq \in Seq(Kio) /\ compq \in Seq(AnyKio)
    BY DEF TypeOK
<1>2. /\ Occurrences(sendq, k) = IF Contains(sendq, k) THEN 1 ELSE 0
      /\ Occurrences(recvq, k) = IF Contains(recvq, k) THEN 1 ELSE 0
      /\ Occurrences(compq, k) = IF Contains(compq, k) THEN 1 ELSE 0
    BY <1>1, OccursOnce
<1>3. PICK a, b, c \in {0, 1} :
          /\ a = Occurrences(sendq, k) /\ b = Occurrences(recvq, k)
          /\ c = Occurrences(compq, k)
          /\ ~(a = 1 /\ b = 1) /\ ~(a = 1 /\ c = 1) /\ ~(b = 1 /\ c = 1)
    BY <1>2
<1>4. a + b + c <= 1
    BY <1>3
<1> QED
    BY <1>3, <1>4

\* No kio is on two queues or twice on one, whatever disconnects, drains, resets,
\* failed sends, timeouts, late responses and ktli_close do to it while the sender
\* has it: no client can free it twice.  For any number of kios, requests and
\* connections; in a connected session also with kios that are reused at once, as
\* long as none of them carries a one-way request.
THEOREM OneQueueKept ==
    ASSUME Calm \/ Orderly
    PROVE  Spec => []OneQueue
<1>1. CASE Calm
    <2>1. TypeInv /\ CalmInv => OneQueue
        BY OneQueueHolds DEF TypeInv, CalmInv, CalmLists, BackPointers
    <2> QED
        BY <1>1, <2>1, CalmAlways, PTL
<1>2. CASE Orderly
    <2>1. TypeInv /\ OnceInv => OneQueue
        BY OneQueueHolds DEF TypeInv, OnceInv, OnceLists
    <2> QED
        BY <1>2, <2>1, OnceAlways, PTL
<1> QED
    BY <1>1, <1>2

\* A completed kio carries the response to its own request or none, also after a
\* disconnect, a failed send or a reconnection over which late responses arrive.
THEOREM ResponsesMatchThroughout ==
    ASSUME Orderly
    PROVE  Spec => []ResponseMatches
<1>1. TypeInv /\ OnceInv => ResponseMatches
    BY DEF OnceInv, OnceResponses, ResponseMatches
<1> QED
    BY <1>1, OnceAlways, PTL

\* No step touches the outcome of a kio that stays on compq.
LEMMA OnceStable ==
    ASSUME Orderly, TypeInv, OnceInv, OnceInv', [Next]_vars,
           NEW k \in Kio, Contains(compq, k), Contains(compq', k)
    PROVE  kio_state'[k] = kio_state[k] /\ kio_recvmsg'[k] = kio_recvmsg[k]
<1>0. /\ k \in AnyKio /\ kio_qbp[k] = "compq" /\ kio_qbp'[k] = "compq"
      /\ kio_state[k] \in Completed /\ ~SenderHolds(k) /\ rkio # k
      /\ cpc[k] \notin {"idle", "sending"} /\ k \notin Unsol
      /\ ~Contains(recvq, k)
    BY KtliAssumption
    DEF OnceInv, OnceLists, OnceResponses, OnceHands, OnceFresh, Queued, AnyKio
<1> USE DEF TypeInv, TypeOK, kiovars, queues, sender, receiver, history, session
<1>1. ASSUME NEW j \in Kio, SendCheck(j) \/ SendEnqueue(j)
      PROVE  kio_state'[k] = kio_state[k] /\ kio_recvmsg'[k] = kio_recvmsg[k]
    BY <1>0, <1>1 DEF SendCheck, SendEnqueue, AnyKio
<1>2. CASE DrainFront \/ DrainMatch
    <2>1. /\ kio_recvmsg' = kio_recvmsg
          /\ \/ \E h : DrainOff(h)
             \/ kio_state' = kio_state
        BY <1>2 DEF DrainFront, DrainMatch, DrainUnchanged
    <2>2. ASSUME NEW h, DrainOff(h) PROVE kio_state'[k] = kio_state[k]
        <3>1. h # k
            BY <1>0, <2>2 DEF DrainOff
        <3> QED
            BY <1>0, <2>2, <3>1 DEF DrainOff
    <2> QED
        BY <2>1, <2>2
<1>3. CASE SenderSent \/ SenderFailed
    BY <1>0, <1>3 DEF SenderSent, SenderFailed, MarkSent, Completed
<1>4. CASE SenderComplete
    <2>1. skio # k
        BY <1>0, <1>4 DEF SenderComplete, SenderHolds, OnceInv, OnceThreads
    <2> QED
        BY <1>0, <2>1, <1>4 DEF SenderComplete
<1>5. CASE MatchUnsolicited
    BY <1>0, <1>5 DEF MatchUnsolicited
<1>6. CASE RecvComplete
    BY <1>0, <1>6 DEF RecvComplete
<1>7. CASE TimeoutOne
    <2>1. \A i \in DOMAIN recvq : recvq[i] # k
        BY <1>0, LenProperties DEF Contains
    <2> QED
        BY <1>0, <2>1, <1>7 DEF TimeoutOne
<1>8. CASE UNCHANGED <<kio_state, kio_recvmsg>>
    BY <1>8
<1>9. \/ \E j \in Kio : SendCheck(j) \/ SendEnqueue(j)
      \/ DrainFront \/ DrainMatch
      \/ SenderSent \/ SenderFailed \/ SenderComplete
      \/ MatchUnsolicited \/ RecvComplete \/ TimeoutOne
      \/ UNCHANGED <<kio_state, kio_recvmsg>>
    <2> HIDE DEF TypeInv, TypeOK
    <2>1. CASE Client
        BY <2>1
        DEF Client, Receive, ReceiveUnsolicited, DrainCall, DrainSkip, DrainReturn,
            DrainUnchanged, Connect, Disconnect, DisconnectEnd, CloseStart,
            CloseSendq, CloseFinish
    <2>2. CASE Sender \/ SenderSpurious
        BY <2>2
        DEF Sender, SenderSpurious, SenderTop, SenderWoken, SenderLoop,
            SenderPop, SenderNumber, SenderArm, SenderDriver
    <2>3. CASE Receiver
        BY <2>3
        DEF Receiver, ReceiverStart, PollIdle, PollResponse, PollUnsolicited,
            PollEof, ReadMessage, ReadError, RecvmsgErr, RecvmsgStuck, MatchToss,
            MatchFound, MatchGarbled, MatchGarbledEmpty, TakeFromRecvq, TimeoutDone
    <2>4. CASE World
        BY <2>4 DEF World, Expire, PeerGone
    <2>5. CASE UNCHANGED vars
        BY <2>5 DEF vars
    <2> QED
        BY <2>1, <2>2, <2>3, <2>4, <2>5 DEF Next
<1> QED
    BY <1>1, <1>2, <1>3, <1>4, <1>5, <1>6, <1>7, <1>8, <1>9

\* The outcome a client reads from a completed kio is final, also when the session
\* is being disconnected and drained and sends fail.
THEOREM CompletionsStableThroughout ==
    ASSUME Orderly
    PROVE  Spec => CompletionStable
<1>1. TypeInv /\ OnceInv /\ OnceInv' /\ [Next]_vars => [OutcomesKept]_vars
    BY OnceStable DEF OutcomesKept
<1> QED
    BY <1>1, OnceAlways, PTL DEF Spec, CompletionStable

(***************************************************************************)
(* A session whose connection holds but whose sender may be held up for as *)
(* long as a timeout while it sends, and whose responses may be impossible *)
(* to unpack (the perturbed run): a request can complete, and go back to   *)
(* its client, while the sender still has to send it.                      *)
(***************************************************************************)

Held == Env \subseteq {"clock", "stall", "garbled"}

\* The threads keep out of the error paths of a broken connection; the receiver
\* dies when there is no request for a response it cannot unpack.
HeldThreads ==
    /\ spc \notin {"fail", "compF", "done", "crash"}
    /\ spc \in Busy <=> skio # NoKio
    /\ spc = "pop" => sendq # <<>>
    /\ spc = "compR" => skio \in kio_reqonly
    /\ rpc \notin {"abort", "hangup", "dead", "done"}
    /\ rpc = "comp" <=> rkio # NoKio

\* A message in hand is the response to the kio in hand, or nobody can unpack
\* it.
HeldMessages ==
    /\ rmsg.aseq > 0 => rmsg.req = rmsg.aseq
    /\ rmsg.aseq = 0 => rmsg = NoMsg \/ rmsg.req = Junk
    /\ rpc = "match" => rmsg # NoMsg
    /\ rpc = "comp" /\ rkio \in Kio => rmsg.req \in {kio_seq[rkio], Junk}

\* What hangs on a kio.
HeldResponses ==
    \A k \in Kio :
        /\ cpc[k] = "sending" \/ (cpc[k] = "out" /\ kio_qbp[k] # "compq")
              => kio_recvmsg[k] = 0
        /\ kio_qbp[k] = "compq" =>
              kio_recvmsg[k] \in IF kio_state[k] = "RECEIVED" /\ k \notin kio_reqonly
                                 THEN {kio_seq[k], Junk} ELSE {0}

\* CalmInv without what it says of the request the sender is sending: that one
\* may be on any queue, in the receiver's hand or with its client again.
HeldInv ==
    /\ CalmSession /\ HeldThreads /\ CalmLists /\ CalmCustody
    /\ HeldMessages /\ HeldResponses

\* Steps that move no kio keep who has it and what hangs on it.
LEMMA HeldQuiet ==
    ASSUME HeldInv,
           UNCHANGED <<kio_state, kio_seq, kio_qbp, kio_recvmsg, kio_reqonly,
                       queues, skio, rkio, cpc>>,
           spc' = "hand" <=> spc = "hand", spc' # "compF",
           CalmSession', HeldThreads', HeldMessages'
    PROVE  HeldInv'
<1> USE DEF HeldInv, queues
<1>1. CalmLists'
    BY DEF CalmLists, BackPointers
<1>2. \A k \in Kio : SenderHolds(k)' <=> SenderHolds(k)
    BY DEF SenderHolds, HeldThreads
<1>3. CalmCustody'
    BY <1>2 DEF CalmCustody
<1>4. HeldResponses'
    BY DEF HeldResponses
<1> QED
    BY <1>1, <1>3, <1>4

\* ktli_connect starts with nothing under way.
LEMMA HeldConnect ==
    ASSUME TypeInv, HeldInv, Connect
    PROVE  HeldInv'
<1> USE DEF HeldInv, Connect, kiovars, queues, sender
<1>0. rpc = "init" /\ rmsg' = rmsg
    BY DEF CalmSession
<1>1. CalmSession'
    BY <1>0 DEF CalmSession
<1>2. HeldThreads' /\ HeldMessages' /\ spc # "compF"
    BY <1>0 DEF HeldThreads, HeldMessages
<1> QED
    BY <1>1, <1>2, HeldQuiet

\* The sender waits, looks at sendq, sets the timeout and calls the driver.
LEMMA HeldSenderQuiet ==
    ASSUME TypeInv, HeldInv,
           \/ SenderTop \/ SenderSpurious \/ SenderWoken \/ SenderLoop
           \/ SenderArm \/ SenderDriver
    PROVE  HeldInv'
<1> USE DEF HeldInv, SenderTop, SenderSpurious, SenderWoken, SenderLoop,
            SenderArm, SenderDriver, SenderUnchanged, SqExit, kiovars, queues,
            receiver, session
<1>0. xpc = "none" /\ (spc \in Busy => conn = "up")
    BY DEF CalmSession, Busy
<1>1. CalmSession'
    BY <1>0 DEF CalmSession, Busy
<1>2. HeldThreads'
    BY <1>0 DEF HeldThreads, Busy
<1>3. HeldMessages'
    BY DEF HeldMessages
<1>4. (spc' = "hand" <=> spc = "hand") /\ spc' # "compF"
    BY <1>0 DEF HeldThreads, Busy
<1> QED
    BY <1>1, <1>2, <1>3, <1>4, HeldQuiet

\* The receiver starts, polls, reads, tosses a late response, finds nothing to
\* time out, or dies.
LEMMA HeldReceiverQuiet ==
    ASSUME TypeInv, HeldInv,
           \/ ReceiverStart \/ PollIdle \/ (\E s \in server : PollResponse(s))
           \/ PollUnsolicited \/ ReadMessage \/ MatchToss \/ MatchGarbledEmpty
           \/ TimeoutDone
    PROVE  HeldInv'
<1> USE DEF HeldInv, ReceiverStart, PollIdle, PollResponse, PollUnsolicited,
            Polling, ReadMessage, MatchToss, MatchGarbledEmpty, TimeoutDone,
            AfterMessage, Again, RqExit, ReceiverUnchanged, kiovars, queues,
            sender
<1>0. xpc = "none"
    BY DEF CalmSession
<1>1. CalmSession'
    BY <1>0 DEF CalmSession
<1>2. HeldThreads'
    BY <1>0 DEF HeldThreads
<1>3. HeldMessages'
    <2>1. rpc' # "comp"
        BY <1>0
    <2>2. CASE \E s \in server : PollResponse(s)
        BY <2>1, <2>2 DEF HeldMessages, TypeInv, TypeOK, NoMsg, Junk
    <2>3. CASE rmsg' \in {rmsg, NoMsg} /\ (rpc' = "match" => rmsg' # NoMsg)
        BY <2>1, <2>3 DEF HeldMessages, NoMsg
    <2>4. CASE PollUnsolicited
        BY <2>1, <2>4 DEF HeldMessages
    <2> QED
        BY <1>0, <2>2, <2>3, <2>4
<1>4. (spc' = "hand" <=> spc = "hand") /\ spc' # "compF"
    BY DEF HeldThreads
<1> QED
    BY <1>1, <1>2, <1>3, <1>4, HeldQuiet

\* Time passes.
LEMMA HeldExpire ==
    ASSUME HeldInv, NEW k \in Kio, Expire(k)
    PROVE  HeldInv'
<1> USE DEF HeldInv, Expire, queues, sender, receiver, session
<1>1. CalmSession' /\ HeldThreads' /\ HeldMessages' /\ spc # "compF"
    BY DEF CalmSession, HeldThreads, HeldMessages
<1> QED
    BY <1>1, HeldQuiet

\* ktli_send finds the session connected.
LEMMA HeldSendCheck ==
    ASSUME Held, TypeInv, HeldInv, NEW k \in Kio, SendCheck(k)
    PROVE  HeldInv'
<1> USE DEF HeldInv, TypeInv, TypeOK, AnyKio, SendCheck, kiovars, queues,
            sender, receiver, history, session
<1>0. kio_reqonly' = kio_reqonly
    BY FlagsKept DEF Held
<1>1. CalmSession'
    BY <1>0 DEF CalmSession
<1>2. HeldThreads'
    BY <1>0 DEF HeldThreads, Busy
<1>3. CalmLists'
    BY DEF CalmLists, BackPointers, CalmCustody
<1>4. CalmCustody'
    BY SMTT(60), <1>0 DEF CalmCustody, HeldThreads, SenderHolds, Completed, Busy
<1>6. HeldMessages'
    BY DEF HeldMessages, CalmCustody
<1>7. HeldResponses'
    BY <1>0 DEF HeldResponses, CalmCustody, SenderHolds
<1> QED
    BY <1>1, <1>2, <1>3, <1>4, <1>6, <1>7

\* ktli_send queues the request.
LEMMA HeldSendEnqueue ==
    ASSUME TypeInv, HeldInv, NEW k \in Kio, SendEnqueue(k)
    PROVE  HeldInv'
<1> USE DEF HeldInv, TypeInv, TypeOK, AnyKio, SendEnqueue, kiovars, queues,
            sender, receiver, history, session
<1>0. /\ ~Contains(sendq, k) /\ NoDup(sendq')
      /\ \A y : Contains(sendq', y) <=> Contains(sendq, y) \/ y = k
      /\ sendq' # <<>>
    <2>1. ~Contains(sendq, k)
        BY DEF CalmCustody, CalmLists, BackPointers
    <2>2. sendq' = Append(sendq, k) /\ sendq \in Seq(Kio) /\ NoDup(sendq)
        BY DEF CalmLists
    <2> HIDE DEF HeldInv, TypeInv, SendEnqueue
    <2>3. sendq' # <<>>
        BY <2>2, AppendProperties
    <2> QED
        BY <2>1, <2>2, <2>3, AppendList
<1>1. CalmSession'
    BY <1>0 DEF CalmSession
<1>2. HeldThreads'
    BY <1>0 DEF HeldThreads, Busy
<1>3. CalmLists'
    BY <1>0 DEF CalmLists, BackPointers, CalmCustody
<1>4. CalmCustody'
    BY ZenonT(60), <1>0 DEF CalmCustody, HeldThreads, SenderHolds, Completed, Busy
<1>6. HeldMessages'
    BY <1>0 DEF HeldMessages, CalmCustody
<1>7. HeldResponses'
    BY <1>0 DEF HeldResponses, CalmCustody, SenderHolds
<1> QED
    BY <1>1, <1>2, <1>3, <1>4, <1>6, <1>7

\* ktli_receive finds every completed kio on compq.
LEMMA HeldReceive ==
    ASSUME TypeInv, HeldInv, NEW k \in Kio, Receive(k)
    PROVE  HeldInv'
<1> USE DEF HeldInv, TypeInv, TypeOK, AnyKio, Receive, Retired, kiovars,
            queues, sender, receiver, history, session
<1>0. /\ compq' = Dequeue(compq, k) /\ cpc' = [cpc EXCEPT ![k] = Retired]
      /\ kio_qbp[k] = "compq" /\ kio_qbp' = [kio_qbp EXCEPT ![k] = "null"]
      /\ NoDup(compq')
      /\ \A y : Contains(compq', y) <=> Contains(compq, y) /\ y # k
    <2>1. kio_qbp[k] = "compq"
        BY DEF CalmCustody
    <2>2. compq' = Dequeue(compq, k) /\ Contains(compq, k) /\ NoDup(compq)
        BY <2>1 DEF CalmLists, BackPointers
    <2> QED
        BY <2>1, <2>2, DequeueList
<1>1. CalmSession'
    BY <1>0 DEF CalmSession
<1>2. HeldThreads'
    BY <1>0 DEF HeldThreads, Busy
<1>3. CalmLists'
    BY <1>0 DEF CalmLists, BackPointers, CalmCustody
<1>4. CalmCustody'
    BY SMTT(60), <1>0 DEF CalmCustody, HeldThreads, SenderHolds, Completed, Busy
<1>6. HeldMessages'
    BY <1>0 DEF HeldMessages, CalmCustody
<1>7. HeldResponses'
    BY <1>0 DEF HeldResponses, CalmCustody, SenderHolds
<1> QED
    BY <1>1, <1>2, <1>3, <1>4, <1>6, <1>7

\* ktli_receive_unsolicited takes no request.
LEMMA HeldReceiveUnsolicited ==
    ASSUME TypeInv, HeldInv, ReceiveUnsolicited
    PROVE  HeldInv'
<1> USE DEF HeldInv, TypeInv, TypeOK, AnyKio, ReceiveUnsolicited, kiovars,
            queues, sender, receiver, history, session
<1>0. PICK u \in Unsol :
          /\ u \notin Kio /\ Contains(compq, u)
          /\ kio_qbp' = [kio_qbp EXCEPT ![u] = "null"]
          /\ NoDup(compq')
          /\ \A y : Contains(compq', y) <=> Contains(compq, y) /\ y # u
    <2>1. PICK i \in DOMAIN compq :
              /\ compq[i] \in Unsol
              /\ compq' = RemoveAt(compq, i)
              /\ kio_qbp' = [kio_qbp EXCEPT ![compq[i]] = "null"]
        OBVIOUS
    <2>2. i \in 1 .. Len(compq) /\ NoDup(compq) /\ Contains(compq, compq[i])
        BY SMTT(60), LenProperties DEF CalmLists, Contains
    <2>3. /\ NoDup(compq')
          /\ \A y : Contains(compq', y) <=> Contains(compq, y) /\ y # compq[i]
        BY <2>1, <2>2, RemoveList
    <2> QED
        BY <2>1, <2>2, <2>3, KtliAssumption
<1>1. CalmSession'
    BY <1>0 DEF CalmSession
<1>2. HeldThreads'
    BY <1>0 DEF HeldThreads, Busy
<1>3. CalmLists'
    BY <1>0 DEF CalmLists, BackPointers, CalmCustody
<1>4. CalmCustody'
    BY ZenonT(60), <1>0 DEF CalmCustody, HeldThreads, SenderHolds, Completed, Busy
<1>6. HeldMessages'
    BY <1>0 DEF HeldMessages, CalmCustody
<1>7. HeldResponses'
    BY ZenonT(60), <1>0 DEF HeldResponses, CalmCustody, SenderHolds
<1> QED
    BY <1>1, <1>2, <1>3, <1>4, <1>6, <1>7

\* The sender takes the front of sendq.
LEMMA HeldSenderPop ==
    ASSUME TypeInv, HeldInv, SenderPop
    PROVE  HeldInv'
<1> USE DEF HeldInv, TypeInv, TypeOK, AnyKio, SenderPop, SenderUnchanged,
            kiovars, queues, sender, receiver, history, session
<1>0. PICK k \in Kio :
          /\ spc' = "hand" /\ skio' = k /\ kio_qbp[k] = "sendq"
          /\ kio_qbp' = [kio_qbp EXCEPT ![k] = "null"]
          /\ NoDup(sendq')
          /\ \A y : Contains(sendq', y) <=> Contains(sendq, y) /\ y # k
    <2>1. sendq # <<>> /\ NoDup(sendq)
        BY DEF HeldThreads, CalmLists
    <2>2. Head(sendq) \in Kio /\ sendq' = Tail(sendq)
        BY <2>1, TailType
    <2>3. /\ Contains(sendq, Head(sendq)) /\ NoDup(sendq')
          /\ \A y : Contains(sendq', y) <=> Contains(sendq, y) /\ y # Head(sendq)
        BY <2>1, <2>2, TailList
    <2>4. kio_qbp[Head(sendq)] = "sendq"
        BY <2>2, <2>3 DEF CalmLists, BackPointers
    <2> QED
        BY <2>1, <2>2, <2>3, <2>4
<1>1. CalmSession'
    BY <1>0, KtliAssumption DEF CalmSession
<1>2. HeldThreads'
    BY <1>0, KtliAssumption DEF HeldThreads, Busy
<1>3. CalmLists'
    BY <1>0, KtliAssumption DEF CalmLists, BackPointers, CalmCustody
<1>4. CalmCustody'
    BY SMTT(60), <1>0, KtliAssumption
    DEF CalmCustody, HeldThreads, SenderHolds, Completed, Busy
<1>6. HeldMessages'
    BY <1>0, KtliAssumption DEF HeldMessages, CalmCustody
<1>7. HeldResponses'
    BY <1>0, KtliAssumption DEF HeldResponses, CalmCustody, SenderHolds
<1> QED
    BY <1>1, <1>2, <1>3, <1>4, <1>6, <1>7

\* The sender numbers a request and queues it for its response.
LEMMA HeldSenderNumber ==
    ASSUME TypeInv, HeldInv, SenderNumber
    PROVE  HeldInv'
<1> USE DEF HeldInv, TypeInv, TypeOK, AnyKio, SenderNumber, SenderUnchanged,
            kiovars, queues, sender, receiver, history, session
<1>0. /\ skio \in Kio /\ SenderHolds(skio)
      /\ cpc[skio] = "out" /\ kio_qbp[skio] = "null" /\ rkio # skio
    BY DEF HandsOK, Busy, SenderHolds, CalmCustody
<1>a. ASSUME skio \notin kio_reqonly
      PROVE  /\ NoDup(recvq')
             /\ \A y : Contains(recvq', y) <=> Contains(recvq, y) \/ y = skio
    <2>1. ~Contains(recvq, skio) /\ NoDup(recvq) /\ recvq' = Append(recvq, skio)
        BY <1>0, <1>a DEF CalmLists, BackPointers
    <2> QED
        BY <1>0, <2>1, AppendList
<1>1. CalmSession'
    BY <1>0, <1>a DEF CalmSession
<1>2. HeldThreads'
    BY <1>0, <1>a DEF HeldThreads, Busy
<1>3. CalmLists'
    BY <1>0, <1>a DEF CalmLists, BackPointers, CalmCustody
<1>4. CalmCustody'
    BY <1>0, <1>a DEF CalmCustody, HeldThreads, SenderHolds, Completed, Busy
<1>6. HeldMessages'
    BY SMTT(60), <1>0, <1>a, MessageType DEF HeldMessages, CalmCustody
<1>7. HeldResponses'
    BY <1>0, <1>a DEF HeldResponses, CalmCustody, SenderHolds
<1> QED
    BY <1>1, <1>2, <1>3, <1>4, <1>6, <1>7

\* The sender marks the request sent, if nothing has become of it yet.
LEMMA HeldSenderSent ==
    ASSUME TypeInv, HeldInv, SenderSent
    PROVE  HeldInv'
<1> USE DEF HeldInv, TypeInv, TypeOK, AnyKio, SenderSent, MarkSent,
            SenderUnchanged, kiovars, queues, sender, receiver, history,
            session
<1>0. skio \in Kio
    BY DEF HandsOK, Busy
<1>1. CalmSession'
    BY <1>0, KtliAssumption DEF CalmSession
<1>2. HeldThreads'
    BY <1>0, KtliAssumption DEF HeldThreads, Busy
<1>3. CalmLists'
    BY <1>0, KtliAssumption DEF CalmLists, BackPointers, CalmCustody
<1>4. CalmCustody'
    BY <1>0, KtliAssumption
    DEF CalmCustody, HeldThreads, SenderHolds, Completed, Busy
<1>6. HeldMessages'
    BY <1>0, KtliAssumption DEF HeldMessages, CalmCustody
<1>7. HeldResponses'
    BY <1>0, KtliAssumption DEF HeldResponses, CalmCustody, SenderHolds
<1> QED
    BY <1>1, <1>2, <1>3, <1>4, <1>6, <1>7

\* The sender completes a request that has no response.
LEMMA HeldSenderComplete ==
    ASSUME TypeInv, HeldInv, SenderComplete
    PROVE  HeldInv'
<1> USE DEF HeldInv, TypeInv, TypeOK, AnyKio, SenderComplete, SenderUnchanged,
            kiovars, queues, sender, receiver, history, session
<1>0. /\ spc = "compR" /\ skio \in kio_reqonly /\ skio \in Kio
      /\ cpc[skio] = "out" /\ kio_qbp[skio] = "null" /\ rkio # skio
    BY DEF HandsOK, Busy, HeldThreads, SenderHolds, CalmCustody
<1>a. /\ NoDup(compq')
      /\ \A y : Contains(compq', y) <=> Contains(compq, y) \/ y = skio
    <2>1. ~Contains(compq, skio) /\ NoDup(compq) /\ compq' = Append(compq, skio)
        BY <1>0 DEF CalmLists, BackPointers
    <2> QED
        BY <1>0, <2>1, AppendList
<1>1. CalmSession'
    BY <1>0, KtliAssumption, <1>a DEF CalmSession
<1>2. HeldThreads'
    BY <1>0, KtliAssumption, <1>a DEF HeldThreads, Busy
<1>3. CalmLists'
    BY <1>0, KtliAssumption, <1>a DEF CalmLists, BackPointers, CalmCustody
<1>4. CalmCustody'
    BY <1>0, KtliAssumption, <1>a
    DEF CalmCustody, HeldThreads, SenderHolds, Completed, Busy
<1>6. HeldMessages'
    BY <1>0, KtliAssumption, <1>a DEF HeldMessages, CalmCustody
<1>7. HeldResponses'
    BY <1>0, KtliAssumption, <1>a DEF HeldResponses, CalmCustody, SenderHolds
<1> QED
    BY <1>1, <1>2, <1>3, <1>4, <1>6, <1>7

\* A response takes the request it answers off recvq, one that cannot be unpacked
\* takes the rear, be it one that the sender is still about to send.
LEMMA HeldMatchFound ==
    ASSUME TypeInv, HeldInv, MatchFound \/ MatchGarbled
    PROVE  HeldInv'
<1> USE DEF HeldInv, TypeInv, TypeOK, AnyKio, TakeFromRecvq, ReceiverUnchanged,
            kiovars, queues, sender, receiver, history, session
<1>r. PICK i \in DOMAIN recvq :
          /\ rpc = "match" /\ TakeFromRecvq(i)
          /\ \/ rmsg.aseq > 0 /\ kio_seq[recvq[i]] = rmsg.aseq
             \/ rmsg.aseq = 0
    <2>1. CASE MatchFound
        BY <2>1 DEF MatchFound
    <2>2. CASE MatchGarbled
        <3>1. Len(recvq) \in DOMAIN recvq
            BY <2>2, EmptySeq, LenProperties DEF MatchGarbled
        <3> QED
            BY <2>2, <3>1 DEF MatchGarbled
    <2> QED
        BY <2>1, <2>2
<1>0. PICK k \in Kio :
          /\ kio_qbp[k] = "recvq" /\ rmsg.req \in {kio_seq[k], Junk}
          /\ rkio' = k /\ rpc' = "comp"
          /\ kio_qbp' = [kio_qbp EXCEPT ![k] = "null"]
          /\ NoDup(recvq')
          /\ \A y : Contains(recvq', y) <=> Contains(recvq, y) /\ y # k
    <2>2. recvq \in Seq(Kio) /\ NoDup(recvq) /\ recvq' = RemoveAt(recvq, i)
        BY <1>r DEF CalmLists
    <2>3. /\ recvq[i] \in Kio /\ Contains(recvq, recvq[i])
          /\ NoDup(recvq')
          /\ \A y : Contains(recvq', y) <=> Contains(recvq, y) /\ y # recvq[i]
        BY <2>2, RemoveIndex
    <2>4. kio_qbp[recvq[i]] = "recvq"
        BY <2>3 DEF CalmLists, BackPointers
    <2>5. rmsg.req \in {kio_seq[recvq[i]], Junk}
        BY <1>r DEF HeldMessages
    <2> QED
        BY <1>r, <2>3, <2>4, <2>5
<1>a. cpc[k] = "out" /\ k \notin kio_reqonly /\ ~SenderHolds(k)
    BY <1>0 DEF CalmCustody
<1>b. /\ rpc = "match"
      /\ UNCHANGED <<sendq, compq, kio_state, kio_seq, kio_timeout,
                     kio_recvmsg, kio_reqonly, rmsg, kts_state, conn, server,
                     sender, history, cpc, drain, xpc>>
    BY <1>r
<1> HIDE DEF TakeFromRecvq
<1>1. CalmSession'
    BY <1>0, <1>a, <1>b, KtliAssumption DEF CalmSession
<1>2. HeldThreads'
    BY <1>0, <1>a, <1>b, KtliAssumption DEF HeldThreads, Busy
<1>3. CalmLists'
    BY <1>0, <1>a, <1>b, KtliAssumption
    DEF CalmLists, BackPointers, CalmCustody
<1>4. CalmCustody'
    BY SMTT(60), <1>0, <1>a, <1>b, KtliAssumption
    DEF CalmCustody, HeldThreads, SenderHolds, Completed, Busy
<1>6. HeldMessages'
    BY <1>0, <1>a, <1>b, KtliAssumption DEF HeldMessages, CalmCustody
<1>7. HeldResponses'
    BY <1>0, <1>a, <1>b, KtliAssumption
    DEF HeldResponses, CalmCustody, SenderHolds, HeldMessages
<1> QED
    BY <1>1, <1>2, <1>3, <1>4, <1>6, <1>7

\* An unsolicited message gets a kio that is in no other use.
LEMMA HeldMatchUnsolicited ==
    ASSUME TypeInv, HeldInv, MatchUnsolicited
    PROVE  HeldInv'
<1> USE DEF HeldInv, TypeInv, TypeOK, AnyKio, MatchUnsolicited,
            ReceiverUnchanged, kiovars, queues, sender, receiver, history,
            session
<1>0. PICK u \in Unsol :
          /\ kio_qbp[u] = "null" /\ rkio' = u /\ u \notin Kio
          /\ kio_state' = [kio_state EXCEPT ![u] = "NEW"]
    BY KtliAssumption
<1>1. CalmSession'
    BY <1>0, KtliAssumption DEF CalmSession
<1>2. HeldThreads'
    BY <1>0, KtliAssumption DEF HeldThreads, Busy
<1>3. CalmLists'
    BY <1>0, KtliAssumption DEF CalmLists, BackPointers, CalmCustody
<1>4. CalmCustody'
    BY SMTT(60), <1>0, KtliAssumption
    DEF CalmCustody, HeldThreads, SenderHolds, Completed, Busy
<1>6. HeldMessages'
    BY <1>0, KtliAssumption DEF HeldMessages, CalmCustody
<1>7. HeldResponses'
    BY <1>0, KtliAssumption DEF HeldResponses, CalmCustody, SenderHolds
<1> QED
    BY <1>1, <1>2, <1>3, <1>4, <1>6, <1>7

\* The receiver completes a request with its response.
LEMMA HeldRecvComplete ==
    ASSUME TypeInv, HeldInv, RecvComplete
    PROVE  HeldInv'
<1> USE DEF HeldInv, TypeInv, TypeOK, AnyKio, RecvComplete, AfterMessage,
            Again, RqExit, NoMsg, ReceiverUnchanged, kiovars, queues, sender,
            receiver, history, session
<1>0. /\ xpc = "none" /\ rkio \in AnyKio /\ kio_qbp[rkio] = "null"
      /\ rmsg'.aseq = 0 /\ rmsg'.req = 0
      /\ rkio \in Kio => cpc[rkio] = "out" /\ ~SenderHolds(rkio)
    BY DEF CalmSession, HandsOK, CalmCustody
<1>a. /\ NoDup(compq')
      /\ \A y : Contains(compq', y) <=> Contains(compq, y) \/ y = rkio
    <2>1. ~Contains(compq, rkio) /\ NoDup(compq) /\ compq' = Append(compq, rkio)
        BY <1>0 DEF CalmLists, BackPointers
    <2> QED
        BY <1>0, <2>1, AppendList
<1>1. CalmSession'
    BY <1>0, <1>a, KtliAssumption DEF CalmSession
<1>2. HeldThreads'
    BY <1>0, <1>a, KtliAssumption DEF HeldThreads, Busy
<1>3. CalmLists'
    BY <1>0, <1>a, KtliAssumption DEF CalmLists, BackPointers, CalmCustody
<1>4. CalmCustody'
    BY SMTT(60), <1>0, <1>a, KtliAssumption
    DEF CalmCustody, HeldThreads, SenderHolds, Completed, Busy
<1>6. HeldMessages'
    BY <1>0, <1>a, KtliAssumption DEF HeldMessages, CalmCustody
<1>7. HeldResponses'
    BY <1>0, <1>a, KtliAssumption
    DEF HeldResponses, CalmCustody, SenderHolds, HeldMessages
<1> QED
    BY <1>1, <1>2, <1>3, <1>4, <1>6, <1>7

\* The timeout scan completes an overdue request, be it one that the
\* sender is still about to send.
LEMMA HeldTimeoutOne ==
    ASSUME TypeInv, HeldInv, TimeoutOne
    PROVE  HeldInv'
<1> USE DEF HeldInv, TypeInv, TypeOK, AnyKio, TimeoutOne,
            ReceiverUnchanged, kiovars, queues, sender, receiver, history,
            session
<1>0. PICK k \in Kio :
          /\ kio_qbp[k] = "recvq"
          /\ kio_qbp' = [kio_qbp EXCEPT ![k] = "compq"]
          /\ kio_state' = [kio_state EXCEPT ![k] = "TIMEDOUT"]
          /\ NoDup(recvq') /\ NoDup(compq')
          /\ \A y : Contains(recvq', y) <=> Contains(recvq, y) /\ y # k
          /\ \A y : Contains(compq', y) <=> Contains(compq, y) \/ y = k
    <2>1. PICK i \in DOMAIN recvq :
              /\ recvq' = RemoveAt(recvq, i)
              /\ compq' = Append(compq, recvq[i])
              /\ kio_qbp' = [kio_qbp EXCEPT ![recvq[i]] = "compq"]
              /\ kio_state' = [kio_state EXCEPT ![recvq[i]] = "TIMEDOUT"]
        OBVIOUS
    <2> HIDE DEF TimeoutOne
    <2>2. /\ recvq \in Seq(Kio) /\ NoDup(recvq)
          /\ compq \in Seq(AnyKio) /\ NoDup(compq)
        BY DEF CalmLists
    <2>3. /\ recvq[i] \in Kio /\ Contains(recvq, recvq[i])
          /\ NoDup(recvq')
          /\ \A y : Contains(recvq', y) <=> Contains(recvq, y) /\ y # recvq[i]
        BY <2>1, <2>2, RemoveIndex
    <2>4. kio_qbp[recvq[i]] = "recvq" /\ ~Contains(compq, recvq[i])
        BY <2>3 DEF CalmLists, BackPointers
    <2>5. /\ NoDup(compq')
          /\ \A y : Contains(compq', y) <=> Contains(compq, y) \/ y = recvq[i]
        BY <2>1, <2>2, <2>3, <2>4, AppendList
    <2> QED
        BY <2>1, <2>2, <2>3, <2>4, <2>5
<1>a. cpc[k] = "out" /\ k \notin kio_reqonly /\ ~SenderHolds(k) /\ rkio # k
    BY <1>0 DEF CalmCustody
<1>b. /\ rpc = "tmo"
      /\ UNCHANGED <<sendq, kio_seq, kio_timeout, kio_recvmsg, kio_reqonly,
                     receiver, kts_state, conn, server, sender, history, cpc,
                     drain, xpc>>
    OBVIOUS
<1> HIDE DEF TimeoutOne
<1>1. CalmSession'
    BY <1>0, <1>a, <1>b DEF CalmSession
<1>2. HeldThreads'
    BY <1>0, <1>a, <1>b DEF HeldThreads, Busy
<1>3. CalmLists'
    BY <1>0, <1>a, <1>b DEF CalmLists, BackPointers, CalmCustody
<1>4. CalmCustody'
    BY <1>0, <1>a, <1>b
    DEF CalmCustody, HeldThreads, SenderHolds, Completed, Busy
<1>6. HeldMessages'
    BY <1>0, <1>a, <1>b DEF HeldMessages, CalmCustody
<1>7. HeldResponses'
    BY <1>0, <1>a, <1>b DEF HeldResponses, CalmCustody, SenderHolds
<1> QED
    BY <1>1, <1>2, <1>3, <1>4, <1>6, <1>7

\* Steps that a session with a connection that holds does not take.
LEMMA HeldNever ==
    ASSUME Held, HeldInv
    PROVE  /\ \A k \in Kio \cup {NoKio} : ~DrainCall(k)
           /\ ~DrainFront /\ ~DrainSkip /\ ~DrainMatch /\ ~DrainReturn
           /\ ~Disconnect /\ ~DisconnectEnd
           /\ ~CloseStart /\ ~CloseSendq /\ ~CloseFinish
           /\ ~SenderFailed /\ ~PollEof /\ ~ReadError /\ ~RecvmsgErr /\ ~RecvmsgStuck
           /\ ~PeerGone("fin") /\ ~PeerGone("rst")
<1>1. /\ \A k \in Kio \cup {NoKio} : ~DrainCall(k)
      /\ ~DrainFront /\ ~DrainSkip /\ ~DrainMatch /\ ~DrainReturn
    <2>1. kts_state # "DRAINING" /\ drain.at = 0
        BY DEF HeldInv, CalmSession, NoDrain
    <2>2. drain.at \notin 1 .. 3 /\ drain.at # 4
        BY <2>1
    <2>3. \A k \in Kio \cup {NoKio} : ~DrainCall(k)
        BY <2>1 DEF DrainCall
    <2>4. ~DrainFront /\ ~DrainSkip
        BY <2>2 DEF DrainFront, DrainSkip
    <2>5. ~DrainMatch /\ ~DrainReturn
        BY <2>2 DEF DrainMatch, DrainReturn
    <2> QED
        BY <2>3, <2>4, <2>5
<1>2. /\ ~Disconnect /\ ~DisconnectEnd
      /\ ~CloseStart /\ ~CloseSendq /\ ~CloseFinish
      /\ ~SenderFailed /\ ~PollEof /\ ~ReadError /\ ~RecvmsgErr /\ ~RecvmsgStuck
      /\ ~PeerGone("fin") /\ ~PeerGone("rst")
    BY DEF Held, HeldInv, CalmSession, HeldThreads, Disconnect, DisconnectEnd,
           CloseStart, CloseSendq, CloseFinish, SenderFailed, PollEof, ReadError,
           RecvmsgErr, RecvmsgStuck, PeerGone
<1> QED
    BY <1>1, <1>2

\* The invariant holds of a session that has just been opened.
LEMMA HeldInit == Init => HeldInv
BY KtliAssumption
DEF Init, HeldInv, CalmSession, HeldThreads, Busy, CalmLists, NoDup,
    BackPointers, Contains, CalmCustody, SenderHolds, HeldMessages, NoMsg,
    HeldResponses, AnyKio

\* Every step keeps the invariant.
LEMMA HeldStep ==
    ASSUME Held, TypeInv, HeldInv, [Next]_vars
    PROVE  HeldInv'
<1>1. CASE Client
    BY <1>1, HeldSendCheck, HeldSendEnqueue, HeldReceive,
       HeldReceiveUnsolicited, HeldConnect, HeldNever DEF Client
<1>2. CASE Sender \/ SenderSpurious
    BY <1>2, HeldSenderQuiet, HeldSenderPop, HeldSenderNumber, HeldSenderSent,
       HeldSenderComplete, HeldNever DEF Sender
<1>3. CASE Receiver
    BY <1>3, HeldReceiverQuiet, HeldMatchFound, HeldMatchUnsolicited,
       HeldRecvComplete, HeldTimeoutOne, HeldNever DEF Receiver
<1>4. CASE World
    BY <1>4, HeldExpire, HeldNever DEF World
<1>5. CASE UNCHANGED vars
    <2> USE DEF vars, kiovars, queues, sender, receiver, session, HeldInv
    <2>1. CalmSession' /\ HeldThreads' /\ HeldMessages' /\ spc # "compF"
        BY <1>5 DEF CalmSession, HeldThreads, HeldMessages
    <2> QED
        BY <1>5, <2>1, HeldQuiet
<1> QED
    BY <1>1, <1>2, <1>3, <1>4, <1>5 DEF Next

\* The invariant holds throughout.
LEMMA HeldAlways ==
    ASSUME Held
    PROVE  Spec => [](TypeInv /\ HeldInv)
<1>1. Init => TypeInv /\ HeldInv
    BY TypeInit, HeldInit
<1>2. TypeInv /\ HeldInv /\ [Next]_vars => TypeInv' /\ HeldInv'
    BY TypeStep, HeldStep
<1> QED
    BY <1>1, <1>2, PTL DEF Spec

\* However long the sender is held up between queueing a request and sending
\* it, and whichever request a response that cannot be unpacked takes off
\* recvq: no kio is lost, and one that is back with its client is on no queue
\* and with no thread that would queue it, although the sender may still use it.
THEOREM CustodyHeld ==
    ASSUME Held
    PROVE  Spec => []Custody
<1>1. TypeInv /\ HeldInv => Custody
    <2> SUFFICES ASSUME TypeInv, HeldInv, NEW k \in Kio
                 PROVE  /\ cpc[k] = "out" => Queued(k) \/ SenderHolds(k) \/ rkio = k
                        /\ cpc[k] # "out" => ~Queued(k) /\ ~SenderHolds(k) /\ rkio # k
        BY DEF Custody
    <2>1. Queued(k) <=> kio_qbp[k] # "null"
        BY DEF TypeInv, TypeOK, HeldInv, CalmLists, BackPointers, Queued, Queues,
               AnyKio
    <2> QED
        BY <2>1 DEF HeldInv, CalmCustody
<1> QED
    BY <1>1, HeldAlways, PTL

\* In such a session kio_qbp names the queue that holds the kio.
THEOREM BackPointersHeld ==
    ASSUME Held
    PROVE  Spec => []BackPointers
<1>1. HeldInv => BackPointers
    BY DEF HeldInv, CalmLists
<1> QED
    BY <1>1, HeldAlways, PTL

\* In such a session a completed kio carries the response to its own request,
\* none, or one that nobody can unpack, but never another request's.
THEOREM ResponsesMatchHeld ==
    ASSUME Held
    PROVE  Spec => []ResponseMatches
<1>1. TypeInv /\ HeldInv => ResponseMatches
    BY DEF TypeInv, TypeOK, HeldInv, CalmLists, BackPointers, HeldResponses,
           ResponseMatches, AnyKio
<1> QED
    BY <1>1, HeldAlways, PTL

\* The outcome of a kio on compq is not touched by any step, those of a sender
\* that is still sending it included.
LEMMA HeldStable ==
    ASSUME Held, TypeInv, HeldInv, [Next]_vars,
           NEW k \in Kio, Contains(compq, k), Contains(compq', k)
    PROVE  kio_state'[k] = kio_state[k] /\ kio_recvmsg'[k] = kio_recvmsg[k]
<1>0. /\ kio_qbp[k] = "compq" /\ cpc[k] = "out" /\ kio_state[k] \in Completed
      /\ ~SenderHolds(k) /\ rkio # k
    BY DEF HeldInv, CalmLists, BackPointers, CalmCustody, AnyKio
<1> USE DEF TypeInv, TypeOK, AnyKio, kiovars, queues, sender, receiver, history,
            session
<1>1. ASSUME NEW j \in Kio, SendCheck(j) \/ SendEnqueue(j)
      PROVE  kio_state'[k] = kio_state[k] /\ kio_recvmsg'[k] = kio_recvmsg[k]
    BY <1>0, <1>1 DEF SendCheck, SendEnqueue
<1>2. CASE SenderSent
    BY <1>0, <1>2 DEF SenderSent, MarkSent, SenderUnchanged, Completed
<1>3. CASE SenderComplete
    <2>1. skio # k
        BY <1>0, <1>3 DEF SenderComplete, SenderHolds, HeldInv, HeldThreads
    <2> QED
        BY <2>1, <1>3 DEF SenderComplete, SenderUnchanged
<1>4. CASE MatchUnsolicited
    <2>1. \A u \in Unsol : u # k
        BY KtliAssumption
    <2> QED
        BY <2>1, <1>4 DEF MatchUnsolicited, ReceiverUnchanged
<1>5. CASE RecvComplete
    BY <1>0, <1>5 DEF RecvComplete, ReceiverUnchanged
<1>6. CASE TimeoutOne
    <2>1. \A i \in DOMAIN recvq : recvq[i] # k
        <3>1. ~Contains(recvq, k)
            BY <1>0 DEF HeldInv, CalmLists, BackPointers
        <3> QED
            BY <3>1, LenProperties DEF Contains
    <2> QED
        BY <2>1, <1>6 DEF TimeoutOne, ReceiverUnchanged
<1>7. CASE UNCHANGED <<kio_state, kio_recvmsg>>
    BY <1>7
<1>8. \/ \E j \in Kio : SendCheck(j) \/ SendEnqueue(j)
      \/ SenderSent \/ SenderComplete
      \/ MatchUnsolicited \/ RecvComplete \/ TimeoutOne
      \/ UNCHANGED <<kio_state, kio_recvmsg>>
    <2>1. CASE Client
        BY <2>1, HeldNever
        DEF Client, Receive, ReceiveUnsolicited, Connect
    <2>2. CASE Sender \/ SenderSpurious
        BY <2>2, HeldNever
        DEF Sender, SenderSpurious, SenderTop, SenderWoken, SenderLoop,
            SenderPop, SenderNumber, SenderArm, SenderDriver
    <2>3. CASE Receiver
        BY <2>3, HeldNever
        DEF Receiver, ReceiverStart, PollIdle, PollResponse, PollUnsolicited,
            ReadMessage, MatchToss, MatchFound, MatchGarbled,
            MatchGarbledEmpty, TakeFromRecvq, TimeoutDone
    <2>4. CASE World
        BY <2>4, HeldNever DEF World, Expire
    <2>5. CASE UNCHANGED vars
        BY <2>5 DEF vars
    <2> QED
        BY <2>1, <2>2, <2>3, <2>4, <2>5 DEF Next
<1> QED
    BY <1>1, <1>2, <1>3, <1>4, <1>5, <1>6, <1>7, <1>8

\* In such a session what a completed kio says does not change while it waits
\* on compq: the compare-and-swap of a sender that was held up finds the kio
\* timed out or received.
THEOREM CompletionsStableHeld ==
    ASSUME Held
    PROVE  Spec => CompletionStable
<1>1. TypeInv /\ HeldInv /\ [Next]_vars => [OutcomesKept]_vars
    BY HeldStable DEF OutcomesKept
<1> QED
    BY <1>1, HeldAlways, PTL DEF Spec, CompletionStable
=============================================================================
