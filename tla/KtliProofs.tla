----------------------------- MODULE KtliProofs -----------------------------
(***************************************************************************)
(* Theorems about a session (module Ktli), for every set of kios, every    *)
(* bound and every behaviour of the surroundings the constants allow; and, *)
(* in the second half, about a connected session, from the invariant of    *)
(* KtliCalm.                                                               *)
(***************************************************************************)
EXTENDS KtliCalm, TLAPS, SequenceTheorems

-----------------------------------------------------------------------------
(* Lists.                                                                  *)

\* Removing an element gives a list of the same type.
LEMMA RemoveAtType ==
    ASSUME NEW S, NEW s \in Seq(S), NEW i \in 1 .. Len(s)
    PROVE  RemoveAt(s, i) \in Seq(S)
<1>1. SubSeq(s, 1, i - 1) \in Seq(S)
    BY SubSeqProperties
<1>2. SubSeq(s, i + 1, Len(s)) \in Seq(S)
    BY SubSeqProperties
<1> QED
    BY <1>1, <1>2, ConcatProperties DEF RemoveAt

\* Dequeue is total: it gives a list of the same type for every kio.
LEMMA DequeueType ==
    ASSUME NEW S, NEW s \in Seq(S), NEW k
    PROVE  Dequeue(s, k) \in Seq(S)
<1>1. CASE Contains(s, k)
    <2>1. \E i \in DOMAIN s : s[i] = k
        BY <1>1 DEF Contains
    <2>2. Position(s, k) \in 1 .. Len(s)
        BY <2>1, LenProperties DEF Position
    <2> QED
        BY <1>1, <2>2, RemoveAtType DEF Dequeue
<1>2. CASE ~Contains(s, k)
    BY <1>2 DEF Dequeue
<1> QED
    BY <1>1, <1>2

\* What Front leaves of a nonempty list.
LEMMA FrontType ==
    ASSUME NEW S, NEW s \in Seq(S), s # <<>>
    PROVE  Front(s) \in Seq(S)
BY SubSeqProperties DEF Front

\* SubSeq from the second element, as Tail is: a list of the same type.
LEMMA TailType ==
    ASSUME NEW S, NEW s \in Seq(S), s # <<>>
    PROVE  Tail(s) \in Seq(S) /\ Head(s) \in S
BY HeadTailProperties

LEMMA AppendType ==
    ASSUME NEW S, NEW s \in Seq(S), NEW x \in S
    PROVE  Append(s, x) \in Seq(S)
BY AppendProperties

-----------------------------------------------------------------------------
(* Types.                                                                  *)

\* A thread that is about to use its kio has one.
HandsOK ==
    /\ spc \in Busy => skio \in Kio
    /\ rpc = "comp" => rkio \in AnyKio

TypeInv == TypeOK /\ HandsOK

\* The session starts with every variable of its type.
LEMMA TypeInit == Init => TypeInv
BY KtliAssumption
   DEF Init, TypeInv, TypeOK, HandsOK, Busy, SessionStates, KioStates, Queues,
       SenderPCs, ReceiverPCs, Message, NoMsg, AnyKio, FirstSeq, NoDrain,
       DrainCalls

\* ktli_send keeps the types.
LEMMA TypeSend ==
    ASSUME TypeInv, NEW k \in Kio, SendCheck(k) \/ SendEnqueue(k)
    PROVE  TypeInv'
<1> USE DEF TypeInv, TypeOK, HandsOK, Busy, AnyKio, KioStates, Queues, SenderPCs,
            kiovars, queues, sender, receiver, history, session
<1>1. CASE SendCheck(k)
    BY SMTT(60), <1>1 DEF SendCheck, Flagged
<1>2. CASE SendEnqueue(k)
    <2>1. sendq' \in Seq(Kio)
        BY <1>2, AppendType DEF SendEnqueue
    <2> QED
        BY SMTT(60), <1>2, <2>1 DEF SendEnqueue
<1> QED
    BY <1>1, <1>2

\* ktli_receive in a connected session keeps the types.
LEMMA TypeReceive ==
    ASSUME TypeInv, NEW k \in Kio, Receive(k)
    PROVE  TypeInv'
<1> USE DEF TypeInv, TypeOK, HandsOK, Busy, AnyKio, KioStates, Queues,
            SessionStates, kiovars, queues, sender, receiver, history, session
<1>1. compq' \in Seq(AnyKio)
    BY DequeueType DEF Receive
<1> QED
    BY ZenonT(60), <1>1 DEF Receive, Retired

\* The steps of ktli_drain and ktli_drain_match keep the types, whichever of
\* the queues they are at.
LEMMA TypeDrain ==
    ASSUME TypeInv,
           \/ \E k \in Kio \cup {NoKio} : DrainCall(k)
           \/ DrainFront \/ DrainSkip \/ DrainMatch \/ DrainReturn
    PROVE  TypeInv'
<1> USE DEF TypeInv, TypeOK, HandsOK, AnyKio, kiovars, queues, sender, receiver,
            history, session
<1>1. NoDrain \in DrainCalls
    BY DEF NoDrain, DrainCalls
<1>2. CASE \E k \in Kio \cup {NoKio} : DrainCall(k)
    <2>1. drain' \in DrainCalls
        <3>1. PICK k \in Kio \cup {NoKio} :
                  drain' = [kio |-> k, at |-> 1, left |-> FALSE, found |-> FALSE]
            BY <1>2 DEF DrainCall, NoDrain
        <3> HIDE DEF TypeInv, TypeOK, HandsOK
        <3> QED
            BY <3>1 DEF DrainCalls
    <2> QED
        BY ZenonT(60), <1>2, <2>1 DEF DrainCall
<1>3. drain.at \in 1 .. 3 =>
          \/ drain.at = 1 /\ DrainQ = compq
          \/ drain.at = 2 /\ DrainQ = recvq
          \/ drain.at = 3 /\ DrainQ = sendq
    BY SMTT(60) DEF DrainQ, DrainCalls
<1>4. CASE DrainFront
    <2>1. /\ sendq' \in Seq(Kio) /\ recvq' \in Seq(Kio) /\ compq' \in Seq(AnyKio)
          /\ Head(DrainQ) \in AnyKio
        <3>1. CASE drain.at = 1
            BY <1>3, <1>4, <3>1, TailType DEF DrainFront, DrainTo
        <3>2. CASE drain.at = 2
            BY <1>3, <1>4, <3>2, TailType DEF DrainFront, DrainTo
        <3>3. CASE drain.at = 3
            BY <1>3, <1>4, <3>3, TailType DEF DrainFront, DrainTo
        <3> QED
            BY <1>3, <1>4, <3>1, <3>2, <3>3 DEF DrainFront
    <2>2. kio_qbp' \in [AnyKio -> Queues] /\ kio_state' \in [AnyKio -> KioStates]
        BY <1>4, <2>1 DEF DrainFront, DrainOff, Queues, KioStates
    <2>3. cpc' \in [Kio -> {"idle", "sending", "out", "freed", "assert"}]
        BY <1>4 DEF DrainFront, Retired
    <2> QED
        BY ZenonT(60), <1>1, <1>4, <2>1, <2>2, <2>3 DEF DrainFront, DrainUnchanged
<1>5. CASE DrainSkip
    <2>1. sendq' \in Seq(Kio) /\ recvq' \in Seq(Kio) /\ compq' \in Seq(AnyKio)
        BY <1>5, <1>3 DEF DrainSkip, DrainTo
    <2>2. drain' \in DrainCalls
        <3>1. drain.at + 1 \in 0 .. 4 /\ drain' = [drain EXCEPT !.at = @ + 1]
            BY <1>5 DEF DrainSkip
        <3> QED
            BY <3>1 DEF DrainCalls
    <2> QED
        BY <1>5, <2>1, <2>2 DEF DrainSkip, DrainUnchanged
<1>6. CASE DrainMatch
    <2>1. drain.kio \in Kio
        BY <1>6 DEF DrainMatch, DrainCalls
    <2>2. sendq' \in Seq(Kio) /\ recvq' \in Seq(Kio) /\ compq' \in Seq(AnyKio)
        BY <1>6, <1>3, DequeueType DEF DrainMatch, DrainTo
    <2>3. drain' \in DrainCalls
        <3>1. drain.at + 1 \in 0 .. 4
            BY SMTT(60), <1>6 DEF DrainMatch
        <3>2. /\ Contains(DrainQ, drain.kio) \in BOOLEAN
              /\ (drain.left \/ Dequeue(DrainQ, drain.kio) # <<>>) \in BOOLEAN
            BY DEF Contains
        <3>3. drain' = [drain EXCEPT !.at = @ + 1,
                  !.left = @ \/ Dequeue(DrainQ, drain.kio) # <<>>,
                  !.found = Contains(DrainQ, drain.kio)]
            BY <1>6 DEF DrainMatch
        <3> QED
            BY <3>1, <3>2, <3>3 DEF DrainCalls
    <2>4. kio_qbp' \in [AnyKio -> Queues] /\ kio_state' \in [AnyKio -> KioStates]
        BY <1>6, <2>1 DEF DrainMatch, DrainOff, Queues, KioStates
    <2> QED
        BY <1>6, <2>2, <2>3, <2>4 DEF DrainMatch, DrainUnchanged
<1>7. CASE DrainReturn
    BY ZenonT(60), <1>1, <1>7 DEF DrainReturn, DrainUnchanged, Retired, SessionStates
<1> QED
    BY <1>2, <1>4, <1>5, <1>6, <1>7

\* The other calls of the client keep the types.
LEMMA TypeClient ==
    ASSUME TypeInv, Client
    PROVE  TypeInv'
<1> USE DEF TypeInv, TypeOK, HandsOK, AnyKio, kiovars, queues, sender, receiver,
            history, session
<1>1. CASE \E k \in Kio : SendCheck(k) \/ SendEnqueue(k) \/ Receive(k)
    BY <1>1, TypeSend, TypeReceive
<1>2. CASE ReceiveUnsolicited
    <2>1. PICK i \in DOMAIN compq :
              /\ compq' = RemoveAt(compq, i)
              /\ kio_qbp' = [kio_qbp EXCEPT ![compq[i]] = "null"]
        BY <1>2 DEF ReceiveUnsolicited
    <2>2. compq' \in Seq(AnyKio)
        BY <2>1, RemoveAtType, LenProperties
    <2> QED
        BY ZenonT(60), <1>2, <2>1, <2>2 DEF ReceiveUnsolicited, Queues
<1>3. CASE \/ \E k \in Kio \cup {NoKio} : DrainCall(k)
           \/ DrainFront \/ DrainSkip \/ DrainMatch \/ DrainReturn
    BY <1>3, TypeDrain
<1>4. CASE Connect
    <2>1. NoMsg \in Message
        BY DEF NoMsg, Message
    <2> QED
        BY <1>4, <2>1 DEF Connect, SessionStates
<1>5. CASE Disconnect \/ DisconnectEnd
    BY <1>5 DEF Disconnect, DisconnectEnd, HangUp, SessionStates
<1>6. CASE CloseStart
    BY <1>6 DEF CloseStart, SenderPCs, Busy
<1>7. CASE CloseSendq
    BY <1>7 DEF CloseSendq
<1>8. CASE CloseFinish
    <2>1. recvq' \in Seq(Kio) /\ compq' \in Seq(AnyKio)
        BY <1>8 DEF CloseFinish
    <2> QED
        BY <1>8, <2>1 DEF CloseFinish, SessionStates
<1> QED
    BY <1>1, <1>2, <1>3, <1>4, <1>5, <1>6, <1>7, <1>8
    DEF Client

\* The sender keeps the types.
LEMMA TypeSender ==
    ASSUME TypeInv, Sender \/ SenderSpurious
    PROVE  TypeInv'
<1> USE DEF TypeInv, TypeOK, HandsOK, AnyKio, kiovars, queues, sender, receiver,
            history, session
<1> USE DEF SenderUnchanged
<1>1. CASE SenderTop \/ SenderSpurious \/ SenderWoken \/ SenderLoop
    BY ZenonT(60), <1>1 DEF SenderTop, SenderSpurious, SenderWoken, SenderLoop,
                            SenderPCs, Busy
<1>2. CASE SenderPop
    <2>1. sendq # <<>> => Tail(sendq) \in Seq(Kio) /\ Head(sendq) \in Kio
        BY TailType
    <2> QED
        BY ZenonT(60), <1>2, <2>1 DEF SenderPop, SenderPCs, Busy, Queues
<1>3. CASE SenderNumber
    <2>1. skio \in Kio
        BY <1>3 DEF SenderNumber, Busy
    <2>2. Append(recvq, skio) \in Seq(Kio)
        BY <2>1, AppendType
    <2>3. recvq' \in Seq(Kio) /\ kio_qbp' \in [AnyKio -> Queues]
        BY <1>3, <2>1, <2>2 DEF SenderNumber, Queues
    <2>4. kts_sequence' \in Nat /\ kio_seq' \in [AnyKio -> Nat]
        BY <1>3, <2>1 DEF SenderNumber
    <2> QED
        BY <1>3, <2>1, <2>3, <2>4 DEF SenderNumber, SenderPCs, Busy
<1>4. CASE SenderArm
    BY <1>4 DEF SenderArm, SenderPCs, Busy
<1>5. CASE SenderDriver
    <2>1. skio \in Kio /\ kio_seq[skio] \in Nat
        BY <1>5 DEF SenderDriver, Busy
    <2>2. server' \in SUBSET Nat
        BY <1>5, <2>1 DEF SenderDriver
    <2> QED
        BY <1>5, <2>2 DEF SenderDriver, SenderPCs, Busy
<1>6. CASE SenderSent
    BY ZenonT(60), <1>6 DEF SenderSent, MarkSent, SenderPCs, Busy, KioStates
<1>7. CASE SenderFailed
    <2>1. recvq' \in Seq(Kio)
        BY <1>7, DequeueType, FrontType DEF SenderFailed
    <2> QED
        BY ZenonT(60), <1>7, <2>1 DEF SenderFailed, MarkSent, SenderPCs, Busy,
                                      KioStates, Queues
<1>8. CASE SenderComplete
    <2>1. skio \in Kio
        BY <1>8 DEF SenderComplete, Busy
    <2>2. compq' \in Seq(AnyKio)
        BY <1>8, <2>1, AppendType DEF SenderComplete
    <2> QED
        BY <1>8, <2>1, <2>2 DEF SenderComplete, SenderPCs, Busy, KioStates,
                                 Queues
<1> QED
    BY <1>1, <1>2, <1>3, <1>4, <1>5, <1>6, <1>7, <1>8 DEF Sender

\* The receiver keeps the types.
LEMMA TypeReceiver ==
    ASSUME TypeInv, Receiver
    PROVE  TypeInv'
<1> USE DEF TypeInv, TypeOK, HandsOK, AnyKio, kiovars, queues, sender, receiver,
            history, session
<1> USE DEF ReceiverUnchanged
<1>1. CASE ReceiverStart \/ PollIdle \/ PollEof \/ ReadMessage
    BY ZenonT(60), <1>1 DEF ReceiverStart, PollIdle, PollEof, ReadMessage, ReceiverPCs
<1>13. CASE PollUnsolicited
    BY <1>13 DEF PollUnsolicited, ReceiverPCs, Message
<1>14. CASE ReadError
    BY <1>14 DEF ReadError, ReceiverPCs, Message, NoMsg, SessionStates
<1>2. CASE \E s \in server : PollResponse(s)
    BY SMTT(60), <1>2 DEF PollResponse, Junk, ReceiverPCs, Message
<1>3. CASE RecvmsgErr \/ RecvmsgStuck
    BY ZenonT(60), <1>3 DEF RecvmsgErr, RecvmsgStuck, HangUp, ReceiverPCs, SessionStates
<1>4. CASE MatchToss
    BY <1>4 DEF MatchToss, AfterMessage, Again, ReceiverPCs, Message, NoMsg
<1>5. ASSUME NEW i \in DOMAIN recvq, TakeFromRecvq(i)
      PROVE  TypeInv'
    <2>1. recvq' \in Seq(Kio) /\ recvq[i] \in Kio
        BY <1>5, RemoveAtType, LenProperties DEF TakeFromRecvq
    <2> QED
        BY <1>5, <2>1 DEF TakeFromRecvq, ReceiverPCs, Queues
<1>6. CASE MatchFound
    BY <1>6, <1>5 DEF MatchFound
<1>7. CASE MatchGarbled
    <2>1. Len(recvq) \in DOMAIN recvq
        BY <1>7, EmptySeq, LenProperties DEF MatchGarbled
    <2> QED
        BY <1>7, <1>5, <2>1 DEF MatchGarbled
<1>8. CASE MatchGarbledEmpty
    BY <1>8 DEF MatchGarbledEmpty, ReceiverPCs
<1>9. CASE MatchUnsolicited
    BY SMTT(60), <1>9 DEF MatchUnsolicited, ReceiverPCs, KioStates
<1>10. CASE RecvComplete
    <2>1. rkio \in AnyKio
        BY <1>10 DEF RecvComplete
    <2>2. compq' \in Seq(AnyKio)
        BY <1>10, <2>1, AppendType DEF RecvComplete
    <2> QED
        BY <1>10, <2>1, <2>2 DEF RecvComplete, AfterMessage, Again, ReceiverPCs,
                                  KioStates, Queues, Message, NoMsg
<1>11. CASE TimeoutOne
    <2>1. PICK i \in DOMAIN recvq :
              /\ recvq' = RemoveAt(recvq, i)
              /\ compq' = Append(compq, recvq[i])
              /\ kio_qbp' = [kio_qbp EXCEPT ![recvq[i]] = "compq"]
              /\ kio_state' = [kio_state EXCEPT ![recvq[i]] = "TIMEDOUT"]
        BY <1>11 DEF TimeoutOne
    <2>2. recvq[i] \in Kio /\ recvq' \in Seq(Kio)
        BY <2>1, RemoveAtType, LenProperties
    <2>3. compq' \in Seq(AnyKio)
        BY <2>1, <2>2, AppendType
    <2> QED
        BY <1>11, <2>1, <2>2, <2>3 DEF TimeoutOne, KioStates, Queues
<1>12. CASE TimeoutDone
    BY <1>12 DEF TimeoutDone, Again, ReceiverPCs
<1> QED
    BY <1>1, <1>2, <1>3, <1>4, <1>6, <1>7, <1>8, <1>9, <1>10, <1>11, <1>12,
       <1>13, <1>14 DEF Receiver

\* Time and the peer keep the types.
LEMMA TypeWorld ==
    ASSUME TypeInv, World
    PROVE  TypeInv'
<1> USE DEF TypeInv, TypeOK, HandsOK, AnyKio, kiovars, queues, sender, receiver,
            history, session
<1>1. CASE \E k \in Kio : Expire(k)
    <2>1. PICK k \in Kio : Expire(k)
        BY <1>1
    <2>2. /\ kio_timeout' = [kio_timeout EXCEPT ![k] = "expired"]
          /\ UNCHANGED <<kio_state, kio_seq, kio_qbp, kio_recvmsg, kio_reqonly,
                         queues, sender, receiver, history, session, cpc,
                         server>>
        BY <2>1 DEF Expire
    <2>3. kio_timeout' \in [AnyKio -> {"zero", "armed", "expired"}]
        BY <2>2
    <2>4. HandsOK'
        BY <2>2
    <2> QED
        BY <2>2, <2>3, <2>4
<1>2. CASE PeerGone("fin") \/ PeerGone("rst")
    BY <1>2 DEF PeerGone
<1> QED
    BY <1>1, <1>2 DEF World

\* A session that does nothing keeps the types.
LEMMA TypeStutter ==
    ASSUME TypeInv, UNCHANGED vars
    PROVE  TypeInv'
BY DEF vars, TypeInv, TypeOK, HandsOK, kiovars, queues, sender, receiver,
       history, session

\* Every step of the specification keeps the types.
LEMMA TypeStep == TypeInv /\ [Next]_vars => TypeInv'
BY TypeClient, TypeSender, TypeReceiver, TypeWorld, TypeStutter DEF Next

\* In every session, whatever the surroundings do, the variables keep their
\* types: in particular no thread ever queues or writes to a kio it does not
\* have, and unsolicited kios never reach sendq, recvq or the sender.
THEOREM Types == Spec => []TypeOK
<1>1. Init => TypeInv
    BY TypeInit
<1>2. TypeInv /\ [Next]_vars => TypeInv'
    BY TypeStep
<1>3. TypeInv => TypeOK
    BY DEF TypeInv
<1> QED
    BY <1>1, <1>2, <1>3, PTL DEF Spec

(***************************************************************************)
(* A connected session.                                                    *)
(***************************************************************************)

-----------------------------------------------------------------------------
(* Lists without duplicates.                                               *)

\* Appending a new element.
LEMMA AppendList ==
    ASSUME NEW S, NEW s \in Seq(S), NEW x \in S, NoDup(s), ~Contains(s, x)
    PROVE  /\ NoDup(Append(s, x))
           /\ \A y : Contains(Append(s, x), y) <=> Contains(s, y) \/ y = x
<1> DEFINE t == Append(s, x)
<1>1. /\ t \in Seq(S) /\ Len(t) = Len(s) + 1 /\ Len(s) \in Nat
      /\ DOMAIN t = 1 .. Len(t)
      /\ \A i \in 1 .. Len(s) : t[i] = s[i]
      /\ t[Len(s) + 1] = x
    BY AppendProperties, LenProperties
<1>2. DOMAIN s = 1 .. Len(s)
    BY LenProperties
<1> HIDE DEF t
<1>3. NoDup(t)
    BY <1>1, <1>2 DEF NoDup, Contains
<1>4. \A y : Contains(t, y) <=> Contains(s, y) \/ y = x
    BY <1>1 DEF Contains
<1> QED
    BY <1>3, <1>4 DEF t

\* Where the elements of RemoveAt(s, i) come from.
LEMMA RemoveAtElements ==
    ASSUME NEW S, NEW s \in Seq(S), NEW i \in 1 .. Len(s)
    PROVE  /\ Len(RemoveAt(s, i)) = Len(s) - 1
           /\ \A j \in 1 .. i - 1 : RemoveAt(s, i)[j] = s[j]
           /\ \A j \in i .. Len(s) - 1 : RemoveAt(s, i)[j] = s[j + 1]
<1> DEFINE u == SubSeq(s, 1, i - 1)
           v == SubSeq(s, i + 1, Len(s))
<1>0. Len(s) \in Nat
    BY LenProperties
<1>1. /\ u \in Seq(S) /\ Len(u) = i - 1
      /\ \A j \in 1 .. i - 1 : u[j] = s[j]
    BY <1>0, SubSeqProperties
<1>2. /\ v \in Seq(S) /\ Len(v) = Len(s) - i
      /\ \A j \in 1 .. Len(s) - i : v[j] = s[i + j]
    BY <1>0, SubSeqProperties
<1> HIDE DEF u, v
<1>3. /\ Len(u \o v) = Len(u) + Len(v)
      /\ \A j \in 1 .. Len(u) + Len(v) :
            (u \o v)[j] = IF j <= Len(u) THEN u[j] ELSE v[j - Len(u)]
    BY <1>1, <1>2, ConcatProperties
<1>4. Len(u \o v) = Len(s) - 1
    BY <1>0, <1>1, <1>2, <1>3
<1>5. \A j \in 1 .. i - 1 : (u \o v)[j] = s[j]
    BY <1>0, <1>1, <1>2, <1>3
<1>6. \A j \in i .. Len(s) - 1 : (u \o v)[j] = s[j + 1]
    <2> TAKE j \in i .. Len(s) - 1
    <2>1. (u \o v)[j] = v[j - (i - 1)]
        BY SMTT(60), <1>0, <1>1, <1>2, <1>3
    <2>2. v[j - (i - 1)] = s[i + (j - (i - 1))]
        BY <1>0, <1>2
    <2>3. i + (j - (i - 1)) = j + 1
        BY <1>0
    <2> QED
        BY <2>1, <2>2, <2>3
<1> QED
    BY <1>4, <1>5, <1>6 DEF RemoveAt, u, v

\* Removing an element of a list without duplicates.
LEMMA RemoveList ==
    ASSUME NEW S, NEW s \in Seq(S), NEW i \in 1 .. Len(s), NoDup(s)
    PROVE  /\ NoDup(RemoveAt(s, i))
           /\ \A y : Contains(RemoveAt(s, i), y) <=> Contains(s, y) /\ y # s[i]
<1> DEFINE t == RemoveAt(s, i)
<1>1. /\ Len(t) = Len(s) - 1
      /\ \A j \in 1 .. i - 1 : t[j] = s[j]
      /\ \A j \in i .. Len(s) - 1 : t[j] = s[j + 1]
    BY RemoveAtElements
<1>2. t \in Seq(S) /\ DOMAIN t = 1 .. Len(t)
    BY RemoveAtType, LenProperties
<1>3. Len(s) \in Nat /\ DOMAIN s = 1 .. Len(s)
    BY LenProperties
<1> DEFINE f(j) == IF j < i THEN j ELSE j + 1
<1>4. \A j \in DOMAIN t : f(j) \in DOMAIN s /\ t[j] = s[f(j)] /\ f(j) # i
    BY <1>1, <1>2, <1>3
<1>5. \A j, k \in DOMAIN t : f(j) = f(k) => j = k
    BY <1>1, <1>2, <1>3
<1> HIDE DEF t, f
<1>6. NoDup(t)
    BY <1>4, <1>5 DEF NoDup
<1>7. ASSUME NEW y PROVE Contains(t, y) <=> Contains(s, y) /\ y # s[i]
    <2>1. ASSUME Contains(t, y) PROVE Contains(s, y) /\ y # s[i]
        <3>1. PICK j \in DOMAIN t : t[j] = y
            BY <1>2, <2>1 DEF Contains
        <3>2. f(j) \in DOMAIN s /\ s[f(j)] = y /\ f(j) # i /\ i \in DOMAIN s
            BY <1>3, <1>4, <3>1
        <3> QED
            BY <1>3, <3>2 DEF Contains, NoDup
    <2>2. ASSUME Contains(s, y), y # s[i] PROVE Contains(t, y)
        <3>1. PICK j \in 1 .. Len(s) : s[j] = y
            BY <2>2 DEF Contains
        <3>2. CASE j < i
            BY <1>1, <1>3, <3>1, <3>2 DEF Contains
        <3>3. CASE j > i
            <4>1. j - 1 \in i .. Len(s) - 1 /\ (j - 1) + 1 = j
                BY <1>3, <3>3
            <4>2. t[j - 1] = y
                BY <1>1, <3>1, <4>1
            <4> QED
                BY <1>1, <1>3, <4>1, <4>2 DEF Contains
        <3> QED
            BY <2>2, <3>1, <3>2, <3>3
    <2> QED
        BY <2>1, <2>2
<1> QED
    BY <1>6, <1>7 DEF t

\* Taking the front of a list without duplicates.
LEMMA TailList ==
    ASSUME NEW S, NEW s \in Seq(S), s # <<>>, NoDup(s)
    PROVE  /\ NoDup(Tail(s)) /\ Contains(s, Head(s))
           /\ \A y : Contains(Tail(s), y) <=> Contains(s, y) /\ y # Head(s)
<1>1. 1 \in 1 .. Len(s) /\ Len(s) \in Nat
    BY EmptySeq, LenProperties
<1>2. /\ Tail(s) \in Seq(S) /\ Len(Tail(s)) = Len(s) - 1
      /\ \A i \in 1 .. Len(Tail(s)) : Tail(s)[i] = s[i + 1]
      /\ Head(s) = s[1]
    BY HeadTailProperties, <1>1
<1>3. /\ RemoveAt(s, 1) \in Seq(S) /\ Len(RemoveAt(s, 1)) = Len(s) - 1
      /\ \A i \in 1 .. Len(s) - 1 : RemoveAt(s, 1)[i] = s[i + 1]
    BY <1>1, RemoveAtElements, RemoveAtType
<1>4. Tail(s) = RemoveAt(s, 1)
    BY <1>1, <1>2, <1>3, SeqEqual
<1>5. Contains(s, Head(s))
    BY <1>1, <1>2 DEF Contains
<1>6. /\ NoDup(RemoveAt(s, 1))
      /\ \A y : Contains(RemoveAt(s, 1), y) <=> Contains(s, y) /\ y # s[1]
    BY <1>1, RemoveList
<1> QED
    BY <1>2, <1>4, <1>5, <1>6

\* Taking an element out of a list without duplicates.
LEMMA DequeueList ==
    ASSUME NEW S, NEW s \in Seq(S), NEW k, NoDup(s), Contains(s, k)
    PROVE  /\ NoDup(Dequeue(s, k))
           /\ \A y : Contains(Dequeue(s, k), y) <=> Contains(s, y) /\ y # k
<1>1. \E i \in DOMAIN s : s[i] = k
    BY LenProperties DEF Contains
<1>2. Position(s, k) \in 1 .. Len(s) /\ s[Position(s, k)] = k
    BY <1>1, LenProperties DEF Position
<1> QED
    BY <1>2, RemoveList DEF Dequeue

\* The same for an index, with what the element is.
LEMMA RemoveIndex ==
    ASSUME NEW S, NEW s \in Seq(S), NEW i \in DOMAIN s, NoDup(s)
    PROVE  /\ s[i] \in S /\ Contains(s, s[i])
           /\ NoDup(RemoveAt(s, i))
           /\ \A y : Contains(RemoveAt(s, i), y) <=> Contains(s, y) /\ y # s[i]
<1>1. i \in 1 .. Len(s)
    BY LenProperties
<1>2. s[i] \in S /\ Contains(s, s[i])
    BY <1>1, ElementOfSeq DEF Contains
<1> QED
    BY <1>1, <1>2, RemoveList

-----------------------------------------------------------------------------
(* Every action keeps the invariant.                                       *)

\* The parts of the message in hand are numbers.
LEMMA MessageType ==
    ASSUME TypeInv
    PROVE  rmsg.aseq \in Int /\ rmsg.req \in Nat
BY DEF TypeInv, TypeOK, Message

\* Where no memory is used again, or no request is one-way, a kio keeps its kind.
LEMMA FlagsKept ==
    ASSUME Calm \/ "reuse" \notin Env, NEW k \in Kio, SendCheck(k)
    PROVE  kio_reqonly' = kio_reqonly
BY DEF Calm, SendCheck, Flagged

\* ktli_send finds the session connected.
LEMMA CalmSendCheck ==
    ASSUME Calm, TypeInv, CalmInv, NEW k \in Kio, SendCheck(k)
    PROVE  CalmInv'
<1> USE DEF CalmInv, TypeInv, TypeOK, AnyKio, SendCheck, kiovars, queues,
            sender, receiver, history, session
<1>0. kio_reqonly' = kio_reqonly
    BY FlagsKept
<1>1. CalmSession'
    BY <1>0 DEF CalmSession
<1>2. CalmThreads'
    BY <1>0 DEF CalmThreads, Busy
<1>3. CalmLists'
    BY DEF CalmLists, BackPointers, CalmCustody
<1>4. CalmCustody'
    BY SMTT(60), <1>0 DEF CalmCustody, CalmThreads, SenderHolds, Completed, Busy
<1>5. CalmSender'
    BY <1>0 DEF CalmSender, CalmCustody, SenderHolds, HandsOK, Busy
<1>6. CalmNumbers'
    BY DEF CalmNumbers, CalmCustody, FirstSeq
<1>7. CalmResponses'
    BY <1>0 DEF CalmResponses, CalmCustody, SenderHolds
<1> QED
    BY <1>1, <1>2, <1>3, <1>4, <1>5, <1>6, <1>7

\* ktli_send queues the request.
LEMMA CalmSendEnqueue ==
    ASSUME Calm, TypeInv, CalmInv, NEW k \in Kio, SendEnqueue(k)
    PROVE  CalmInv'
<1> USE DEF CalmInv, TypeInv, TypeOK, AnyKio, SendEnqueue, kiovars, queues,
            sender, receiver, history, session
<1>0. /\ ~Contains(sendq, k) /\ NoDup(sendq')
      /\ \A y : Contains(sendq', y) <=> Contains(sendq, y) \/ y = k
      /\ sendq' # <<>>
    <2>1. ~Contains(sendq, k)
        BY DEF CalmCustody, CalmLists, BackPointers
    <2>2. sendq' = Append(sendq, k) /\ sendq \in Seq(Kio) /\ NoDup(sendq)
        BY DEF CalmLists
    <2> HIDE DEF CalmInv, TypeInv, SendEnqueue
    <2>3. sendq' # <<>>
        BY <2>2, AppendProperties
    <2> QED
        BY <2>1, <2>2, <2>3, AppendList
<1>1. CalmSession'
    BY <1>0 DEF CalmSession
<1>2. CalmThreads'
    BY <1>0 DEF CalmThreads, Busy
<1>3. CalmLists'
    BY <1>0 DEF CalmLists, BackPointers, CalmCustody
<1>4. CalmCustody'
    BY ZenonT(60), <1>0 DEF CalmCustody, CalmThreads, SenderHolds, Completed, Busy
<1>5. CalmSender'
    BY ZenonT(60), <1>0 DEF CalmSender, CalmCustody, SenderHolds, HandsOK, Busy
<1>6. CalmNumbers'
    BY <1>0 DEF CalmNumbers, CalmCustody, FirstSeq
<1>7. CalmResponses'
    BY <1>0 DEF CalmResponses, CalmCustody, SenderHolds
<1> QED
    BY <1>1, <1>2, <1>3, <1>4, <1>5, <1>6, <1>7

\* ktli_receive finds every completed kio on compq.
LEMMA CalmReceive ==
    ASSUME Calm, TypeInv, CalmInv, NEW k \in Kio, Receive(k)
    PROVE  CalmInv'
<1> USE DEF CalmInv, TypeInv, TypeOK, AnyKio, Receive, Retired, kiovars,
            queues, sender, receiver, history, session
<1>0. /\ compq' = Dequeue(compq, k) /\ cpc' = [cpc EXCEPT ![k] = Retired]
      /\ kio_qbp[k] = "compq" /\ kio_qbp' = [kio_qbp EXCEPT ![k] = "null"]
      /\ NoDup(compq')
      /\ \A y : Contains(compq', y) <=> Contains(compq, y) /\ y # k
    <2>1. kio_qbp[k] = "compq"
        BY DEF CalmCustody
    <2>2. compq' = Dequeue(compq, k) /\ Contains(compq, k) /\ NoDup(compq)
        BY <2>1 DEF CalmLists, BackPointers
    <2> QED
        BY <2>1, <2>2, DequeueList
<1>1. CalmSession'
    BY <1>0 DEF CalmSession
<1>2. CalmThreads'
    BY <1>0 DEF CalmThreads, Busy
<1>3. CalmLists'
    BY <1>0 DEF CalmLists, BackPointers, CalmCustody
<1>4. CalmCustody'
    BY SMTT(60), <1>0 DEF CalmCustody, CalmThreads, SenderHolds, Completed, Busy
<1>5. CalmSender'
    BY <1>0 DEF CalmSender, CalmCustody, SenderHolds, HandsOK, Busy
<1>6. CalmNumbers'
    BY <1>0 DEF CalmNumbers, CalmCustody, FirstSeq
<1>7. CalmResponses'
    BY <1>0 DEF CalmResponses, CalmCustody, SenderHolds
<1> QED
    BY <1>1, <1>2, <1>3, <1>4, <1>5, <1>6, <1>7

\* ktli_receive_unsolicited takes no request.
LEMMA CalmReceiveUnsolicited ==
    ASSUME Calm, TypeInv, CalmInv, ReceiveUnsolicited
    PROVE  CalmInv'
<1> USE DEF CalmInv, TypeInv, TypeOK, AnyKio, ReceiveUnsolicited, kiovars,
            queues, sender, receiver, history, session
<1>0. PICK u \in Unsol :
          /\ u \notin Kio /\ Contains(compq, u)
          /\ kio_qbp' = [kio_qbp EXCEPT ![u] = "null"]
          /\ NoDup(compq')
          /\ \A y : Contains(compq', y) <=> Contains(compq, y) /\ y # u
    <2>1. PICK i \in DOMAIN compq :
              /\ compq[i] \in Unsol
              /\ compq' = RemoveAt(compq, i)
              /\ kio_qbp' = [kio_qbp EXCEPT ![compq[i]] = "null"]
        OBVIOUS
    <2>2. i \in 1 .. Len(compq) /\ NoDup(compq) /\ Contains(compq, compq[i])
        BY SMTT(60), LenProperties DEF CalmLists, Contains
    <2>3. /\ NoDup(compq')
          /\ \A y : Contains(compq', y) <=> Contains(compq, y) /\ y # compq[i]
        BY <2>1, <2>2, RemoveList
    <2> QED
        BY <2>1, <2>2, <2>3, KtliAssumption
<1>1. CalmSession'
    BY <1>0 DEF CalmSession
<1>2. CalmThreads'
    BY <1>0 DEF CalmThreads, Busy
<1>3. CalmLists'
    BY <1>0 DEF CalmLists, BackPointers, CalmCustody
<1>4. CalmCustody'
    BY ZenonT(60), <1>0 DEF CalmCustody, CalmThreads, SenderHolds, Completed, Busy
<1>5. CalmSender'
    BY <1>0 DEF CalmSender, CalmCustody, SenderHolds, HandsOK, Busy
<1>6. CalmNumbers'
    BY <1>0 DEF CalmNumbers, CalmCustody, FirstSeq
<1>7. CalmResponses'
    BY ZenonT(60), <1>0 DEF CalmResponses, CalmCustody, SenderHolds
<1> QED
    BY <1>1, <1>2, <1>3, <1>4, <1>5, <1>6, <1>7

\* ktli_connect starts with nothing under way.
LEMMA CalmConnect ==
    ASSUME Calm, TypeInv, CalmInv, Connect
    PROVE  CalmInv'
<1> USE DEF CalmInv, TypeInv, TypeOK, AnyKio, Connect, kiovars, queues, sender,
            receiver, history, session
<1>0. rpc = "init" /\ rmsg' = rmsg
    BY DEF CalmSession
<1>1. CalmSession'
    BY <1>0 DEF CalmSession
<1>2. CalmThreads'
    BY <1>0 DEF CalmThreads, Busy
<1>3. CalmLists'
    BY <1>0 DEF CalmLists, BackPointers, CalmCustody
<1>4. CalmCustody'
    BY <1>0 DEF CalmCustody, CalmThreads, SenderHolds, Completed, Busy
<1>5. CalmSender'
    BY <1>0 DEF CalmSender, CalmCustody, SenderHolds, HandsOK, Busy
<1>6. CalmNumbers'
    BY <1>0 DEF CalmNumbers, CalmCustody, FirstSeq
<1>7. CalmResponses'
    BY <1>0 DEF CalmResponses, CalmCustody, SenderHolds
<1> QED
    BY <1>1, <1>2, <1>3, <1>4, <1>5, <1>6, <1>7

\* The sender waits and looks at sendq.
LEMMA CalmSenderIdle ==
    ASSUME Calm, TypeInv, CalmInv, SenderTop \/ SenderSpurious \/ SenderWoken \/ SenderLoop
    PROVE  CalmInv'
<1> USE DEF CalmInv, TypeInv, TypeOK, AnyKio, SenderTop, SenderSpurious,
            SenderWoken, SenderLoop, SenderUnchanged, SqExit, kiovars, queues,
            sender, receiver, history, session
<1>0. xpc = "none"
    BY DEF CalmSession
<1>1. CalmSession'
    BY <1>0 DEF CalmSession
<1>2. CalmThreads'
    BY <1>0 DEF CalmThreads, Busy
<1>3. CalmLists'
    BY <1>0 DEF CalmLists, BackPointers, CalmCustody
<1>4. CalmCustody'
    BY ZenonT(60), <1>0 DEF CalmCustody, CalmThreads, SenderHolds, Completed, Busy
<1>5. CalmSender'
    BY ZenonT(60), <1>0 DEF CalmSender, CalmCustody, SenderHolds, HandsOK, Busy
<1>6. CalmNumbers'
    BY ZenonT(60), <1>0 DEF CalmNumbers, CalmCustody, FirstSeq
<1>7. CalmResponses'
    BY <1>0 DEF CalmResponses, CalmCustody, SenderHolds
<1> QED
    BY <1>1, <1>2, <1>3, <1>4, <1>5, <1>6, <1>7

\* The sender takes the front of sendq.
LEMMA CalmSenderPop ==
    ASSUME Calm, TypeInv, CalmInv, SenderPop
    PROVE  CalmInv'
<1> USE DEF CalmInv, TypeInv, TypeOK, AnyKio, SenderPop, SenderUnchanged,
            kiovars, queues, sender, receiver, history, session
<1>0. PICK k \in Kio :
          /\ spc' = "hand" /\ skio' = k /\ kio_qbp[k] = "sendq"
          /\ kio_qbp' = [kio_qbp EXCEPT ![k] = "null"]
          /\ NoDup(sendq')
          /\ \A y : Contains(sendq', y) <=> Contains(sendq, y) /\ y # k
    <2>1. sendq # <<>> /\ NoDup(sendq)
        BY DEF CalmThreads, CalmLists
    <2>2. Head(sendq) \in Kio /\ sendq' = Tail(sendq)
        BY <2>1, TailType
    <2>3. /\ Contains(sendq, Head(sendq)) /\ NoDup(sendq')
          /\ \A y : Contains(sendq', y) <=> Contains(sendq, y) /\ y # Head(sendq)
        BY <2>1, <2>2, TailList
    <2>4. kio_qbp[Head(sendq)] = "sendq"
        BY <2>2, <2>3 DEF CalmLists, BackPointers
    <2> QED
        BY <2>1, <2>2, <2>3, <2>4
<1>1. CalmSession'
    BY <1>0, KtliAssumption DEF CalmSession
<1>2. CalmThreads'
    BY <1>0, KtliAssumption DEF CalmThreads, Busy
<1>3. CalmLists'
    BY <1>0, KtliAssumption DEF CalmLists, BackPointers, CalmCustody
<1>4. CalmCustody'
    BY SMTT(60), <1>0, KtliAssumption
    DEF CalmCustody, CalmThreads, SenderHolds, Completed, Busy
<1>5. CalmSender'
    BY <1>0, KtliAssumption
    DEF CalmSender, CalmCustody, SenderHolds, HandsOK, Busy
<1>6. CalmNumbers'
    BY <1>0, KtliAssumption DEF CalmNumbers, CalmCustody, FirstSeq
<1>7. CalmResponses'
    BY <1>0, KtliAssumption DEF CalmResponses, CalmCustody, SenderHolds
<1> QED
    BY <1>1, <1>2, <1>3, <1>4, <1>5, <1>6, <1>7

\* The sender numbers a request and queues it for its response.
LEMMA CalmSenderNumber ==
    ASSUME Calm, TypeInv, CalmInv, SenderNumber
    PROVE  CalmInv'
<1> USE DEF CalmInv, TypeInv, TypeOK, AnyKio, SenderNumber, SenderUnchanged,
            kiovars, queues, sender, receiver, history, session
<1>0. /\ skio \in Kio /\ SenderHolds(skio)
      /\ cpc[skio] = "out" /\ kio_qbp[skio] = "null" /\ rkio # skio
    BY DEF HandsOK, Busy, SenderHolds, CalmCustody
<1>a. ASSUME skio \notin kio_reqonly
      PROVE  /\ NoDup(recvq')
             /\ \A y : Contains(recvq', y) <=> Contains(recvq, y) \/ y = skio
    <2>1. ~Contains(recvq, skio) /\ NoDup(recvq) /\ recvq' = Append(recvq, skio)
        BY <1>0, <1>a DEF CalmLists, BackPointers
    <2> QED
        BY <1>0, <2>1, AppendList
<1>1. CalmSession'
    BY <1>0, <1>a DEF CalmSession
<1>2. CalmThreads'
    BY <1>0, <1>a DEF CalmThreads, Busy
<1>3. CalmLists'
    BY <1>0, <1>a DEF CalmLists, BackPointers, CalmCustody
<1>4. CalmCustody'
    BY <1>0, <1>a DEF CalmCustody, CalmThreads, SenderHolds, Completed, Busy
<1>5. CalmSender'
    BY SMTT(60), <1>0, <1>a, MessageType
    DEF CalmSender, CalmCustody, SenderHolds, HandsOK, Busy, CalmNumbers
<1>6. CalmNumbers'
    BY SMTT(60), <1>0, <1>a, MessageType DEF CalmNumbers, CalmCustody, FirstSeq
<1>7. CalmResponses'
    BY <1>0, <1>a DEF CalmResponses, CalmCustody, SenderHolds
<1> QED
    BY <1>1, <1>2, <1>3, <1>4, <1>5, <1>6, <1>7

\* The sender sets the timeout.
LEMMA CalmSenderArm ==
    ASSUME Calm, TypeInv, CalmInv, SenderArm
    PROVE  CalmInv'
<1> USE DEF CalmInv, TypeInv, TypeOK, AnyKio, SenderArm, SenderUnchanged,
            kiovars, queues, sender, receiver, history, session
<1>0. skio \in Kio
    BY DEF HandsOK, Busy
<1>1. CalmSession'
    BY <1>0 DEF CalmSession
<1>2. CalmThreads'
    BY <1>0 DEF CalmThreads, Busy
<1>3. CalmLists'
    BY <1>0 DEF CalmLists, BackPointers, CalmCustody
<1>4. CalmCustody'
    BY <1>0 DEF CalmCustody, CalmThreads, SenderHolds, Completed, Busy
<1>5. CalmSender'
    BY <1>0 DEF CalmSender, CalmCustody, SenderHolds, HandsOK, Busy
<1>6. CalmNumbers'
    BY <1>0 DEF CalmNumbers, CalmCustody, FirstSeq
<1>7. CalmResponses'
    BY <1>0 DEF CalmResponses, CalmCustody, SenderHolds
<1> QED
    BY <1>1, <1>2, <1>3, <1>4, <1>5, <1>6, <1>7

\* The driver sends the request.
LEMMA CalmSenderDriver ==
    ASSUME Calm, TypeInv, CalmInv, SenderDriver
    PROVE  CalmInv'
<1> USE DEF CalmInv, TypeInv, TypeOK, AnyKio, SenderDriver, SenderUnchanged,
            kiovars, queues, sender, receiver, history, session
<1>0. skio \in Kio /\ conn = "up" /\ spc' = "ok"
    BY DEF HandsOK, Busy, CalmSession
<1>a. kio_seq[skio] \in Nat /\ 0 < kio_seq[skio] /\ kio_seq[skio] < kts_sequence
    BY <1>0 DEF CalmSender, CalmNumbers, FirstSeq
<1>1. CalmSession'
    BY <1>0, <1>a DEF CalmSession
<1>2. CalmThreads'
    BY <1>0, <1>a DEF CalmThreads, Busy
<1>3. CalmLists'
    BY <1>0, <1>a DEF CalmLists, BackPointers, CalmCustody
<1>4. CalmCustody'
    BY <1>0, <1>a DEF CalmCustody, CalmThreads, SenderHolds, Completed, Busy
<1>5. CalmSender'
    BY <1>0, <1>a DEF CalmSender, CalmCustody, SenderHolds, HandsOK, Busy
<1>6. CalmNumbers'
    BY <1>0, <1>a DEF CalmNumbers, CalmCustody, FirstSeq
<1>7. CalmResponses'
    BY <1>0, <1>a DEF CalmResponses, CalmCustody, SenderHolds
<1> QED
    BY <1>1, <1>2, <1>3, <1>4, <1>5, <1>6, <1>7

\* The sender marks the request sent, if nothing has become of it yet.
LEMMA CalmSenderSent ==
    ASSUME Calm, TypeInv, CalmInv, SenderSent
    PROVE  CalmInv'
<1> USE DEF CalmInv, TypeInv, TypeOK, AnyKio, SenderSent, MarkSent,
            SenderUnchanged, kiovars, queues, sender, receiver, history,
            session
<1>0. skio \in Kio
    BY DEF HandsOK, Busy
<1>1. CalmSession'
    BY <1>0, KtliAssumption DEF CalmSession
<1>2. CalmThreads'
    BY <1>0, KtliAssumption DEF CalmThreads, Busy
<1>3. CalmLists'
    BY <1>0, KtliAssumption DEF CalmLists, BackPointers, CalmCustody
<1>4. CalmCustody'
    BY <1>0, KtliAssumption
    DEF CalmCustody, CalmThreads, SenderHolds, Completed, Busy
<1>5. CalmSender'
    BY <1>0, KtliAssumption
    DEF CalmSender, CalmCustody, SenderHolds, HandsOK, Busy
<1>6. CalmNumbers'
    BY <1>0, KtliAssumption DEF CalmNumbers, CalmCustody, FirstSeq
<1>7. CalmResponses'
    BY <1>0, KtliAssumption DEF CalmResponses, CalmCustody, SenderHolds
<1> QED
    BY <1>1, <1>2, <1>3, <1>4, <1>5, <1>6, <1>7

\* The sender completes a request that has no response.
LEMMA CalmSenderComplete ==
    ASSUME Calm, TypeInv, CalmInv, SenderComplete
    PROVE  CalmInv'
<1> USE DEF CalmInv, TypeInv, TypeOK, AnyKio, SenderComplete, SenderUnchanged,
            kiovars, queues, sender, receiver, history, session
<1>0. /\ spc = "compR" /\ skio \in kio_reqonly /\ skio \in Kio
      /\ cpc[skio] = "out" /\ kio_qbp[skio] = "null" /\ rkio # skio
    BY DEF HandsOK, Busy, CalmThreads, SenderHolds, CalmCustody
<1>a. /\ NoDup(compq')
      /\ \A y : Contains(compq', y) <=> Contains(compq, y) \/ y = skio
    <2>1. ~Contains(compq, skio) /\ NoDup(compq) /\ compq' = Append(compq, skio)
        BY <1>0 DEF CalmLists, BackPointers
    <2> QED
        BY <1>0, <2>1, AppendList
<1>1. CalmSession'
    BY <1>0, KtliAssumption, <1>a DEF CalmSession
<1>2. CalmThreads'
    BY <1>0, KtliAssumption, <1>a DEF CalmThreads, Busy
<1>3. CalmLists'
    BY <1>0, KtliAssumption, <1>a DEF CalmLists, BackPointers, CalmCustody
<1>4. CalmCustody'
    BY <1>0, KtliAssumption, <1>a
    DEF CalmCustody, CalmThreads, SenderHolds, Completed, Busy
<1>5. CalmSender'
    BY <1>0, KtliAssumption, <1>a
    DEF CalmSender, CalmCustody, SenderHolds, HandsOK, Busy
<1>6. CalmNumbers'
    BY <1>0, KtliAssumption, <1>a DEF CalmNumbers, CalmCustody, FirstSeq
<1>7. CalmResponses'
    BY <1>0, KtliAssumption, <1>a DEF CalmResponses, CalmCustody, SenderHolds
<1> QED
    BY <1>1, <1>2, <1>3, <1>4, <1>5, <1>6, <1>7

\* The receiver starts, polls and finds nothing more to time out.
LEMMA CalmReceiverIdle ==
    ASSUME Calm, TypeInv, CalmInv, ReceiverStart \/ PollIdle \/ ReadMessage \/ TimeoutDone
    PROVE  CalmInv'
<1> USE DEF CalmInv, TypeInv, TypeOK, AnyKio, ReceiverStart, PollIdle,
            ReadMessage, TimeoutDone, Again, RqExit, ReceiverUnchanged,
            kiovars, queues, sender, receiver, history, session
<1>0. xpc = "none"
    BY DEF CalmSession
<1>1. CalmSession'
    BY <1>0 DEF CalmSession
<1>2. CalmThreads'
    BY <1>0 DEF CalmThreads, Busy
<1>3. CalmLists'
    BY <1>0 DEF CalmLists, BackPointers, CalmCustody
<1>4. CalmCustody'
    BY SMTT(60), <1>0 DEF CalmCustody, CalmThreads, SenderHolds, Completed, Busy
<1>5. CalmSender'
    BY ZenonT(60), <1>0 DEF CalmSender, CalmCustody, SenderHolds, HandsOK, Busy
<1>6. CalmNumbers'
    BY <1>0 DEF CalmNumbers, CalmCustody, FirstSeq
<1>7. CalmResponses'
    BY <1>0 DEF CalmResponses, CalmCustody, SenderHolds
<1> QED
    BY <1>1, <1>2, <1>3, <1>4, <1>5, <1>6, <1>7

\* A response arrives; only requests the driver has sent are answered.
LEMMA CalmPollResponse ==
    ASSUME Calm, TypeInv, CalmInv, NEW s \in server, PollResponse(s)
    PROVE  CalmInv'
<1> USE DEF CalmInv, TypeInv, TypeOK, AnyKio, PollResponse, Polling,
            ReceiverUnchanged, kiovars, queues, sender, receiver, history,
            session
<1>0. rmsg' = [aseq |-> s, req |-> s] /\ s \in Nat
    BY DEF Calm
<1>a. rmsg'.aseq = s /\ rmsg'.req = s
    BY <1>0
<1>b. 0 < s /\ s < kts_sequence
    BY DEF CalmNumbers
<1>1. CalmSession'
    BY <1>0, <1>a DEF CalmSession
<1>2. CalmThreads'
    BY <1>0, <1>a DEF CalmThreads, Busy
<1>3. CalmLists'
    BY <1>0, <1>a DEF CalmLists, BackPointers, CalmCustody
<1>4. CalmCustody'
    BY <1>0, <1>a DEF CalmCustody, CalmThreads, SenderHolds, Completed, Busy
<1>5. CalmSender'
    BY <1>0, <1>a DEF CalmSender, CalmCustody, SenderHolds, HandsOK, Busy
<1>6. CalmNumbers'
    <2>1. rkio' = rkio /\ rpc' = "read" /\ server' = server \ {s}
          /\ kts_sequence' = kts_sequence
        OBVIOUS
    <2>2. CalmNumbers
        OBVIOUS
    <2> HIDE DEF CalmInv, TypeInv, PollResponse
    <2> QED
        BY <1>a, <1>b, <2>1, <2>2 DEF CalmNumbers
<1>7. CalmResponses'
    BY <1>0, <1>a DEF CalmResponses, CalmCustody, SenderHolds
<1> QED
    BY <1>1, <1>2, <1>3, <1>4, <1>5, <1>6, <1>7

\* An unsolicited message arrives.
LEMMA CalmPollUnsolicited ==
    ASSUME Calm, TypeInv, CalmInv, PollUnsolicited
    PROVE  CalmInv'
<1> USE DEF CalmInv, TypeInv, TypeOK, AnyKio, PollUnsolicited, Polling,
            ReceiverUnchanged, kiovars, queues, sender, receiver, history,
            session
<1>0. rmsg'.aseq = -1 /\ rmsg'.req = 0
    OBVIOUS
<1>1. CalmSession'
    BY <1>0 DEF CalmSession
<1>2. CalmThreads'
    BY <1>0 DEF CalmThreads, Busy
<1>3. CalmLists'
    BY <1>0 DEF CalmLists, BackPointers, CalmCustody
<1>4. CalmCustody'
    BY <1>0 DEF CalmCustody, CalmThreads, SenderHolds, Completed, Busy
<1>5. CalmSender'
    BY <1>0 DEF CalmSender, CalmCustody, SenderHolds, HandsOK, Busy
<1>6. CalmNumbers'
    BY <1>0 DEF CalmNumbers, CalmCustody, FirstSeq
<1>7. CalmResponses'
    BY <1>0 DEF CalmResponses, CalmCustody, SenderHolds
<1> QED
    BY <1>1, <1>2, <1>3, <1>4, <1>5, <1>6, <1>7

\* A late response is tossed.
LEMMA CalmMatchToss ==
    ASSUME Calm, TypeInv, CalmInv, MatchToss
    PROVE  CalmInv'
<1> USE DEF CalmInv, TypeInv, TypeOK, AnyKio, MatchToss, AfterMessage, Again,
            RqExit, NoMsg, ReceiverUnchanged, kiovars, queues, sender,
            receiver, history, session
<1>0. xpc = "none" /\ rmsg'.aseq = 0 /\ rmsg'.req = 0
    BY DEF CalmSession
<1>1. CalmSession'
    BY <1>0 DEF CalmSession
<1>2. CalmThreads'
    BY <1>0 DEF CalmThreads, Busy
<1>3. CalmLists'
    BY <1>0 DEF CalmLists, BackPointers, CalmCustody
<1>4. CalmCustody'
    BY <1>0 DEF CalmCustody, CalmThreads, SenderHolds, Completed, Busy
<1>5. CalmSender'
    BY <1>0
    DEF CalmSender, CalmCustody, SenderHolds, HandsOK, Busy, CalmNumbers,
        FirstSeq
<1>6. CalmNumbers'
    BY <1>0 DEF CalmNumbers, CalmCustody, FirstSeq
<1>7. CalmResponses'
    BY <1>0 DEF CalmResponses, CalmCustody, SenderHolds
<1> QED
    BY <1>1, <1>2, <1>3, <1>4, <1>5, <1>6, <1>7

\* A response takes the request it answers off recvq, and never one that the
\* sender is still about to send.
LEMMA CalmMatchFound ==
    ASSUME Calm, TypeInv, CalmInv, MatchFound
    PROVE  CalmInv'
<1> USE DEF CalmInv, TypeInv, TypeOK, AnyKio, MatchFound, TakeFromRecvq,
            ReceiverUnchanged, kiovars, queues, sender, receiver, history,
            session
<1>0. PICK k \in Kio :
          /\ kio_seq[k] = rmsg.aseq /\ rmsg.aseq > 0 /\ kio_qbp[k] = "recvq"
          /\ rkio' = k /\ rpc' = "comp"
          /\ kio_qbp' = [kio_qbp EXCEPT ![k] = "null"]
          /\ NoDup(recvq')
          /\ \A y : Contains(recvq', y) <=> Contains(recvq, y) /\ y # k
    <2>1. PICK i \in DOMAIN recvq :
              rmsg.aseq > 0 /\ kio_seq[recvq[i]] = rmsg.aseq /\ TakeFromRecvq(i)
        OBVIOUS
    <2> HIDE DEF MatchFound
    <2>2. recvq \in Seq(Kio) /\ NoDup(recvq) /\ recvq' = RemoveAt(recvq, i)
        BY <2>1 DEF CalmLists
    <2>3. /\ recvq[i] \in Kio /\ Contains(recvq, recvq[i])
          /\ NoDup(recvq')
          /\ \A y : Contains(recvq', y) <=> Contains(recvq, y) /\ y # recvq[i]
        BY <2>2, RemoveIndex
    <2>4. kio_qbp[recvq[i]] = "recvq"
        BY <2>3 DEF CalmLists, BackPointers
    <2> QED
        BY <2>1, <2>3, <2>4
<1>a. /\ cpc[k] = "out" /\ k \notin kio_reqonly /\ ~SenderHolds(k)
      /\ spc \in {"queued", "armed"} => skio # k
    BY <1>0 DEF CalmCustody, CalmSender
<1>b. /\ rpc = "match"
      /\ UNCHANGED <<sendq, compq, kio_state, kio_seq, kio_timeout, kio_recvmsg,
                     kio_reqonly, rmsg, kts_state, conn, server, sender, history,
                     cpc, drain, xpc>>
    OBVIOUS
<1> HIDE DEF MatchFound, TakeFromRecvq
<1>1. CalmSession'
    BY <1>0, <1>a, <1>b, KtliAssumption DEF CalmSession
<1>2. CalmThreads'
    BY <1>0, <1>a, <1>b, KtliAssumption DEF CalmThreads, Busy
<1>3. CalmLists'
    BY <1>0, <1>a, <1>b, KtliAssumption
    DEF CalmLists, BackPointers, CalmCustody
<1>4. CalmCustody'
    BY SMTT(60), <1>0, <1>a, <1>b, KtliAssumption
    DEF CalmCustody, CalmThreads, SenderHolds, Completed, Busy
<1>5. CalmSender'
    BY <1>0, <1>a, <1>b, KtliAssumption
    DEF CalmSender, CalmCustody, SenderHolds, HandsOK, Busy
<1>6. CalmNumbers'
    BY <1>0, <1>a, <1>b, KtliAssumption DEF CalmNumbers, CalmCustody, FirstSeq
<1>7. CalmResponses'
    BY <1>0, <1>a, <1>b, KtliAssumption
    DEF CalmResponses, CalmCustody, SenderHolds, CalmNumbers
<1> QED
    BY <1>1, <1>2, <1>3, <1>4, <1>5, <1>6, <1>7

\* An unsolicited message gets a kio that is in no other use.
LEMMA CalmMatchUnsolicited ==
    ASSUME Calm, TypeInv, CalmInv, MatchUnsolicited
    PROVE  CalmInv'
<1> USE DEF CalmInv, TypeInv, TypeOK, AnyKio, MatchUnsolicited,
            ReceiverUnchanged, kiovars, queues, sender, receiver, history,
            session
<1>0. PICK u \in Unsol :
          /\ kio_qbp[u] = "null" /\ rkio' = u /\ u \notin Kio
          /\ kio_state' = [kio_state EXCEPT ![u] = "NEW"]
    BY KtliAssumption
<1>1. CalmSession'
    BY <1>0, KtliAssumption DEF CalmSession
<1>2. CalmThreads'
    BY <1>0, KtliAssumption DEF CalmThreads, Busy
<1>3. CalmLists'
    BY <1>0, KtliAssumption DEF CalmLists, BackPointers, CalmCustody
<1>4. CalmCustody'
    BY SMTT(60), <1>0, KtliAssumption
    DEF CalmCustody, CalmThreads, SenderHolds, Completed, Busy
<1>5. CalmSender'
    BY <1>0, KtliAssumption
    DEF CalmSender, CalmCustody, SenderHolds, HandsOK, Busy
<1>6. CalmNumbers'
    BY <1>0, KtliAssumption DEF CalmNumbers, CalmCustody, FirstSeq
<1>7. CalmResponses'
    BY <1>0, KtliAssumption DEF CalmResponses, CalmCustody, SenderHolds
<1> QED
    BY <1>1, <1>2, <1>3, <1>4, <1>5, <1>6, <1>7

\* The receiver completes a request with its response.
LEMMA CalmRecvComplete ==
    ASSUME Calm, TypeInv, CalmInv, RecvComplete
    PROVE  CalmInv'
<1> USE DEF CalmInv, TypeInv, TypeOK, AnyKio, RecvComplete, AfterMessage,
            Again, RqExit, NoMsg, ReceiverUnchanged, kiovars, queues, sender,
            receiver, history, session
<1>0. /\ xpc = "none" /\ rkio \in AnyKio /\ kio_qbp[rkio] = "null"
      /\ rmsg'.aseq = 0 /\ rmsg'.req = 0
      /\ rkio \in Kio => cpc[rkio] = "out" /\ ~SenderHolds(rkio)
    BY DEF CalmSession, HandsOK, CalmCustody
<1>a. /\ NoDup(compq')
      /\ \A y : Contains(compq', y) <=> Contains(compq, y) \/ y = rkio
    <2>1. ~Contains(compq, rkio) /\ NoDup(compq) /\ compq' = Append(compq, rkio)
        BY <1>0 DEF CalmLists, BackPointers
    <2> QED
        BY <1>0, <2>1, AppendList
<1>1. CalmSession'
    BY <1>0, <1>a, KtliAssumption DEF CalmSession
<1>2. CalmThreads'
    BY <1>0, <1>a, KtliAssumption DEF CalmThreads, Busy
<1>3. CalmLists'
    BY <1>0, <1>a, KtliAssumption DEF CalmLists, BackPointers, CalmCustody
<1>4. CalmCustody'
    BY SMTT(60), <1>0, <1>a, KtliAssumption
    DEF CalmCustody, CalmThreads, SenderHolds, Completed, Busy
<1>5. CalmSender'
    BY <1>0, <1>a, KtliAssumption
    DEF CalmSender, CalmCustody, SenderHolds, HandsOK, Busy, CalmNumbers,
        FirstSeq
<1>6. CalmNumbers'
    BY <1>0, <1>a, KtliAssumption DEF CalmNumbers, CalmCustody, FirstSeq
<1>7. CalmResponses'
    BY <1>0, <1>a, KtliAssumption
    DEF CalmResponses, CalmCustody, SenderHolds, CalmNumbers
<1> QED
    BY <1>1, <1>2, <1>3, <1>4, <1>5, <1>6, <1>7

\* The timeout scan completes an overdue request, and never one that the sender
\* is still about to send.
LEMMA CalmTimeoutOne ==
    ASSUME Calm, TypeInv, CalmInv, TimeoutOne
    PROVE  CalmInv'
<1> USE DEF CalmInv, TypeInv, TypeOK, AnyKio, TimeoutOne, Overdue,
            ReceiverUnchanged, kiovars, queues, sender, receiver, history,
            session
<1>0. PICK k \in Kio :
          /\ kio_timeout[k] = "expired" /\ kio_qbp[k] = "recvq"
          /\ kio_qbp' = [kio_qbp EXCEPT ![k] = "compq"]
          /\ kio_state' = [kio_state EXCEPT ![k] = "TIMEDOUT"]
          /\ NoDup(recvq') /\ NoDup(compq')
          /\ \A y : Contains(recvq', y) <=> Contains(recvq, y) /\ y # k
          /\ \A y : Contains(compq', y) <=> Contains(compq, y) \/ y = k
    <2>1. PICK i \in DOMAIN recvq :
              /\ Overdue(recvq[i])
              /\ recvq' = RemoveAt(recvq, i)
              /\ compq' = Append(compq, recvq[i])
              /\ kio_qbp' = [kio_qbp EXCEPT ![recvq[i]] = "compq"]
              /\ kio_state' = [kio_state EXCEPT ![recvq[i]] = "TIMEDOUT"]
        OBVIOUS
    <2> HIDE DEF TimeoutOne
    <2>2. /\ recvq \in Seq(Kio) /\ NoDup(recvq)
          /\ compq \in Seq(AnyKio) /\ NoDup(compq)
        BY DEF CalmLists
    <2>3. /\ recvq[i] \in Kio /\ Contains(recvq, recvq[i])
          /\ NoDup(recvq')
          /\ \A y : Contains(recvq', y) <=> Contains(recvq, y) /\ y # recvq[i]
        BY <2>1, <2>2, RemoveIndex
    <2>4. kio_qbp[recvq[i]] = "recvq" /\ ~Contains(compq, recvq[i])
        BY <2>3 DEF CalmLists, BackPointers
    <2>5. /\ NoDup(compq')
          /\ \A y : Contains(compq', y) <=> Contains(compq, y) \/ y = recvq[i]
        BY <2>1, <2>2, <2>3, <2>4, AppendList
    <2>6. kio_timeout[recvq[i]] = "expired"
        BY <2>1 DEF Calm
    <2> QED
        BY <2>1, <2>2, <2>3, <2>4, <2>5, <2>6
<1>a. /\ cpc[k] = "out" /\ k \notin kio_reqonly /\ ~SenderHolds(k) /\ rkio # k
      /\ spc \in {"queued", "armed"} => skio # k
    BY <1>0 DEF CalmCustody, CalmSender
<1>b. /\ rpc = "tmo"
      /\ UNCHANGED <<sendq, kio_seq, kio_timeout, kio_recvmsg, kio_reqonly,
                     receiver, kts_state, conn, server, sender, history, cpc,
                     drain, xpc>>
    OBVIOUS
<1> HIDE DEF TimeoutOne
<1>1. CalmSession'
    BY <1>0, <1>a, <1>b DEF CalmSession
<1>2. CalmThreads'
    BY <1>0, <1>a, <1>b DEF CalmThreads, Busy
<1>3. CalmLists'
    BY <1>0, <1>a, <1>b DEF CalmLists, BackPointers, CalmCustody
<1>4. CalmCustody'
    BY <1>0, <1>a, <1>b
    DEF CalmCustody, CalmThreads, SenderHolds, Completed, Busy
<1>5. CalmSender'
    BY <1>0, <1>a, <1>b DEF CalmSender, CalmCustody, SenderHolds, HandsOK, Busy
<1>6. CalmNumbers'
    BY <1>0, <1>a, <1>b DEF CalmNumbers, CalmCustody, FirstSeq
<1>7. CalmResponses'
    BY <1>0, <1>a, <1>b DEF CalmResponses, CalmCustody, SenderHolds
<1> QED
    BY <1>1, <1>2, <1>3, <1>4, <1>5, <1>6, <1>7

\* Time passes for a request the sender is done with.
LEMMA CalmExpire ==
    ASSUME Calm, TypeInv, CalmInv, NEW k \in Kio, Expire(k)
    PROVE  CalmInv'
<1> USE DEF CalmInv, TypeInv, TypeOK, AnyKio, Expire, kiovars, queues, sender,
            receiver, history, session
<1>0. kio_qbp[k] = "recvq" /\ cpc[k] = "out" /\ skio # k
    BY DEF Calm, CalmLists, BackPointers, CalmCustody
<1>1. CalmSession'
    BY <1>0 DEF CalmSession
<1>2. CalmThreads'
    BY <1>0 DEF CalmThreads, Busy
<1>3. CalmLists'
    BY <1>0 DEF CalmLists, BackPointers, CalmCustody
<1>4. CalmCustody'
    BY <1>0 DEF CalmCustody, CalmThreads, SenderHolds, Completed, Busy
<1>5. CalmSender'
    BY <1>0 DEF CalmSender, CalmCustody, SenderHolds, HandsOK, Busy
<1>6. CalmNumbers'
    BY <1>0 DEF CalmNumbers, CalmCustody, FirstSeq
<1>7. CalmResponses'
    BY <1>0 DEF CalmResponses, CalmCustody, SenderHolds
<1> QED
    BY <1>1, <1>2, <1>3, <1>4, <1>5, <1>6, <1>7

\* Steps that a calm session does not take.
LEMMA CalmNever ==
    ASSUME Calm, CalmInv
    PROVE  /\ \A k \in Kio \cup {NoKio} : ~DrainCall(k)
           /\ ~DrainFront /\ ~DrainSkip /\ ~DrainMatch /\ ~DrainReturn
           /\ ~Disconnect /\ ~DisconnectEnd
           /\ ~CloseStart /\ ~CloseSendq /\ ~CloseFinish
           /\ ~SenderFailed /\ ~PollEof /\ ~ReadError /\ ~RecvmsgErr /\ ~RecvmsgStuck
           /\ ~MatchGarbled /\ ~MatchGarbledEmpty
           /\ ~PeerGone("fin") /\ ~PeerGone("rst")
<1>1. /\ \A k \in Kio \cup {NoKio} : ~DrainCall(k)
      /\ ~DrainFront /\ ~DrainSkip /\ ~DrainMatch /\ ~DrainReturn
    <2>1. kts_state # "DRAINING" /\ drain.at = 0
        BY DEF CalmInv, CalmSession, NoDrain
    <2>2. drain.at \notin 1 .. 3 /\ drain.at # 4
        BY <2>1
    <2>3. \A k \in Kio \cup {NoKio} : ~DrainCall(k)
        BY <2>1 DEF DrainCall
    <2>4. ~DrainFront /\ ~DrainSkip
        BY <2>2 DEF DrainFront, DrainSkip
    <2>5. ~DrainMatch /\ ~DrainReturn
        BY <2>2 DEF DrainMatch, DrainReturn
    <2> QED
        BY <2>3, <2>4, <2>5
<1>2. /\ ~Disconnect /\ ~DisconnectEnd
      /\ ~CloseStart /\ ~CloseSendq /\ ~CloseFinish
      /\ ~SenderFailed /\ ~PollEof /\ ~ReadError /\ ~RecvmsgErr /\ ~RecvmsgStuck
      /\ ~MatchGarbled /\ ~MatchGarbledEmpty
      /\ ~PeerGone("fin") /\ ~PeerGone("rst")
    BY DEF Calm, CalmInv, CalmSession, CalmThreads, CalmNumbers, Disconnect,
           DisconnectEnd, CloseStart, CloseSendq, CloseFinish, SenderFailed,
           PollEof, ReadError, RecvmsgErr, RecvmsgStuck, MatchGarbled, MatchGarbledEmpty, PeerGone
<1> QED
    BY <1>1, <1>2

\* A session that does nothing keeps the invariant.
LEMMA CalmStutter ==
    ASSUME CalmInv, UNCHANGED vars
    PROVE  CalmInv'
BY DEF vars, kiovars, queues, sender, receiver, history, session, CalmInv,
       CalmSession, CalmThreads, CalmLists, BackPointers, CalmCustody,
       SenderHolds, CalmSender, CalmNumbers, CalmResponses

\* The invariant holds of a session that has just been opened.
LEMMA CalmInit == Init => CalmInv
BY KtliAssumption
DEF Init, CalmInv, CalmSession, CalmThreads, Busy, CalmLists, NoDup,
    BackPointers, Contains, CalmCustody, SenderHolds, CalmSender, CalmNumbers,
    NoMsg, FirstSeq, CalmResponses, AnyKio

\* Every step of a calm session keeps the invariant.
LEMMA CalmStep ==
    ASSUME Calm, TypeInv, CalmInv, [Next]_vars
    PROVE  CalmInv'
<1>1. CASE Client
    BY <1>1, CalmSendCheck, CalmSendEnqueue, CalmReceive,
       CalmReceiveUnsolicited, CalmConnect, CalmNever DEF Client
<1>2. CASE Sender \/ SenderSpurious
    BY <1>2, CalmSenderIdle, CalmSenderPop, CalmSenderNumber, CalmSenderArm,
       CalmSenderDriver, CalmSenderSent, CalmSenderComplete, CalmNever DEF Sender
<1>3. CASE Receiver
    BY <1>3, CalmReceiverIdle, CalmPollResponse, CalmPollUnsolicited,
       CalmMatchToss, CalmMatchFound, CalmMatchUnsolicited, CalmRecvComplete,
       CalmTimeoutOne, CalmNever DEF Receiver
<1>4. CASE World
    BY <1>4, CalmExpire, CalmNever DEF World
<1>5. CASE UNCHANGED vars
    BY <1>5, CalmStutter
<1> QED
    BY <1>1, <1>2, <1>3, <1>4, <1>5 DEF Next

\* Whatever a connected session does, the invariant holds.
LEMMA CalmAlways ==
    ASSUME Calm
    PROVE  Spec => [](TypeInv /\ CalmInv)
<1>1. Init => TypeInv /\ CalmInv
    BY TypeInit, CalmInit
<1>2. TypeInv /\ CalmInv /\ [Next]_vars => TypeInv' /\ CalmInv'
    BY TypeStep, CalmStep
<1> QED
    BY <1>1, <1>2, PTL DEF Spec

-----------------------------------------------------------------------------
(* The theorems.  Calm is two kinds of session: those in which no kio is   *)
(* used again, with requests of both kinds, and those in which kios are    *)
(* reused at once, with no one-way request among them.                     *)

\* In a Calm session no kio is lost or shared: one the client has sent is on a
\* queue or in the hand of a thread that will queue it, one the client owns is
\* on no queue.  For any number of kios and requests.
THEOREM CustodySafe ==
    ASSUME Calm
    PROVE  Spec => []Custody
<1>1. TypeInv /\ CalmInv => Custody
    <2> SUFFICES ASSUME TypeInv, CalmInv, NEW k \in Kio
                 PROVE  /\ cpc[k] = "out" => Queued(k) \/ SenderHolds(k) \/ rkio = k
                        /\ cpc[k] # "out" => ~Queued(k) /\ ~SenderHolds(k) /\ rkio # k
        BY DEF Custody
    <2>1. Queued(k) <=> kio_qbp[k] # "null"
        BY DEF TypeInv, TypeOK, CalmInv, CalmLists, BackPointers, Queued, Queues,
               AnyKio
    <2> QED
        BY <2>1 DEF CalmInv, CalmCustody
<1> QED
    BY <1>1, CalmAlways, PTL

\* In a Calm session kio_qbp names the queue that holds the kio whenever
\* no thread is inside a critical section, for any number of kios.
THEOREM BackPointersSafe ==
    ASSUME Calm
    PROVE  Spec => []BackPointers
<1>1. CalmInv => BackPointers
    BY DEF CalmInv, CalmLists
<1> QED
    BY <1>1, CalmAlways, PTL

\* In a Calm session ktli_receive never gets to its assert(0) and no thread
\* takes an element of an empty list.  (With one-way requests in memory that is
\* used again it can get there: NeverAsserts.)
THEOREM CrashFree ==
    ASSUME Calm
    PROVE  Spec => []NoCrash
<1>1. CalmInv => NoCrash
    BY DEF CalmInv, CalmThreads, CalmCustody, NoCrash
<1> QED
    BY <1>1, CalmAlways, PTL

\* In a Calm session a completed kio carries the response to its own
\* request or none, in whatever order and however late responses come.
THEOREM ResponsesMatch ==
    ASSUME Calm
    PROVE  Spec => []ResponseMatches
<1>1. TypeInv /\ CalmInv => ResponseMatches
    BY DEF TypeInv, TypeOK, CalmInv, CalmLists, BackPointers, CalmResponses,
           ResponseMatches, AnyKio
<1> QED
    BY <1>1, CalmAlways, PTL

\* The outcome of a kio on compq is not touched by any step.
LEMMA StableStep ==
    ASSUME Calm, TypeInv, CalmInv, [Next]_vars,
           NEW k \in Kio, Contains(compq, k), Contains(compq', k)
    PROVE  kio_state'[k] = kio_state[k] /\ kio_recvmsg'[k] = kio_recvmsg[k]
<1>0. /\ kio_qbp[k] = "compq" /\ cpc[k] = "out" /\ kio_state[k] \in Completed
      /\ ~SenderHolds(k) /\ rkio # k
    BY DEF CalmInv, CalmLists, BackPointers, CalmCustody, AnyKio
<1> USE DEF TypeInv, TypeOK, AnyKio, kiovars, queues, sender, receiver, history,
            session
<1>1. ASSUME NEW j \in Kio, SendCheck(j) \/ SendEnqueue(j)
      PROVE  kio_state'[k] = kio_state[k] /\ kio_recvmsg'[k] = kio_recvmsg[k]
    BY <1>0, <1>1 DEF SendCheck, SendEnqueue
<1>2. CASE SenderSent
    BY <1>0, <1>2 DEF SenderSent, MarkSent, SenderUnchanged, Completed
<1>3. CASE SenderComplete
    <2>1. skio # k
        BY <1>0, <1>3 DEF SenderComplete, SenderHolds, CalmInv, CalmThreads
    <2> QED
        BY <2>1, <1>3 DEF SenderComplete, SenderUnchanged
<1>4. CASE MatchUnsolicited
    <2>1. \A u \in Unsol : u # k
        BY KtliAssumption
    <2> QED
        BY <2>1, <1>4 DEF MatchUnsolicited, ReceiverUnchanged
<1>5. CASE RecvComplete
    BY <1>0, <1>5 DEF RecvComplete, ReceiverUnchanged
<1>6. CASE TimeoutOne
    <2>1. \A i \in DOMAIN recvq : recvq[i] # k
        <3>1. ~Contains(recvq, k)
            BY <1>0 DEF CalmInv, CalmLists, BackPointers
        <3> QED
            BY <3>1, LenProperties DEF Contains
    <2> QED
        BY <2>1, <1>6 DEF TimeoutOne, ReceiverUnchanged
<1>7. CASE UNCHANGED <<kio_state, kio_recvmsg>>
    BY <1>7
<1>8. \/ \E j \in Kio : SendCheck(j) \/ SendEnqueue(j)
      \/ SenderSent \/ SenderComplete
      \/ MatchUnsolicited \/ RecvComplete \/ TimeoutOne
      \/ UNCHANGED <<kio_state, kio_recvmsg>>
    <2>1. CASE Client
        BY <2>1, CalmNever
        DEF Client, Receive, ReceiveUnsolicited, Connect
    <2>2. CASE Sender \/ SenderSpurious
        BY <2>2, CalmNever
        DEF Sender, SenderSpurious, SenderTop, SenderWoken, SenderLoop,
            SenderPop, SenderNumber, SenderArm, SenderDriver
    <2>3. CASE Receiver
        BY <2>3, CalmNever
        DEF Receiver, ReceiverStart, PollIdle, PollResponse, PollUnsolicited,
            ReadMessage, MatchToss, MatchFound, TakeFromRecvq, TimeoutDone
    <2>4. CASE World
        BY <2>4, CalmNever DEF World, Expire
    <2>5. CASE UNCHANGED vars
        BY <2>5 DEF vars
    <2> QED
        BY <2>1, <2>2, <2>3, <2>4, <2>5 DEF Next
<1> QED
    BY <1>1, <1>2, <1>3, <1>4, <1>5, <1>6, <1>7, <1>8

\* In a Calm session the outcome a client reads from a completed kio is
\* final, although the sender may still be running the code behind its send:
\* the compare-and-swap to KIO_SENT cannot undo a completion.
THEOREM CompletionsStable ==
    ASSUME Calm
    PROVE  Spec => CompletionStable
<1>1. TypeInv /\ CalmInv /\ [Next]_vars => [OutcomesKept]_vars
    BY StableStep DEF OutcomesKept
<1> QED
    BY <1>1, CalmAlways, PTL DEF Spec, CompletionStable

\* The inductive invariant itself: where every kio of a Calm session is,
\* which thread has it in hand, and which numbers are on the wire.
THEOREM CalmSafe ==
    ASSUME Calm
    PROVE  Spec => []CalmInv
BY CalmAlways, PTL

-----------------------------------------------------------------------------
(* A connected session implements KtliRpc.                                 *)

\* The variables of KtliRpc.
Phases == [k \in Kio |-> PhaseOf(k)]
Results == [k \in Kio |-> OutcomeOf(k)]

\* The actions of KtliRpc, read in terms of Phases and Results.
Moves(k, from, to, res) ==
    /\ PhaseOf(k) = from
    /\ Phases' = [Phases EXCEPT ![k] = to]
    /\ Results' = [Results EXCEPT ![k] = res]

LEMMA RpcNext ==
    ASSUME NEW k \in Kio,
           \/ OutcomeOf(k) = "none" /\ Moves(k, "idle", "pending", "none")
           \/ \E o \in Rpc!Outcomes(k) : Moves(k, "pending", "done", o)
           \/ Moves(k, "done", "idle", "none")
    PROVE  Rpc!Next
<1>1. Phases[k] = PhaseOf(k) /\ Results[k] = OutcomeOf(k)
    BY DEF Phases, Results
<1>2. CASE OutcomeOf(k) = "none" /\ Moves(k, "idle", "pending", "none")
    <2>1. Results' = Results
        BY <1>2 DEF Moves, Results
    <2>2. Rpc!Submit(k)
        BY <1>1, <1>2, <2>1 DEF Moves, Phases, Results, Rpc!Submit
    <2> QED
        BY <2>2 DEF Rpc!Next
<1>3. CASE \E o \in Rpc!Outcomes(k) : Moves(k, "pending", "done", o)
    <2>1. Rpc!Complete(k)
        BY <1>1, <1>3 DEF Moves, Phases, Results, Rpc!Complete
    <2> QED
        BY <2>1 DEF Rpc!Next
<1>4. CASE Moves(k, "done", "idle", "none")
    <2>1. Rpc!Collect(k)
        BY <1>1, <1>4 DEF Moves, Phases, Results, Rpc!Collect
    <2> QED
        BY <2>1 DEF Rpc!Next
<1> QED
    BY <1>2, <1>3, <1>4

\* A request is one-way or not, and stays so.
LEMMA RpcFlags ==
    ASSUME Calm, TypeInv, CalmInv, [Next]_vars
    PROVE  kio_reqonly = ReqOnly /\ kio_reqonly' = ReqOnly
BY CalmStep DEF CalmInv, CalmSession

\* A kio that stays where it is, as far as its client can see.
LEMMA RpcStays ==
    ASSUME Calm, TypeInv, CalmInv, [Next]_vars, NEW k \in Kio,
           cpc'[k] = "out" <=> cpc[k] = "out",
           Contains(compq', k) <=> Contains(compq, k),
           Contains(compq, k) => kio_seq'[k] = kio_seq[k]
    PROVE  PhaseOf(k)' = PhaseOf(k) /\ OutcomeOf(k)' = OutcomeOf(k)
<1>1. PhaseOf(k)' = PhaseOf(k)
    BY DEF PhaseOf
<1>2. CASE PhaseOf(k) # "done"
    <2>1. OutcomeOf(k) = "none"
        BY <1>2 DEF OutcomeOf
    <2>2. OutcomeOf(k)' = "none"
        BY <1>1, <1>2 DEF OutcomeOf
    <2> QED
        BY <1>1, <2>1, <2>2
<1>3. CASE PhaseOf(k) = "done"
    <2>1. Contains(compq, k)
        BY <1>3 DEF PhaseOf
    <2>2. /\ kio_state'[k] = kio_state[k] /\ kio_recvmsg'[k] = kio_recvmsg[k]
          /\ kio_seq'[k] = kio_seq[k]
        BY <2>1, StableStep
    <2> QED
        BY <1>1, <2>2, RpcFlags DEF OutcomeOf
<1> QED
    BY <1>2, <1>3

\* Only kio k moves.
LEMMA RpcMove ==
    ASSUME NEW k \in Kio,
           \A j \in Kio \ {k} : PhaseOf(j)' = PhaseOf(j) /\ OutcomeOf(j)' = OutcomeOf(j)
    PROVE  Moves(k, PhaseOf(k), PhaseOf(k)', OutcomeOf(k)')
BY DEF Moves, Phases, Results

LEMMA RpcInit == Init => Rpc!Init
BY DEF Init, Rpc!Init, PhaseOf, OutcomeOf

\* A request that is pending completes with outcome o.
LEMMA RpcCompletes ==
    ASSUME NEW k \in Kio, NEW o \in Rpc!Outcomes(k),
           \A j \in Kio \ {k} : PhaseOf(j)' = PhaseOf(j) /\ OutcomeOf(j)' = OutcomeOf(j),
           cpc[k] = "out", cpc'[k] = "out", ~Contains(compq, k), Contains(compq', k),
           OutcomeOf(k)' = o
    PROVE  Rpc!Next
<1>1. PhaseOf(k) = "pending" /\ PhaseOf(k)' = "done"
    BY DEF PhaseOf
<1>2. Moves(k, PhaseOf(k), PhaseOf(k)', OutcomeOf(k)')
    BY RpcMove
<1> QED
    BY <1>1, <1>2, RpcNext

\* Nothing a client can see happens.
LEMMA RpcQuiet ==
    ASSUME Calm, TypeInv, CalmInv, [Next]_vars,
           \A k \in Kio : /\ cpc'[k] = "out" <=> cpc[k] = "out"
                          /\ Contains(compq', k) <=> Contains(compq, k)
                          /\ Contains(compq, k) => kio_seq'[k] = kio_seq[k]
    PROVE  Phases' = Phases /\ Results' = Results
<1>1. \A k \in Kio : PhaseOf(k)' = PhaseOf(k) /\ OutcomeOf(k)' = OutcomeOf(k)
    BY RpcStays
<1> QED
    BY <1>1 DEF Phases, Results

\* A kio on compq is with its client and in nobody's hand.
LEMMA OnCompq ==
    ASSUME TypeInv, CalmInv, NEW k \in Kio, Contains(compq, k)
    PROVE  /\ kio_qbp[k] = "compq" /\ cpc[k] = "out" /\ ~SenderHolds(k)
           /\ rkio # k /\ ~Contains(recvq, k)
BY DEF CalmInv, CalmLists, BackPointers, CalmCustody, AnyKio

\* ktli_send: testing the session shows nothing, queueing submits.
LEMMA RpcSend ==
    ASSUME Calm, TypeInv, CalmInv, NEW k \in Kio, SendCheck(k) \/ SendEnqueue(k)
    PROVE  Rpc!Next \/ (Phases' = Phases /\ Results' = Results)
<1>0. [Next]_vars
    BY DEF Next, Client
<1>1. cpc \in [Kio -> {"idle", "sending", "out", "freed", "assert"}]
      /\ kio_seq \in [AnyKio -> Nat]
    BY DEF TypeInv, TypeOK
<1>2. cpc[k] # "out" /\ ~Contains(compq, k)
    BY OnCompq DEF SendCheck, SendEnqueue
<1>3. CASE SendCheck(k)
    <2>1. \A j \in Kio : /\ cpc'[j] = "out" <=> cpc[j] = "out"
                         /\ Contains(compq', j) <=> Contains(compq, j)
                         /\ Contains(compq, j) => kio_seq'[j] = kio_seq[j]
        BY <1>1, <1>2, <1>3 DEF SendCheck, queues, AnyKio
    <2> QED
        BY <1>0, <2>1, RpcQuiet
<1>4. CASE SendEnqueue(k)
    <2>1. \A j \in Kio \ {k} : PhaseOf(j)' = PhaseOf(j) /\ OutcomeOf(j)' = OutcomeOf(j)
        <3> TAKE j \in Kio \ {k}
        <3>1. /\ cpc'[j] = "out" <=> cpc[j] = "out"
              /\ Contains(compq', j) <=> Contains(compq, j)
              /\ kio_seq'[j] = kio_seq[j]
            BY <1>1, <1>4 DEF SendEnqueue
        <3> QED
            BY <1>0, <3>1, RpcStays
    <2>2. cpc'[k] = "out" /\ compq' = compq
        BY <1>1, <1>4 DEF SendEnqueue
    <2>3. PhaseOf(k) = "idle" /\ OutcomeOf(k) = "none"
        BY <1>2 DEF PhaseOf, OutcomeOf
    <2>4. PhaseOf(k)' = "pending" /\ OutcomeOf(k)' = "none"
        BY <1>2, <2>2 DEF PhaseOf, OutcomeOf
    <2>5. Moves(k, PhaseOf(k), PhaseOf(k)', OutcomeOf(k)')
        BY <2>1, RpcMove
    <2> QED
        BY <2>3, <2>4, <2>5, RpcNext
<1> QED
    BY <1>3, <1>4

\* ktli_receive collects.
LEMMA RpcReceive ==
    ASSUME Calm, TypeInv, CalmInv, NEW k \in Kio, Receive(k)
    PROVE  Rpc!Next
<1>0. [Next]_vars
    BY DEF Next, Client
<1>1. /\ cpc \in [Kio -> {"idle", "sending", "out", "freed", "assert"}]
      /\ compq \in Seq(AnyKio)
    BY DEF TypeInv, TypeOK
<1>2. kio_qbp[k] = "compq" /\ cpc[k] = "out" /\ Contains(compq, k) /\ NoDup(compq)
    BY DEF CalmInv, CalmLists, BackPointers, CalmCustody, Receive, AnyKio
<1>3. /\ compq' = Dequeue(compq, k) /\ cpc' = [cpc EXCEPT ![k] = Retired]
      /\ kio_seq' = kio_seq
    BY <1>2 DEF Receive
<1>4. \A y : Contains(compq', y) <=> Contains(compq, y) /\ y # k
    BY <1>1, <1>2, <1>3, DequeueList
<1>5. cpc'[k] # "out"
    BY <1>1, <1>3 DEF Retired
<1>6. \A j \in Kio \ {k} : PhaseOf(j)' = PhaseOf(j) /\ OutcomeOf(j)' = OutcomeOf(j)
    <2> TAKE j \in Kio \ {k}
    <2>1. /\ cpc'[j] = "out" <=> cpc[j] = "out"
          /\ Contains(compq', j) <=> Contains(compq, j)
          /\ kio_seq'[j] = kio_seq[j]
        BY <1>1, <1>3, <1>4
    <2> QED
        BY <1>0, <2>1, RpcStays
<1>7. PhaseOf(k) = "done"
    BY <1>2 DEF PhaseOf
<1>8. PhaseOf(k)' = "idle" /\ OutcomeOf(k)' = "none"
    BY <1>5 DEF PhaseOf, OutcomeOf
<1>9. Moves(k, PhaseOf(k), PhaseOf(k)', OutcomeOf(k)')
    BY <1>6, RpcMove
<1> QED
    BY <1>7, <1>8, <1>9, RpcNext

\* A step that appends one request to compq and is seen to complete it.
LEMMA RpcAppend ==
    ASSUME Calm, TypeInv, CalmInv, [Next]_vars, NEW k \in Kio,
           NEW o \in Rpc!Outcomes(k),
           cpc[k] = "out", cpc' = cpc, kio_seq' = kio_seq, ~Contains(compq, k),
           \A y : Contains(compq', y) <=> Contains(compq, y) \/ y = k,
           PhaseOf(k)' = "done" => OutcomeOf(k)' = o
    PROVE  Rpc!Next
<1>1. \A j \in Kio \ {k} : PhaseOf(j)' = PhaseOf(j) /\ OutcomeOf(j)' = OutcomeOf(j)
    BY RpcStays
<1>2. PhaseOf(k)' = "done"
    BY DEF PhaseOf
<1> QED
    BY <1>1, <1>2, RpcCompletes

\* A request without a response completes as sent.
LEMMA RpcSenderComplete ==
    ASSUME Calm, TypeInv, CalmInv, SenderComplete
    PROVE  Rpc!Next
<1>0. [Next]_vars
    BY DEF Next, Sender
<1>1. /\ spc = "compR" /\ skio \in kio_reqonly /\ skio \in Kio
      /\ cpc[skio] = "out" /\ kio_qbp[skio] = "null"
    BY DEF SenderComplete, CalmInv, HandsOK, Busy, CalmThreads, SenderHolds,
           CalmCustody, TypeInv
<1>2. /\ ~Contains(compq, skio) /\ NoDup(compq) /\ compq' = Append(compq, skio)
      /\ compq \in Seq(AnyKio) /\ skio \in AnyKio
    BY <1>1 DEF SenderComplete, CalmInv, CalmLists, BackPointers, TypeInv, TypeOK,
                AnyKio
<1>3. \A y : Contains(compq', y) <=> Contains(compq, y) \/ y = skio
    BY <1>2, AppendList
<1>4. cpc' = cpc /\ kio_seq' = kio_seq /\ kio_state'[skio] = "RECEIVED"
    BY <1>1, <1>2 DEF SenderComplete, SenderUnchanged, TypeInv, TypeOK
<1>5. PICK k \in Kio : k = skio
    BY <1>1
<1>6. "sent" \in Rpc!Outcomes(k)
    BY <1>0, <1>1, <1>5, RpcFlags DEF Rpc!Outcomes
<1>7. PhaseOf(k)' = "done" => OutcomeOf(k)' = "sent"
    BY <1>0, <1>1, <1>4, <1>5, RpcFlags DEF OutcomeOf
<1> QED
    BY <1>0, <1>1, <1>2, <1>3, <1>4, <1>5, <1>6, <1>7, RpcAppend

\* A request whose response is in hand completes as answered; an unsolicited
\* message completes no request.
LEMMA RpcRecvComplete ==
    ASSUME Calm, TypeInv, CalmInv, RecvComplete
    PROVE  Rpc!Next \/ (Phases' = Phases /\ Results' = Results)
<1>0. [Next]_vars
    BY DEF Next, Receiver
<1>1. /\ rkio \in AnyKio /\ kio_qbp[rkio] = "null"
      /\ rkio \in Kio => cpc[rkio] = "out" /\ rkio \notin kio_reqonly
      /\ rkio \in Kio => rmsg.req = kio_seq[rkio]
    BY DEF RecvComplete, CalmInv, HandsOK, CalmCustody, CalmNumbers, TypeInv
<1>2. /\ ~Contains(compq, rkio) /\ NoDup(compq) /\ compq' = Append(compq, rkio)
      /\ compq \in Seq(AnyKio)
    BY <1>1 DEF RecvComplete, CalmInv, CalmLists, BackPointers, TypeInv, TypeOK
<1>3. \A y : Contains(compq', y) <=> Contains(compq, y) \/ y = rkio
    BY <1>1, <1>2, AppendList
<1>4. /\ cpc' = cpc /\ kio_seq' = kio_seq /\ kio_state'[rkio] = "RECEIVED"
      /\ kio_recvmsg'[rkio] = rmsg.req
    BY <1>1 DEF RecvComplete, ReceiverUnchanged, TypeInv, TypeOK
<1>5. CASE rkio \in Kio
    <2>1. PICK k \in Kio : k = rkio
        BY <1>5
    <2>2. "answered" \in Rpc!Outcomes(k)
        BY <1>0, <1>1, <2>1, RpcFlags DEF Rpc!Outcomes
    <2>3. PhaseOf(k)' = "done" => OutcomeOf(k)' = "answered"
        BY <1>0, <1>1, <1>4, <2>1, RpcFlags DEF OutcomeOf
    <2> QED
        BY <1>0, <1>1, <1>2, <1>3, <1>4, <2>1, <2>2, <2>3, RpcAppend
<1>6. CASE rkio \notin Kio
    BY <1>0, <1>3, <1>4, <1>6, RpcQuiet
<1> QED
    BY <1>5, <1>6

\* An overdue request completes as timed out.
LEMMA RpcTimeoutOne ==
    ASSUME Calm, TypeInv, CalmInv, TimeoutOne
    PROVE  Rpc!Next
<1>0. [Next]_vars
    BY DEF Next, Receiver
<1>1. PICK i \in DOMAIN recvq :
          /\ compq' = Append(compq, recvq[i])
          /\ kio_state' = [kio_state EXCEPT ![recvq[i]] = "TIMEDOUT"]
    BY DEF TimeoutOne
<1>2. /\ recvq \in Seq(Kio) /\ NoDup(recvq)
      /\ compq \in Seq(AnyKio) /\ NoDup(compq)
      /\ kio_state \in [AnyKio -> KioStates]
    BY DEF CalmInv, CalmLists, TypeInv, TypeOK
<1>3. PICK k \in Kio : k = recvq[i] /\ Contains(recvq, k)
    BY <1>2, RemoveIndex
<1>4. kio_qbp[k] = "recvq" /\ ~Contains(compq, k) /\ k \in AnyKio
    BY <1>3 DEF CalmInv, CalmLists, BackPointers, AnyKio
<1>5. cpc[k] = "out" /\ k \notin kio_reqonly
    BY <1>4 DEF CalmInv, CalmCustody
<1>6. \A y : Contains(compq', y) <=> Contains(compq, y) \/ y = k
    BY <1>1, <1>2, <1>3, <1>4, AppendList
<1>7. cpc' = cpc /\ kio_seq' = kio_seq
    BY DEF TimeoutOne, ReceiverUnchanged
<1>8. kio_state'[k] = "TIMEDOUT"
    BY <1>1, <1>2, <1>3, <1>4
<1>9. "timedout" \in Rpc!Outcomes(k)
    BY <1>0, <1>5, RpcFlags DEF Rpc!Outcomes
<1>10. PhaseOf(k)' = "done" => OutcomeOf(k)' = "timedout"
    BY <1>8 DEF OutcomeOf
<1> QED
    BY <1>0, <1>4, <1>5, <1>6, <1>7, <1>9, <1>10, RpcAppend

\* The other steps show nothing: they leave compq alone, or take an unsolicited
\* kio from it, and number no request that is on it.
LEMMA RpcOther ==
    ASSUME Calm, TypeInv, CalmInv,
           \/ ReceiveUnsolicited \/ SenderNumber
           \/ [Next]_vars /\ UNCHANGED <<cpc, compq, kio_seq>>
    PROVE  Phases' = Phases /\ Results' = Results
<1>1. CASE ReceiveUnsolicited
    <2>0. [Next]_vars
        BY <1>1 DEF Next, Client
    <2>1. PICK i \in DOMAIN compq : compq[i] \in Unsol /\ compq' = RemoveAt(compq, i)
        BY <1>1 DEF ReceiveUnsolicited
    <2>2. compq \in Seq(AnyKio) /\ NoDup(compq)
        BY DEF CalmInv, CalmLists, TypeInv, TypeOK
    <2>3. \A y : Contains(compq', y) <=> Contains(compq, y) /\ y # compq[i]
        BY <2>1, <2>2, RemoveIndex
    <2>4. cpc' = cpc /\ kio_seq' = kio_seq
        BY <1>1 DEF ReceiveUnsolicited
    <2> QED
        BY <2>0, <2>1, <2>3, <2>4, RpcQuiet, KtliAssumption
<1>2. CASE SenderNumber
    <2>0. [Next]_vars
        BY <1>2 DEF Next, Sender
    <2>1. SenderHolds(skio) /\ skio \in Kio
        BY <1>2 DEF SenderNumber, SenderHolds, TypeInv, HandsOK, Busy
    <2>2. ~Contains(compq, skio)
        BY <2>1, OnCompq
    <2>3. /\ cpc' = cpc /\ compq' = compq
          /\ kio_seq' = [kio_seq EXCEPT ![skio] = kts_sequence]
        BY <1>2 DEF SenderNumber, SenderUnchanged
    <2>4. \A k \in Kio : Contains(compq, k) => kio_seq'[k] = kio_seq[k]
        BY <2>2, <2>3 DEF TypeInv, TypeOK, AnyKio
    <2> QED
        BY <2>0, <2>3, <2>4, RpcQuiet
<1>3. CASE [Next]_vars /\ UNCHANGED <<cpc, compq, kio_seq>>
    BY <1>3, RpcQuiet
<1> QED
    BY <1>1, <1>2, <1>3

\* Every step of a connected session is a step of KtliRpc or shows nothing.
LEMMA RpcStep ==
    ASSUME Calm, TypeInv, CalmInv, [Next]_vars
    PROVE  Rpc!Next \/ (Phases' = Phases /\ Results' = Results)
<1>1. \/ \E k \in Kio : SendCheck(k) \/ SendEnqueue(k) \/ Receive(k)
      \/ SenderComplete \/ RecvComplete \/ TimeoutOne
      \/ ReceiveUnsolicited \/ SenderNumber
      \/ UNCHANGED <<cpc, compq, kio_seq>>
    <2> USE DEF kiovars, queues, sender, receiver, history, session,
                SenderUnchanged, ReceiverUnchanged
    <2>1. CASE Client
        BY <2>1, CalmNever DEF Client, Connect
    <2>2. CASE Sender \/ SenderSpurious
        BY <2>2, CalmNever
        DEF Sender, SenderSpurious, SenderTop, SenderWoken, SenderLoop,
            SenderPop, SenderArm, SenderDriver, SenderSent
    <2>3. CASE Receiver
        BY <2>3, CalmNever
        DEF Receiver, ReceiverStart, PollIdle, PollResponse, PollUnsolicited,
            ReadMessage, MatchToss, MatchFound, TakeFromRecvq, MatchUnsolicited,
            TimeoutDone
    <2>4. CASE World
        BY <2>4, CalmNever DEF World, Expire
    <2>5. CASE UNCHANGED vars
        BY <2>5 DEF vars
    <2> QED
        BY <2>1, <2>2, <2>3, <2>4, <2>5 DEF Next
<1> QED
    BY <1>1, RpcSend, RpcReceive, RpcSenderComplete, RpcRecvComplete,
       RpcTimeoutOne, RpcOther

\* A Calm session implements KtliRpc, with the threads, queues and numbers
\* hidden: each request completes once, after it was sent, with the response to
\* itself, a timeout or, without a response, as sent; and goes back to its client
\* after that.  For any number of kios and requests, one-way ones included when
\* no kio is used again, and of reuses when there are none.
THEOREM SessionImplementsRpc ==
    ASSUME Calm
    PROVE  Spec => RpcSpec
<1>1. Init => Rpc!Init
    BY RpcInit
<1>2. TypeInv /\ CalmInv /\ [Next]_vars => [Rpc!Next]_(Rpc!vars)
    BY RpcStep DEF Rpc!vars, Phases, Results
<1> QED
    BY <1>1, <1>2, CalmAlways, PTL DEF Spec, RpcSpec, Rpc!Spec
=============================================================================
