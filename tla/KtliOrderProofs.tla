-------------------------- MODULE KtliOrderProofs --------------------------
(***************************************************************************)
(* Requests are numbered in the order in which they were sent: connected   *)
(* sessions whose kios may be reused at once, and sessions that are        *)
(* disconnected, drained, reset, reconnected and closed, as long as the    *)
(* allocator does not return a kio that a thread may still have in hand.   *)
(***************************************************************************)
EXTENDS KtliProofs

\* A connected session, or any session whose freed kios do not come back.
Steady == Calm \/ "reuse" \notin Env

\* Later elements of list q were sent later.
Ascending(q, ord) == \A i, j \in DOMAIN q : i < j => ord[q[i]] < ord[q[j]]

\* A request the sender has numbered, one it is about to number, and one that
\* ktli_drain_match has just found on sendq.
Numbered(k) == cpc[k] = "out" /\ kio_seq[k] # 0
InHand(k) == spc = "hand" /\ skio = k
Drained(k) == drain.kio = k /\ drain.at = 4 /\ drain.found

\* sendq holds requests in the order of their ktli_send calls, none of them
\* numbered, all of them after the one in hand.
OrderQueue ==
    /\ Ascending(sendq, order)
    /\ \A k \in Kio : order[k] <= sends
    /\ \A k \in Kio : Contains(sendq, k) \/ InHand(k) => kio_seq[k] = 0
    /\ \A k \in Kio : spc = "hand" /\ Contains(sendq, k) => order[skio] < order[k]

\* A kio that is not yet sent is with its client only.
OrderFresh ==
    \A k \in Kio :
        /\ cpc[k] \in {"idle", "sending"} => ~Contains(sendq, k) /\ ~InHand(k)
        /\ cpc[k] = "sending" => kio_seq[k] = 0

\* Numbers are given out in ascending order, and never past a request that was
\* sent earlier.
OrderNumbers ==
    /\ 0 < kts_sequence
    /\ \A k \in Kio : kio_seq[k] < kts_sequence
    /\ \A j, k \in Kio : Numbered(j) /\ Numbered(k) /\ order[j] < order[k]
                         => kio_seq[j] < kio_seq[k]
    /\ \A j, k \in Kio : Numbered(j) /\ (Contains(sendq, k) \/ InHand(k))
                         => order[j] < order[k]

\* A request without a number waits for the sender, unless a drain call is about
\* to return it.
OrderWaiting ==
    \A k \in Kio : cpc[k] = "out" /\ kio_seq[k] = 0
                   => Contains(sendq, k) \/ InHand(k) \/ Drained(k)

\* ktli_close destroys an empty sendq that nobody is adding to.
OrderClosing ==
    xpc = "joinS" => /\ kts_state # "CONNECTED" /\ sendq = <<>>
                     /\ \A k \in Kio : cpc[k] # "sending"

OrderInv ==
    OrderQueue /\ OrderFresh /\ OrderNumbers /\ OrderWaiting /\ OrderClosing

-----------------------------------------------------------------------------
(* Ascending lists.                                                        *)

\* An ascending list has no duplicates.
LEMMA AscendingNoDup ==
    ASSUME NEW s \in Seq(Kio), NEW f \in [Kio -> Nat], Ascending(s, f)
    PROVE  NoDup(s)
<1> SUFFICES ASSUME NEW i \in DOMAIN s, NEW j \in DOMAIN s, s[i] = s[j]
             PROVE  i = j
    BY DEF NoDup
<1>1. i \in Nat /\ j \in Nat /\ s[i] \in Kio /\ f[s[i]] \in Nat
    BY LenProperties, ElementOfSeq
<1>2. ~(i < j) /\ ~(j < i)
    BY <1>1 DEF Ascending
<1> QED
    BY <1>1, <1>2

\* A request that was sent after all of a list goes to its end.
LEMMA AscendingAppend ==
    ASSUME NEW s \in Seq(Kio), NEW f \in [Kio -> Nat], NEW g \in [Kio -> Nat],
           NEW x \in Kio, Ascending(s, f),
           \A y \in Kio : Contains(s, y) => g[y] = f[y] /\ f[y] < g[x]
    PROVE  Ascending(Append(s, x), g)
<1> DEFINE t == Append(s, x)
<1>1. /\ Len(t) = Len(s) + 1 /\ Len(s) \in Nat /\ DOMAIN t = 1 .. Len(t)
      /\ \A i \in 1 .. Len(s) : t[i] = s[i]
      /\ t[Len(s) + 1] = x /\ t \in Seq(Kio)
    BY AppendProperties, LenProperties
<1>2. \A i \in 1 .. Len(s) : s[i] \in Kio /\ Contains(s, s[i]) /\ i \in DOMAIN s
    BY LenProperties, ElementOfSeq DEF Contains
<1> HIDE DEF t
<1> SUFFICES ASSUME NEW i \in DOMAIN t, NEW j \in DOMAIN t, i < j
             PROVE  g[t[i]] < g[t[j]]
    BY DEF Ascending, t
<1>3. i \in 1 .. Len(s)
    BY <1>1
<1>4. t[i] = s[i] /\ s[i] \in Kio /\ g[s[i]] = f[s[i]] /\ f[s[i]] < g[x]
    BY <1>1, <1>2, <1>3
<1>5. CASE j = Len(s) + 1
    BY <1>1, <1>4, <1>5
<1>6. CASE j \in 1 .. Len(s)
    <2>1. t[j] = s[j] /\ g[s[j]] = f[s[j]]
        BY <1>1, <1>2, <1>6
    <2>2. f[s[i]] < f[s[j]]
        BY <1>2, <1>3, <1>6 DEF Ascending
    <2> QED
        BY <1>4, <2>1, <2>2
<1> QED
    BY <1>1, <1>5, <1>6

\* What is left of an ascending list without one of its elements.
LEMMA AscendingRemove ==
    ASSUME NEW s \in Seq(Kio), NEW f \in [Kio -> Nat], Ascending(s, f),
           NEW i \in 1 .. Len(s)
    PROVE  /\ Ascending(RemoveAt(s, i), f)
           /\ \A y : Contains(RemoveAt(s, i), y) <=> Contains(s, y) /\ y # s[i]
<1> DEFINE t == RemoveAt(s, i)
<1>1. /\ Len(t) = Len(s) - 1
      /\ \A j \in 1 .. i - 1 : t[j] = s[j]
      /\ \A j \in i .. Len(s) - 1 : t[j] = s[j + 1]
    BY RemoveAtElements
<1>2. t \in Seq(Kio) /\ DOMAIN t = 1 .. Len(t)
    BY RemoveAtType, LenProperties
<1>3. Len(s) \in Nat /\ DOMAIN s = 1 .. Len(s)
    BY LenProperties
<1> HIDE DEF t
<1> DEFINE p(j) == IF j < i THEN j ELSE j + 1
<1>4. \A j \in DOMAIN t : p(j) \in DOMAIN s /\ t[j] = s[p(j)]
    <2> TAKE j \in DOMAIN t
    <2>1. j \in 1 .. Len(s) - 1
        BY <1>1, <1>2
    <2>2. CASE j < i
        BY SMTT(60), <1>1, <1>3, <2>1, <2>2
    <2>3. CASE ~(j < i)
        BY SMTT(60), <1>1, <1>3, <2>1, <2>3
    <2> QED
        BY <2>2, <2>3
<1>5. \A j, k \in DOMAIN t : j < k => p(j) < p(k)
    <2>1. \A j \in DOMAIN t : j \in Nat
        BY <1>2
    <2> QED
        BY <2>1
<1> HIDE DEF p
<1>6. Ascending(t, f)
    BY <1>4, <1>5 DEF Ascending
<1>7. \A y : Contains(t, y) <=> Contains(s, y) /\ y # s[i]
    BY AscendingNoDup, RemoveList DEF t
<1> QED
    BY <1>6, <1>7 DEF t

\* The front of an ascending list was sent before the rest.
LEMMA AscendingTail ==
    ASSUME NEW s \in Seq(Kio), NEW f \in [Kio -> Nat], Ascending(s, f), s # <<>>
    PROVE  /\ Ascending(Tail(s), f) /\ Head(s) \in Kio /\ Contains(s, Head(s))
           /\ \A y : Contains(Tail(s), y) <=> Contains(s, y) /\ y # Head(s)
           /\ \A y \in Kio : Contains(Tail(s), y) => f[Head(s)] < f[y]
<1>1. 1 \in 1 .. Len(s) /\ Len(s) \in Nat /\ DOMAIN s = 1 .. Len(s)
    BY EmptySeq, LenProperties
<1>2. /\ Tail(s) \in Seq(Kio) /\ Len(Tail(s)) = Len(s) - 1
      /\ \A i \in 1 .. Len(Tail(s)) : Tail(s)[i] = s[i + 1]
      /\ Head(s) = s[1] /\ Head(s) \in Kio
    BY HeadTailProperties, <1>1, TailType
<1>3. DOMAIN Tail(s) = 1 .. Len(s) - 1
    BY <1>2, LenProperties
<1>4. Ascending(Tail(s), f)
    <2> SUFFICES ASSUME NEW i \in DOMAIN Tail(s), NEW j \in DOMAIN Tail(s), i < j
                 PROVE  f[Tail(s)[i]] < f[Tail(s)[j]]
        BY DEF Ascending
    <2>1. /\ Tail(s)[i] = s[i + 1] /\ Tail(s)[j] = s[j + 1]
          /\ i + 1 \in DOMAIN s /\ j + 1 \in DOMAIN s /\ i + 1 < j + 1
        BY SMTT(60), <1>1, <1>2, <1>3
    <2> QED
        BY <2>1 DEF Ascending
<1>5. NoDup(s)
    BY AscendingNoDup
<1>6. /\ Contains(s, Head(s))
      /\ \A y : Contains(Tail(s), y) <=> Contains(s, y) /\ y # Head(s)
    BY <1>5, TailList
<1>7. ASSUME NEW y \in Kio, Contains(Tail(s), y) PROVE f[Head(s)] < f[y]
    <2>1. PICK i \in 1 .. Len(Tail(s)) : Tail(s)[i] = y
        BY <1>7 DEF Contains
    <2>2. s[i + 1] = y /\ i + 1 \in DOMAIN s /\ 1 \in DOMAIN s /\ 1 < i + 1
        BY <1>1, <1>2, <2>1
    <2> QED
        BY <1>2, <2>2 DEF Ascending
<1> QED
    BY <1>2, <1>4, <1>6, <1>7

-----------------------------------------------------------------------------
(* The steps.                                                              *)

\* Steps that number nothing, send nothing and give the sender nothing: sendq
\* may lose a kio to a drain call, a client may give a kio up.
LEMMA OrderKept ==
    ASSUME TypeInv, OrderInv, OrderClosing',
           UNCHANGED <<order, sends, kio_seq, kts_sequence>>,
           spc' = "hand" <=> spc = "hand", spc = "hand" => skio' = skio,
           Ascending(sendq', order),
           \A k \in Kio :
               /\ Contains(sendq', k) => Contains(sendq, k)
               /\ Contains(sendq, k) => Contains(sendq', k) \/ cpc'[k] # "out"
                                        \/ Drained(k)'
               /\ cpc'[k] = "out" => cpc[k] = "out"
               /\ cpc'[k] = "sending" => cpc[k] = "sending"
               /\ cpc'[k] = "idle" => cpc[k] = "idle" \/
                                      (~Contains(sendq', k) /\ ~InHand(k))
               /\ Drained(k) => Drained(k)' \/ cpc'[k] # "out"
    PROVE  OrderInv'
<1>1. \A k \in Kio : /\ InHand(k)' <=> InHand(k)
                     /\ Numbered(k)' => Numbered(k)
    BY DEF InHand, Numbered
<1>2. OrderQueue'
    BY <1>1 DEF OrderInv, OrderQueue
<1>3. OrderFresh'
    BY <1>1 DEF OrderInv, OrderFresh
<1>4. OrderNumbers'
    BY <1>1 DEF OrderInv, OrderNumbers
<1>5. OrderWaiting'
    BY <1>1 DEF OrderInv, OrderWaiting
<1> QED
    BY <1>2, <1>3, <1>4, <1>5 DEF OrderInv

\* The same where sendq stays as it is.
LEMMA OrderQuiet ==
    ASSUME TypeInv, OrderInv,
           UNCHANGED <<sendq, order, sends, kio_seq, kts_sequence, cpc, drain>>,
           spc' = "hand" <=> spc = "hand", spc = "hand" => skio' = skio,
           xpc' = "joinS" => xpc = "joinS",
           xpc = "joinS" /\ kts_state' = "CONNECTED" => kts_state = "CONNECTED"
    PROVE  OrderInv'
<1>1. OrderClosing'
    BY DEF OrderInv, OrderClosing
<1>2. Ascending(sendq', order)
    BY DEF OrderInv, OrderQueue
<1>3. \A k \in Kio : Drained(k)' <=> Drained(k)
    BY DEF Drained
<1> QED
    BY <1>1, <1>2, <1>3, OrderKept

\* ktli_send takes a kio that is not in use.
LEMMA OrderSendCheck ==
    ASSUME TypeInv, OrderInv, NEW k \in Kio, SendCheck(k)
    PROVE  OrderInv'
<1> USE DEF TypeInv, TypeOK, AnyKio, OrderInv, SendCheck, queues, sender,
            receiver, history, session
<1>1. /\ \A j \in Kio : InHand(j)' <=> InHand(j)
      /\ \A j \in Kio : Numbered(j)' => Numbered(j) /\ j # k
      /\ \A j \in Kio : Drained(j)' <=> Drained(j)
      /\ \A j \in Kio : kio_seq'[j] = IF j = k THEN 0 ELSE kio_seq[j]
    BY DEF InHand, Numbered, Drained
<1>2. OrderQueue'
    BY <1>1 DEF OrderQueue
<1>3. OrderFresh'
    BY <1>1 DEF OrderFresh
<1>4. OrderNumbers'
    BY <1>1 DEF OrderNumbers
<1>5. OrderWaiting'
    BY <1>1 DEF OrderWaiting
<1>6. OrderClosing'
    BY DEF OrderClosing
<1> QED
    BY <1>2, <1>3, <1>4, <1>5, <1>6

\* ktli_send queues it behind everything that was sent before.
LEMMA OrderSendEnqueue ==
    ASSUME TypeInv, OrderInv, NEW k \in Kio, SendEnqueue(k)
    PROVE  OrderInv'
<1> USE DEF TypeInv, TypeOK, AnyKio, OrderInv, SendEnqueue, receiver, session
<1>0. ~Contains(sendq, k) /\ ~InHand(k) /\ kio_seq[k] = 0
    BY DEF OrderFresh
<1>a. \A y : Contains(sendq', y) <=> Contains(sendq, y) \/ y = k
    <2>1. NoDup(sendq) /\ sendq' = Append(sendq, k)
        BY AscendingNoDup DEF OrderQueue
    <2> QED
        BY <1>0, <2>1, AppendList
<1>b. \A j \in Kio : order'[j] = IF j = k THEN sends + 1 ELSE order[j]
    OBVIOUS
<1>c. order' \in [Kio -> Nat]
    OBVIOUS
<1>1. /\ \A j \in Kio : InHand(j)' <=> InHand(j)
      /\ \A j \in Kio : Numbered(j)' <=> Numbered(j) /\ j # k
      /\ \A j \in Kio : Drained(j)' <=> Drained(j)
    BY <1>0 DEF InHand, Numbered, Drained
<1>2. OrderQueue'
    <2>1. Ascending(sendq', order')
        <3>1. Ascending(sendq, order) /\ sendq' = Append(sendq, k)
            BY DEF OrderQueue
        <3>2. \A y \in Kio : Contains(sendq, y)
                             => order'[y] = order[y] /\ order[y] < order'[k]
            BY SMTT(60), <1>0, <1>b DEF OrderQueue
        <3>3. order \in [Kio -> Nat] /\ sendq \in Seq(Kio)
            OBVIOUS
        <3> HIDE DEF TypeInv, OrderInv, SendEnqueue
        <3>4. PICK g \in [Kio -> Nat] : g = order'
            BY <1>c
        <3>5. Ascending(Append(sendq, k), g)
            BY <3>1, <3>2, <3>3, <3>4, AscendingAppend
        <3> QED
            BY <3>1, <3>4, <3>5
    <2>2. \A j \in Kio : order'[j] <= sends'
        <3>1. sends \in Nat /\ sends' = sends + 1 /\ order \in [Kio -> Nat]
            OBVIOUS
        <3>2. \A j \in Kio : order[j] \in Nat /\ order[j] <= sends
            BY <3>1 DEF OrderQueue
        <3> HIDE DEF TypeInv, OrderInv, SendEnqueue
        <3> QED
            BY <1>b, <3>1, <3>2
    <2>3. \A j \in Kio : Contains(sendq', j) \/ InHand(j)' => kio_seq'[j] = 0
        BY <1>0, <1>a, <1>1 DEF OrderQueue
    <2>4. ASSUME NEW j \in Kio, spc' = "hand", Contains(sendq', j)
          PROVE  order'[skio'] < order'[j]
        <3>1. spc = "hand" /\ skio' = skio /\ skio \in Kio /\ skio # k
            BY <1>0, <2>4 DEF InHand, HandsOK, Busy
        <3>2. sends \in Nat /\ order \in [Kio -> Nat] /\ order[skio] <= sends
            BY <3>1 DEF OrderQueue
        <3>3. Contains(sendq, j) => order[skio] < order[j]
            BY <3>1 DEF OrderQueue
        <3>4. Contains(sendq, j) \/ j = k
            BY <1>a, <2>4
        <3>5. order'[skio'] = order[skio] /\ order[skio] \in Nat
            BY <1>b, <3>1, <3>2
        <3> HIDE DEF TypeInv, OrderInv, SendEnqueue
        <3>6. order'[j] = IF j = k THEN sends + 1 ELSE order[j]
            BY <1>b
        <3> QED
            BY <3>2, <3>3, <3>4, <3>5, <3>6
    <2> QED
        BY <2>1, <2>2, <2>3, <2>4 DEF OrderQueue
<1>3. OrderFresh'
    BY <1>a, <1>1 DEF OrderFresh
<1>4. OrderNumbers'
    <2>1. 0 < kts_sequence' /\ \A j \in Kio : kio_seq'[j] < kts_sequence'
        BY DEF OrderNumbers
    <2>2. \A i, j \in Kio : Numbered(i)' /\ Numbered(j)' /\ order'[i] < order'[j]
                            => kio_seq'[i] < kio_seq'[j]
        BY <1>b, <1>1 DEF OrderNumbers
    <2>3. ASSUME NEW i \in Kio, NEW j \in Kio, Numbered(i)',
                 Contains(sendq', j) \/ InHand(j)'
          PROVE  order'[i] < order'[j]
        <3>1. Numbered(i) /\ i # k /\ order'[i] = order[i] /\ order[i] \in Nat
            BY <1>b, <1>1, <2>3
        <3>2. CASE j = k
            BY <1>b, <3>1, <3>2 DEF OrderQueue
        <3>3. CASE j # k
            BY <1>a, <1>b, <1>1, <2>3, <3>1, <3>3 DEF OrderNumbers
        <3> QED
            BY <3>2, <3>3
    <2> QED
        BY <2>1, <2>2, <2>3 DEF OrderNumbers
<1>5. OrderWaiting'
    BY <1>a, <1>1 DEF OrderWaiting
<1>6. OrderClosing'
    BY DEF OrderClosing
<1> QED
    BY <1>2, <1>3, <1>4, <1>5, <1>6

\* The sender takes the request that was sent first.
LEMMA OrderSenderPop ==
    ASSUME TypeInv, OrderInv, SenderPop
    PROVE  OrderInv'
<1> USE DEF TypeInv, TypeOK, AnyKio, OrderInv, SenderPop, SenderUnchanged,
            receiver, history, session
<1>1. CASE sendq = <<>>
    BY <1>1, OrderQuiet
<1>2. CASE sendq # <<>>
    <2>1. PICK h \in Kio :
              /\ spc' = "hand" /\ skio' = h /\ Ascending(sendq', order)
              /\ Contains(sendq, h)
              /\ \A y : Contains(sendq', y) <=> Contains(sendq, y) /\ y # h
              /\ \A y \in Kio : Contains(sendq', y) => order[h] < order[y]
        <3>1. Ascending(sendq, order) /\ order \in [Kio -> Nat] /\ sendq \in Seq(Kio)
            BY DEF OrderQueue
        <3>2. spc' = "hand" /\ skio' = Head(sendq) /\ sendq' = Tail(sendq)
            BY <1>2
        <3> HIDE DEF TypeInv, OrderInv, SenderPop
        <3> QED
            BY <1>2, <3>1, <3>2, AscendingTail
    <2>2. UNCHANGED <<order, sends, kio_seq, kts_sequence, cpc, drain, xpc, kts_state>>
        OBVIOUS
    <2>3. /\ \A j \in Kio : InHand(j)' <=> j = h
          /\ \A j \in Kio : Numbered(j)' <=> Numbered(j)
          /\ \A j \in Kio : Drained(j)' <=> Drained(j)
          /\ \A j \in Kio : ~InHand(j)
        BY <2>1, <2>2 DEF InHand, Numbered, Drained
    <2> HIDE DEF SenderPop
    <2>4. OrderQueue'
        BY <2>1, <2>2, <2>3 DEF OrderQueue
    <2>5. OrderFresh'
        BY <2>1, <2>2, <2>3 DEF OrderFresh
    <2>6. OrderNumbers'
        BY <2>1, <2>2, <2>3 DEF OrderNumbers
    <2>7. OrderWaiting'
        BY <2>1, <2>2, <2>3 DEF OrderWaiting
    <2>8. OrderClosing'
        <3>1. xpc # "joinS"
            BY <1>2 DEF OrderClosing
        <3> QED
            BY <2>2, <3>1 DEF OrderClosing
    <2> QED
        BY <2>4, <2>5, <2>6, <2>7, <2>8
<1> QED
    BY <1>1, <1>2

\* The sender gives it the next number.
LEMMA OrderSenderNumber ==
    ASSUME TypeInv, OrderInv, SenderNumber
    PROVE  OrderInv'
<1> USE DEF TypeInv, TypeOK, AnyKio, OrderInv, SenderUnchanged, receiver, history,
            session
<1>1. PICK h \in Kio :
          /\ h = skio /\ skio' = h /\ spc = "hand" /\ spc' = "queued"
          /\ kio_seq' = [kio_seq EXCEPT ![h] = kts_sequence]
          /\ kts_sequence' = kts_sequence + 1
    BY DEF SenderNumber, HandsOK, Busy
<1>2. UNCHANGED <<sendq, order, sends, cpc, drain, xpc, kts_state>>
    BY DEF SenderNumber
<1>3. /\ \A j \in Kio : ~InHand(j)' /\ (InHand(j) <=> j = h)
      /\ \A j \in Kio : Numbered(j)' /\ j # h => Numbered(j)
      /\ \A j \in Kio : Drained(j)' <=> Drained(j)
      /\ \A j \in Kio : kio_seq'[j] = IF j = h THEN kts_sequence ELSE kio_seq[j]
    BY <1>1, <1>2 DEF InHand, Numbered, Drained
<1>4. \A k \in Kio : Contains(sendq, k) => order[h] < order[k] /\ k # h
    BY <1>1 DEF OrderQueue
<1>5. \A j \in Kio : Numbered(j) => j # h /\ order[j] < order[h]
    BY <1>3 DEF OrderNumbers, Numbered, OrderQueue
<1>6. OrderQueue'
    BY <1>1, <1>2, <1>3, <1>4 DEF OrderQueue
<1>7. OrderFresh'
    BY <1>1, <1>2, <1>3 DEF OrderFresh
<1>8. OrderNumbers'
    <2>1. 0 < kts_sequence' /\ \A k \in Kio : kio_seq'[k] < kts_sequence'
        BY SMTT(60), <1>1, <1>3 DEF OrderNumbers
    <2>2. \A j, k \in Kio : Numbered(j)' /\ Numbered(k)' /\ order'[j] < order'[k]
                            => kio_seq'[j] < kio_seq'[k]
        <3> SUFFICES ASSUME NEW j \in Kio, NEW k \in Kio, Numbered(j)',
                            Numbered(k)', order[j] < order[k]
                     PROVE  kio_seq'[j] < kio_seq'[k]
            BY <1>2
        <3>1. CASE j = h
            <4>1. k # h /\ order[k] < order[h] /\ order[h] \in Nat /\ order[k] \in Nat
                BY SMTT(60), <1>3, <1>5, <3>1
            <4> QED
                BY <3>1, <4>1
        <3>2. CASE j # h /\ k = h
            BY <1>3, <3>2 DEF OrderNumbers
        <3>3. CASE j # h /\ k # h
            BY <1>3, <3>3 DEF OrderNumbers
        <3> QED
            BY <3>1, <3>2, <3>3
    <2>3. \A j, k \in Kio : Numbered(j)' /\ (Contains(sendq', k) \/ InHand(k)')
                            => order'[j] < order'[k]
        BY <1>2, <1>3, <1>4 DEF OrderNumbers
    <2> QED
        BY <2>1, <2>2, <2>3 DEF OrderNumbers
<1>9. OrderWaiting'
    BY <1>1, <1>2, <1>3 DEF OrderWaiting, OrderNumbers
<1>10. OrderClosing'
    BY <1>2 DEF OrderClosing
<1> QED
    BY <1>6, <1>7, <1>8, <1>9, <1>10

\* ktli_receive gives the client a kio that is on no queue.
LEMMA OrderReceive ==
    ASSUME Steady, TypeInv, Calm => CalmInv, OrderInv, NEW k \in Kio, Receive(k)
    PROVE  OrderInv'
<1>1. /\ UNCHANGED <<sendq, order, sends, kio_seq, kts_sequence, spc, skio, xpc,
                     drain, kts_state>>
      /\ cpc[k] = "out" /\ kio_state[k] \in Completed
      /\ cpc' = [cpc EXCEPT ![k] = Retired] \/ cpc' = [cpc EXCEPT ![k] = "assert"]
    BY DEF Receive, sender, history, session
<1>2. \A j \in Kio : \/ j # k /\ cpc'[j] = cpc[j]
                     \/ j = k /\ cpc'[j] \in {"idle", "freed", "assert"}
    BY <1>1 DEF TypeInv, TypeOK, Retired
<1>3. cpc'[k] = "idle" => ~Contains(sendq, k) /\ ~InHand(k)
    <2>1. CASE Calm
        <3>1. kio_qbp[k] = "compq"
            BY <1>1, <2>1 DEF CalmInv, CalmCustody
        <3> QED
            BY <2>1, <3>1
            DEF CalmInv, CalmCustody, CalmLists, BackPointers, SenderHolds, InHand,
                AnyKio
    <2>2. CASE "reuse" \notin Env
        BY <1>1, <2>2 DEF Retired, TypeInv, TypeOK
    <2> QED
        BY <2>1, <2>2 DEF Steady
<1>4. OrderClosing'
    BY <1>1, <1>2 DEF OrderInv, OrderClosing
<1>5. Ascending(sendq', order) /\ \A j \in Kio : Drained(j)' <=> Drained(j)
    BY <1>1 DEF OrderInv, OrderQueue, Drained
<1>6. \A j \in Kio : Contains(sendq', j) <=> Contains(sendq, j)
    BY <1>1
<1> QED
    BY <1>1, <1>2, <1>3, <1>4, <1>5, <1>6, OrderKept

\* Clients that hang up and close find sendq as they left it.
LEMMA OrderClient ==
    ASSUME TypeInv, OrderInv,
           \/ ReceiveUnsolicited \/ Connect \/ Disconnect \/ DisconnectEnd
           \/ CloseStart \/ CloseSendq \/ CloseFinish
    PROVE  OrderInv'
<1> USE DEF kiovars, queues, sender, receiver, history, session
<1>1. CASE ReceiveUnsolicited
    BY <1>1, OrderQuiet DEF ReceiveUnsolicited
<1>2. CASE Connect
    BY <1>2, OrderQuiet DEF Connect
<1>3. CASE Disconnect \/ DisconnectEnd
    BY <1>3, OrderQuiet DEF Disconnect, DisconnectEnd
<1>4. CASE CloseStart
    <2>1. OrderClosing'
        BY <1>4 DEF CloseStart, OrderClosing
    <2>2. /\ UNCHANGED <<sendq, order, sends, kio_seq, kts_sequence, cpc, drain, skio>>
          /\ spc' = "hand" <=> spc = "hand"
        BY <1>4 DEF CloseStart
    <2>3. Ascending(sendq', order) /\ \A j \in Kio : Drained(j)' <=> Drained(j)
        BY <2>2 DEF OrderInv, OrderQueue, Drained
    <2>4. \A j \in Kio : Contains(sendq', j) <=> Contains(sendq, j)
        BY <2>2
    <2> QED
        BY <2>1, <2>2, <2>3, <2>4, OrderKept
<1>5. CASE CloseSendq
    <2>1. sendq' = sendq
        BY <1>5 DEF CloseSendq, OrderInv, OrderClosing
    <2> QED
        BY <1>5, <2>1, OrderQuiet DEF CloseSendq
<1>6. CASE CloseFinish
    BY <1>6, OrderQuiet DEF CloseFinish
<1> QED
    BY <1>1, <1>2, <1>3, <1>4, <1>5, <1>6

\* Drain calls take requests out of turn, and give every one they take from
\* sendq back to its client.
LEMMA OrderDrain ==
    ASSUME "reuse" \notin Env, TypeInv, OrderInv,
           \/ \E k \in Kio \cup {NoKio} : DrainCall(k)
           \/ DrainFront \/ DrainSkip \/ DrainMatch \/ DrainReturn
    PROVE  OrderInv'
<1>0. /\ sendq \in Seq(Kio) /\ order \in [Kio -> Nat] /\ Ascending(sendq, order)
      /\ drain \in DrainCalls /\ NoKio \notin Kio /\ Retired = "freed"
    BY KtliAssumption DEF TypeInv, TypeOK, OrderInv, OrderQueue, Retired, AnyKio
<1>1. ASSUME UNCHANGED <<order, sends, kio_seq, kts_sequence, spc, skio, xpc>>,
             kts_state' = kts_state \/ kts_state' = "OPENED",
             Ascending(sendq', order),
             \A k \in Kio :
               /\ Contains(sendq', k) => Contains(sendq, k)
               /\ Contains(sendq, k) => Contains(sendq', k) \/ cpc'[k] # "out"
                                        \/ Drained(k)'
               /\ cpc'[k] = cpc[k] \/ cpc'[k] = "freed"
               /\ Drained(k) => Drained(k)' \/ cpc'[k] # "out",
             sendq = <<>> => sendq' = <<>>
      PROVE  OrderInv'
    <2>1. OrderClosing'
        BY <1>1 DEF OrderInv, OrderClosing
    <2> QED
        BY <1>1, <2>1, OrderKept
<1>2. CASE \E k \in Kio \cup {NoKio} : DrainCall(k)
    <2>1. \A k \in Kio : ~Drained(k)
        <3>1. drain = NoDrain
            BY <1>2 DEF DrainCall
        <3>2. drain.at = 0
            BY <3>1 DEF NoDrain
        <3> QED
            BY <3>2 DEF Drained
    <2> QED
        BY <1>0, <1>1, <1>2, <2>1 DEF DrainCall, queues, kiovars, sender, history
<1>3. drain.at \in 1 .. 3 => (drain.at = 3 => DrainQ = sendq)
    BY DEF DrainQ
<1>4. CASE DrainFront
    <2>1. /\ UNCHANGED <<order, sends, kio_seq, kts_sequence, spc, skio, xpc, kts_state>>
          /\ drain.at \in 1 .. 3 /\ DrainQ # <<>>
          /\ sendq' = IF drain.at = 3 THEN Tail(sendq) ELSE sendq
          /\ \A k \in Kio : cpc'[k] = IF k = Head(DrainQ) THEN "freed" ELSE cpc[k]
        BY <1>0, <1>3, <1>4
        DEF DrainFront, DrainTo, DrainUnchanged, sender, history, DrainCalls
    <2>2. \A k \in Kio : ~Drained(k)
        BY <2>1 DEF Drained
    <2>3. CASE drain.at = 3
        <3>1. /\ Ascending(sendq', order)
              /\ \A y : Contains(sendq', y) <=> Contains(sendq, y) /\ y # Head(sendq)
            BY <1>0, <1>3, <2>1, <2>3, AscendingTail
        <3> QED
            BY <1>1, <1>3, <2>1, <2>2, <2>3, <3>1
    <2>4. CASE drain.at # 3
        BY <1>0, <1>1, <2>1, <2>2, <2>4
    <2> QED
        BY <2>3, <2>4
<1>5. CASE DrainSkip
    <2>1. /\ UNCHANGED <<sendq, order, sends, kio_seq, kts_sequence, spc, skio, xpc,
                         kts_state, cpc>>
          /\ drain.kio = NoKio
        BY <1>3, <1>5 DEF DrainSkip, DrainTo, DrainUnchanged, sender, history
    <2>2. \A k \in Kio : ~Drained(k)
        BY <1>0, <2>1 DEF Drained
    <2> QED
        BY <1>0, <1>1, <2>1, <2>2
<1>6. CASE DrainMatch
    <2>1. /\ UNCHANGED <<order, sends, kio_seq, kts_sequence, spc, skio, xpc,
                         kts_state, cpc>>
          /\ drain.at \in 1 .. 3
          /\ sendq' = IF drain.at = 3 THEN Dequeue(sendq, drain.kio) ELSE sendq
        BY <1>0, <1>3, <1>6
        DEF DrainMatch, DrainTo, DrainUnchanged, sender, history, DrainCalls
    <2>2. \A k \in Kio : ~Drained(k)
        BY <2>1 DEF Drained
    <2>3. /\ drain'.kio = drain.kio /\ drain'.at = drain.at + 1
          /\ drain'.found = Contains(DrainQ, drain.kio)
        BY <1>0, <1>6 DEF DrainMatch, DrainCalls
    <2>4. CASE drain.at = 3 /\ Contains(sendq, drain.kio)
        <3>1. PICK i \in 1 .. Len(sendq) :
                  sendq[i] = drain.kio /\ sendq' = RemoveAt(sendq, i)
            <4>1. \E i \in DOMAIN sendq : sendq[i] = drain.kio
                BY <1>0, <2>4, LenProperties DEF Contains
            <4>2. /\ Position(sendq, drain.kio) \in DOMAIN sendq
                  /\ sendq[Position(sendq, drain.kio)] = drain.kio
                BY <4>1 DEF Position
            <4> QED
                BY <1>0, <2>1, <2>4, <4>2, LenProperties DEF Dequeue
        <3>2. /\ Ascending(sendq', order)
              /\ \A y : Contains(sendq', y) <=> Contains(sendq, y) /\ y # drain.kio
            BY <1>0, <3>1, AscendingRemove
        <3>3. \A k \in Kio : k = drain.kio => Drained(k)'
            BY <1>3, <2>1, <2>3, <2>4 DEF Drained
        <3>4. sendq # <<>>
            BY <3>1, EmptySeq
        <3> QED
            BY <1>1, <2>1, <2>2, <3>2, <3>3, <3>4
    <2>5. CASE ~(drain.at = 3 /\ Contains(sendq, drain.kio))
        <3>1. sendq' = sendq
            BY <2>1, <2>5 DEF Dequeue
        <3> QED
            BY <1>0, <1>1, <2>1, <2>2, <3>1
    <2> QED
        BY <2>4, <2>5
<1>7. CASE DrainReturn
    <2>1. /\ UNCHANGED <<sendq, order, sends, kio_seq, kts_sequence, spc, skio, xpc>>
          /\ kts_state' = kts_state \/ kts_state' = "OPENED"
        BY <1>7 DEF DrainReturn, DrainUnchanged, sender, history, queues
    <2>2. \A k \in Kio : /\ cpc'[k] = cpc[k] \/ cpc'[k] = "freed"
                         /\ Drained(k) => cpc'[k] = "freed"
        BY <1>0, <1>7 DEF DrainReturn, Drained
    <2> QED
        BY <1>0, <1>1, <2>1, <2>2
<1> QED
    BY <1>2, <1>4, <1>5, <1>6, <1>7

\* The other steps of the sender.
LEMMA OrderSender ==
    ASSUME TypeInv, OrderInv, Sender \/ SenderSpurious
    PROVE  OrderInv'
<1>1. ASSUME UNCHANGED <<sendq, kio_seq, kts_sequence>>, SenderUnchanged,
             spc # "hand", spc' # "hand"
      PROVE  OrderInv'
    BY <1>1, OrderQuiet DEF SenderUnchanged, history, session
<1> USE DEF kiovars, queues
<1>2. CASE SenderTop \/ SenderSpurious \/ SenderWoken \/ SenderLoop
    BY <1>1, <1>2 DEF SenderTop, SenderSpurious, SenderWoken, SenderLoop
<1>3. CASE SenderArm \/ SenderDriver
    BY <1>1, <1>3 DEF SenderArm, SenderDriver
<1>4. CASE SenderSent \/ SenderFailed \/ SenderComplete
    BY <1>1, <1>4 DEF SenderSent, SenderFailed, SenderComplete
<1> QED
    BY <1>2, <1>3, <1>4, OrderSenderPop, OrderSenderNumber DEF Sender

\* The receiver and the surroundings number and send nothing.
LEMMA OrderReceiver ==
    ASSUME TypeInv, OrderInv, Receiver \/ World
    PROVE  OrderInv'
<1>1. ASSUME UNCHANGED <<sendq, kio_seq, sender, history, cpc, drain, xpc>>,
             kts_state' = "CONNECTED" => kts_state = "CONNECTED"
      PROVE  OrderInv'
    BY <1>1, OrderQuiet DEF sender, history
<1> USE DEF ReceiverUnchanged, kiovars, queues, session
<1>2. CASE \/ ReceiverStart \/ PollIdle \/ (\E s \in server : PollResponse(s))
           \/ PollUnsolicited \/ PollEof \/ ReadMessage \/ ReadError
    BY <1>1, <1>2
    DEF ReceiverStart, PollIdle, PollResponse, PollUnsolicited, PollEof,
        ReadMessage, ReadError
<1>3. CASE RecvmsgErr \/ RecvmsgStuck \/ MatchToss \/ MatchGarbledEmpty
    BY <1>1, <1>3 DEF RecvmsgErr, RecvmsgStuck, MatchToss, MatchGarbledEmpty
<1>4. CASE MatchFound \/ MatchGarbled
    BY <1>1, <1>4 DEF MatchFound, MatchGarbled, TakeFromRecvq
<1>5. CASE MatchUnsolicited \/ RecvComplete \/ TimeoutOne \/ TimeoutDone
    BY <1>1, <1>5 DEF MatchUnsolicited, RecvComplete, TimeoutOne, TimeoutDone
<1>6. CASE World
    BY <1>1, <1>6 DEF World, Expire, PeerGone
<1> QED
    BY <1>2, <1>3, <1>4, <1>5, <1>6 DEF Receiver

LEMMA OrderInit == Init => OrderInv
<1> SUFFICES ASSUME Init PROVE OrderInv
    OBVIOUS
<1>1. /\ sendq = <<>> /\ spc = "top" /\ kts_sequence = 100 /\ sends = 0
      /\ \A k \in Kio : cpc[k] = "idle" /\ kio_seq[k] = 0 /\ order[k] = 0
      /\ xpc = "none"
    BY DEF Init, FirstSeq, AnyKio
<1>2. \A k \in Kio : ~Contains(sendq, k) /\ ~InHand(k) /\ ~Numbered(k)
    BY <1>1 DEF Contains, InHand, Numbered
<1>3. Ascending(sendq, order)
    BY <1>1 DEF Ascending
<1> QED
    BY <1>1, <1>2, <1>3
    DEF OrderInv, OrderQueue, OrderFresh, OrderNumbers, OrderWaiting, OrderClosing

LEMMA OrderStep ==
    ASSUME Steady, TypeInv, Calm => CalmInv, OrderInv, [Next]_vars
    PROVE  OrderInv'
<1>1. CASE Client
    <2>1. ASSUME \/ \E k \in Kio \cup {NoKio} : DrainCall(k)
                 \/ DrainFront \/ DrainSkip \/ DrainMatch \/ DrainReturn
          PROVE  OrderInv'
        BY <2>1, CalmNever, OrderDrain DEF Steady
    <2> QED
        BY <1>1, <2>1, OrderSendCheck, OrderSendEnqueue, OrderReceive, OrderClient
        DEF Client
<1>2. CASE UNCHANGED vars
    BY <1>2, OrderQuiet
    DEF vars, kiovars, queues, sender, history, session
<1> QED
    BY <1>1, <1>2, OrderSender, OrderReceiver DEF Next

\* Requests without a number come after every request with one.
LEMMA OrderImplies ==
    ASSUME TypeInv, OrderInv
    PROVE  SubmissionOrder
<1> SUFFICES ASSUME NEW j \in Kio, NEW k \in Kio, Outstanding(j), Outstanding(k),
                    order[j] < order[k], kio_seq[k] # 0
             PROVE  kio_seq[j] # 0 /\ kio_seq[j] < kio_seq[k]
    BY DEF SubmissionOrder
<1>1. Numbered(k) /\ cpc[j] = "out" /\ ~Drained(j) /\ order[j] \in Nat /\ order[k] \in Nat
    BY DEF Outstanding, Numbered, Drained, TypeInv, TypeOK
<1>2. kio_seq[j] # 0
    <2>1. ASSUME kio_seq[j] = 0 PROVE order[k] < order[j]
        BY <1>1, <2>1 DEF OrderInv, OrderWaiting, OrderNumbers
    <2> QED
        BY <1>1, <2>1
<1> QED
    BY <1>1, <1>2 DEF OrderInv, OrderNumbers, Numbered

\* Requests are numbered in the order of their ktli_send calls, whatever the
\* threads, drains, timeouts and reconnections do, so the numbers ktli_seqmatch
\* compares are those of different requests.  For any number of kios and calls:
\* of every session in which no kio is used again, and of a connected session
\* without one-way requests in which kios are reused at once.
THEOREM NumberedInOrder ==
    ASSUME Steady
    PROVE  Spec => []SubmissionOrder
<1>1. Init => TypeInv /\ (Calm => CalmInv) /\ OrderInv
    BY TypeInit, CalmInit, OrderInit
<1>2. TypeInv /\ (Calm => CalmInv) /\ OrderInv /\ [Next]_vars
      => TypeInv' /\ (Calm => CalmInv)' /\ OrderInv'
    BY TypeStep, CalmStep, OrderStep DEF Calm
<1>3. TypeInv /\ OrderInv => SubmissionOrder
    BY OrderImplies
<1> QED
    BY <1>1, <1>2, <1>3, PTL DEF Spec
=============================================================================
