---------------------------- MODULE StreamProofs ----------------------------
(***************************************************************************)
(* The bytes on a connection (module Stream): for every load, every length *)
(* of a header and however writev and readv cut the transfers, what the    *)
(* socket takes is what was sent and what is received is what the device   *)
(* sent, each byte in its place.                                           *)
(*                                                                         *)
(* The concatenation of a sequence of sequences (FlattenSeq) is computed   *)
(* by a recursive function; what it gives is proved by induction on the    *)
(* number of sequences, in the form of the least number for which it would *)
(* be wrong (Least).                                                       *)
(***************************************************************************)
EXTENDS Stream, TLAPS, SequenceTheorems, WellFoundedInduction

\* A nonempty set of naturals has a least element.
LEMMA Least ==
    ASSUME NEW T \in SUBSET Nat, T # {}
    PROVE  \E n \in T : \A m \in T : n <= m
<1>1. PICK n \in T : \A m \in T : ~(<<m, n>> \in OpToRel(<, Nat))
    BY WFMin, NatLessThanWellFounded
<1>2. OpToRel(<, Nat) = {ss \in Nat \X Nat : ss[1] < ss[2]}
    BY Zenon DEF OpToRel
<1>3. ASSUME NEW m \in T PROVE n <= m
    <2>1. m \in Nat /\ n \in Nat
        OBVIOUS
    <2>2. <<m, n>> \notin {ss \in Nat \X Nat : ss[1] < ss[2]}
        BY <1>1, <1>2
    <2> QED
        BY <2>1, <2>2
<1> QED
    BY <1>3

-----------------------------------------------------------------------------
(* Flattening: the concatenation of the first n sequences, for each n.     *)

Joins(S, s, f) ==
    /\ f \in [0 .. Len(s) -> Seq(S)]
    /\ f[0] = <<>>
    /\ \A i \in 1 .. Len(s) : f[i] = f[i - 1] \o s[i]

\* The recursive function inside FlattenSeq, on the first n sequences.
Flattens(s, n, g) ==
    g = [i \in 1 .. n |-> IF i = 1 THEN s[i] ELSE g[i - 1] \o s[i]]

\* The recursive function inside FlattenSeq exists, for any number of sequences.
LEMMA FlattenExists ==
    ASSUME NEW s, NEW n \in Nat
    PROVE  \E g : Flattens(s, n, g)
<1> DEFINE T == {m \in Nat : ~\E g : Flattens(s, m, g)}
<1>1. ASSUME T # {} PROVE FALSE
    <2>1. T \in SUBSET Nat
        OBVIOUS
    <2>2. PICK m \in T : \A k \in T : m <= k
        <3> HIDE DEF T
        <3> QED
            BY <1>1, <2>1, Least
    <2>3. m \in Nat /\ ~\E g : Flattens(s, m, g)
        OBVIOUS
    <2>4. m # 0
        <3>1. Flattens(s, 0, [i \in 1 .. 0 |-> 0])
            BY DEF Flattens
        <3> QED
            BY <2>3, <3>1
    <2>5. m - 1 \in Nat /\ m - 1 \notin T
        BY <2>2, <2>3, <2>4
    <2>6. PICK g : Flattens(s, m - 1, g)
        BY <2>5
    <2> DEFINE last == IF m = 1 THEN s[m] ELSE g[m - 1] \o s[m]
               h == [i \in 1 .. m |-> IF i = m THEN last ELSE g[i]]
    <2>7. \A i \in 1 .. m - 1 : g[i] = IF i = 1 THEN s[i] ELSE g[i - 1] \o s[i]
        BY <2>6 DEF Flattens
    <2>8. ASSUME NEW i \in 1 .. m
          PROVE  h[i] = IF i = 1 THEN s[i] ELSE h[i - 1] \o s[i]
        <3>0. i \in Int /\ m \in Int /\ 1 <= i /\ i <= m
            BY <2>3
        <3>1. CASE i = m
            <4>1. h[i] = last
                BY <3>1
            <4>2. i # 1 => h[i - 1] = g[i - 1]
                BY <3>0, <3>1
            <4> HIDE DEF h
            <4> QED
                BY <3>1, <4>1, <4>2
        <3>2. CASE i # m
            <4>1. i \in 1 .. m - 1 /\ i - 1 # m
                BY <3>0, <3>2
            <4>2. h[i] = g[i] /\ (i # 1 => h[i - 1] = g[i - 1])
                BY <3>0, <4>1
            <4> HIDE DEF h
            <4> QED
                BY <2>7, <4>1, <4>2
        <3> QED
            BY <3>1, <3>2
    <2>9. Flattens(s, m, h)
        <3>1. h = [i \in 1 .. m |-> h[i]]
            OBVIOUS
        <3> HIDE DEF h
        <3> QED
            BY <2>8, <3>1, Zenon DEF Flattens
    <2> QED
        BY <2>3, <2>9
<1> QED
    BY <1>1

\* FlattenSeq is the last of the concatenations of the first n.
LEMMA FlattenJoins ==
    ASSUME NEW S, NEW s \in Seq(Seq(S))
    PROVE  \E f : Joins(S, s, f) /\ FlattenSeq(s) = f[Len(s)]
<1>1. Len(s) \in Nat /\ \A i \in 1 .. Len(s) : s[i] \in Seq(S)
    OBVIOUS
<1>2. CASE Len(s) = 0
    <2> DEFINE f == [i \in 0 .. 0 |-> <<>>]
    <2>1. f \in [0 .. 0 -> Seq(S)] /\ f[0] = <<>>
        OBVIOUS
    <2>2. s = <<>>
        BY <1>2
    <2>3. Joins(S, s, f)
        <3> HIDE DEF f
        <3> QED
            BY <1>2, <2>1 DEF Joins
    <2> QED
        BY <1>2, <2>1, <2>2, <2>3 DEF FlattenSeq
<1>3. CASE Len(s) # 0
    <2> DEFINE flatten[i \in 1 .. Len(s)] ==
                   IF i = 1 THEN s[i] ELSE flatten[i - 1] \o s[i]
    <2>1. flatten = CHOOSE g : g = [i \in 1 .. Len(s) |->
                                   IF i = 1 THEN s[i] ELSE g[i - 1] \o s[i]]
        OBVIOUS
    <2>2. FlattenSeq(s) = flatten[Len(s)]
        BY <1>3 DEF FlattenSeq
    <2> HIDE DEF flatten
    <2>3. \E g : g = [i \in 1 .. Len(s) |->
                         IF i = 1 THEN s[i] ELSE g[i - 1] \o s[i]]
        BY <1>1, FlattenExists DEF Flattens
    <2>4. flatten = [i \in 1 .. Len(s) |->
                        IF i = 1 THEN s[i] ELSE flatten[i - 1] \o s[i]]
        BY <2>1, <2>3, Zenon
    <2>5. ASSUME NEW i \in 1 .. Len(s)
          PROVE  flatten[i] = IF i = 1 THEN s[i] ELSE flatten[i - 1] \o s[i]
        BY <2>4
    <2> DEFINE T == {i \in 1 .. Len(s) : flatten[i] \notin Seq(S)}
    <2>6. ASSUME T # {} PROVE FALSE
        <3>1. T \in SUBSET Nat
            OBVIOUS
        <3>2. PICK n \in T : \A m \in T : n <= m
            <4> HIDE DEF T
            <4> QED
                BY <2>6, <3>1, Least
        <3>3. n \in 1 .. Len(s) /\ flatten[n] \notin Seq(S) /\ s[n] \in Seq(S)
            BY <1>1
        <3>4. n # 1
            BY <2>5, <3>3
        <3>5. n - 1 \in 1 .. Len(s) /\ n - 1 \notin T
            BY <3>2, <3>3, <3>4
        <3>6. flatten[n - 1] \in Seq(S)
            BY <3>5
        <3>7. flatten[n] = flatten[n - 1] \o s[n]
            BY <2>5, <3>3, <3>4
        <3> QED
            BY <3>3, <3>6, <3>7, ConcatProperties
    <2> DEFINE f == [i \in 0 .. Len(s) |-> IF i = 0 THEN <<>> ELSE flatten[i]]
    <2>7. f \in [0 .. Len(s) -> Seq(S)] /\ f[0] = <<>> /\ f[Len(s)] = flatten[Len(s)]
        BY <1>1, <1>3, <2>6
    <2>8. ASSUME NEW i \in 1 .. Len(s) PROVE f[i] = f[i - 1] \o s[i]
        <3>1. CASE i = 1
            <4>1. f[i] = s[i] /\ f[i - 1] = <<>> /\ s[i] \in Seq(S)
                BY <1>1, <2>5, <3>1
            <4> HIDE DEF f
            <4> QED
                BY <4>1, ConcatEmptySeq
        <3>2. CASE i # 1
            <4>1. i \in 0 .. Len(s) /\ i - 1 \in 0 .. Len(s) /\ i - 1 # 0 /\ i # 0
                BY <1>1, <3>2
            <4>2. f[i] = flatten[i] /\ f[i - 1] = flatten[i - 1]
                BY <4>1
            <4> HIDE DEF f
            <4> QED
                BY <2>5, <3>2, <4>2
        <3> QED
            BY <3>1, <3>2
    <2> HIDE DEF f
    <2> QED
        BY <2>2, <2>7, <2>8 DEF Joins
<1> QED
    BY <1>2, <1>3

\* Two sequences with the same first n elements.
Agree(s, t, n) ==
    /\ n \in Nat /\ Len(s) \in Nat /\ Len(t) \in Nat
    /\ n <= Len(s) /\ n <= Len(t) /\ \A i \in 1 .. n : s[i] = t[i]

\* There is only one way to join them.
LEMMA JoinsUnique ==
    ASSUME NEW S, NEW s, NEW t, NEW f, NEW g, NEW n,
           Joins(S, s, f), Joins(S, t, g), Agree(s, t, n)
    PROVE  f[n] = g[n]
<1>0. /\ n \in Nat /\ Len(s) \in Nat /\ Len(t) \in Nat
      /\ n <= Len(s) /\ n <= Len(t) /\ \A i \in 1 .. n : s[i] = t[i]
    BY DEF Agree
<1> DEFINE T == {i \in 0 .. n : f[i] # g[i]}
<1>1. ASSUME T # {} PROVE FALSE
    <2>1. T \in SUBSET Nat
        OBVIOUS
    <2>2. PICK m \in T : \A k \in T : m <= k
        <3> HIDE DEF T
        <3> QED
            BY <1>1, <2>1, Least
    <2>3. m \in 0 .. n /\ f[m] # g[m]
        OBVIOUS
    <2>4. m # 0
        BY <2>3 DEF Joins
    <2>5. m - 1 \in 0 .. n /\ m - 1 \notin T
        BY <1>0, <2>2, <2>3, <2>4
    <2>6. f[m - 1] = g[m - 1]
        BY <2>5
    <2>7. m \in 1 .. Len(s) /\ m \in 1 .. Len(t) /\ m \in 1 .. n
        BY <1>0, <2>3, <2>4
    <2>8. f[m] = f[m - 1] \o s[m] /\ g[m] = g[m - 1] \o t[m] /\ s[m] = t[m]
        <3>1. s[m] = t[m]
            BY <1>0, <2>7
        <3> QED
            BY <2>7, <3>1 DEF Joins
    <2> QED
        BY <2>3, <2>6, <2>8
<1> QED
    BY <1>0, <1>1

\* The concatenation of sequences over S is one.
LEMMA FlattenType ==
    ASSUME NEW S, NEW s \in Seq(Seq(S))
    PROVE  FlattenSeq(s) \in Seq(S)
<1>1. PICK f : Joins(S, s, f) /\ FlattenSeq(s) = f[Len(s)]
    BY FlattenJoins
<1>2. Len(s) \in 0 .. Len(s)
    OBVIOUS
<1> QED
    BY <1>1, <1>2 DEF Joins

\* No sequence gives the empty one.
LEMMA FlattenEmpty == FlattenSeq(<<>>) = <<>>
BY DEF FlattenSeq

\* One sequence gives itself.
LEMMA FlattenOne ==
    ASSUME NEW S, NEW x \in Seq(S)
    PROVE  FlattenSeq(<<x>>) = x
<1>1. <<x>> \in Seq(Seq(S)) /\ Len(<<x>>) = 1 /\ <<x>>[1] = x
    OBVIOUS
<1>2. PICK f : Joins(S, <<x>>, f) /\ FlattenSeq(<<x>>) = f[1]
    BY <1>1, FlattenJoins
<1>3. f[1] = f[1 - 1] \o <<x>>[1] /\ f[0] = <<>>
    BY <1>1, <1>2, 1 \in 1 .. 1, Zenon DEF Joins
<1>4. f[1] = <<>> \o x
    BY <1>1, <1>3
<1> QED
    BY <1>2, <1>4, ConcatEmptySeq

\* Flattening takes concatenations to concatenations.
LEMMA FlattenConcat ==
    ASSUME NEW S, NEW s \in Seq(Seq(S)), NEW t \in Seq(Seq(S))
    PROVE  FlattenSeq(s \o t) = FlattenSeq(s) \o FlattenSeq(t)
<1>0. PICK u, ls, lt : u = s \o t /\ ls = Len(s) /\ lt = Len(t)
    OBVIOUS
<1>1. /\ u \in Seq(Seq(S)) /\ Len(u) = ls + lt
      /\ \A i \in 1 .. ls : u[i] = s[i]
      /\ \A i \in 1 .. lt : u[ls + i] = t[i]
      /\ ls \in Nat /\ lt \in Nat
    BY <1>0, ConcatProperties, LenProperties
<1>2. \A i \in 1 .. lt : t[i] \in Seq(S)
    BY <1>0
<1>3. PICK f : Joins(S, s, f) /\ FlattenSeq(s) = f[ls]
    BY <1>0, FlattenJoins
<1>4. PICK g : Joins(S, t, g) /\ FlattenSeq(t) = g[lt]
    BY <1>0, FlattenJoins
<1>5. PICK h : Joins(S, u, h) /\ FlattenSeq(u) = h[ls + lt]
    BY <1>1, FlattenJoins
<1>6. PICK F : F = f[ls]
    OBVIOUS
<1>7. h[ls] = F /\ F \in Seq(S)
    <2>1. Agree(s, u, ls)
        BY <1>0, <1>1 DEF Agree
    <2>2. f[ls] = h[ls]
        BY <1>3, <1>5, <2>1, JoinsUnique
    <2> QED
        BY <1>3, <1>6, <2>2, FlattenType
<1> DEFINE P(j) == h[ls + j] = F \o g[j]
<1>8. P(0)
    <2>1. g[0] = <<>> /\ ls + 0 = ls
        BY <1>1, <1>4 DEF Joins
    <2>2. F \o <<>> = F
        BY <1>7, ConcatEmptySeq
    <2> QED
        BY <1>7, <2>1, <2>2
<1>9. ASSUME NEW j \in 1 .. lt, P(j - 1) PROVE P(j)
    <2>0. PICK i : i = ls + j
        OBVIOUS
    <2>1. /\ j \in Nat /\ i \in 1 .. Len(u) /\ i - 1 = ls + (j - 1)
          /\ j - 1 \in 0 .. lt
        BY <1>1, <1>9, <2>0
    <2>2. h[i] = h[i - 1] \o u[i]
        BY <1>5, <2>1 DEF Joins
    <2>3. u[i] = t[j] /\ h[i - 1] = F \o g[j - 1]
        BY <1>1, <1>9, <2>0, <2>1
    <2>4. g[j] = g[j - 1] \o t[j] /\ g[j - 1] \in Seq(S) /\ t[j] \in Seq(S)
        BY <1>0, <1>2, <1>4, <2>1 DEF Joins
    <2>5. (F \o g[j - 1]) \o t[j] = F \o (g[j - 1] \o t[j])
        <3>1. PICK a, b : a = g[j - 1] /\ b = t[j]
            OBVIOUS
        <3>2. a \in Seq(S) /\ b \in Seq(S)
            BY <2>4, <3>1
        <3>3. (F \o a) \o b = F \o (a \o b)
            BY <1>7, <3>2, ConcatAssociative
        <3> QED
            BY <3>1, <3>3
    <2> QED
        BY <2>0, <2>2, <2>3, <2>4, <2>5
<1> HIDE DEF P
<1> DEFINE T == {j \in 0 .. lt : ~P(j)}
<1>10. ASSUME T # {} PROVE FALSE
    <2>1. T \in SUBSET Nat
        OBVIOUS
    <2>2. PICK m \in T : \A k \in T : m <= k
        <3> HIDE DEF T
        <3> QED
            BY <1>10, <2>1, Least
    <2>3. m \in 0 .. lt /\ ~P(m)
        OBVIOUS
    <2>4. m # 0
        BY <1>8, <2>3
    <2>5. m - 1 \in 0 .. lt /\ m - 1 \notin T /\ m \in 1 .. lt
        BY <1>1, <2>2, <2>3, <2>4
    <2> QED
        BY <1>9, <2>3, <2>5
<1>11. P(lt)
    BY <1>1, <1>10
<1> QED
    BY <1>0, <1>3, <1>4, <1>5, <1>6, <1>11 DEF P

-----------------------------------------------------------------------------
(* Cutting sequences.                                                      *)

\* The first part of a concatenation.
LEMMA TakeConcat ==
    ASSUME NEW S, NEW s \in Seq(S), NEW t \in Seq(S)
    PROVE  SubSeq(s \o t, 1, Len(s)) = s
<1>0. PICK u, n : u = s \o t /\ n = Len(s)
    OBVIOUS
<1>1. u \in Seq(S) /\ n \in Nat /\ n <= Len(u) /\ \A i \in 1 .. n : u[i] = s[i]
    BY <1>0, ConcatProperties, LenProperties
<1>2. \A i \in 1 .. n : u[i] \in S
    BY <1>1
<1>3. /\ SubSeq(u, 1, n) \in Seq(S) /\ Len(SubSeq(u, 1, n)) = n
      /\ \A i \in 1 .. n : SubSeq(u, 1, n)[i] = u[i]
    BY <1>1, <1>2, SubSeqProperties
<1> QED
    BY <1>0, <1>1, <1>3, SeqEqual

\* A sequence is a prefix of what continues it.
LEMMA ConcatPrefix ==
    ASSUME NEW S, NEW s \in Seq(S), NEW t \in Seq(S)
    PROVE  IsPrefix(s, s \o t) /\ Len(s) <= Len(s \o t)
<1>1. Len(s \o t) = Len(s) + Len(t) /\ Len(s) \in Nat /\ Len(t) \in Nat
    BY ConcatProperties, LenProperties
<1>2. SubSeq(s \o t, 1, Len(s)) = s /\ SubSeq(s, 1, Len(s)) = s
    BY TakeConcat, SubSeqFull
<1> QED
    BY <1>1, <1>2 DEF IsPrefix

\* A prefix is continued by a rest.
LEMMA PrefixSplits ==
    ASSUME NEW S, NEW s \in Seq(S), NEW t \in Seq(S), IsPrefix(s, t)
    PROVE  \E r \in Seq(S) : t = s \o r
<1>0. PICK n, k : n = Len(s) /\ k = Len(t)
    OBVIOUS
<1>1. n \in Nat /\ k \in Nat /\ n <= k
    BY <1>0, LenProperties DEF IsPrefix
<1>2. SubSeq(t, 1, n) = s
    BY <1>0, SubSeqFull DEF IsPrefix
<1>3. SubSeq(t, 1, n) \o SubSeq(t, n + 1, k) = SubSeq(t, 1, k)
    <2>1. 1 \in 1 .. k + 1 /\ n \in 1 - 1 .. k /\ k \in n .. k
        BY <1>1
    <2> QED
        BY <1>0, <2>1, ConcatAdjacentSubSeq
<1>4. SubSeq(t, 1, k) = t
    BY <1>0, SubSeqFull
<1>5. SubSeq(t, n + 1, k) \in Seq(S)
    <2>1. \A i \in n + 1 .. k : t[i] \in S
        BY <1>0, <1>1, ElementOfSeq
    <2> QED
        BY <1>1, <2>1, SubSeqProperties
<1> QED
    BY <1>2, <1>3, <1>4, <1>5

\* A prefix stays one when the longer sequence grows.
LEMMA PrefixExtends ==
    ASSUME NEW S, NEW s \in Seq(S), NEW t \in Seq(S), NEW u \in Seq(S),
           IsPrefix(s, t)
    PROVE  IsPrefix(s, t \o u)
<1>1. PICK r \in Seq(S) : t = s \o r
    BY PrefixSplits
<1>2. t \o u = s \o (r \o u)
    BY <1>1, ConcatAssociative
<1>3. r \o u \in Seq(S)
    BY ConcatProperties
<1> QED
    BY <1>2, <1>3, ConcatPrefix

\* The first n of a sequence of sequences, joined.
Joined(s, n) == FlattenSeq(SubSeq(s, 1, n))

\* Joining one more.
LEMMA JoinedStep ==
    ASSUME NEW S, NEW s \in Seq(Seq(S)), NEW n \in 1 .. Len(s)
    PROVE  /\ Joined(s, n - 1) \in Seq(S) /\ s[n] \in Seq(S)
           /\ Joined(s, n) = Joined(s, n - 1) \o s[n]
<1>0. PICK x, a : x = s[n] /\ a = SubSeq(s, 1, n - 1)
    OBVIOUS
<1>1. n \in Int /\ 1 <= n /\ n <= Len(s) /\ Len(s) \in Nat /\ x \in Seq(S)
    BY <1>0, LenProperties, ElementOfSeq
<1>2. SubSeq(s, 1, n) = a \o <<x>>
    <2>1. 1 \in 1 .. Len(s) /\ n \in 1 .. Len(s)
        BY <1>1
    <2> QED
        BY <1>0, <2>1, SubSeqRecursiveSecond
<1>3. a \in Seq(Seq(S))
    <2>1. \A i \in 1 .. n - 1 : s[i] \in Seq(S)
        BY <1>1, ElementOfSeq
    <2> QED
        BY <1>0, <1>1, <2>1, SubSeqProperties
<1>4. <<x>> \in Seq(Seq(S))
    BY <1>1
<1>5. FlattenSeq(a \o <<x>>) = FlattenSeq(a) \o FlattenSeq(<<x>>)
    BY <1>3, <1>4, FlattenConcat
<1>6. FlattenSeq(<<x>>) = x /\ FlattenSeq(a) \in Seq(S)
    BY <1>1, <1>3, FlattenOne, FlattenType
<1> QED
    BY <1>0, <1>1, <1>2, <1>5, <1>6 DEF Joined

\* The first n joined are where all of them joined begin.
LEMMA JoinedPrefix ==
    ASSUME NEW S, NEW s \in Seq(Seq(S)), NEW n \in 0 .. Len(s)
    PROVE  /\ Joined(s, n) \in Seq(S) /\ FlattenSeq(s) \in Seq(S)
           /\ \E r \in Seq(S) : FlattenSeq(s) = Joined(s, n) \o r
           /\ Joined(s, Len(s)) = FlattenSeq(s)
<1>0. PICK k, a, b : k = Len(s) /\ a = SubSeq(s, 1, n) /\ b = SubSeq(s, n + 1, k)
    OBVIOUS
<1>1. n \in Int /\ 0 <= n /\ n <= k /\ k \in Nat
    BY <1>0, LenProperties
<1>2. \A i \in 1 .. k : s[i] \in Seq(S)
    BY <1>0, ElementOfSeq
<1>3. a \in Seq(Seq(S)) /\ b \in Seq(Seq(S))
    <2>1. \A i \in 1 .. n : s[i] \in Seq(S)
        BY <1>1, <1>2
    <2>2. \A i \in n + 1 .. k : s[i] \in Seq(S)
        BY <1>1, <1>2
    <2> QED
        BY <1>0, <1>1, <2>1, <2>2, SubSeqProperties
<1>4. SubSeq(s, 1, k) = s
    BY <1>0, SubSeqFull
<1>5. s = a \o b
    <2>1. 1 \in 1 .. k + 1 /\ n \in 1 - 1 .. k /\ k \in n .. k
        BY <1>1
    <2> QED
        BY <1>0, <1>4, <2>1, ConcatAdjacentSubSeq
<1>6. FlattenSeq(a) \in Seq(S) /\ FlattenSeq(b) \in Seq(S) /\ FlattenSeq(s) \in Seq(S)
    BY <1>3, FlattenType
<1>7. FlattenSeq(s) = FlattenSeq(a) \o FlattenSeq(b)
    BY <1>3, <1>5, FlattenConcat
<1> QED
    BY <1>0, <1>4, <1>6, <1>7 DEF Joined

\* A mapping of 1 .. n is a sequence.
LEMMA IsSeq ==
    ASSUME NEW S, NEW n \in Nat, NEW f \in [1 .. n -> S]
    PROVE  f \in Seq(S) /\ Len(f) = n
<1>1. f \in Seq(S)
    BY SeqDef, Zenon
<1>2. Len(f) \in Nat /\ DOMAIN f = 1 .. Len(f) /\ DOMAIN f = 1 .. n
    BY <1>1, LenProperties
<1> QED
    BY <1>1, <1>2

-----------------------------------------------------------------------------
(* Vectors and the places they stand for.                                  *)

Vec == [seg : Nat, base : Nat, len : Nat]
Place == Nat \X Nat
Byte == Nat \X Nat \X Nat

Seg(x) == [o \in 1 .. x.len |-> <<x.seg, x.base + o>>]
Segs(iov) == [v \in DOMAIN iov |-> Seg(iov[v])]

\* Places joins the segments.
LEMMA PlacesIs ==
    ASSUME NEW iov
    PROVE  Places(iov) = FlattenSeq(Segs(iov))
BY DEF Places, Segs, Seg

\* A segment has as many places as it is long.
LEMMA SegType ==
    ASSUME NEW x \in Vec
    PROVE  Seg(x) \in Seq(Place) /\ Len(Seg(x)) = x.len /\ x.len \in Nat
<1>1. x.len \in Nat /\ x.seg \in Nat /\ x.base \in Nat
    BY DEF Vec
<1>2. \A o \in 1 .. x.len : <<x.seg, x.base + o>> \in Place
    BY <1>1 DEF Place
<1>3. Seg(x) \in [1 .. x.len -> Place]
    BY <1>2 DEF Seg
<1> QED
    BY <1>1, <1>3, IsSeq

\* One sequence of places for each segment.
LEMMA SegsType ==
    ASSUME NEW iov \in Seq(Vec)
    PROVE  /\ Segs(iov) \in Seq(Seq(Place)) /\ Len(Segs(iov)) = Len(iov)
           /\ Len(iov) \in Nat
           /\ \A v \in 1 .. Len(iov) : Segs(iov)[v] = Seg(iov[v])
<1>1. Len(iov) \in Nat /\ DOMAIN iov = 1 .. Len(iov)
    BY LenProperties
<1>2. \A v \in 1 .. Len(iov) : Seg(iov[v]) \in Seq(Place)
    BY ElementOfSeq, SegType
<1>3. Segs(iov) \in [1 .. Len(iov) -> Seq(Place)]
    BY <1>1, <1>2 DEF Segs
<1> QED
    BY <1>1, <1>3, IsSeq DEF Segs

\* Places gives places.
LEMMA PlacesType ==
    ASSUME NEW iov \in Seq(Vec)
    PROVE  Places(iov) \in Seq(Place) /\ Len(Places(iov)) \in Nat
<1>1. Places(iov) \in Seq(Place)
    BY PlacesIs, SegsType, FlattenType
<1> QED
    BY <1>1, LenProperties

\* An empty vector has none.
LEMMA PlacesEmpty == Places(<<>>) = <<>>
<1>1. <<>> \in Seq(Vec) /\ Len(<<>>) = 0
    OBVIOUS
<1>2. Segs(<<>>) \in Seq(Seq(Place)) /\ Len(Segs(<<>>)) = 0
    BY <1>1, SegsType
<1>3. Segs(<<>>) = <<>>
    BY <1>2
<1> QED
    BY <1>3, PlacesIs, FlattenEmpty

\* One segment has its own.
LEMMA PlacesOne ==
    ASSUME NEW x \in Vec
    PROVE  Places(<<x>>) = Seg(x)
<1>1. <<x>> \in Seq(Vec) /\ Len(<<x>>) = 1 /\ <<x>>[1] = x
    OBVIOUS
<1>2. PICK t : t = Segs(<<x>>)
    OBVIOUS
<1>3. t \in Seq(Seq(Place)) /\ Len(t) = 1 /\ t[1] = Seg(x)
    <2>1. 1 \in 1 .. 1
        OBVIOUS
    <2> QED
        BY <1>1, <1>2, <2>1, SegsType
<1>4. t = <<Seg(x)>>
    <2>1. PICK y : y = Seg(x)
        OBVIOUS
    <2>2. y \in Seq(Place)
        BY <2>1, SegType
    <2>3. <<y>> \in Seq(Seq(Place)) /\ Len(<<y>>) = 1 /\ <<y>>[1] = y
        BY <2>2
    <2>4. \A i \in 1 .. 1 : t[i] = <<y>>[i]
        <3>1. ASSUME NEW i \in 1 .. 1 PROVE i = 1
            OBVIOUS
        <3> QED
            BY <1>3, <2>1, <2>3, <3>1
    <2> QED
        BY <1>3, <2>1, <2>3, <2>4, SeqEqual
<1> QED
    BY <1>2, <1>4, SegType, FlattenOne, PlacesIs

\* The places of a vector put after another.
LEMMA PlacesConcat ==
    ASSUME NEW a \in Seq(Vec), NEW b \in Seq(Vec)
    PROVE  Places(a \o b) = Places(a) \o Places(b)
<1>0. PICK u, la, lb : u = a \o b /\ la = Len(a) /\ lb = Len(b)
    OBVIOUS
<1>1. /\ u \in Seq(Vec) /\ Len(u) = la + lb /\ la \in Nat /\ lb \in Nat
      /\ \A i \in 1 .. la + lb : u[i] = IF i <= la THEN a[i] ELSE b[i - la]
    BY <1>0, ConcatProperties, LenProperties
<1>2. PICK su, sa, sb : su = Segs(u) /\ sa = Segs(a) /\ sb = Segs(b)
    OBVIOUS
<1>3. /\ su \in Seq(Seq(Place)) /\ Len(su) = la + lb
      /\ \A v \in 1 .. la + lb : su[v] = Seg(u[v])
    BY <1>1, <1>2, SegsType
<1>4. /\ sa \in Seq(Seq(Place)) /\ Len(sa) = la
      /\ \A v \in 1 .. la : sa[v] = Seg(a[v])
    BY <1>0, <1>2, SegsType
<1>5. /\ sb \in Seq(Seq(Place)) /\ Len(sb) = lb
      /\ \A v \in 1 .. lb : sb[v] = Seg(b[v])
    BY <1>0, <1>2, SegsType
<1>6. PICK sc : sc = sa \o sb
    OBVIOUS
<1>7. /\ sc \in Seq(Seq(Place)) /\ Len(sc) = la + lb
      /\ \A i \in 1 .. la + lb : sc[i] = IF i <= la THEN sa[i] ELSE sb[i - la]
    BY ZenonT(60), <1>4, <1>5, <1>6, ConcatProperties
<1>8. ASSUME NEW i \in 1 .. la + lb PROVE su[i] = sc[i]
    <2>1. CASE i <= la
        <3>1. i \in 1 .. la
            BY <1>1, <2>1
        <3>2. u[i] = a[i] /\ sc[i] = sa[i] /\ sa[i] = Seg(a[i]) /\ su[i] = Seg(u[i])
            BY <1>1, <1>3, <1>4, <1>7, <2>1, <3>1
        <3> QED
            BY <3>2
    <2>2. CASE ~(i <= la)
        <3>0. PICK j : j = i - la
            OBVIOUS
        <3>1. j \in 1 .. lb
            BY <1>1, <2>2, <3>0
        <3>2. u[i] = b[j] /\ sc[i] = sb[j] /\ sb[j] = Seg(b[j]) /\ su[i] = Seg(u[i])
            BY <1>1, <1>3, <1>5, <1>7, <2>2, <3>0, <3>1
        <3> QED
            BY <3>2
    <2> QED
        BY <2>1, <2>2
<1>9. su = sc
    BY <1>3, <1>7, <1>8, SeqEqual
<1>10. FlattenSeq(sc) = FlattenSeq(sa) \o FlattenSeq(sb)
    BY <1>4, <1>5, <1>6, FlattenConcat
<1> QED
    BY <1>0, <1>2, <1>9, <1>10, PlacesIs

\* Concatenation of places is associative.
LEMMA PlaceAssoc ==
    \A p, q, r \in Seq(Place) : (p \o q) \o r = p \o (q \o r)
BY ConcatAssociative

\* A segment cut in two.
LEMMA SegCut ==
    ASSUME NEW x \in Vec, NEW d \in 0 .. x.len
    PROVE  LET front == [x EXCEPT !.len = d]
               rest == [x EXCEPT !.base = @ + d, !.len = @ - d]
           IN  /\ front \in Vec /\ rest \in Vec /\ front.len = d
               /\ Seg(x) = Seg(front) \o Seg(rest)
<1> DEFINE front == [x EXCEPT !.len = d]
           rest == [x EXCEPT !.base = @ + d, !.len = @ - d]
<1>0. /\ x.len \in Nat /\ x.seg \in Nat /\ x.base \in Nat /\ d \in Nat /\ d <= x.len
      /\ x = [seg |-> x.seg, base |-> x.base, len |-> x.len]
    BY DEF Vec
<1>1. /\ front.seg = x.seg /\ front.base = x.base /\ front.len = d
      /\ rest.seg = x.seg /\ rest.base = x.base + d /\ rest.len = x.len - d
    BY <1>0
<1>2. front \in Vec /\ rest \in Vec
    <2>1. x.base + d \in Nat /\ x.len - d \in Nat
        BY <1>0
    <2>2. front \in Vec
        BY <1>0 DEF Vec
    <2>3. PICK k, l : k = x.base + d /\ l = x.len - d
        OBVIOUS
    <2>4. rest = [x EXCEPT !.base = k, !.len = l] /\ k \in Nat /\ l \in Nat
        BY <2>1, <2>3
    <2>5. [x EXCEPT !.base = k, !.len = l] \in Vec
        BY <2>4 DEF Vec
    <2> QED
        BY <2>2, <2>4, <2>5
<1> HIDE DEF front, rest
<1>3. PICK s, f, r : s = Seg(x) /\ f = Seg(front) /\ r = Seg(rest)
    OBVIOUS
<1>4. /\ s \in Seq(Place) /\ Len(s) = x.len
      /\ f \in Seq(Place) /\ Len(f) = d
      /\ r \in Seq(Place) /\ Len(r) = x.len - d
    BY <1>1, <1>2, <1>3, SegType
<1>5. /\ \A o \in 1 .. x.len : s[o] = <<x.seg, x.base + o>>
      /\ \A o \in 1 .. d : f[o] = <<x.seg, x.base + o>>
      /\ \A o \in 1 .. x.len - d : r[o] = <<x.seg, x.base + d + o>>
    BY <1>1, <1>3 DEF Seg
<1>6. PICK t : t = f \o r
    OBVIOUS
<1>7. /\ t \in Seq(Place) /\ Len(t) = x.len
      /\ \A i \in 1 .. x.len : t[i] = IF i <= d THEN f[i] ELSE r[i - d]
    <2>0. f \in Seq(Place) /\ r \in Seq(Place)
        BY <1>4
    <2>1. /\ t \in Seq(Place) /\ Len(t) = Len(f) + Len(r)
          /\ \A i \in 1 .. Len(f) + Len(r) :
                 t[i] = IF i <= Len(f) THEN f[i] ELSE r[i - Len(f)]
        BY <1>6, <2>0, ConcatProperties
    <2>2. Len(f) + Len(r) = x.len /\ Len(f) = d
        BY <1>0, <1>4
    <2> QED
        BY <2>1, <2>2
<1>8. ASSUME NEW i \in 1 .. x.len PROVE s[i] = t[i]
    <2>1. CASE i <= d
        <3>1. i \in 1 .. d
            BY <1>0, <2>1
        <3> QED
            BY <1>5, <1>7, <2>1, <3>1
    <2>2. CASE ~(i <= d)
        <3>0. PICK j : j = i - d
            OBVIOUS
        <3>1. j \in 1 .. x.len - d /\ x.base + d + j = x.base + i
            BY <1>0, <2>2, <3>0
        <3>2. t[i] = r[j] /\ r[j] = <<x.seg, x.base + d + j>>
            BY <1>5, <1>7, <2>2, <3>0, <3>1
        <3> QED
            BY <1>5, <3>1, <3>2
    <2> QED
        BY <2>1, <2>2
<1>9. s = t
    BY <1>4, <1>7, <1>8, SeqEqual
<1> QED
    BY <1>1, <1>2, <1>3, <1>6, <1>9 DEF front, rest

\* Where the transfer of b bytes stopped: the segments before curv are done.
Stops(iov, b, j) ==
    LET Before(i) == Len(Places(SubSeq(iov, 1, i)))
    IN  /\ Before(j) <= b
        /\ j < Len(iov) => Before(j + 1) > b

\* There is such a segment, whatever b is.
LEMMA StopExists ==
    ASSUME NEW iov \in Seq(Vec), NEW b \in Nat
    PROVE  \E j \in 0 .. Len(iov) : Stops(iov, b, j)
<1> DEFINE Before(i) == Len(Places(SubSeq(iov, 1, i)))
           T == {i \in 1 .. Len(iov) : Before(i) > b}
<1>0. Len(iov) \in Nat
    BY LenProperties
<1>1. \A i \in 0 .. Len(iov) : Before(i) \in Nat
    <2>1. ASSUME NEW i \in 0 .. Len(iov) PROVE SubSeq(iov, 1, i) \in Seq(Vec)
        <3>1. \A k \in 1 .. i : iov[k] \in Vec
            BY <1>0, ElementOfSeq
        <3> QED
            BY <1>0, <3>1, SubSeqProperties
    <2> QED
        BY <2>1, PlacesType
<1>2. Before(0) = 0
    <2>1. SubSeq(iov, 1, 0) = <<>>
        BY SubSeqEmpty
    <2>2. Len(<<>>) = 0
        OBVIOUS
    <2> QED
        BY <2>1, <2>2, PlacesEmpty, Zenon
<1>3. CASE T = {}
    <2>1. Before(Len(iov)) <= b
        <3> HIDE DEF Before
        <3>1. CASE Len(iov) = 0
            BY <1>2, <3>1
        <3>2. CASE Len(iov) # 0
            <4>1. Len(iov) \in 1 .. Len(iov) /\ Len(iov) \in 0 .. Len(iov)
                BY <1>0, <3>2
            <4> QED
                BY <1>1, <1>3, <4>1
        <3> QED
            BY <3>1, <3>2
    <2>2. Stops(iov, b, Len(iov))
        BY <1>0, <2>1 DEF Stops
    <2> QED
        BY <1>0, <2>2
<1>4. CASE T # {}
    <2>1. T \in SUBSET Nat
        OBVIOUS
    <2>2. PICK n \in T : \A k \in T : n <= k
        <3> HIDE DEF T
        <3> QED
            BY <1>4, <2>1, Least
    <2> HIDE DEF Before
    <2>3. n \in 1 .. Len(iov) /\ Before(n) > b
        OBVIOUS
    <2>4. n - 1 \in 0 .. Len(iov) /\ n - 1 \notin T /\ (n - 1) + 1 = n
        BY <1>0, <2>2, <2>3
    <2>5. Before(n - 1) <= b
        <3>1. CASE n = 1
            <4>1. n - 1 = 0
                BY <3>1
            <4> QED
                BY <1>2, <4>1
        <3>2. CASE n # 1
            <4>1. n - 1 \in 1 .. Len(iov)
                BY <2>3, <2>4, <3>2
            <4> QED
                BY <1>1, <2>4, <4>1
        <3> QED
            BY <3>1, <3>2
    <2>6. PICK j : j = n - 1
        OBVIOUS
    <2>7. j \in 0 .. Len(iov) /\ Before(j) <= b /\ Before(j + 1) > b
        BY <2>3, <2>4, <2>5, <2>6
    <2>8. Stops(iov, b, j)
        BY <2>7 DEF Stops, Before
    <2> QED
        BY <2>7, <2>8
<1> QED
    BY <1>3, <1>4

\* What Advance leaves are the places after the first b.
LEMMA AdvanceSplits ==
    ASSUME NEW iov \in Seq(Vec), NEW b \in 1 .. Len(Places(iov))
    PROVE  /\ Advance(iov, b) \in Seq(Vec)
           /\ SubSeq(Places(iov), 1, b) \in Seq(Place)
           /\ Len(SubSeq(Places(iov), 1, b)) = b
           /\ Places(iov) = SubSeq(Places(iov), 1, b) \o Places(Advance(iov, b))
<1> DEFINE Before(i) == Len(Places(SubSeq(iov, 1, i)))
           curv == CHOOSE j \in 0 .. Len(iov) :
                       /\ Before(j) <= b
                       /\ j < Len(iov) => Before(j + 1) > b
           left == SubSeq(iov, curv + 1, Len(iov))
<1>0. /\ Len(iov) \in Nat /\ b \in Nat /\ b >= 1 /\ b <= Len(Places(iov))
      /\ Places(iov) \in Seq(Place) /\ Len(Places(iov)) \in Nat
    BY LenProperties, PlacesType
<1>1. /\ curv \in 0 .. Len(iov) /\ Before(curv) <= b
      /\ curv < Len(iov) => Before(curv + 1) > b
    <2>1. \E j \in 0 .. Len(iov) : /\ Before(j) <= b
                                   /\ j < Len(iov) => Before(j + 1) > b
        BY <1>0, StopExists DEF Stops
    <2> HIDE DEF Before
    <2> QED
        BY <2>1, Zenon
<1>2. Advance(iov, b) =
          IF left = <<>> THEN left
          ELSE [left EXCEPT ![1].base = @ + (b - Before(curv)),
                            ![1].len = @ - (b - Before(curv))]
    BY DEF Advance
<1> HIDE DEF curv
<1>3. PICK c : c = curv
    OBVIOUS
<1>4. /\ c \in 0 .. Len(iov) /\ c \in Nat /\ c <= Len(iov) /\ Before(c) <= b
      /\ c < Len(iov) => Before(c + 1) > b
    BY <1>0, <1>1, <1>3
<1>5. PICK a : a = SubSeq(iov, 1, c)
    OBVIOUS
<1>6. \A i \in 1 .. Len(iov) : iov[i] \in Vec
    BY ElementOfSeq
<1>7. a \in Seq(Vec) /\ Before(c) = Len(Places(a))
    <2>1. \A i \in 1 .. c : iov[i] \in Vec
        BY <1>4, <1>6
    <2> QED
        BY <1>4, <1>5, <2>1, SubSeqProperties
<1>8. SubSeq(iov, 1, Len(iov)) = iov
    BY SubSeqFull
<1>9. CASE c = Len(iov)
    <2>1. left = <<>>
        BY <1>0, <1>3, <1>9, SubSeqEmpty
    <2>2. a = iov
        BY <1>5, <1>8, <1>9
    <2>3. b = Len(Places(iov))
        BY <1>0, <1>4, <1>7, <2>2
    <2>4. Advance(iov, b) = <<>>
        BY <1>2, <2>1
    <2>5. SubSeq(Places(iov), 1, b) = Places(iov)
        BY <1>0, <2>3, SubSeqFull
    <2>6. Places(iov) \o <<>> = Places(iov)
        BY <1>0, ConcatEmptySeq
    <2> HIDE DEF left
    <2>7. <<>> \in Seq(Vec)
        OBVIOUS
    <2> QED
        BY <1>0, <2>3, <2>4, <2>5, <2>6, <2>7, PlacesEmpty
<1>10. CASE c # Len(iov)
    <2>1. c < Len(iov) /\ c + 1 \in 1 .. Len(iov) /\ c + 2 \in Int
        BY <1>0, <1>4, <1>10
    <2>2. PICK x, z : x = iov[c + 1] /\ z = SubSeq(iov, c + 2, Len(iov))
        OBVIOUS
    <2>3. x \in Vec /\ z \in Seq(Vec)
        <3>1. \A i \in c + 2 .. Len(iov) : iov[i] \in Vec
            BY <1>0, <1>4, <1>6
        <3> QED
            BY <1>0, <1>6, <2>1, <2>2, <3>1, SubSeqProperties
    <2>4. left = <<x>> \o z
        <3>1. Len(iov) \in c + 1 .. Len(iov) /\ (c + 1) + 1 = c + 2
            BY <1>0, <1>4, <2>1
        <3>2. SubSeq(iov, c + 1, Len(iov)) =
                  <<iov[c + 1]>> \o SubSeq(iov, (c + 1) + 1, Len(iov))
            BY <2>1, <3>1, SubSeqRecursiveFirst
        <3> QED
            BY <1>3, <2>2, <3>1, <3>2
    <2>5. iov = a \o left
        <3>1. 1 \in 1 .. Len(iov) + 1 /\ c \in 1 - 1 .. Len(iov)
              /\ Len(iov) \in c .. Len(iov)
            BY <1>0, <1>4
        <3> QED
            BY <1>3, <1>5, <1>8, <3>1, ConcatAdjacentSubSeq
    <2>6. SubSeq(iov, 1, c + 1) = a \o <<x>>
        <3>1. 1 \in 1 .. Len(iov) /\ c + 1 \in 1 .. Len(iov) /\ (c + 1) - 1 = c
            BY <1>0, <1>4, <2>1
        <3> QED
            BY <1>5, <2>2, <3>1, SubSeqRecursiveSecond
    <2>7. PICK pa, sx, pz : pa = Places(a) /\ sx = Seg(x) /\ pz = Places(z)
        OBVIOUS
    <2>8. /\ pa \in Seq(Place) /\ sx \in Seq(Place) /\ pz \in Seq(Place)
          /\ Len(sx) = x.len /\ x.len \in Nat /\ Len(pa) \in Nat
        BY <1>7, <2>3, <2>7, PlacesType, SegType
    <2>9. <<x>> \in Seq(Vec)
        BY <2>3
    <2>10. Before(c + 1) = Len(pa) + x.len
        <3>1. Places(a \o <<x>>) = pa \o sx
            BY <1>7, <2>3, <2>7, <2>9, PlacesConcat, PlacesOne
        <3>2. Len(pa \o sx) = Len(pa) + x.len
            <4>1. pa \in Seq(Place) /\ sx \in Seq(Place)
                BY <2>8
            <4>2. Len(pa \o sx) = Len(pa) + Len(sx)
                BY <4>1, ConcatProperties
            <4> QED
                BY <2>8, <4>2
        <3> QED
            BY <2>6, <3>1, <3>2
    <2>11. PICK d : d = b - Len(pa)
        OBVIOUS
    <2>12. d \in 0 .. x.len /\ Len(pa) + d = b
        <3>1. Len(pa) <= b /\ Len(pa) + x.len > b
            BY <1>4, <1>7, <2>1, <2>7, <2>10
        <3> QED
            BY <1>0, <2>8, <2>11, <3>1
    <2>13. PICK xf, xr : /\ xf = [x EXCEPT !.len = d]
                         /\ xr = [x EXCEPT !.base = @ + d, !.len = @ - d]
        OBVIOUS
    <2>14. xf \in Vec /\ xr \in Vec /\ xf.len = d /\ sx = Seg(xf) \o Seg(xr)
        BY <2>3, <2>7, <2>12, <2>13, SegCut
    <2>15. Advance(iov, b) = <<xr>> \o z
        <3>1. PICK w : w = left
            OBVIOUS
        <3>2. w = <<x>> \o z
            BY <2>4, <3>1
        <3>3. /\ w \in Seq(Vec) /\ Len(w) = 1 + Len(z) /\ Len(z) \in Nat
              /\ \A i \in 1 .. 1 + Len(z) : w[i] = IF i <= 1 THEN <<x>>[i] ELSE z[i - 1]
            BY <2>3, <2>9, <3>2, ConcatProperties, LenProperties
        <3>4. w # <<>> /\ w[1] = x /\ 1 \in 1 .. Len(w)
            BY <3>3
        <3>5. Advance(iov, b) = [w EXCEPT ![1].base = @ + d, ![1].len = @ - d]
            BY <1>2, <1>3, <1>7, <2>7, <2>11, <3>1, <3>4
        <3>6. [w EXCEPT ![1].base = @ + d, ![1].len = @ - d] = [w EXCEPT ![1] = xr]
            <4>1. DOMAIN w = 1 .. Len(w)
                BY <3>3, LenProperties
            <4> QED
                BY <2>13, <3>4, <4>1
        <3>7. PICK y : y = [w EXCEPT ![1] = xr]
            OBVIOUS
        <3>8. /\ y \in Seq(Vec) /\ Len(y) = 1 + Len(z)
              /\ \A j \in 1 .. 1 + Len(z) : y[j] = IF j = 1 THEN xr ELSE w[j]
            BY <2>14, <3>3, <3>4, <3>7, ExceptSeq
        <3>9. <<xr>> \in Seq(Vec) /\ Len(<<xr>>) = 1
            BY <2>14
        <3>10. PICK q : q = <<xr>> \o z
            OBVIOUS
        <3>11. /\ q \in Seq(Vec) /\ Len(q) = 1 + Len(z)
               /\ \A i \in 1 .. 1 + Len(z) :
                      q[i] = IF i <= 1 THEN <<xr>>[i] ELSE z[i - 1]
            BY <2>3, <3>9, <3>10, ConcatProperties
        <3>12. ASSUME NEW i \in 1 .. 1 + Len(z) PROVE y[i] = q[i]
            <4>1. CASE i = 1
                <5>1. q[i] = <<xr>>[i] /\ y[i] = xr
                    BY <3>8, <3>11, <4>1
                <5> QED
                    BY <4>1, <5>1
            <4>2. CASE i # 1
                <5>1. ~(i <= 1)
                    BY <3>3, <4>2
                <5> QED
                    BY <3>3, <3>8, <3>11, <4>2, <5>1
            <4> QED
                BY <4>1, <4>2
        <3>13. y = q
            BY <3>8, <3>11, <3>12, SeqEqual
        <3> QED
            BY <3>5, <3>6, <3>7, <3>10, <3>13
    <2>16. PICK sf, sr : sf = Seg(xf) /\ sr = Seg(xr)
        OBVIOUS
    <2>17. sf \in Seq(Place) /\ Len(sf) = d /\ sr \in Seq(Place)
        BY <2>14, <2>16, SegType
    <2>18. Places(Advance(iov, b)) = sr \o pz /\ Advance(iov, b) \in Seq(Vec)
        <3>1. <<xr>> \in Seq(Vec)
            BY <2>14
        <3>2. Places(<<xr>> \o z) = Places(<<xr>>) \o Places(z)
            BY <2>3, <3>1, PlacesConcat
        <3>3. <<xr>> \o z \in Seq(Vec)
            BY <2>3, <3>1, ConcatProperties
        <3> QED
            BY <2>7, <2>14, <2>15, <2>16, <3>2, <3>3, PlacesOne
    <2>19. Places(iov) = pa \o (sx \o pz)
        <3>1. left \in Seq(Vec)
            BY <2>3, <2>4, <2>9, ConcatProperties
        <3>2. Places(a \o left) = Places(a) \o Places(left)
            BY <1>7, <3>1, PlacesConcat
        <3>3. Places(<<x>> \o z) = Places(<<x>>) \o Places(z)
            BY <2>3, <2>9, PlacesConcat
        <3>4. Places(<<x>>) = sx
            BY <2>3, <2>7, PlacesOne
        <3> HIDE DEF left
        <3> QED
            BY <2>4, <2>5, <2>7, <3>2, <3>3, <3>4
    <2>20. pa \o (sx \o pz) = (pa \o sf) \o (sr \o pz)
        <3>1. sx \o pz = sf \o (sr \o pz)
            <4>1. sf \in Seq(Place) /\ sr \in Seq(Place) /\ pz \in Seq(Place)
                BY <2>8, <2>17
            <4>2. (sf \o sr) \o pz = sf \o (sr \o pz)
                BY <4>1, PlaceAssoc, Zenon
            <4> QED
                BY <2>14, <2>16, <4>2
        <3>2. PICK v : v = sr \o pz
            OBVIOUS
        <3>3. v \in Seq(Place)
            BY <2>8, <2>17, <3>2, ConcatProperties
        <3>4. (pa \o sf) \o v = pa \o (sf \o v)
            <4>1. pa \in Seq(Place) /\ sf \in Seq(Place) /\ v \in Seq(Place)
                BY <2>8, <2>17, <3>3
            <4> QED
                BY <4>1, PlaceAssoc, Zenon
        <3> QED
            BY <3>1, <3>2, <3>4
    <2>21. PICK y, v : y = pa \o sf /\ v = sr \o pz
        OBVIOUS
    <2>22. y \in Seq(Place) /\ Len(y) = b /\ v \in Seq(Place)
        BY <2>8, <2>12, <2>17, <2>21, ConcatProperties
    <2>23. SubSeq(y \o v, 1, b) = y
        BY <2>22, TakeConcat
    <2> QED
        BY <2>18, <2>19, <2>20, <2>21, <2>22, <2>23
<1> QED
    BY <1>9, <1>10

-----------------------------------------------------------------------------
(* Bytes, messages and loads.                                              *)

\* Concatenation of bytes is associative.
LEMMA ByteAssoc ==
    \A p, q, r \in Seq(Byte) : (p \o q) \o r = p \o (q \o r)
BY ConcatAssociative

\* As many bytes as places.
LEMMA BytesType ==
    ASSUME NEW m \in Nat, NEW p \in Seq(Place)
    PROVE  /\ Bytes(m, p) \in Seq(Byte) /\ Len(Bytes(m, p)) = Len(p)
           /\ \A i \in 1 .. Len(p) : Bytes(m, p)[i] = <<m, p[i][1], p[i][2]>>
<1>1. Len(p) \in Nat /\ DOMAIN p = 1 .. Len(p)
    BY LenProperties
<1>2. \A i \in 1 .. Len(p) : <<m, p[i][1], p[i][2]>> \in Byte
    <2>1. ASSUME NEW i \in 1 .. Len(p) PROVE <<m, p[i][1], p[i][2]>> \in Byte
        <3>1. p[i] \in Nat \X Nat
            BY ElementOfSeq DEF Place
        <3>2. p[i][1] \in Nat /\ p[i][2] \in Nat
            BY <3>1
        <3> QED
            BY <3>2 DEF Byte
    <2> QED
        BY <2>1
<1>3. Bytes(m, p) = [i \in 1 .. Len(p) |-> <<m, p[i][1], p[i][2]>>]
    BY <1>1 DEF Bytes
<1>4. Bytes(m, p) \in [1 .. Len(p) -> Byte]
    BY <1>2, <1>3
<1> QED
    BY <1>1, <1>3, <1>4, IsSeq

\* No places, no bytes.
LEMMA BytesEmpty ==
    ASSUME NEW m \in Nat
    PROVE  Bytes(m, <<>>) = <<>>
<1>1. <<>> \in Seq(Place) /\ Len(<<>>) = 0
    OBVIOUS
<1>2. Bytes(m, <<>>) \in Seq(Byte) /\ Len(Bytes(m, <<>>)) = 0
    BY <1>1, BytesType
<1> QED
    BY <1>2, EmptySeq

\* The bytes of places put after others.
LEMMA BytesConcat ==
    ASSUME NEW m \in Nat, NEW p \in Seq(Place), NEW q \in Seq(Place)
    PROVE  Bytes(m, p \o q) = Bytes(m, p) \o Bytes(m, q)
<1>0. PICK u, lp, lq : u = p \o q /\ lp = Len(p) /\ lq = Len(q)
    OBVIOUS
<1>1. /\ u \in Seq(Place) /\ Len(u) = lp + lq /\ lp \in Nat /\ lq \in Nat
      /\ \A i \in 1 .. lp + lq : u[i] = IF i <= lp THEN p[i] ELSE q[i - lp]
    BY <1>0, ConcatProperties, LenProperties
<1>2. PICK bu, bp, bq : bu = Bytes(m, u) /\ bp = Bytes(m, p) /\ bq = Bytes(m, q)
    OBVIOUS
<1>3. /\ bu \in Seq(Byte) /\ Len(bu) = lp + lq
      /\ \A i \in 1 .. lp + lq : bu[i] = <<m, u[i][1], u[i][2]>>
    BY <1>1, <1>2, BytesType
<1>4. /\ bp \in Seq(Byte) /\ Len(bp) = lp
      /\ \A i \in 1 .. lp : bp[i] = <<m, p[i][1], p[i][2]>>
    BY <1>0, <1>2, BytesType
<1>5. /\ bq \in Seq(Byte) /\ Len(bq) = lq
      /\ \A i \in 1 .. lq : bq[i] = <<m, q[i][1], q[i][2]>>
    BY <1>0, <1>2, BytesType
<1>6. PICK bc : bc = bp \o bq
    OBVIOUS
<1>7. /\ bc \in Seq(Byte) /\ Len(bc) = lp + lq
      /\ \A i \in 1 .. lp + lq : bc[i] = IF i <= lp THEN bp[i] ELSE bq[i - lp]
    BY <1>4, <1>5, <1>6, ConcatProperties
<1>8. ASSUME NEW i \in 1 .. lp + lq PROVE bu[i] = bc[i]
    <2>1. CASE i <= lp
        <3>1. i \in 1 .. lp
            BY <1>1, <2>1
        <3>2. u[i] = p[i] /\ bc[i] = bp[i]
            BY <1>1, <1>7, <2>1
        <3> QED
            BY <1>3, <1>4, <3>1, <3>2
    <2>2. CASE ~(i <= lp)
        <3>0. PICK j : j = i - lp
            OBVIOUS
        <3>1. j \in 1 .. lq
            BY <1>1, <2>2, <3>0
        <3>2. u[i] = q[j] /\ bc[i] = bq[j]
            BY <1>1, <1>7, <2>2, <3>0
        <3> QED
            BY <1>3, <1>5, <3>1, <3>2
    <2> QED
        BY <2>1, <2>2
<1>9. bu = bc
    BY <1>3, <1>7, <1>8, SeqEqual
<1> QED
    BY <1>0, <1>2, <1>6, <1>9

\* ktli_socket_send and ktli_recvmsg hand out vectors of segments.
LEMMA IovType ==
    ASSUME NEW lens \in Seq(Nat), NEW first \in Nat \ {0}
    PROVE  /\ Iov(lens, first) \in Seq(Vec) /\ Len(Iov(lens, first)) = Len(lens)
           /\ \A v \in 1 .. Len(lens) :
                  Iov(lens, first)[v] =
                      [seg |-> first + v - 1, base |-> 0, len |-> lens[v]]
<1>1. Len(lens) \in Nat /\ DOMAIN lens = 1 .. Len(lens)
    BY LenProperties
<1>2. ASSUME NEW v \in 1 .. Len(lens)
      PROVE  [seg |-> first + v - 1, base |-> 0, len |-> lens[v]] \in Vec
    <2>1. first + v - 1 \in Nat /\ lens[v] \in Nat
        BY <1>1
    <2> QED
        BY <2>1 DEF Vec
<1>3. Iov(lens, first) =
          [v \in 1 .. Len(lens) |->
              [seg |-> first + v - 1, base |-> 0, len |-> lens[v]]]
    BY <1>1 DEF Iov
<1>4. Iov(lens, first) \in [1 .. Len(lens) -> Vec]
    BY <1>2, <1>3
<1> QED
    BY <1>1, <1>3, <1>4, IsSeq

Header == Places(Iov(<<KP_PLENGTH>>, 1))

\* A header has at least one byte.
LEMMA HeaderType ==
    /\ Iov(<<KP_PLENGTH>>, 1) \in Seq(Vec)
    /\ Header \in Seq(Place)
    /\ <<1, 1>> \in ToSet(Header)
<1>1. KP_PLENGTH \in Nat /\ KP_PLENGTH >= 1
    BY StreamAssumption
<1>2. PICK x : x = [seg |-> 1, base |-> 0, len |-> KP_PLENGTH]
    OBVIOUS
<1>3. x \in Vec /\ x.len = KP_PLENGTH /\ x.seg = 1 /\ x.base = 0
    BY <1>1, <1>2 DEF Vec
<1>4. Iov(<<KP_PLENGTH>>, 1) \in Seq(Vec) /\ Iov(<<KP_PLENGTH>>, 1) = <<x>>
    <2>1. <<KP_PLENGTH>> \in Seq(Nat) /\ Len(<<KP_PLENGTH>>) = 1
          /\ <<KP_PLENGTH>>[1] = KP_PLENGTH
        BY <1>1
    <2>2. PICK i : i = Iov(<<KP_PLENGTH>>, 1)
        OBVIOUS
    <2>3. /\ i \in Seq(Vec) /\ Len(i) = 1
          /\ i[1] = [seg |-> 1 + 1 - 1, base |-> 0, len |-> KP_PLENGTH]
        <3>1. 1 \in Nat \ {0} /\ 1 \in 1 .. 1
            OBVIOUS
        <3> QED
            BY <2>1, <2>2, <3>1, IovType
    <2>4. i[1] = x
        BY <1>2, <2>3
    <2>5. <<x>> \in Seq(Vec) /\ Len(<<x>>) = 1 /\ <<x>>[1] = x
        BY <1>3
    <2>6. \A k \in 1 .. 1 : i[k] = <<x>>[k]
        <3>1. ASSUME NEW k \in 1 .. 1 PROVE k = 1
            OBVIOUS
        <3> QED
            BY <2>4, <2>5, <3>1
    <2>7. i = <<x>>
        BY <2>3, <2>5, <2>6, SeqEqual
    <2> QED
        BY <2>2, <2>3, <2>7
<1>5. Header = Seg(x)
    BY <1>3, <1>4, PlacesOne DEF Header
<1>6. Header \in Seq(Place) /\ Len(Header) = KP_PLENGTH
    BY <1>3, <1>5, SegType
<1>7. 1 \in DOMAIN Header /\ Header[1] = <<1, 1>>
    <2>1. 1 \in 1 .. KP_PLENGTH
        BY <1>1
    <2> QED
        BY <1>3, <1>5, <2>1 DEF Seg
<1> QED
    BY <1>4, <1>6, <1>7 DEF ToSet

\* The places of a message are those of its header and of what follows.
LEMMA HeaderThenBody ==
    ASSUME NEW lens \in Seq(Nat), Len(lens) = 3, lens[1] = KP_PLENGTH
    PROVE  /\ Tail(lens) \in Seq(Nat) /\ Iov(Tail(lens), 2) \in Seq(Vec)
           /\ Places(Iov(lens, 1)) = Header \o Places(Iov(Tail(lens), 2))
<1>0. PICK tl : tl = Tail(lens)
    OBVIOUS
<1>1. /\ tl \in Seq(Nat) /\ Len(tl) = 2
      /\ \A i \in 1 .. 2 : tl[i] = lens[i + 1]
    <2>0. Len(<<>>) = 0 /\ 0 # 3
        OBVIOUS
    <2>1. lens # <<>>
        BY <2>0, Zenon
    <2>2. Len(Tail(lens)) = 2
        BY <2>1, HeadTailProperties
    <2> QED
        BY <1>0, <2>1, <2>2, HeadTailProperties
<1>2. PICK w, h, r : w = Iov(lens, 1) /\ h = Iov(<<KP_PLENGTH>>, 1) /\ r = Iov(tl, 2)
    OBVIOUS
<1>3. /\ w \in Seq(Vec) /\ Len(w) = 3
      /\ \A v \in 1 .. 3 : w[v] = [seg |-> 1 + v - 1, base |-> 0, len |-> lens[v]]
    BY <1>2, IovType
<1>4. /\ r \in Seq(Vec) /\ Len(r) = 2
      /\ \A v \in 1 .. 2 : r[v] = [seg |-> 2 + v - 1, base |-> 0, len |-> tl[v]]
    BY <1>1, <1>2, IovType
<1>5. /\ h \in Seq(Vec) /\ Len(h) = 1
      /\ h[1] = [seg |-> 1 + 1 - 1, base |-> 0, len |-> KP_PLENGTH]
    <2>1. <<KP_PLENGTH>> \in Seq(Nat) /\ Len(<<KP_PLENGTH>>) = 1
          /\ <<KP_PLENGTH>>[1] = KP_PLENGTH
        BY StreamAssumption
    <2>2. 1 \in Nat \ {0} /\ 1 \in 1 .. 1
        OBVIOUS
    <2> QED
        BY <1>2, <2>1, <2>2, IovType
<1>6. PICK c : c = h \o r
    OBVIOUS
<1>7. /\ c \in Seq(Vec) /\ Len(c) = 3
      /\ \A i \in 1 .. 3 : c[i] = IF i <= 1 THEN h[i] ELSE r[i - 1]
    <2>1. /\ c \in Seq(Vec) /\ Len(c) = Len(h) + Len(r)
          /\ \A i \in 1 .. Len(h) + Len(r) :
                 c[i] = IF i <= Len(h) THEN h[i] ELSE r[i - Len(h)]
        BY <1>4, <1>5, <1>6, ConcatProperties
    <2>2. Len(h) + Len(r) = 3
        BY <1>4, <1>5
    <2> QED
        BY <1>5, <2>1, <2>2
<1>8. ASSUME NEW i \in 1 .. 3 PROVE w[i] = c[i]
    <2>1. CASE i = 1
        <3>1. w[i] = [seg |-> 1 + i - 1, base |-> 0, len |-> lens[i]] /\ c[i] = h[i]
            BY <1>3, <1>7, <2>1
        <3> QED
            BY <1>5, <2>1, <3>1
    <2>2. CASE i # 1
        <3>0. PICK j : j = i - 1
            OBVIOUS
        <3>1. j \in 1 .. 2 /\ 2 + j - 1 = 1 + i - 1 /\ j + 1 = i /\ ~(i <= 1)
            BY <2>2, <3>0
        <3>2. w[i] = [seg |-> 1 + i - 1, base |-> 0, len |-> lens[i]] /\ c[i] = r[j]
            BY <1>3, <1>7, <3>0, <3>1
        <3>3. r[j] = [seg |-> 2 + j - 1, base |-> 0, len |-> lens[i]]
            BY <1>1, <1>4, <3>1
        <3> QED
            BY <3>1, <3>2, <3>3
    <2> QED
        BY <2>1, <2>2
<1>9. w = c
    <2>1. w \in Seq(Vec) /\ c \in Seq(Vec) /\ Len(w) = Len(c)
        BY <1>3, <1>7
    <2>2. \A i \in 1 .. Len(w) : w[i] = c[i]
        BY <1>3, <1>8, Zenon
    <2> QED
        BY <2>1, <2>2, SeqEqual
<1>10. Places(c) = Places(h) \o Places(r)
    BY <1>4, <1>5, <1>6, PlacesConcat
<1> QED
    BY <1>0, <1>1, <1>2, <1>4, <1>9, <1>10 DEF Header

\* The bytes of a message.
LEMMA WholeType ==
    ASSUME NEW m \in Nat, NEW lens \in Seq(Nat)
    PROVE  /\ Whole(m, lens) = Bytes(m, Places(Iov(lens, 1)))
           /\ Whole(m, lens) \in Seq(Byte)
           /\ Iov(lens, 1) \in Seq(Vec) /\ Places(Iov(lens, 1)) \in Seq(Place)
           /\ Len(Whole(m, lens)) = Len(Places(Iov(lens, 1)))
<1>1. Iov(lens, 1) \in Seq(Vec)
    <2>1. 1 \in Nat \ {0}
        OBVIOUS
    <2> QED
        BY <2>1, IovType
<1>2. Places(Iov(lens, 1)) \in Seq(Place)
    BY <1>1, PlacesType
<1> QED
    BY <1>1, <1>2, BytesType DEF Whole

Load(l) ==
    /\ l.req \in Seq(Seq(Nat)) /\ l.rsp \in Seq(Seq(Nat))
    /\ \A m \in DOMAIN l.rsp : Len(l.rsp[m]) = 3 /\ l.rsp[m][1] = KP_PLENGTH

\* What the assumption says of a load.
LEMMA LoadsAre ==
    ASSUME NEW l \in Loads
    PROVE  Load(l)
BY StreamAssumption DEF Load

\* The messages of a load, and of those begun on a connection.
Device(l) == [m \in DOMAIN l.rsp |-> Whole(m, l.rsp[m])]
Messages(l, b) == [i \in DOMAIN b |-> Whole(b[i], l.req[b[i]])]

\* The messages the device sends.
LEMMA DeviceType ==
    ASSUME NEW l, Load(l)
    PROVE  /\ Device(l) \in Seq(Seq(Byte)) /\ Len(Device(l)) = Len(l.rsp)
           /\ DOMAIN l.rsp = 1 .. Len(l.rsp) /\ Len(l.rsp) \in Nat
           /\ \A m \in 1 .. Len(l.rsp) :
                  /\ l.rsp[m] \in Seq(Nat) /\ m \in Nat
                  /\ Device(l)[m] = Whole(m, l.rsp[m])
<1>0. PICK r : r = l.rsp
    OBVIOUS
<1>1. r \in Seq(Seq(Nat)) /\ Len(r) \in Nat /\ DOMAIN r = 1 .. Len(r)
    BY <1>0, LenProperties DEF Load
<1>2. \A m \in 1 .. Len(r) : r[m] \in Seq(Nat) /\ m \in Nat
    BY <1>1, ElementOfSeq
<1>3. \A m \in 1 .. Len(r) : Whole(m, r[m]) \in Seq(Byte)
    BY <1>2, WholeType
<1>4. Device(l) = [m \in 1 .. Len(r) |-> Whole(m, r[m])]
    BY <1>0, <1>1 DEF Device
<1>5. Device(l) \in [1 .. Len(r) -> Seq(Byte)]
    BY <1>3, <1>4
<1>6. \A m \in 1 .. Len(r) : Device(l)[m] = Whole(m, r[m])
    BY <1>4
<1>7. Device(l) \in Seq(Seq(Byte)) /\ Len(Device(l)) = Len(r)
    BY <1>1, <1>5, IsSeq
<1> QED
    BY <1>0, <1>1, <1>2, <1>6, <1>7

\* The messages begun on a connection.
LEMMA MessagesType ==
    ASSUME NEW l, Load(l), NEW b \in Seq(1 .. Len(l.req))
    PROVE  /\ Messages(l, b) \in Seq(Seq(Byte)) /\ Len(Messages(l, b)) = Len(b)
           /\ DOMAIN b = 1 .. Len(b) /\ Len(b) \in Nat
           /\ \A i \in 1 .. Len(b) : Messages(l, b)[i] = Whole(b[i], l.req[b[i]])
<1>0. PICK r : r = l.req
    OBVIOUS
<1>1. r \in Seq(Seq(Nat)) /\ Len(r) \in Nat
    BY <1>0, LenProperties DEF Load
<1>2. b \in Seq(1 .. Len(r)) /\ Len(b) \in Nat /\ DOMAIN b = 1 .. Len(b)
    BY <1>0, LenProperties
<1>3. \A i \in 1 .. Len(b) : b[i] \in 1 .. Len(r)
    BY <1>2, ElementOfSeq
<1>4. \A m \in 1 .. Len(r) : r[m] \in Seq(Nat) /\ m \in Nat
    BY <1>1, ElementOfSeq
<1>5. \A i \in 1 .. Len(b) : Whole(b[i], r[b[i]]) \in Seq(Byte)
    BY <1>3, <1>4, WholeType
<1>6. Messages(l, b) = [i \in 1 .. Len(b) |-> Whole(b[i], r[b[i]])]
    BY <1>0, <1>2 DEF Messages
<1>7. Messages(l, b) \in [1 .. Len(b) -> Seq(Byte)]
    BY <1>5, <1>6
<1>8. \A i \in 1 .. Len(b) : Messages(l, b)[i] = Whole(b[i], r[b[i]])
    BY <1>6
<1>9. Messages(l, b) \in Seq(Seq(Byte)) /\ Len(Messages(l, b)) = Len(b)
    BY <1>2, <1>7, IsSeq
<1> QED
    BY <1>0, <1>2, <1>8, <1>9

-----------------------------------------------------------------------------
(* The sender: what it has begun is what the socket took and what is left. *)

Left(t) == IF t.pc = "writev" THEN Bytes(t.m, Places(t.iov)) ELSE <<>>

Sends(l, st, t, w, b, o) ==
    /\ w \in Seq(Byte) /\ b \in Seq(1 .. Len(l.req)) /\ o \in 0 .. Len(b)
    /\ t.pc = "writev" => /\ t.iov \in Seq(Vec) /\ t.m \in Nat
                          /\ o < Len(b)
    /\ IsPrefix(w, FlattenSeq(Messages(l, b)))
    /\ Len(w) >= Len(Joined(Messages(l, b), o))
    /\ st \in {"open", "eof"} => FlattenSeq(Messages(l, b)) = w \o Left(t)

\* On a new connection nothing has been sent.
LEMMA SendsEmpty ==
    ASSUME NEW l, NEW st, NEW t, Load(l), t.pc = "idle"
    PROVE  Sends(l, st, t, <<>>, <<>>, 0)
<1>0. PICK b : b = <<>>
    OBVIOUS
<1>1. /\ b \in Seq(1 .. Len(l.req)) /\ Len(b) = 0 /\ b \in Seq(Byte)
      /\ 0 \in 0 .. Len(b)
    BY <1>0
<1>2. Messages(l, b) = b
    <2>1. Messages(l, b) \in Seq(Seq(Byte)) /\ Len(Messages(l, b)) = 0
        BY <1>1, MessagesType
    <2> QED
        BY <1>0, <2>1, EmptySeq
<1>3. FlattenSeq(b) = b
    BY <1>0, FlattenEmpty
<1>4. Joined(b, 0) = b
    <2>1. SubSeq(b, 1, 0) = b
        BY <1>0, SubSeqEmpty
    <2> QED
        BY <1>3, <2>1 DEF Joined
<1>5. b \o b = b
    BY <1>0, <1>1, ConcatEmptySeq
<1>6. IsPrefix(b, b)
    BY <1>1, <1>5, ConcatPrefix
<1>7. Left(t) = b
    BY <1>0, Zenon DEF Left
<1>8. Len(b) >= Len(b)
    BY <1>1
<1>9. t.pc # "writev"
    OBVIOUS
<1>10. Sends(l, st, t, b, b, 0)
    BY <1>1, <1>2, <1>3, <1>4, <1>5, <1>6, <1>7, <1>8, <1>9, Zenon DEF Sends
<1> QED
    BY <1>0, <1>10, Zenon

\* One more message.
LEMMA MessagesAppend ==
    ASSUME NEW l, Load(l), NEW b \in Seq(1 .. Len(l.req)), NEW m \in 1 .. Len(l.req)
    PROVE  /\ Append(b, m) \in Seq(1 .. Len(l.req)) /\ Len(Append(b, m)) = Len(b) + 1
           /\ FlattenSeq(Messages(l, Append(b, m))) =
                  FlattenSeq(Messages(l, b)) \o Whole(m, l.req[m])
           /\ \A o \in 0 .. Len(b) :
                  Joined(Messages(l, Append(b, m)), o) = Joined(Messages(l, b), o)
<1>0. PICK c, x, s, u : /\ c = Append(b, m) /\ x = Whole(m, l.req[m])
                        /\ s = Messages(l, b) /\ u = Messages(l, c)
    OBVIOUS
<1>1. /\ c \in Seq(1 .. Len(l.req)) /\ Len(c) = Len(b) + 1 /\ Len(b) \in Nat
      /\ c[Len(b) + 1] = m /\ \A i \in 1 .. Len(b) : c[i] = b[i]
    BY <1>0, AppendProperties, LenProperties
<1>2. /\ s \in Seq(Seq(Byte)) /\ Len(s) = Len(b)
      /\ \A i \in 1 .. Len(b) : s[i] = Whole(b[i], l.req[b[i]])
    BY <1>0, MessagesType
<1>3. /\ u \in Seq(Seq(Byte)) /\ Len(u) = Len(b) + 1
      /\ \A i \in 1 .. Len(b) + 1 : u[i] = Whole(c[i], l.req[c[i]])
    <2>1. c \in Seq(1 .. Len(l.req))
        BY <1>1
    <2>2. /\ u \in Seq(Seq(Byte)) /\ Len(u) = Len(c)
          /\ \A i \in 1 .. Len(c) : u[i] = Whole(c[i], l.req[c[i]])
        BY <1>0, <2>1, MessagesType
    <2> QED
        BY <1>1, <2>2, Zenon
<1>4. \A i \in 1 .. Len(b) : u[i] = s[i]
    <2>1. \A i \in 1 .. Len(b) : i \in 1 .. Len(b) + 1
        BY <1>1
    <2> QED
        BY <1>1, <1>2, <1>3, <2>1
<1>5. u[Len(b) + 1] = x
    <2>1. Len(b) + 1 \in 1 .. Len(b) + 1
        BY <1>1
    <2>2. u[Len(b) + 1] = Whole(c[Len(b) + 1], l.req[c[Len(b) + 1]])
        BY <1>3, <2>1, Zenon
    <2> QED
        BY <1>0, <1>1, <2>2, Zenon
<1>6. ASSUME NEW o \in 0 .. Len(b)
      PROVE  SubSeq(u, 1, o) = SubSeq(s, 1, o)
    <2>0. o \in Nat /\ o <= Len(b)
        BY <1>1
    <2>1. \A i \in 1 .. o : u[i] = s[i] /\ s[i] \in Seq(Byte)
        <3>1. \A i \in 1 .. o : i \in 1 .. Len(b)
            BY <1>1, <2>0
        <3> QED
            BY <1>2, <1>4, <3>1, ElementOfSeq
    <2>2. PICK p, q : p = SubSeq(u, 1, o) /\ q = SubSeq(s, 1, o)
        OBVIOUS
    <2>3. /\ p \in Seq(Seq(Byte)) /\ Len(p) = o
          /\ \A i \in 1 .. o : p[i] = u[i]
        BY SMTT(60), <2>0, <2>1, <2>2, SubSeqProperties
    <2>4. /\ q \in Seq(Seq(Byte)) /\ Len(q) = o
          /\ \A i \in 1 .. o : q[i] = s[i]
        BY <2>0, <2>1, <2>2, SubSeqProperties
    <2>5. p = q
        <3>1. p \in Seq(Seq(Byte)) /\ q \in Seq(Seq(Byte)) /\ Len(p) = Len(q)
            BY <2>3, <2>4
        <3>2. \A i \in 1 .. Len(p) : p[i] = q[i]
            BY <2>1, <2>3, <2>4, Zenon
        <3> QED
            BY <3>1, <3>2, SeqEqual
    <2> QED
        BY <2>2, <2>5
<1>7. FlattenSeq(u) = FlattenSeq(s) \o x
    <2>0. PICK n : n = Len(b) + 1
        OBVIOUS
    <2>1. n \in 1 .. Len(u) /\ n - 1 = Len(b) /\ n = Len(u) /\ Len(b) \in 0 .. Len(b)
        BY <1>1, <1>3, <2>0
    <2>2. Joined(u, n) = Joined(u, n - 1) \o u[n]
        BY <1>3, <2>1, JoinedStep
    <2>3. Joined(u, Len(u)) = FlattenSeq(u)
        BY <1>3, SubSeqFull DEF Joined
    <2>4. Joined(u, Len(b)) = FlattenSeq(s)
        <3>1. SubSeq(u, 1, Len(b)) = SubSeq(s, 1, Len(b))
            BY <1>6, <2>1
        <3>2. SubSeq(s, 1, Len(s)) = s
            BY <1>2, SubSeqFull
        <3> QED
            BY <1>2, <3>1, <3>2 DEF Joined
    <2> QED
        BY <1>5, <2>0, <2>1, <2>2, <2>3, <2>4, Zenon
<1> QED
    BY <1>0, <1>1, <1>6, <1>7 DEF Joined

\* ktli_socket_send begins.
LEMMA SendsBegin ==
    ASSUME NEW l, Load(l), NEW st, NEW t, NEW w, NEW b, NEW o,
           Sends(l, st, t, w, b, o), t.pc = "idle",
           NEW m \in 1 .. Len(l.req), NEW u,
           u.pc = "writev", u.m = m, u.iov = Iov(l.req[m], 1)
    PROVE  Sends(l, st, u, w, Append(b, m), o)
<1>1. /\ w \in Seq(Byte) /\ b \in Seq(1 .. Len(l.req)) /\ o \in 0 .. Len(b)
      /\ Len(w) >= Len(Joined(Messages(l, b), o))
    BY DEF Sends
<1>2. PICK s, x, c, v : /\ s = FlattenSeq(Messages(l, b)) /\ x = Whole(m, l.req[m])
                        /\ c = Append(b, m) /\ v = FlattenSeq(Messages(l, c))
    OBVIOUS
<1>3. /\ c \in Seq(1 .. Len(l.req)) /\ Len(c) = Len(b) + 1 /\ v = s \o x
      /\ Joined(Messages(l, c), o) = Joined(Messages(l, b), o)
    BY <1>1, <1>2, MessagesAppend
<1>4. s \in Seq(Byte)
    BY <1>1, <1>2, MessagesType, FlattenType
<1>5. m \in Nat /\ l.req[m] \in Seq(Nat)
    <2>1. l.req \in Seq(Seq(Nat))
        BY DEF Load
    <2> QED
        BY <2>1, ElementOfSeq
<1>6. x \in Seq(Byte) /\ u.iov \in Seq(Vec) /\ x = Bytes(m, Places(u.iov))
    BY <1>2, <1>5, WholeType
<1>7. IsPrefix(w, s \o x)
    <2>1. IsPrefix(w, s)
        BY <1>2 DEF Sends
    <2> QED
        BY <1>1, <1>4, <1>6, <2>1, PrefixExtends
<1>8. o \in 0 .. Len(c) /\ o < Len(c)
    <2>1. Len(b) \in Nat
        BY <1>1, LenProperties
    <2> QED
        BY <1>1, <1>3, <2>1
<1>9. st \in {"open", "eof"} => s \o x = w \o Left(u)
    <2>1. ASSUME st \in {"open", "eof"} PROVE s \o x = w \o Left(u)
        <3>1. s = w \o Left(t)
            BY <1>2, <2>1 DEF Sends
        <3>2. Left(t) = <<>>
            BY Zenon DEF Left
        <3>3. w \o <<>> = w
            BY <1>1, ConcatEmptySeq
        <3>4. Left(u) = x
            BY <1>6 DEF Left
        <3> QED
            BY <3>1, <3>2, <3>3, <3>4
    <2> QED
        BY <2>1
<1>10. u.m \in Nat
    BY <1>5
<1>11. Sends(l, st, u, w, c, o)
    BY <1>1, <1>2, <1>3, <1>6, <1>7, <1>8, <1>9, <1>10 DEF Sends
<1> QED
    BY <1>2, <1>11

\* writev takes n bytes.
LEMMA SendsWrite ==
    ASSUME NEW l, Load(l), NEW st \in {"open", "eof"}, NEW t, NEW w, NEW b, NEW o,
           Sends(l, st, t, w, b, o), t.pc = "writev",
           NEW n \in 1 .. Len(Places(t.iov)), NEW u, NEW k \in {o, o + 1},
           u.m = t.m, u.iov = Advance(t.iov, n),
           u.pc = IF u.iov = <<>> THEN "idle" ELSE "writev",
           u.iov # <<>> => k = o
    PROVE  Sends(l, st, u, w \o Bytes(t.m, SubSeq(Places(t.iov), 1, n)), b, k)
<1>1. /\ w \in Seq(Byte) /\ b \in Seq(1 .. Len(l.req)) /\ o \in 0 .. Len(b)
      /\ Len(w) >= Len(Joined(Messages(l, b), o))
      /\ t.iov \in Seq(Vec) /\ t.m \in Nat /\ o < Len(b)
    BY DEF Sends
<1>2. PICK m, p, q, r : /\ m = t.m /\ p = Places(t.iov) /\ q = SubSeq(p, 1, n)
                        /\ r = Places(u.iov)
    OBVIOUS
<1>3. /\ u.iov \in Seq(Vec) /\ q \in Seq(Place) /\ Len(q) = n
      /\ p = q \o r /\ r \in Seq(Place)
    BY <1>1, <1>2, AdvanceSplits, PlacesType
<1>4. PICK bq, br, s, v : /\ bq = Bytes(m, q) /\ br = Bytes(m, r) /\ v = w \o bq
                          /\ s = FlattenSeq(Messages(l, b))
    OBVIOUS
<1>5. bq \in Seq(Byte) /\ br \in Seq(Byte) /\ Bytes(m, p) = bq \o br
    <2>1. m \in Nat /\ q \in Seq(Place) /\ r \in Seq(Place)
        BY <1>1, <1>2, <1>3
    <2>2. Bytes(m, q) \in Seq(Byte) /\ Bytes(m, r) \in Seq(Byte)
        BY <2>1, BytesType
    <2>3. Bytes(m, q \o r) = Bytes(m, q) \o Bytes(m, r)
        BY <2>1, BytesConcat
    <2> QED
        BY <1>3, <1>4, <2>2, <2>3
<1>6. s = w \o (bq \o br)
    <2>1. s = w \o Left(t)
        BY <1>4 DEF Sends
    <2>2. Left(t) = Bytes(m, p)
        BY <1>2 DEF Left
    <2> QED
        BY <1>5, <2>1, <2>2
<1>7. s = v \o br /\ v \in Seq(Byte)
    <2>1. (w \o bq) \o br = w \o (bq \o br)
        <3>1. w \in Seq(Byte) /\ bq \in Seq(Byte) /\ br \in Seq(Byte)
            BY <1>1, <1>5
        <3> QED
            BY <3>1, ByteAssoc, Zenon
    <2>2. w \o bq \in Seq(Byte)
        BY <1>1, <1>5, ConcatProperties
    <2> QED
        BY <1>4, <1>6, <2>1, <2>2
<1>8. IsPrefix(v, s)
    BY <1>5, <1>7, ConcatPrefix
<1>9. Left(u) = br
    <2>1. CASE u.iov = <<>>
        <3>1. r = <<>>
            BY <1>2, <2>1, PlacesEmpty
        <3>2. br = <<>>
            BY <1>1, <1>2, <1>4, <3>1, BytesEmpty
        <3>3. u.pc # "writev"
            BY <2>1
        <3> QED
            BY <3>2, <3>3 DEF Left
    <2>2. CASE u.iov # <<>>
        <3>1. u.pc = "writev"
            BY <2>2
        <3> QED
            BY <1>2, <1>4, <3>1 DEF Left
    <2> QED
        BY <2>1, <2>2
<1>10. Len(b) \in Nat /\ k \in 0 .. Len(b) /\ (u.pc = "writev" => k < Len(b))
    <2>1. Len(b) \in Nat /\ o \in Int
        BY <1>1, LenProperties
    <2>2. k \in 0 .. Len(b)
        BY <1>1, <2>1
    <2>3. u.pc = "writev" => k = o
        OBVIOUS
    <2> QED
        BY <1>1, <2>1, <2>2, <2>3
<1>11. Len(v) >= Len(Joined(Messages(l, b), k))
    <2>0. PICK f, g : f = Joined(Messages(l, b), o) /\ g = Joined(Messages(l, b), k)
        OBVIOUS
    <2>1. f \in Seq(Byte) /\ g \in Seq(Byte) /\ s \in Seq(Byte)
          /\ \E x \in Seq(Byte) : s = g \o x
        <3>1. PICK a : a = Messages(l, b)
            OBVIOUS
        <3>2. a \in Seq(Seq(Byte)) /\ Len(a) = Len(b)
            BY <1>1, <3>1, MessagesType
        <3>3. o \in 0 .. Len(a) /\ k \in 0 .. Len(a)
            BY <1>1, <1>10, <3>2
        <3>4. Joined(a, o) \in Seq(Byte)
            BY <3>2, <3>3, JoinedPrefix
        <3>5. /\ Joined(a, k) \in Seq(Byte) /\ FlattenSeq(a) \in Seq(Byte)
              /\ \E x \in Seq(Byte) : FlattenSeq(a) = Joined(a, k) \o x
            BY <3>2, <3>3, JoinedPrefix
        <3> QED
            BY <1>4, <2>0, <3>1, <3>4, <3>5
    <2>2. Len(f) \in Nat /\ Len(g) \in Nat /\ Len(w) \in Nat /\ Len(v) \in Nat
        BY <1>1, <1>7, <2>1, LenProperties
    <2>3. CASE k = o
        <3>1. Len(w) <= Len(v)
            BY <1>1, <1>4, <1>5, ConcatPrefix
        <3> QED
            BY <1>1, <2>0, <2>2, <2>3, <3>1
    <2>4. CASE k # o
        <3>1. u.iov = <<>>
            BY <2>4
        <3>2. br = <<>>
            BY <1>1, <1>2, <1>4, <3>1, PlacesEmpty, BytesEmpty
        <3>3. s = v
            BY <1>7, <3>2, ConcatEmptySeq
        <3>4. PICK x \in Seq(Byte) : s = g \o x
            BY <2>1
        <3>5. Len(g) <= Len(s)
            BY <2>1, <3>4, ConcatPrefix
        <3> QED
            BY <2>0, <2>2, <3>3, <3>5
    <2> QED
        BY <2>3, <2>4
<1>12. u.m \in Nat
    BY <1>1
<1>13. Sends(l, st, u, v, b, k)
    BY <1>1, <1>3, <1>4, <1>7, <1>8, <1>9, <1>10, <1>11, <1>12 DEF Sends
<1> QED
    BY <1>2, <1>4, <1>13

\* The connection ends, or a send is given up on one that has.
LEMMA SendsEnds ==
    ASSUME NEW l, NEW st, NEW t, NEW w, NEW b, NEW o,
           Sends(l, st, t, w, b, o), NEW x, NEW u,
           \/ u = t /\ (x \in {"open", "eof"} => st \in {"open", "eof"})
           \/ u.pc # "writev" /\ x \notin {"open", "eof"}
           \/ u.pc # "writev" /\ t.pc # "writev" /\ x = st
    PROVE  Sends(l, x, u, w, b, o)
BY DEF Sends, Left

-----------------------------------------------------------------------------
(* The receiver: what it has read of the message after the n received.     *)

\* Buffers in which each of these places holds its own byte of message m.
Stored(m, P) == [p \in P |-> <<m, p[1], p[2]>>]

Got(l, n) == [i \in 1 .. n |-> Stored(i, ToSet(Places(Iov(l.rsp[i], 1))))]

ReadTo(l, r, n, done) ==
    /\ r.rd = Len(Joined(Device(l), n)) + Len(done)
    /\ r.mem = Stored(n + 1, ToSet(done))
    /\ r.iov \in Seq(Vec)
    /\ r.pc = "hdr" => Header = done \o Places(r.iov)
    /\ r.pc = "body" =>
           /\ n < Len(l.rsp)
           /\ Places(Iov(l.rsp[n + 1], 1)) = done \o Places(r.iov)

Reads(l, r, g) ==
    \E n \in 0 .. Len(l.rsp) :
        /\ g = Got(l, n)
        /\ r.pc = "poll" => r.rd = Len(Joined(Device(l), n))
        /\ r.pc \in {"hdr", "body"} => \E done \in Seq(Place) : ReadTo(l, r, n, done)

\* The elements of a concatenation.
LEMMA ToSetConcat ==
    ASSUME NEW S, NEW s \in Seq(S), NEW t \in Seq(S)
    PROVE  ToSet(s \o t) = ToSet(s) \cup ToSet(t)
<1>0. PICK u, ls, lt : u = s \o t /\ ls = Len(s) /\ lt = Len(t)
    OBVIOUS
<1>1. /\ u \in Seq(S) /\ Len(u) = ls + lt /\ ls \in Nat /\ lt \in Nat
      /\ \A i \in 1 .. ls + lt : u[i] = IF i <= ls THEN s[i] ELSE t[i - ls]
    BY <1>0, ConcatProperties, LenProperties
<1>2. /\ DOMAIN u = 1 .. ls + lt /\ DOMAIN s = 1 .. ls /\ DOMAIN t = 1 .. lt
    BY <1>0, <1>1, LenProperties
<1>3. ASSUME NEW i \in 1 .. ls + lt PROVE u[i] \in ToSet(s) \cup ToSet(t)
    <2>1. CASE i <= ls
        <3>1. i \in DOMAIN s /\ u[i] = s[i]
            BY <1>1, <1>2, <2>1
        <3> QED
            BY <3>1 DEF ToSet
    <2>2. CASE ~(i <= ls)
        <3>1. i - ls \in DOMAIN t /\ u[i] = t[i - ls]
            BY <1>1, <1>2, <2>2
        <3> QED
            BY <3>1 DEF ToSet
    <2> QED
        BY <2>1, <2>2
<1>4. ASSUME NEW i \in 1 .. ls PROVE s[i] \in ToSet(u)
    <2>1. i \in DOMAIN u /\ u[i] = s[i]
        BY <1>1, <1>2
    <2> QED
        BY <2>1 DEF ToSet
<1>5. ASSUME NEW i \in 1 .. lt PROVE t[i] \in ToSet(u)
    <2>0. PICK j : j = ls + i
        OBVIOUS
    <2>1. j \in DOMAIN u /\ j - ls = i /\ ~(j <= ls) /\ j \in 1 .. ls + lt
        BY <1>1, <1>2, <2>0
    <2>2. u[j] = t[i]
        BY <1>1, <2>1
    <2> QED
        BY <2>1, <2>2 DEF ToSet
<1>6. ToSet(u) \subseteq ToSet(s) \cup ToSet(t)
    BY <1>2, <1>3 DEF ToSet
<1>7. ToSet(s) \subseteq ToSet(u) /\ ToSet(t) \subseteq ToSet(u)
    BY <1>2, <1>4, <1>5 DEF ToSet
<1> QED
    BY <1>0, <1>6, <1>7

\* The middle of three sequences.
LEMMA Middle ==
    ASSUME NEW S, NEW a \in Seq(S), NEW b \in Seq(S), NEW c \in Seq(S)
    PROVE  SubSeq(a \o (b \o c), Len(a) + 1, Len(a) + Len(b)) = b
<1>0. PICK v, u, la, lb, lc : /\ v = b \o c /\ u = a \o v
                              /\ la = Len(a) /\ lb = Len(b) /\ lc = Len(c)
    OBVIOUS
<1>1. /\ v \in Seq(S) /\ Len(v) = lb + lc /\ la \in Nat /\ lb \in Nat /\ lc \in Nat
      /\ \A i \in 1 .. lb + lc : v[i] = IF i <= lb THEN b[i] ELSE c[i - lb]
    BY <1>0, ConcatProperties, LenProperties
<1>2. /\ u \in Seq(S)
      /\ \A i \in 1 .. la + (lb + lc) : u[i] = IF i <= la THEN a[i] ELSE v[i - la]
    BY <1>0, <1>1, ConcatProperties
<1>3. ASSUME NEW i \in 1 .. lb PROVE u[la + i] = b[i] /\ b[i] \in S
    <2>0. PICK j : j = la + i
        OBVIOUS
    <2>1. j \in 1 .. la + (lb + lc) /\ ~(j <= la) /\ j - la = i
          /\ i \in 1 .. lb + lc /\ i <= lb
        BY <1>1, <2>0
    <2>2. u[j] = v[i] /\ v[i] = b[i]
        BY <1>1, <1>2, <2>1
    <2>3. b[i] \in S
        BY <1>0, ElementOfSeq
    <2> QED
        BY <2>0, <2>2, <2>3
<1>4. ASSUME NEW j \in la + 1 .. la + lb PROVE u[j] \in S
    <2>1. PICK i \in 1 .. lb : j = la + i
        <3>1. j - la \in 1 .. lb /\ j = la + (j - la)
            BY <1>1
        <3> QED
            BY <3>1
    <2> QED
        BY <1>3, <2>1
<1>5. PICK t : t = SubSeq(u, la + 1, la + lb)
    OBVIOUS
<1>6. /\ t \in Seq(S) /\ Len(t) = lb
      /\ \A i \in 1 .. lb : t[i] = u[la + i]
    <2>0. PICK x, y : x = la + 1 /\ y = la + lb
        OBVIOUS
    <2>1. x \in Int /\ y \in Int
        BY <1>1, <2>0
    <2>2. /\ t \in Seq(S)
          /\ Len(t) = IF x <= y THEN y - x + 1 ELSE 0
          /\ \A i \in 1 .. y - x + 1 : t[i] = u[x + i - 1]
        BY <1>4, <1>5, <2>0, <2>1, SubSeqProperties
    <2>3. y - x + 1 = lb /\ (~(x <= y) => lb = 0)
        BY <1>1, <2>0
    <2>4. \A i \in 1 .. lb : x + i - 1 = la + i
        BY <1>1, <2>0
    <2> QED
        BY <2>2, <2>3, <2>4
<1>7. t = b
    <2>1. t \in Seq(S) /\ Len(t) = Len(b) /\ \A i \in 1 .. Len(t) : t[i] = b[i]
        BY <1>0, <1>3, <1>6
    <2> QED
        BY <2>1, SeqEqual
<1> QED
    BY <1>0, <1>5, <1>7

\* readv puts the bytes of a message in their places.
LEMMA FillsIn ==
    ASSUME NEW m \in Nat, NEW s \in Seq(Place), NEW t \in Seq(Place)
    PROVE  Fill(Stored(m, ToSet(s)), t, Bytes(m, t)) = Stored(m, ToSet(s \o t))
<1>1. Len(t) \in Nat /\ DOMAIN t = 1 .. Len(t)
    BY LenProperties
<1>2. PICK P, Q, b : P = ToSet(s) /\ Q = ToSet(t) /\ b = Bytes(m, t)
    OBVIOUS
<1>3. \A i \in 1 .. Len(t) : b[i] = <<m, t[i][1], t[i][2]>>
    BY <1>2, BytesType
<1>4. ASSUME NEW p \in Q
      PROVE  b[CHOOSE i \in DOMAIN t : t[i] = p] = <<m, p[1], p[2]>>
    <2>1. \E i \in DOMAIN t : t[i] = p
        BY <1>2 DEF ToSet
    <2>2. PICK j : j = CHOOSE i \in DOMAIN t : t[i] = p
        OBVIOUS
    <2>3. j \in DOMAIN t /\ t[j] = p
        BY <2>1, <2>2, Zenon
    <2> QED
        BY <1>1, <1>3, <2>2, <2>3
<1>5. PICK M : M = Stored(m, P)
    OBVIOUS
<1>6. DOMAIN M = P /\ \A p \in P : M[p] = <<m, p[1], p[2]>>
    BY <1>5 DEF Stored
<1>7. Fill(M, t, b) = [p \in DOMAIN M \cup ToSet(t) |->
                          IF p \in ToSet(t)
                          THEN b[CHOOSE i \in DOMAIN t : t[i] = p] ELSE M[p]]
    BY DEF Fill
<1>8. Fill(M, t, b) = [p \in P \cup Q |-> <<m, p[1], p[2]>>]
    <2>1. PICK F : F = Fill(M, t, b)
        OBVIOUS
    <2>2. ASSUME NEW p \in P \cup Q PROVE F[p] = <<m, p[1], p[2]>>
        <3>1. F[p] = IF p \in Q THEN b[CHOOSE i \in DOMAIN t : t[i] = p] ELSE M[p]
            <4>1. p \in DOMAIN M \cup ToSet(t)
                BY <1>2, <1>6
            <4> QED
                BY <1>2, <1>7, <2>1, <4>1
        <3>2. CASE p \in Q
            BY <1>4, <3>1, <3>2, Zenon
        <3>3. CASE p \notin Q
            BY <1>6, <3>1, <3>3
        <3> QED
            BY <3>2, <3>3
    <2>3. F = [p \in P \cup Q |-> F[p]]
        <3>1. F = [p \in DOMAIN M \cup ToSet(t) |-> F[p]]
            BY <1>7, <2>1
        <3> QED
            BY <1>2, <1>6, <3>1
    <2> QED
        BY <2>1, <2>2, <2>3, Zenon
<1>9. ToSet(s \o t) = P \cup Q
    BY <1>2, ToSetConcat
<1> QED
    BY <1>2, <1>5, <1>8, <1>9 DEF Stored

\* What the device sends, from the place where the receiver stands.
LEMMA Ahead ==
    ASSUME NEW l, Load(l), NEW n \in Nat, n < Len(l.rsp),
           NEW done \in Seq(Place), NEW p \in Seq(Place), NEW q \in Seq(Place),
           Places(Iov(l.rsp[n + 1], 1)) = done \o (p \o q)
    PROVE  LET k == Len(Joined(Device(l), n)) + Len(done)
           IN  SubSeq(FlattenSeq(Device(l)), k + 1, k + Len(p)) = Bytes(n + 1, p)
<1>0. PICK m, s, d : m = n + 1 /\ s = Device(l) /\ d = FlattenSeq(s)
    OBVIOUS
<1>1. /\ s \in Seq(Seq(Byte)) /\ Len(s) = Len(l.rsp) /\ Len(l.rsp) \in Nat
      /\ m \in 1 .. Len(s) /\ m \in Nat /\ n \in 0 .. Len(s) /\ m \in 0 .. Len(s)
      /\ s[m] = Whole(m, l.rsp[m]) /\ l.rsp[m] \in Seq(Nat) /\ m - 1 = n
    <2>1. /\ s \in Seq(Seq(Byte)) /\ Len(s) = Len(l.rsp) /\ Len(l.rsp) \in Nat
          /\ \A i \in 1 .. Len(l.rsp) : /\ l.rsp[i] \in Seq(Nat)
                                        /\ s[i] = Whole(i, l.rsp[i])
        BY <1>0, DeviceType
    <2>2. m \in 1 .. Len(l.rsp) /\ m \in Nat /\ m - 1 = n /\ n \in 0 .. Len(l.rsp)
          /\ m \in 0 .. Len(l.rsp)
        BY <1>0, <2>1
    <2> QED
        BY <2>1, <2>2
<1>2. PICK f, g, x : f = Joined(s, n) /\ g = Joined(s, m) /\ x = s[m]
    OBVIOUS
<1>3. f \in Seq(Byte) /\ x \in Seq(Byte) /\ g = f \o x
    BY <1>1, <1>2, JoinedStep
<1>4. PICK r \in Seq(Byte) : d = g \o r
    <2>1. \E r \in Seq(Byte) : FlattenSeq(s) = Joined(s, m) \o r
        BY <1>1, JoinedPrefix
    <2> QED
        BY <1>0, <1>2, <2>1
<1>5. PICK bd, bp, bq : bd = Bytes(m, done) /\ bp = Bytes(m, p) /\ bq = Bytes(m, q)
    OBVIOUS
<1>6. /\ bd \in Seq(Byte) /\ Len(bd) = Len(done)
      /\ bp \in Seq(Byte) /\ Len(bp) = Len(p)
      /\ bq \in Seq(Byte)
    BY <1>1, <1>5, BytesType
<1>7. x = bd \o (bp \o bq)
    <2>1. x = Bytes(m, Places(Iov(l.rsp[m], 1)))
        BY <1>1, <1>2, WholeType
    <2>2. p \o q \in Seq(Place)
        BY ConcatProperties
    <2>3. Bytes(m, p \o q) = bp \o bq
        BY <1>1, <1>5, BytesConcat
    <2>4. PICK pq : pq = p \o q
        OBVIOUS
    <2>5. Bytes(m, done \o pq) = Bytes(m, done) \o Bytes(m, pq)
        BY <1>1, <2>2, <2>4, BytesConcat
    <2> QED
        BY <1>0, <1>5, <2>1, <2>3, <2>4, <2>5
<1>8. PICK a, c, e : a = f \o bd /\ c = bq \o r /\ e = bp \o bq
    OBVIOUS
<1>9. /\ a \in Seq(Byte) /\ Len(a) = Len(f) + Len(bd)
      /\ c \in Seq(Byte) /\ e \in Seq(Byte)
    BY <1>3, <1>6, <1>8, ConcatProperties
<1>10. d = a \o (bp \o c)
    <2>1. g = a \o e
        <3>1. (f \o bd) \o e = f \o (bd \o e)
            <4>1. f \in Seq(Byte) /\ bd \in Seq(Byte) /\ e \in Seq(Byte)
                BY <1>3, <1>6, <1>9
            <4> QED
                BY <4>1, ByteAssoc, Zenon
        <3> QED
            BY <1>3, <1>7, <1>8, <3>1
    <2>2. d = a \o (e \o r)
        BY <1>4, <1>9, <2>1, ByteAssoc
    <2>3. e \o r = bp \o c
        BY <1>4, <1>6, <1>8, ByteAssoc
    <2> QED
        BY <2>2, <2>3
<1>11. SubSeq(d, Len(a) + 1, Len(a) + Len(bp)) = bp
    BY <1>6, <1>9, <1>10, Middle
<1> QED
    BY <1>0, <1>2, <1>5, <1>6, <1>9, <1>11

\* On a new connection nothing has been read.
LEMMA ReadsEmpty ==
    ASSUME NEW l, Load(l), NEW r, r.pc = "poll", r.rd = 0
    PROVE  Reads(l, r, <<>>)
<1>1. Len(l.rsp) \in Nat /\ Device(l) \in Seq(Seq(Byte))
    BY DeviceType
<1>2. Got(l, 0) = <<>>
    <2>1. Got(l, 0) = [i \in 1 .. 0 |-> Stored(i, ToSet(Places(Iov(l.rsp[i], 1))))]
        BY DEF Got
    <2>2. \A f : f = [i \in 1 .. 0 |-> f[i]] => f = <<>>
        OBVIOUS
    <2>3. Got(l, 0) = [i \in 1 .. 0 |-> Got(l, 0)[i]]
        BY <2>1
    <2> QED
        BY <2>2, <2>3, Zenon
<1>3. Len(Joined(Device(l), 0)) = 0
    <2>1. SubSeq(Device(l), 1, 0) = <<>>
        BY SubSeqEmpty
    <2>2. Len(<<>>) = 0
        OBVIOUS
    <2> QED
        BY <2>1, <2>2, FlattenEmpty, Zenon DEF Joined
<1>4. 0 \in 0 .. Len(l.rsp)
    BY <1>1
<1>5. r.pc \notin {"hdr", "body"} /\ r.rd = Len(Joined(Device(l), 0))
    BY <1>3
<1> QED
    BY <1>2, <1>4, <1>5, Zenon DEF Reads

\* ktli_recvmsg begins with the header.
LEMMA ReadsPoll ==
    ASSUME NEW l, Load(l), NEW r, NEW g, Reads(l, r, g), r.pc = "poll", NEW u,
           u.pc = "hdr", u.rd = r.rd, u.mem = <<>>, u.iov = Iov(<<KP_PLENGTH>>, 1)
    PROVE  Reads(l, u, g)
<1>1. PICK n \in 0 .. Len(l.rsp) : g = Got(l, n) /\ r.rd = Len(Joined(Device(l), n))
    BY DEF Reads
<1>2. /\ Device(l) \in Seq(Seq(Byte)) /\ Len(Device(l)) = Len(l.rsp)
    BY DeviceType
<1>3. Len(Joined(Device(l), n)) \in Nat
    BY <1>2, JoinedPrefix, LenProperties
<1>4. PICK e : e = <<>>
    OBVIOUS
<1>5. e \in Seq(Place) /\ Len(e) = 0 /\ DOMAIN e = {}
    BY <1>4
<1>6. e \o Header = Header
    BY <1>4, HeaderType, ConcatEmptySeq
<1>7. Stored(n + 1, ToSet(e)) = e
    <2>1. ToSet(e) = {}
        BY <1>5 DEF ToSet
    <2>2. DOMAIN Stored(n + 1, ToSet(e)) = {}
        BY <2>1 DEF Stored
    <2>3. Stored(n + 1, ToSet(e)) = [i \in {} |-> Stored(n + 1, ToSet(e))[i]]
        BY <2>1 DEF Stored
    <2>4. \A f : f = [i \in {} |-> f[i]] => f = <<>>
        OBVIOUS
    <2> QED
        BY <1>4, <2>3, <2>4, Zenon
<1>8. ReadTo(l, u, n, e)
    <2>1. u.rd = Len(Joined(Device(l), n)) + Len(e)
        BY <1>1, <1>3, <1>5
    <2>2. u.iov \in Seq(Vec)
        BY HeaderType
    <2>3. Header = e \o Places(u.iov)
        BY <1>6 DEF Header
    <2>4. u.pc # "body"
        OBVIOUS
    <2>5. u.mem = Stored(n + 1, ToSet(e))
        BY <1>4, <1>7
    <2> QED
        BY <2>1, <2>2, <2>3, <2>4, <2>5, Zenon DEF ReadTo
<1>9. u.pc # "poll"
    OBVIOUS
<1> QED
    BY <1>1, <1>5, <1>8, <1>9, Zenon DEF Reads

\* A receive fails: what has been received stays.
LEMMA ReadsFails ==
    ASSUME NEW l, NEW r, NEW g, Reads(l, r, g), NEW u, u.pc = "err"
    PROVE  Reads(l, u, g)
BY DEF Reads

\* readv gives b bytes of the message the receiver is at, in their places.
LEMMA ReadsReadv ==
    ASSUME NEW l, Load(l), NEW r, NEW n \in 0 .. Len(l.rsp), NEW done \in Seq(Place),
           ReadTo(l, r, n, done), r.pc \in {"hdr", "body"},
           NEW a \in 0 .. Len(FlattenSeq(Device(l))), NEW b \in 1 .. a - r.rd,
           b <= Len(Places(r.iov)), NEW u, u.pc = r.pc,
           u.iov = Advance(r.iov, b), u.rd = r.rd + b,
           u.mem = Fill(r.mem, SubSeq(Places(r.iov), 1, b),
                        SubSeq(FlattenSeq(Device(l)), r.rd + 1, r.rd + b))
    PROVE  /\ n < Len(l.rsp)
           /\ \E more \in Seq(Place) : ReadTo(l, u, n, more)
<1>1. /\ Device(l) \in Seq(Seq(Byte)) /\ Len(Device(l)) = Len(l.rsp)
      /\ Len(l.rsp) \in Nat
    BY DeviceType
<1>2. PICK f, k, d : /\ f = Joined(Device(l), n) /\ k = Len(f)
                     /\ d = FlattenSeq(Device(l))
    OBVIOUS
<1>3. f \in Seq(Byte) /\ d \in Seq(Byte) /\ k \in Nat /\ Len(d) \in Nat
    <2>1. f \in Seq(Byte) /\ d \in Seq(Byte)
        BY <1>1, <1>2, JoinedPrefix
    <2> QED
        BY <1>2, <2>1, LenProperties
<1>4. /\ r.rd = k + Len(done) /\ Len(done) \in Nat /\ r.mem = Stored(n + 1, ToSet(done))
      /\ r.iov \in Seq(Vec)
    BY <1>2, LenProperties DEF ReadTo
<1>5. n < Len(l.rsp)
    <2>1. ASSUME n = Len(l.rsp) PROVE FALSE
        <3>1. f = d
            BY <1>1, <1>2, <2>1, JoinedPrefix
        <3> QED
            BY <1>2, <1>3, <1>4, <3>1
    <2> QED
        BY <1>1, <2>1
<1>6. n \in Nat /\ n + 1 \in Nat /\ n + 1 \in 1 .. Len(l.rsp)
    BY <1>1, <1>5
<1>7. b \in 1 .. Len(Places(r.iov)) /\ b \in Nat
    <2>1. Len(Places(r.iov)) \in Nat /\ b \in Int /\ b >= 1
        BY <1>4, PlacesType
    <2> QED
        BY <2>1
<1>8. PICK p, q, more : /\ p = SubSeq(Places(r.iov), 1, b) /\ q = Places(u.iov)
                        /\ more = done \o p
    OBVIOUS
<1>9. /\ u.iov \in Seq(Vec) /\ p \in Seq(Place) /\ Len(p) = b
      /\ Places(r.iov) = p \o q /\ q \in Seq(Place)
    <2>1. /\ u.iov \in Seq(Vec) /\ p \in Seq(Place) /\ Len(p) = b
          /\ Places(r.iov) = p \o q
        BY <1>4, <1>7, <1>8, AdvanceSplits
    <2> QED
        BY <1>8, <2>1, PlacesType
<1>10. more \in Seq(Place) /\ Len(more) = Len(done) + b
    BY <1>8, <1>9, ConcatProperties
<1>11. done \o (p \o q) = more \o q
    BY <1>8, <1>9, PlaceAssoc
\* In either part of the message: what follows is x.
<1>12. PICK x \in Seq(Place) : Places(Iov(l.rsp[n + 1], 1)) = done \o (p \o x)
    <2>1. CASE r.pc = "body"
        BY <1>9, <2>1 DEF ReadTo
    <2>2. CASE r.pc = "hdr"
        <3>1. Header = done \o (p \o q)
            BY <1>9, <2>2 DEF ReadTo
        <3>2. PICK t : t = Places(Iov(Tail(l.rsp[n + 1]), 2))
            OBVIOUS
        <3>3. /\ t \in Seq(Place)
              /\ Places(Iov(l.rsp[n + 1], 1)) = Header \o t
            <4>0. PICK lens : lens = l.rsp[n + 1]
                OBVIOUS
            <4>1. lens \in Seq(Nat) /\ Len(lens) = 3 /\ lens[1] = KP_PLENGTH
                BY <1>6, <4>0, DeviceType DEF Load
            <4>2. /\ Iov(Tail(lens), 2) \in Seq(Vec)
                  /\ Places(Iov(lens, 1)) = Header \o Places(Iov(Tail(lens), 2))
                BY <4>1, HeaderThenBody
            <4> QED
                BY <3>2, <4>0, <4>2, PlacesType
        <3>4. PICK y, z : y = p \o q /\ z = q \o t
            OBVIOUS
        <3>5. y \in Seq(Place) /\ z \in Seq(Place)
            BY <1>9, <3>3, <3>4, ConcatProperties
        <3>6. (done \o y) \o t = done \o (y \o t)
            BY <3>3, <3>5, PlaceAssoc, Zenon
        <3>7. y \o t = p \o z
            BY <1>9, <3>3, <3>4, PlaceAssoc
        <3> QED
            BY <3>1, <3>3, <3>4, <3>5, <3>6, <3>7
    <2> QED
        BY <2>1, <2>2
<1>13. SubSeq(d, r.rd + 1, r.rd + b) = Bytes(n + 1, p)
    <2>1. n \in Nat /\ p \in Seq(Place) /\ x \in Seq(Place)
        BY <1>6, <1>9
    <2>2. SubSeq(FlattenSeq(Device(l)), Len(Joined(Device(l), n)) + Len(done) + 1,
                 Len(Joined(Device(l), n)) + Len(done) + Len(p)) = Bytes(n + 1, p)
        BY <1>5, <1>12, <2>1, Ahead
    <2> QED
        BY <1>2, <1>4, <1>9, <2>2
<1>14. u.mem = Stored(n + 1, ToSet(more))
    <2>1. u.mem = Fill(Stored(n + 1, ToSet(done)), p, Bytes(n + 1, p))
        BY <1>2, <1>4, <1>8, <1>13
    <2> QED
        BY <1>6, <1>8, <1>9, <2>1, FillsIn
<1>15. u.rd = k + Len(more)
    <2>1. r.rd + b = k + (Len(done) + b)
        BY <1>3, <1>4, <1>7
    <2> QED
        BY <1>10, <2>1
<1>16. u.pc = "hdr" => Header = more \o Places(u.iov)
    <2>1. r.pc = "hdr" => Header = done \o Places(r.iov)
        BY DEF ReadTo
    <2> QED
        BY <1>8, <1>9, <1>11, <2>1
<1>17. u.pc = "body" => Places(Iov(l.rsp[n + 1], 1)) = more \o Places(u.iov)
    <2>1. r.pc = "body" => Places(Iov(l.rsp[n + 1], 1)) = done \o Places(r.iov)
        BY DEF ReadTo
    <2> QED
        BY <1>8, <1>9, <1>11, <2>1
<1>18. ReadTo(l, u, n, more)
    BY <1>2, <1>5, <1>9, <1>14, <1>15, <1>16, <1>17, Zenon DEF ReadTo
<1> QED
    BY <1>5, <1>10, <1>18

\* A whole header says which message it is of.
LEMMA HeaderSays ==
    ASSUME NEW l, Load(l), NEW m \in 1 .. Len(l.rsp), NEW mem,
           mem = Stored(m, ToSet(Header))
    PROVE  {x \in DOMAIN l.rsp : \A p \in DOMAIN mem : mem[p] = <<x, p[1], p[2]>>} = {m}
<1>1. DOMAIN l.rsp = 1 .. Len(l.rsp)
    BY DeviceType
<1>2. DOMAIN mem = ToSet(Header) /\ \A p \in DOMAIN mem : mem[p] = <<m, p[1], p[2]>>
    BY DEF Stored
<1>3. ASSUME NEW x \in DOMAIN l.rsp,
             \A p \in DOMAIN mem : mem[p] = <<x, p[1], p[2]>>
      PROVE  x = m
    <2>1. <<1, 1>> \in DOMAIN mem
        BY <1>2, HeaderType
    <2>2. mem[<<1, 1>>] = <<x, 1, 1>> /\ mem[<<1, 1>>] = <<m, 1, 1>>
        BY <1>2, <1>3, <2>1
    <2> QED
        BY <2>2
<1> QED
    BY <1>1, <1>2, <1>3

\* The header is complete: the message and its value are received.
LEMMA ReadsHeader ==
    ASSUME NEW l, Load(l), NEW r, NEW n \in 0 .. Len(l.rsp), n < Len(l.rsp),
           NEW done \in Seq(Place), ReadTo(l, r, n, done), r.pc = "hdr", r.iov = <<>>,
           NEW u, u.pc = "body", u.rd = r.rd, u.mem = r.mem,
           u.iov = Iov(Tail(l.rsp[n + 1]), 2)
    PROVE  Reads(l, u, Got(l, n))
<1>1. Header = done
    <2>1. Header = done \o <<>>
        BY PlacesEmpty DEF ReadTo
    <2> QED
        BY <2>1, ConcatEmptySeq
<1>2. PICK lens : lens = l.rsp[n + 1]
    OBVIOUS
<1>3. lens \in Seq(Nat) /\ Len(lens) = 3 /\ lens[1] = KP_PLENGTH
    <2>1. n + 1 \in 1 .. Len(l.rsp)
        BY DeviceType
    <2> QED
        BY <1>2, <2>1, DeviceType DEF Load
<1>4. /\ Iov(Tail(lens), 2) \in Seq(Vec)
      /\ Places(Iov(lens, 1)) = Header \o Places(Iov(Tail(lens), 2))
    BY <1>3, HeaderThenBody
<1>5. ReadTo(l, u, n, done)
    <2>1. /\ u.rd = Len(Joined(Device(l), n)) + Len(done)
          /\ u.mem = Stored(n + 1, ToSet(done))
        BY DEF ReadTo
    <2>2. u.iov \in Seq(Vec) /\ Places(Iov(l.rsp[n + 1], 1)) = done \o Places(u.iov)
        BY <1>1, <1>2, <1>4
    <2>3. u.pc # "hdr"
        OBVIOUS
    <2> QED
        BY <2>1, <2>2, <2>3, Zenon DEF ReadTo
<1>6. u.pc # "poll"
    OBVIOUS
<1> QED
    BY <1>5, <1>6, Zenon DEF Reads

\* The message is complete.
LEMMA ReadsMessage ==
    ASSUME NEW l, Load(l), NEW r, NEW n \in 0 .. Len(l.rsp), n < Len(l.rsp),
           NEW done \in Seq(Place), ReadTo(l, r, n, done), r.pc = "body", r.iov = <<>>,
           NEW u, u.pc = "poll", u.rd = r.rd
    PROVE  Reads(l, u, Append(Got(l, n), r.mem))
<1>0. PICK m, lens, p : /\ m = n + 1 /\ lens = l.rsp[m]
                        /\ p = Places(Iov(lens, 1))
    OBVIOUS
<1>1. /\ m \in 1 .. Len(l.rsp) /\ m \in Nat /\ lens \in Seq(Nat) /\ m - 1 = n
      /\ Device(l) \in Seq(Seq(Byte)) /\ Len(Device(l)) = Len(l.rsp)
      /\ Device(l)[m] = Whole(m, lens) /\ m \in 0 .. Len(l.rsp)
    <2>1. m \in 1 .. Len(l.rsp) /\ m \in Nat /\ m - 1 = n /\ m \in 0 .. Len(l.rsp)
        BY <1>0, DeviceType
    <2> QED
        BY <1>0, <2>1, DeviceType
<1>2. p = done
    <2>1. p = done \o <<>>
        BY <1>0, PlacesEmpty DEF ReadTo
    <2> QED
        BY <2>1, ConcatEmptySeq
<1>3. r.mem = Stored(m, ToSet(p))
    BY <1>0, <1>2 DEF ReadTo
<1>4. Append(Got(l, n), r.mem) = Got(l, m)
    <2>0. PICK G, H : G = Got(l, m) /\ H = Got(l, n)
        OBVIOUS
    <2>1. /\ G = [i \in 1 .. m |-> G[i]] /\ H = [i \in 1 .. n |-> H[i]]
          /\ \A i \in 1 .. m : G[i] = Stored(i, ToSet(Places(Iov(l.rsp[i], 1))))
          /\ \A i \in 1 .. n : H[i] = Stored(i, ToSet(Places(Iov(l.rsp[i], 1))))
        BY <2>0 DEF Got
    <2>2. \A i \in 1 .. n : i \in 1 .. m /\ G[i] = H[i]
        BY <1>0, <1>1, <2>1
    <2>3. G[m] = r.mem /\ m \in 1 .. m
        BY <1>0, <1>1, <1>3, <2>1
    <2> DEFINE S == {G[i] : i \in 1 .. m}
    <2>4. \A i \in 1 .. m : G[i] \in S
        OBVIOUS
    <2>5. G \in [1 .. m -> S] /\ r.mem \in S
        BY <2>1, <2>3, <2>4
    <2>6. H \in [1 .. n -> S]
        BY <2>1, <2>2, <2>4
    <2> HIDE DEF S
    <2>7. G \in Seq(S) /\ Len(G) = m /\ H \in Seq(S) /\ Len(H) = n /\ n \in Nat
        BY <1>1, <2>5, <2>6, IsSeq
    <2>8. PICK A : A = Append(H, r.mem)
        OBVIOUS
    <2>9. /\ A \in Seq(S) /\ Len(A) = n + 1 /\ A[n + 1] = r.mem
          /\ \A i \in 1 .. n : A[i] = H[i]
        BY <2>5, <2>7, <2>8, AppendProperties
    <2>10. ASSUME NEW i \in 1 .. m PROVE A[i] = G[i]
        <3>1. CASE i = m
            BY <1>0, <2>3, <2>9, <3>1
        <3>2. CASE i # m
            <4>1. i \in 1 .. n
                BY <1>0, <2>7, <3>2
            <4> QED
                BY <2>2, <2>9, <4>1
        <3> QED
            BY <3>1, <3>2
    <2>11. A = G
        <3>1. Len(A) = Len(G) /\ \A i \in 1 .. Len(A) : A[i] = G[i]
            BY <1>0, <2>7, <2>9, <2>10
        <3> QED
            BY <2>7, <2>9, <3>1, SeqEqual
    <2> QED
        BY <2>0, <2>8, <2>11
<1>5. u.rd = Len(Joined(Device(l), m))
    <2>1. /\ Joined(Device(l), m) = Joined(Device(l), n) \o Whole(m, lens)
          /\ Joined(Device(l), n) \in Seq(Byte)
        BY <1>1, JoinedStep
    <2>2. Whole(m, lens) \in Seq(Byte) /\ Len(Whole(m, lens)) = Len(p)
        BY <1>0, <1>1, WholeType
    <2>3. Len(Joined(Device(l), m)) = Len(Joined(Device(l), n)) + Len(Whole(m, lens))
        BY ZenonT(60), <2>1, <2>2, ConcatProperties
    <2>4. u.rd = Len(Joined(Device(l), n)) + Len(done)
        BY DEF ReadTo
    <2> QED
        BY <1>2, <2>2, <2>3, <2>4
<1>6. u.pc \notin {"hdr", "body"}
    OBVIOUS
<1> QED
    BY <1>1, <1>4, <1>5, <1>6, Zenon DEF Reads

-----------------------------------------------------------------------------
(* The inductive invariant.                                                *)

Shape ==
    /\ load \in Loads
    /\ conn = [state |-> conn.state, n |-> conn.n, mixed |-> conn.mixed]
    /\ conn.mixed \in BOOLEAN
    /\ tx = [pc |-> tx.pc, m |-> tx.m, iov |-> tx.iov, tb |-> tx.tb]
    /\ tx.pc \in {"idle", "writev"} /\ tx.m \in 0 .. Len(load.req)
    /\ rx = [pc |-> rx.pc, rd |-> rx.rd, iov |-> rx.iov, tb |-> rx.tb, mem |-> rx.mem]
    /\ rx.pc \in {"poll", "hdr", "body", "err"}
    /\ arrived \in 0 .. Len(DeviceStream)

SendInv == Sends(load, conn.state, tx, wire, begun, okay)
ReadInv == Reads(load, rx, got)

\* While no transfer has gone on across a reconnect: what the socket took is
\* what was begun up to what is left of the vector, and the buffers hold the
\* bytes of the message after those received, each in its place, up to what
\* is left to read.
StreamInv == Shape /\ (~conn.mixed => SendInv /\ ReadInv)

\* The stream is the messages of the device, joined.
LEMMA DeviceStreamIs == DeviceStream = FlattenSeq(Device(load))
BY DEF DeviceStream, Device

\* The invariant holds at first.
LEMMA StreamInvInit == Init => StreamInv
<1> SUFFICES ASSUME Init PROVE StreamInv
    OBVIOUS
<1>1. /\ load \in Loads /\ Load(load)
      /\ conn = [state |-> "open", n |-> 1, mixed |-> FALSE]
      /\ tx = NoTx /\ wire = <<>> /\ begun = <<>> /\ okay = 0
      /\ rx = NoRx /\ got = <<>> /\ arrived = 0
    BY LoadsAre DEF Init
<1>2. Len(DeviceStream) \in Nat
    BY <1>1, DeviceStreamIs, DeviceType, FlattenType, LenProperties
<1>3. Len(load.req) \in Nat
    BY <1>1, LenProperties DEF Load
<1>4. tx.pc = "idle" /\ tx.m = 0 /\ rx.pc = "poll" /\ rx.rd = 0
    BY <1>1 DEF NoTx, NoRx
<1>5. Shape
    BY <1>1, <1>2, <1>3 DEF Shape, NoTx, NoRx
<1>6. SendInv
    BY <1>1, <1>4, SendsEmpty DEF SendInv
<1>7. ReadInv
    BY <1>1, <1>4, ReadsEmpty DEF ReadInv
<1> QED
    BY <1>5, <1>6, <1>7 DEF StreamInv

\* No step of ktli_socket_send breaks it.
LEMMA SenderStep ==
    ASSUME StreamInv, Sender, load' = load
    PROVE  StreamInv'
<1>0. /\ Shape /\ load \in Loads /\ Load(load) /\ (~conn.mixed => SendInv /\ ReadInv)
      /\ Len(load.req) \in Nat /\ load.req \in Seq(Seq(Nat))
    <2>1. Shape /\ load \in Loads /\ (~conn.mixed => SendInv /\ ReadInv)
        BY DEF StreamInv, Shape
    <2>2. Load(load)
        BY <2>1, LoadsAre
    <2>3. load.req \in Seq(Seq(Nat))
        BY SMTT(60), <2>2 DEF Load
    <2> QED
        BY <2>1, <2>2, <2>3, LenProperties
<1>1. conn' = conn /\ rx' = rx /\ got' = got /\ arrived' = arrived
    BY DEF Sender, ktli_socket_send, SendNoMemory, Writev, WritevFails, recvvars
<1>2. ReadInv => ReadInv'
    BY <1>1 DEF ReadInv
<1>3. DeviceStream' = DeviceStream
    BY DEF DeviceStream
<1>4. ASSUME tx' = [pc |-> tx'.pc, m |-> tx'.m, iov |-> tx'.iov, tb |-> tx'.tb],
             tx'.pc \in {"idle", "writev"}, tx'.m \in 0 .. Len(load.req)
      PROVE  Shape'
    BY <1>0, <1>1, <1>3, <1>4 DEF Shape
<1>5. ASSUME Shape', ~conn.mixed => SendInv' PROVE StreamInv'
    BY <1>0, <1>1, <1>2, <1>5 DEF StreamInv
<1>6. CASE ktli_socket_send
    <2>1. /\ tx.pc = "idle" /\ tx.m < Len(load.req) /\ tx.m \in 0 .. Len(load.req)
          /\ wire' = wire /\ okay' = okay /\ begun' = Append(begun, tx.m + 1)
          /\ tx' = [pc |-> "writev", m |-> tx.m + 1, tb |-> 0,
                    iov |-> Iov(load.req[tx.m + 1], 1)]
        BY <1>0, <1>6 DEF ktli_socket_send, Shape
    <2>2. tx.m + 1 \in 1 .. Len(load.req) /\ tx.m + 1 \in 0 .. Len(load.req)
        BY <1>0, <2>1
    <2>3. PICK m : m = tx.m + 1
        OBVIOUS
    <2>4. tx' = [pc |-> "writev", m |-> m, iov |-> Iov(load.req[m], 1), tb |-> 0]
        BY <2>1, <2>3
    <2>5. /\ tx'.pc = "writev" /\ tx'.m = m /\ tx'.iov = Iov(load.req[m], 1)
          /\ tx' = [pc |-> tx'.pc, m |-> tx'.m, iov |-> tx'.iov, tb |-> tx'.tb]
        BY <2>4
    <2>6. Shape'
        BY <1>4, <2>2, <2>3, <2>5
    <2>7. ASSUME ~conn.mixed PROVE SendInv'
        <3>1. Sends(load, conn.state, tx, wire, begun, okay)
            BY <1>0, <2>7 DEF SendInv
        <3>2. m \in 1 .. Len(load.req)
            BY <2>2, <2>3
        <3>3. Sends(load, conn.state, tx', wire, Append(begun, m), okay)
            BY <1>0, <2>1, <2>5, <3>1, <3>2, SendsBegin
        <3> QED
            BY <1>1, <2>1, <2>3, <3>3 DEF SendInv
    <2> QED
        BY <1>5, <2>6, <2>7
<1>7. CASE SendNoMemory
    <2>1. /\ tx.pc = "idle" /\ tx.m < Len(load.req) /\ tx.m \in 0 .. Len(load.req)
          /\ wire' = wire /\ okay' = okay /\ begun' = begun
          /\ tx' = [tx EXCEPT !.m = tx.m + 1]
          /\ tx = [pc |-> tx.pc, m |-> tx.m, iov |-> tx.iov, tb |-> tx.tb]
        BY <1>0, <1>7 DEF SendNoMemory, Shape
    <2>2. /\ tx'.pc = "idle" /\ tx'.m = tx.m + 1
          /\ tx' = [pc |-> tx'.pc, m |-> tx'.m, iov |-> tx'.iov, tb |-> tx'.tb]
        BY <2>1
    <2>3. Shape'
        BY <1>0, <1>4, <2>1, <2>2
    <2>4. ASSUME ~conn.mixed PROVE SendInv'
        <3>1. Sends(load, conn.state, tx, wire, begun, okay)
            BY <1>0, <2>4 DEF SendInv
        <3>2. Sends(load, conn.state, tx', wire, begun, okay)
            BY <2>1, <2>2, <3>1, SendsEnds
        <3> QED
            BY <1>1, <2>1, <3>2 DEF SendInv
    <2> QED
        BY <1>5, <2>3, <2>4
<1>8. ASSUME NEW n \in 1 .. Len(Places(tx.iov)), Writev(n) PROVE StreamInv'
    <2> DEFINE iov == Advance(tx.iov, n)
               sent == tx.tb + n = Len(Whole(tx.m, load.req[tx.m]))
    <2>1. /\ tx.pc = "writev" /\ conn.state \in {"open", "eof"} /\ begun' = begun
          /\ wire' = wire \o Bytes(tx.m, SubSeq(Places(tx.iov), 1, n))
          /\ okay' = okay + (IF iov = <<>> /\ sent THEN 1 ELSE 0)
          /\ tx' = [tx EXCEPT !.iov = iov, !.tb = tx.tb + n,
                              !.pc = IF iov = <<>> THEN "idle" ELSE tx.pc]
          /\ tx = [pc |-> tx.pc, m |-> tx.m, iov |-> tx.iov, tb |-> tx.tb]
          /\ tx.m \in 0 .. Len(load.req)
        BY <1>0, <1>8 DEF Writev, Shape
    <2> HIDE DEF iov, sent
    <2>2. /\ tx'.pc = IF iov = <<>> THEN "idle" ELSE "writev"
          /\ tx'.m = tx.m /\ tx'.iov = iov
          /\ tx' = [pc |-> tx'.pc, m |-> tx'.m, iov |-> tx'.iov, tb |-> tx'.tb]
        BY <2>1
    <2>3. Shape'
        BY <1>4, <2>1, <2>2
    <2>4. ASSUME ~conn.mixed PROVE SendInv'
        <3>1. Sends(load, conn.state, tx, wire, begun, okay)
            BY <1>0, <2>4 DEF SendInv
        <3>2. okay \in Nat
            BY <3>1 DEF Sends
        <3>3. okay' \in {okay, okay + 1} /\ (iov # <<>> => okay' = okay)
            BY <2>1, <3>2
        <3>4. tx'.iov = Advance(tx.iov, n)
            BY <2>2 DEF iov
        <3>5. Sends(load, conn.state, tx',
                    wire \o Bytes(tx.m, SubSeq(Places(tx.iov), 1, n)), begun, okay')
            <4>1. PICK u, k : u = tx' /\ k = okay'
                OBVIOUS
            <4>2. /\ k \in {okay, okay + 1} /\ u.m = tx.m /\ u.iov = Advance(tx.iov, n)
                  /\ u.pc = IF u.iov = <<>> THEN "idle" ELSE "writev"
                  /\ u.iov # <<>> => k = okay
                BY <2>2, <3>3, <3>4, <4>1
            <4>3. Load(load) /\ conn.state \in {"open", "eof"} /\ tx.pc = "writev"
                BY <1>0, <2>1
            <4>4. Sends(load, conn.state, u,
                        wire \o Bytes(tx.m, SubSeq(Places(tx.iov), 1, n)), begun, k)
                BY <1>8, <3>1, <4>2, <4>3, SendsWrite
            <4> QED
                BY <4>1, <4>4
        <3> QED
            BY <1>1, <2>1, <3>5 DEF SendInv
    <2> QED
        BY <1>5, <2>3, <2>4
<1>9. CASE WritevFails
    <2>1. /\ conn.state \in {"reset", "shut"}
          /\ wire' = wire /\ okay' = okay /\ begun' = begun
          /\ tx' = [tx EXCEPT !.pc = "idle", !.iov = <<>>]
          /\ tx = [pc |-> tx.pc, m |-> tx.m, iov |-> tx.iov, tb |-> tx.tb]
          /\ tx.m \in 0 .. Len(load.req)
        BY <1>0, <1>9 DEF WritevFails, Shape
    <2>2. /\ tx'.pc = "idle" /\ tx'.m = tx.m
          /\ tx' = [pc |-> tx'.pc, m |-> tx'.m, iov |-> tx'.iov, tb |-> tx'.tb]
        BY <2>1
    <2>3. Shape'
        BY <1>4, <2>1, <2>2
    <2>4. ASSUME ~conn.mixed PROVE SendInv'
        <3>1. Sends(load, conn.state, tx, wire, begun, okay)
            BY <1>0, <2>4 DEF SendInv
        <3>2. Sends(load, conn.state, tx', wire, begun, okay)
            BY <2>1, <2>2, <3>1, SendsEnds
        <3> QED
            BY <1>1, <2>1, <3>2 DEF SendInv
    <2> QED
        BY <1>5, <2>3, <2>4
<1> QED
    BY <1>6, <1>7, <1>8, <1>9 DEF Sender

\* Steps of the receiver.
LEMMA ReceiverStep ==
    ASSUME StreamInv, Receiver, load' = load
    PROVE  StreamInv'
<1>0. /\ Shape /\ load \in Loads /\ Load(load) /\ (~conn.mixed => SendInv /\ ReadInv)
      /\ rx = [pc |-> rx.pc, rd |-> rx.rd, iov |-> rx.iov, tb |-> rx.tb, mem |-> rx.mem]
      /\ arrived \in 0 .. Len(FlattenSeq(Device(load)))
    <2>1. Shape /\ load \in Loads /\ (~conn.mixed => SendInv /\ ReadInv)
        BY DEF StreamInv, Shape
    <2>2. Load(load)
        BY <2>1, LoadsAre
    <2> QED
        BY <2>1, <2>2, DeviceStreamIs DEF Shape
<1>1. conn' = conn /\ tx' = tx /\ wire' = wire /\ begun' = begun /\ okay' = okay
      /\ arrived' = arrived
    BY DEF Receiver, PollReady, PollFails, ReceiveStep, Readv, ReadvAgain, ReadvEnd,
           RecvNoMemory, ReceiverUnchanged, sendvars
<1>2. SendInv => SendInv'
    BY <1>1 DEF SendInv
<1>3. DeviceStream' = DeviceStream
    BY DEF DeviceStream
<1>4. ASSUME rx' = [pc |-> rx'.pc, rd |-> rx'.rd, iov |-> rx'.iov, tb |-> rx'.tb,
                    mem |-> rx'.mem],
             rx'.pc \in {"poll", "hdr", "body", "err"}
      PROVE  Shape'
    BY <1>0, <1>1, <1>3, <1>4 DEF Shape
<1>5. ASSUME Shape', ~conn.mixed => Reads(load, rx', got') PROVE StreamInv'
    BY <1>0, <1>1, <1>2, <1>5 DEF StreamInv, ReadInv
<1>6. ~conn.mixed => Reads(load, rx, got)
    BY <1>0 DEF ReadInv
<1>7. CASE PollReady
    <2>1. /\ rx.pc = "poll" /\ got' = got
          /\ rx' = [rx EXCEPT !.pc = "hdr", !.tb = 0, !.mem = <<>>,
                              !.iov = Iov(<<KP_PLENGTH>>, 1)]
        BY <1>7 DEF PollReady
    <2>2. /\ rx'.pc = "hdr" /\ rx'.rd = rx.rd /\ rx'.mem = <<>>
          /\ rx'.iov = Iov(<<KP_PLENGTH>>, 1)
          /\ rx' = [pc |-> rx'.pc, rd |-> rx'.rd, iov |-> rx'.iov, tb |-> rx'.tb,
                    mem |-> rx'.mem]
        BY <1>0, <2>1
    <2>3. Shape'
        BY <1>4, <2>2
    <2>4. ~conn.mixed => Reads(load, rx', got')
        BY <1>0, <1>6, <2>1, <2>2, ReadsPoll
    <2> QED
        BY <1>5, <2>3, <2>4
<1>8. CASE rx' = rx /\ got' = got
    <2>1. Shape'
        BY <1>0, <1>1, <1>3, <1>8 DEF Shape
    <2>2. ~conn.mixed => Reads(load, rx', got')
        BY <1>6, <1>8
    <2> QED
        BY <1>5, <2>1, <2>2
<1>9. CASE Failed
    <2>1. rx' = [rx EXCEPT !.pc = "err"] /\ got' = got
        BY <1>9 DEF Failed
    <2>2. /\ rx'.pc = "err"
          /\ rx' = [pc |-> rx'.pc, rd |-> rx'.rd, iov |-> rx'.iov, tb |-> rx'.tb,
                    mem |-> rx'.mem]
        BY <1>0, <2>1
    <2>3. Shape'
        BY <1>4, <2>2
    <2>4. ~conn.mixed => Reads(load, rx', got')
        BY <1>6, <2>1, <2>2, ReadsFails
    <2> QED
        BY <1>5, <2>3, <2>4
<1>10. ASSUME NEW b \in 1 .. Unread, Readv(b) PROVE StreamInv'
    <2> DEFINE r == [rx EXCEPT !.iov = Advance(rx.iov, b), !.tb = rx.tb + b,
                               !.rd = rx.rd + b,
                               !.mem = Fill(rx.mem, SubSeq(Places(rx.iov), 1, b),
                                            SubSeq(DeviceStream, rx.rd + 1, rx.rd + b))]
    <2>1. /\ rx.pc \in {"hdr", "body"} /\ b <= Len(Places(rx.iov))
          /\ IF r.iov # <<>> THEN rx' = r /\ got' = got ELSE Received(r)
          /\ b \in 1 .. arrived - rx.rd
        BY <1>10 DEF Readv, Reading, Wanted, Unread
    <2>2. /\ r.pc = rx.pc /\ r.iov = Advance(rx.iov, b) /\ r.rd = rx.rd + b
          /\ r.mem = Fill(rx.mem, SubSeq(Places(rx.iov), 1, b),
                          SubSeq(FlattenSeq(Device(load)), rx.rd + 1, rx.rd + b))
          /\ r = [pc |-> r.pc, rd |-> r.rd, iov |-> r.iov, tb |-> r.tb, mem |-> r.mem]
        <3>1. PICK x, y, z, w :
                  /\ x = Advance(rx.iov, b) /\ y = rx.tb + b /\ z = rx.rd + b
                  /\ w = Fill(rx.mem, SubSeq(Places(rx.iov), 1, b),
                              SubSeq(DeviceStream, rx.rd + 1, rx.rd + b))
            OBVIOUS
        <3>2. r = [rx EXCEPT !.iov = x, !.tb = y, !.rd = z, !.mem = w]
            BY <3>1
        <3> HIDE DEF r
        <3>3. /\ r.pc = rx.pc /\ r.iov = x /\ r.rd = z /\ r.mem = w
              /\ r = [pc |-> r.pc, rd |-> r.rd, iov |-> r.iov, tb |-> r.tb,
                      mem |-> r.mem]
            BY <1>0, <3>2
        <3> QED
            BY <3>1, <3>3, DeviceStreamIs
    <2> HIDE DEF r
    <2>3. PICK s : s = r
        OBVIOUS
    <2>4. /\ s.pc = rx.pc /\ s.iov = Advance(rx.iov, b) /\ s.rd = rx.rd + b
          /\ s.mem = Fill(rx.mem, SubSeq(Places(rx.iov), 1, b),
                          SubSeq(FlattenSeq(Device(load)), rx.rd + 1, rx.rd + b))
          /\ s = [pc |-> s.pc, rd |-> s.rd, iov |-> s.iov, tb |-> s.tb, mem |-> s.mem]
        BY <2>2, <2>3
    \* What has been read, on a connection that is not mixed.
    <2>5. ASSUME ~conn.mixed
          PROVE  \E n \in 0 .. Len(load.rsp) : \E more \in Seq(Place) :
                     got = Got(load, n) /\ n < Len(load.rsp) /\ ReadTo(load, s, n, more)
        <3>1. PICK n \in 0 .. Len(load.rsp) :
                  /\ got = Got(load, n)
                  /\ rx.pc \in {"hdr", "body"} =>
                         \E done \in Seq(Place) : ReadTo(load, rx, n, done)
            BY <1>6, <2>5, Zenon DEF Reads
        <3>2. PICK done \in Seq(Place) : ReadTo(load, rx, n, done)
            BY <2>1, <3>1, Zenon
        <3>3. n < Len(load.rsp) /\ \E more \in Seq(Place) : ReadTo(load, s, n, more)
            BY <1>0, <2>1, <2>4, <3>2, ReadsReadv
        <3> QED
            BY <3>1, <3>3, Zenon
    <2>6. CASE s.iov # <<>>
        <3>1. rx' = s /\ got' = got
            BY <2>1, <2>3, <2>6
        <3>2. Shape'
            BY <1>4, <2>1, <2>4, <3>1
        <3>3. ASSUME ~conn.mixed PROVE Reads(load, rx', got')
            <4>1. s.pc # "poll"
                BY <2>1, <2>4
            <4> QED
                BY <2>5, <3>1, <3>3, <4>1, Zenon DEF Reads
        <3> QED
            BY <1>5, <3>2, <3>3
    <2>7. CASE s.iov = <<>>
        <3>1. Received(s)
            BY <2>1, <2>3, <2>7
        <3>2. CASE s.pc = "hdr"
            <4>1. PICK lens \in Lengths(s.mem) :
                      rx' = [s EXCEPT !.pc = "body", !.iov = Iov(lens, 2), !.tb = 0]
                BY <3>1, <3>2 DEF Received
            <4>2. got' = got
                BY <3>1, <3>2 DEF Received
            <4>3. /\ rx'.pc = "body" /\ rx'.iov = Iov(lens, 2) /\ rx'.rd = s.rd
                  /\ rx'.mem = s.mem
                  /\ rx' = [pc |-> rx'.pc, rd |-> rx'.rd, iov |-> rx'.iov, tb |-> rx'.tb,
                            mem |-> rx'.mem]
                BY <2>4, <4>1
            <4>4. Shape'
                BY <1>4, <4>3
            <4>5. ASSUME ~conn.mixed PROVE Reads(load, rx', got')
                <5>1. PICK n \in 0 .. Len(load.rsp), more \in Seq(Place) :
                          got = Got(load, n) /\ n < Len(load.rsp)
                          /\ ReadTo(load, s, n, more)
                    BY <2>5, <4>5, Zenon
                <5>2. more = Header
                    <6>1. Header = more \o <<>>
                        BY <2>7, <3>2, <5>1, PlacesEmpty DEF ReadTo
                    <6> QED
                        BY <6>1, ConcatEmptySeq
                <5>3. s.mem = Stored(n + 1, ToSet(Header))
                    BY <5>1, <5>2 DEF ReadTo
                <5>4. n + 1 \in 1 .. Len(load.rsp)
                    BY <1>0, <5>1, DeviceType
                <5>5. Lengths(s.mem) = {Tail(load.rsp[n + 1])}
                    <6> DEFINE of == {m \in DOMAIN load.rsp :
                                         \A p \in DOMAIN s.mem :
                                             s.mem[p] = <<m, p[1], p[2]>>}
                    <6>1. of = {n + 1}
                        <7>1. PICK k, mem : k = n + 1 /\ mem = s.mem
                            OBVIOUS
                        <7>2. k \in 1 .. Len(load.rsp) /\ mem = Stored(k, ToSet(Header))
                            BY <5>3, <5>4, <7>1
                        <7>3. {m \in DOMAIN load.rsp :
                                  \A p \in DOMAIN mem :
                                      mem[p] = <<m, p[1], p[2]>>} = {k}
                            BY SMTT(60), <1>0, <7>2, HeaderSays
                        <7> QED
                            BY <7>1, <7>3
                    <6>2. Lengths(s.mem) =
                              {Tail(load.rsp[m]) :
                                  m \in IF of = {} THEN DOMAIN load.rsp ELSE of}
                        BY DEF Lengths
                    <6> HIDE DEF of
                    <6> QED
                        BY <6>1, <6>2
                <5>6. lens = Tail(load.rsp[n + 1])
                    BY <4>1, <5>5
                <5>7. Reads(load, rx', Got(load, n))
                    BY <1>0, <2>7, <3>2, <4>3, <5>1, <5>6, ReadsHeader
                <5> QED
                    BY <4>2, <5>1, <5>7
            <4> QED
                BY <1>5, <4>4, <4>5
        <3>3. CASE s.pc # "hdr"
            <4>1. s.pc = "body" /\ rx' = [NoRx EXCEPT !.rd = s.rd]
                  /\ got' = Append(got, s.mem)
                BY <3>1, <3>3 DEF Received
            <4>2. /\ rx'.pc = "poll" /\ rx'.rd = s.rd
                  /\ rx' = [pc |-> rx'.pc, rd |-> rx'.rd, iov |-> rx'.iov, tb |-> rx'.tb,
                            mem |-> rx'.mem]
                BY <4>1 DEF NoRx
            <4>3. Shape'
                BY <1>4, <4>2
            <4>4. ASSUME ~conn.mixed PROVE Reads(load, rx', got')
                <5>1. PICK n \in 0 .. Len(load.rsp), more \in Seq(Place) :
                          got = Got(load, n) /\ n < Len(load.rsp)
                          /\ ReadTo(load, s, n, more)
                    BY <2>5, <4>4, Zenon
                <5>2. Reads(load, rx', Append(Got(load, n), s.mem))
                    BY <1>0, <2>7, <4>1, <4>2, <5>1, ReadsMessage
                <5> QED
                    BY <4>1, <5>1, <5>2
            <4> QED
                BY <1>5, <4>3, <4>4
        <3> QED
            BY <3>2, <3>3
    <2> QED
        BY <2>6, <2>7
<1>11. CASE PollFails
    BY <1>8, <1>11 DEF PollFails
<1>12. CASE ReadvAgain
    BY <1>8, <1>12 DEF ReadvAgain
<1>13. CASE ReadvEnd
    BY <1>9, <1>13 DEF ReadvEnd
<1>14. CASE RecvNoMemory
    BY <1>9, <1>14 DEF RecvNoMemory
<1> QED
    BY <1>7, <1>10, <1>11, <1>12, <1>13, <1>14 DEF Receiver, ReceiveStep

\* Steps of the device and of the session.
LEMMA ConnectionStep ==
    ASSUME StreamInv, load' = load,
           DeviceSends \/ DeviceEnds \/ ktli_socket_disconnect \/ ktli_socket_connect
    PROVE  StreamInv'
<1>0. /\ Shape /\ load \in Loads /\ Load(load) /\ (~conn.mixed => SendInv /\ ReadInv)
      /\ conn = [state |-> conn.state, n |-> conn.n, mixed |-> conn.mixed]
      /\ DeviceStream' = DeviceStream /\ Len(DeviceStream) \in Nat
    <2>1. Shape /\ load \in Loads /\ (~conn.mixed => SendInv /\ ReadInv)
        BY DEF StreamInv, Shape
    <2>2. Load(load)
        BY <2>1, LoadsAre
    <2>3. Len(DeviceStream) \in Nat
        BY <2>2, DeviceStreamIs, DeviceType, FlattenType, LenProperties
    <2>4. DeviceStream' = DeviceStream
        BY DEF DeviceStream
    <2> QED
        BY <2>1, <2>2, <2>3, <2>4 DEF Shape
<1>1. CASE DeviceSends
    <2>1. /\ conn' = conn /\ tx' = tx /\ wire' = wire /\ begun' = begun /\ okay' = okay
          /\ rx' = rx /\ got' = got /\ arrived' \in arrived + 1 .. Len(DeviceStream)
        BY <1>1 DEF DeviceSends, sendvars, recvvars
    <2>2. arrived' \in 0 .. Len(DeviceStream)
        BY <1>0, <2>1 DEF Shape
    <2> QED
        BY <1>0, <2>1, <2>2 DEF StreamInv, Shape, SendInv, ReadInv
<1>2. CASE DeviceEnds \/ ktli_socket_disconnect
    <2>1. /\ tx' = tx /\ wire' = wire /\ begun' = begun /\ okay' = okay
          /\ rx' = rx /\ got' = got /\ arrived' = arrived
        BY <1>2 DEF DeviceEnds, ktli_socket_disconnect, sendvars, recvvars
    <2>2. PICK st : /\ conn' = [conn EXCEPT !.state = st]
                    /\ st \in {"open", "eof"} => conn.state \in {"open", "eof"}
        BY <1>2 DEF DeviceEnds, ktli_socket_disconnect
    <2>3. /\ conn'.state = st /\ conn'.mixed = conn.mixed
          /\ conn' = [state |-> conn'.state, n |-> conn'.n, mixed |-> conn'.mixed]
        BY <1>0, <2>2
    <2>4. Shape'
        BY <1>0, <2>1, <2>3 DEF Shape
    <2>5. ASSUME ~conn.mixed PROVE SendInv'
        <3>1. Sends(load, conn.state, tx, wire, begun, okay)
            BY <1>0, <2>5 DEF SendInv
        <3>2. Sends(load, st, tx, wire, begun, okay)
            BY <2>2, <3>1, SendsEnds
        <3> QED
            BY <2>1, <2>3, <3>2 DEF SendInv
    <2>6. ASSUME ~conn.mixed PROVE ReadInv'
        BY <1>0, <2>1, <2>6 DEF ReadInv
    <2> QED
        BY <2>3, <2>4, <2>5, <2>6 DEF StreamInv
<1>3. CASE ktli_socket_connect
    <2>1. /\ rx.pc # "err" /\ tx' = tx
          /\ conn' = [state |-> "open", n |-> conn.n + 1,
                      mixed |-> tx.pc # "idle" \/ Reading]
          /\ wire' = <<>> /\ begun' = <<>> /\ okay' = 0
          /\ rx' = [rx EXCEPT !.rd = 0] /\ got' = <<>> /\ arrived' = 0
        BY <1>3 DEF ktli_socket_connect
    <2>2. /\ rx = [pc |-> rx.pc, rd |-> rx.rd, iov |-> rx.iov, tb |-> rx.tb,
                   mem |-> rx.mem]
          /\ rx.pc \in {"poll", "hdr", "body", "err"}
        BY <1>0 DEF Shape
    <2>3. /\ rx'.pc = rx.pc /\ rx'.rd = 0
          /\ rx' = [pc |-> rx'.pc, rd |-> rx'.rd, iov |-> rx'.iov, tb |-> rx'.tb,
                    mem |-> rx'.mem]
        BY <2>1, <2>2
    <2>4. PICK mixed \in BOOLEAN : mixed = (tx.pc # "idle" \/ Reading)
        OBVIOUS
    <2>5. conn' = [state |-> "open", n |-> conn.n + 1, mixed |-> mixed]
        BY <2>1, <2>4
    <2>6. /\ conn'.mixed = mixed /\ conn'.state = "open"
          /\ conn' = [state |-> conn'.state, n |-> conn'.n, mixed |-> conn'.mixed]
        BY <2>5
    <2>7. Shape'
        BY <1>0, <2>1, <2>2, <2>3, <2>6 DEF Shape
    <2>8. ASSUME ~conn'.mixed PROVE SendInv' /\ ReadInv'
        <3>1. tx.pc = "idle" /\ rx.pc = "poll"
            BY <2>1, <2>2, <2>4, <2>6, <2>8 DEF Reading
        <3>2. Sends(load, conn'.state, tx, <<>>, <<>>, 0)
            BY <1>0, <3>1, SendsEmpty
        <3>3. Reads(load, rx', <<>>)
            BY <1>0, <2>3, <3>1, ReadsEmpty
        <3> QED
            BY <2>1, <3>2, <3>3 DEF SendInv, ReadInv
    <2> QED
        BY <2>7, <2>8 DEF StreamInv
<1> QED
    BY <1>1, <1>2, <1>3

\* No step breaks it.
LEMMA StreamInvNext == StreamInv /\ [Next]_vars => StreamInv'
<1> SUFFICES ASSUME StreamInv, [Next]_vars PROVE StreamInv'
    OBVIOUS
<1>1. CASE Next
    BY <1>1, SenderStep, ReceiverStep, ConnectionStep, Zenon DEF Next
<1>2. CASE UNCHANGED vars
    <2>1. /\ load' = load /\ conn' = conn /\ tx' = tx /\ wire' = wire /\ begun' = begun
          /\ okay' = okay /\ rx' = rx /\ got' = got /\ arrived' = arrived
        BY <1>2 DEF vars, sendvars, recvvars
    <2>2. DeviceStream' = DeviceStream
        BY <2>1 DEF DeviceStream
    <2> QED
        BY <2>1, <2>2 DEF StreamInv, Shape, SendInv, ReadInv
<1> QED
    BY <1>1, <1>2

-----------------------------------------------------------------------------
\* What the invariant says of the bytes sent.
LEMMA SentExact ==
    ASSUME Load(load), SendInv
    PROVE  IsPrefix(wire, Sent) /\ Len(wire) >= Len(Upto(okay))
<1>1. /\ begun \in Seq(1 .. Len(load.req)) /\ okay \in 0 .. Len(begun)
      /\ IsPrefix(wire, FlattenSeq(Messages(load, begun)))
      /\ Len(wire) >= Len(Joined(Messages(load, begun), okay))
    BY DEF SendInv, Sends
<1>2. Sent = FlattenSeq(Messages(load, begun))
    BY DEF Sent, Messages
<1>3. PICK s : s = Messages(load, begun)
    OBVIOUS
<1>4. /\ s \in Seq(Seq(Byte)) /\ Len(s) = Len(begun) /\ Len(begun) \in Nat
      /\ \A i \in 1 .. Len(begun) : s[i] = Whole(begun[i], load.req[begun[i]])
    BY <1>1, <1>3, MessagesType
<1>5. [i \in 1 .. okay |-> Whole(begun[i], load.req[begun[i]])] = SubSeq(s, 1, okay)
    <2>0. okay \in Nat /\ okay <= Len(s)
        BY <1>1, <1>4
    <2>1. \A i \in 1 .. okay : i \in 1 .. Len(s) /\ s[i] \in Seq(Byte)
        BY <1>4, <2>0, ElementOfSeq
    <2>2. PICK p, q : /\ p = [i \in 1 .. okay |-> Whole(begun[i], load.req[begun[i]])]
                      /\ q = SubSeq(s, 1, okay)
        OBVIOUS
    <2>3. /\ q \in Seq(Seq(Byte)) /\ Len(q) = okay
          /\ \A i \in 1 .. okay : q[i] = s[i]
        BY <2>0, <2>1, <2>2, SubSeqProperties
    <2>4. \A i \in 1 .. okay : p[i] = s[i]
        BY <1>4, <2>1, <2>2
    <2>5. p \in [1 .. okay -> Seq(Byte)]
        BY <2>1, <2>2, <2>4
    <2>6. p \in Seq(Seq(Byte)) /\ Len(p) = okay
        BY <2>0, <2>5, IsSeq
    <2>7. p = q
        <3>1. Len(p) = Len(q) /\ \A i \in 1 .. Len(p) : p[i] = q[i]
            BY <2>3, <2>4, <2>6
        <3> QED
            BY <2>3, <2>6, <3>1, SeqEqual
    <2> QED
        BY <2>2, <2>7
<1>6. Upto(okay) = Joined(Messages(load, begun), okay)
    BY <1>3, <1>5 DEF Upto, Joined
<1> QED
    BY <1>1, <1>2, <1>6

\* And of the messages received.
LEMMA GotExact ==
    ASSUME Load(load), ReadInv
    PROVE  \A i \in DOMAIN got : i \in DOMAIN load.rsp /\ Exact(got[i], i)
<1>1. PICK n \in 0 .. Len(load.rsp) : got = Got(load, n)
    BY DEF ReadInv, Reads
<1>2. ASSUME NEW i \in DOMAIN got
      PROVE  i \in DOMAIN load.rsp /\ Exact(got[i], i)
    <2>1. i \in 1 .. n /\ got[i] = Stored(i, ToSet(Places(Iov(load.rsp[i], 1))))
        BY <1>1 DEF Got
    <2>2. i \in DOMAIN load.rsp
        BY <1>1, <2>1, DeviceType
    <2> QED
        BY <2>1, <2>2 DEF Exact, Stored
<1> QED
    BY <1>2

\* It implies the property.
LEMMA StreamInvExact == StreamInv => StreamExact
<1> SUFFICES ASSUME StreamInv PROVE StreamExact
    OBVIOUS
<1>1. Load(load) /\ (~conn.mixed => SendInv /\ ReadInv)
    BY LoadsAre DEF StreamInv, Shape
<1> QED
    BY <1>1, SentExact, GotExact DEF StreamExact

\* The bytes on a connection are those of the messages in the order sent, and
\* each message received is one the device sent, in order, with each byte in
\* its place (ktli_socket_send, ktli_socket_receive and ktli_recvmsg).
THEOREM SpecStreamExact == Spec => []StreamExact
<1>1. Init => StreamInv
    BY StreamInvInit
<1>2. StreamInv /\ [Next]_vars => StreamInv'
    BY StreamInvNext
<1>3. StreamInv => StreamExact
    BY StreamInvExact
<1> QED
    BY <1>1, <1>2, <1>3, PTL DEF Spec
=============================================================================
