---------------------------- MODULE StoreProofs ----------------------------
(***************************************************************************)
(* Theorems about the basic key/value layer and the iterator (module       *)
(* Store), for every finite set of keys, every set of clients, values and  *)
(* ranges and every window.                                                *)
(*                                                                         *)
(* The lengths and the windows are computed by recursion over numbers; the *)
(* proofs do induction in the form of the least number at which a claim    *)
(* would fail (Least).  StoreInv, the conjunction of ValueInv and IterInv, *)
(* is the inductive invariant.                                             *)
(***************************************************************************)
EXTENDS Store, TLAPS, FiniteSetTheorems, SequenceTheorems, WellFoundedInduction

\* A nonempty set of naturals has a least element.
LEMMA Least ==
    ASSUME NEW T \in SUBSET Nat, T # {}
    PROVE  \E n \in T : \A m \in T : n <= m
<1>1. PICK n \in T : \A m \in T : ~(<<m, n>> \in OpToRel(<, Nat))
    BY WFMin, NatLessThanWellFounded
<1>2. OpToRel(<, Nat) = {ss \in Nat \X Nat : ss[1] < ss[2]}
    BY Zenon DEF OpToRel
<1>3. ASSUME NEW m \in T PROVE n <= m
    <2>1. m \in Nat /\ n \in Nat
        OBVIOUS
    <2>2. <<m, n>> \notin {ss \in Nat \X Nat : ss[1] < ss[2]}
        BY <1>1, <1>2
    <2> QED BY <2>1, <2>2
<1> QED BY <1>3

----------------------------------------------------------------------------
\* The first elements of a finite set of integers.

\* The keys of a finite set counted up to one of them: the counts rise with it.
LEMMA UpToCounts ==
    ASSUME NEW S \in SUBSET Int, IsFiniteSet(S)
    PROVE  /\ Cardinality(S) \in Nat
           /\ \A k \in S : Cardinality(UpTo(S, k)) \in 1 .. Cardinality(S)
           /\ \A j, k \in S : j < k =>
                  Cardinality(UpTo(S, j)) < Cardinality(UpTo(S, k))
<1>1. Cardinality(S) \in Nat
    BY FS_CardinalityType
<1>2. ASSUME NEW k \in S
      PROVE  /\ IsFiniteSet(UpTo(S, k))
             /\ Cardinality(UpTo(S, k)) \in 1 .. Cardinality(S)
    <2>1. UpTo(S, k) \subseteq S /\ UpTo(S, k) # {}
        BY DEF UpTo
    <2>2. /\ IsFiniteSet(UpTo(S, k))
          /\ Cardinality(UpTo(S, k)) <= Cardinality(S)
        BY <2>1, FS_Subset
    <2>3. Cardinality(UpTo(S, k)) \in Nat /\ Cardinality(UpTo(S, k)) # 0
        BY <2>1, <2>2, FS_CardinalityType, FS_EmptySet
    <2> QED BY <1>1, <2>2, <2>3
<1>3. ASSUME NEW j \in S, NEW k \in S, j < k
      PROVE  Cardinality(UpTo(S, j)) < Cardinality(UpTo(S, k))
    <2>0. j \in Int /\ k \in Int /\ \A x \in S : x \in Int
        OBVIOUS
    <2>1. ASSUME NEW x \in UpTo(S, j) PROVE x \in UpTo(S, k)
        <3>1. x \in S /\ x \in Int /\ x <= j
            BY <2>0 DEF UpTo
        <3>2. x <= k
            BY <1>3, <2>0, <3>1
        <3> QED BY <3>1, <3>2 DEF UpTo
    <2>2. k \in UpTo(S, k) /\ k \notin UpTo(S, j)
        BY <1>3 DEF UpTo
    <2>3. UpTo(S, j) # UpTo(S, k)
        BY <2>2
    <2> QED BY <1>2, <2>1, <2>3, FS_Subset, FS_CardinalityType
<1> QED BY <1>1, <1>2, <1>3

\* Every number up to the size of the set is such a count.
LEMMA UpToOnto ==
    ASSUME NEW S \in SUBSET Int, IsFiniteSet(S)
    PROVE  \A i \in 1 .. Cardinality(S) :
               \E k \in S : Cardinality(UpTo(S, k)) = i
<1> DEFINE f == [k \in S |-> Cardinality(UpTo(S, k))]
           n == Cardinality(S)
<1>1. n \in Nat /\ f \in [S -> 1 .. n]
    BY UpToCounts
<1>2. ASSUME NEW j \in S, NEW k \in S, f[j] = f[k] PROVE j = k
    <2>1. ~(j < k) /\ ~(k < j)
        BY UpToCounts, <1>2
    <2> QED BY <2>1
<1>3. f \in Injection(S, 1 .. n)
    BY <1>1, <1>2 DEF Injection, IsInjective
<1>4. IsFiniteSet(1 .. n) /\ Cardinality(1 .. n) = n
    BY <1>1, FS_Interval
<1>5. f \in Surjection(S, 1 .. n)
    BY <1>3, <1>4, FS_Injection
<1> QED BY <1>5 DEF Surjection

\* FirstOf(S, n) is ascending, leaves no element of S out below one that it
\* holds, and leaves one out only when it holds n.
LEMMA FirstOfSound ==
    ASSUME NEW S \in SUBSET Int, IsFiniteSet(S), NEW n \in Nat
    PROVE  LET s == FirstOf(S, n)
           IN  /\ s \in Seq(S)
               /\ Len(s) \in Nat
               /\ \A i, j \in 1 .. Len(s) : i < j => s[i] < s[j]
               /\ \A k \in S : \A i \in 1 .. Len(s) :
                      k <= s[i] => \E j \in 1 .. Len(s) : s[j] = k
               /\ Len(s) < n => \A k \in S : \E j \in 1 .. Len(s) : s[j] = k
<1> DEFINE s == FirstOf(S, n)
           m == IF n < Cardinality(S) THEN n ELSE Cardinality(S)
           R(k) == Cardinality(UpTo(S, k))
<1>1. Cardinality(S) \in Nat /\ m \in Nat /\ m <= Cardinality(S)
    BY FS_CardinalityType
<1>2. s = [i \in 1 .. m |-> CHOOSE k \in S : R(k) = i]
    BY DEF FirstOf
<1>3. ASSUME NEW i \in 1 .. m PROVE s[i] \in S /\ R(s[i]) = i
    <2>1. \E k \in S : R(k) = i
        BY <1>1, UpToOnto
    <2> HIDE DEF R
    <2>2. s[i] = CHOOSE k \in S : R(k) = i
        BY <1>2
    <2> QED BY <2>1, <2>2, Zenon
<1>4. s \in Seq(S) /\ Len(s) = m
    <2>1. s \in [1 .. m -> S]
        <3>1. s = [i \in 1 .. m |-> s[i]]
            BY <1>2
        <3> HIDE DEF s, m
        <3> QED
            BY <1>3, <3>1
    <2> HIDE DEF s, m
    <2>2. s \in Seq(S)
        BY <1>1, <2>1, SeqDef, Zenon
    <2>3. Len(s) \in Nat /\ DOMAIN s = 1 .. Len(s) /\ DOMAIN s = 1 .. m
        BY <2>1, <2>2, LenProperties
    <2>4. \A a, b \in Nat : 1 .. a = 1 .. b => a = b
        OBVIOUS
    <2>5. m \in Nat
        BY <1>1
    <2> QED
        BY <2>2, <2>3, <2>4, <2>5, Zenon
<1>0. \A k \in S : k \in Int
    OBVIOUS
<1>5. /\ \A k \in S : R(k) \in 1 .. Cardinality(S)
      /\ \A j, k \in S : j < k => R(j) < R(k)
    BY UpToCounts
<1> HIDE DEF R, s
<1>6. ASSUME NEW i \in 1 .. m, NEW j \in 1 .. m, i < j PROVE s[i] < s[j]
    <2>1. s[i] \in S /\ s[j] \in S /\ R(s[i]) = i /\ R(s[j]) = j
        BY <1>3
    <2>2. s[j] < s[i] => R(s[j]) < R(s[i])
        BY <1>5, <2>1
    <2>5. s[i] # s[j]
        <3>1. i # j
            BY <1>6
        <3> QED BY <2>1, <3>1, Zenon
    <2>4. ~(s[j] < s[i])
        BY <1>6, <2>1, <2>2
    <2>3. s[i] \in Int /\ s[j] \in Int
        BY <1>0, <2>1
    <2> QED BY <2>3, <2>4, <2>5
<1>7. ASSUME NEW k \in S, R(k) <= m PROVE \E j \in 1 .. m : s[j] = k
    <2>1. R(k) \in 1 .. m
        BY <1>1, <1>5, <1>7
    <2>2. s[R(k)] \in S /\ R(s[R(k)]) = R(k)
        BY <1>3, <2>1
    <2>3. ~(s[R(k)] < k) /\ ~(k < s[R(k)])
        <3>1. R(k) \in Int
            BY <1>5
        <3>2. /\ s[R(k)] < k => R(s[R(k)]) < R(k)
              /\ k < s[R(k)] => R(k) < R(s[R(k)])
            BY <1>5, <2>2
        <3> QED BY <2>2, <3>1, <3>2
    <2>4. s[R(k)] \in Int /\ k \in Int
        BY <1>0, <2>2
    <2>5. s[R(k)] = k
        BY <2>3, <2>4
    <2> QED BY <2>1, <2>5
<1>8. ASSUME NEW k \in S, NEW i \in 1 .. m, k <= s[i]
      PROVE  R(k) <= m
    <2>1. s[i] \in S /\ R(s[i]) = i
        BY <1>3
    <2>4. k \in Int /\ s[i] \in Int
        BY <1>0, <2>1
    <2>2. k = s[i] \/ k < s[i]
        BY <1>8, <2>4
    <2>3. R(k) = i \/ R(k) < i
        BY <1>5, <2>1, <2>2
    <2> QED BY <1>1, <1>5, <2>3
<1>9. ASSUME m < n, NEW k \in S PROVE R(k) <= m
    BY <1>1, <1>5, <1>9
<1> QED
    <2>1. \A i, j \in 1 .. Len(s) : i < j => s[i] < s[j]
        BY <1>4, <1>6
    <2>2. \A k \in S : \A i \in 1 .. Len(s) :
              k <= s[i] => \E j \in 1 .. Len(s) : s[j] = k
        BY <1>4, <1>7, <1>8
    <2>3. Len(s) < n => \A k \in S : \E j \in 1 .. Len(s) : s[j] = k
        BY <1>4, <1>7, <1>9
    <2> QED BY <1>1, <1>4, <2>1, <2>2, <2>3 DEF s

----------------------------------------------------------------------------
\* The lengths of the parts.

\* The quotient and the remainder, with the facts about them that hold for
\* every divisor.
LEMMA DivMod ==
    ASSUME NEW a \in Nat, NEW b \in Nat \ {0}
    PROVE  /\ a \div b \in Nat /\ a % b \in 0 .. b - 1
           /\ a = b * (a \div b) + (a % b)
<1>1. b \in Nat /\ b > 0
    OBVIOUS
<1>2. a \div b \in Int /\ a % b \in Int /\ a % b >= 0 /\ a % b < b
    BY <1>1
<1>3. a \div b >= 0
    BY <1>1
<1>4. a = b * (a \div b) + (a % b)
    BY <1>1
<1> QED BY <1>1, <1>2, <1>3, <1>4

\* A function that adds up the parts of s satisfies the equation by which
\* Length is defined, so Length is its last value.
LEMMA LengthIs ==
    ASSUME NEW s, Len(s) \in Nat, NEW f,
           f = [i \in 0 .. Len(s) |-> IF i = 0 THEN 0 ELSE f[i - 1] + s[i].len]
    PROVE  Length(s) = f[Len(s)]
<1> DEFINE sum[i \in 0 .. Len(s)] == IF i = 0 THEN 0 ELSE sum[i - 1] + s[i].len
<1>1. sum = CHOOSE g : g = [i \in 0 .. Len(s) |->
                                IF i = 0 THEN 0 ELSE g[i - 1] + s[i].len]
    OBVIOUS
<1> HIDE DEF sum
<1>2. sum = [i \in 0 .. Len(s) |-> IF i = 0 THEN 0 ELSE sum[i - 1] + s[i].len]
    BY <1>1, Zenon
<1> DEFINE T == {i \in 0 .. Len(s) : sum[i] # f[i]}
<1>3. ASSUME T # {} PROVE FALSE
    <2>0. T \in SUBSET Nat
        OBVIOUS
    <2>1. PICK n \in T : \A m \in T : n <= m
        <3> HIDE DEF T
        <3> QED BY <1>3, <2>0, Least
    <2>2. n \in 0 .. Len(s) /\ sum[n] # f[n]
        OBVIOUS
    <2>3. n # 0
        BY <1>2, <2>2
    <2>4. n - 1 \in 0 .. Len(s) /\ n - 1 \notin T
        BY <2>1, <2>2, <2>3
    <2>5. sum[n - 1] = f[n - 1]
        BY <2>4
    <2> QED BY <1>2, <2>2, <2>3, <2>5
<1>4. sum[Len(s)] = f[Len(s)]
    BY <1>3
<1> QED BY <1>4 DEF Length, sum

\* bkv_putn: the parts before the last are full, the last is what remains.
LEMMA NumKeysIs ==
    ASSUME NEW vlen \in Nat, vlen > 0
    PROVE  LET n == NumKeys(vlen)
               last == PartLen(vlen, n, n - 1)
           IN  /\ n \in Nat /\ n > 0
               /\ last \in Nat /\ vlen = (n - 1) * VALLEN + last
<1> DEFINE q == vlen \div VALLEN
           r == vlen % VALLEN
<1>1. VALLEN \in Nat \ {0}
    BY BasicKVAssumption
<1>2. q \in Nat /\ r \in 0 .. VALLEN - 1 /\ vlen = VALLEN * q + r
    BY <1>1, DivMod
<1>3. NumKeys(vlen) = q + (IF r # 0 THEN 1 ELSE 0)
    BY DEF NumKeys
<1>4. PartLen(vlen, NumKeys(vlen), NumKeys(vlen) - 1) =
          IF r # 0 THEN r ELSE VALLEN
    BY DEF PartLen
<1> HIDE DEF q, r
<1>5. CASE r # 0
    <2>1. NumKeys(vlen) = q + 1
        BY <1>3, <1>5
    <2>2. PartLen(vlen, NumKeys(vlen), NumKeys(vlen) - 1) = r
        BY <1>4, <1>5
    <2>3. (NumKeys(vlen) - 1) * VALLEN = VALLEN * q
        BY <1>1, <1>2, <2>1
    <2> QED BY <1>1, <1>2, <2>1, <2>2, <2>3
<1>6. CASE r = 0
    <2>1. NumKeys(vlen) = q
        BY <1>2, <1>3, <1>6
    <2>2. PartLen(vlen, NumKeys(vlen), NumKeys(vlen) - 1) = VALLEN
        BY <1>4, <1>6
    <2>3. vlen = VALLEN * q
        BY <1>1, <1>2, <1>6
    <2>4. q # 0
        BY <1>1, <2>3
    <2>5. (q - 1) * VALLEN + VALLEN = VALLEN * q
        BY <1>1, <1>2
    <2>6. q \in Nat /\ q > 0 /\ vlen = (q - 1) * VALLEN + VALLEN
        BY <1>2, <2>3, <2>4, <2>5
    <2> QED BY <1>1, <2>1, <2>2, <2>6
<1> QED BY <1>5, <1>6

\* The parts of a value are together as long as the value.
LEMMA PartsLength ==
    ASSUME NEW v, v.vlen \in Nat, v.vlen > 0, v.n = NumKeys(v.vlen)
    PROVE  Length(Parts(v)) = v.vlen
<1> DEFINE n == v.n
           last == PartLen(v.vlen, n, n - 1)
           s == Parts(v)
           f == [i \in 0 .. n |-> IF i = n THEN v.vlen ELSE i * VALLEN]
<1>1. n \in Nat /\ n > 0 /\ last \in Nat /\ v.vlen = (n - 1) * VALLEN + last
    BY NumKeysIs
<1>2. VALLEN \in Nat
    BY BasicKVAssumption
<1>3. Len(s) = n /\ \A i \in 1 .. n : s[i].len = PartLen(v.vlen, n, i - 1)
    BY <1>1 DEF Parts, Part
<1>4. ASSUME NEW i \in 0 .. n
      PROVE  f[i] = IF i = 0 THEN 0 ELSE f[i - 1] + s[i].len
    <2>1. CASE i = 0
        BY <1>1, <1>2, <2>1
    <2>2. CASE i # 0 /\ i = n
        <3>1. s[i].len = last /\ f[i] = v.vlen
            BY <1>3, <2>2
        <3>2. f[i - 1] = (n - 1) * VALLEN
            BY <1>1, <2>2
        <3> QED BY <1>1, <2>2, <3>1, <3>2
    <2>3. CASE i # 0 /\ i # n
        <3>1. s[i].len = VALLEN
            BY <1>1, <1>3, <2>3 DEF PartLen
        <3>2. f[i] = i * VALLEN /\ f[i - 1] = (i - 1) * VALLEN
            BY <1>1, <2>3
        <3>3. (i - 1) * VALLEN + VALLEN = i * VALLEN
            BY <1>1, <1>2
        <3> QED BY <2>3, <3>1, <3>2, <3>3
    <2> QED BY <2>1, <2>2, <2>3
<1>5. f = [i \in 0 .. Len(s) |-> IF i = 0 THEN 0 ELSE f[i - 1] + s[i].len]
    BY <1>3, <1>4
<1>6. f[Len(s)] = v.vlen
    BY <1>1, <1>3
<1> HIDE DEF f, s
<1>7. Length(s) = f[Len(s)]
    BY <1>1, <1>3, <1>5, LengthIs
<1> QED BY <1>6, <1>7 DEF s

----------------------------------------------------------------------------
\* The inductive invariant of the iterator.

PartRec == [w : Nat, i : Nat, len : Nat]

IterRec == [pc : {"new", "on", "bogus", "end"}, rreq : KeyRange \cup {<<>>},
            start : Int, istart : BOOLEAN, win : Seq(Int), curkey : Nat,
            seenkeys : Nat, out : Seq(Int)]

\* Key k was returned, or is still to come in the window.
Returned(k) == \E j \in 1 .. Len(it.out) : it.out[j] = k
ToCome(k) == \E j \in 1 .. Len(it.win) : j > it.curkey + 1 /\ it.win[j] = k

\* What was returned, once something was.
OutInv ==
    it.out # <<>> =>
        /\ it.rreq \in KeyRange
        /\ \A j \in 1 .. Len(it.out) : InRange(it.out[j])
        /\ \A j \in 2 .. Len(it.out) : it.out[j - 1] < it.out[j]
        /\ it.rreq.count # KVR_COUNT_INF => Len(it.out) <= it.rreq.count
        /\ \A k \in present :
               InRange(k) /\ k <= it.out[Len(it.out)] => Returned(k)
        /\ it.pc = "bogus" => \A k \in present : InRange(k) => Returned(k)

\* The window and the iterator's place in it.  No key that was there all the
\* time is left out up to the last key of the window.
WinInv ==
    it.pc = "on" =>
        /\ it.out # <<>>
        /\ it.curkey \in 0 .. Len(it.win) - 1
        /\ \A j \in 1 .. Len(it.win) : InRange(it.win[j])
        /\ \A i, j \in 1 .. Len(it.win) : i < j => it.win[i] < it.win[j]
        /\ it.out[Len(it.out)] = it.win[it.curkey + 1]
        /\ it.seenkeys = Len(it.out)
        /\ \A k \in present :
               InRange(k) /\ k <= it.win[Len(it.win)] =>
                   Returned(k) \/ ToCome(k)

IterInv ==
    /\ present \subseteq Has(db)
    /\ it \in IterRec
    /\ OutInv
    /\ WinInv

\* At first there is no iterator.
LEMMA IterInvInit == Init => IterInv
    BY DEF Init, StoreInit, IterInit, NoIter, IterInv, IterRec, OutInv, WinInv

\* The invariant of the iterator implies IterSound.
LEMMA IterSoundFollows == IterInv => IterSound
<1> SUFFICES ASSUME IterInv, it.pc # "new", it.out # <<>>
             PROVE  IterSound
    BY DEF IterSound
<1> USE DEF IterInv, OutInv
<1>1. Len(it.out) \in Nat /\ DOMAIN it.out = 1 .. Len(it.out)
    BY DEF IterRec
<1>2. ToSet(it.out) = {it.out[j] : j \in 1 .. Len(it.out)}
    BY <1>1 DEF ToSet
<1>3. \A k : Returned(k) => k \in ToSet(it.out)
    BY <1>2 DEF Returned
<1>4. {k \in present : InRange(k) /\ k <= Last(it.out)} \subseteq ToSet(it.out)
    BY <1>3 DEF Last
<1>5. it.pc = "bogus" =>
          {k \in present : InRange(k)} \subseteq ToSet(it.out)
    BY <1>3
<1> QED BY <1>1, <1>4, <1>5 DEF IterSound

\* The answer to a range request: keys of the range in order, none left out
\* before the last of them, and none there if it is empty.
Answer(s, lo, ilo, hi, ihi) ==
    /\ s \in Seq(Int) /\ Len(s) \in Nat
    /\ \A i \in 1 .. Len(s) : Within(s[i], lo, ilo, hi, ihi)
    /\ \A i, j \in 1 .. Len(s) : i < j => s[i] < s[j]
    /\ \A k \in Has(db) : \A i \in 1 .. Len(s) :
           Within(k, lo, ilo, hi, ihi) /\ k <= s[i] =>
               \E j \in 1 .. Len(s) : s[j] = k
    /\ s = <<>> => \A k \in Has(db) : ~Within(k, lo, ilo, hi, ihi)

\* What a getrange answers: ascending keys of its range, none left out.
LEMMA KeysInSound ==
    ASSUME NEW lo, NEW ilo, NEW hi, NEW ihi, NEW n \in Nat \ {0}
    PROVE  Answer(KeysIn(lo, ilo, hi, ihi, n), lo, ilo, hi, ihi)
<1> DEFINE S == {k \in Has(db) : Within(k, lo, ilo, hi, ihi)}
           s == FirstOf(S, n)
<1>1. S \in SUBSET Int /\ S \subseteq Key
    <2>1. S \subseteq Key
        BY DEF Has
    <2>2. \A k \in Key : k \in Int
        BY KeyAssumption
    <2> HIDE DEF S
    <2> QED BY <2>1, <2>2
<1>2. IsFiniteSet(S)
    BY <1>1, KeyAssumption, FS_Subset
<1>3. \A k : k \in S <=> k \in Has(db) /\ Within(k, lo, ilo, hi, ihi)
    OBVIOUS
<1>4. s = KeysIn(lo, ilo, hi, ihi, n)
    BY DEF KeysIn
<1> HIDE DEF S
<1>5. /\ s \in Seq(S) /\ Len(s) \in Nat
      /\ \A i, j \in 1 .. Len(s) : i < j => s[i] < s[j]
      /\ \A k \in S : \A i \in 1 .. Len(s) :
             k <= s[i] => \E j \in 1 .. Len(s) : s[j] = k
      /\ Len(s) < n => \A k \in S : \E j \in 1 .. Len(s) : s[j] = k
    BY <1>1, <1>2, FirstOfSound
<1> HIDE DEF s
<1>6. \A i \in 1 .. Len(s) : s[i] \in S
    BY <1>5
<1>7. s \in Seq(Int)
    <2>1. \A i \in 1 .. Len(s) : s[i] \in Int
        BY <1>1, <1>6
    <2>2. s \in [1 .. Len(s) -> S]
        BY <1>5
    <2>3. s \in [1 .. Len(s) -> Int]
        BY <2>1, <2>2
    <2> QED BY <1>5, <2>3
<1>8. ASSUME s = <<>> PROVE \A k \in Has(db) : k \notin S
    BY <1>5, <1>8
<1> QED BY <1>3, <1>4, <1>5, <1>6, <1>7, <1>8 DEF Answer

\* Is key k in range r?
InR(r, k) == Within(k, r.lo, r.ilo, r.hi, r.ihi)

\* The iterator returns one more key.
LEMMA Returns ==
    ASSUME NEW f \in IterRec, NEW c \in Nat, NEW n \in Nat, NEW p \in Seq(Int)
    PROVE  [f EXCEPT !.pc = "on", !.curkey = c, !.seenkeys = n, !.out = p]
               \in IterRec
    BY DEF IterRec

\* A window w of range r that goes on where the keys o end, and leaves no
\* key of P out.
Follows(r, o, w, P) ==
    /\ r.count # KVR_COUNT_INF => Len(o) < r.count
    /\ \A j \in 1 .. Len(o) : InR(r, o[j])
    /\ \A j \in 2 .. Len(o) : o[j - 1] < o[j]
    /\ o # <<>> /\ w # <<>> => o[Len(o)] < w[1]
    /\ \A j \in 1 .. Len(w) : InR(r, w[j])
    /\ \A i, j \in 1 .. Len(w) : i < j => w[i] < w[j]
    /\ w # <<>> => \A k \in P : InR(r, k) /\ k <= w[Len(w)] =>
                       \/ \E j \in 1 .. Len(o) : o[j] = k
                       \/ \E j \in 1 .. Len(w) : w[j] = k
    /\ w = <<>> => \A k \in P : InR(r, k) => \E j \in 1 .. Len(o) : o[j] = k
    /\ P \subseteq Int

\* The iterator has got a new window w after it has returned o.
LEMMA NewWindow ==
    ASSUME NEW r \in KeyRange, NEW o \in Seq(Int), NEW w \in Seq(Int),
           NEW f \in IterRec, it' = Fetched(f),
           f.rreq = r, f.out = o, f.win = w, f.seenkeys = Len(o),
           Follows(r, o, w, present')
    PROVE  (it \in IterRec)' /\ OutInv' /\ WinInv'
<1>1. Len(o) \in Nat /\ Len(w) \in Nat
    OBVIOUS
<1>2. CASE w = <<>>
    <2>1. it' = [f EXCEPT !.pc = "bogus"]
        BY <1>2 DEF Fetched
    <2>2. /\ it' \in IterRec /\ it'.pc = "bogus" /\ it'.out = o
          /\ it'.rreq = r
        BY <2>1 DEF IterRec
    <2>3. \A k : InRange(k)' <=> InR(r, k)
        BY <2>2 DEF InRange, InR
    <2>4. \A k : Returned(k)' <=> \E j \in 1 .. Len(o) : o[j] = k
        BY <2>2 DEF Returned
    <2>5. WinInv'
        BY <2>2 DEF WinInv
    <2>6. OutInv'
        <3> SUFFICES ASSUME o # <<>>
                     PROVE  /\ r \in KeyRange
                            /\ \A j \in 1 .. Len(o) : InRange(o[j])'
                            /\ \A j \in 2 .. Len(o) : o[j - 1] < o[j]
                            /\ r.count # KVR_COUNT_INF => Len(o) <= r.count
                            /\ \A k \in present' : InRange(k)' => Returned(k)'
            BY <2>2 DEF OutInv
        <3>1. r.count # KVR_COUNT_INF => Len(o) <= r.count
            BY <1>1 DEF KeyRange, Follows
        <3>2. \A k \in present' : InRange(k)' => Returned(k)'
            BY <1>2, <2>3, <2>4 DEF Follows
        <3>3. \A j \in 1 .. Len(o) : InRange(o[j])'
            BY <2>3 DEF Follows
        <3> QED BY <3>1, <3>2, <3>3 DEF Follows
    <2> QED BY <2>2, <2>5, <2>6
<1>3. CASE w # <<>>
    <2> DEFINE p == Append(o, w[1])
    <2>1. it' = [f EXCEPT !.pc = "on", !.curkey = 0, !.seenkeys = @ + 1,
                          !.out = Append(@, f.win[1])]
        BY <1>3 DEF Fetched
    <2>0. Len(w) > 0 /\ w[1] \in Int /\ Len(w) \in 1 .. Len(w)
        BY <1>3
    <2>2. /\ p \in Seq(Int) /\ Len(p) = Len(o) + 1 /\ p[Len(p)] = w[1]
          /\ \A j \in 1 .. Len(o) : p[j] = o[j]
        BY <2>0
    <2> HIDE DEF p
    <2>3. /\ it' \in IterRec /\ it'.pc = "on" /\ it'.out = p
          /\ it'.rreq = r /\ it'.curkey = 0 /\ it'.seenkeys = Len(p)
          /\ it'.win = w
        <3>1. it' = [f EXCEPT !.pc = "on", !.curkey = 0,
                              !.seenkeys = Len(p), !.out = p]
            BY <2>1, <2>2 DEF IterRec, p
        <3>2. Len(p) \in Nat
            BY <1>1, <2>2
        <3>3. it' \in IterRec
            <4>1. \A c, n \in Nat : \A q \in Seq(Int) :
                      [f EXCEPT !.pc = "on", !.curkey = c, !.seenkeys = n,
                                !.out = q] \in IterRec
                BY Returns
            <4>2. [f EXCEPT !.pc = "on", !.curkey = 0, !.seenkeys = Len(p),
                            !.out = p] \in IterRec
                BY <2>2, <3>2, <4>1
            <4> QED BY <3>1, <4>2
        <3>4. it'.pc = "on" /\ it'.out = p /\ it'.seenkeys = Len(p)
            BY <3>1 DEF IterRec
        <3>5. it'.rreq = r /\ it'.curkey = 0 /\ it'.win = w
            BY <3>1 DEF IterRec
        <3> QED BY <3>3, <3>4, <3>5
    <2>4. \A k : InRange(k)' <=> InR(r, k)
        BY <2>3 DEF InRange, InR
    <2>5. \A k : Returned(k)' <=>
              k = w[1] \/ \E j \in 1 .. Len(o) : o[j] = k
        <3>1. \A k : Returned(k)' <=> \E j \in 1 .. Len(p) : p[j] = k
            BY <2>3 DEF Returned
        <3>2. \A j \in 1 .. Len(p) : j = Len(p) \/ j \in 1 .. Len(o)
            BY <1>1, <2>2
        <3>3. /\ Len(p) \in 1 .. Len(p)
              /\ \A j \in 1 .. Len(o) : j \in 1 .. Len(p)
            BY <1>1, <2>2
        <3> QED BY <2>2, <3>1, <3>2, <3>3
    <2>6. \A k : ToCome(k)' <=> \E j \in 1 .. Len(w) : j > 1 /\ w[j] = k
        BY <2>3 DEF ToCome
    <2>7. \A k \in present' : InR(r, k) /\ k <= w[Len(w)] =>
              Returned(k)' \/ ToCome(k)'
        <3>1. \A j \in 1 .. Len(w) : j = 1 \/ j > 1
            BY <1>1
        <3> QED BY <1>3, <2>5, <2>6, <3>1 DEF Follows
    <2>8. WinInv'
        <3>1. /\ p # <<>> /\ 0 \in 0 .. Len(w) - 1
              /\ p[Len(p)] = w[0 + 1]
            BY <1>1, <2>0, <2>2
        <3>2. /\ \A j \in 1 .. Len(w) : InRange(w[j])'
              /\ \A i, j \in 1 .. Len(w) : i < j => w[i] < w[j]
            BY <2>4 DEF Follows
        <3>3. \A k \in present' : InRange(k)' /\ k <= w[Len(w)] =>
                  Returned(k)' \/ ToCome(k)'
            BY <2>4, <2>7
        <3> QED BY <2>3, <3>1, <3>2, <3>3 DEF WinInv
    <2>9. ASSUME NEW k \in present', InR(r, k), k <= w[1] PROVE Returned(k)'
        <3>0. k \in Int /\ 1 \in 1 .. Len(w) /\ \A j \in 1 .. Len(w) : w[j] \in Int
            BY <2>0 DEF Follows
        <3>1. w[Len(w)] \in Int /\ w[1] <= w[Len(w)]
            <4>1. CASE Len(w) = 1
                BY <2>0, <4>1
            <4>2. CASE Len(w) > 1
                <5>1. w[1] < w[Len(w)]
                    BY <2>0, <3>0, <4>2 DEF Follows
                <5> QED BY <2>0, <3>0, <5>1
            <4> QED BY <1>1, <2>0, <4>1, <4>2
        <3>2. k <= w[Len(w)]
            BY <2>0, <2>9, <3>0, <3>1
        <3>3. ASSUME NEW j \in 1 .. Len(w), j > 1, w[j] = k PROVE FALSE
            <4>1. w[1] < w[j]
                BY <3>0, <3>3 DEF Follows
            <4> QED BY <2>0, <2>9, <3>0, <3>3, <4>1
        <3> QED BY <2>6, <2>7, <2>9, <3>2, <3>3
    <2>10. ASSUME NEW j \in 1 .. Len(p) PROVE InR(r, p[j])
        <3>1. j = Len(p) \/ j \in 1 .. Len(o)
            BY <1>1, <2>2
        <3>2. 1 \in 1 .. Len(w)
            BY <2>0
        <3> QED BY <2>2, <3>1, <3>2 DEF Follows
    <2>11. ASSUME NEW j \in 2 .. Len(p) PROVE p[j - 1] < p[j]
        <3>1. CASE j = Len(p)
            <4>1. Len(o) > 0 /\ o # <<>> /\ j - 1 \in 1 .. Len(o) /\ j - 1 = Len(o)
                BY <1>1, <2>2, <3>1
            <4>2. p[j - 1] = o[Len(o)] /\ p[j] = w[1]
                BY <2>2, <3>1, <4>1
            <4> QED BY <1>3, <4>1, <4>2 DEF Follows
        <3>2. CASE j # Len(p)
            <4>1. j \in 2 .. Len(o) /\ j \in 1 .. Len(o) /\ j - 1 \in 1 .. Len(o)
                BY <1>1, <2>2, <3>2
            <4> QED BY <2>2, <4>1 DEF Follows
        <3> QED BY <3>1, <3>2
    <2>12. r.count # KVR_COUNT_INF => Len(p) <= r.count
        BY <1>1, <2>2 DEF KeyRange, Follows
    <2>13. OutInv'
        BY <2>2, <2>3, <2>4, <2>9, <2>10, <2>11, <2>12 DEF OutInv
    <2> QED BY <2>3, <2>8, <2>13
<1> QED BY <1>2, <1>3

\* A getrange asks for at least one key.
LEMMA WindowType ==
    ASSUME NEW left \in Int, left = KVR_COUNT_INF \/ left > 0
    PROVE  Window(left) \in Nat \ {0}
    BY IterAssumption DEF Window

\* Keys are integers.
LEMMA PresentInt ==
    ASSUME NEW P, NEW m, P \subseteq Has(m)
    PROVE  P \subseteq Int
    BY KeyAssumption DEF Has

\* ki_start fetches the first window.
LEMMA ki_startInv ==
    ASSUME IterInv, NEW kr \in Ranges, ki_start(kr)
    PROVE  IterInv'
<1> DEFINE w == KeysIn(kr.lo, kr.ilo, kr.hi, kr.ihi, Window(kr.count))
           f == [NoIter EXCEPT !.rreq = kr, !.start = kr.lo,
                               !.istart = kr.ilo, !.win = w]
<1>1. kr \in KeyRange
    BY IterAssumption
<1>2. /\ kr.lo \in Int /\ kr.ilo \in BOOLEAN /\ kr.hi \in Int
      /\ kr.ihi \in BOOLEAN /\ kr.count \in Int
      /\ kr.count = KVR_COUNT_INF \/ kr.count >= 0
    BY <1>1 DEF KeyRange, KVR_COUNT_INF
<1>3. kr.count # 0 /\ it' = Fetched(f) /\ present' = Has(db) /\ db' = db
    BY DEF ki_start
<1>4. Window(kr.count) \in Nat \ {0}
    BY <1>2, <1>3, WindowType
<1>5. /\ w \in Seq(Int) /\ Len(w) \in Nat
      /\ \A i \in 1 .. Len(w) : InR(kr, w[i])
      /\ \A i, j \in 1 .. Len(w) : i < j => w[i] < w[j]
      /\ \A k \in Has(db) : \A i \in 1 .. Len(w) :
             InR(kr, k) /\ k <= w[i] => \E j \in 1 .. Len(w) : w[j] = k
      /\ w = <<>> => \A k \in Has(db) : ~InR(kr, k)
    <2>1. Answer(w, kr.lo, kr.ilo, kr.hi, kr.ihi)
        BY <1>4, KeysInSound
    <2> HIDE DEF w
    <2> QED BY <2>1 DEF InR, Answer
<1>6. Has(db) \subseteq Int
    BY PresentInt
<1> HIDE DEF w
<1>7. /\ f \in IterRec /\ f.rreq = kr /\ f.out = <<>> /\ f.win = w
      /\ f.seenkeys = Len(<<>>)
    <2>1. NoIter \in IterRec /\ NoIter.out = <<>> /\ NoIter.seenkeys = 0
        BY DEF IterRec, NoIter
    <2>2. f \in IterRec
        BY <1>1, <1>2, <1>5, <2>1 DEF IterRec
    <2>3. f.rreq = kr /\ f.win = w /\ f.out = <<>> /\ f.seenkeys = 0
        BY <2>1 DEF IterRec
    <2> QED BY <2>2, <2>3
<1> HIDE DEF f
<1>8. Follows(kr, <<>>, w, present')
    <2>1. w # <<>> => Len(w) \in 1 .. Len(w)
        BY <1>5
    <2>2. kr.count # KVR_COUNT_INF => Len(<<>>) < kr.count
        BY <1>2, <1>3
    <2> QED BY <1>3, <1>5, <1>6, <2>1, <2>2 DEF Follows
<1>9. <<>> \in Seq(Int)
    OBVIOUS
<1>10. (it \in IterRec)' /\ OutInv' /\ WinInv'
    BY <1>1, <1>3, <1>5, <1>7, <1>8, <1>9, NewWindow
<1>11. Has(db') = Has(db)
    BY <1>3
<1> QED BY <1>3, <1>10, <1>11 DEF IterInv, Has

\* ki_next at the end of the window fetches the next.
LEMMA NextWindowInv ==
    ASSUME IterInv, NextWindow
    PROVE  IterInv'
<1> DEFINE r == it.rreq
           o == it.out
           last == it.win[Len(it.win)]
           left == IF r.count = KVR_COUNT_INF THEN KVR_COUNT_INF
                   ELSE r.count - it.seenkeys
           w == KeysIn(last, FALSE, r.hi, r.ihi, Window(left))
           f == [it EXCEPT !.start = last, !.istart = FALSE, !.win = w]
<1>1. /\ it.pc = "on" /\ it \in IterRec /\ present \subseteq Has(db)
      /\ r.count = KVR_COUNT_INF \/ it.seenkeys < r.count
      /\ it.curkey + 1 >= Len(it.win)
      /\ it' = Fetched(f) /\ present' = present /\ db' = db
    BY DEF NextWindow, More, storevars, IterInv
<1>2. /\ o # <<>> /\ r \in KeyRange
      /\ \A j \in 1 .. Len(o) : InRange(o[j])
      /\ \A j \in 2 .. Len(o) : o[j - 1] < o[j]
    BY <1>1 DEF IterInv, OutInv, WinInv
<1>3. /\ it.curkey \in 0 .. Len(it.win) - 1
      /\ \A j \in 1 .. Len(it.win) : InRange(it.win[j])
      /\ o[Len(o)] = it.win[it.curkey + 1]
      /\ it.seenkeys = Len(o)
      /\ \A k \in present :
             InRange(k) /\ k <= last => Returned(k) \/ ToCome(k)
    BY <1>1 DEF IterInv, WinInv
<1>4. /\ o \in Seq(Int) /\ it.win \in Seq(Int)
      /\ Len(o) \in Nat /\ Len(it.win) \in Nat
    BY <1>1 DEF IterRec
<1>5. /\ it.curkey + 1 = Len(it.win) /\ o[Len(o)] = last
      /\ Len(it.win) \in 1 .. Len(it.win)
    BY <1>1, <1>3, <1>4
<1>6. last \in Int /\ InR(r, last)
    BY <1>3, <1>4, <1>5 DEF InRange, InR
<1>7. \A k \in present : InR(r, k) /\ k <= last =>
          \E j \in 1 .. Len(o) : o[j] = k
    <2>1. \A k : ~ToCome(k)
        BY <1>4, <1>5 DEF ToCome
    <2> QED BY <1>3, <2>1 DEF InRange, InR, Returned
<1>8. /\ r.lo \in Int /\ r.ilo \in BOOLEAN /\ r.hi \in Int
      /\ r.ihi \in BOOLEAN /\ r.count \in Int
    BY <1>2 DEF KeyRange, KVR_COUNT_INF
<1>9. Window(left) \in Nat \ {0}
    <2>1. left \in Int /\ (left = KVR_COUNT_INF \/ left > 0)
        BY <1>1, <1>3, <1>4, <1>8 DEF KVR_COUNT_INF
    <2> HIDE DEF left
    <2> QED BY <2>1, WindowType
<1>10. \A k \in Int : Within(k, last, FALSE, r.hi, r.ihi) <=>
                          InR(r, k) /\ last < k
    BY <1>6, <1>8 DEF Within, InR
<1>11. /\ w \in Seq(Int) /\ Len(w) \in Nat
       /\ \A i \in 1 .. Len(w) : Within(w[i], last, FALSE, r.hi, r.ihi)
       /\ \A i, j \in 1 .. Len(w) : i < j => w[i] < w[j]
       /\ \A k \in Has(db) : \A i \in 1 .. Len(w) :
              Within(k, last, FALSE, r.hi, r.ihi) /\ k <= w[i] =>
                  \E j \in 1 .. Len(w) : w[j] = k
       /\ w = <<>> =>
              \A k \in Has(db) : ~Within(k, last, FALSE, r.hi, r.ihi)
    <2> HIDE DEF left, last, r
    <2>1. Answer(w, last, FALSE, r.hi, r.ihi)
        BY <1>9, KeysInSound
    <2> HIDE DEF w
    <2> QED BY <2>1 DEF Answer
<1> HIDE DEF w
<1>12. present \subseteq Int /\ \A k \in present : k \in Int /\ k \in Has(db)
    BY <1>1, PresentInt
<1>13. /\ f \in IterRec /\ f.rreq = r /\ f.out = o /\ f.win = w
       /\ f.seenkeys = Len(o)
    BY <1>1, <1>3, <1>6, <1>11 DEF IterRec
<1> HIDE DEF f, last, r, o, left
<1>14. Follows(r, o, w, present')
    <2>1. r.count # KVR_COUNT_INF => Len(o) < r.count
        BY <1>1, <1>3 DEF r
    <2>2. \A j \in 1 .. Len(o) : InR(r, o[j])
        BY <1>2 DEF InRange, InR, r
    <2>3. \A j \in 1 .. Len(w) : w[j] \in Int /\ InR(r, w[j]) /\ last < w[j]
        <3>1. \A j \in 1 .. Len(w) : w[j] \in Int
            BY <1>11
        <3> QED BY <1>10, <1>11, <3>1
    <2>4. w # <<>> => 1 \in 1 .. Len(w) /\ Len(w) \in 1 .. Len(w)
        BY <1>11
    <2>5. ASSUME NEW k \in present, InR(r, k),
                 \/ w # <<>> /\ k <= w[Len(w)]
                 \/ w = <<>>
          PROVE  \/ \E j \in 1 .. Len(o) : o[j] = k
                 \/ w # <<>> /\ \E j \in 1 .. Len(w) : w[j] = k
        <3>1. CASE k <= last
            BY <1>7, <2>5, <3>1
        <3>2. CASE ~(k <= last)
            <4>1. Within(k, last, FALSE, r.hi, r.ihi)
                <5>1. k \in Int
                    BY <1>12
                <5>2. last < k
                    BY <1>6, <3>2, <5>1
                <5> QED BY <1>10, <2>5, <5>1, <5>2
            <4> QED BY <1>11, <1>12, <2>4, <2>5, <4>1
        <3> QED BY <3>1, <3>2
    <2> QED
        BY <1>1, <1>2, <1>5, <1>11, <1>12, <2>1, <2>2, <2>3, <2>4, <2>5
        DEF Follows
<1>15. (it \in IterRec)' /\ OutInv' /\ WinInv'
    BY <1>1, <1>2, <1>4, <1>11, <1>13, <1>14, NewWindow DEF o
<1> QED BY <1>1, <1>15 DEF IterInv, Has

\* ki_next inside the window returns the next key of it.
LEMMA NextInWindowInv ==
    ASSUME IterInv, NextInWindow
    PROVE  IterInv'
<1> DEFINE w == it.win
           o == it.out
           c == it.curkey
           p == Append(o, w[c + 2])
<1>1. /\ it.pc = "on" /\ it \in IterRec /\ present \subseteq Has(db)
      /\ it.rreq.count = KVR_COUNT_INF \/ it.seenkeys < it.rreq.count
      /\ c + 1 < Len(w) /\ present' = present /\ db' = db
      /\ it' = [it EXCEPT !.curkey = @ + 1, !.seenkeys = @ + 1,
                          !.out = Append(@, it.win[it.curkey + 2])]
    BY DEF NextInWindow, More, storevars, IterInv
<1>2. /\ o # <<>> /\ it.rreq \in KeyRange
      /\ \A j \in 1 .. Len(o) : InRange(o[j])
      /\ \A j \in 2 .. Len(o) : o[j - 1] < o[j]
    BY <1>1 DEF IterInv, OutInv, WinInv
<1>3. /\ c \in 0 .. Len(w) - 1
      /\ \A j \in 1 .. Len(w) : InRange(w[j])
      /\ \A i, j \in 1 .. Len(w) : i < j => w[i] < w[j]
      /\ o[Len(o)] = w[c + 1] /\ it.seenkeys = Len(o)
      /\ \A k \in present :
             InRange(k) /\ k <= w[Len(w)] => Returned(k) \/ ToCome(k)
    BY <1>1 DEF IterInv, WinInv
<1>4. /\ o \in Seq(Int) /\ w \in Seq(Int) /\ Len(o) \in Nat /\ Len(w) \in Nat
    BY <1>1 DEF IterRec
<1>5. /\ c + 1 \in 1 .. Len(w) /\ c + 2 \in 1 .. Len(w)
      /\ Len(w) \in 1 .. Len(w) /\ Len(o) > 0 /\ c \in Nat
      /\ \A j \in 1 .. Len(w) : w[j] \in Int
    <2>1. \A j \in 1 .. Len(w) : w[j] \in Int
        BY <1>4
    <2>2. Len(o) > 0
        BY <1>2, <1>4
    <2> HIDE DEF w, c
    <2> QED BY SMTT(60), <1>1, <1>3, <1>4, <2>1, <2>2
<1>6. w[c + 1] < w[c + 2]
    BY <1>3, <1>5
<1>7. /\ p \in Seq(Int) /\ Len(p) = Len(o) + 1 /\ p[Len(p)] = w[c + 2]
      /\ \A j \in 1 .. Len(o) : p[j] = o[j]
    <2>1. PICK e, q : e = w[c + 2] /\ q = p
        OBVIOUS
    <2>2. o \in Seq(Int) /\ e \in Int /\ q = Append(o, e)
        BY <1>4, <1>5, <2>1
    <2>3. /\ q \in Seq(Int) /\ Len(q) = Len(o) + 1 /\ q[Len(o) + 1] = e
          /\ \A j \in 1 .. Len(o) : q[j] = o[j]
        BY <2>2, AppendProperties
    <2> HIDE DEF p
    <2> QED
        BY <2>1, <2>3
<1>8. it' = [it EXCEPT !.curkey = c + 1, !.seenkeys = Len(p), !.out = p]
    BY <1>1, <1>3, <1>7 DEF IterRec
<1> HIDE DEF p
<1>9. /\ it' \in IterRec /\ it'.pc = "on" /\ it'.win = w
      /\ it'.curkey = c + 1 /\ it'.seenkeys = Len(p) /\ it'.out = p
      /\ it'.rreq = it.rreq
    <2>1. c + 1 \in Nat /\ Len(p) \in Nat
        BY SMTT(60), <1>4, <1>5, <1>7
    <2>2. it' \in IterRec
        BY <1>1, <1>7, <1>8, <2>1 DEF IterRec
    <2>3. /\ it'.pc = "on" /\ it'.win = w /\ it'.curkey = c + 1
          /\ it'.seenkeys = Len(p) /\ it'.out = p /\ it'.rreq = it.rreq
        BY <1>1, <1>8 DEF IterRec
    <2> QED BY <2>2, <2>3
<1>10. \A k : InRange(k)' <=> InRange(k)
    BY <1>9 DEF InRange
<1>11. \A j \in 1 .. Len(p) : j = Len(p) \/ j \in 1 .. Len(o)
    BY <1>4, <1>7
<1>12. /\ Len(p) \in 1 .. Len(p) /\ p # <<>>
       /\ \A j \in 1 .. Len(o) : j \in 1 .. Len(p)
    BY <1>4, <1>7
<1>13. \A k : Returned(k)' <=> Returned(k) \/ k = w[c + 2]
    BY <1>7, <1>9, <1>11, <1>12 DEF Returned
<1>14. \A k : ToCome(k) => ToCome(k)' \/ k = w[c + 2]
    <2>1. \A j \in 1 .. Len(w) : j > c + 1 => j = c + 2 \/ j > (c + 1) + 1
        BY <1>4, <1>5
    <2> QED BY <1>9, <2>1 DEF ToCome
<1>15. \A k \in present' : InRange(k)' /\ k <= w[Len(w)] =>
           Returned(k)' \/ ToCome(k)'
    BY <1>1, <1>3, <1>10, <1>13, <1>14
<1>16. WinInv'
    <2>1. c + 1 \in 0 .. Len(w) - 1
        BY <1>1, <1>4, <1>5
    <2>2. (c + 1) + 1 = c + 2
        BY <1>5
    <2> QED BY <1>3, <1>7, <1>9, <1>10, <1>12, <1>15, <2>1, <2>2 DEF WinInv
<1>17. ASSUME NEW k \in present', InRange(k)', k <= w[c + 2]
       PROVE  Returned(k)'
    <2>1. k \in Int
        BY <1>1, KeyAssumption DEF Has
    <2>2. w[c + 2] <= w[Len(w)]
        <3>1. CASE c + 2 = Len(w)
            BY <1>5, <3>1
        <3>2. CASE c + 2 < Len(w)
            <4>1. w[c + 2] < w[Len(w)]
                BY <1>3, <1>5, <3>2
            <4>2. w[c + 2] \in Int /\ w[Len(w)] \in Int
                BY <1>5
            <4> QED BY <4>1, <4>2
        <3> QED BY <1>4, <1>5, <3>1, <3>2
    <2>3. k <= w[Len(w)]
        <3>1. w[c + 2] \in Int /\ w[Len(w)] \in Int
            BY <1>5
        <3> HIDE DEF w, c
        <3> QED BY <1>17, <2>1, <2>2, <3>1
    <2>4. ASSUME NEW j \in 1 .. Len(w), j > (c + 1) + 1, w[j] = k PROVE FALSE
        <3>1. w[c + 2] < w[j]
            BY SMTT(60), <1>3, <1>5, <2>4
        <3> QED BY <1>5, <1>17, <2>1, <2>4, <3>1
    <2> QED BY <1>9, <1>15, <1>17, <2>3, <2>4 DEF ToCome
<1>18. \A j \in 1 .. Len(p) : InR(it.rreq, p[j])
    <2>1. InRange(p[Len(p)])
        BY <1>3, <1>5, <1>7
    <2>2. \A j \in 1 .. Len(o) : InRange(p[j])
        BY <1>2, <1>7
    <2> QED BY <1>11, <2>1, <2>2 DEF InRange, InR
<1>19. ASSUME NEW j \in 2 .. Len(p) PROVE p[j - 1] < p[j]
    <2>1. CASE j = Len(p)
        <3>1. j - 1 = Len(o) /\ j - 1 \in 1 .. Len(o)
            BY <1>4, <1>5, <1>7, <2>1
        <3> QED BY <1>3, <1>6, <1>7, <2>1, <3>1
    <2>2. CASE j # Len(p)
        <3>1. j \in 2 .. Len(o) /\ j \in 1 .. Len(o) /\ j - 1 \in 1 .. Len(o)
            BY SMTT(60), <1>4, <1>7, <2>2
        <3> QED BY <1>2, <1>7, <3>1
    <2> QED BY <2>1, <2>2
<1>20. it.rreq.count # KVR_COUNT_INF => Len(p) <= it.rreq.count
    <2>1. it.rreq.count \in Int
        BY <1>2 DEF KeyRange, KVR_COUNT_INF
    <2>2. it.rreq.count # KVR_COUNT_INF => Len(o) < it.rreq.count
        BY <1>1, <1>3
    <2> HIDE DEF o
    <2> QED BY <1>4, <1>7, <2>1, <2>2
<1>21. OutInv'
    <2> SUFFICES ASSUME TRUE
                 PROVE  /\ it.rreq \in KeyRange
                        /\ \A j \in 1 .. Len(p) : InR(it.rreq, p[j])
                        /\ \A j \in 2 .. Len(p) : p[j - 1] < p[j]
                        /\ it.rreq.count # KVR_COUNT_INF =>
                               Len(p) <= it.rreq.count
                        /\ \A k \in present' :
                               InRange(k)' /\ k <= p[Len(p)] => Returned(k)'
        BY <1>9 DEF OutInv, InRange, InR
    <2> QED BY <1>2, <1>7, <1>17, <1>18, <1>19, <1>20
<1> QED BY <1>1, <1>9, <1>16, <1>21 DEF IterInv, Has

\* A step that leaves the iterator as it is, or ends it, and takes keys away
\* from those that were there all the time.
LEMMA IterKept ==
    ASSUME IterInv, it' = it \/ it' = [it EXCEPT !.pc = "end"],
           present' \subseteq present, present' \subseteq Has(db')
    PROVE  IterInv'
<1>1. it \in IterRec /\ OutInv /\ WinInv
    BY DEF IterInv
<1>2. /\ it' \in IterRec /\ it'.out = it.out /\ it'.rreq = it.rreq
      /\ it' = it \/ it'.pc = "end"
    BY <1>1 DEF IterRec
<1>3. /\ \A k : InRange(k)' <=> InRange(k)
      /\ \A k : Returned(k)' <=> Returned(k)
    BY <1>2 DEF InRange, Returned
<1>4. OutInv'
    BY <1>1, <1>2, <1>3 DEF OutInv
<1>5. WinInv'
    <2>1. CASE it' = it
        <3>1. \A k : ToCome(k)' <=> ToCome(k)
            BY <2>1 DEF ToCome
        <3> QED BY <1>1, <1>3, <2>1, <3>1 DEF WinInv
    <2>2. CASE it'.pc = "end"
        BY <2>2 DEF WinInv
    <2> QED BY <1>2, <2>1, <2>2
<1> QED BY <1>2, <1>4, <1>5 DEF IterInv

\* No step of the iterator breaks its invariant.
LEMMA IterNextInv ==
    ASSUME IterInv, IterNext
    PROVE  IterInv'
<1>1. CASE \E kr \in Ranges : ki_start(kr)
    BY <1>1, ki_startInv
<1>2. CASE StartFails \/ NextDone \/ NextFails
    <2>1. /\ it' = [it EXCEPT !.pc = "end"] /\ present' = present /\ db' = db
        BY <1>2 DEF StartFails, NextDone, NextFails, Stops, storevars
    <2>2. present' \subseteq Has(db')
        BY <2>1 DEF IterInv, Has
    <2> QED BY <2>1, <2>2, IterKept
<1>3. CASE NextInWindow
    BY <1>3, NextInWindowInv
<1>4. CASE NextWindow
    BY <1>4, NextWindowInv
<1>5. CASE Restart
    <2>1. it' = NoIter /\ present' = {}
        BY <1>5 DEF Restart
    <2> QED BY <2>1 DEF IterInv, IterRec, OutInv, WinInv, NoIter
<1> QED BY <1>1, <1>2, <1>3, <1>4, <1>5 DEF IterNext

----------------------------------------------------------------------------
\* The inductive invariant of the basic key/value layer.

MultiOps == {"putn", "getn", "deln"}
CallRec == [op : MultiOps \cup {"none", "put", "get", "del", "exists"},
            w : Nat, n : Nat, vlen : Nat, i : Nat, got : Seq(PartRec),
            rc : Int, clean : BOOLEAN]

ValueType ==
    /\ db \in [Key -> PartRec]
    /\ before \in [Key -> PartRec]
    /\ cl \in [Client -> CallRec]
    /\ calls \in Nat
    /\ good \in [w : Nat, n : Nat, vlen : Nat]

\* A call that is going on is a multi-key call, with parts left.
BusyInv ==
    \A c \in Client : Busy(c) =>
        /\ cl[c].op \in MultiOps
        /\ cl[c].i < cl[c].n /\ cl[c].n <= BKV_N_MAXKEYS
        /\ cl[c].op = "putn" =>
               cl[c].vlen > 0 /\ cl[c].n = NumKeys(cl[c].vlen)

\* While a value is written no value is known to be whole.
WriterInv == \A c \in Client : Writing(c) => good = NoValue

\* A put that goes on or has failed, and that nobody has disturbed.
Putting(c) == cl[c].op = "putn" /\ cl[c].rc \in {0, -1} /\ cl[c].clean

AloneInv == \A c, d \in Client : Putting(c) /\ Writing(d) => c = d

PutInv ==
    \A c \in Client : Putting(c) =>
        \A k \in 0 .. BKV_N_MAXKEYS - 1 :
            /\ k < cl[c].i => db[k] = Part(cl[c].w, cl[c].vlen, cl[c].n, k)
            /\ k > cl[c].i => db[k] = before[k]

\* The parts of the value that is known to be whole are in the store.
GoodInv ==
    good # NoValue =>
        /\ good.vlen > 0 /\ good.n = NumKeys(good.vlen)
        /\ good.n <= BKV_N_MAXKEYS
        /\ \A k \in 0 .. good.n - 1 :
               db[k] = Part(good.w, good.vlen, good.n, k)

\* A get that has not failed, of the value that is known to be whole.
Getting(c) == cl[c].op = "getn" /\ cl[c].rc >= 0 /\ cl[c].clean

GetInv ==
    \A c \in Client : Getting(c) =>
        /\ good # NoValue /\ cl[c].n = good.n
        /\ Len(cl[c].got) = cl[c].i
        /\ cl[c].rc > 0 => cl[c].i = cl[c].n
        /\ \A j \in 1 .. cl[c].i :
               cl[c].got[j] = Part(good.w, good.vlen, good.n, j - 1)

\* A put or delete that is under way after its call has failed: the call that
\* made it, its key and its value.
LateRec == [w : Nat, k : Key, v : PartRec]

\* What is still under way was sent by earlier calls.  Of those a put that
\* nobody has disturbed has at most its own last part under way.
LateInv ==
    /\ late \subseteq LateRec
    /\ \A u \in late : 0 < u.w /\ u.w <= calls
    /\ \A c \in Client : Writing(c) => 0 < cl[c].w /\ cl[c].w <= calls
    /\ \A c \in Client : Getting(c) => cl[c].w = 0
    /\ \A c \in Client : \A u \in late :
           Putting(c) /\ u.w = cl[c].w /\ u.k # Plain =>
               u.k = cl[c].i /\ cl[c].rc = -1

ValueInv ==
    /\ ValueType
    /\ BusyInv
    /\ WriterInv
    /\ AloneInv
    /\ PutInv
    /\ GoodInv
    /\ GetInv
    /\ LateInv

\* A client that has not called yet.
LEMMA NoCallType == NoCall \in CallRec
    BY DEF NoCall, CallRec, MultiOps

\* At first nothing is stored and no call is made.
LEMMA ValueInit == Init => ValueInv
<1> SUFFICES ASSUME Init PROVE ValueInv
    OBVIOUS
<1>1. /\ cl = [c \in Client |-> NoCall] /\ calls = 0 /\ good = NoValue
      /\ before = db /\ late = {}
    BY DEF Init, BkvInit, StoreInit
<1>2. db \in [Key -> PartRec]
    <2>1. PICK st \in Stored :
              db = [k \in Key |-> IF k \in st THEN Old(k) ELSE Absent]
        BY DEF Init, StoreInit
    <2>2. \A k \in Key : Old(k) \in PartRec /\ Absent \in PartRec
        BY KeyAssumption DEF Old, Absent, PartRec
    <2> QED BY <2>1, <2>2
<1>3. \A c \in Client : cl[c] = NoCall
    BY <1>1
<1>4. \A c \in Client : ~Busy(c) /\ ~Writing(c) /\ ~Putting(c) /\ ~Getting(c)
    BY <1>3 DEF Busy, Writing, Putting, Getting, NoCall
<1>5. ValueType
    BY <1>1, <1>2, NoCallType DEF ValueType, NoValue
<1> QED
    BY <1>1, <1>4, <1>5
    DEF ValueInv, BusyInv, WriterInv, AloneInv, PutInv, GoodInv, GetInv,
        LateInv

\* The invariant of the layer implies ValuesExact.
LEMMA ValuesExactFollows == ValueInv => ValuesExact
<1> SUFFICES ASSUME ValueInv PROVE ValuesExact
    OBVIOUS
<1>1. cl \in [Client -> CallRec] /\ good \in [w : Nat, n : Nat, vlen : Nat]
    BY DEF ValueInv, ValueType
<1>2. ASSUME NEW c \in Client,
             cl[c].op = "getn", cl[c].rc > 0, cl[c].clean
      PROVE  cl[c].got = Parts(good) /\ Length(cl[c].got) = good.vlen
    <2>0. cl[c] \in CallRec
        BY <1>1
    <2>1. Getting(c)
        BY <1>2, <2>0 DEF Getting, CallRec
    <2>2. /\ good # NoValue /\ Len(cl[c].got) = good.n
          /\ \A j \in 1 .. good.n :
                 cl[c].got[j] = Part(good.w, good.vlen, good.n, j - 1)
        BY <1>2, <2>1 DEF ValueInv, GetInv
    <2>3. good.vlen > 0 /\ good.n = NumKeys(good.vlen)
        BY <2>2 DEF ValueInv, GoodInv
    <2>4. cl[c].got \in Seq(PartRec) /\ good.n \in Nat /\ good.vlen \in Nat
        BY <1>1, <2>0 DEF CallRec
    <2>5. cl[c].got = [j \in 1 .. good.n |-> cl[c].got[j]]
        BY <2>2, <2>4
    <2>6. cl[c].got = Parts(good)
        BY <2>2, <2>5 DEF Parts
    <2>7. Length(Parts(good)) = good.vlen
        BY <2>3, <2>4, PartsLength
    <2> QED BY <2>6, <2>7
<1>3. ASSUME NEW c \in Client,
             cl[c].op = "putn", cl[c].rc = -1, cl[c].clean
      PROVE  Putting(c)
    BY <1>3 DEF Putting
<1>4. PutInv
    BY DEF ValueInv
<1> QED BY <1>2, <1>3, <1>4 DEF ValuesExact, PutInv

\* Every part is a record of the store.
LEMMA PartType ==
    ASSUME NEW w \in Nat, NEW vlen \in Nat, NEW n \in Nat, NEW k \in Nat
    PROVE  Part(w, vlen, n, k) \in PartRec
<1>1. VALLEN \in Nat \ {0}
    BY BasicKVAssumption
<1>2. vlen % VALLEN \in Nat
    BY <1>1, DivMod
<1>3. PartLen(vlen, n, k) \in Nat
    BY <1>1, <1>2 DEF PartLen
<1> QED BY <1>3 DEF Part, PartRec

\* A put or delete of one key, in whatever way it ends.
LEMMA UpdateIs ==
    ASSUME NEW w \in Nat, NEW k \in Key, NEW v \in PartRec, NEW ok \in BOOLEAN,
           db \in [Key -> PartRec], present \subseteq Has(db),
           Update(w, k, v, ok)
    PROVE  /\ db' \in [Key -> PartRec]
           /\ \A j \in Key : j # k => db'[j] = db[j]
           /\ ok => db'[k] = v
           /\ present' \subseteq present /\ present' \subseteq Has(db')
           /\ \A u \in late' :
                  u \in late \/ (~ok /\ u = [w |-> w, k |-> k, v |-> v])
<1>1. CASE ok /\ Store(k, v) /\ UNCHANGED late
    BY <1>1 DEF Store
<1>2. CASE /\ ~ok /\ UNCHANGED <<db, present>>
           /\ late' \in {late, late \cup {[w |-> w, k |-> k, v |-> v]}}
    BY <1>2 DEF Has
<1> QED BY <1>1, <1>2 DEF Update

\* What the invariant says of a client depends on its record alone.
LEMMA SameClient ==
    ASSUME NEW d, cl'[d] = cl[d]
    PROVE  /\ Busy(d)' <=> Busy(d)
           /\ Writing(d)' <=> Writing(d)
           /\ Putting(d)' <=> Putting(d)
           /\ Getting(d)' <=> Getting(d)
    BY DEF Busy, Writing, Putting, Getting

\* The one-key calls.
LEMMA OneInv ==
    ASSUME ValueInv, NEW c \in Client, NEW op, NEW rc, NEW got,
           One(c, op, rc, got),
           op \in {"put", "get", "del", "exists"}, rc \in Int \ {0},
           got \in Seq(PartRec), db' \in [Key -> PartRec],
           \A k \in 0 .. BKV_N_MAXKEYS - 1 : db'[k] = db[k],
           \A u \in late' : u \in late \/ (/\ u \in LateRec /\ u.k = Plain
                                          /\ u.w = calls + 1)
    PROVE  ValueInv'
<1> DEFINE new == [NoCall EXCEPT !.op = op, !.got = got, !.rc = rc]
<1>1. /\ calls' = calls + 1 /\ cl' = [cl EXCEPT ![c] = new]
      /\ good' = good /\ before' = before
    BY DEF One
<1>2. ValueType
    BY DEF ValueInv
<1>3. /\ new \in CallRec /\ new.op = op /\ new.rc = rc
      /\ new.clean = FALSE
    <2>1. NoCall \in CallRec /\ NoCall.clean = FALSE
        BY NoCallType DEF NoCall
    <2> QED BY <2>1 DEF CallRec
<1> HIDE DEF new
<1>4. /\ cl' \in [Client -> CallRec] /\ cl'[c] = new
      /\ \A d \in Client \ {c} : cl'[d] = cl[d]
    BY <1>1, <1>2, <1>3 DEF ValueType
<1>5. ~Busy(c)' /\ ~Writing(c)' /\ ~Putting(c)' /\ ~Getting(c)'
    BY <1>3, <1>4 DEF Busy, Writing, Putting, Getting
<1>6. \A d \in Client \ {c} :
          /\ Busy(d)' <=> Busy(d)
          /\ Writing(d)' <=> Writing(d)
          /\ Putting(d)' <=> Putting(d)
          /\ Getting(d)' <=> Getting(d)
    BY <1>4, SameClient
<1>7. ValueType'
    BY <1>1, <1>2, <1>4 DEF ValueType
<1>8. BusyInv'
    BY <1>4, <1>5, <1>6 DEF ValueInv, BusyInv
<1>9. WriterInv'
    BY <1>1, <1>5, <1>6 DEF ValueInv, WriterInv
<1>10. AloneInv'
    BY <1>5, <1>6 DEF ValueInv, AloneInv
<1>11. PutInv'
    BY <1>1, <1>4, <1>5, <1>6 DEF ValueInv, PutInv
<1>12. GoodInv'
    <2> SUFFICES ASSUME good # NoValue PROVE GoodInv'
        BY <1>1 DEF GoodInv
    <2>1. GoodInv
        BY DEF ValueInv
    <2>2. good.n \in Nat /\ good.n <= BKV_N_MAXKEYS /\ BKV_N_MAXKEYS \in Nat
        BY <1>2, <2>1, BasicKVAssumption DEF GoodInv, ValueType
    <2>3. \A k \in 0 .. good.n - 1 : k \in 0 .. BKV_N_MAXKEYS - 1
        BY <2>2
    <2> QED BY <1>1, <2>1, <2>3 DEF GoodInv
<1>13. GetInv'
    BY <1>1, <1>4, <1>5, <1>6 DEF ValueInv, GetInv
<1>14. LateInv'
    <2>1. LateInv /\ calls \in Nat /\ calls' = calls + 1
        BY <1>1, <1>2 DEF ValueInv, ValueType
    <2>2. ASSUME NEW u \in late'
          PROVE  /\ u \in LateRec /\ 0 < u.w /\ u.w <= calls'
                 /\ u.k # Plain => u \in late
        <3>1. CASE u \in late
            <4>1. u \in LateRec /\ 0 < u.w /\ u.w <= calls
                BY <2>1, <3>1 DEF LateInv
            <4>2. u.w \in Nat
                BY <4>1 DEF LateRec
            <4> QED BY <2>1, <3>1, <4>1, <4>2
        <3>2. CASE u \in LateRec /\ u.k = Plain /\ u.w = calls + 1
            BY <2>1, <3>2
        <3> QED BY <3>1, <3>2
    <2>3. ASSUME NEW d \in Client, Writing(d)'
          PROVE  0 < cl'[d].w /\ cl'[d].w <= calls'
        <3>1. Writing(d) /\ cl'[d] = cl[d]
            BY <1>4, <1>5, <1>6, <2>3
        <3>2. 0 < cl[d].w /\ cl[d].w <= calls
            BY <2>1, <3>1 DEF LateInv
        <3>3. cl[d].w \in Nat
            BY <1>2 DEF ValueType, CallRec
        <3> QED BY <2>1, <3>1, <3>2, <3>3
    <2>4. \A d \in Client : Getting(d)' => cl'[d].w = 0
        BY <1>4, <1>5, <1>6, <2>1 DEF LateInv
    <2>5. \A d \in Client : \A u \in late' :
              Putting(d)' /\ u.w = cl'[d].w /\ u.k # Plain =>
                  u.k = cl'[d].i /\ cl'[d].rc = -1
        BY <1>4, <1>5, <1>6, <2>1, <2>2 DEF LateInv
    <2>6. Plain' = Plain
        BY DEF Plain
    <2> QED BY <2>2, <2>3, <2>4, <2>5, <2>6 DEF LateInv
<1> QED
    BY <1>7, <1>8, <1>9, <1>10, <1>11, <1>12, <1>13, <1>14 DEF ValueInv

\* The start of a multi-key call.
LEMMA StartInv ==
    ASSUME ValueInv, NEW c \in Client, NEW ok \in BOOLEAN, NEW rec \in CallRec,
           NEW writes \in BOOLEAN, Start(c, ok, rec, writes),
           rec.op \in MultiOps, writes <=> rec.op \in {"putn", "deln"},
           rec.rc = 0, rec.i = 0, rec.got = <<>>,
           ok => rec.n > 0 /\ rec.n <= BKV_N_MAXKEYS,
           ok /\ rec.op = "putn" =>
               rec.vlen > 0 /\ rec.n = NumKeys(rec.vlen),
           rec.op = "putn" /\ rec.clean => \A d \in Client : ~Writing(d),
           rec.op = "getn" /\ rec.clean => good # NoValue /\ rec.n = good.n,
           rec.w = IF writes THEN calls + 1 ELSE 0,
           before' = IF ok /\ rec.op = "putn" THEN db ELSE before
    PROVE  ValueInv'
<1> DEFINE new == IF ok THEN rec ELSE [NoCall EXCEPT !.op = rec.op, !.rc = -1]
           spoils == ok /\ writes
<1>1. /\ ~Busy(c) /\ calls' = calls + 1 /\ db' = db /\ late' = late
      /\ cl' = [d \in Client |->
                    IF d = c THEN new
                    ELSE [cl[d] EXCEPT !.clean = @ /\ ~spoils]]
      /\ good' = IF spoils THEN NoValue ELSE good
    BY DEF Start, storevars
<1>2. /\ ValueType /\ BusyInv /\ WriterInv /\ AloneInv /\ PutInv /\ GoodInv
      /\ GetInv /\ LateInv
    BY DEF ValueInv
<1>3. /\ new \in CallRec /\ new.op = rec.op
      /\ ok => new = rec
      /\ ~ok => new.rc = -1 /\ new.clean = FALSE
    <2>1. NoCall \in CallRec /\ NoCall.clean = FALSE
        BY NoCallType DEF NoCall
    <2>2. CASE ok
        BY <2>2
    <2>3. CASE ~ok
        <3>1. new = [NoCall EXCEPT !.op = rec.op, !.rc = -1]
            BY <2>3
        <3>2. rec.op \in MultiOps /\ -1 \in Int
            OBVIOUS
        <3> HIDE DEF new
        <3>3. new \in CallRec
            BY <2>1, <3>1, <3>2 DEF CallRec
        <3>4. new.op = rec.op /\ new.rc = -1 /\ new.clean = FALSE
            BY <2>1, <3>1 DEF CallRec
        <3> QED BY <2>3, <3>3, <3>4
    <2> QED BY <2>2, <2>3
<1> HIDE DEF new, spoils
<1>4. ASSUME NEW d \in Client, d # c
      PROVE  /\ cl'[d] \in CallRec
             /\ \A x \in {"op", "w", "n", "vlen", "i", "got", "rc"} :
                    cl'[d][x] = cl[d][x]
             /\ cl'[d].clean => cl[d].clean /\ ~spoils
             /\ ~spoils => cl'[d] = cl[d]
    <2>1. cl[d] \in CallRec
        BY <1>2 DEF ValueType
    <2>2. cl'[d] = [cl[d] EXCEPT !.clean = cl[d].clean /\ ~spoils]
        BY <1>1, <1>4
    <2>3. cl[d].clean \in BOOLEAN
        BY <2>1 DEF CallRec
    <2>4. (cl[d].clean /\ ~spoils) \in BOOLEAN
        OBVIOUS
    <2>5. cl'[d] \in CallRec
        BY <2>1, <2>2, <2>4 DEF CallRec
    <2>6. \A x \in {"op", "w", "n", "vlen", "i", "got", "rc"} :
              cl'[d][x] = cl[d][x]
        BY <2>1, <2>2 DEF CallRec
    <2>7. cl'[d].clean <=> cl[d].clean /\ ~spoils
        BY <2>1, <2>2 DEF CallRec
    <2>8. ASSUME ~spoils PROVE cl'[d] = cl[d]
        <3>1. cl'[d] = [cl[d] EXCEPT !.clean = cl[d].clean]
            BY <2>2, <2>3, <2>8
        <3> QED BY <2>1, <3>1 DEF CallRec
    <2> QED BY <2>5, <2>6, <2>7, <2>8
<1>5. cl'[c] = new
    BY <1>1
<1>6. ASSUME NEW d \in Client, d # c
      PROVE  /\ Busy(d)' <=> Busy(d)
             /\ Writing(d)' <=> Writing(d)
             /\ Putting(d)' => Putting(d) /\ ~spoils
             /\ Getting(d)' => Getting(d) /\ ~spoils
    BY <1>4, <1>6 DEF Busy, Writing, Putting, Getting
<1>7. ValueType'
    <2>1. cl' \in [Client -> CallRec]
        BY <1>1, <1>3, <1>4, <1>5
    <2>2. good' \in [w : Nat, n : Nat, vlen : Nat]
        BY <1>1, <1>2 DEF ValueType, NoValue
    <2>3. before' \in [Key -> PartRec]
        BY <1>2 DEF ValueType
    <2>4. calls' \in Nat
        BY <1>1, <1>2 DEF ValueType
    <2> QED BY <1>1, <1>2, <2>1, <2>2, <2>3, <2>4 DEF ValueType
<1>8. BusyInv'
    <2>1. ASSUME NEW d \in Client, d # c, Busy(d)'
          PROVE  /\ cl'[d].op \in MultiOps
                 /\ cl'[d].i < cl'[d].n /\ cl'[d].n <= BKV_N_MAXKEYS
                 /\ cl'[d].op = "putn" =>
                        cl'[d].vlen > 0 /\ cl'[d].n = NumKeys(cl'[d].vlen)
        BY <1>2, <1>4, <1>6, <2>1 DEF BusyInv
    <2>2. ASSUME Busy(c)'
          PROVE  /\ new.op \in MultiOps
                 /\ new.i < new.n /\ new.n <= BKV_N_MAXKEYS
                 /\ new.op = "putn" =>
                        new.vlen > 0 /\ new.n = NumKeys(new.vlen)
        <3>1. ok
            BY <1>3, <1>5, <2>2 DEF Busy
        <3>2. rec.n \in Nat
            BY DEF CallRec
        <3> QED BY <1>3, <3>1, <3>2
    <2> QED BY <1>5, <2>1, <2>2 DEF BusyInv
<1>9. WriterInv'
    <2>1. ASSUME NEW d \in Client, Writing(d)' PROVE good' = NoValue
        <3>1. CASE d # c
            BY <1>1, <1>2, <1>6, <2>1, <3>1 DEF WriterInv
        <3>2. CASE d = c
            <4>1. spoils
                BY <1>3, <1>5, <2>1, <3>2 DEF Writing, Busy, spoils
            <4> QED BY <1>1, <4>1
        <3> QED BY <3>1, <3>2
    <2> QED BY <2>1 DEF WriterInv
<1>10. AloneInv'
    <2>1. ASSUME NEW d \in Client, NEW e \in Client, Putting(d)', Writing(e)',
                 d # e
          PROVE  FALSE
        <3>1. CASE d # c /\ e # c
            BY <1>2, <1>6, <2>1, <3>1 DEF AloneInv
        <3>2. CASE d = c
            <4>1. ok /\ rec.op = "putn" /\ rec.clean
                BY <1>3, <1>5, <2>1, <3>2 DEF Putting
            <4> QED BY <1>6, <2>1, <3>2, <4>1
        <3>3. CASE e = c
            <4>1. spoils
                BY <1>3, <1>5, <2>1, <3>3 DEF Writing, Busy, spoils
            <4> QED BY <1>6, <2>1, <3>3, <4>1
        <3> QED BY <3>1, <3>2, <3>3
    <2> QED BY <2>1 DEF AloneInv
<1>11. PutInv'
    <2>1. ASSUME NEW d \in Client, Putting(d)',
                 NEW k \in 0 .. BKV_N_MAXKEYS - 1
          PROVE  /\ k < cl'[d].i =>
                        db'[k] = Part(cl'[d].w, cl'[d].vlen, cl'[d].n, k)
                 /\ k > cl'[d].i => db'[k] = before'[k]
        <3>1. CASE d # c
            <4>1. Putting(d) /\ ~spoils
                BY <1>6, <2>1, <3>1
            <4>2. before' = before /\ cl'[d] = cl[d]
                BY <1>4, <3>1, <4>1 DEF spoils
            <4> QED BY <1>1, <1>2, <4>1, <4>2 DEF PutInv
        <3>2. CASE d = c
            <4>1. ok /\ rec.op = "putn"
                BY <1>3, <1>5, <2>1, <3>2 DEF Putting
            <4>2. before' = db /\ cl'[d].i = 0
                BY <1>3, <1>5, <3>2, <4>1
            <4> QED BY <1>1, <4>2
        <3> QED BY <3>1, <3>2
    <2> QED BY <2>1 DEF PutInv
<1>12. GoodInv'
    BY <1>1, <1>2 DEF GoodInv
<1>13. GetInv'
    <2>1. ASSUME NEW d \in Client, Getting(d)'
          PROVE  /\ good' # NoValue /\ cl'[d].n = good'.n
                 /\ Len(cl'[d].got) = cl'[d].i
                 /\ cl'[d].rc > 0 => cl'[d].i = cl'[d].n
                 /\ \A j \in 1 .. cl'[d].i : cl'[d].got[j] =
                        Part(good'.w, good'.vlen, good'.n, j - 1)
        <3>1. CASE d # c
            <4>1. Getting(d) /\ ~spoils
                BY <1>6, <2>1, <3>1
            <4>2. good' = good /\ cl'[d] = cl[d]
                BY <1>1, <1>4, <3>1, <4>1
            <4> QED BY <1>2, <4>1, <4>2 DEF GetInv
        <3>2. CASE d = c
            <4>1. ok /\ rec.op = "getn" /\ rec.clean
                BY <1>3, <1>5, <2>1, <3>2 DEF Getting
            <4>2. good' = good
                BY <1>1, <4>1 DEF spoils
            <4> QED BY <1>3, <1>5, <3>2, <4>1, <4>2
        <3> QED BY <3>1, <3>2
    <2> QED BY <2>1 DEF GetInv
<1>14. LateInv'
    <2>1. calls \in Nat /\ calls' = calls + 1 /\ Plain' = Plain
        BY <1>1, <1>2 DEF ValueType, Plain
    <2>2. ASSUME NEW u \in late
          PROVE  u \in LateRec /\ 0 < u.w /\ u.w <= calls' /\ u.w < calls + 1
        <3>1. u \in LateRec /\ 0 < u.w /\ u.w <= calls
            BY <1>2 DEF LateInv
        <3>2. u.w \in Nat
            BY <3>1 DEF LateRec
        <3> QED BY <2>1, <3>1, <3>2
    <2>3. ASSUME NEW d \in Client, Writing(d)'
          PROVE  0 < cl'[d].w /\ cl'[d].w <= calls'
        <3>1. CASE d # c
            <4>1. Writing(d) /\ cl'[d].w = cl[d].w
                BY <1>4, <1>6, <2>3, <3>1
            <4>2. 0 < cl[d].w /\ cl[d].w <= calls /\ cl[d].w \in Nat
                BY <1>2, <4>1 DEF LateInv, ValueType, CallRec
            <4> QED BY <2>1, <4>1, <4>2
        <3>2. CASE d = c
            <4>1. ok /\ writes
                BY <1>3, <1>5, <2>3, <3>2 DEF Writing, Busy
            <4>2. cl'[d].w = calls + 1
                BY <1>3, <1>5, <3>2, <4>1
            <4> QED BY <2>1, <4>2
        <3> QED BY <3>1, <3>2
    <2>4. ASSUME NEW d \in Client, Getting(d)' PROVE cl'[d].w = 0
        <3>1. CASE d # c
            BY <1>2, <1>4, <1>6, <2>4, <3>1 DEF LateInv
        <3>2. CASE d = c
            <4>1. ok /\ ~writes
                BY <1>3, <1>5, <2>4, <3>2 DEF Getting
            <4> QED BY <1>3, <1>5, <3>2, <4>1
        <3> QED BY <3>1, <3>2
    <2>5. ASSUME NEW d \in Client, NEW u \in late, Putting(d)',
                 u.w = cl'[d].w, u.k # Plain
          PROVE  u.k = cl'[d].i /\ cl'[d].rc = -1
        <3>1. CASE d # c
            <4>1. Putting(d) /\ cl'[d] = cl[d]
                BY <1>4, <1>6, <2>5, <3>1
            <4> QED BY <1>2, <2>5, <4>1 DEF LateInv
        <3>2. CASE d = c
            <4>1. ok /\ writes
                BY <1>3, <1>5, <2>5, <3>2 DEF Putting
            <4>2. cl'[d].w = calls + 1
                BY <1>3, <1>5, <3>2, <4>1
            <4>3. u.w < calls + 1 /\ u.w \in Nat
                BY <2>2 DEF LateRec
            <4> QED BY <2>1, <2>5, <4>2, <4>3
        <3> QED BY <3>1, <3>2
    <2> QED BY <1>1, <2>1, <2>2, <2>3, <2>4, <2>5 DEF LateInv
<1> QED
    BY <1>7, <1>8, <1>9, <1>10, <1>11, <1>12, <1>13, <1>14 DEF ValueInv

\* A round of the loop of a multi-key call goes on with the next part or
\* ends the call.
LEMMA PartKey ==
    ASSUME ValueInv, NEW c \in Client, Busy(c)
    PROVE  /\ cl[c] \in CallRec /\ cl[c].rc = 0
           /\ cl[c].i \in Nat /\ cl[c].n \in Nat /\ cl[c].i < cl[c].n
           /\ cl[c].n <= BKV_N_MAXKEYS /\ BKV_N_MAXKEYS \in Nat
           /\ cl[c].i \in 0 .. BKV_N_MAXKEYS - 1
           /\ 0 .. BKV_N_MAXKEYS \subseteq Key /\ cl[c].i \in Key
<1>1. cl[c] \in CallRec /\ cl[c].rc = 0
    BY DEF ValueInv, ValueType, Busy
<1>2. cl[c].i \in Nat /\ cl[c].n \in Nat
    BY <1>1 DEF CallRec
<1>3. cl[c].i < cl[c].n /\ cl[c].n <= BKV_N_MAXKEYS
    BY DEF ValueInv, BusyInv
<1>4. BKV_N_MAXKEYS \in Nat /\ 0 .. BKV_N_MAXKEYS \subseteq Key
    BY BasicKVAssumption
<1>5. cl[c].i \in 0 .. BKV_N_MAXKEYS - 1 /\ cl[c].i \in 0 .. BKV_N_MAXKEYS
    BY <1>2, <1>3, <1>4
<1> QED BY <1>1, <1>2, <1>3, <1>4, <1>5

\* bkv_putn stores one part, or fails to.
LEMMA PutPartInv ==
    ASSUME ValueInv, present \subseteq Has(db), NEW c \in Client, PutPart(c)
    PROVE  /\ ValueInv'
           /\ present' \subseteq present /\ present' \subseteq Has(db')
<1> DEFINE r == cl[c]
           v == Part(r.w, r.vlen, r.n, r.i)
<1>1. /\ Busy(c) /\ r.op = "putn" /\ calls' = calls /\ before' = before
    BY DEF PutPart
<1>2. PICK ok \in BOOLEAN :
          /\ Update(r.w, r.i, v, ok)
          /\ cl' = [cl EXCEPT ![c] =
                 CASE ~ok -> [r EXCEPT !.rc = -1]
                   [] ok /\ [r EXCEPT !.i = @ + 1].i = r.n ->
                          [[r EXCEPT !.i = @ + 1] EXCEPT !.rc = r.n]
                   [] OTHER -> [r EXCEPT !.i = @ + 1]]
          /\ good' = IF cl'[c].rc = r.n /\ r.clean
                     THEN [w |-> r.w, n |-> r.n, vlen |-> r.vlen]
                     ELSE good
    BY DEF PutPart
<1>3. /\ ValueType /\ BusyInv /\ WriterInv /\ AloneInv /\ PutInv /\ GoodInv
      /\ GetInv /\ LateInv
    BY DEF ValueInv
<1>4. /\ r \in CallRec /\ r.rc = 0 /\ r.i \in Nat /\ r.n \in Nat
      /\ r.i < r.n /\ r.n <= BKV_N_MAXKEYS /\ BKV_N_MAXKEYS \in Nat
      /\ r.i \in 0 .. BKV_N_MAXKEYS - 1
      /\ 0 .. BKV_N_MAXKEYS \subseteq Key /\ r.i \in Key
    BY <1>1, PartKey
<1>5. v \in PartRec
    BY <1>4, PartType DEF CallRec
<1>6. /\ db' \in [Key -> PartRec]
      /\ \A j \in Key : j # r.i => db'[j] = db[j]
      /\ ok => db'[r.i] = v
      /\ present' \subseteq present /\ present' \subseteq Has(db')
      /\ \A u \in late' :
             u \in late \/ (~ok /\ u = [w |-> r.w, k |-> r.i, v |-> v])
    <2>1. Update(r.w, r.i, v, ok) /\ db \in [Key -> PartRec]
        BY <1>2, <1>3 DEF ValueType
    <2>2. r.w \in Nat /\ r.i \in Key
        BY <1>4 DEF CallRec
    <2> HIDE DEF r, v
    <2> QED BY <1>5, <2>1, <2>2, UpdateIs
<1>7. Writing(c) /\ good = NoValue
    BY <1>1, <1>3 DEF Writing, WriterInv
<1>8. /\ r.vlen > 0 /\ r.n = NumKeys(r.vlen)
    BY <1>1, <1>3 DEF BusyInv
<1>9. /\ cl'[c] \in CallRec
      /\ \A x \in {"op", "w", "n", "vlen", "got", "clean"} : cl'[c][x] = r[x]
      /\ \/ ~ok /\ cl'[c].rc = -1 /\ cl'[c].i = r.i
         \/ ok /\ r.i + 1 = r.n /\ cl'[c].rc = r.n /\ cl'[c].i = r.i + 1
         \/ ok /\ r.i + 1 # r.n /\ cl'[c].rc = 0 /\ cl'[c].i = r.i + 1
    <2>0. cl'[c] = CASE ~ok -> [r EXCEPT !.rc = -1]
                     [] ok /\ [r EXCEPT !.i = @ + 1].i = r.n ->
                            [[r EXCEPT !.i = @ + 1] EXCEPT !.rc = r.n]
                     [] OTHER -> [r EXCEPT !.i = @ + 1]
        BY <1>2, <1>3 DEF ValueType
    <2>1. [r EXCEPT !.i = @ + 1].i = r.i + 1
        BY <1>4 DEF CallRec
    <2>2. CASE ~ok
        <3>1. cl'[c] = [r EXCEPT !.rc = -1]
            BY <2>0, <2>2
        <3> QED BY <1>4, <2>2, <3>1 DEF CallRec
    <2>3. CASE ok /\ r.i + 1 = r.n
        <3>1. cl'[c] = [[r EXCEPT !.i = @ + 1] EXCEPT !.rc = r.n]
            BY <2>0, <2>1, <2>3
        <3>2. r.i + 1 \in Nat /\ r.n \in Int
            BY <1>4
        <3>3. cl'[c] \in CallRec
            BY <1>4, <3>1, <3>2 DEF CallRec
        <3>4. /\ \A x \in {"op", "w", "n", "vlen", "got", "clean"} :
                     cl'[c][x] = r[x]
              /\ cl'[c].rc = r.n /\ cl'[c].i = r.i + 1
            BY <1>4, <3>1 DEF CallRec
        <3> QED BY <2>3, <3>3, <3>4
    <2>4. CASE ok /\ r.i + 1 # r.n
        <3>1. cl'[c] = [r EXCEPT !.i = @ + 1]
            BY <2>0, <2>1, <2>4
        <3> QED BY SMTT(60), <1>4, <2>4, <3>1 DEF CallRec
    <2> QED BY <2>2, <2>3, <2>4
<1>10. \A d \in Client \ {c} : cl'[d] = cl[d]
    BY <1>2, <1>3 DEF ValueType
<1>11. \A d \in Client \ {c} :
           /\ Busy(d)' <=> Busy(d)
           /\ Writing(d)' <=> Writing(d)
           /\ Putting(d)' <=> Putting(d)
           /\ Getting(d)' <=> Getting(d)
    BY <1>10, SameClient
<1>12. \A d \in Client : ~Getting(d)
    BY <1>3, <1>7 DEF GetInv
<1>13. \A d \in Client \ {c} : ~Putting(d)
    BY <1>3, <1>7 DEF AloneInv
<1> HIDE DEF r, v
<1>14. /\ Writing(c)' => ok /\ r.i + 1 # r.n
       /\ Putting(c)' => r.clean /\ cl'[c].rc # r.n
       /\ ~Getting(c)'
    BY <1>1, <1>4, <1>9 DEF Busy, Writing, Putting, Getting
<1>15. r.clean => Putting(c)
    BY <1>1, <1>4 DEF Putting, r
<1>16. cl'[c].rc = r.n <=> ok /\ r.i + 1 = r.n
    BY <1>4, <1>9
<1>17. ValueType'
    <2>1. cl' \in [Client -> CallRec]
        BY <1>2, <1>3, <1>9, <1>10 DEF ValueType
    <2>2. r.w \in Nat /\ r.n \in Nat /\ r.vlen \in Nat
        BY <1>4 DEF CallRec
    <2>3. good' \in [w : Nat, n : Nat, vlen : Nat]
        BY <1>2, <1>3, <2>2 DEF ValueType
    <2> QED BY <1>1, <1>3, <1>6, <2>1, <2>3 DEF ValueType
<1>18. BusyInv'
    <2>1. ASSUME Busy(c)'
          PROVE  /\ cl'[c].op \in MultiOps
                 /\ cl'[c].i < cl'[c].n /\ cl'[c].n <= BKV_N_MAXKEYS
                 /\ cl'[c].op = "putn" =>
                        cl'[c].vlen > 0 /\ cl'[c].n = NumKeys(cl'[c].vlen)
        <3>1. ok /\ r.i + 1 # r.n /\ cl'[c].i = r.i + 1
            BY <1>4, <1>9, <2>1 DEF Busy
        <3>2. cl'[c].n = r.n /\ cl'[c].vlen = r.vlen /\ cl'[c].op = "putn"
            BY <1>1, <1>9 DEF r
        <3>3. r.i + 1 < r.n
            BY <1>4, <3>1
        <3> QED BY <1>4, <1>8, <3>1, <3>2, <3>3 DEF MultiOps
    <2> QED BY <1>3, <1>10, <1>11, <2>1 DEF BusyInv
<1>19. ASSUME NEW d \in Client, Writing(d)' PROVE good' = NoValue
    <2>1. CASE d = c
        BY <1>2, <1>7, <1>14, <1>16, <1>19, <2>1
    <2>2. CASE d # c
        <3>1. Writing(d)
            BY <1>11, <1>19, <2>2
        <3>2. ~r.clean
            BY <1>3, <1>15, <2>2, <3>1 DEF AloneInv
        <3> QED BY <1>2, <1>7, <3>2
    <2> QED BY <2>1, <2>2
<1>20. AloneInv'
    <2>1. ASSUME NEW d \in Client, NEW e \in Client, Putting(d)', Writing(e)',
                 d # e
          PROVE  FALSE
        <3>1. d = c
            BY <1>11, <1>13, <2>1
        <3>2. Putting(c) /\ Writing(e)
            BY <1>11, <1>14, <1>15, <2>1, <3>1
        <3> QED BY <1>3, <2>1, <3>1, <3>2 DEF AloneInv
    <2> QED BY <2>1 DEF AloneInv
<1>21. ASSUME r.clean, NEW k \in 0 .. BKV_N_MAXKEYS - 1
       PROVE  /\ k < r.i => db'[k] = Part(r.w, r.vlen, r.n, k)
              /\ ok /\ k = r.i => db'[k] = Part(r.w, r.vlen, r.n, k)
              /\ k > r.i => db'[k] = before'[k]
    <2>1. k \in Key
        BY <1>4
    <2>2. /\ k < r.i => db[k] = Part(r.w, r.vlen, r.n, k)
          /\ k > r.i => db[k] = before[k]
        BY <1>3, <1>15, <1>21 DEF PutInv, r
    <2>3. k # r.i => db'[k] = db[k]
        BY <1>6, <2>1
    <2>4. k < r.i \/ k > r.i => k # r.i
        BY <1>4
    <2> QED BY <1>1, <1>6, <2>2, <2>3, <2>4 DEF v
<1>22. PutInv'
    <2>1. ASSUME Putting(c)', NEW k \in 0 .. BKV_N_MAXKEYS - 1
          PROVE  /\ k < cl'[c].i =>
                        db'[k] = Part(cl'[c].w, cl'[c].vlen, cl'[c].n, k)
                 /\ k > cl'[c].i => db'[k] = before'[k]
        <3>1. r.clean
            BY <1>14, <2>1
        <3>2. /\ cl'[c].w = r.w /\ cl'[c].vlen = r.vlen /\ cl'[c].n = r.n
            BY <1>9
        <3>3. /\ k < cl'[c].i => k < r.i \/ (ok /\ k = r.i)
              /\ k > cl'[c].i => k > r.i
            BY <1>4, <1>9
        <3> QED BY <1>21, <3>1, <3>2, <3>3
    <2> QED BY <1>11, <1>13, <2>1 DEF PutInv
<1>23. GoodInv'
    <2> SUFFICES ASSUME good' # NoValue PROVE GoodInv'
        BY DEF GoodInv
    <2>1. /\ cl'[c].rc = r.n /\ r.clean
          /\ good' = [w |-> r.w, n |-> r.n, vlen |-> r.vlen]
        BY <1>2, <1>7
    <2>2. ok /\ r.i + 1 = r.n
        BY <1>16, <2>1
    <2>3. good'.w = r.w /\ good'.n = r.n /\ good'.vlen = r.vlen
        BY <2>1
    <2>4. \A k \in 0 .. r.n - 1 : /\ k \in 0 .. BKV_N_MAXKEYS - 1
                                  /\ k < r.i \/ k = r.i
        BY <1>4, <2>2
    <2>5. \A k \in 0 .. r.n - 1 : db'[k] = Part(r.w, r.vlen, r.n, k)
        BY <1>21, <2>1, <2>2, <2>4
    <2> QED BY <1>4, <1>8, <2>3, <2>5 DEF GoodInv
<1>24. GetInv'
    BY <1>11, <1>12, <1>14 DEF GetInv
<1>25. LateInv'
    <2>1. 0 < r.w /\ r.w <= calls /\ r.w \in Nat
        BY <1>3, <1>4, <1>7 DEF LateInv, CallRec, r
    <2>2. ASSUME NEW u \in late'
          PROVE  /\ u \in LateRec /\ 0 < u.w /\ u.w <= calls
                 /\ u \in late \/ (~ok /\ u.k = r.i)
        <3>1. CASE u \in late
            BY <1>3, <3>1 DEF LateInv
        <3>2. CASE ~ok /\ u = [w |-> r.w, k |-> r.i, v |-> v]
            BY <1>4, <1>5, <2>1, <3>2 DEF LateRec
        <3> QED BY <1>6, <3>1, <3>2
    <2>3. ASSUME NEW d \in Client, Writing(d)'
          PROVE  0 < cl'[d].w /\ cl'[d].w <= calls
        <3>1. CASE d = c
            BY <1>9, <2>1, <3>1
        <3>2. CASE d # c
            BY <1>3, <1>10, <1>11, <2>3, <3>2 DEF LateInv
        <3> QED BY <3>1, <3>2
    <2>4. \A d \in Client : ~Getting(d)'
        BY <1>11, <1>12, <1>14
    <2>5. ASSUME NEW d \in Client, NEW u \in late', Putting(d)',
                 u.w = cl'[d].w, u.k # Plain
          PROVE  u.k = cl'[d].i /\ cl'[d].rc = -1
        <3>1. d = c /\ r.clean
            BY <1>11, <1>13, <1>14, <2>5
        <3>2. u.w = r.w /\ Putting(c)
            BY <1>9, <1>15, <2>5, <3>1
        <3>3. u \notin late
            BY <1>3, <1>4, <2>5, <3>2 DEF LateInv, r
        <3> QED BY <1>9, <2>2, <3>1, <3>3
    <2>6. Plain' = Plain
        BY DEF Plain
    <2> QED BY <1>1, <2>2, <2>3, <2>4, <2>5, <2>6 DEF LateInv
<1> QED
    BY <1>6, <1>17, <1>18, <1>19, <1>20, <1>22, <1>23, <1>24, <1>25
    DEF ValueInv, WriterInv

\* bkv_deln deletes one part, or fails to.
LEMMA DelPartInv ==
    ASSUME ValueInv, present \subseteq Has(db), NEW c \in Client, DelPart(c)
    PROVE  /\ ValueInv'
           /\ present' \subseteq present /\ present' \subseteq Has(db')
<1> DEFINE r == cl[c]
<1>1. /\ Busy(c) /\ r.op = "deln"
      /\ calls' = calls /\ before' = before /\ good' = good
    BY DEF DelPart
<1>2. PICK ok \in BOOLEAN :
          /\ Update(r.w, r.i, Absent, ok)
          /\ cl' = [cl EXCEPT ![c] =
                 CASE ~ok -> [r EXCEPT !.rc = -1]
                   [] ok /\ [r EXCEPT !.i = @ + 1].i = r.n ->
                          [[r EXCEPT !.i = @ + 1] EXCEPT !.rc = r.n]
                   [] OTHER -> [r EXCEPT !.i = @ + 1]]
    BY DEF DelPart
<1>3. /\ ValueType /\ BusyInv /\ WriterInv /\ AloneInv /\ PutInv /\ GoodInv
      /\ GetInv /\ LateInv
    BY DEF ValueInv
<1>4. /\ r \in CallRec /\ r.rc = 0 /\ r.i \in Nat /\ r.n \in Nat
      /\ r.i < r.n /\ r.n <= BKV_N_MAXKEYS /\ r.i \in Key
    BY <1>1, PartKey
<1>5. Absent \in PartRec
    BY DEF Absent, PartRec
<1>6. /\ db' \in [Key -> PartRec]
      /\ present' \subseteq present /\ present' \subseteq Has(db')
      /\ \A u \in late' :
             u \in late \/ u = [w |-> r.w, k |-> r.i, v |-> Absent]
    <2>1. Update(r.w, r.i, Absent, ok) /\ db \in [Key -> PartRec]
        BY <1>2, <1>3 DEF ValueType
    <2>2. r.w \in Nat /\ r.i \in Key
        BY <1>4 DEF CallRec
    <2> HIDE DEF r
    <2> QED BY <1>5, <2>1, <2>2, UpdateIs
<1>7. Writing(c) /\ good = NoValue
    BY <1>1, <1>3 DEF Writing, WriterInv
<1>9. /\ cl'[c] \in CallRec /\ cl'[c].op = "deln" /\ cl'[c].n = r.n
      /\ cl'[c].w = r.w
      /\ cl'[c].rc = 0 => cl'[c].i = r.i + 1 /\ r.i + 1 # r.n
    <2>0. cl'[c] = CASE ~ok -> [r EXCEPT !.rc = -1]
                     [] ok /\ [r EXCEPT !.i = @ + 1].i = r.n ->
                            [[r EXCEPT !.i = @ + 1] EXCEPT !.rc = r.n]
                     [] OTHER -> [r EXCEPT !.i = @ + 1]
        BY <1>2, <1>3 DEF ValueType
    <2>1. [r EXCEPT !.i = @ + 1].i = r.i + 1
        BY <1>4 DEF CallRec
    <2>2. CASE ~ok
        <3>1. cl'[c] = [r EXCEPT !.rc = -1]
            BY <2>0, <2>2
        <3> QED BY <1>1, <1>4, <2>2, <3>1 DEF CallRec
    <2>3. CASE ok /\ r.i + 1 = r.n
        <3>1. cl'[c] = [[r EXCEPT !.i = @ + 1] EXCEPT !.rc = r.n]
            BY <2>0, <2>1, <2>3
        <3>2. r.i + 1 \in Nat /\ r.n \in Int /\ r.n # 0
            BY <1>4
        <3>3. cl'[c] \in CallRec
            BY <1>4, <3>1, <3>2 DEF CallRec
        <3>4. /\ cl'[c].op = r.op /\ cl'[c].n = r.n /\ cl'[c].rc = r.n
              /\ cl'[c].w = r.w
            BY <1>4, <3>1 DEF CallRec
        <3> QED BY <1>1, <3>2, <3>3, <3>4
    <2>4. CASE ok /\ r.i + 1 # r.n
        <3>1. cl'[c] = [r EXCEPT !.i = @ + 1]
            BY <2>0, <2>1, <2>4
        <3> QED BY <1>1, <1>4, <2>4, <3>1 DEF CallRec
    <2> QED BY <2>2, <2>3, <2>4
<1>10. \A d \in Client \ {c} : cl'[d] = cl[d]
    BY <1>2, <1>3 DEF ValueType
<1>11. \A d \in Client \ {c} :
           /\ Busy(d)' <=> Busy(d)
           /\ Writing(d)' <=> Writing(d)
           /\ Putting(d)' <=> Putting(d)
           /\ Getting(d)' <=> Getting(d)
    BY <1>10, SameClient
<1>12. \A d \in Client : ~Getting(d)'
    BY <1>1, <1>3, <1>7, <1>9, <1>11 DEF GetInv, Getting
<1>13. \A d \in Client : ~Putting(d)'
    BY <1>3, <1>7, <1>9, <1>11 DEF AloneInv, Putting
<1>17. ValueType'
    <2>1. cl' \in [Client -> CallRec]
        BY <1>2, <1>3, <1>9, <1>10 DEF ValueType
    <2> QED BY <1>1, <1>3, <1>6, <2>1 DEF ValueType
<1>18. BusyInv'
    <2>1. ASSUME Busy(c)'
          PROVE  /\ cl'[c].op \in MultiOps /\ cl'[c].op # "putn"
                 /\ cl'[c].i < cl'[c].n /\ cl'[c].n <= BKV_N_MAXKEYS
        <3>1. cl'[c].i = r.i + 1 /\ r.i + 1 # r.n
            BY <1>9, <2>1 DEF Busy
        <3>3. r.i + 1 < r.n
            BY <1>4, <3>1
        <3> QED BY <1>4, <1>9, <3>1, <3>3 DEF MultiOps
    <2> QED BY <1>3, <1>10, <1>11, <2>1 DEF BusyInv
<1>19. WriterInv' /\ GoodInv'
    BY <1>1, <1>7 DEF WriterInv, GoodInv
<1>20. LateInv'
    <2>1. 0 < r.w /\ r.w <= calls /\ r.w \in Nat
        BY <1>3, <1>4, <1>7 DEF LateInv, CallRec
    <2>2. ASSUME NEW u \in late'
          PROVE  u \in LateRec /\ 0 < u.w /\ u.w <= calls
        <3>1. CASE u \in late
            BY <1>3, <3>1 DEF LateInv
        <3>2. CASE u = [w |-> r.w, k |-> r.i, v |-> Absent]
            BY <1>4, <1>5, <2>1, <3>2 DEF LateRec
        <3> QED BY <1>6, <3>1, <3>2
    <2>3. ASSUME NEW d \in Client, Writing(d)'
          PROVE  0 < cl'[d].w /\ cl'[d].w <= calls
        <3>1. CASE d = c
            BY <1>9, <2>1, <3>1
        <3>2. CASE d # c
            BY <1>3, <1>10, <1>11, <2>3, <3>2 DEF LateInv
        <3> QED BY <3>1, <3>2
    <2> QED BY <1>1, <1>12, <1>13, <2>2, <2>3 DEF LateInv
<1> QED
    BY <1>6, <1>12, <1>13, <1>17, <1>18, <1>19, <1>20
    DEF ValueInv, AloneInv, PutInv, GetInv

\* bkv_getn gets one part, or fails to.
LEMMA GetPartInv ==
    ASSUME ValueInv, NEW c \in Client, GetPart(c)
    PROVE  ValueInv'
<1> DEFINE r == cl[c]
           next == [r EXCEPT !.got = Append(@, db[r.i]), !.i = @ + 1]
<1>1. /\ Busy(c) /\ r.op = "getn" /\ db' = db /\ late' = late
      /\ calls' = calls /\ before' = before /\ good' = good
    BY DEF GetPart, storevars
<1>2. PICK ok \in BOOLEAN :
          cl' = [cl EXCEPT ![c] =
                 CASE ~ok -> [r EXCEPT !.rc = -1, !.got = <<>>]
                   [] ok /\ next.i = r.n -> [next EXCEPT !.rc = r.n]
                   [] OTHER -> next]
    BY DEF GetPart
<1>3. /\ ValueType /\ BusyInv /\ WriterInv /\ AloneInv /\ PutInv /\ GoodInv
      /\ GetInv /\ LateInv
    BY DEF ValueInv
<1>4. /\ r \in CallRec /\ r.rc = 0 /\ r.i \in Nat /\ r.n \in Nat
      /\ r.i < r.n /\ r.n <= BKV_N_MAXKEYS /\ r.i \in Key
    BY <1>1, PartKey
<1>5. r.got \in Seq(PartRec) /\ db[r.i] \in PartRec
    BY <1>3, <1>4 DEF CallRec, ValueType
<1>6. /\ Append(r.got, db[r.i]) \in Seq(PartRec) /\ Len(r.got) \in Nat
      /\ Len(Append(r.got, db[r.i])) = Len(r.got) + 1
      /\ Append(r.got, db[r.i])[Len(r.got) + 1] = db[r.i]
      /\ \A j \in 1 .. Len(r.got) : Append(r.got, db[r.i])[j] = r.got[j]
    BY <1>5
<1>7. /\ next \in CallRec /\ next.i = r.i + 1
      /\ next.got = Append(r.got, db[r.i])
      /\ \A x \in {"op", "w", "n", "vlen", "clean", "rc"} : next[x] = r[x]
    <2>1. r.i + 1 \in Nat
        BY <1>4
    <2>2. next = [r EXCEPT !.got = Append(r.got, db[r.i]), !.i = r.i + 1]
        BY <1>4 DEF CallRec
    <2> HIDE DEF next
    <2>3. next \in CallRec
        BY <1>4, <1>6, <2>1, <2>2 DEF CallRec
    <2>4. /\ next.i = r.i + 1 /\ next.got = Append(r.got, db[r.i])
          /\ \A x \in {"op", "w", "n", "vlen", "clean", "rc"} : next[x] = r[x]
        BY <1>4, <2>2 DEF CallRec
    <2> QED BY <2>3, <2>4
<1> HIDE DEF next
<1>9. /\ cl'[c] \in CallRec /\ cl'[c].op = "getn" /\ cl'[c].n = r.n
      /\ cl'[c].w = r.w
      /\ \/ cl'[c].rc = -1
         \/ /\ cl'[c].rc = r.n /\ r.i + 1 = r.n /\ cl'[c].i = r.i + 1
            /\ cl'[c].got = Append(r.got, db[r.i]) /\ cl'[c].clean = r.clean
         \/ /\ cl'[c].rc = 0 /\ r.i + 1 # r.n /\ cl'[c].i = r.i + 1
            /\ cl'[c].got = Append(r.got, db[r.i]) /\ cl'[c].clean = r.clean
    <2>0. cl'[c] = CASE ~ok -> [r EXCEPT !.rc = -1, !.got = <<>>]
                     [] ok /\ next.i = r.n -> [next EXCEPT !.rc = r.n]
                     [] OTHER -> next
        BY <1>2, <1>3 DEF ValueType
    <2>2. CASE ~ok
        <3>1. cl'[c] = [r EXCEPT !.rc = -1, !.got = <<>>]
            BY <2>0, <2>2
        <3>2. <<>> \in Seq(PartRec) /\ -1 \in Int
            OBVIOUS
        <3>3. cl'[c] \in CallRec
            BY <1>4, <3>1, <3>2 DEF CallRec
        <3>4. /\ cl'[c].op = r.op /\ cl'[c].n = r.n /\ cl'[c].rc = -1
              /\ cl'[c].w = r.w
            BY <1>4, <3>1 DEF CallRec
        <3> QED BY <1>1, <3>3, <3>4
    <2>3. CASE ok /\ r.i + 1 = r.n
        <3>1. cl'[c] = [next EXCEPT !.rc = r.n]
            BY <1>7, <2>0, <2>3
        <3>2. r.n \in Int
            BY <1>4
        <3>3. cl'[c] \in CallRec
            BY <1>7, <3>1, <3>2 DEF CallRec
        <3>4. /\ cl'[c].op = next.op /\ cl'[c].n = next.n /\ cl'[c].rc = r.n
              /\ cl'[c].i = next.i /\ cl'[c].got = next.got
              /\ cl'[c].clean = next.clean /\ cl'[c].w = next.w
            BY <1>7, <3>1 DEF CallRec
        <3>5. /\ next.op = r.op /\ next.n = r.n /\ next.clean = r.clean
              /\ next.w = r.w
            BY <1>7
        <3> QED BY <1>1, <1>7, <2>3, <3>3, <3>4, <3>5
    <2>4. CASE ok /\ r.i + 1 # r.n
        <3>1. cl'[c] = next
            BY <1>7, <2>0, <2>4
        <3>2. /\ next.op = r.op /\ next.n = r.n /\ next.clean = r.clean
              /\ next.rc = r.rc /\ next.w = r.w
            BY <1>7
        <3> QED BY <1>1, <1>4, <1>7, <2>4, <3>1, <3>2
    <2> QED BY <2>2, <2>3, <2>4
<1>10. \A d \in Client \ {c} : cl'[d] = cl[d]
    BY <1>2, <1>3 DEF ValueType
<1>11. \A d \in Client \ {c} :
           /\ Busy(d)' <=> Busy(d)
           /\ Writing(d)' <=> Writing(d)
           /\ Putting(d)' <=> Putting(d)
           /\ Getting(d)' <=> Getting(d)
    BY <1>10, SameClient
<1>12. ~Writing(c)' /\ ~Putting(c)'
    BY <1>9 DEF Writing, Putting
<1>17. ValueType'
    <2>1. cl' \in [Client -> CallRec]
        BY <1>2, <1>3, <1>9, <1>10 DEF ValueType
    <2> QED BY <1>1, <1>3, <2>1 DEF ValueType
<1>18. BusyInv'
    <2>1. ASSUME Busy(c)'
          PROVE  /\ cl'[c].op \in MultiOps /\ cl'[c].op # "putn"
                 /\ cl'[c].i < cl'[c].n /\ cl'[c].n <= BKV_N_MAXKEYS
        <3>1. cl'[c].i = r.i + 1 /\ r.i + 1 # r.n
            BY <1>4, <1>9, <2>1 DEF Busy
        <3>3. r.i + 1 < r.n
            BY <1>4, <3>1
        <3> QED BY <1>4, <1>9, <3>1, <3>3 DEF MultiOps
    <2> QED BY <1>3, <1>10, <1>11, <2>1 DEF BusyInv
<1>19. WriterInv' /\ GoodInv' /\ AloneInv' /\ PutInv'
    <2>1. WriterInv'
        BY <1>1, <1>3, <1>11, <1>12 DEF WriterInv
    <2>2. GoodInv'
        BY <1>1, <1>3 DEF GoodInv
    <2>3. AloneInv'
        BY <1>3, <1>11, <1>12 DEF AloneInv
    <2>4. PutInv'
        BY <1>1, <1>3, <1>10, <1>11, <1>12 DEF PutInv
    <2> QED BY <2>1, <2>2, <2>3, <2>4
<1>20. GetInv'
    <2>1. ASSUME Getting(c)'
          PROVE  /\ good # NoValue /\ cl'[c].n = good.n
                 /\ Len(cl'[c].got) = cl'[c].i
                 /\ cl'[c].rc > 0 => cl'[c].i = cl'[c].n
                 /\ \A j \in 1 .. cl'[c].i : cl'[c].got[j] =
                        Part(good.w, good.vlen, good.n, j - 1)
        <3>1. /\ cl'[c].clean = r.clean /\ cl'[c].i = r.i + 1
              /\ cl'[c].got = Append(r.got, db[r.i])
              /\ cl'[c].rc > 0 => r.i + 1 = r.n
            <4>1. cl'[c].rc >= 0
                BY <2>1 DEF Getting
            <4>2. cl'[c].rc # -1
                BY <4>1
            <4>3. cl'[c].rc = 0 => ~(cl'[c].rc > 0)
                OBVIOUS
            <4> QED BY <1>9, <4>2, <4>3
        <3>2. Getting(c)
            BY <1>1, <1>4, <2>1, <3>1 DEF Getting
        <3>3. /\ good # NoValue /\ r.n = good.n /\ Len(r.got) = r.i
              /\ \A j \in 1 .. r.i : r.got[j] =
                     Part(good.w, good.vlen, good.n, j - 1)
            BY <1>3, <3>2 DEF GetInv
        <3>4. db[r.i] = Part(good.w, good.vlen, good.n, r.i)
            <4>1. r.i \in 0 .. good.n - 1
                BY <1>4, <3>3
            <4> QED BY <1>3, <3>3, <4>1 DEF GoodInv
        <3>5. \A j \in 1 .. r.i + 1 : j \in 1 .. r.i \/ j = r.i + 1
            BY <1>4
        <3>6. (r.i + 1) - 1 = r.i
            BY <1>4
        <3> HIDE DEF r
        <3>7. \A j \in 1 .. r.i + 1 : Append(r.got, db[r.i])[j] =
                  Part(good.w, good.vlen, good.n, j - 1)
            BY <1>6, <3>3, <3>4, <3>5, <3>6
        <3> QED BY <1>6, <1>9, <3>1, <3>3, <3>7
    <2> QED BY <1>1, <1>3, <1>10, <1>11, <2>1 DEF GetInv
<1>21. LateInv'
    <2>1. ASSUME Getting(c)' PROVE cl'[c].w = 0
        <3>1. cl'[c].clean = r.clean
            <4>1. cl'[c].rc # -1
                BY <2>1 DEF Getting
            <4> QED BY <1>9, <4>1
        <3>2. Getting(c)
            BY <1>1, <1>4, <2>1, <3>1 DEF Getting
        <3> QED BY <1>3, <1>9, <3>2 DEF LateInv
    <2>2. Plain' = Plain
        BY DEF Plain
    <2> QED BY <1>1, <1>3, <1>10, <1>11, <1>12, <2>1, <2>2 DEF LateInv
<1> QED
    BY <1>17, <1>18, <1>19, <1>20, <1>21 DEF ValueInv

\* A step of the layer.
LEMMA BkvNextInv ==
    ASSUME ValueInv, present \subseteq Has(db), NEW c \in Client, BkvNext(c)
    PROVE  /\ ValueInv'
           /\ present' \subseteq present /\ present' \subseteq Has(db')
<1>0. /\ KLens \subseteq Nat /\ VLens \subseteq Nat /\ BKV_N_MAXKEYS \in Nat
      /\ 0 .. BKV_N_MAXKEYS \subseteq Key /\ Plain \in Key
      /\ \A k \in 0 .. BKV_N_MAXKEYS - 1 : k \in Key /\ k # Plain
    BY BasicKVAssumption DEF Plain
<1>T. ValueType
    BY DEF ValueInv
<1>1. ASSUME NEW klen \in KLens, NEW vlen \in VLens, bkv_putn(c, klen, vlen)
      PROVE  ValueInv' /\ db' = db /\ present' = present
    <2> DEFINE n == NumKeys(vlen)
               ok == KeyFitsN(klen) /\ vlen > 0 /\ ~(n > BKV_N_MAXKEYS)
               rec == [NoCall EXCEPT !.op = "putn", !.w = calls + 1,
                           !.n = n, !.vlen = vlen,
                           !.clean = ~\E d \in Client : Writing(d)]
    <2>1. /\ Start(c, ok, rec, TRUE) /\ before' = IF ok THEN db ELSE before
        BY <1>1 DEF bkv_putn
    <2>2. vlen \in Nat /\ n \in Nat /\ calls + 1 \in Nat /\ ok \in BOOLEAN
        <3>1. vlen \in Nat /\ VALLEN \in Nat \ {0}
            BY <1>0, BasicKVAssumption
        <3>2. vlen \div VALLEN \in Nat
            BY <3>1, DivMod
        <3>3. n \in Nat
            BY <3>2 DEF NumKeys
        <3> QED BY <1>T, <3>1, <3>3 DEF ValueType
    <2>3. ok => n > 0 /\ n <= BKV_N_MAXKEYS /\ vlen > 0
        BY <1>0, <2>2, NumKeysIs
    <2> HIDE DEF n, ok
    <2>4. /\ rec \in CallRec /\ rec.op = "putn" /\ rec.rc = 0 /\ rec.i = 0
          /\ rec.got = <<>> /\ rec.n = n /\ rec.vlen = vlen
          /\ rec.w = calls + 1
          /\ rec.clean => \A d \in Client : ~Writing(d)
        <3>1. NoCall \in CallRec /\ NoCall.rc = 0 /\ NoCall.i = 0
              /\ NoCall.got = <<>>
            BY NoCallType DEF NoCall
        <3>2. (~\E d \in Client : Writing(d)) \in BOOLEAN
            OBVIOUS
        <3>3. rec \in CallRec
            BY <2>2, <3>1, <3>2 DEF CallRec, MultiOps
        <3>4. /\ rec.op = "putn" /\ rec.rc = 0 /\ rec.i = 0
              /\ rec.got = <<>> /\ rec.n = n /\ rec.vlen = vlen
              /\ rec.w = calls + 1
            BY <3>1 DEF CallRec
        <3>5. rec.clean <=> ~\E d \in Client : Writing(d)
            BY <3>1 DEF CallRec
        <3> QED BY <3>3, <3>4, <3>5
    <2> HIDE DEF rec
    <2>5. ValueInv'
        <3>1. /\ rec.op \in MultiOps /\ rec.op \in {"putn", "deln"}
              /\ TRUE \in BOOLEAN /\ rec.op # "getn"
              /\ rec.n = NumKeys(rec.vlen)
            BY <2>4 DEF MultiOps, n
        <3>2. before' = IF ok /\ rec.op = "putn" THEN db ELSE before
            BY <2>1, <2>4
        <3> QED BY <2>1, <2>2, <2>3, <2>4, <3>1, <3>2, StartInv
    <2> QED BY <2>1, <2>5 DEF Start, storevars
<1>2. ASSUME NEW klen \in KLens, NEW n \in 0 .. BKV_N_MAXKEYS + 1,
             bkv_getn(c, klen, n)
      PROVE  ValueInv' /\ db' = db /\ present' = present
    <2> DEFINE ok == KeyFitsN(klen) /\ n > 0 /\ ~(n > BKV_N_MAXKEYS)
               rec == [NoCall EXCEPT !.op = "getn", !.n = n,
                           !.clean = good # NoValue /\ n = good.n]
    <2>1. /\ Start(c, ok, rec, FALSE) /\ before' = before
        BY <1>2 DEF bkv_getn
    <2>2. n \in Nat /\ ok \in BOOLEAN /\ (ok => n > 0 /\ n <= BKV_N_MAXKEYS)
        BY <1>0
    <2> HIDE DEF ok
    <2>4. /\ rec \in CallRec /\ rec.op = "getn" /\ rec.rc = 0 /\ rec.i = 0
          /\ rec.got = <<>> /\ rec.n = n /\ rec.w = 0
          /\ rec.clean => good # NoValue /\ n = good.n
        <3>1. NoCall \in CallRec /\ NoCall.rc = 0 /\ NoCall.i = 0
              /\ NoCall.got = <<>> /\ NoCall.w = 0
            BY NoCallType DEF NoCall
        <3>2. (good # NoValue /\ n = good.n) \in BOOLEAN
            OBVIOUS
        <3>3. rec \in CallRec
            BY <2>2, <3>1, <3>2 DEF CallRec, MultiOps
        <3>4. /\ rec.op = "getn" /\ rec.rc = 0 /\ rec.i = 0
              /\ rec.got = <<>> /\ rec.n = n /\ rec.w = 0
            BY <3>1 DEF CallRec
        <3>5. rec.clean <=> good # NoValue /\ n = good.n
            BY <3>1 DEF CallRec
        <3> QED BY <3>3, <3>4, <3>5
    <2> HIDE DEF rec
    <2>5. ValueInv'
        <3>1. /\ rec.op \in MultiOps /\ rec.op \notin {"putn", "deln"}
              /\ FALSE \in BOOLEAN /\ rec.op # "putn"
            BY <2>4 DEF MultiOps
        <3>2. before' = IF ok /\ rec.op = "putn" THEN db ELSE before
            BY <2>1, <2>4
        <3> QED BY <2>1, <2>2, <2>4, <3>1, <3>2, StartInv
    <2> QED BY <2>1, <2>5 DEF Start, storevars
<1>3. ASSUME NEW klen \in KLens, NEW n \in 0 .. BKV_N_MAXKEYS + 1,
             bkv_deln(c, klen, n)
      PROVE  ValueInv' /\ db' = db /\ present' = present
    <2> DEFINE ok == KeyFitsN(klen) /\ n > 0 /\ ~(n > BKV_N_MAXKEYS)
               rec == [NoCall EXCEPT !.op = "deln", !.w = calls + 1, !.n = n]
    <2>1. /\ Start(c, ok, rec, TRUE) /\ before' = before
        BY <1>3 DEF bkv_deln
    <2>0. calls + 1 \in Nat
        BY <1>T DEF ValueType
    <2>2. n \in Nat /\ ok \in BOOLEAN /\ (ok => n > 0 /\ n <= BKV_N_MAXKEYS)
        BY <1>0
    <2> HIDE DEF ok
    <2>4. /\ rec \in CallRec /\ rec.op = "deln" /\ rec.rc = 0 /\ rec.i = 0
          /\ rec.got = <<>> /\ rec.n = n /\ rec.w = calls + 1
        <3>1. NoCall \in CallRec /\ NoCall.rc = 0 /\ NoCall.i = 0
              /\ NoCall.got = <<>>
            BY NoCallType DEF NoCall
        <3>3. rec \in CallRec
            BY <2>0, <2>2, <3>1 DEF CallRec, MultiOps
        <3>4. /\ rec.op = "deln" /\ rec.rc = 0 /\ rec.i = 0
              /\ rec.got = <<>> /\ rec.n = n /\ rec.w = calls + 1
            BY <3>1 DEF CallRec
        <3> QED BY <3>3, <3>4
    <2> HIDE DEF rec
    <2>5. ValueInv'
        <3>1. /\ rec.op \in MultiOps /\ rec.op \in {"putn", "deln"}
              /\ TRUE \in BOOLEAN /\ rec.op # "putn" /\ rec.op # "getn"
            BY <2>4 DEF MultiOps
        <3>2. before' = IF ok /\ rec.op = "putn" THEN db ELSE before
            BY <2>1, <2>4
        <3> QED BY <2>1, <2>2, <2>4, <3>1, <3>2, StartInv
    <2> QED BY <2>1, <2>5 DEF Start, storevars
<1>4. ASSUME NEW v \in PartRec, NEW op, NEW ok \in BOOLEAN,
             op \in {"put", "get", "del", "exists"},
             Update(calls + 1, Plain, v, ok),
             One(c, op, IF ok THEN 1 ELSE -1, <<>>)
      PROVE  /\ ValueInv'
             /\ present' \subseteq present /\ present' \subseteq Has(db')
    <2>1. /\ db' \in [Key -> PartRec]
          /\ \A j \in Key : j # Plain => db'[j] = db[j]
          /\ present' \subseteq present /\ present' \subseteq Has(db')
          /\ \A u \in late' :
                 u \in late \/ u = [w |-> calls + 1, k |-> Plain, v |-> v]
        <3>1. db \in [Key -> PartRec] /\ calls + 1 \in Nat
            BY <1>T DEF ValueType
        <3> QED BY <1>0, <1>4, <3>1, UpdateIs
    <2>2. \A k \in 0 .. BKV_N_MAXKEYS - 1 : db'[k] = db[k]
        BY <1>0, <2>1
    <2>3. /\ (IF ok THEN 1 ELSE -1) \in Int \ {0} /\ <<>> \in Seq(PartRec)
        OBVIOUS
    <2>4. \A u \in late' : u \in late \/ (/\ u \in LateRec /\ u.k = Plain
                                         /\ u.w = calls + 1)
        <3>1. calls + 1 \in Nat
            BY <1>T DEF ValueType
        <3> QED BY <1>0, <1>4, <2>1, <3>1 DEF LateRec
    <2> QED BY <1>4, <2>1, <2>2, <2>3, <2>4, OneInv
<1>5. ASSUME NEW op, NEW rc, NEW got, UNCHANGED storevars,
             One(c, op, rc, got), op \in {"put", "get", "del", "exists"},
             rc \in {1, 2, -1}, got \in Seq(PartRec)
      PROVE  ValueInv' /\ db' = db /\ present' = present
    <2>1. db' = db /\ present' = present /\ late' = late
        BY <1>5 DEF storevars
    <2>2. db' \in [Key -> PartRec] /\ rc \in Int \ {0}
        BY <1>T, <1>5, <2>1 DEF ValueType
    <2> QED BY <1>5, <2>1, <2>2, OneInv
<1>6. <<>> \in Seq(PartRec) /\ <<db[Plain]>> \in Seq(PartRec)
    BY <1>0, <1>T DEF ValueType
<1>7. ASSUME NEW klen \in KLens, NEW vlen \in VLens, bkv_put(c, klen, vlen)
      PROVE  /\ ValueInv'
             /\ present' \subseteq present /\ present' \subseteq Has(db')
    <2>1. [w |-> calls + 1, i |-> 0, len |-> vlen] \in PartRec
        BY <1>0, <1>T DEF ValueType, PartRec
    <2>2. CASE \E ok \in BOOLEAN :
                  /\ Update(calls + 1, Plain,
                            [w |-> calls + 1, i |-> 0, len |-> vlen], ok)
                  /\ One(c, "put", IF ok THEN 1 ELSE -1, <<>>)
        BY <1>4, <2>1, <2>2
    <2>3. CASE One(c, "put", -1, <<>>) /\ UNCHANGED storevars
        <3>1. ValueInv' /\ db' = db /\ present' = present
            BY <1>5, <1>6, <2>3
        <3> QED BY <3>1 DEF Has
    <2> QED BY <1>7, <2>2, <2>3 DEF bkv_put
<1>8. ASSUME NEW klen \in KLens, bkv_del(c, klen)
      PROVE  /\ ValueInv'
             /\ present' \subseteq present /\ present' \subseteq Has(db')
    <2>1. Absent \in PartRec
        BY DEF Absent, PartRec
    <2>2. CASE \E ok \in BOOLEAN :
                  /\ Update(calls + 1, Plain, Absent, ok)
                  /\ One(c, "del", IF ok THEN 1 ELSE -1, <<>>)
        BY <1>4, <2>1, <2>2
    <2>3. CASE One(c, "del", -1, <<>>) /\ UNCHANGED storevars
        <3>1. ValueInv' /\ db' = db /\ present' = present
            BY <1>5, <1>6, <2>3
        <3> QED BY <3>1 DEF Has
    <2> QED BY <1>8, <2>2, <2>3 DEF bkv_del
<1>9. ASSUME NEW klen \in KLens, bkv_get(c, klen) \/ bkv_exists(c, klen)
      PROVE  ValueInv' /\ db' = db /\ present' = present
    <2>1. CASE bkv_get(c, klen)
        <3>1. UNCHANGED storevars
            BY <2>1 DEF bkv_get
        <3>2. CASE One(c, "get", 1, <<db[Plain]>>)
            BY <1>5, <1>6, <3>1, <3>2
        <3>3. CASE One(c, "get", -1, <<>>)
            BY <1>5, <1>6, <3>1, <3>3
        <3> QED BY <2>1, <3>2, <3>3 DEF bkv_get
    <2>2. CASE bkv_exists(c, klen)
        <3>1. UNCHANGED storevars
            BY <2>2 DEF bkv_exists
        <3>2. CASE One(c, "exists", IF db[Plain] # Absent THEN 1 ELSE 2, <<>>)
            <4>1. (IF db[Plain] # Absent THEN 1 ELSE 2) \in {1, 2, -1}
                OBVIOUS
            <4> QED BY <1>5, <1>6, <3>1, <3>2, <4>1
        <3>3. CASE One(c, "exists", -1, <<>>)
            BY <1>5, <1>6, <3>1, <3>3
        <3> QED BY <2>2, <3>2, <3>3 DEF bkv_exists
    <2> QED BY <1>9, <2>1, <2>2
<1>10. ASSUME GetPart(c)
       PROVE  ValueInv' /\ db' = db /\ present' = present
    BY <1>10, GetPartInv DEF GetPart, storevars
<1>11. ASSUME ValueInv' /\ db' = db /\ present' = present
       PROVE  /\ ValueInv'
              /\ present' \subseteq present /\ present' \subseteq Has(db')
    BY <1>11 DEF Has
<1>12. CASE PutPart(c)
    BY <1>12, PutPartInv
<1>13. CASE DelPart(c)
    BY <1>13, DelPartInv
<1> QED
    BY <1>1, <1>2, <1>3, <1>7, <1>8, <1>9, <1>10, <1>11, <1>12, <1>13
    DEF BkvNext

\* The device executes a request whose call has failed.
LEMMA LateExecutionInv ==
    ASSUME ValueInv, present \subseteq Has(db), LateExecution
    PROVE  /\ ValueInv'
           /\ present' \subseteq present /\ present' \subseteq Has(db')
<1>1. PICK u \in late :
          /\ late' = late \ {u} /\ Store(u.k, u.v)
          /\ cl' = [d \in Client |->
                 [cl[d] EXCEPT !.clean = @ /\ (u.k # Plain => cl[d].w = u.w)]]
          /\ good' = IF u.k # Plain THEN NoValue ELSE good
          /\ calls' = calls /\ before' = before
    BY DEF LateExecution, Arrives
<1>2. /\ ValueType /\ BusyInv /\ WriterInv /\ AloneInv /\ PutInv /\ GoodInv
      /\ GetInv /\ LateInv
    BY DEF ValueInv
<1>3. /\ u \in LateRec /\ u.k \in Key /\ u.v \in PartRec /\ 0 < u.w
    BY <1>2 DEF LateInv, LateRec
<1>4. /\ db' \in [Key -> PartRec] /\ present' \subseteq present
      /\ present' \subseteq Has(db')
      /\ \A k \in Key : k # u.k => db'[k] = db[k]
    BY <1>1, <1>2, <1>3 DEF Store, ValueType
<1>5. ASSUME NEW d \in Client
      PROVE  /\ cl'[d] \in CallRec
             /\ \A x \in {"op", "w", "n", "vlen", "i", "got", "rc"} :
                    cl'[d][x] = cl[d][x]
             /\ cl'[d].clean => cl[d].clean /\ (u.k # Plain => cl[d].w = u.w)
    <2>1. cl[d] \in CallRec
        BY <1>2 DEF ValueType
    <2>2. cl'[d] = [cl[d] EXCEPT
                        !.clean = cl[d].clean /\ (u.k # Plain => cl[d].w = u.w)]
        BY <1>1
    <2>3. (cl[d].clean /\ (u.k # Plain => cl[d].w = u.w)) \in BOOLEAN
        OBVIOUS
    <2>4. cl'[d] \in CallRec
        BY <2>1, <2>2, <2>3 DEF CallRec
    <2>5. \A x \in {"op", "w", "n", "vlen", "i", "got", "rc"} :
              cl'[d][x] = cl[d][x]
        BY <2>1, <2>2 DEF CallRec
    <2>6. cl'[d].clean <=> cl[d].clean /\ (u.k # Plain => cl[d].w = u.w)
        BY <2>1, <2>2 DEF CallRec
    <2> QED BY <2>4, <2>5, <2>6
<1>6. \A d \in Client :
          /\ Busy(d)' <=> Busy(d)
          /\ Writing(d)' <=> Writing(d)
          /\ Putting(d)' => Putting(d) /\ (u.k # Plain => cl[d].w = u.w)
          /\ Getting(d)' => Getting(d) /\ (u.k # Plain => cl[d].w = u.w)
    BY <1>5 DEF Busy, Writing, Putting, Getting
<1>7. \A k \in 0 .. BKV_N_MAXKEYS - 1 : k \in Key /\ k # Plain
    BY BasicKVAssumption DEF Plain
<1>8. ASSUME NEW d \in Client, Getting(d)'
      PROVE  good' = good /\ Getting(d)
    <2>1. Getting(d) /\ (u.k # Plain => cl[d].w = u.w)
        BY <1>6, <1>8
    <2>2. cl[d].w = 0
        BY <1>2, <2>1 DEF LateInv
    <2>3. u.k = Plain
        BY <1>3, <2>1, <2>2
    <2> QED BY <1>1, <2>1, <2>3
<1>9. ValueType'
    <2>1. cl' \in [Client -> CallRec]
        BY <1>1, <1>5
    <2>2. good' \in [w : Nat, n : Nat, vlen : Nat]
        BY <1>1, <1>2 DEF ValueType, NoValue
    <2> QED BY <1>1, <1>2, <1>4, <2>1, <2>2 DEF ValueType
<1>10. BusyInv'
    BY <1>2, <1>5, <1>6 DEF BusyInv
<1>11. WriterInv'
    BY <1>1, <1>2, <1>6 DEF WriterInv
<1>12. AloneInv'
    BY <1>2, <1>6 DEF AloneInv
<1>13. PutInv'
    <2>1. ASSUME NEW d \in Client, Putting(d)',
                 NEW k \in 0 .. BKV_N_MAXKEYS - 1
          PROVE  /\ k < cl'[d].i =>
                        db'[k] = Part(cl'[d].w, cl'[d].vlen, cl'[d].n, k)
                 /\ k > cl'[d].i => db'[k] = before'[k]
        <3>1. Putting(d) /\ (u.k # Plain => u.k = cl[d].i)
            BY <1>2, <1>6, <2>1 DEF LateInv
        <3>2. /\ cl'[d].i = cl[d].i /\ cl'[d].w = cl[d].w
              /\ cl'[d].vlen = cl[d].vlen /\ cl'[d].n = cl[d].n
            BY <1>5
        <3>3. cl[d].i \in Nat
            BY <1>2 DEF ValueType, CallRec
        <3>4. k # cl[d].i => db'[k] = db[k]
            BY <1>4, <1>7, <3>1
        <3>5. k < cl[d].i \/ k > cl[d].i => k # cl[d].i
            BY <3>3
        <3> QED BY <1>1, <1>2, <3>1, <3>2, <3>4, <3>5 DEF PutInv
    <2> QED BY <2>1 DEF PutInv
<1>14. GoodInv'
    <2> SUFFICES ASSUME good' # NoValue PROVE GoodInv'
        BY DEF GoodInv
    <2>1. good' = good /\ u.k = Plain
        BY <1>1
    <2>2. good.n \in Nat /\ good.n <= BKV_N_MAXKEYS /\ BKV_N_MAXKEYS \in Nat
        BY <1>2, <2>1, BasicKVAssumption DEF GoodInv, ValueType
    <2>3. \A k \in 0 .. good.n - 1 : k \in 0 .. BKV_N_MAXKEYS - 1
        BY <2>2
    <2>4. \A k \in 0 .. good.n - 1 : db'[k] = db[k]
        BY <1>4, <1>7, <2>1, <2>3
    <2> QED BY <1>2, <2>1, <2>4 DEF GoodInv
<1>15. GetInv'
    BY <1>2, <1>5, <1>8 DEF GetInv
<1>16. LateInv'
    <2>1. \A c \in Client : Writing(c)' => 0 < cl'[c].w /\ cl'[c].w <= calls'
        BY <1>1, <1>2, <1>5, <1>6 DEF LateInv
    <2>2. \A c \in Client : Getting(c)' => cl'[c].w = 0
        BY <1>2, <1>5, <1>6 DEF LateInv
    <2>3. ASSUME NEW c \in Client, NEW x \in late', Putting(c)',
                 x.w = cl'[c].w, x.k # Plain
          PROVE  x.k = cl'[c].i /\ cl'[c].rc = -1
        <3>1. /\ x \in late /\ Putting(c) /\ cl'[c].w = cl[c].w
              /\ cl'[c].i = cl[c].i /\ cl'[c].rc = cl[c].rc
            BY <1>1, <1>5, <1>6, <2>3
        <3> QED BY <1>2, <2>3, <3>1 DEF LateInv
    <2>4. Plain' = Plain
        BY DEF Plain
    <2> QED BY <1>1, <1>2, <2>1, <2>2, <2>3, <2>4 DEF LateInv
<1> QED
    BY <1>4, <1>9, <1>10, <1>11, <1>12, <1>13, <1>14, <1>15, <1>16 DEF ValueInv

----------------------------------------------------------------------------
\* The theorems.

StoreInv == ValueInv /\ IterInv

\* No step of the layer or of the iterator breaks the invariants.
LEMMA StoreNext == StoreInv /\ [Next]_vars => StoreInv'
<1> SUFFICES ASSUME StoreInv, [Next]_vars PROVE StoreInv'
    OBVIOUS
<1> USE DEF StoreInv
<1>0. present \subseteq Has(db) /\ ValueInv /\ IterInv
    BY DEF IterInv
<1>1. CASE \E c \in Client : BkvNext(c) /\ UNCHANGED it
    <2>1. PICK c \in Client : BkvNext(c) /\ it' = it
        BY <1>1
    <2>2. /\ ValueInv'
          /\ present' \subseteq present /\ present' \subseteq Has(db')
        BY <1>0, <2>1, BkvNextInv
    <2> QED BY <1>0, <2>1, <2>2, IterKept
<1>2. CASE IterNext /\ UNCHANGED bkvvars
    <2>1. IterInv'
        BY <1>0, <1>2, IterNextInv
    <2>2. db' = db /\ late' = late
        BY <1>2 DEF IterNext, ki_start, StartFails, NextDone, NextInWindow,
                    NextWindow, NextFails, Restart, Stops, storevars
    <2>3. cl' = cl /\ calls' = calls /\ good' = good /\ before' = before
        BY <1>2 DEF bkvvars
    <2>4. ValueInv'
        BY <1>0, <2>2, <2>3
        DEF ValueInv, ValueType, BusyInv, WriterInv, AloneInv, PutInv, GoodInv,
            GetInv, LateInv, Putting, Getting, Writing, Busy, Plain
    <2> QED BY <2>1, <2>4
<1>3. CASE UNCHANGED vars
    <2>1. /\ db' = db /\ present' = present /\ late' = late /\ it' = it
          /\ cl' = cl /\ calls' = calls /\ good' = good /\ before' = before
        BY <1>3 DEF vars, storevars, bkvvars
    <2>2. ValueInv'
        BY <1>0, <2>1
        DEF ValueInv, ValueType, BusyInv, WriterInv, AloneInv, PutInv, GoodInv,
            GetInv, LateInv, Putting, Getting, Writing, Busy, Plain
    <2>3. present' \subseteq present /\ present' \subseteq Has(db')
        BY <1>0, <2>1 DEF Has
    <2> QED BY <1>0, <2>1, <2>2, <2>3, IterKept
<1>4. CASE LateExecution /\ UNCHANGED it
    <2>1. /\ ValueInv'
          /\ present' \subseteq present /\ present' \subseteq Has(db')
        BY <1>0, <1>4, LateExecutionInv
    <2> QED BY <1>0, <1>4, <2>1, IterKept
<1> QED BY <1>1, <1>2, <1>3, <1>4 DEF Next

\* Both invariants hold in every reachable state.
LEMMA StoreAlways == Spec => []StoreInv
<1>1. Init => StoreInv
    BY ValueInit, IterInvInit DEF StoreInv
<1> QED BY <1>1, StoreNext, PTL DEF Spec

\* basickv.c: however many clients call, wherever a request fails and whenever
\* it is executed after all, what bkv_getn returns for a value that neither
\* another call nor a late request of one has disturbed is that value, whole
\* and of its length, and a bkv_putn that fails leaves the parts before the
\* failed one stored and those behind it as they were.
THEOREM SpecValuesExact == Spec => []ValuesExact
<1>1. StoreInv => ValuesExact
    BY ValuesExactFollows DEF StoreInv
<1> QED BY <1>1, StoreAlways, PTL

\* iter.c: whatever the clients store and delete meanwhile, the iterator
\* returns keys of the range in ascending order, no more than asked for, and
\* passes over none that was there all the time.
THEOREM SpecIterSound == Spec => []IterSound
<1>1. StoreInv => IterSound
    BY IterSoundFollows DEF StoreInv
<1> QED BY <1>1, StoreAlways, PTL
=============================================================================
