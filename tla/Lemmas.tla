------------------------------- MODULE Lemmas -------------------------------
(***************************************************************************)
(* Facts about sequences, numbers and sums that the proofs about the       *)
(* components share.  (That a sum is the sum of the values cannot be shown *)
(* without induction over data, and no proof needs it: they need what it   *)
(* is after one of the values has changed by one.)                         *)
(***************************************************************************)
EXTENDS Totals, Sequences, Functions, SequenceTheorems, FiniteSetTheorems,
        WellFoundedInduction, TLAPS

-----------------------------------------------------------------------------
(* What taking the head off a list, putting an element at either end,      *)
(* joining two lists and taking an element out of one do to the elements   *)
(* and to their distinctness.                                              *)

LEMMA TailElements ==
    ASSUME NEW S, NEW s \in Seq(S), s # <<>>
    PROVE  /\ Head(s) \in S /\ Tail(s) \in Seq(S) /\ Len(Tail(s)) = Len(s) - 1
           /\ Range(s) = Range(Tail(s)) \cup {Head(s)}
           /\ IsInjective(s) => IsInjective(Tail(s)) /\ Head(s) \notin Range(Tail(s))
  <1>1. /\ Head(s) \in S /\ Tail(s) \in Seq(S)
        /\ Len(Tail(s)) = Len(s) - 1 /\ Len(s) \in Nat \ {0}
        /\ \A i \in 1 .. Len(Tail(s)) : Tail(s)[i] = s[i + 1]
        /\ Head(s) = s[1]
    BY HeadTailProperties, EmptySeq
  <1>2. /\ Range(s) = {s[i] : i \in 1 .. Len(s)}
        /\ Range(Tail(s)) = {Tail(s)[i] : i \in 1 .. Len(Tail(s))}
    <2>1. Range(s) = {s[i] : i \in 1 .. Len(s)}
      BY RangeEquality
    <2>2. Tail(s) \in Seq(S)
      BY <1>1
    <2>3. Range(Tail(s)) = {Tail(s)[i] : i \in 1 .. Len(Tail(s))}
      BY <2>2, RangeEquality
    <2> QED  BY <2>1, <2>3
  <1>3. ASSUME NEW x \in Range(s), x # Head(s)
        PROVE  x \in Range(Tail(s))
    <2>1. PICK i \in 1 .. Len(s) : x = s[i]
      BY <1>2
    <2>2. PICK j \in 1 .. Len(Tail(s)) : i = j + 1
      <3>1. i # 1
        BY <1>1, <1>3, <2>1
      <3>2. i - 1 \in 1 .. Len(Tail(s)) /\ i = (i - 1) + 1
        BY <1>1, <3>1
      <3> QED  BY <3>2
    <2>3. Tail(s)[j] = x
      BY <1>1, <2>1, <2>2
    <2> QED  BY <1>2, <2>3
  <1>4. Range(Tail(s)) \subseteq Range(s) /\ Head(s) \in Range(s)
    BY <1>1, <1>2
  <1>5. ASSUME IsInjective(s)
        PROVE  IsInjective(Tail(s)) /\ Head(s) \notin Range(Tail(s))
    <2>1. DOMAIN s = 1 .. Len(s) /\ DOMAIN Tail(s) = 1 .. Len(Tail(s))
      BY <1>1
    <2> QED  BY <1>1, <1>2, <1>5, <2>1 DEF IsInjective
  <1> QED  BY <1>1, <1>3, <1>4, <1>5

LEMMA AppendElements ==
    ASSUME NEW S, NEW s \in Seq(S), NEW x \in S
    PROVE  /\ Append(s, x) \in Seq(S) /\ Len(Append(s, x)) = Len(s) + 1
           /\ Range(Append(s, x)) = Range(s) \cup {x}
           /\ IsInjective(s) /\ x \notin Range(s) => IsInjective(Append(s, x))
  <1>1. /\ Append(s, x) \in Seq(S) /\ Len(Append(s, x)) = Len(s) + 1 /\ Len(s) \in Nat
        /\ \A i \in 1 .. Len(s) : Append(s, x)[i] = s[i]
        /\ Append(s, x)[Len(s) + 1] = x
    BY AppendProperties
  <1>2. /\ Range(s) = {s[i] : i \in 1 .. Len(s)}
        /\ Range(Append(s, x)) = {Append(s, x)[i] : i \in 1 .. Len(s) + 1}
    BY <1>1, RangeEquality
  <1>3. DOMAIN s = 1 .. Len(s) /\ DOMAIN Append(s, x) = 1 .. (Len(s) + 1)
    BY <1>1
  <1>4. Range(Append(s, x)) = Range(s) \cup {x}
    BY <1>1, <1>2
  <1>5. IsInjective(s) /\ x \notin Range(s) => IsInjective(Append(s, x))
    BY <1>1, <1>2, <1>3 DEF IsInjective
  <1> QED  BY <1>1, <1>4, <1>5

(* The list <<x>> \o s: a label pushed, or a child linked as the first.    *)
LEMMA PushElements ==
    ASSUME NEW S, NEW s \in Seq(S), NEW x \in S
    PROVE  /\ <<x>> \o s \in Seq(S) /\ Len(<<x>> \o s) = Len(s) + 1 /\ <<x>> \o s # <<>>
           /\ Head(<<x>> \o s) = x /\ Tail(<<x>> \o s) = s
           /\ Range(<<x>> \o s) = {x} \cup Range(s)
           /\ IsInjective(s) /\ x \notin Range(s) => IsInjective(<<x>> \o s)
  <1> DEFINE p == <<x>> \o s
  <1>1. <<x>> \in Seq(S) /\ Len(<<x>>) = 1 /\ <<x>>[1] = x
    OBVIOUS
  <1>2. /\ p \in Seq(S) /\ Len(p) = Len(s) + 1 /\ Len(s) \in Nat
        /\ \A i \in 1 .. Len(s) + 1 : p[i] = IF i <= 1 THEN x ELSE s[i - 1]
    BY <1>1, ConcatProperties, LenProperties
  <1>3. p # <<>>
    BY <1>2, EmptySeq
  <1> HIDE DEF p
  <1>4. Head(p) = x
    BY <1>2, <1>3
  <1>5. Tail(p) = s
    <2>1. /\ Tail(p) \in Seq(S) /\ Len(Tail(p)) = Len(s)
          /\ \A i \in 1 .. Len(Tail(p)) : Tail(p)[i] = p[i + 1]
      BY <1>2, <1>3, HeadTailProperties
    <2>2. \A i \in 1 .. Len(s) : Tail(p)[i] = s[i]
      BY <1>2, <2>1
    <2> QED  BY <2>1, <2>2, SeqEqual
  <1>6. /\ Range(p) = Range(Tail(p)) \cup {Head(p)}
    BY <1>2, <1>3, TailElements
  <1>7. ASSUME IsInjective(s), x \notin Range(s) PROVE IsInjective(p)
    <2>1. DOMAIN p = 1 .. Len(s) + 1 /\ DOMAIN s = 1 .. Len(s)
      BY <1>2
    <2>2. \A i \in 1 .. Len(s) : s[i] \in Range(s)
      BY RangeEquality
    <2>3. \A i \in 2 .. Len(s) + 1 : p[i] = s[i - 1] /\ i - 1 \in 1 .. Len(s)
      BY <1>2
    <2>4. p[1] = x
      BY <1>2
    <2>5. \A i \in 1 .. Len(s) + 1 : i = 1 \/ i \in 2 .. Len(s) + 1
      BY <1>2
    <2>6. ASSUME NEW i \in 2 .. Len(s) + 1, NEW j \in 2 .. Len(s) + 1, p[i] = p[j] PROVE i = j
      <3>1. s[i - 1] = s[j - 1] /\ i - 1 \in DOMAIN s /\ j - 1 \in DOMAIN s
        BY <2>1, <2>3, <2>6
      <3>2. i - 1 = j - 1
        BY <1>7, <3>1 DEF IsInjective
      <3> QED  BY <3>2
    <2>7. \A i \in 2 .. Len(s) + 1 : p[i] # p[1]
      BY <1>7, <2>2, <2>3, <2>4
    <2> QED  BY <2>1, <2>5, <2>6, <2>7 DEF IsInjective
  <1> QED  BY <1>2, <1>3, <1>4, <1>5, <1>6, <1>7 DEF p

LEMMA ConcatElements ==
    ASSUME NEW S, NEW s \in Seq(S), NEW t \in Seq(S)
    PROVE  /\ s \o t \in Seq(S) /\ Len(s \o t) = Len(s) + Len(t)
           /\ Range(s \o t) = Range(s) \cup Range(t)
           /\ IsInjective(s) /\ IsInjective(t) /\ Range(s) \cap Range(t) = {} => IsInjective(s \o t)
  <1>1. /\ s \o t \in Seq(S) /\ Len(s \o t) = Len(s) + Len(t)
        /\ Len(s) \in Nat /\ Len(t) \in Nat
        /\ \A i \in 1 .. Len(s) + Len(t) :
              (s \o t)[i] = IF i <= Len(s) THEN s[i] ELSE t[i - Len(s)]
    BY ConcatProperties
  <1>2. Range(s) = {s[i] : i \in 1 .. Len(s)} /\ Range(t) = {t[i] : i \in 1 .. Len(t)}
    BY RangeEquality
  <1>3. ASSUME IsInjective(s), IsInjective(t), Range(s) \cap Range(t) = {}
        PROVE  IsInjective(s \o t)
    <2> SUFFICES ASSUME NEW i \in 1 .. Len(s) + Len(t), NEW j \in 1 .. Len(s) + Len(t),
                        (s \o t)[i] = (s \o t)[j]
                 PROVE  i = j
      BY <1>1 DEF IsInjective
    <2>1. CASE i <= Len(s) /\ j <= Len(s)
      BY <1>1, <1>3, <2>1 DEF IsInjective
    <2>2. CASE i > Len(s) /\ j > Len(s)
      <3>1. t[i - Len(s)] = t[j - Len(s)] /\ i - Len(s) \in DOMAIN t /\ j - Len(s) \in DOMAIN t
        BY <1>1, <2>2
      <3> QED  BY <1>1, <1>3, <2>2, <3>1 DEF IsInjective
    <2>3. \A k, l \in 1 .. Len(s) + Len(t) : k <= Len(s) /\ l > Len(s) => (s \o t)[k] # (s \o t)[l]
      <3> SUFFICES ASSUME NEW k \in 1 .. Len(s) + Len(t), NEW l \in 1 .. Len(s) + Len(t),
                          k <= Len(s), l > Len(s)
                   PROVE  (s \o t)[k] # (s \o t)[l]
        OBVIOUS
      <3>1. (s \o t)[k] \in Range(s)
        BY <1>1, <1>2
      <3>2. (s \o t)[l] \in Range(t)
        <4>1. l - Len(s) \in 1 .. Len(t) /\ (s \o t)[l] = t[l - Len(s)]
          BY <1>1
        <4> QED  BY <4>1, <1>2
      <3> QED  BY <1>3, <3>1, <3>2
    <2> QED  BY <1>1, <2>1, <2>2, <2>3
  <1> QED  BY <1>1, <1>3, RangeConcatenation

(* A list without its i-th element (Unlinked, the chain of children).      *)
LEMMA CutElements ==
    ASSUME NEW S, NEW s \in Seq(S), NEW i \in 1 .. Len(s)
    PROVE  LET u == SubSeq(s, 1, i - 1) \o SubSeq(s, i + 1, Len(s))
           IN  /\ u \in Seq(S) /\ Len(u) = Len(s) - 1
               /\ Range(u) \subseteq Range(s) /\ Range(s) \subseteq Range(u) \cup {s[i]}
               /\ IsInjective(s) => IsInjective(u) /\ s[i] \notin Range(u)
  <1> DEFINE a == SubSeq(s, 1, i - 1)
             b == SubSeq(s, i + 1, Len(s))
             u == a \o b
             n == Len(s)
  <1>1. n \in Nat /\ DOMAIN s = 1 .. n /\ i \in 1 .. n /\ \A j \in 1 .. n : s[j] \in S
    BY LenProperties, ElementOfSeq
  <1>2. a \in Seq(S) /\ Len(a) = i - 1 /\ \A j \in 1 .. i - 1 : a[j] = s[j]
    <2>1. \A j \in 1 .. i - 1 : s[j] \in S
      BY <1>1
    <2>2. /\ a \in Seq(S) /\ Len(a) = IF 1 <= i - 1 THEN (i - 1) - 1 + 1 ELSE 0
          /\ \A j \in 1 .. (i - 1) - 1 + 1 : a[j] = s[1 + j - 1]
      BY <1>1, <2>1, SubSeqProperties
    <2> HIDE DEF a
    <2> QED  BY <1>1, <2>2
  <1>3. b \in Seq(S) /\ Len(b) = n - i /\ \A j \in 1 .. n - i : b[j] = s[i + j]
    <2>1. \A j \in i + 1 .. n : s[j] \in S
      BY <1>1
    <2>2. /\ b \in Seq(S) /\ Len(b) = IF i + 1 <= n THEN n - (i + 1) + 1 ELSE 0
          /\ \A j \in 1 .. n - (i + 1) + 1 : b[j] = s[(i + 1) + j - 1]
      BY <1>1, <2>1, SubSeqProperties
    <2> HIDE DEF b
    <2>3. i \in Int /\ n \in Int /\ i <= n
      BY <1>1
    <2> HIDE DEF n
    <2>4. n - (i + 1) + 1 = n - i
      BY <2>3
    <2>5. ~(i + 1 <= n) => n - i = 0
      BY <2>3
    <2>6. \A j \in 1 .. n - i : (i + 1) + j - 1 = i + j
      BY <2>3
    <2> QED  BY <2>2, <2>4, <2>5, <2>6
  <1> HIDE DEF a, b
  <1>4. /\ u \in Seq(S) /\ Len(u) = n - 1
        /\ \A j \in 1 .. n - 1 : u[j] = IF j <= i - 1 THEN a[j] ELSE b[j - (i - 1)]
    <2>0. a \in Seq(S) /\ b \in Seq(S)
      BY <1>2, <1>3
    <2>1. /\ u \in Seq(S) /\ Len(u) = Len(a) + Len(b)
          /\ \A j \in 1 .. Len(a) + Len(b) : u[j] = IF j <= Len(a) THEN a[j] ELSE b[j - Len(a)]
      BY <2>0, ConcatProperties, Zenon
    <2>2. Len(a) + Len(b) = n - 1
      BY <1>1, <1>2, <1>3
    <2> HIDE DEF u
    <2> QED  BY <1>2, <2>1, <2>2
  <1> HIDE DEF u
  <1>5. \A j \in 1 .. n - 1 : u[j] = IF j < i THEN s[j] ELSE s[j + 1]
    <2> SUFFICES ASSUME NEW j \in 1 .. n - 1 PROVE u[j] = IF j < i THEN s[j] ELSE s[j + 1]
      OBVIOUS
    <2>1. CASE j < i
      BY <1>1, <1>2, <1>4, <2>1
    <2>2. CASE ~(j < i)
      <3>1. j - (i - 1) \in 1 .. n - i /\ i + (j - (i - 1)) = j + 1 /\ ~(j <= i - 1)
        BY <1>1, <2>2
      <3>2. b[j - (i - 1)] = s[j + 1]
        BY <1>3, <3>1
      <3> QED  BY <1>4, <2>2, <3>1, <3>2
    <2> QED  BY <2>1, <2>2
  <1>6. Range(s) = {s[j] : j \in 1 .. n} /\ Range(u) = {u[j] : j \in 1 .. n - 1}
    <2>1. Range(s) = {s[j] : j \in 1 .. n}
      BY RangeEquality
    <2>2. Range(u) = {u[j] : j \in 1 .. Len(u)}
      BY <1>4, RangeEquality
    <2> QED  BY <1>4, <2>1, <2>2
  <1>7. Range(u) \subseteq Range(s)
    BY <1>1, <1>5, <1>6
  <1>8. ASSUME NEW j \in 1 .. n, j # i PROVE s[j] \in Range(u)
    <2>1. CASE j < i
      <3>1. j \in 1 .. n - 1 /\ u[j] = s[j]
        BY <1>1, <1>5, <2>1
      <3> QED  BY <1>6, <3>1
    <2>2. CASE j > i
      <3>1. j - 1 \in 1 .. n - 1 /\ ~(j - 1 < i) /\ (j - 1) + 1 = j
        BY <1>1, <2>2
      <3>2. u[j - 1] = s[j]
        BY <1>5, <3>1
      <3> QED  BY <1>6, <3>1, <3>2
    <2> QED  BY <1>1, <1>8, <2>1, <2>2
  <1>9. Range(s) \subseteq Range(u) \cup {s[i]}
    BY <1>6, <1>8
  <1>10. ASSUME IsInjective(s) PROVE IsInjective(u) /\ s[i] \notin Range(u)
    <2>1. DOMAIN u = 1 .. n - 1
      BY <1>1, <1>4
    <2>2. \A j, k \in 1 .. n : s[j] = s[k] => j = k
      BY <1>1, <1>10 DEF IsInjective
    <2>3. ASSUME NEW j \in 1 .. n - 1, NEW k \in 1 .. n - 1, u[j] = u[k] PROVE j = k
      BY <1>1, <1>5, <2>2, <2>3
    <2>4. \A j \in 1 .. n - 1 : u[j] # s[i]
      BY <1>1, <1>5, <2>2
    <2> QED  BY <1>6, <2>1, <2>3, <2>4 DEF IsInjective
  <1> QED  BY <1>4, <1>7, <1>9, <1>10 DEF u, a, b

(* A list without repetition has as many elements as its length says.      *)
LEMMA DistinctCardinality ==
    ASSUME NEW S, NEW s \in Seq(S), IsInjective(s)
    PROVE  IsFiniteSet(Range(s)) /\ Cardinality(Range(s)) = Len(s)
  <1> DEFINE D == 1 .. Len(s)
  <1>1. Len(s) \in Nat /\ DOMAIN s = D /\ s \in [D -> Range(s)] /\ Range(s) = {s[i] : i \in D}
    <2>1. s \in [D -> S] /\ Len(s) \in Nat
      BY LenProperties
    <2>2. Range(s) = {s[i] : i \in D}
      BY RangeEquality
    <2> QED  BY <2>1, <2>2
  <1>2. IsFiniteSet(D) /\ Cardinality(D) = Len(s)
    <2>1. 1 \in Int /\ Len(s) \in Int /\ Len(s) - 1 + 1 = Len(s) /\ (1 > Len(s) => Len(s) = 0)
      BY <1>1
    <2> QED  BY <2>1, FS_Interval
  <1>3. s \in Bijection(D, Range(s))
    BY <1>1 DEF Bijection, Injection, Surjection, IsInjective
  <1> QED  BY <1>2, <1>3, FS_Bijection DEF ExistsBijection

LEMMA DisjointUnion ==
    ASSUME NEW S, NEW T, IsFiniteSet(S), IsFiniteSet(T), S \cap T = {}
    PROVE  IsFiniteSet(S \cup T) /\ Cardinality(S \cup T) = Cardinality(S) + Cardinality(T)
  <1>1. /\ IsFiniteSet(S \cup T)
        /\ Cardinality(S \cup T) = Cardinality(S) + Cardinality(T) - Cardinality(S \cap T)
    BY FS_Union
  <1>2. Cardinality(S \cap T) = 0 /\ Cardinality(S) \in Nat /\ Cardinality(T) \in Nat
    BY FS_EmptySet, FS_CardinalityType
  <1> QED  BY <1>1, <1>2

(* A set of natural numbers that is not empty has a least element, and a   *)
(* greatest one if it is bounded.                                          *)
LEMMA Least ==
    ASSUME NEW T, T \subseteq Nat, T # {}
    PROVE  \E i \in T : \A j \in T : i <= j
  <1>1. PICK i \in T : \A j \in T : ~(<<j, i>> \in OpToRel(<, Nat))
    BY NatLessThanWellFounded, WFMin
  <1>2. \A j \in T : ~(j < i)
    BY <1>1 DEF OpToRel
  <1> QED  BY <1>2

LEMMA Greatest ==
    ASSUME NEW n \in Nat, NEW T, T \subseteq 1 .. n, T # {}
    PROVE  \E i \in T : \A j \in T : j <= i
  <1> DEFINE M == {n - j : j \in T}
  <1>1. M \subseteq Nat /\ M # {}
    <2>1. \A j \in T : n - j \in Nat
      OBVIOUS
    <2>2. PICK j \in T : TRUE
      OBVIOUS
    <2> QED  BY <2>1, <2>2
  <1>2. PICK m \in M : \A k \in M : m <= k
    BY <1>1, Least
  <1>3. PICK i \in T : m = n - i
    BY <1>2
  <1>4. \A j \in T : n - i <= n - j
    BY <1>2, <1>3
  <1> QED  BY <1>4

-----------------------------------------------------------------------------
(* Sums.                                                                   *)

(* A unit is a pair of an element and a number up to its value.            *)
LEMMA InUnits ==
    ASSUME NEW S, NEW f \in [S -> Nat], NEW p
    PROVE  p \in Units(f) <=> \E m \in S : \E k \in 1 .. f[m] : p = <<m, k>>
  BY DEF Units

LEMMA TotalType ==
    ASSUME NEW S, IsFiniteSet(S), NEW f \in [S -> Nat] PROVE IsFiniteSet(Units(f)) /\ Total(f) \in Nat
  <1> DEFINE Of == [m \in S |-> {m} \X (1 .. f[m])]
             All0 == {{m} \X (1 .. f[m]) : m \in S}
  <1>1. Of \in Surjection(S, All0)
    BY DEF Surjection
  <1>2. IsFiniteSet(All0)
    BY <1>1, FS_Surjection
  <1>3. ASSUME NEW m \in S PROVE IsFiniteSet({m} \X (1 .. f[m]))
    <2>1. IsFiniteSet({m})
      BY FS_Singleton
    <2>2. 1 \in Int /\ f[m] \in Int
      OBVIOUS
    <2>3. IsFiniteSet(1 .. f[m])
      BY <2>2, FS_Interval
    <2> QED  BY <2>1, <2>3, FS_Product
  <1>4. IsFiniteSet(Units(f))
    <2>1. \A T \in All0 : IsFiniteSet(T)
      BY <1>3
    <2>2. Units(f) = UNION All0
      BY DEF Units
    <2> HIDE DEF All0
    <2> QED  BY <1>2, <2>1, <2>2, FS_UNION
  <1> QED  BY <1>4, FS_CardinalityType DEF Total

(* One unit more, for one element.                                         *)
LEMMA TotalMore ==
    ASSUME NEW S, IsFiniteSet(S), NEW f \in [S -> Nat], NEW g \in [S -> Nat], NEW m \in S,
           g[m] = f[m] + 1, \A k \in S \ {m} : g[k] = f[k]
    PROVE  Total(g) = Total(f) + 1
  <1>1. <<m, g[m]>> \notin Units(f)
    BY InUnits
  <1>2. Units(g) = Units(f) \cup {<<m, g[m]>>}
    <2>1. ASSUME NEW p \in Units(g) PROVE p \in Units(f) \cup {<<m, g[m]>>}
      <3>1. PICK n \in S : \E k \in 1 .. g[n] : p = <<n, k>>
        BY <2>1, InUnits
      <3>2. PICK k \in 1 .. g[n] : p = <<n, k>>
        BY <3>1
      <3>3. k \in 1 .. f[n] \/ (n = m /\ k = g[m])
        OBVIOUS
      <3> QED  BY <3>2, <3>3, InUnits
    <2>2. ASSUME NEW p \in Units(f) PROVE p \in Units(g)
      <3>1. PICK n \in S : \E k \in 1 .. f[n] : p = <<n, k>>
        BY <2>2, InUnits
      <3>2. PICK k \in 1 .. f[n] : p = <<n, k>>
        BY <3>1
      <3>3. k \in 1 .. g[n]
        OBVIOUS
      <3> QED  BY <3>2, <3>3, InUnits
    <2>3. <<m, g[m]>> \in Units(g)
      <3>1. g[m] \in 1 .. g[m]
        OBVIOUS
      <3> QED  BY <3>1, InUnits
    <2> QED  BY <2>1, <2>2, <2>3
  <1> QED  BY <1>1, <1>2, TotalType, FS_AddElement DEF Total

LEMMA TotalLess ==
    ASSUME NEW S, IsFiniteSet(S), NEW f \in [S -> Nat], NEW g \in [S -> Nat], NEW m \in S,
           g[m] = f[m] - 1, \A k \in S \ {m} : g[k] = f[k]
    PROVE  Total(g) = Total(f) - 1
  <1>1. f[m] = g[m] + 1
    OBVIOUS
  <1>2. Total(f) = Total(g) + 1
    BY <1>1, TotalMore
  <1> QED  BY <1>2, TotalType

(* The same for functions that a step changes with EXCEPT.                 *)
LEMMA TotalInc ==
    ASSUME NEW S, IsFiniteSet(S), NEW f \in [S -> Nat], NEW m \in S
    PROVE  Total([f EXCEPT ![m] = @ + 1]) = Total(f) + 1
  <1> DEFINE g == [f EXCEPT ![m] = @ + 1]
  <1>1. /\ g \in [S -> Nat] /\ g[m] = f[m] + 1
        /\ \A k \in S \ {m} : g[k] = f[k]
    OBVIOUS
  <1> HIDE DEF g
  <1>2. Total(g) = Total(f) + 1
    BY <1>1, TotalMore
  <1> QED  BY <1>2 DEF g

LEMMA TotalDec ==
    ASSUME NEW S, IsFiniteSet(S), NEW f \in [S -> Nat], NEW m \in S, f[m] > 0
    PROVE  Total([f EXCEPT ![m] = @ - 1]) = Total(f) - 1
  <1> DEFINE g == [f EXCEPT ![m] = @ - 1]
  <1>1. /\ g \in [S -> Nat] /\ g[m] = f[m] - 1
        /\ \A k \in S \ {m} : g[k] = f[k]
    OBVIOUS
  <1> HIDE DEF g
  <1>2. Total(g) = Total(f) - 1
    BY <1>1, TotalLess
  <1> QED  BY <1>2 DEF g

LEMMA TotalZero ==
    ASSUME NEW S, IsFiniteSet(S), NEW f \in [S -> Nat], \A m \in S : f[m] = 0 PROVE Total(f) = 0
  <1>1. Units(f) = {}
    BY InUnits
  <1> QED  BY <1>1, FS_EmptySet DEF Total
=============================================================================
