------------------------- MODULE WinChildrenProofs --------------------------
(***************************************************************************)
(* Theorems about WinChildren, for any number of children and of workers.  *)
(***************************************************************************)
EXTENDS WinChildren, Lemmas

-----------------------------------------------------------------------------
(* Chains.  Leads(nx, s, c) and Line(nx, c) are Linked(s, c) and Below(c)  *)
(* for the pointers nx: those before a step, or those after it.            *)

Leads(nx, s, c) ==
    /\ c = IF s = <<>> THEN Nil ELSE s[1]
    /\ \A i \in DOMAIN s : nx[s[i]] = IF i = Len(s) THEN Nil ELSE s[i + 1]

Line(nx, c) == CHOOSE s \in SeqOf(Children, Cardinality(Children)) : Leads(nx, s, c)

LEMMA ChainIsLine ==
    ASSUME NEW l
    PROVE  Chain(l) = Line(next, tail[l]) /\ Chain(l)' = Line(next', tail'[l])
  BY DEF Chain, Below, Line, Linked, Leads

LEMMA BelowIsLine == ASSUME NEW c PROVE Below(c) = Line(next, c)
  BY DEF Below, Line, Linked, Leads

(* There is one chain, at most, from a child to an end.                    *)
LEMMA LineIs ==
    ASSUME NEW nx, NEW c, NEW s \in Seq(Children), IsInjective(s), Leads(nx, s, c)
    PROVE  Line(nx, c) = s
  <1> USE WinChildrenAssumption
  <1> DEFINE N == Cardinality(Children)
             n == Len(s)
  <1>1. n \in Nat /\ s \in [1 .. n -> Children]
    BY LenProperties
  <1>2. n \in 0 .. N
    <2>1. Cardinality(Range(s)) = n /\ Range(s) \subseteq Children
      BY DistinctCardinality, RangeOfSeq
    <2>2. Cardinality(Range(s)) <= N /\ N \in Nat
      BY <2>1, FS_Subset, FS_CardinalityType
    <2> QED  BY <1>1, <2>1, <2>2
  <1>3. s \in SeqOf(Children, N)
    BY <1>1, <1>2 DEF SeqOf
  <1> HIDE DEF N
  <1>4. PICK t \in SeqOf(Children, N) : t = Line(nx, c) /\ Leads(nx, t, c)
    BY <1>3 DEF Line, N
  <1>5. PICK m \in 0 .. N : t \in [1 .. m -> Children]
    BY DEF SeqOf
  <1>6. m \in Nat /\ Len(t) = m /\ t \in Seq(Children)
    <2>1. m \in Nat
      BY <1>2
    <2> QED  BY <1>5, <2>1, IsASeq
  <1>7. /\ \A i \in 1 .. n : s[i] \in Children
        /\ \A i \in 1 .. m : t[i] \in Children
    BY <1>1, <1>5
  <1>8. /\ c = IF n = 0 THEN Nil ELSE s[1]
        /\ \A i \in 1 .. n : nx[s[i]] = IF i = n THEN Nil ELSE s[i + 1]
    BY <1>1, EmptySeq DEF Leads
  <1>9. /\ c = IF m = 0 THEN Nil ELSE t[1]
        /\ \A i \in 1 .. m : nx[t[i]] = IF i = m THEN Nil ELSE t[i + 1]
    <2>1. t = <<>> <=> m = 0
      BY <1>6, EmptySeq
    <2>2. DOMAIN t = 1 .. m
      BY <1>5
    <2> QED  BY <1>4, <1>6, <2>1, <2>2 DEF Leads
  <1> HIDE DEF n
  <1>10. \A i \in 1 .. n : i <= m /\ t[i] = s[i]
    <2> DEFINE Bad == {i \in 1 .. n : ~(i <= m /\ t[i] = s[i])}
    <2> SUFFICES ASSUME Bad # {} PROVE FALSE
      OBVIOUS
    <2>1. PICK i \in Bad : \A j \in Bad : i <= j
      <3>1. Bad \subseteq Nat
        BY <1>1
      <3> HIDE DEF Bad
      <3> QED  BY <3>1, Least
    <2>2. CASE i = 1
      <3>1. c = s[1] /\ c # Nil
        BY <1>1, <1>7, <1>8, <2>2
      <3>2. m >= 1 /\ t[1] = c
        BY <1>6, <1>9, <3>1
      <3> QED  BY <2>2, <3>1, <3>2
    <2>3. CASE i # 1
      <3>1. i - 1 \in 1 .. n /\ i - 1 # n /\ (i - 1) + 1 = i /\ i \in 1 .. n
        BY <1>1, <2>3
      <3>2. i - 1 <= m /\ t[i - 1] = s[i - 1]
        <4>1. i - 1 \notin Bad
          <5>1. ~(i <= i - 1)
            BY <3>1
          <5> HIDE DEF Bad
          <5> QED  BY <2>1, <5>1
        <4> QED  BY <3>1, <4>1
      <3>3. nx[t[i - 1]] = s[i] /\ s[i] # Nil
        BY <1>7, <1>8, <3>1, <3>2
      <3>4. i - 1 # m /\ nx[t[i - 1]] = t[i]
        BY <1>6, <1>9, <3>1, <3>2, <3>3
      <3>5. i <= m
        BY <1>1, <1>6, <3>1, <3>2, <3>4
      <3> QED  BY <3>1, <3>3, <3>4, <3>5
    <2> QED  BY <2>2, <2>3
  <1>11. m = n
    <2>1. CASE n = 0
      <3>1. c = Nil
        BY <1>8, <2>1
      <3>2. m # 0 => t[1] \in Children
        BY <1>6, <1>7
      <3> QED  BY <1>9, <2>1, <3>1, <3>2
    <2>2. CASE n # 0
      <3>1. n \in 1 .. n /\ n <= m /\ n \in 1 .. m
        BY <1>1, <1>6, <1>10, <2>2
      <3>2. nx[t[n]] = Nil
        BY <1>8, <1>10, <3>1
      <3>3. n # m => n + 1 \in 1 .. m
        BY <1>6, <3>1
      <3> QED  BY <1>7, <1>9, <3>1, <3>2, <3>3
    <2> QED  BY <2>1, <2>2
  <1>12. t = s
    BY <1>1, <1>5, <1>10, <1>11
  <1> QED  BY <1>4, <1>12

(* What a chain looks like from one of its children on.                    *)
LEMMA LineFrom ==
    ASSUME NEW nx, NEW c, NEW s \in Seq(Children), IsInjective(s), Leads(nx, s, c),
           NEW j \in 1 .. Len(s)
    PROVE  LET u == Line(nx, s[j])
           IN  /\ u \in Seq(Children) /\ Len(u) = Len(s) - j + 1
               /\ \A k \in 1 .. Len(s) - j + 1 : u[k] = s[j + k - 1]
  <1> DEFINE u == SubSeq(s, j, Len(s))
             n == Len(s)
  <1>1. n \in Nat /\ DOMAIN s = 1 .. n /\ \A i \in 1 .. n : s[i] \in Children
    BY LenProperties, ElementOfSeq
  <1>2. /\ u \in Seq(Children) /\ Len(u) = n - j + 1
        /\ \A k \in 1 .. n - j + 1 : u[k] = s[j + k - 1]
    <2>1. \A i \in j .. n : s[i] \in Children
      BY <1>1
    <2>2. /\ u \in Seq(Children) /\ Len(u) = IF j <= n THEN n - j + 1 ELSE 0
          /\ \A k \in 1 .. n - j + 1 : u[k] = s[j + k - 1]
      BY <1>1, <2>1, SubSeqProperties
    <2> QED  BY <2>2
  <1> HIDE DEF u
  <1>3. DOMAIN u = 1 .. n - j + 1
    BY <1>2, LenProperties
  <1> HIDE DEF n
  <1>4. n - j + 1 \in Nat \ {0} /\ j \in Nat \ {0} /\ j <= n
    BY <1>1 DEF n
  <1>5. IsInjective(u)
    <2> SUFFICES ASSUME NEW a \in 1 .. n - j + 1, NEW b \in 1 .. n - j + 1, u[a] = u[b]
                 PROVE  a = b
      BY <1>3 DEF IsInjective
    <2>1. s[j + a - 1] = s[j + b - 1]
      BY <1>2
    <2>2. j + a - 1 \in 1 .. n /\ j + b - 1 \in 1 .. n
      BY <1>1, <1>4
    <2>3. j + a - 1 = j + b - 1
      BY <1>1, <2>1, <2>2 DEF IsInjective
    <2> QED  BY <1>4, <2>3
  <1>6. Leads(nx, u, s[j])
    <2>1. u # <<>> /\ u[1] = s[j]
      <3>1. 1 \in 1 .. n - j + 1 /\ j + 1 - 1 = j
        BY <1>4
      <3>2. u # <<>>
        BY <1>2, <1>4, EmptySeq
      <3> QED  BY <1>2, <3>1, <3>2
    <2>2. ASSUME NEW k \in 1 .. n - j + 1
          PROVE  nx[u[k]] = IF k = n - j + 1 THEN Nil ELSE u[k + 1]
      <3>1. /\ j + k - 1 \in 1 .. n
            /\ k = n - j + 1 <=> j + k - 1 = n
            /\ k # n - j + 1 => k + 1 \in 1 .. n - j + 1
            /\ (j + k - 1) + 1 = j + (k + 1) - 1
        BY <1>1, <1>4
      <3>2. nx[s[j + k - 1]] = IF j + k - 1 = n THEN Nil ELSE s[(j + k - 1) + 1]
        BY <1>1, <3>1 DEF Leads, n
      <3>3. u[k] = s[j + k - 1] /\ (k # n - j + 1 => u[k + 1] = s[j + (k + 1) - 1])
        BY <1>2, <3>1
      <3> QED  BY <3>1, <3>2, <3>3
    <2> QED  BY <1>2, <1>3, <2>1, <2>2 DEF Leads
  <1>7. Line(nx, s[j]) = u
    BY <1>2, <1>5, <1>6, LineIs
  <1> QED  BY <1>2, <1>7 DEF n

(* The list without its oldest child, and the list it is when read from    *)
(* the oldest one.                                                         *)
LEMMA FrontElements ==
    ASSUME NEW S, NEW s \in Seq(S), s # <<>>
    PROVE  /\ Front(s) \in Seq(S) /\ Len(Front(s)) = Len(s) - 1
           /\ \A i \in 1 .. Len(s) - 1 : Front(s)[i] = s[i]
           /\ Range(s) = Range(Front(s)) \cup {s[Len(s)]}
           /\ IsInjective(s) => IsInjective(Front(s)) /\ s[Len(s)] \notin Range(Front(s))
  <1> DEFINE n == Len(s)
  <1>1. n \in Nat \ {0} /\ DOMAIN s = 1 .. n /\ \A i \in 1 .. n : s[i] \in S
    BY LenProperties, ElementOfSeq, EmptySeq
  <1>2. /\ Front(s) \in Seq(S) /\ Len(Front(s)) = n - 1
        /\ \A i \in 1 .. n - 1 : Front(s)[i] = s[i]
    <2>1. \A i \in 1 .. n - 1 : s[i] \in S
      BY <1>1
    <2>2. /\ SubSeq(s, 1, n - 1) \in Seq(S)
          /\ Len(SubSeq(s, 1, n - 1)) = IF 1 <= n - 1 THEN (n - 1) - 1 + 1 ELSE 0
          /\ \A i \in 1 .. (n - 1) - 1 + 1 : SubSeq(s, 1, n - 1)[i] = s[1 + i - 1]
      BY <1>1, <2>1, SubSeqProperties
    <2>3. Front(s) = SubSeq(s, 1, n - 1)
      BY DEF Front
    <2> HIDE DEF n
    <2>4. (n - 1) - 1 + 1 = n - 1 /\ (1 <= n - 1 \/ n - 1 = 0) /\ \A i \in 1 .. n - 1 : 1 + i - 1 = i
      BY <1>1
    <2> QED  BY <2>2, <2>3, <2>4
  <1> DEFINE f == Front(s)
  <1> HIDE DEF f
  <1>3. Range(s) = {s[i] : i \in 1 .. n} /\ Range(f) = {f[i] : i \in 1 .. n - 1}
    <2>1. Range(s) = {s[i] : i \in 1 .. n}
      BY RangeEquality
    <2>2. Range(f) = {f[i] : i \in 1 .. Len(f)}
      BY <1>2, RangeEquality DEF f
    <2> QED  BY <1>2, <2>1, <2>2 DEF f
  <1>4. DOMAIN f = 1 .. n - 1 /\ \A i \in 1 .. n - 1 : f[i] = s[i]
    BY <1>2 DEF f
  <1> HIDE DEF n
  <1>5. \A i \in 1 .. n : i = n \/ i \in 1 .. n - 1
    BY <1>1
  <1>6. n \in 1 .. n /\ \A i \in 1 .. n - 1 : i \in 1 .. n /\ i # n
    BY <1>1
  <1>7. Range(s) = Range(f) \cup {s[n]}
    BY <1>3, <1>4, <1>5, <1>6
  <1>8. IsInjective(s) => IsInjective(f) /\ s[n] \notin Range(f)
    BY <1>1, <1>3, <1>4, <1>6 DEF IsInjective
  <1> QED  BY <1>2, <1>7, <1>8 DEF f, n

LEMMA ReverseElements ==
    ASSUME NEW S, NEW s \in Seq(S)
    PROVE  /\ Reverse(s) \in Seq(S) /\ Len(Reverse(s)) = Len(s)
           /\ \A i \in 1 .. Len(s) : Reverse(s)[i] = s[Len(s) - i + 1]
           /\ Range(Reverse(s)) = Range(s)
  <1> DEFINE r == Reverse(s)
             n == Len(s)
  <1>1. n \in Nat /\ \A i \in 1 .. n : s[i] \in S
    BY LenProperties, ElementOfSeq
  <1>2. r = [i \in 1 .. n |-> s[n - i + 1]]
    BY DEF Reverse
  <1> HIDE DEF r, n
  <1>3. \A i \in 1 .. n : n - i + 1 \in 1 .. n /\ n - (n - i + 1) + 1 = i
    BY <1>1
  <1>4. r \in [1 .. n -> S]
    BY <1>1, <1>2, <1>3
  <1>5. r \in Seq(S) /\ Len(r) = n
    BY <1>1, <1>4, IsASeq
  <1>6. Range(s) = {s[i] : i \in 1 .. n} /\ Range(r) = {r[i] : i \in 1 .. n}
    <2>1. Range(s) = {s[i] : i \in 1 .. n}
      BY RangeEquality DEF n
    <2>2. Range(r) = {r[i] : i \in 1 .. Len(r)}
      BY <1>5, RangeEquality
    <2> QED  BY <1>5, <2>1, <2>2
  <1>7. Range(r) = Range(s)
    BY <1>2, <1>3, <1>6
  <1> QED  BY <1>2, <1>5, <1>7 DEF r, n

(* A child is added at the end of the list that is read from the oldest    *)
(* one, and the oldest one is its head.                                    *)
LEMMA ReversePush ==
    ASSUME NEW S, NEW s \in Seq(S), NEW x \in S
    PROVE  Reverse(<<x>> \o s) = Append(Reverse(s), x)
  <1> DEFINE p == <<x>> \o s
             a == Append(Reverse(s), x)
             n == Len(s)
  <1>1. /\ p \in Seq(S) /\ Len(p) = n + 1 /\ n \in Nat
        /\ \A i \in 1 .. n + 1 : p[i] = IF i <= 1 THEN x ELSE s[i - 1]
    <2>1. <<x>> \in Seq(S) /\ Len(<<x>>) = 1 /\ <<x>>[1] = x
      OBVIOUS
    <2> QED  BY <2>1, ConcatProperties, LenProperties
  <1>2. /\ Reverse(s) \in Seq(S) /\ Len(Reverse(s)) = n
        /\ \A i \in 1 .. n : Reverse(s)[i] = s[n - i + 1]
    BY ReverseElements
  <1>3. /\ a \in Seq(S) /\ Len(a) = n + 1
        /\ \A i \in 1 .. n : a[i] = Reverse(s)[i]
        /\ a[n + 1] = x
    BY <1>2, AppendProperties
  <1>4. /\ Reverse(p) \in Seq(S) /\ Len(Reverse(p)) = n + 1
        /\ \A i \in 1 .. n + 1 : Reverse(p)[i] = p[(n + 1) - i + 1]
    <2> HIDE DEF p
    <2>1. /\ Reverse(p) \in Seq(S) /\ Len(Reverse(p)) = Len(p)
          /\ \A i \in 1 .. Len(p) : Reverse(p)[i] = p[Len(p) - i + 1]
      BY <1>1, ReverseElements
    <2> QED  BY <1>1, <2>1
  <1> HIDE DEF p, a, n
  <1>5. ASSUME NEW i \in 1 .. n + 1 PROVE Reverse(p)[i] = a[i]
    <2>1. CASE i = n + 1
      <3>1. (n + 1) - i + 1 = 1 /\ 1 \in 1 .. n + 1
        BY <1>1, <2>1
      <3> QED  BY <1>1, <1>3, <1>4, <2>1, <3>1
    <2>2. CASE i # n + 1
      <3>1. /\ i \in 1 .. n /\ (n + 1) - i + 1 \in 1 .. n + 1 /\ ~((n + 1) - i + 1 <= 1)
            /\ ((n + 1) - i + 1) - 1 = n - i + 1
        BY <1>1, <2>2
      <3>2. Reverse(p)[i] = p[(n + 1) - i + 1] /\ a[i] = s[n - i + 1]
        BY <1>2, <1>3, <1>4, <3>1
      <3>3. p[(n + 1) - i + 1] = s[((n + 1) - i + 1) - 1]
        BY <1>1, <3>1
      <3> QED  BY <3>1, <3>2, <3>3
    <2> QED  BY <2>1, <2>2
  <1>6. Reverse(p) = a
    BY <1>3, <1>4, <1>5, SeqEqual
  <1> QED  BY <1>6 DEF p, a

LEMMA ReverseCut ==
    ASSUME NEW S, NEW s \in Seq(S), s # <<>>
    PROVE  /\ Reverse(s) # <<>> /\ Head(Reverse(s)) = s[Len(s)]
           /\ Tail(Reverse(s)) = Reverse(Front(s))
  <1> DEFINE n == Len(s)
             r == Reverse(s)
             f == Front(s)
  <1>1. n \in Nat \ {0}
    BY LenProperties, EmptySeq
  <1>2. /\ r \in Seq(S) /\ Len(r) = n
        /\ \A i \in 1 .. n : r[i] = s[n - i + 1]
    BY ReverseElements
  <1>3. f \in Seq(S) /\ Len(f) = n - 1 /\ \A i \in 1 .. n - 1 : f[i] = s[i]
    BY FrontElements
  <1> HIDE DEF r, f
  <1>4. /\ Reverse(f) \in Seq(S) /\ Len(Reverse(f)) = n - 1
        /\ \A i \in 1 .. n - 1 : Reverse(f)[i] = f[(n - 1) - i + 1]
    <2>1. /\ Reverse(f) \in Seq(S) /\ Len(Reverse(f)) = Len(f)
          /\ \A i \in 1 .. Len(f) : Reverse(f)[i] = f[Len(f) - i + 1]
      BY <1>3, ReverseElements
    <2> HIDE DEF n
    <2> QED  BY <1>3, <2>1
  <1>5. r # <<>>
    BY <1>1, <1>2, EmptySeq
  <1>6. /\ Tail(r) \in Seq(S) /\ Len(Tail(r)) = n - 1 /\ Head(r) = r[1]
        /\ \A i \in 1 .. n - 1 : Tail(r)[i] = r[i + 1]
    <2>1. /\ Head(r) = r[1] /\ Tail(r) \in Seq(S) /\ Len(Tail(r)) = Len(r) - 1
          /\ \A i \in 1 .. Len(Tail(r)) : Tail(r)[i] = r[i + 1]
      BY <1>2, <1>5, HeadTailProperties
    <2> HIDE DEF n
    <2> QED  BY <1>2, <2>1
  <1> HIDE DEF n
  <1>7. Head(r) = s[n]
    <2>1. 1 \in 1 .. n /\ n - 1 + 1 = n
      BY <1>1
    <2> QED  BY <1>2, <1>6, <2>1
  <1>8. ASSUME NEW i \in 1 .. n - 1 PROVE Tail(r)[i] = Reverse(f)[i]
    <2>1. /\ i + 1 \in 1 .. n /\ n - (i + 1) + 1 = n - i
          /\ (n - 1) - i + 1 = n - i /\ n - i \in 1 .. n - 1
      BY <1>1
    <2>2. Tail(r)[i] = s[n - i]
      BY <1>2, <1>6, <2>1
    <2>3. Reverse(f)[i] = s[n - i]
      BY <1>3, <1>4, <2>1
    <2> QED  BY <2>2, <2>3
  <1>9. Tail(r) = Reverse(f)
    BY <1>4, <1>6, <1>8, SeqEqual
  <1> QED  BY <1>5, <1>7, <1>9 DEF r, f, n

-----------------------------------------------------------------------------
(* Every list is a chain without a cycle, and a child is on one at most.   *)

Listed(l)     == Range(Chain(l))
WellLinked(l) == /\ Chain(l) \in Seq(Children) /\ IsInjective(Chain(l))
                 /\ Leads(next, Chain(l), tail[l])
Chains        == /\ tail \in [Lists -> Pointers] /\ next \in [Children -> Pointers]
                 /\ \A l \in Lists : WellLinked(l)
ListsApart    == \A l, m \in Lists : l # m => Listed(l) \cap Listed(m) = {}

LEMMA TailIsFirst ==
    ASSUME NEW l \in Lists, WellLinked(l)
    PROVE  /\ Chain(l) = <<>> => tail[l] = Nil
           /\ Chain(l) # <<>> => tail[l] = Chain(l)[1] /\ tail[l] \in Listed(l)
           /\ Listed(l) \subseteq Children
           /\ Chain(l) = <<>> <=> Listed(l) = {}
  <1>1. Listed(l) = {Chain(l)[i] : i \in 1 .. Len(Chain(l))} /\ Listed(l) \subseteq Children
    BY RangeEquality, RangeOfSeq DEF WellLinked, Listed
  <1>2. Chain(l) # <<>> => 1 \in 1 .. Len(Chain(l))
    <2>1. Len(Chain(l)) \in Nat /\ (Chain(l) # <<>> => Len(Chain(l)) # 0)
      BY LenProperties, EmptySeq DEF WellLinked
    <2> QED  BY <2>1
  <1>3. Chain(l) = <<>> => Listed(l) = {}
    BY DEF Listed, Range
  <1> QED  BY <1>1, <1>2, <1>3 DEF WellLinked, Leads

(* A step that writes none of its pointers leaves a list as it is.         *)
LEMMA Untouched ==
    ASSUME NEW l \in Lists, WellLinked(l), tail'[l] = tail[l],
           \A c \in Listed(l) : next'[c] = next[c]
    PROVE  WellLinked(l)' /\ Chain(l)' = Chain(l)
  <1>1. PICK s : s = Chain(l)
    OBVIOUS
  <1>2. s \in Seq(Children) /\ IsInjective(s) /\ Leads(next, s, tail[l])
    BY <1>1 DEF WellLinked
  <1>3. \A i \in DOMAIN s : s[i] \in Listed(l)
    BY <1>1 DEF Listed, Range
  <1>4. Leads(next', s, tail'[l])
    BY <1>2, <1>3 DEF Leads
  <1>5. Chain(l)' = s
    BY <1>2, <1>4, LineIs, ChainIsLine
  <1> QED  BY <1>1, <1>2, <1>4, <1>5 DEF WellLinked

LEMMA ListsKept ==
    ASSUME Chains, UNCHANGED lists
    PROVE  Chains' /\ \A l \in Lists : Chain(l)' = Chain(l)
  <1>1. tail' = tail /\ next' = next
    BY DEF lists
  <1>2. \A l \in Lists : WellLinked(l)' /\ Chain(l)' = Chain(l)
    BY <1>1, Untouched DEF Chains
  <1> QED  BY <1>1, <1>2 DEF Chains

(* A child that is on no list becomes the first of one.                    *)
LEMMA PushLists ==
    ASSUME Chains, NEW l \in Lists, NEW c \in Children, NEW e,
           \A m \in Lists : c \notin Listed(m),
           Push(l, c, e)
    PROVE  /\ Chains' /\ Chain(l)' = <<c>> \o Chain(l)
           /\ \A m \in Lists \ {l} : Chain(m)' = Chain(m)
  <1>1. /\ tail[l] = e /\ e \in Pointers
        /\ next' = [next EXCEPT ![c] = e] /\ tail' = [tail EXCEPT ![l] = c]
    BY DEF Push, Chains
  <1>2. tail' \in [Lists -> Pointers] /\ next' \in [Children -> Pointers] /\ tail'[l] = c
    BY <1>1 DEF Chains, Pointers
  <1>3. ASSUME NEW m \in Lists \ {l} PROVE WellLinked(m)' /\ Chain(m)' = Chain(m)
    <2>1. tail'[m] = tail[m]
      BY <1>1 DEF Chains
    <2>2. \A d \in Listed(m) : next'[d] = next[d]
      <3>1. Listed(m) \subseteq Children \ {c}
        BY TailIsFirst DEF Chains
      <3> QED  BY <1>1, <3>1 DEF Chains
    <2> QED  BY <2>1, <2>2, Untouched DEF Chains
  <1>4. PICK s : s = Chain(l)
    OBVIOUS
  <1>5. s \in Seq(Children) /\ IsInjective(s) /\ Leads(next, s, tail[l]) /\ c \notin Range(s)
    BY <1>4 DEF Chains, WellLinked, Listed
  <1> DEFINE p == <<c>> \o s
  <1>6. /\ p \in Seq(Children) /\ Len(p) = Len(s) + 1 /\ p # <<>> /\ IsInjective(p)
        /\ Len(s) \in Nat /\ DOMAIN p = 1 .. Len(s) + 1 /\ DOMAIN s = 1 .. Len(s)
        /\ \A i \in 1 .. Len(s) + 1 : p[i] = IF i <= 1 THEN c ELSE s[i - 1]
    <2>1. /\ p \in Seq(Children) /\ Len(p) = Len(s) + 1 /\ p # <<>> /\ IsInjective(p)
      BY <1>5, PushElements
    <2>2. <<c>> \in Seq(Children) /\ Len(<<c>>) = 1 /\ <<c>>[1] = c
      OBVIOUS
    <2>3. Len(s) \in Nat /\ \A i \in 1 .. 1 + Len(s) : p[i] = IF i <= 1 THEN <<c>>[i] ELSE s[i - 1]
      BY <1>5, <2>2, ConcatProperties, LenProperties
    <2> HIDE DEF p
    <2>4. DOMAIN p = 1 .. Len(s) + 1 /\ DOMAIN s = 1 .. Len(s)
      BY <1>5, <2>1, LenProperties
    <2> QED  BY <2>1, <2>2, <2>3, <2>4
  <1> HIDE DEF p
  <1>7. Leads(next', p, c)
    <2>1. \A i \in 1 .. Len(s) : s[i] \in Children /\ s[i] # c
      BY <1>5, <1>6, ElementOfSeq, RangeEquality
    <2>2. s = <<>> => Len(s) = 0
      OBVIOUS
    <2>3. ASSUME NEW i \in 1 .. Len(s) + 1
          PROVE  next'[p[i]] = IF i = Len(s) + 1 THEN Nil ELSE p[i + 1]
      <3>1. CASE i = 1
        <4>1. next'[p[i]] = e /\ p[i] = c
          BY <1>1, <1>6, <3>1 DEF Chains
        <4>2. CASE s = <<>>
          BY <1>1, <1>5, <2>2, <3>1, <4>1, <4>2 DEF Leads
        <4>3. CASE s # <<>>
          <5>1. Len(s) # 0
            BY <1>5, <4>3, EmptySeq
          <5>2. 2 \in 1 .. Len(s) + 1 /\ i # Len(s) + 1 /\ p[2] = s[1] /\ i + 1 = 2
            BY <1>6, <3>1, <5>1
          <5> QED  BY <1>1, <1>5, <4>1, <4>3, <5>2 DEF Leads
        <4> QED  BY <4>2, <4>3
      <3>2. CASE i # 1
        <4>1. /\ i - 1 \in 1 .. Len(s) /\ p[i] = s[i - 1] /\ (i - 1) + 1 = i
              /\ i - 1 = Len(s) <=> i = Len(s) + 1
          BY <1>6, <3>2
        <4>2. next'[p[i]] = next[s[i - 1]]
          BY <1>1, <2>1, <4>1 DEF Chains
        <4>3. next[s[i - 1]] = IF i - 1 = Len(s) THEN Nil ELSE s[i]
          BY <1>5, <1>6, <4>1 DEF Leads
        <4>4. i # Len(s) + 1 => p[i + 1] = s[i]
          <5>1. i # Len(s) + 1 => i + 1 \in 1 .. Len(s) + 1 /\ ~(i + 1 <= 1) /\ (i + 1) - 1 = i
            BY <1>6, <3>2
          <5> QED  BY <1>6, <5>1
        <4> QED  BY <4>1, <4>2, <4>3, <4>4
      <3> QED  BY <3>1, <3>2
    <2>4. p[1] = c
      BY <1>6
    <2> QED  BY <1>6, <2>3, <2>4 DEF Leads
  <1>8. Chain(l)' = p
    BY <1>2, <1>6, <1>7, LineIs, ChainIsLine
  <1>9. WellLinked(l)'
    BY <1>2, <1>6, <1>7, <1>8 DEF WellLinked
  <1> QED  BY <1>2, <1>3, <1>4, <1>8, <1>9 DEF Chains, p

(* The oldest child of a list is found from any child of it.               *)
LEMMA OldestIsLast ==
    ASSUME NEW c, NEW s \in Seq(Children), IsInjective(s), Leads(next, s, c),
           NEW j \in 1 .. Len(s)
    PROVE  Oldest(s[j]) = s[Len(s)]
  <1> DEFINE u == Line(next, s[j])
             n == Len(s)
  <1>1. n \in Nat /\ j \in 1 .. n
    BY LenProperties
  <1>2. Len(u) = n - j + 1 /\ \A k \in 1 .. n - j + 1 : u[k] = s[j + k - 1]
    BY LineFrom
  <1>3. Oldest(s[j]) = u[Len(u)]
    BY BelowIsLine DEF Oldest
  <1> HIDE DEF n, u
  <1>4. n - j + 1 \in 1 .. n - j + 1 /\ j + (n - j + 1) - 1 = n
    BY <1>1
  <1> QED  BY <1>2, <1>3, <1>4 DEF n

(* The one before the oldest child is found from any other one, and the    *)
(* chain ends with it when its pointer is cleared.                         *)
LEMMA CutLast ==
    ASSUME NEW c, NEW s \in Seq(Children), IsInjective(s), Leads(next, s, c),
           next \in [Children -> Pointers], NEW j \in 1 .. Len(s) - 1
    PROVE  LET prev == CHOOSE p \in Range(Below(s[j])) : next[p] = Oldest(s[j])
           IN  /\ prev = s[Len(s) - 1]
               /\ Leads([next EXCEPT ![prev] = Nil], Front(s), c)
  <1> USE WinChildrenAssumption
  <1> DEFINE n == Len(s)
             u == Line(next, s[j])
             f == Front(s)
  <1>1. n \in Nat /\ j \in 1 .. n - 1 /\ j \in 1 .. n /\ n >= 2 /\ n - 1 \in 1 .. n
    BY LenProperties
  <1>2. DOMAIN s = 1 .. n /\ \A i \in 1 .. n : s[i] \in Children
    BY LenProperties, ElementOfSeq
  <1>3. \A i \in 1 .. n : next[s[i]] = IF i = n THEN Nil ELSE s[i + 1]
    BY <1>2 DEF Leads
  <1>4. Oldest(s[j]) = s[n]
    BY <1>1, OldestIsLast
  <1>5. /\ u \in Seq(Children) /\ Len(u) = n - j + 1
        /\ \A k \in 1 .. n - j + 1 : u[k] = s[j + k - 1]
    BY <1>1, LineFrom
  <1>6. Range(u) = {u[k] : k \in 1 .. n - j + 1}
    <2> HIDE DEF u, n
    <2>1. Range(u) = {u[k] : k \in 1 .. Len(u)}
      BY <1>5, RangeEquality
    <2> QED  BY <1>5, <2>1
  <1>7. f \in Seq(Children) /\ Len(f) = n - 1 /\ \A i \in 1 .. n - 1 : f[i] = s[i]
    <2>1. s # <<>>
      BY <1>1
    <2> QED  BY <2>1, FrontElements
  <1>8. s[n - 1] \in Range(u) /\ next[s[n - 1]] = s[n]
    <2> HIDE DEF n, u
    <2>1. n - j \in 1 .. n - j + 1 /\ j + (n - j) - 1 = n - 1 /\ n - 1 # n /\ (n - 1) + 1 = n
      BY <1>1
    <2>2. u[n - j] = s[n - 1]
      BY <1>5, <2>1
    <2> QED  BY <1>1, <1>3, <1>6, <2>1, <2>2
  <1>9. ASSUME NEW p \in Range(u), next[p] = s[n] PROVE p = s[n - 1]
    <2> HIDE DEF n, u
    <2>1. PICK k \in 1 .. n - j + 1 : p = s[j + k - 1]
      BY <1>5, <1>6
    <2>2. j + k - 1 \in 1 .. n /\ n \in 1 .. n
      BY <1>1
    <2>3. PICK i \in 1 .. n : p = s[i]
      BY <2>1, <2>2
    <2>4. s[n] # Nil
      BY <1>2, <2>2
    <2>5. i # n /\ s[i + 1] = s[n]
      BY <1>3, <1>9, <2>3, <2>4
    <2>6. i + 1 \in 1 .. n
      BY <1>1, <2>5
    <2>7. i + 1 = n
      BY <1>2, <2>2, <2>5, <2>6 DEF IsInjective
    <2>8. i = n - 1
      BY <1>1, <2>7
    <2> QED  BY <2>3, <2>8
  <1> DEFINE prev == CHOOSE p \in Range(Below(s[j])) : next[p] = Oldest(s[j])
  <1>10. prev = s[n - 1]
    <2>1. Below(s[j]) = u
      BY BelowIsLine
    <2> HIDE DEF u, n
    <2>2. prev = CHOOSE p \in Range(u) : next[p] = s[n]
      BY <1>4, <2>1
    <2> QED  BY <1>8, <1>9, <2>2
  <1> HIDE DEF prev, f, u
  <1> DEFINE nx == [next EXCEPT ![prev] = Nil]
  <1>11. Leads(nx, f, c)
    <2> HIDE DEF n
    <2>1. DOMAIN f = 1 .. n - 1 /\ f # <<>> /\ s # <<>> /\ 1 \in 1 .. n - 1
      <3>1. n - 1 # 0 /\ n # 0 /\ 1 \in 1 .. n - 1
        BY <1>1
      <3>2. f # <<>> /\ s # <<>>
        BY <1>7, <3>1, EmptySeq DEF n
      <3> QED  BY <1>7, <3>1, <3>2, LenProperties
    <2>2. c = f[1]
      BY <1>7, <2>1 DEF Leads
    <2>3. ASSUME NEW i \in 1 .. n - 1 PROVE nx[f[i]] = IF i = n - 1 THEN Nil ELSE f[i + 1]
      <3>1. f[i] = s[i] /\ i \in 1 .. n /\ i # n /\ s[i] \in Children
        BY <1>1, <1>2, <1>7
      <3>2. CASE i = n - 1
        BY <1>10, <3>1, <3>2
      <3>3. CASE i # n - 1
        <4>1. s[i] # s[n - 1]
          BY <1>1, <1>2, <3>1, <3>3 DEF IsInjective
        <4>2. nx[f[i]] = s[i + 1]
          BY <1>3, <1>10, <3>1, <4>1
        <4>3. i + 1 \in 1 .. n - 1
          BY <1>1, <3>3
        <4> QED  BY <1>7, <3>3, <4>2, <4>3
      <3> QED  BY <3>2, <3>3
    <2> QED  BY <1>7, <2>1, <2>2, <2>3 DEF Leads
  <1> QED  BY <1>10, <1>11 DEF prev, f, n

(* The oldest child is taken off a list, whichever child of the list the   *)
(* tail was when it was read.                                              *)
LEMMA DequeueLists ==
    ASSUME Chains, ListsApart, NEW l \in Lists, NEW c \in Listed(l), Dequeue(l, c)
    PROVE  /\ Chain(l) # <<>> /\ Dequeued(l, c) = Chain(l)[Len(Chain(l))]
           /\ Chains' /\ Chain(l)' = Front(Chain(l))
           /\ \A m \in Lists \ {l} : Chain(m)' = Chain(m)
  <1> USE WinChildrenAssumption
  <1>1. PICK s : s = Chain(l)
    OBVIOUS
  <1> DEFINE n == Len(s)
             f == Front(s)
  <1>2. s \in Seq(Children) /\ IsInjective(s) /\ Leads(next, s, tail[l])
    BY <1>1 DEF Chains, WellLinked
  <1>3. n \in Nat /\ DOMAIN s = 1 .. n /\ \A i \in 1 .. n : s[i] \in Children
    BY <1>2, LenProperties, ElementOfSeq
  <1>4. PICK k \in 1 .. n : c = s[k]
    BY <1>1, <1>2, RangeEquality DEF Listed
  <1> HIDE DEF n
  <1>5. s # <<>> /\ 1 \in 1 .. n /\ tail[l] = s[1]
    <2>1. n # 0 /\ 1 \in 1 .. n
      BY <1>3, <1>4
    <2>2. s # <<>>
      BY <1>2, <2>1, EmptySeq DEF n
    <2> QED  BY <1>2, <2>1, <2>2 DEF Leads
  <1>6. \A i \in 1 .. n : next[s[i]] = IF i = n THEN Nil ELSE s[i + 1]
    BY <1>2, <1>3 DEF Leads, n
  <1>7. \A i \in 1 .. n : Oldest(s[i]) = s[n]
    BY <1>2, OldestIsLast DEF n
  <1>8. Dequeued(l, c) = s[n]
    BY <1>4, <1>5, <1>7 DEF Dequeued
  <1>9. /\ f \in Seq(Children) /\ Len(f) = n - 1 /\ IsInjective(f)
        /\ Range(f) \subseteq Range(s)
    BY <1>2, <1>5, FrontElements DEF n
  <1>10. CASE next[c] = Nil /\ tail[l] = c
    <2>1. tail' = [tail EXCEPT ![l] = Nil] /\ next' = next
      BY <1>10 DEF Dequeue
    <2>2. n = 1
      <3>1. 1 # n => s[2] # Nil /\ next[s[1]] = s[2]
        <4>1. 1 # n => 2 \in 1 .. n /\ 1 + 1 = 2
          BY <1>3, <1>5
        <4> QED  BY <1>3, <1>5, <1>6, <4>1
      <3> QED  BY <1>5, <1>10, <3>1
    <2>3. f = <<>>
      <3>1. n - 1 = 0
        BY <2>2
      <3> QED  BY <1>9, <3>1, EmptySeq
    <2>4. Leads(next', f, tail'[l])
      BY <2>1, <2>3 DEF Leads, Chains
    <2>5. \A m \in Lists \ {l} : WellLinked(m)' /\ Chain(m)' = Chain(m)
      <3> SUFFICES ASSUME NEW m \in Lists \ {l} PROVE WellLinked(m)' /\ Chain(m)' = Chain(m)
        OBVIOUS
      <3>1. tail'[m] = tail[m]
        BY <2>1 DEF Chains
      <3> QED  BY <2>1, <3>1, Untouched DEF Chains
    <2>6. tail' \in [Lists -> Pointers] /\ next' \in [Children -> Pointers]
      BY <2>1 DEF Chains, Pointers
    <2> HIDE DEF f
    <2>7. Chain(l)' = f
      BY <1>9, <2>4, LineIs, ChainIsLine
    <2>8. WellLinked(l)'
      BY <1>9, <2>4, <2>7 DEF WellLinked
    <2> QED  BY <1>1, <1>5, <1>8, <2>5, <2>6, <2>7, <2>8 DEF Chains, f, n
  <1>11. CASE ~(next[c] = Nil /\ tail[l] = c)
    <2> DEFINE from == IF next[c] = Nil THEN tail[l] ELSE c
               prev == CHOOSE p \in Range(Below(from)) : next[p] = Oldest(from)
    <2>1. tail' = tail /\ next' = [next EXCEPT ![prev] = Nil]
      BY <1>11 DEF Dequeue
    <2>2. PICK j \in 1 .. n - 1 : from = s[j]
      <3>1. CASE next[c] = Nil
        <4>1. 1 # n
          <5>1. k = n => s[k] = s[n]
            OBVIOUS
          <5>2. 1 = n => k = n
            BY <1>3
          <5> QED  BY <1>4, <1>5, <1>11, <3>1, <5>1, <5>2
        <4>2. 1 \in 1 .. n - 1
          BY <1>3, <1>5, <4>1
        <4> QED  BY <1>5, <3>1, <4>2
      <3>2. CASE next[c] # Nil
        <4>1. k # n
          BY <1>4, <1>6, <3>2
        <4>2. k \in 1 .. n - 1
          BY <1>3, <4>1
        <4> QED  BY <1>4, <3>2, <4>2
      <3> QED  BY <3>1, <3>2
    <2>3. /\ prev = s[n - 1]
          /\ Leads([next EXCEPT ![prev] = Nil], f, tail[l])
      <3> HIDE DEF from, prev
      <3> DEFINE before == CHOOSE p \in Range(Below(s[j])) : next[p] = Oldest(s[j])
      <3>1. /\ before = s[n - 1]
            /\ Leads([next EXCEPT ![before] = Nil], f, tail[l])
        BY <1>2, <2>2, CutLast DEF Chains, n
      <3>2. prev = before
        BY <2>2 DEF prev
      <3> HIDE DEF before, f
      <3> QED  BY <3>1, <3>2
    <2> HIDE DEF prev, from, f
    <2>4. Leads(next', f, tail'[l])
      BY <2>1, <2>3
    <2>5. s[n - 1] \in Listed(l) /\ s[n - 1] \in Children
      <3>1. n - 1 \in 1 .. n
        BY <1>3, <2>2
      <3>2. Range(s) = {s[i] : i \in 1 .. n}
        BY <1>2, RangeEquality DEF n
      <3> QED  BY <1>1, <1>3, <3>1, <3>2 DEF Listed
    <2>6. \A m \in Lists \ {l} : WellLinked(m)' /\ Chain(m)' = Chain(m)
      <3> SUFFICES ASSUME NEW m \in Lists \ {l} PROVE WellLinked(m)' /\ Chain(m)' = Chain(m)
        OBVIOUS
      <3>1. \A d \in Listed(m) : next'[d] = next[d]
        <4>1. s[n - 1] \notin Listed(m)
          BY <2>5 DEF ListsApart
        <4>2. Listed(m) \subseteq Children
          BY TailIsFirst DEF Chains
        <4> QED  BY <2>1, <2>3, <4>1, <4>2 DEF Chains
      <3>2. tail'[m] = tail[m]
        BY <2>1
      <3> QED  BY <3>1, <3>2, Untouched DEF Chains
    <2>7. tail' \in [Lists -> Pointers] /\ next' \in [Children -> Pointers]
      BY <2>1 DEF Chains, Pointers
    <2>8. f \in Seq(Children) /\ IsInjective(f)
      BY <1>9 DEF f
    <2>9. Chain(l)' = f
      BY <2>4, <2>8, LineIs, ChainIsLine
    <2>10. WellLinked(l)'
      BY <2>4, <2>8, <2>9 DEF WellLinked
    <2> QED  BY <1>1, <1>5, <1>8, <2>6, <2>7, <2>9, <2>10 DEF Chains, f, n
  <1> QED  BY <1>10, <1>11

-----------------------------------------------------------------------------
(* The inductive invariant.  The threads that a count or a wakeup is about *)
(* are those at certain steps; a child is in one place: on a list, in the  *)
(* hands of a worker, or about to be pushed by the main thread.            *)

Labels  == {"none", "top", "sayIdle", "recheck", "notIdle", "count", "sleep", "woken",
            "uncount", "reread", "dequeue", "run", "complete", "decrement", "announce"}
Asleep  == {w \in Workers : wpc[w] \in {"sleep", "woken", "uncount"}}
Busy    == {w \in Workers : wpc[w] \in {"run", "complete"}}
Pushing == IF mpc = "push" THEN {mchild} ELSE {}

Counted == idleWorkers = Cardinality(Asleep)
Started == \A w \in Workers : w > workers => wpc[w] = "none"

HandsApart ==
    /\ \A w \in Busy : wchild[w] \in Children /\ \A l \in Lists : wchild[w] \notin Listed(l)
    /\ \A v, w \in Busy : wchild[v] = wchild[w] => v = w

PushingApart ==
    \A c \in Pushing : c \in Children \ Hands /\ \A l \in Lists : c \notin Listed(l)

Places ==
    /\ Chains /\ ListsApart /\ HandsApart /\ PushingApart
    /\ children = Todo \cup Listed(Completed) \cup Hands \cup Pushing
    /\ children \cap reaped = {}

(* The tail that was read is still on the list when a child is unlinked.   *)
Reading ==
    /\ \A w \in Workers : wpc[w] \in {"notIdle", "dequeue"} => wchild[w] \in Listed(w)
    /\ mpc = "dequeue" => mchild \in Listed(Completed)

(* From its look at the list on, a completed child that the main thread    *)
(* did not see is announced.                                               *)
Waiting ==
    /\ mpc \in {"noneCompleted", "somePending", "asleep"} => children # {}
    /\ mpc \in {"somePending", "asleep"} =>
          \/ tail[Completed] = Nil \/ evtWait
          \/ \E w \in Workers : wpc[w] = "announce" \/ (wpc[w] = "decrement" /\ wexpect[w] = Nil)

IInv == TypeOK /\ Counted /\ Started /\ Places /\ Reading /\ Waiting

-----------------------------------------------------------------------------
(* Where the children are after a step.                                    *)

LEMMA InTodo ==
    ASSUME NEW c
    PROVE  /\ c \in Todo <=> \E w \in Workers : c \in Listed(w)
           /\ c \in Todo' <=> \E w \in Workers : c \in Listed(w)'
  BY DEF Todo, Listed

LEMMA InHands ==
    ASSUME NEW c
    PROVE  /\ c \in Hands <=> \E w \in Busy : c = wchild[w]
           /\ c \in Hands' <=> \E w \in Busy' : c = wchild'[w]
  BY DEF Hands, Busy

LEMMA SomeLists ==
    /\ Completed \in Lists /\ Workers \subseteq Lists /\ Completed \notin Workers
    /\ Lists = Workers \cup {Completed}
  BY WinChildrenAssumption DEF Lists, Workers, Completed

(* The steps that move no child.                                           *)
LEMMA PlacesKept ==
    ASSUME Places, UNCHANGED lists, Busy' = Busy, \A w \in Busy : wchild'[w] = wchild[w],
           Pushing' = Pushing, children' = children, reaped' = reaped
    PROVE  /\ Places' /\ Todo' = Todo /\ Hands' = Hands
           /\ Chain(Completed)' = Chain(Completed)
           /\ \A l \in Lists : Listed(l)' = Listed(l)
  <1>1. Chains' /\ \A l \in Lists : Chain(l)' = Chain(l)
    BY ListsKept DEF Places
  <1>2. \A l \in Lists : Listed(l)' = Listed(l)
    BY <1>1 DEF Listed
  <1>3. Todo' = Todo
    BY <1>2, InTodo, SomeLists
  <1>4. Hands' = Hands
    BY InHands
  <1>5. ListsApart'
    BY <1>2 DEF Places, ListsApart
  <1>6. HandsApart'
    BY <1>2 DEF Places, HandsApart
  <1>7. PushingApart'
    BY <1>2, <1>4 DEF Places, PushingApart
  <1>8. children' = Todo' \cup Listed(Completed)' \cup Hands' \cup Pushing'
    BY <1>2, <1>3, <1>4, SomeLists DEF Places
  <1> QED  BY <1>1, <1>2, <1>3, <1>4, <1>5, <1>6, <1>7, <1>8, SomeLists DEF Places

LEMMA NotWorking ==
    ASSUME TypeOK, NEW w \in Workers,
           \/ LookForWork(w) \/ SayIdle(w) \/ NotIdleAfterAll(w) \/ CountIdle(w) \/ WakeUp(w)
           \/ ClearIdle(w) \/ UncountIdle(w) \/ RunChild(w) \/ PushCompletedAgain(w)
           \/ DecrementPending(w) \/ Announce(w)
    PROVE  /\ UNCHANGED lists /\ Busy' = Busy /\ \A v \in Busy : wchild'[v] = wchild[v]
           /\ Pushing' = Pushing /\ children' = children /\ reaped' = reaped
  <1>1. /\ wpc \in [Workers -> Labels] /\ wchild \in [Workers -> Pointers]
    BY DEF TypeOK, Labels
  <1>2. CASE LookForWork(w)
    BY <1>1, <1>2 DEF LookForWork, Step, Busy, Pushing, main, fates
  <1>3. CASE SayIdle(w)
    BY <1>1, <1>3 DEF SayIdle, Step, Busy, Pushing, main, fates
  <1>4. CASE NotIdleAfterAll(w)
    BY <1>1, <1>4 DEF NotIdleAfterAll, Step, Busy, Pushing, main, fates
  <1>5. CASE CountIdle(w)
    BY <1>1, <1>5 DEF CountIdle, Step, Busy, Pushing, main, fates
  <1>6. CASE WakeUp(w)
    BY <1>1, <1>6 DEF WakeUp, Step, Busy, Pushing, main, fates
  <1>7. CASE ClearIdle(w)
    BY <1>1, <1>7 DEF ClearIdle, Step, Busy, Pushing, main, fates
  <1>8. CASE UncountIdle(w)
    BY <1>1, <1>8 DEF UncountIdle, Step, Busy, Pushing, main, fates
  <1>9. CASE RunChild(w)
    BY <1>1, <1>9 DEF RunChild, Step, Busy, Pushing, main
  <1>10. CASE PushCompletedAgain(w)
    BY <1>1, <1>10 DEF PushCompletedAgain, Busy, Pushing, main, fates
  <1>11. CASE DecrementPending(w)
    BY <1>1, <1>11 DEF DecrementPending, Step, Busy, Pushing, main, fates
  <1>12. CASE Announce(w)
    BY <1>1, <1>12 DEF Announce, Step, Busy, Pushing, main, fates
  <1> QED  BY <1>2, <1>3, <1>4, <1>5, <1>6, <1>7, <1>8, <1>9, <1>10, <1>11, <1>12

LEMMA NotMoving ==
    ASSUME \/ PushTodoAgain \/ IncrementPending \/ IsIdle \/ WakeWorker
           \/ \E b \in BOOLEAN : ReapChildren(b)
           \/ NoneCompleted \/ SomePending \/ WakeMain \/ TakeCompleted \/ Acquire \/ AcquireFails,
           TypeOK
    PROVE  /\ UNCHANGED <<lists, worker>> /\ Pushing' = Pushing /\ children' = children
           /\ reaped' = reaped
  <1> USE DEF Pushing, fates
  <1>0. mret \in {"idle", "take"}
    BY DEF TypeOK
  <1>1. CASE PushTodoAgain
    BY <1>1 DEF PushTodoAgain
  <1>2. CASE IncrementPending
    BY <1>2 DEF IncrementPending
  <1>3. CASE IsIdle
    BY <1>0, <1>3 DEF IsIdle, Pushed
  <1>4. CASE WakeWorker
    BY <1>0, <1>4 DEF WakeWorker, Pushed
  <1>5. CASE \E b \in BOOLEAN : ReapChildren(b)
    BY <1>5 DEF ReapChildren, Go
  <1>6. CASE NoneCompleted
    BY <1>6 DEF NoneCompleted, Go
  <1>7. CASE SomePending
    BY <1>7 DEF SomePending, Go
  <1>8. CASE WakeMain
    BY <1>8 DEF WakeMain, Go
  <1>9. CASE TakeCompleted
    BY <1>9 DEF TakeCompleted, Go
  <1>10. CASE Acquire
    BY <1>10 DEF Acquire, Go
  <1>11. CASE AcquireFails
    BY <1>11 DEF AcquireFails, Go
  <1> QED  BY <1>1, <1>2, <1>3, <1>4, <1>5, <1>6, <1>7, <1>8, <1>9, <1>10, <1>11

(* A child is made.                                                        *)
LEMMA CreatedPlaces ==
    ASSUME IInv, ChooseWorker
    PROVE  /\ Places' /\ Todo' = Todo /\ Hands' = Hands
           /\ Chain(Completed)' = Chain(Completed)
           /\ \A l \in Lists : Listed(l)' = Listed(l)
           /\ Pushing = {} /\ Pushing' = {NewChild} /\ reaped' = reaped
           /\ NewChild \in Fresh
  <1>1. /\ NewChild \in Fresh /\ mpc # "push" /\ mpc' = "push" /\ mchild' = NewChild
        /\ children' = children \cup {NewChild} /\ reaped' = reaped
        /\ UNCHANGED lists /\ wchild' = wchild
    BY DEF ChooseWorker, NewChild
  <1>2. Busy' = Busy
    <2>1. wpc' = wpc \/ (workers + 1 \in Workers /\ wpc' = [wpc EXCEPT ![workers + 1] = "top"])
      <3>1. workers < MaxWorkers => workers + 1 \in Workers
        BY WinChildrenAssumption DEF IInv, TypeOK, Workers
      <3> QED  BY <3>1 DEF ChooseWorker, CanCreate
    <2>2. workers + 1 \in Workers => wpc[workers + 1] = "none"
      <3>1. workers + 1 > workers
        BY WinChildrenAssumption DEF IInv, TypeOK
      <3> QED  BY <3>1 DEF IInv, Started
    <2>3. wpc \in [Workers -> Labels]
      BY DEF IInv, TypeOK, Labels
    <2> QED  BY <2>1, <2>2, <2>3 DEF Busy
  <1>3. Pushing = {} /\ Pushing' = {NewChild}
    BY <1>1 DEF Pushing
  <1>4. Chains' /\ \A l \in Lists : Chain(l)' = Chain(l)
    BY <1>1, ListsKept DEF IInv, Places
  <1>5. \A l \in Lists : Listed(l)' = Listed(l)
    BY <1>4 DEF Listed
  <1>6. Todo' = Todo
    BY <1>5, InTodo, SomeLists
  <1>7. Hands' = Hands
    BY <1>1, <1>2, InHands
  <1>8. NewChild \in Children /\ NewChild \notin children /\ NewChild \notin reaped
    BY <1>1 DEF Fresh
  <1>9. NewChild \notin Hands /\ \A l \in Lists : NewChild \notin Listed(l)
    BY <1>8, InTodo, SomeLists DEF IInv, Places
  <1>10. ListsApart'
    BY <1>5 DEF IInv, Places, ListsApart
  <1>11. HandsApart'
    BY <1>1, <1>2, <1>5 DEF IInv, Places, HandsApart
  <1>12. PushingApart'
    BY <1>3, <1>5, <1>7, <1>8, <1>9 DEF PushingApart
  <1>13. children' = Todo' \cup Listed(Completed)' \cup Hands' \cup Pushing'
    BY <1>1, <1>3, <1>5, <1>6, <1>7, SomeLists DEF IInv, Places
  <1>14. children' \cap reaped' = {}
    BY <1>1, <1>8 DEF IInv, Places
  <1> QED  BY <1>1, <1>3, <1>4, <1>5, <1>6, <1>7, <1>10, <1>11, <1>12, <1>13, <1>14, SomeLists
           DEF Places

(* The main thread puts a new child on the list of a worker.               *)
LEMMA PushedPlaces ==
    ASSUME IInv, PushTodo
    PROVE  /\ Places' /\ Todo' = Todo \cup {mchild} /\ Hands' = Hands
           /\ Chain(Completed)' = Chain(Completed)
           /\ \A l \in Lists : Listed(l) \subseteq Listed(l)'
           /\ Pushing = {mchild} /\ Pushing' = {} /\ reaped' = reaped
  <1>1. PICK m \in Workers : m = mtarget
    BY DEF IInv, TypeOK
  <1>2. PICK c : c = mchild
    OBVIOUS
  <1>3. /\ mpc = "push" /\ mpc' = "increment" /\ Push(m, c, mexpect)
        /\ wpc' = wpc /\ wchild' = wchild /\ children' = children /\ reaped' = reaped
    BY <1>1, <1>2 DEF PushTodo, fates, worker
  <1>4. Pushing = {c} /\ Pushing' = {} /\ Busy' = Busy
    BY <1>2, <1>3 DEF Pushing, Busy
  <1>5. c \in Children \ Hands /\ \A l \in Lists : c \notin Listed(l)
    BY <1>4 DEF IInv, Places, PushingApart
  <1>6. m \in Lists /\ m # Completed
    BY SomeLists
  <1>7. /\ Chains' /\ Chain(m)' = <<c>> \o Chain(m)
        /\ \A l \in Lists \ {m} : Chain(l)' = Chain(l)
    BY <1>3, <1>5, <1>6, PushLists DEF IInv, Places
  <1>8. Listed(m)' = {c} \cup Listed(m) /\ \A l \in Lists \ {m} : Listed(l)' = Listed(l)
    <2>1. Chain(m) \in Seq(Children)
      BY <1>6 DEF IInv, Places, Chains, WellLinked
    <2>2. Range(<<c>> \o Chain(m)) = {c} \cup Range(Chain(m))
      BY <1>5, <2>1, PushElements
    <2> QED  BY <1>7, <2>2 DEF Listed
  <1>9. Todo' = Todo \cup {c}
    BY <1>1, <1>8, InTodo, SomeLists
  <1>10. Hands' = Hands
    BY <1>3, <1>4, InHands
  <1>11. ListsApart'
    BY <1>5, <1>8 DEF IInv, Places, ListsApart
  <1>12. HandsApart'
    <2>1. \A w \in Busy : wchild[w] # c
      BY <1>5, InHands
    <2> QED  BY <1>3, <1>4, <1>8, <2>1 DEF IInv, Places, HandsApart
  <1>13. PushingApart'
    BY <1>4 DEF PushingApart
  <1>14. children' = Todo' \cup Listed(Completed)' \cup Hands' \cup Pushing'
    BY <1>3, <1>4, <1>6, <1>8, <1>9, <1>10, SomeLists DEF IInv, Places
  <1>15. children' \cap reaped' = {}
    BY <1>3 DEF IInv, Places
  <1>16. Chain(Completed)' = Chain(Completed) /\ \A l \in Lists : Listed(l) \subseteq Listed(l)'
    BY <1>6, <1>7, <1>8, SomeLists
  <1> QED  BY <1>2, <1>3, <1>4, <1>7, <1>9, <1>10, <1>11, <1>12, <1>13, <1>14, <1>15, <1>16
           DEF Places

(* The list a child was taken off, and the others.                         *)
LEMMA Unlisted ==
    ASSUME IInv, NEW l \in Lists, NEW t \in Listed(l), Dequeue(l, t)
    PROVE  \E c \in Listed(l) :
              /\ c = Dequeued(l, t) /\ c = Chain(l)[Len(Chain(l))]
              /\ Chains' /\ Chain(l) # <<>> /\ Chain(l)' = Front(Chain(l))
              /\ Listed(l)' = Listed(l) \ {c}
              /\ \A m \in Lists \ {l} : c \notin Listed(m) /\ Listed(m)' = Listed(m)
                                        /\ Chain(m)' = Chain(m)
              /\ c \notin Hands /\ c \notin Pushing /\ c \in Children
              /\ ListsApart'
  <1>1. /\ Chain(l) # <<>> /\ Dequeued(l, t) = Chain(l)[Len(Chain(l))]
        /\ Chains' /\ Chain(l)' = Front(Chain(l))
        /\ \A m \in Lists \ {l} : Chain(m)' = Chain(m)
    BY DequeueLists DEF IInv, Places
  <1>2. PICK c : c = Dequeued(l, t)
    OBVIOUS
  <1>3. Chain(l) \in Seq(Children) /\ IsInjective(Chain(l))
    BY DEF IInv, Places, Chains, WellLinked
  <1>4. Listed(l) = Listed(l)' \cup {c} /\ c \notin Listed(l)'
    BY <1>1, <1>2, <1>3, FrontElements DEF Listed
  <1>5. \A m \in Lists \ {l} : Listed(m)' = Listed(m)
    BY <1>1 DEF Listed
  <1>6. c \in Listed(l) /\ Listed(l)' = Listed(l) \ {c}
    BY <1>4
  <1>7. \A m \in Lists \ {l} : c \notin Listed(m)
    BY <1>6 DEF IInv, Places, ListsApart
  <1>8. c \notin Hands
    BY <1>6, InHands DEF IInv, Places, HandsApart
  <1>9. c \notin Pushing
    BY <1>6 DEF IInv, Places, PushingApart
  <1>10. c \in Children
    BY <1>6, TailIsFirst DEF IInv, Places, Chains
  <1>11. ListsApart'
    BY <1>5, <1>6 DEF IInv, Places, ListsApart
  <1> QED  BY <1>1, <1>2, <1>5, <1>6, <1>7, <1>8, <1>9, <1>10, <1>11

(* A worker takes the oldest child off its list.                           *)
LEMMA TakenPlaces ==
    ASSUME IInv, NEW w \in Workers, DequeueTodo(w)
    PROVE  \E c \in Todo :
              /\ Places' /\ Todo' = Todo \ {c} /\ Hands' = Hands \cup {c}
              /\ Chain(Completed)' = Chain(Completed) /\ c = wchild'[w]
              /\ \A l \in Lists \ {w} : Listed(l)' = Listed(l)
              /\ Pushing' = Pushing /\ c \notin Pushing /\ reaped' = reaped
  <1>1. PICK t : t = wchild[w]
    OBVIOUS
  <1>2. /\ wpc[w] = "dequeue" /\ wpc' = [wpc EXCEPT ![w] = "run"] /\ Dequeue(w, t)
        /\ wchild' = [wchild EXCEPT ![w] = Dequeued(w, t)]
        /\ mpc' = mpc /\ mchild' = mchild /\ children' = children /\ reaped' = reaped
    BY <1>1 DEF DequeueTodo, Step, main, fates
  <1>3. t \in Listed(w) /\ w \in Lists /\ w # Completed
    BY <1>1, <1>2, SomeLists DEF IInv, Reading
  <1>4. PICK c \in Listed(w) :
              /\ c = Dequeued(w, t) /\ Chains'
              /\ Listed(w)' = Listed(w) \ {c}
              /\ \A m \in Lists \ {w} : c \notin Listed(m) /\ Listed(m)' = Listed(m)
                                        /\ Chain(m)' = Chain(m)
              /\ c \notin Hands /\ c \notin Pushing /\ c \in Children
              /\ ListsApart'
    BY <1>2, <1>3, Unlisted
  <1>5. /\ Busy' = Busy \cup {w} /\ w \notin Busy /\ wchild'[w] = c
        /\ \A v \in Busy : wchild'[v] = wchild[v]
    <2>1. wpc \in [Workers -> Labels] /\ wchild \in [Workers -> Pointers]
      BY DEF IInv, TypeOK, Labels
    <2>2. Busy' = Busy \cup {w} /\ w \notin Busy
      BY <1>2, <2>1 DEF Busy
    <2>3. \A v \in Workers \ {w} : wchild'[v] = wchild[v]
      BY <1>2, <2>1
    <2>4. wchild'[w] = c
      BY <1>2, <1>4, <2>1
    <2> QED  BY <2>2, <2>3, <2>4 DEF Busy
  <1>6. Todo' = Todo \ {c} /\ c \in Todo
    BY <1>4, InTodo, SomeLists
  <1>7. Hands' = Hands \cup {c}
    BY <1>5, InHands
  <1>8. Pushing' = Pushing
    BY <1>2 DEF Pushing
  <1>9. HandsApart'
    <2>1. \A v \in Busy : wchild[v] # c
      BY <1>4, InHands
    <2>2. \A v \in Busy : \A l \in Lists : wchild[v] \notin Listed(l)'
      BY <1>4 DEF IInv, Places, HandsApart
    <2>3. \A l \in Lists : c \notin Listed(l)'
      BY <1>4
    <2>4. \A v \in Busy' : wchild'[v] \in Children /\ \A l \in Lists : wchild'[v] \notin Listed(l)'
      BY <1>4, <1>5, <2>2, <2>3 DEF IInv, Places, HandsApart
    <2>5. \A u, v \in Busy' : wchild'[u] = wchild'[v] => u = v
      BY <1>5, <2>1 DEF IInv, Places, HandsApart
    <2> QED  BY <2>4, <2>5 DEF HandsApart
  <1>10. PushingApart'
    BY <1>4, <1>7, <1>8 DEF IInv, Places, PushingApart
  <1>11. children' = Todo' \cup Listed(Completed)' \cup Hands' \cup Pushing'
    BY <1>2, <1>3, <1>4, <1>6, <1>7, <1>8, SomeLists DEF IInv, Places
  <1>12. children' \cap reaped' = {}
    BY <1>2 DEF IInv, Places
  <1>13. Chain(Completed)' = Chain(Completed)
    BY <1>3, <1>4, SomeLists
  <1>14. Places'
    BY <1>4, <1>9, <1>10, <1>11, <1>12 DEF Places
  <1> QED  BY <1>2, <1>4, <1>5, <1>6, <1>7, <1>8, <1>13, <1>14

(* A worker hands its child on.                                            *)
LEMMA HandedPlaces ==
    ASSUME IInv, NEW w \in Workers, PushCompleted(w)
    PROVE  \E c \in Hands :
              /\ Places' /\ Todo' = Todo /\ Hands' = Hands \ {c}
              /\ Chain(Completed)' = <<c>> \o Chain(Completed) /\ c \in Children
              /\ \A l \in Lists : Listed(l) \subseteq Listed(l)'
              /\ Pushing' = Pushing /\ reaped' = reaped
  <1>1. PICK c : c = wchild[w]
    OBVIOUS
  <1>2. /\ wpc[w] = "complete" /\ wpc' = [wpc EXCEPT ![w] = "decrement"]
        /\ Push(Completed, c, wexpect[w]) /\ wchild' = wchild
        /\ mpc' = mpc /\ mchild' = mchild /\ children' = children /\ reaped' = reaped
    BY <1>1 DEF PushCompleted, Step, main, fates
  <1>3. w \in Busy /\ Busy' = Busy \ {w}
    <2>1. wpc \in [Workers -> Labels]
      BY DEF IInv, TypeOK, Labels
    <2> QED  BY <1>2, <2>1 DEF Busy
  <1>4. c \in Children /\ c \in Hands /\ \A l \in Lists : c \notin Listed(l)
    BY <1>1, <1>3, InHands DEF IInv, Places, HandsApart
  <1>5. /\ Chains' /\ Chain(Completed)' = <<c>> \o Chain(Completed)
        /\ \A l \in Lists \ {Completed} : Chain(l)' = Chain(l)
    BY <1>2, <1>4, PushLists, SomeLists DEF IInv, Places
  <1>6. /\ Listed(Completed)' = {c} \cup Listed(Completed)
        /\ \A l \in Lists \ {Completed} : Listed(l)' = Listed(l)
    <2>1. Chain(Completed) \in Seq(Children)
      BY SomeLists DEF IInv, Places, Chains, WellLinked
    <2>2. Range(<<c>> \o Chain(Completed)) = {c} \cup Range(Chain(Completed))
      BY <1>4, <2>1, PushElements
    <2> QED  BY <1>5, <2>2 DEF Listed
  <1>7. Todo' = Todo
    BY <1>6, InTodo, SomeLists
  <1>8. Hands' = Hands \ {c}
    <2>1. \A v \in Busy : wchild[v] = c <=> v = w
      BY <1>1, <1>3 DEF IInv, Places, HandsApart
    <2> QED  BY <1>2, <1>3, <2>1, InHands
  <1>9. Pushing' = Pushing
    BY <1>2 DEF Pushing
  <1>10. ListsApart'
    BY <1>4, <1>6 DEF IInv, Places, ListsApart
  <1>11. HandsApart'
    <2>1. \A v \in Busy' : v \in Busy /\ wchild[v] # c
      BY <1>1, <1>3 DEF IInv, Places, HandsApart
    <2>2. \A v \in Busy' : wchild[v] \in Children /\ \A l \in Lists : wchild[v] \notin Listed(l)'
      BY <1>6, <2>1 DEF IInv, Places, HandsApart
    <2> QED  BY <1>2, <2>1, <2>2 DEF IInv, Places, HandsApart
  <1>12. PushingApart'
    <2>1. c \notin Pushing
      BY <1>4 DEF IInv, Places, PushingApart
    <2> QED  BY <1>6, <1>8, <1>9, <2>1 DEF IInv, Places, PushingApart
  <1>13. children' = Todo' \cup Listed(Completed)' \cup Hands' \cup Pushing'
    BY <1>2, <1>4, <1>6, <1>7, <1>8, <1>9 DEF IInv, Places
  <1>14. Places'
    BY <1>2, <1>5, <1>10, <1>11, <1>12, <1>13 DEF IInv, Places
  <1> QED  BY <1>2, <1>4, <1>5, <1>6, <1>7, <1>8, <1>9, <1>14

(* The main thread takes the oldest of the completed children.             *)
LEMMA ReapedPlaces ==
    ASSUME IInv, DequeueCompleted
    PROVE  \E c \in children :
              /\ Places' /\ Todo' = Todo /\ Hands' = Hands
              /\ Chain(Completed) # <<>> /\ Chain(Completed)' = Front(Chain(Completed))
              /\ c = Chain(Completed)[Len(Chain(Completed))]
              /\ \A w \in Workers : Listed(w)' = Listed(w)
              /\ Pushing = {} /\ Pushing' = {} /\ reaped' = reaped \cup {c}
  <1>1. PICK t : t = mchild
    OBVIOUS
  <1>2. /\ mpc = "dequeue" /\ mpc' = "take" /\ Dequeue(Completed, t)
        /\ reaped' = reaped \cup {Dequeued(Completed, t)}
        /\ children' = children \ {Dequeued(Completed, t)}
        /\ wpc' = wpc /\ wchild' = wchild
    BY <1>1 DEF DequeueCompleted, worker
  <1>3. t \in Listed(Completed) /\ Completed \in Lists
    BY <1>1, <1>2, SomeLists DEF IInv, Reading
  <1>4. PICK c \in Listed(Completed) :
              /\ c = Dequeued(Completed, t) /\ c = Chain(Completed)[Len(Chain(Completed))]
              /\ Chains' /\ Chain(Completed) # <<>>
              /\ Chain(Completed)' = Front(Chain(Completed))
              /\ Listed(Completed)' = Listed(Completed) \ {c}
              /\ \A m \in Lists \ {Completed} : c \notin Listed(m) /\ Listed(m)' = Listed(m)
                                        /\ Chain(m)' = Chain(m)
              /\ c \notin Hands /\ c \notin Pushing /\ c \in Children
              /\ ListsApart'
    BY <1>2, <1>3, Unlisted
  <1>5. Busy' = Busy /\ Pushing = {} /\ Pushing' = {}
    BY <1>2 DEF Busy, Pushing
  <1>6. Todo' = Todo /\ c \notin Todo
    <2>1. \A w \in Workers : w \in Lists \ {Completed}
      BY SomeLists
    <2>2. \A w \in Workers : c \notin Listed(w) /\ Listed(w)' = Listed(w)
      BY <1>4, <2>1
    <2> QED  BY <2>2, InTodo
  <1>7. Hands' = Hands
    BY <1>2, <1>5, InHands
  <1>8. HandsApart'
    <2>1. \A l \in Lists : Listed(l)' \subseteq Listed(l)
      BY <1>4
    <2> QED  BY <1>2, <1>5, <2>1 DEF IInv, Places, HandsApart
  <1>9. PushingApart'
    BY <1>5 DEF PushingApart
  <1>10. children' = Todo' \cup Listed(Completed)' \cup Hands' \cup Pushing'
    BY <1>2, <1>4, <1>5, <1>6, <1>7 DEF IInv, Places
  <1>11. children' \cap reaped' = {}
    BY <1>2, <1>4 DEF IInv, Places
  <1>12. c \in children /\ reaped' = reaped \cup {c}
    BY <1>2, <1>4 DEF IInv, Places
  <1>13. Places'
    BY <1>4, <1>8, <1>9, <1>10, <1>11 DEF Places
  <1> QED  BY <1>4, <1>5, <1>6, <1>7, <1>12, <1>13, SomeLists

-----------------------------------------------------------------------------
(* Type correctness, and the counts that go with it.                       *)

LEMMA AsleepCount ==
    /\ IsFiniteSet(Asleep) /\ Cardinality(Asleep) \in 0 .. MaxWorkers
    /\ IsFiniteSet(Asleep') /\ Cardinality(Asleep') \in 0 .. MaxWorkers
  <1>1. IsFiniteSet(Workers) /\ Cardinality(Workers) = MaxWorkers
    <2>1. 1 \in Int /\ MaxWorkers \in Int /\ MaxWorkers - 1 + 1 = MaxWorkers /\ ~(1 > MaxWorkers)
      BY WinChildrenAssumption
    <2> QED  BY <2>1, FS_Interval DEF Workers
  <1>2. ASSUME NEW S, S \subseteq Workers
        PROVE  IsFiniteSet(S) /\ Cardinality(S) \in 0 .. MaxWorkers
    <2>1. IsFiniteSet(S) /\ Cardinality(S) <= Cardinality(Workers)
      BY <1>1, <1>2, FS_Subset
    <2>2. Cardinality(S) \in Nat
      BY <2>1, FS_CardinalityType
    <2> QED  BY <1>1, <2>1, <2>2, WinChildrenAssumption
  <1>3. Asleep \subseteq Workers /\ Asleep' \subseteq Workers
    BY DEF Asleep
  <1> QED  BY <1>2, <1>3

LEMMA InitType == Init => TypeOK /\ Counted /\ Started
  <1> SUFFICES ASSUME Init PROVE TypeOK /\ Counted /\ Started
    OBVIOUS
  <1> USE WinChildrenAssumption
  <1>1. TypeOK
    <2>1. 1 \in Workers /\ workers \in 0 .. MaxWorkers /\ idleWorkers \in 0 .. MaxWorkers
      BY DEF Init, Workers
    <2>2. pending \in Int /\ ran \in [Children -> Nat]
      BY DEF Init
    <2>3. idle \in [Workers -> BOOLEAN] /\ evtIdle \in [Workers -> BOOLEAN] /\ evtWait \in BOOLEAN
      BY Zenon DEF Init
    <2>4. mtarget \in Workers
      BY <2>1 DEF Init
    <2> QED  BY <2>1, <2>2, <2>3, <2>4 DEF Init, TypeOK, Pointers
  <1>2. Counted
    <2>1. Asleep = {}
      BY DEF Init, Asleep
    <2> QED  BY <2>1, FS_EmptySet DEF Init, Counted
  <1>3. Started
    BY DEF Init, Started
  <1> QED  BY <1>1, <1>2, <1>3

(* The flags, apart from what is told with names and numbers.              *)
Flags == idle \in [Workers -> BOOLEAN] /\ evtIdle \in [Workers -> BOOLEAN] /\ evtWait \in BOOLEAN

Names ==
    /\ wpc \in [Workers -> Labels]
    /\ wchild \in [Workers -> Pointers] /\ wexpect \in [Workers -> Pointers]
    /\ mpc \in {"idle", "push", "increment", "isIdle", "wake", "noneCompleted", "somePending",
               "asleep", "take", "dequeue", "acquire"}
    /\ mret \in {"idle", "take"} /\ mchild \in Pointers /\ mtarget \in Workers
    /\ mexpect \in Pointers
    /\ children \subseteq Children /\ reaped \subseteq Children

Numbers ==
    /\ workers \in 0 .. MaxWorkers /\ pending \in Int /\ ran \in [Children -> Nat]

LEMMA TypeParts ==
    /\ TypeOK => Flags /\ Names /\ Numbers /\ tail \in [Lists -> Pointers]
                 /\ next \in [Children -> Pointers]
    /\ Flags' /\ Names' /\ Numbers' /\ Counted' /\ Chains' => TypeOK'
  <1>1. TypeOK => Flags /\ Names /\ Numbers
    BY DEF TypeOK, Flags, Names, Numbers, Labels
  <1>2. Counted' => idleWorkers' \in 0 .. MaxWorkers
    BY AsleepCount DEF Counted
  <1>3. Chains' => tail' \in [Lists -> Pointers] /\ next' \in [Children -> Pointers]
    BY DEF Chains
  <1>4. TypeOK' <=> /\ Flags' /\ Names' /\ Numbers' /\ idleWorkers' \in 0 .. MaxWorkers
                    /\ tail' \in [Lists -> Pointers] /\ next' \in [Children -> Pointers]
    BY DEF TypeOK, Flags, Names, Numbers, Labels
  <1> QED  BY <1>1, <1>2, <1>3, <1>4 DEF TypeOK

LEMMA WorkerFlags == ASSUME Flags, NEW w \in Workers, Worker(w) PROVE Flags'
  <1> USE DEF Flags, idling
  <1>1. CASE LookForWork(w)
    BY Zenon, <1>1 DEF LookForWork
  <1>2. CASE SayIdle(w)
    BY Zenon, <1>2 DEF SayIdle
  <1>3. CASE NotIdleAfterAll(w)
    BY Zenon, <1>3 DEF NotIdleAfterAll
  <1>4. CASE CountIdle(w)
    BY Zenon, <1>4 DEF CountIdle
  <1>5. CASE WakeUp(w)
    BY Zenon, <1>5 DEF WakeUp
  <1>6. CASE ClearIdle(w)
    BY Zenon, <1>6 DEF ClearIdle
  <1>7. CASE UncountIdle(w)
    BY Zenon, <1>7 DEF UncountIdle
  <1>8. CASE DequeueTodo(w)
    BY Zenon, <1>8 DEF DequeueTodo
  <1>9. CASE RunChild(w)
    BY Zenon, <1>9 DEF RunChild
  <1>10. CASE PushCompleted(w)
    BY Zenon, <1>10 DEF PushCompleted
  <1>11. CASE PushCompletedAgain(w)
    BY Zenon, <1>11 DEF PushCompletedAgain
  <1>12. CASE DecrementPending(w)
    BY Zenon, <1>12 DEF DecrementPending
  <1>13. CASE Announce(w)
    BY Zenon, <1>13 DEF Announce
  <1> QED  BY <1>1, <1>2, <1>3, <1>4, <1>5, <1>6, <1>7, <1>8, <1>9, <1>10, <1>11, <1>12, <1>13 DEF Worker

LEMMA WorkerNames ==
    ASSUME Names, Chains, NEW w \in Workers, Worker(w),
           DequeueTodo(w) => Dequeued(w, wchild[w]) \in Pointers
    PROVE  Names'
  <1> USE DEF Names, Step, main, fates, Labels
  <1>0. w \in Lists /\ Completed \in Lists /\ Nil \in Pointers /\ tail \in [Lists -> Pointers]
    BY SomeLists DEF Chains, Pointers
  <1>1. CASE LookForWork(w)
    BY <1>0, <1>1 DEF LookForWork
  <1>2. CASE SayIdle(w)
    BY <1>0, <1>2 DEF SayIdle
  <1>3. CASE NotIdleAfterAll(w)
    BY <1>0, <1>3 DEF NotIdleAfterAll
  <1>4. CASE CountIdle(w)
    BY <1>0, <1>4 DEF CountIdle
  <1>5. CASE WakeUp(w)
    BY <1>0, <1>5 DEF WakeUp
  <1>6. CASE ClearIdle(w)
    BY <1>0, <1>6 DEF ClearIdle
  <1>7. CASE UncountIdle(w)
    BY <1>0, <1>7 DEF UncountIdle
  <1>8. CASE DequeueTodo(w)
    BY <1>0, <1>8 DEF DequeueTodo
  <1>9. CASE RunChild(w)
    BY <1>0, <1>9 DEF RunChild
  <1>10. CASE PushCompleted(w)
    BY <1>0, <1>10 DEF PushCompleted
  <1>11. CASE PushCompletedAgain(w)
    BY <1>0, <1>11 DEF PushCompletedAgain
  <1>12. CASE DecrementPending(w)
    BY <1>0, <1>12 DEF DecrementPending
  <1>13. CASE Announce(w)
    BY <1>0, <1>13 DEF Announce
  <1> QED  BY <1>1, <1>2, <1>3, <1>4, <1>5, <1>6, <1>7, <1>8, <1>9, <1>10, <1>11, <1>12, <1>13 DEF Worker

LEMMA WorkerNumbers ==
    ASSUME Numbers, NEW w \in Workers, Worker(w), RunChild(w) => wchild[w] \in Children
    PROVE  Numbers'
  <1> USE DEF Numbers, fates
  <1>1. CASE LookForWork(w)
    BY <1>1 DEF LookForWork
  <1>2. CASE SayIdle(w)
    BY <1>2 DEF SayIdle
  <1>3. CASE NotIdleAfterAll(w)
    BY <1>3 DEF NotIdleAfterAll
  <1>4. CASE CountIdle(w)
    BY <1>4 DEF CountIdle
  <1>5. CASE WakeUp(w)
    BY <1>5 DEF WakeUp
  <1>6. CASE ClearIdle(w)
    BY <1>6 DEF ClearIdle
  <1>7. CASE UncountIdle(w)
    BY <1>7 DEF UncountIdle
  <1>8. CASE DequeueTodo(w)
    BY <1>8 DEF DequeueTodo
  <1>9. CASE RunChild(w)
    BY <1>9 DEF RunChild
  <1>10. CASE PushCompleted(w)
    BY <1>10 DEF PushCompleted
  <1>11. CASE PushCompletedAgain(w)
    BY <1>11 DEF PushCompletedAgain
  <1>12. CASE DecrementPending(w)
    BY <1>12 DEF DecrementPending
  <1>13. CASE Announce(w)
    BY <1>13 DEF Announce
  <1> QED  BY <1>1, <1>2, <1>3, <1>4, <1>5, <1>6, <1>7, <1>8, <1>9, <1>10, <1>11, <1>12, <1>13 DEF Worker

LEMMA MainFlags == ASSUME Flags, Main PROVE Flags'
  <1> USE DEF Flags, idling, Go
  <1>1. CASE ChooseWorker
    BY Zenon, <1>1 DEF ChooseWorker
  <1>2. CASE PushTodo
    BY Zenon, <1>2 DEF PushTodo
  <1>3. CASE PushTodoAgain
    BY Zenon, <1>3 DEF PushTodoAgain
  <1>4. CASE IncrementPending
    BY Zenon, <1>4 DEF IncrementPending
  <1>5. CASE IsIdle
    BY Zenon, <1>5 DEF IsIdle
  <1>6. CASE WakeWorker
    BY Zenon, <1>6 DEF WakeWorker
  <1>7. CASE \E b \in BOOLEAN : ReapChildren(b)
    BY Zenon, <1>7 DEF ReapChildren
  <1>8. CASE NoneCompleted
    BY Zenon, <1>8 DEF NoneCompleted
  <1>9. CASE SomePending
    BY Zenon, <1>9 DEF SomePending
  <1>10. CASE WakeMain
    BY Zenon, <1>10 DEF WakeMain
  <1>11. CASE TakeCompleted
    BY Zenon, <1>11 DEF TakeCompleted
  <1>12. CASE DequeueCompleted
    BY Zenon, <1>12 DEF DequeueCompleted
  <1>13. CASE Acquire
    BY Zenon, <1>13 DEF Acquire
  <1>14. CASE AcquireFails
    BY Zenon, <1>14 DEF AcquireFails
  <1> QED  BY <1>1, <1>2, <1>3, <1>4, <1>5, <1>6, <1>7, <1>8, <1>9, <1>10, <1>11, <1>12, <1>13, <1>14 DEF Main

(* The worker that is chosen is one that was created.                      *)
LEMMA TargetType == ASSUME Numbers, ChooseWorker PROVE mtarget' \in Workers
  <1> USE WinChildrenAssumption
  <1>1. workers \in 0 .. MaxWorkers
    BY DEF Numbers
  <1>2. CASE idleWorkers > 0 /\ mtarget' \in IdleOnes
    BY <1>1, <1>2 DEF IdleOnes, Made, Workers
  <1>3. CASE CanCreate /\ mtarget' = workers + 1
    BY <1>1, <1>3 DEF CanCreate, Workers
  <1>4. CASE /\ ~CanCreate
             /\ LET free == {w \in Made : tail[w] = Nil} IN
                mtarget' = IF free = {} THEN workers
                           ELSE CHOOSE w \in free : \A v \in free : v <= w
    <2> DEFINE free == {w \in Made : tail[w] = Nil}
    <2>1. workers \in Workers /\ free \subseteq 1 .. workers /\ 1 .. workers \subseteq Workers
      BY <1>1, <1>4 DEF CanCreate, Workers, Made
    <2>2. mtarget' = IF free = {} THEN workers ELSE CHOOSE w \in free : \A v \in free : v <= w
      BY <1>4
    <2> HIDE DEF free
    <2>3. CASE free # {}
      <3>1. \E w \in free : \A v \in free : v <= w
        <4>1. workers \in Nat
          BY <1>1
        <4> QED  BY <2>1, <2>3, <4>1, Greatest
      <3>2. mtarget' \in free
        BY <2>2, <2>3, <3>1
      <3> QED  BY <2>1, <3>2
    <2> QED  BY <2>1, <2>2, <2>3
  <1> QED  BY <1>2, <1>3, <1>4 DEF ChooseWorker

LEMMA MainNames ==
    ASSUME Names, Numbers, Chains, Main, ChooseWorker => NewChild \in Children,
           DequeueCompleted => Dequeued(Completed, mchild) \in Children
    PROVE  Names'
  <1> USE DEF Names, Go, worker, fates
  <1>0. /\ Completed \in Lists /\ Nil \in Pointers /\ tail \in [Lists -> Pointers]
        /\ 1 \in Workers /\ Workers \subseteq Lists /\ Children \subseteq Pointers
    BY WinChildrenAssumption, SomeLists DEF Chains, Pointers, Workers
  <1>1. CASE ChooseWorker
    <2>1. /\ NewChild \in Children /\ mchild' = NewChild /\ mexpect' = Nil /\ mpc' = "push"
          /\ mret' \in {"idle", "take"} /\ children' = children \cup {NewChild}
          /\ wchild' = wchild /\ wexpect' = wexpect /\ reaped' = reaped
      BY <1>1 DEF ChooseWorker
    <2>2. wpc' \in [Workers -> Labels]
      <3>1. wpc' = wpc \/ wpc' = [wpc EXCEPT ![workers + 1] = "top"]
        BY <1>1 DEF ChooseWorker
      <3> QED  BY <3>1 DEF Labels
    <2>3. mtarget' \in Workers
      BY <1>1, TargetType
    <2> QED  BY <1>0, <2>1, <2>2, <2>3
  <1>2. CASE PushTodo
    BY <1>0, <1>2 DEF PushTodo
  <1>3. CASE PushTodoAgain
    BY <1>0, <1>3 DEF PushTodoAgain
  <1>4. CASE IncrementPending
    BY <1>0, <1>4 DEF IncrementPending
  <1>5. CASE IsIdle
    BY <1>0, <1>5 DEF IsIdle, Pushed
  <1>6. CASE WakeWorker
    BY <1>0, <1>6 DEF WakeWorker, Pushed
  <1>7. CASE \E b \in BOOLEAN : ReapChildren(b)
    BY <1>0, <1>7 DEF ReapChildren
  <1>8. CASE NoneCompleted
    BY <1>0, <1>8 DEF NoneCompleted
  <1>9. CASE SomePending
    BY <1>0, <1>9 DEF SomePending
  <1>10. CASE WakeMain
    BY <1>0, <1>10 DEF WakeMain
  <1>11. CASE TakeCompleted
    BY <1>0, <1>11 DEF TakeCompleted
  <1>12. CASE DequeueCompleted
    BY <1>0, <1>12 DEF DequeueCompleted
  <1>13. CASE Acquire
    BY <1>0, <1>13 DEF Acquire
  <1>14. CASE AcquireFails
    BY <1>0, <1>14 DEF AcquireFails
  <1> QED  BY <1>1, <1>2, <1>3, <1>4, <1>5, <1>6, <1>7, <1>8, <1>9, <1>10, <1>11, <1>12, <1>13, <1>14 DEF Main

LEMMA MainNumbers == ASSUME Numbers, Main PROVE Numbers'
  <1> USE DEF Numbers, Go, fates
  <1>1. CASE ChooseWorker
    BY <1>1, WinChildrenAssumption DEF ChooseWorker, CanCreate
  <1>2. CASE PushTodo
    BY <1>2 DEF PushTodo
  <1>3. CASE PushTodoAgain
    BY <1>3 DEF PushTodoAgain
  <1>4. CASE IncrementPending
    BY <1>4 DEF IncrementPending
  <1>5. CASE IsIdle
    BY <1>5 DEF IsIdle
  <1>6. CASE WakeWorker
    BY <1>6 DEF WakeWorker
  <1>7. CASE \E b \in BOOLEAN : ReapChildren(b)
    BY <1>7 DEF ReapChildren
  <1>8. CASE NoneCompleted
    BY <1>8 DEF NoneCompleted
  <1>9. CASE SomePending
    BY <1>9 DEF SomePending
  <1>10. CASE WakeMain
    BY <1>10 DEF WakeMain
  <1>11. CASE TakeCompleted
    BY <1>11 DEF TakeCompleted
  <1>12. CASE DequeueCompleted
    BY <1>12 DEF DequeueCompleted
  <1>13. CASE Acquire
    BY <1>13 DEF Acquire
  <1>14. CASE AcquireFails
    BY <1>14 DEF AcquireFails
  <1> QED  BY <1>1, <1>2, <1>3, <1>4, <1>5, <1>6, <1>7, <1>8, <1>9, <1>10, <1>11, <1>12, <1>13, <1>14 DEF Main

LEMMA WorkerType ==
    ASSUME IInv, NEW w \in Workers, Worker(w), Chains', Counted' PROVE TypeOK'
  <1>1. Flags /\ Names /\ Numbers /\ Chains
    BY TypeParts DEF IInv, Places
  <1>2. DequeueTodo(w) => Dequeued(w, wchild[w]) \in Pointers
    <2> SUFFICES ASSUME DequeueTodo(w) PROVE Dequeued(w, wchild[w]) \in Pointers
      OBVIOUS
    <2>1. w \in Lists /\ wchild[w] \in Listed(w) /\ Dequeue(w, wchild[w])
      BY SomeLists DEF DequeueTodo, Step, IInv, Reading
    <2> QED  BY <2>1, Unlisted DEF Pointers
  <1>3. RunChild(w) => wchild[w] \in Children
    <2>1. RunChild(w) => w \in Busy
      BY DEF RunChild, Step, Busy
    <2> QED  BY <2>1 DEF IInv, Places, HandsApart
  <1>4. Flags' /\ Names' /\ Numbers'
    BY <1>1, <1>2, <1>3, WorkerFlags, WorkerNames, WorkerNumbers
  <1> QED  BY <1>4, TypeParts

LEMMA MainType == ASSUME IInv, Main, Chains', Counted' PROVE TypeOK'
  <1>1. Flags /\ Names /\ Numbers /\ Chains
    BY TypeParts DEF IInv, Places
  <1>2. ChooseWorker => NewChild \in Children
    BY CreatedPlaces DEF Fresh
  <1>3. DequeueCompleted => Dequeued(Completed, mchild) \in Children
    <2> SUFFICES ASSUME DequeueCompleted PROVE Dequeued(Completed, mchild) \in Children
      OBVIOUS
    <2>1. /\ Completed \in Lists /\ mchild \in Listed(Completed)
          /\ Dequeue(Completed, mchild)
      BY SomeLists DEF DequeueCompleted, IInv, Reading
    <2> QED  BY <2>1, Unlisted
  <1>4. Flags' /\ Names' /\ Numbers'
    BY <1>1, <1>2, <1>3, MainFlags, MainNames, MainNumbers
  <1> QED  BY <1>4, TypeParts

(* g_cIdleChildcareWorkers counts the workers between the increment and    *)
(* the decrement.                                                          *)
LEMMA WorkerCount ==
    ASSUME IInv, NEW w \in Workers, Worker(w)
    PROVE  Counted' /\ Started' /\ wpc[w] # "none"
  <1>0. wpc \in [Workers -> Labels] /\ idleWorkers = Cardinality(Asleep) /\ IsFiniteSet(Asleep)
    BY AsleepCount DEF IInv, TypeOK, Labels, Counted
  <1>1. ASSUME CountIdle(w) PROVE Counted'
    <2>1. Asleep' = Asleep \cup {w} /\ w \notin Asleep
      BY <1>0, <1>1 DEF CountIdle, Step, Asleep
    <2>2. Cardinality(Asleep') = Cardinality(Asleep) + 1
      BY <1>0, <2>1, FS_AddElement
    <2> QED  BY <1>0, <1>1, <2>2 DEF CountIdle, Counted
  <1>2. ASSUME UncountIdle(w) PROVE Counted'
    <2>1. Asleep' = Asleep \ {w} /\ w \in Asleep
      BY <1>0, <1>2 DEF UncountIdle, Step, Asleep
    <2>2. Cardinality(Asleep') = Cardinality(Asleep) - 1
      BY <1>0, <2>1, FS_RemoveElement
    <2> QED  BY <1>0, <1>2, <2>2 DEF UncountIdle, Counted
  <1>3. ASSUME LookForWork(w) PROVE Counted'
    <2>1. Asleep' = Asleep /\ idleWorkers' = idleWorkers
      BY <1>0, <1>3 DEF LookForWork, Step, Asleep, idling
    <2> QED  BY <1>0, <2>1 DEF Counted
  <1>4. ASSUME SayIdle(w) PROVE Counted'
    <2>1. Asleep' = Asleep /\ idleWorkers' = idleWorkers
      BY <1>0, <1>4 DEF SayIdle, Step, Asleep, idling
    <2> QED  BY <1>0, <2>1 DEF Counted
  <1>5. ASSUME NotIdleAfterAll(w) PROVE Counted'
    <2>1. Asleep' = Asleep /\ idleWorkers' = idleWorkers
      BY <1>0, <1>5 DEF NotIdleAfterAll, Step, Asleep, idling
    <2> QED  BY <1>0, <2>1 DEF Counted
  <1>6. ASSUME WakeUp(w) PROVE Counted'
    <2>1. Asleep' = Asleep /\ idleWorkers' = idleWorkers
      BY <1>0, <1>6 DEF WakeUp, Step, Asleep, idling
    <2> QED  BY <1>0, <2>1 DEF Counted
  <1>7. ASSUME ClearIdle(w) PROVE Counted'
    <2>1. Asleep' = Asleep /\ idleWorkers' = idleWorkers
      BY <1>0, <1>7 DEF ClearIdle, Step, Asleep, idling
    <2> QED  BY <1>0, <2>1 DEF Counted
  <1>8. ASSUME DequeueTodo(w) PROVE Counted'
    <2>1. Asleep' = Asleep /\ idleWorkers' = idleWorkers
      BY <1>0, <1>8 DEF DequeueTodo, Step, Asleep, idling
    <2> QED  BY <1>0, <2>1 DEF Counted
  <1>9. ASSUME RunChild(w) PROVE Counted'
    <2>1. Asleep' = Asleep /\ idleWorkers' = idleWorkers
      BY <1>0, <1>9 DEF RunChild, Step, Asleep, idling
    <2> QED  BY <1>0, <2>1 DEF Counted
  <1>10. ASSUME PushCompleted(w) PROVE Counted'
    <2>1. Asleep' = Asleep /\ idleWorkers' = idleWorkers
      BY <1>0, <1>10 DEF PushCompleted, Step, Asleep, idling
    <2> QED  BY <1>0, <2>1 DEF Counted
  <1>11. ASSUME PushCompletedAgain(w) PROVE Counted'
    <2>1. Asleep' = Asleep /\ idleWorkers' = idleWorkers
      BY <1>0, <1>11 DEF PushCompletedAgain, Asleep, idling
    <2> QED  BY <1>0, <2>1 DEF Counted
  <1>12. ASSUME DecrementPending(w) PROVE Counted'
    <2>1. Asleep' = Asleep /\ idleWorkers' = idleWorkers
      BY <1>0, <1>12 DEF DecrementPending, Step, Asleep, idling
    <2> QED  BY <1>0, <2>1 DEF Counted
  <1>13. ASSUME Announce(w) PROVE Counted'
    <2>1. Asleep' = Asleep /\ idleWorkers' = idleWorkers
      BY <1>0, <1>13 DEF Announce, Step, Asleep, idling
    <2> QED  BY <1>0, <2>1 DEF Counted
  <1>20. /\ workers' = workers /\ wpc[w] # "none"
         /\ \A v \in Workers \ {w} : wpc'[v] = wpc[v]
    BY <1>0 DEF Worker, LookForWork, SayIdle, NotIdleAfterAll, CountIdle, WakeUp, ClearIdle,
           UncountIdle, DequeueTodo, RunChild, PushCompleted, PushCompletedAgain,
           DecrementPending, Announce, Step
  <1>21. Started'
    BY <1>20 DEF IInv, Started
  <1> QED  BY <1>1, <1>2, <1>3, <1>4, <1>5, <1>6, <1>7, <1>8, <1>9, <1>10, <1>11, <1>12, <1>13, <1>20, <1>21 DEF Worker

LEMMA MainCount == ASSUME IInv, Main PROVE Counted' /\ Started'
  <1>0. wpc \in [Workers -> Labels] /\ workers \in 0 .. MaxWorkers
    BY DEF IInv, TypeOK, Labels
  <1>1. CASE ChooseWorker
    <2>1. CASE /\ workers' = workers + 1 /\ wpc' = [wpc EXCEPT ![workers + 1] = "top"]
      <3>1. workers + 1 \in Workers => wpc[workers + 1] = "none"
        BY <1>0 DEF IInv, Started, Workers
      <3>2. Asleep' = Asleep
        BY <1>0, <2>1, <3>1 DEF Asleep
      <3>3. idleWorkers' = idleWorkers
        BY <1>1 DEF ChooseWorker, idling
      <3>4. Started'
        BY <1>0, <2>1 DEF IInv, Started, Workers
      <3> QED  BY <3>2, <3>3, <3>4 DEF IInv, Counted
    <2>2. CASE UNCHANGED <<workers, wpc>>
      <3>1. idleWorkers' = idleWorkers
        BY <1>1 DEF ChooseWorker, idling
      <3> QED  BY <2>2, <3>1 DEF IInv, Counted, Asleep, Started
    <2> QED  BY <1>1, <2>1, <2>2 DEF ChooseWorker
  <1>2. CASE ~ChooseWorker
    <2>1. UNCHANGED <<workers, wpc, idleWorkers>>
      BY <1>2 DEF Main, PushTodo, PushTodoAgain, IncrementPending, IsIdle, WakeWorker,
             ReapChildren, NoneCompleted, SomePending, WakeMain, TakeCompleted,
             DequeueCompleted, Acquire, AcquireFails, Go, idling, worker
    <2> QED  BY <2>1 DEF IInv, Counted, Asleep, Started
  <1> QED  BY <1>1, <1>2

-----------------------------------------------------------------------------
(* Every step keeps the invariant and is a step of the queue.              *)

LEMMA WorkerPlaces ==
    ASSUME IInv, NEW w \in Workers, Worker(w)
    PROVE  Places' /\ \A l \in Lists : (l = w /\ DequeueTodo(w)) \/ Listed(l) \subseteq Listed(l)'
  <1>1. CASE DequeueTodo(w)
    <2>1. Places' /\ \A l \in Lists \ {w} : Listed(l)' = Listed(l)
      BY <1>1, TakenPlaces
    <2> QED  BY <1>1, <2>1
  <1>2. CASE PushCompleted(w)
    BY <1>2, HandedPlaces
  <1>3. CASE ~DequeueTodo(w) /\ ~PushCompleted(w)
    <2>1. /\ UNCHANGED lists /\ Busy' = Busy /\ \A v \in Busy : wchild'[v] = wchild[v]
          /\ Pushing' = Pushing /\ children' = children /\ reaped' = reaped
      BY <1>3, NotWorking DEF Worker, IInv
    <2> QED  BY <2>1, PlacesKept DEF IInv
  <1> QED  BY <1>1, <1>2, <1>3

LEMMA MainPlaces ==
    ASSUME IInv, Main
    PROVE  /\ Places'
           /\ \A l \in Lists : (l = Completed /\ DequeueCompleted) \/ Listed(l) \subseteq Listed(l)'
  <1>1. CASE ChooseWorker
    BY <1>1, CreatedPlaces
  <1>2. CASE PushTodo
    BY <1>2, PushedPlaces
  <1>3. CASE DequeueCompleted
    <2>1. Places' /\ \A w \in Workers : Listed(w)' = Listed(w)
      BY <1>3, ReapedPlaces
    <2> QED  BY <1>3, <2>1, SomeLists
  <1>4. CASE ~ChooseWorker /\ ~PushTodo /\ ~DequeueCompleted
    <2>1. /\ UNCHANGED <<lists, worker>> /\ Pushing' = Pushing /\ children' = children
          /\ reaped' = reaped
      BY <1>4, NotMoving DEF Main, IInv
    <2>2. Busy' = Busy /\ wchild' = wchild
      BY <2>1 DEF Busy, worker
    <2> QED  BY <2>1, <2>2, PlacesKept DEF IInv
  <1> QED  BY <1>1, <1>2, <1>3, <1>4

LEMMA WorkerReading == ASSUME IInv, NEW w \in Workers, Worker(w) PROVE Reading'
  <1>0. /\ wpc \in [Workers -> Labels] /\ wchild \in [Workers -> Pointers]
        /\ mpc' = mpc /\ mchild' = mchild
    BY DEF IInv, TypeOK, Labels, Worker, LookForWork, SayIdle, NotIdleAfterAll, CountIdle,
           WakeUp, ClearIdle, UncountIdle, DequeueTodo, RunChild, PushCompleted,
           PushCompletedAgain, DecrementPending, Announce, main
  <1>1. \A l \in Lists : l = w \/ Listed(l) \subseteq Listed(l)'
    BY WorkerPlaces
  <1>2. \A v \in Workers \ {w} : wpc'[v] = wpc[v] /\ wchild'[v] = wchild[v]
    BY <1>0 DEF Worker, LookForWork, SayIdle, NotIdleAfterAll, CountIdle, WakeUp, ClearIdle,
           UncountIdle, DequeueTodo, RunChild, PushCompleted, PushCompletedAgain,
           DecrementPending, Announce, Step
  <1>3. wpc'[w] \in {"notIdle", "dequeue"} => wchild'[w] \in Listed(w)'
    <2>1. CASE LookForWork(w)
      <3>1. /\ wchild'[w] = tail[w] /\ Listed(w) \subseteq Listed(w)'
            /\ wpc'[w] \in {"notIdle", "dequeue"} => tail[w] # Nil
        <4>1. ~DequeueTodo(w)
          BY <2>1 DEF LookForWork, DequeueTodo, Step
        <4>2. Listed(w) \subseteq Listed(w)'
          BY <4>1, WorkerPlaces, SomeLists
        <4> QED  BY <1>0, <2>1, <4>2 DEF LookForWork, Step
      <3>2. tail[w] # Nil => tail[w] \in Listed(w)
        BY TailIsFirst, SomeLists DEF IInv, Places, Chains
      <3> QED  BY <3>1, <3>2
    <2>2. CASE NotIdleAfterAll(w)
      <3>1. wpc[w] = "notIdle" /\ wchild' = wchild
        BY <2>2 DEF NotIdleAfterAll, Step
      <3>2. ~DequeueTodo(w)
        BY <3>1 DEF DequeueTodo, Step
      <3>3. Listed(w) \subseteq Listed(w)'
        BY <3>2, WorkerPlaces, SomeLists
      <3> QED  BY <3>1, <3>3 DEF IInv, Reading
    <2>3. CASE ~LookForWork(w) /\ ~NotIdleAfterAll(w)
      <3>1. wpc'[w] \notin {"notIdle", "dequeue"}
        BY <1>0, <2>3 DEF Worker, SayIdle, CountIdle, WakeUp, ClearIdle, UncountIdle,
               DequeueTodo, RunChild, PushCompleted, PushCompletedAgain, DecrementPending,
               Announce, Step
      <3> QED  BY <3>1
    <2> QED  BY <2>1, <2>2, <2>3
  <1>4. \A v \in Workers : wpc'[v] \in {"notIdle", "dequeue"} => wchild'[v] \in Listed(v)'
    BY <1>1, <1>2, <1>3, SomeLists DEF IInv, Reading
  <1>5. mpc' = "dequeue" => mchild' \in Listed(Completed)'
    BY <1>0, <1>1, SomeLists DEF IInv, Reading
  <1> QED  BY <1>4, <1>5 DEF Reading

LEMMA MainReading == ASSUME IInv, Main PROVE Reading'
  <1>1. \A w \in Workers : Listed(w) \subseteq Listed(w)'
    BY MainPlaces, SomeLists
  <1>2. wchild' = wchild /\ \A w \in Workers : wpc'[w] = wpc[w] \/ wpc'[w] = "top"
    <2>1. wpc \in [Workers -> Labels]
      BY DEF IInv, TypeOK, Labels
    <2>2. CASE ChooseWorker
      <3>1. wpc' = wpc \/ wpc' = [wpc EXCEPT ![workers + 1] = "top"]
        BY <2>2 DEF ChooseWorker
      <3> QED  BY <2>1, <2>2, <3>1 DEF ChooseWorker
    <2>3. CASE ~ChooseWorker
      BY <2>3 DEF Main, PushTodo, PushTodoAgain, IncrementPending, IsIdle, WakeWorker,
             ReapChildren, NoneCompleted, SomePending, WakeMain, TakeCompleted,
             DequeueCompleted, Acquire, AcquireFails, Go, worker
    <2> QED  BY <2>2, <2>3
  <1>3. mpc' = "dequeue" => mchild' \in Listed(Completed)'
    <2>1. CASE TakeCompleted
      <3>1. mchild' = tail[Completed] /\ (mpc' = "dequeue" => tail[Completed] # Nil)
        BY <2>1 DEF TakeCompleted, Go
      <3>2. tail[Completed] # Nil => tail[Completed] \in Listed(Completed)
        BY TailIsFirst, SomeLists DEF IInv, Places, Chains
      <3>3. Listed(Completed) \subseteq Listed(Completed)'
        <4>1. ~DequeueCompleted
          BY <2>1 DEF TakeCompleted, Go, DequeueCompleted
        <4> QED  BY <4>1, MainPlaces, SomeLists
      <3> QED  BY <3>1, <3>2, <3>3
    <2>2. CASE ~TakeCompleted
      <3>1. mret \in {"idle", "take"}
        BY DEF IInv, TypeOK
      <3>2. mpc' # "dequeue"
        BY <2>2, <3>1 DEF Main, ChooseWorker, PushTodo, PushTodoAgain, IncrementPending,
               IsIdle, WakeWorker, Pushed, ReapChildren, NoneCompleted, SomePending, WakeMain,
               DequeueCompleted, Acquire, AcquireFails, Go
      <3> QED  BY <3>2
    <2> QED  BY <2>1, <2>2
  <1>4. \A w \in Workers : wpc'[w] \in {"notIdle", "dequeue"} => wchild'[w] \in Listed(w)'
    BY <1>1, <1>2 DEF IInv, Reading
  <1> QED  BY <1>3, <1>4 DEF Reading

LEMMA WorkerWaiting == ASSUME IInv, NEW w \in Workers, Worker(w) PROVE Waiting'
  <1> DEFINE Coming(v) == wpc[v] = "announce" \/ (wpc[v] = "decrement" /\ wexpect[v] = Nil)
             Told == tail[Completed] = Nil \/ evtWait \/ \E v \in Workers : Coming(v)
  <1>0. /\ wpc \in [Workers -> Labels] /\ wexpect \in [Workers -> Pointers]
        /\ tail \in [Lists -> Pointers] /\ Completed \in Lists /\ w # Completed
    BY SomeLists DEF IInv, TypeOK, Labels
  <1>1. mpc' = mpc /\ children' = children
    BY DEF Worker, LookForWork, SayIdle, NotIdleAfterAll, CountIdle, WakeUp, ClearIdle,
           UncountIdle, DequeueTodo, RunChild, PushCompleted, PushCompletedAgain,
           DecrementPending, Announce, main, fates
  <1>2. \A v \in Workers \ {w} : wpc'[v] = wpc[v] /\ wexpect'[v] = wexpect[v]
    BY <1>0 DEF Worker, LookForWork, SayIdle, NotIdleAfterAll, CountIdle, WakeUp, ClearIdle,
           UncountIdle, DequeueTodo, RunChild, PushCompleted, PushCompletedAgain,
           DecrementPending, Announce, Step
  <1>3. ASSUME Told PROVE Told'
    <2>1. CASE Announce(w)
      BY <2>1 DEF Announce
    <2>2. CASE DecrementPending(w)
      <3>1. /\ wpc[w] = "decrement" /\ (wexpect[w] = Nil => wpc'[w] = "announce")
            /\ tail' = tail /\ evtWait' = evtWait
        BY <1>0, <2>2 DEF DecrementPending, Step, lists
      <3>2. Coming(w) => Coming(w)'
        BY <3>1
      <3>3. \A v \in Workers \ {w} : Coming(v) => Coming(v)'
        BY <1>2
      <3> QED  BY <1>3, <3>1, <3>2, <3>3
    <2>3. CASE PushCompleted(w)
      <3>1. /\ wpc[w] = "complete" /\ wpc'[w] = "decrement" /\ wexpect' = wexpect
            /\ tail[Completed] = wexpect[w] /\ evtWait' = evtWait
        BY <1>0, <2>3 DEF PushCompleted, Step, Push
      <3>2. tail[Completed] = Nil => Coming(w)'
        BY <3>1
      <3>3. \A v \in Workers : Coming(v) => Coming(v)'
        BY <1>2, <3>1
      <3> QED  BY <1>3, <3>1, <3>2, <3>3
    <2>4. CASE ~Announce(w) /\ ~DecrementPending(w) /\ ~PushCompleted(w)
      <3>1. evtWait' = evtWait /\ tail'[Completed] = tail[Completed]
        BY <1>0, <2>4 DEF Worker, LookForWork, SayIdle, NotIdleAfterAll, CountIdle, WakeUp,
               ClearIdle, UncountIdle, DequeueTodo, Dequeue, RunChild, PushCompletedAgain, lists
      <3>2. ~Coming(w)
        BY <2>4 DEF Worker, LookForWork, SayIdle, NotIdleAfterAll, CountIdle, WakeUp,
               ClearIdle, UncountIdle, DequeueTodo, RunChild, PushCompletedAgain, Step
      <3>3. \A v \in Workers : Coming(v) => Coming(v)'
        BY <1>2, <3>2
      <3> QED  BY <1>3, <3>1, <3>3
    <2> QED  BY <2>1, <2>2, <2>3, <2>4
  <1>4. /\ mpc \in {"noneCompleted", "somePending", "asleep"} => children # {}
        /\ mpc \in {"somePending", "asleep"} => Told
    BY DEF IInv, Waiting
  <1>5. /\ mpc' \in {"noneCompleted", "somePending", "asleep"} => children' # {}
        /\ mpc' \in {"somePending", "asleep"} => Told'
    BY <1>1, <1>3, <1>4
  <1> QED  BY <1>5 DEF Waiting

LEMMA MainWaiting == ASSUME IInv, Main PROVE Waiting'
  <1>0. mret \in {"idle", "take"}
    BY DEF IInv, TypeOK
  <1>1. CASE \E b \in BOOLEAN : ReapChildren(b)
    <2>1. children' = children /\ children # {} /\ mpc' \in {"noneCompleted", "take"}
      BY <1>1 DEF ReapChildren, Go, fates
    <2> QED  BY <2>1 DEF Waiting
  <1>2. CASE NoneCompleted
    <2>1. /\ children' = children /\ mpc = "noneCompleted" /\ mpc' \in {"somePending", "take"}
          /\ mpc' = "somePending" => tail'[Completed] = Nil
      BY <1>2 DEF NoneCompleted, Go, fates, lists
    <2> QED  BY <2>1 DEF IInv, Waiting
  <1>3. CASE SomePending
    <2>1. /\ children' = children /\ mpc = "somePending" /\ mpc' \in {"asleep", "take"}
          /\ tail' = tail /\ evtWait' = evtWait /\ wpc' = wpc /\ wexpect' = wexpect
      BY <1>3 DEF SomePending, Go, fates, lists, worker
    <2> QED  BY <2>1 DEF IInv, Waiting
  <1>4. CASE /\ ~(\E b \in BOOLEAN : ReapChildren(b))
             /\ ~NoneCompleted /\ ~SomePending
    <2>1. mpc' \notin {"noneCompleted", "somePending", "asleep"}
      BY <1>0, <1>4 DEF Main, ChooseWorker, PushTodo, PushTodoAgain, IncrementPending,
             IsIdle, WakeWorker, Pushed, WakeMain, TakeCompleted, DequeueCompleted, Acquire,
             AcquireFails, Go
    <2> QED  BY <2>1 DEF Waiting
  <1> QED  BY <1>1, <1>2, <1>3, <1>4

LEMMA InitInv == Init => IInv
  <1> SUFFICES ASSUME Init PROVE IInv
    OBVIOUS
  <1>1. TypeOK /\ Counted /\ Started
    BY InitType
  <1>2. \A l \in Lists : Chain(l) = <<>> /\ Leads(next, <<>>, tail[l])
    <2> SUFFICES ASSUME NEW l \in Lists PROVE Chain(l) = <<>> /\ Leads(next, <<>>, tail[l])
      OBVIOUS
    <2>1. Leads(next, <<>>, tail[l])
      BY DEF Init, Leads
    <2>2. <<>> \in Seq(Children) /\ IsInjective(<<>>)
      BY DEF IsInjective
    <2> QED  BY <2>1, <2>2, LineIs, ChainIsLine
  <1>3. Chains
    <2>1. <<>> \in Seq(Children) /\ IsInjective(<<>>)
      BY DEF IsInjective
    <2> QED  BY <1>1, <1>2, <2>1 DEF Chains, WellLinked, TypeOK
  <1>4. \A l \in Lists : Listed(l) = {}
    BY <1>2 DEF Listed, Range
  <1>5. Busy = {} /\ Pushing = {} /\ children = {}
    BY DEF Init, Busy, Pushing
  <1>6. Todo = {} /\ Hands = {}
    BY <1>4, <1>5, InTodo, InHands, SomeLists
  <1>7. Places
    BY <1>3, <1>4, <1>5, <1>6, SomeLists DEF Places, ListsApart, HandsApart, PushingApart
  <1>8. Reading /\ Waiting
    BY DEF Init, Reading, Waiting
  <1> QED  BY <1>1, <1>7, <1>8 DEF IInv

LEMMA NextInv == ASSUME IInv, [Next]_vars PROVE IInv'
  <1>1. CASE Main
    BY <1>1, MainPlaces, MainCount, MainType, MainReading, MainWaiting DEF IInv, Places
  <1>2. ASSUME NEW w \in Workers, Worker(w) PROVE IInv'
    BY <1>2, WorkerPlaces, WorkerCount, WorkerType, WorkerReading, WorkerWaiting
       DEF IInv, Places
  <1>3. CASE UNCHANGED vars
    <2>1. /\ UNCHANGED lists /\ Busy' = Busy /\ wchild' = wchild /\ Pushing' = Pushing
          /\ children' = children /\ reaped' = reaped
      BY <1>3 DEF vars, worker, main, fates, Busy, Pushing
    <2>2. Places' /\ \A l \in Lists : Listed(l)' = Listed(l)
      BY <2>1, PlacesKept DEF IInv
    <2>3. TypeOK' /\ Counted' /\ Started' /\ Waiting'
      BY <1>3 DEF IInv, vars, lists, idling, worker, main, fates, TypeOK, Counted, Asleep,
             Started, Waiting
    <2>4. Reading'
      BY <1>3, <2>2, SomeLists DEF IInv, vars, worker, main, Reading
    <2> QED  BY <2>2, <2>3, <2>4 DEF IInv
  <1> QED  BY <1>1, <1>2, <1>3 DEF Next

LEMMA Invariance == Spec => []IInv
  BY InitInv, NextInv, PTL DEF Spec

-----------------------------------------------------------------------------
(* Every variable of the child management has the values that the code     *)
(* gives it; g_cIdleChildcareWorkers stays between 0 and the number of     *)
(* workers there may be.                                                   *)
THEOREM TypeCorrect == Spec => []TypeOK
  <1>1. IInv => TypeOK
    BY DEF IInv
  <1> QED  BY <1>1, Invariance, PTL

(* MkWinChildWait() does not sleep through the completion of the last      *)
(* child: while the main thread sleeps on g_hEvtWaitChildren, a child is   *)
(* still to be completed, or the event is set, or the worker that will set *)
(* it is on its way.                                                       *)
THEOREM SleepersWoken == Spec => []SleeperIsWoken
  <1>1. IInv => SleeperIsWoken
    <2> SUFFICES ASSUME IInv, mpc = "asleep" PROVE SleeperIsWoken
      BY DEF SleeperIsWoken
    <2>1. CASE tail[Completed] = Nil
      <3>1. Listed(Completed) = {}
        <4>1. WellLinked(Completed) /\ Completed \in Lists
          BY SomeLists DEF IInv, Places, Chains
        <4>2. Listed(Completed) # {} => tail[Completed] \in Children
          BY <4>1, TailIsFirst
        <4> QED  BY <2>1, <4>2, WinChildrenAssumption
      <3>2. Pushing = {} /\ children # {}
        BY DEF Pushing, IInv, Waiting
      <3>3. Todo \cup Hands # {}
        BY <3>1, <3>2 DEF IInv, Places
      <3> QED  BY <2>1, <3>3 DEF SleeperIsWoken
    <2>2. CASE tail[Completed] # Nil
      BY <2>2 DEF IInv, Waiting, SleeperIsWoken
    <2> QED  BY <2>1, <2>2
  <1> QED  BY <1>1, Invariance, PTL

-----------------------------------------------------------------------------
(* The refinement, step by step.                                           *)

LEMMA InitQueue == Init => Queue!Init
  <1> SUFFICES ASSUME Init PROVE Queue!Init
    OBVIOUS
  <1>1. IInv
    BY InitInv
  <1>2. Chain(Completed) = <<>>
    <2>1. WellLinked(Completed) /\ Completed \in Lists /\ tail[Completed] = Nil
      BY <1>1, SomeLists DEF IInv, Places, Chains, Init
    <2>2. Chain(Completed) # <<>> => tail[Completed] \in Children
      BY <2>1, TailIsFirst
    <2> QED  BY <2>1, <2>2, WinChildrenAssumption
  <1>3. Reverse(<<>>) = <<>>
    BY DEF Reverse
  <1>4. children = {} /\ reaped = {} /\ mpc = "idle"
    BY DEF Init
  <1>5. Todo = {} /\ Hands = {}
    BY <1>1, <1>4 DEF IInv, Places
  <1> QED  BY <1>2, <1>3, <1>4, <1>5 DEF Queue!Init

LEMMA QueueKept ==
    ASSUME Todo' \cup Pushing' = Todo \cup Pushing, Hands' = Hands,
           Chain(Completed)' = Chain(Completed), reaped' = reaped
    PROVE  UNCHANGED Queue!vars
  <1>1. Reverse(Chain(Completed))' = Reverse(Chain(Completed))
    BY DEF Reverse
  <1> QED  BY <1>1 DEF Queue!vars, Pushing

LEMMA WorkerQueue ==
    ASSUME IInv, NEW w \in Workers, Worker(w)
    PROVE  Queue!Next \/ UNCHANGED Queue!vars
  <1>1. CASE DequeueTodo(w)
    <2>1. PICK c \in Todo :
              /\ Todo' = Todo \ {c} /\ Hands' = Hands \cup {c}
              /\ Chain(Completed)' = Chain(Completed)
              /\ Pushing' = Pushing /\ c \notin Pushing /\ reaped' = reaped
      BY <1>1, TakenPlaces
    <2>2. Reverse(Chain(Completed))' = Reverse(Chain(Completed))
      BY <2>1 DEF Reverse
    <2>3. (Todo \cup Pushing)' = (Todo \cup Pushing) \ {c}
      BY <2>1
    <2>4. Queue!Run(c)
      BY <2>1, <2>2, <2>3 DEF Queue!Run, Pushing
    <2>5. c \in Children
      BY <2>1, InTodo, TailIsFirst, SomeLists DEF IInv, Places, Chains
    <2> QED  BY <2>4, <2>5 DEF Queue!Next
  <1>2. CASE PushCompleted(w)
    <2>1. PICK c \in Hands :
              /\ Todo' = Todo /\ Hands' = Hands \ {c}
              /\ Chain(Completed)' = <<c>> \o Chain(Completed) /\ c \in Children
              /\ Pushing' = Pushing /\ reaped' = reaped
      BY <1>2, HandedPlaces
    <2>2. Reverse(Chain(Completed))' = Append(Reverse(Chain(Completed)), c)
      <3>1. Chain(Completed) \in Seq(Children)
        BY SomeLists DEF IInv, Places, Chains, WellLinked
      <3>2. Reverse(<<c>> \o Chain(Completed)) = Append(Reverse(Chain(Completed)), c)
        BY <2>1, <3>1, ReversePush
      <3>3. Reverse(Chain(Completed))' = Reverse(<<c>> \o Chain(Completed))
        BY <2>1 DEF Reverse
      <3> QED  BY <3>2, <3>3
    <2>3. Queue!Complete(c)
      BY <2>1, <2>2 DEF Queue!Complete, Pushing
    <2> QED  BY <2>1, <2>3 DEF Queue!Next
  <1>3. CASE ~DequeueTodo(w) /\ ~PushCompleted(w)
    <2>1. /\ UNCHANGED lists /\ Busy' = Busy /\ \A v \in Busy : wchild'[v] = wchild[v]
          /\ Pushing' = Pushing /\ children' = children /\ reaped' = reaped
      BY <1>3, NotWorking DEF Worker, IInv
    <2>2. /\ Todo' = Todo /\ Hands' = Hands /\ Chain(Completed)' = Chain(Completed)
      BY <2>1, PlacesKept DEF IInv
    <2> QED  BY <2>1, <2>2, QueueKept
  <1> QED  BY <1>1, <1>2, <1>3

LEMMA MainQueue == ASSUME IInv, Main PROVE Queue!Next \/ UNCHANGED Queue!vars
  <1>1. CASE ChooseWorker
    <2>1. PICK c : c = NewChild
      OBVIOUS
    <2>2. /\ Todo' = Todo /\ Hands' = Hands /\ Chain(Completed)' = Chain(Completed)
          /\ Pushing = {} /\ Pushing' = {c} /\ reaped' = reaped
          /\ c \in Children /\ c \notin children /\ c \notin reaped
      BY <1>1, <2>1, CreatedPlaces DEF Fresh
    <2>3. Reverse(Chain(Completed))' = Reverse(Chain(Completed))
      BY <2>2 DEF Reverse
    <2>4. Queue!Range(Reverse(Chain(Completed))) = Listed(Completed)
      <3>1. Chain(Completed) \in Seq(Children)
        BY SomeLists DEF IInv, Places, Chains, WellLinked
      <3>2. Range(Reverse(Chain(Completed))) = Range(Chain(Completed))
        BY <3>1, ReverseElements
      <3> QED  BY <3>2 DEF Listed, Range, Queue!Range
    <2>5. c \notin (Todo \cup Pushing) \cup Hands \cup Queue!Range(Reverse(Chain(Completed)))
                 \cup reaped
      BY <2>2, <2>4 DEF IInv, Places
    <2>6. (Todo \cup Pushing)' = (Todo \cup Pushing) \cup {c}
      BY <2>2
    <2>7. Queue!Create(c)
      BY <2>2, <2>3, <2>5, <2>6 DEF Queue!Create, Pushing
    <2> QED  BY <2>2, <2>7 DEF Queue!Next
  <1>2. CASE PushTodo
    <2>1. /\ Todo' = Todo \cup {mchild} /\ Hands' = Hands
          /\ Chain(Completed)' = Chain(Completed)
          /\ Pushing = {mchild} /\ Pushing' = {} /\ reaped' = reaped
      BY <1>2, PushedPlaces
    <2> QED  BY <2>1, QueueKept
  <1>3. CASE DequeueCompleted
    <2>1. PICK c \in children :
              /\ Todo' = Todo /\ Hands' = Hands
              /\ Chain(Completed) # <<>> /\ Chain(Completed)' = Front(Chain(Completed))
              /\ c = Chain(Completed)[Len(Chain(Completed))]
              /\ Pushing = {} /\ Pushing' = {} /\ reaped' = reaped \cup {c}
      BY <1>3, ReapedPlaces
    <2>2. /\ Reverse(Chain(Completed)) # <<>> /\ Head(Reverse(Chain(Completed))) = c
          /\ Reverse(Chain(Completed))' = Tail(Reverse(Chain(Completed)))
      <3>1. Chain(Completed) \in Seq(Children)
        BY SomeLists DEF IInv, Places, Chains, WellLinked
      <3>2. /\ Reverse(Chain(Completed)) # <<>> /\ Head(Reverse(Chain(Completed))) = c
            /\ Tail(Reverse(Chain(Completed))) = Reverse(Front(Chain(Completed)))
        BY <2>1, <3>1, ReverseCut
      <3>3. Reverse(Chain(Completed))' = Reverse(Front(Chain(Completed)))
        BY <2>1 DEF Reverse
      <3> QED  BY <3>2, <3>3
    <2>3. Queue!Reap
      BY <2>1, <2>2 DEF Queue!Reap, Pushing
    <2> QED  BY <2>3 DEF Queue!Next
  <1>4. CASE ~ChooseWorker /\ ~PushTodo /\ ~DequeueCompleted
    <2>1. /\ UNCHANGED <<lists, worker>> /\ Pushing' = Pushing /\ children' = children
          /\ reaped' = reaped
      BY <1>4, NotMoving DEF Main, IInv
    <2>2. Busy' = Busy /\ wchild' = wchild
      BY <2>1 DEF Busy, worker
    <2>3. /\ Todo' = Todo /\ Hands' = Hands /\ Chain(Completed)' = Chain(Completed)
      BY <2>1, <2>2, PlacesKept DEF IInv
    <2> QED  BY <2>1, <2>3, QueueKept
  <1> QED  BY <1>1, <1>2, <1>3, <1>4

LEMMA NextQueue == ASSUME IInv, [Next]_vars PROVE [Queue!Next]_(Queue!vars)
  <1>1. CASE Main
    BY <1>1, MainQueue
  <1>2. ASSUME NEW w \in Workers, Worker(w) PROVE [Queue!Next]_(Queue!vars)
    BY <1>2, WorkerQueue
  <1>3. CASE UNCHANGED vars
    <2>1. /\ UNCHANGED lists /\ Busy' = Busy /\ wchild' = wchild /\ Pushing' = Pushing
          /\ children' = children /\ reaped' = reaped
      BY <1>3 DEF vars, worker, main, fates, Busy, Pushing
    <2>2. /\ Todo' = Todo /\ Hands' = Hands /\ Chain(Completed)' = Chain(Completed)
      BY <2>1, PlacesKept DEF IInv
    <2> QED  BY <2>1, <2>2, QueueKept
  <1> QED  BY <1>1, <1>2, <1>3 DEF Next

(* The lock-free lists are a queue: every child that is created is run     *)
(* once and handed back once, after it has run, and children are handed    *)
(* back in the order in which they completed, however many threads push    *)
(* and however pushes and removals meet.                                   *)
THEOREM Implements == Spec => ImplementsChildQueue
  <1>1. Init => Queue!Init
    BY InitQueue
  <1>2. IInv /\ [Next]_vars => [Queue!Next]_(Queue!vars)
    BY NextQueue
  <1> QED  BY <1>1, <1>2, Invariance, PTL DEF Spec, ImplementsChildQueue, Queue!Spec
=============================================================================
