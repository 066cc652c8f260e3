--------------------------- MODULE KSubmitProofs ----------------------------
(***************************************************************************)
(* Theorems about KSubmit, for any number of workers and any hash table.   *)
(* TypeCorrect holds for workers of both kinds.  The others are about a    *)
(* build that uses one kind: with two the removal from the hash table      *)
(* breaks the lists, as TLC shows (MCKSubmit_kinds.cfg).                   *)
(***************************************************************************)
EXTENDS KSubmit, Lemmas

-----------------------------------------------------------------------------
(* The chain from the head of a list, and what it is for a list to be a    *)
(* sequence of workers that is linked both ways.                           *)

Order(L, l) == Follow(L.next, L.head[l])

Links == [head : [Lists -> Pointers], tail : [Lists -> Pointers],
          next : [Workers -> Pointers], prev : [Workers -> Pointers]]

Listed(L, l, s) ==
    /\ s \in Seq(Workers) /\ IsInjective(s)
    /\ L.head[l] = IF s = <<>> THEN Nil ELSE s[1]
    /\ L.tail[l] = IF s = <<>> THEN Nil ELSE s[Len(s)]
    /\ \A i \in 1 .. Len(s) :
          /\ L.next[s[i]] = IF i = Len(s) THEN Nil ELSE s[i + 1]
          /\ L.prev[s[i]] = IF i = 1 THEN Nil ELSE s[i - 1]

(* Following a list gives its sequence.                                    *)
LEMMA FollowIsOrder ==
    ASSUME NEW L, NEW l \in Lists, NEW s, Listed(L, l, s)
    PROVE  Follow(L.next, L.head[l]) = s
  <1> DEFINE N == Cardinality(Workers)
             link == L.next
             from == L.head[l]
             Nth(g) == [n \in 1 .. N |-> IF n = 1 THEN from
                          ELSE IF g[n - 1] = Nil THEN Nil ELSE link[g[n - 1]]]
             f == [n \in 1 .. N |-> IF n <= Len(s) THEN s[n] ELSE Nil]
             h == CHOOSE g : g = Nth(g)
  <1>1. /\ Len(s) \in Nat /\ DOMAIN s = 1 .. Len(s) /\ \A i \in 1 .. Len(s) : s[i] \in Workers
        /\ s = <<>> <=> Len(s) = 0
    BY LenProperties, ElementOfSeq, EmptySeq DEF Listed
  <1>2. N \in Nat /\ Len(s) <= N
    <2>1. IsFiniteSet(Workers)
      BY KSubmitAssumption
    <2>2. IsFiniteSet(Range(s)) /\ Cardinality(Range(s)) = Len(s)
      BY DistinctCardinality DEF Listed
    <2>3. Range(s) \subseteq Workers
      BY <1>1 DEF Range
    <2> QED  BY <2>1, <2>2, <2>3, FS_Subset, FS_CardinalityType
  <1>3. Nil \notin Workers
    BY KSubmitAssumption
  <1>4. /\ from = IF Len(s) = 0 THEN Nil ELSE s[1]
        /\ \A i \in 1 .. Len(s) : link[s[i]] = IF i = Len(s) THEN Nil ELSE s[i + 1]
    BY <1>1 DEF Listed
  <1> HIDE DEF N, link, from
  <1>5. f = Nth(f)
    <2> SUFFICES ASSUME NEW n \in 1 .. N PROVE f[n] = Nth(f)[n]
      OBVIOUS
    <2>1. CASE n = 1
      <3>1. Nth(f)[n] = from /\ f[n] = IF 1 <= Len(s) THEN s[1] ELSE Nil
        BY <2>1
      <3>2. Len(s) = 0 <=> ~(1 <= Len(s))
        BY <1>1
      <3> QED  BY <1>4, <3>1, <3>2, Zenon
    <2>2. CASE n # 1
      <3>1. n - 1 \in 1 .. N
        BY <1>2, <2>2
      <3>2. f[n - 1] = IF n - 1 <= Len(s) THEN s[n - 1] ELSE Nil
        BY <3>1
      <3>3. n - 1 <= Len(s) => s[n - 1] \in Workers /\ n - 1 \in 1 .. Len(s)
        BY <1>1, <3>1
      <3>4. Nth(f)[n] = IF f[n - 1] = Nil THEN Nil ELSE link[f[n - 1]]
        BY <2>2
      <3>5. f[n] = IF n <= Len(s) THEN s[n] ELSE Nil
        OBVIOUS
      <3> HIDE DEF f, Nth
      <3>6. CASE n - 1 <= Len(s)
        <4>1. f[n - 1] = s[n - 1] /\ s[n - 1] # Nil
          BY <1>3, <3>2, <3>3, <3>6
        <4>2. link[s[n - 1]] = IF n - 1 = Len(s) THEN Nil ELSE s[n]
          BY <1>2, <1>4, <3>3, <3>6
        <4>3. n - 1 = Len(s) <=> ~(n <= Len(s))
          BY <1>1, <1>2, <3>6
        <4> QED  BY <3>4, <3>5, <4>1, <4>2, <4>3
      <3>7. CASE ~(n - 1 <= Len(s))
        <4>1. ~(n <= Len(s))
          BY <1>1, <1>2, <3>7
        <4> QED  BY <3>2, <3>4, <3>5, <3>7, <4>1
      <3> QED  BY <3>6, <3>7
    <2> QED  BY <2>1, <2>2
  <1>6. h = Nth(h)
    BY <1>5
  <1> HIDE DEF h
  <1>7. \A n \in 1 .. N : h[n] = f[n]
    <2> DEFINE Bad == {n \in 1 .. N : h[n] # f[n]}
    <2> SUFFICES ASSUME Bad # {} PROVE FALSE
      OBVIOUS
    <2>0. Bad \subseteq Nat
      BY <1>2
    <2>1. PICK n \in Bad : \A j \in Bad : n <= j
      <3> HIDE DEF Bad
      <3> QED  BY <2>0, Least
    <2>2. n \in 1 .. N /\ h[n] # f[n]
      OBVIOUS
    <2>3. n # 1 => n - 1 \in 1 .. N /\ n - 1 \notin Bad
      BY <1>2, <2>1, <2>2
    <2>4. n # 1 => h[n - 1] = f[n - 1]
      BY <2>3
    <2>5. f[n] = Nth(f)[n] /\ h[n] = Nth(h)[n]
      BY <1>5, <1>6
    <2> QED  BY <2>2, <2>4, <2>5
  <1>8. h = [n \in 1 .. N |-> h[n]]
    BY <1>6
  <1>9. {n \in 1 .. N : h[n] # Nil} = 1 .. Len(s)
    <2>1. ASSUME NEW n \in 1 .. N PROVE h[n] # Nil <=> n \in 1 .. Len(s)
      BY <1>1, <1>3, <1>7
    <2>2. 1 .. Len(s) \subseteq 1 .. N
      BY <1>1, <1>2
    <2> QED  BY <2>1, <2>2
  <1>10. Restrict(h, {n \in 1 .. N : h[n] # Nil}) = [n \in 1 .. Len(s) |-> s[n]]
    BY <1>1, <1>2, <1>7, <1>9 DEF Restrict
  <1>11. s = [n \in 1 .. Len(s) |-> s[n]]
    BY LenProperties DEF Listed
  <1>12. Follow(link, from) = Restrict(h, {n \in 1 .. N : h[n] # Nil})
    BY DEF Follow, h, N
  <1> QED  BY <1>10, <1>11, <1>12 DEF link, from

(* M differs from L in list l and in the links of the workers in S only.   *)
Elsewhere(L, M, l, S) ==
    /\ \A k \in Lists \ {l} : M.head[k] = L.head[k] /\ M.tail[k] = L.tail[k]
    /\ \A x \in Workers \ S : M.next[x] = L.next[x] /\ M.prev[x] = L.prev[x]

LEMMA ListedElsewhere ==
    ASSUME NEW L, NEW M, NEW l \in Lists, NEW S, Elsewhere(L, M, l, S),
           NEW k \in Lists, k # l, NEW t, Listed(L, k, t), Range(t) \cap S = {}
    PROVE  Listed(M, k, t)
  <1>1. \A i \in 1 .. Len(t) : t[i] \in Workers \ S
    <2>1. \A i \in 1 .. Len(t) : t[i] \in Workers /\ t[i] \in Range(t)
      <3>1. t \in Seq(Workers)
        BY DEF Listed
      <3>2. Range(t) = {t[i] : i \in 1 .. Len(t)}
        BY <3>1, RangeEquality
      <3> QED  BY <3>1, <3>2, ElementOfSeq
    <2> QED  BY <2>1
  <1> QED  BY <1>1 DEF Listed, Elsewhere

(* kSubmitListAppend() of a worker that is not on the list.                *)
LEMMA AppendListed ==
    ASSUME NEW L \in Links, NEW l \in Lists, NEW s, Listed(L, l, s),
           NEW w \in Workers, w \notin Range(s)
    PROVE  /\ AppendTo(L, l, w) \in Links
           /\ Listed(AppendTo(L, l, w), l, Append(s, w))
           /\ Elsewhere(L, AppendTo(L, l, w), l, Range(s) \cup {w})
  <1> DEFINE M == AppendTo(L, l, w)
             n == Len(s)
             t == L.tail[l]
             u == Append(s, w)
  <1>1. /\ s \in Seq(Workers) /\ n \in Nat /\ (s = <<>> <=> n = 0)
        /\ \A i \in 1 .. n : s[i] \in Workers /\ s[i] \in Range(s) /\ s[i] # w
        /\ \A i, j \in 1 .. n : s[i] = s[j] => i = j
    <2>1. s \in Seq(Workers)
      BY DEF Listed
    <2>2. /\ n \in Nat /\ DOMAIN s = 1 .. n /\ (s = <<>> <=> n = 0)
          /\ \A i \in 1 .. n : s[i] \in Workers /\ s[i] \in Range(s)
      BY <2>1, LenProperties, ElementOfSeq, EmptySeq, RangeEquality
    <2>3. \A i, j \in DOMAIN s : s[i] = s[j] => i = j
      BY DEF Listed, IsInjective
    <2> QED  BY <2>1, <2>2, <2>3
  <1>2. /\ u \in Seq(Workers) /\ Len(u) = n + 1 /\ IsInjective(u)
        /\ \A i \in 1 .. n : u[i] = s[i]
        /\ u[n + 1] = w
    <2>1. IsInjective(s)
      BY DEF Listed
    <2>2. u \in Seq(Workers) /\ Len(u) = n + 1 /\ IsInjective(u)
      BY <1>1, <2>1, AppendElements
    <2> QED  BY <1>1, <2>2, AppendProperties
  <1>3. /\ M.head = [L.head EXCEPT ![l] = IF t = Nil THEN w ELSE L.head[l]]
        /\ M.tail = [L.tail EXCEPT ![l] = w]
        /\ M.next = [x \in Workers |-> IF x = t THEN w ELSE IF x = w THEN Nil ELSE L.next[x]]
        /\ M.prev = [L.prev EXCEPT ![w] = t]
    BY DEF AppendTo
  <1>4. M \in Links
    <2>1. t \in Pointers /\ w \in Pointers /\ Nil \in Pointers /\ L.head[l] \in Pointers
      BY DEF Links, Pointers
    <2>2. /\ M.head \in [Lists -> Pointers] /\ M.tail \in [Lists -> Pointers]
          /\ M.next \in [Workers -> Pointers] /\ M.prev \in [Workers -> Pointers]
      BY <1>3, <2>1 DEF Links
    <2>3. M = [head |-> M.head, tail |-> M.tail, next |-> M.next, prev |-> M.prev]
      BY DEF AppendTo
    <2> HIDE DEF M
    <2> QED  BY <2>2, <2>3 DEF Links
  <1>5. t = IF n = 0 THEN Nil ELSE s[n]
    BY <1>1 DEF Listed
  <1>6. Nil \notin Workers
    BY KSubmitAssumption
  <1>7. /\ \A x \in Workers : M.next[x] = IF x = t THEN w ELSE IF x = w THEN Nil ELSE L.next[x]
        /\ \A x \in Workers : M.prev[x] = IF x = w THEN t ELSE L.prev[x]
        /\ \A k \in Lists : /\ M.tail[k] = IF k = l THEN w ELSE L.tail[k]
                            /\ M.head[k] = IF k = l /\ t = Nil THEN w ELSE L.head[k]
    BY <1>3 DEF Links
  <1> HIDE DEF M, u
  <1>8. n # 0 => n \in 1 .. n
    BY <1>1
  <1>9. Elsewhere(L, M, l, Range(s) \cup {w})
    <2>1. ASSUME NEW x \in Workers \ (Range(s) \cup {w})
          PROVE  M.next[x] = L.next[x] /\ M.prev[x] = L.prev[x]
      <3>1. x # t /\ x # w
        BY <1>1, <1>5, <1>6, <1>8
      <3> QED  BY <1>7, <3>1
    <2> QED  BY <1>7, <2>1 DEF Elsewhere
  <1>10. ASSUME NEW i \in 1 .. n + 1
         PROVE  /\ M.next[u[i]] = IF i = n + 1 THEN Nil ELSE u[i + 1]
                /\ M.prev[u[i]] = IF i = 1 THEN Nil ELSE u[i - 1]
    <2>1. CASE i = n + 1
      <3>1. u[i] = w /\ w # t
        BY <1>1, <1>2, <1>5, <1>6, <1>8, <2>1
      <3>2. M.next[w] = Nil /\ M.prev[w] = t
        BY <1>7, <3>1
      <3>3. t = IF i = 1 THEN Nil ELSE u[i - 1]
        BY <1>1, <1>2, <1>5, <1>8, <2>1
      <3> QED  BY <2>1, <3>1, <3>2, <3>3
    <2>2. CASE i = n /\ i # n + 1
      <3>1. /\ n # 0 /\ n \in 1 .. n /\ u[i] = s[n] /\ s[n] = t /\ s[n] # w
            /\ s[n] \in Workers /\ u[i + 1] = w
        BY <1>1, <1>2, <1>5, <2>2
      <3>2. M.next[s[n]] = w /\ M.prev[s[n]] = L.prev[s[n]]
        BY <1>7, <3>1
      <3>3. L.prev[s[n]] = IF n = 1 THEN Nil ELSE s[n - 1]
        BY <3>1 DEF Listed
      <3>4. n # 1 => u[n - 1] = s[n - 1]
        <4>1. n \in Nat /\ n # 0
          BY <1>1, <3>1
        <4> HIDE DEF n
        <4>2. n # 1 => n - 1 \in 1 .. n
          BY <4>1
        <4> QED  BY <1>2, <4>2
      <3> QED  BY <2>2, <3>1, <3>2, <3>3, <3>4
    <2>3. CASE i # n /\ i # n + 1
      <3>1. i \in 1 .. n /\ i + 1 \in 1 .. n /\ n \in 1 .. n /\ n # 0
        BY <1>1, <2>3
      <3>2. u[i] = s[i] /\ u[i + 1] = s[i + 1] /\ s[i] # t /\ s[i] # w /\ s[i] \in Workers
        BY <1>1, <1>2, <1>5, <2>3, <3>1
      <3>3. M.next[s[i]] = L.next[s[i]] /\ M.prev[s[i]] = L.prev[s[i]]
        BY <1>7, <3>2
      <3>4. /\ L.next[s[i]] = IF i = n THEN Nil ELSE s[i + 1]
            /\ L.prev[s[i]] = IF i = 1 THEN Nil ELSE s[i - 1]
        BY <3>1 DEF Listed
      <3>5. i # 1 => i - 1 \in 1 .. n /\ u[i - 1] = s[i - 1]
        <4>1. i # 1 => i - 1 \in 1 .. n
          BY <1>1, <3>1
        <4> HIDE DEF n
        <4> QED  BY <1>2, <4>1
      <3>6. (i = 1 \/ u[i - 1] = s[i - 1]) /\ M.next[u[i]] = L.next[s[i]] /\ M.prev[u[i]] = L.prev[s[i]]
        BY <3>2, <3>3, <3>5
      <3> HIDE DEF n
      <3> QED  BY <2>3, <3>2, <3>4, <3>6
    <2> QED  BY <2>1, <2>2, <2>3
  <1>11. Listed(M, l, u)
    <2>1. u # <<>> /\ u[Len(u)] = w
      BY <1>1, <1>2, EmptySeq
    <2>2. M.tail[l] = w
      BY <1>7
    <2>3. M.head[l] = u[1]
      <3>1. CASE n = 0
        BY <1>2, <1>5, <1>7, <3>1
      <3>2. CASE n # 0
        <4>1. 1 \in 1 .. n /\ n \in 1 .. n
          BY <1>1, <3>2
        <4>2. t # Nil
          BY <1>1, <1>5, <1>6, <3>2, <4>1
        <4>3. L.head[l] = s[1]
          BY <1>1, <3>2 DEF Listed
        <4> QED  BY <1>2, <1>7, <4>1, <4>2, <4>3
      <3> QED  BY <3>1, <3>2
    <2> QED  BY <1>2, <1>10, <2>1, <2>2, <2>3 DEF Listed
  <1> QED  BY <1>4, <1>9, <1>11 DEF M, u

(* kSubmitListUnlink() of a worker that is on the list.                    *)
Without(s, i) == [j \in 1 .. Len(s) - 1 |-> IF j < i THEN s[j] ELSE s[j + 1]]

LEMMA WithoutElement ==
    ASSUME NEW s \in Seq(Workers), IsInjective(s), NEW i \in 1 .. Len(s)
    PROVE  /\ Without(s, i) \in Seq(Workers) /\ Len(Without(s, i)) = Len(s) - 1
           /\ IsInjective(Without(s, i)) /\ Range(Without(s, i)) = Range(s) \ {s[i]}
  <1> DEFINE u == Without(s, i)
             n == Len(s)
  <1>1. /\ n \in Nat /\ DOMAIN s = 1 .. n /\ i \in 1 .. n
        /\ \A j \in 1 .. n : s[j] \in Workers
        /\ \A j, k \in 1 .. n : s[j] = s[k] => j = k
    <2>1. n \in Nat /\ DOMAIN s = 1 .. n /\ \A j \in 1 .. n : s[j] \in Workers
      BY LenProperties, ElementOfSeq
    <2>2. \A j, k \in DOMAIN s : s[j] = s[k] => j = k
      BY DEF IsInjective
    <2> QED  BY <2>1, <2>2
  <1>2. u = [j \in 1 .. n - 1 |-> IF j < i THEN s[j] ELSE s[j + 1]]
    BY DEF Without
  <1> HIDE DEF n, u
  <1>3. \A j \in 1 .. n - 1 : /\ j \in 1 .. n /\ j + 1 \in 1 .. n
                             /\ u[j] = IF j < i THEN s[j] ELSE s[j + 1]
    BY <1>1, <1>2
  <1>4. u \in [1 .. n - 1 -> Workers] /\ n - 1 \in Nat
    BY <1>1, <1>2, <1>3
  <1>5. u \in Seq(Workers) /\ Len(u) = n - 1 /\ DOMAIN u = 1 .. n - 1
    <2> DEFINE m == n - 1
    <2>1. u \in [1 .. m -> Workers] /\ m \in Nat
      BY <1>4
    <2> HIDE DEF m
    <2>2. u \in Seq(Workers) /\ Len(u) = m /\ DOMAIN u = 1 .. m
      BY <2>1
    <2> QED  BY <2>2 DEF m
  <1>6. ASSUME NEW j \in 1 .. n - 1, NEW k \in 1 .. n - 1, u[j] = u[k] PROVE j = k
    BY <1>1, <1>3, <1>6
  <1>7. Range(s) = {s[j] : j \in 1 .. n} /\ Range(u) = {u[j] : j \in 1 .. n - 1}
    BY <1>5, RangeEquality DEF n
  <1>8. ASSUME NEW j \in 1 .. n, j # i PROVE s[j] \in Range(u)
    <2>1. CASE j < i
      <3>1. j \in 1 .. n - 1 /\ u[j] = s[j]
        BY <1>1, <1>3, <2>1
      <3> QED  BY <1>7, <3>1
    <2>2. CASE j > i
      <3>1. j - 1 \in 1 .. n - 1 /\ ~(j - 1 < i) /\ (j - 1) + 1 = j
        BY <1>1, <2>2
      <3>2. u[j - 1] = s[j]
        BY <1>3, <3>1
      <3> QED  BY <1>7, <3>1, <3>2
    <2> QED  BY <1>1, <1>8, <2>1, <2>2
  <1>9. ASSUME NEW j \in 1 .. n - 1 PROVE u[j] \in Range(s) /\ u[j] # s[i]
    <2>1. PICK k \in 1 .. n : u[j] = s[k] /\ k # i
      BY <1>1, <1>3
    <2> QED  BY <1>1, <1>7, <2>1
  <1>10. Range(u) = Range(s) \ {s[i]}
    BY <1>7, <1>8, <1>9
  <1>11. IsInjective(u)
    BY <1>5, <1>6 DEF IsInjective
  <1> QED  BY <1>5, <1>10, <1>11 DEF u, n

LEMMA UnlinkListed ==
    ASSUME NEW L \in Links, NEW l \in Lists, NEW s, Listed(L, l, s),
           NEW i \in 1 .. Len(s)
    PROVE  LET M == Unlink(L, l, s[i])
           IN  /\ M \in Links
               /\ Listed(M, l, Without(s, i))
               /\ Elsewhere(L, M, l, Range(s))
               /\ M.next[s[i]] = Nil /\ M.prev[s[i]] = Nil
  <1> DEFINE w == s[i]
             M == Unlink(L, l, w)
             n == Len(s)
             u == Without(s, i)
             q == L.next[w]
             p == L.prev[w]
  <1>1. /\ s \in Seq(Workers) /\ n \in Nat /\ (s = <<>> <=> n = 0) /\ i \in 1 .. n
        /\ \A j \in 1 .. n : s[j] \in Workers /\ s[j] \in Range(s)
        /\ \A j, k \in 1 .. n : s[j] = s[k] => j = k
    <2>1. s \in Seq(Workers)
      BY DEF Listed
    <2>2. /\ n \in Nat /\ DOMAIN s = 1 .. n /\ (s = <<>> <=> n = 0)
          /\ \A j \in 1 .. n : s[j] \in Workers /\ s[j] \in Range(s)
      BY <2>1, LenProperties, ElementOfSeq, EmptySeq, RangeEquality
    <2>3. \A j, k \in DOMAIN s : s[j] = s[k] => j = k
      BY DEF Listed, IsInjective
    <2> QED  BY <2>1, <2>2, <2>3
  <1>2. Nil \notin Workers
    BY KSubmitAssumption
  <1>3. /\ q = IF i = n THEN Nil ELSE s[i + 1]
        /\ p = IF i = 1 THEN Nil ELSE s[i - 1]
    BY <1>1 DEF Listed
  <1>4. M = [head |-> [L.head EXCEPT ![l] = IF p = Nil THEN q ELSE L.head[l]],
             tail |-> [L.tail EXCEPT ![l] = IF q = Nil THEN p ELSE L.tail[l]],
             next |-> [x \in Workers |-> IF x = w THEN Nil ELSE IF x = p THEN q ELSE L.next[x]],
             prev |-> [x \in Workers |-> IF x = w THEN Nil ELSE IF x = q THEN p ELSE L.prev[x]]]
    BY DEF Unlink
  <1>5. w \in Workers /\ p \in Pointers /\ q \in Pointers /\ Nil \in Pointers
    BY <1>1 DEF Links, Pointers
  <1>6. \A j \in 1 .. n : /\ L.next[s[j]] = IF j = n THEN Nil ELSE s[j + 1]
                          /\ L.prev[s[j]] = IF j = 1 THEN Nil ELSE s[j - 1]
    BY DEF Listed
  <1>7. /\ u \in Seq(Workers) /\ Len(u) = n - 1 /\ IsInjective(u)
        /\ Range(u) = Range(s) \ {w}
        /\ \A j \in 1 .. n - 1 : u[j] = IF j < i THEN s[j] ELSE s[j + 1]
    <2>1. IsInjective(s)
      BY DEF Listed
    <2>2. /\ u \in Seq(Workers) /\ Len(u) = n - 1 /\ IsInjective(u)
          /\ Range(u) = Range(s) \ {w}
      BY <1>1, <2>1, WithoutElement
    <2>3. \A j \in 1 .. n - 1 : u[j] = IF j < i THEN s[j] ELSE s[j + 1]
      BY DEF Without
    <2> QED  BY <2>2, <2>3
  <1>8. /\ L.head[l] = IF n = 0 THEN Nil ELSE s[1]
        /\ L.tail[l] = IF n = 0 THEN Nil ELSE s[n]
    BY <1>1 DEF Listed
  <1> HIDE DEF M, n, u, q, p, w
  <1>9. M \in Links
    BY <1>4, <1>5 DEF Links
  <1>10. /\ \A x \in Workers : M.next[x] = IF x = w THEN Nil ELSE IF x = p THEN q ELSE L.next[x]
         /\ \A x \in Workers : M.prev[x] = IF x = w THEN Nil ELSE IF x = q THEN p ELSE L.prev[x]
         /\ \A k \in Lists :
               /\ M.head[k] = IF k = l THEN IF p = Nil THEN q ELSE L.head[l] ELSE L.head[k]
               /\ M.tail[k] = IF k = l THEN IF q = Nil THEN p ELSE L.tail[l] ELSE L.tail[k]
    BY <1>4 DEF Links
  <1>11. /\ (i = n /\ q = Nil) \/ (i # n /\ i + 1 \in 1 .. n /\ q = s[i + 1] /\ q \in Workers)
         /\ (i = 1 /\ p = Nil) \/ (i # 1 /\ i - 1 \in 1 .. n /\ p = s[i - 1] /\ p \in Workers)
    BY <1>1, <1>3
  <1>12. Elsewhere(L, M, l, Range(s))
    <2>1. ASSUME NEW x \in Workers \ Range(s)
          PROVE  M.next[x] = L.next[x] /\ M.prev[x] = L.prev[x]
      <3>1. x # w /\ x # p /\ x # q
        BY <1>1, <1>2, <1>11 DEF w
      <3> QED  BY <1>10, <3>1
    <2> QED  BY <1>10, <2>1 DEF Elsewhere
  <1>13. M.next[w] = Nil /\ M.prev[w] = Nil
    BY <1>5, <1>10
  <1>14. ASSUME NEW j \in 1 .. n, j # i
         PROVE  /\ M.next[s[j]] = IF j = i - 1 THEN q ELSE L.next[s[j]]
                /\ M.prev[s[j]] = IF j = i + 1 THEN p ELSE L.prev[s[j]]
    <2>1. s[j] \in Workers /\ s[j] # w
      BY <1>1, <1>14 DEF w
    <2>2. s[j] = p <=> j = i - 1
      BY <1>1, <1>2, <1>11
    <2>3. s[j] = q <=> j = i + 1
      BY <1>1, <1>2, <1>11
    <2> QED  BY <1>10, <2>1, <2>2, <2>3
  <1>15. ASSUME NEW j \in 1 .. n - 1
         PROVE  /\ M.next[u[j]] = IF j = n - 1 THEN Nil ELSE u[j + 1]
                /\ M.prev[u[j]] = IF j = 1 THEN Nil ELSE u[j - 1]
    <2>1. CASE j < i
      <3>1. /\ u[j] = s[j] /\ j \in 1 .. n /\ j # i /\ j # i + 1 /\ j # n
            /\ j = n - 1 => i = n /\ j = i - 1
        BY <1>1, <1>7, <2>1
      <3>2. M.next[s[j]] = IF j = n - 1 THEN Nil ELSE u[j + 1]
        <4>1. CASE j = i - 1 /\ j = n - 1
          BY <1>11, <1>14, <3>1, <4>1
        <4>2. CASE j = i - 1 /\ j # n - 1
          <5>1. j + 1 \in 1 .. n - 1 /\ ~(j + 1 < i) /\ (j + 1) + 1 = i + 1 /\ i # n
            BY <1>1, <4>2
          <5>2. u[j + 1] = s[i + 1]
            BY <1>7, <5>1
          <5> QED  BY <1>11, <1>14, <3>1, <4>2, <5>1, <5>2
        <4>3. CASE j # i - 1
          <5>1. j + 1 \in 1 .. n - 1 /\ j + 1 < i /\ j # n - 1
            BY <1>1, <2>1, <4>3
          <5>2. u[j + 1] = s[j + 1]
            BY <1>7, <5>1
          <5> QED  BY <1>6, <1>14, <3>1, <4>3, <5>1, <5>2
        <4> QED  BY <4>1, <4>2, <4>3
      <3>3. M.prev[s[j]] = IF j = 1 THEN Nil ELSE u[j - 1]
        <4>1. j # 1 => j - 1 \in 1 .. n - 1 /\ j - 1 < i
          BY <1>1, <2>1
        <4>2. j # 1 => u[j - 1] = s[j - 1]
          BY <1>7, <4>1
        <4> QED  BY <1>6, <1>14, <3>1, <4>2
      <3> QED  BY <3>1, <3>2, <3>3
    <2>2. CASE ~(j < i)
      <3>1. /\ u[j] = s[j + 1] /\ j + 1 \in 1 .. n /\ j + 1 # i /\ j + 1 # i - 1 /\ j + 1 # 1
            /\ (j = n - 1 <=> j + 1 = n) /\ (j + 1 = i + 1 <=> j = i)
        BY <1>1, <1>7, <2>2
      <3>2. M.next[s[j + 1]] = IF j = n - 1 THEN Nil ELSE u[j + 1]
        <4>1. M.next[s[j + 1]] = IF j + 1 = n THEN Nil ELSE s[(j + 1) + 1]
          BY <1>6, <1>14, <3>1
        <4>2. j # n - 1 => j + 1 \in 1 .. n - 1 /\ ~(j + 1 < i)
          BY <1>1, <2>2
        <4>3. j # n - 1 => u[j + 1] = s[(j + 1) + 1]
          BY <1>7, <4>2
        <4> QED  BY <3>1, <4>1, <4>3
      <3>3. M.prev[s[j + 1]] = IF j = 1 THEN Nil ELSE u[j - 1]
        <4>1. CASE j = i
          <5>1. M.prev[s[j + 1]] = p
            BY <1>14, <3>1, <4>1
          <5>2. j # 1 => j - 1 \in 1 .. n - 1 /\ j - 1 < i
            BY <1>1, <4>1
          <5>3. j # 1 => u[j - 1] = s[j - 1]
            BY <1>7, <5>2
          <5> QED  BY <1>3, <4>1, <5>1, <5>3
        <4>2. CASE j # i
          <5>1. M.prev[s[j + 1]] = s[(j + 1) - 1] /\ (j + 1) - 1 = j
            BY <1>6, <1>14, <3>1, <4>2
          <5>2. j # 1 /\ j - 1 \in 1 .. n - 1 /\ ~(j - 1 < i) /\ (j - 1) + 1 = j
            BY <1>1, <2>2, <4>2
          <5>3. u[j - 1] = s[j]
            BY <1>7, <5>2
          <5> QED  BY <5>1, <5>2, <5>3
        <4> QED  BY <4>1, <4>2
      <3> QED  BY <3>1, <3>2, <3>3
    <2> QED  BY <2>1, <2>2
  <1>16. M.head[l] = IF u = <<>> THEN Nil ELSE u[1]
    <2>1. CASE n = 1
      <3>1. i = 1 /\ i = n /\ u = <<>>
        BY <1>1, <1>7, <2>1, EmptySeq
      <3> QED  BY <1>3, <1>10, <3>1
    <2>2. CASE n # 1
      <3>1. 1 \in 1 .. n - 1 /\ n # 0 /\ Len(u) # 0 /\ 1 + 1 = 2
        BY <1>1, <1>7, <2>2
      <3>2. u # <<>> /\ u[1] = IF 1 < i THEN s[1] ELSE s[2]
        BY <1>7, <3>1, EmptySeq
      <3>3. i = 1 => i + 1 = 2 /\ ~(1 < i) /\ i # n
        BY <2>2
      <3>4. i # 1 => 1 < i
        BY <1>1
      <3> QED  BY <1>2, <1>8, <1>10, <1>11, <3>1, <3>2, <3>3, <3>4
    <2> QED  BY <2>1, <2>2
  <1>17. M.tail[l] = IF u = <<>> THEN Nil ELSE u[Len(u)]
    <2>1. CASE n = 1
      <3>1. i = 1 /\ i = n /\ u = <<>>
        BY <1>1, <1>7, <2>1, EmptySeq
      <3> QED  BY <1>3, <1>10, <3>1
    <2>2. CASE n # 1
      <3>1. n - 1 \in 1 .. n - 1 /\ n # 0 /\ Len(u) # 0 /\ (n - 1) + 1 = n
        BY <1>1, <1>7, <2>2
      <3>2. u # <<>> /\ Len(u) = n - 1 /\ u[n - 1] = IF n - 1 < i THEN s[n - 1] ELSE s[n]
        BY <1>7, <3>1, EmptySeq
      <3>3. i = n => i - 1 = n - 1 /\ n - 1 < i /\ i # 1
        BY <1>1, <2>2
      <3>4. i # n => ~(n - 1 < i)
        BY <1>1
      <3> QED  BY <1>2, <1>8, <1>10, <1>11, <3>1, <3>2, <3>3, <3>4
    <2> QED  BY <2>1, <2>2
  <1>18. Listed(M, l, u)
    BY <1>7, <1>15, <1>16, <1>17 DEF Listed
  <1> QED  BY <1>9, <1>12, <1>13, <1>18 DEF M, u, w

LEMMA UnlinkedChain ==
    ASSUME NEW L \in Links, NEW l \in Lists, NEW a, Listed(L, l, a), NEW i \in 1 .. Len(a),
           NEW w, w = a[i]
    PROVE  /\ Unlink(L, l, w) \in Links
           /\ \E s : /\ Listed(Unlink(L, l, w), l, s) /\ Range(s) = Range(a) \ {w}
                     /\ Elsewhere(L, Unlink(L, l, w), l, Range(a))
                     /\ Unlink(L, l, w).next[w] = Nil /\ Unlink(L, l, w).prev[w] = Nil
  <1>1. a \in Seq(Workers) /\ IsInjective(a)
    BY DEF Listed
  <1>2. Range(Without(a, i)) = Range(a) \ {w}
    BY <1>1, WithoutElement
  <1>3. /\ Unlink(L, l, w) \in Links /\ Listed(Unlink(L, l, w), l, Without(a, i))
        /\ Elsewhere(L, Unlink(L, l, w), l, Range(a))
        /\ Unlink(L, l, w).next[w] = Nil /\ Unlink(L, l, w).prev[w] = Nil
    BY UnlinkListed
  <1> QED  BY <1>2, <1>3

(* A worker that is unlinked from one list and appended to the other.      *)
LEMMA MovedChain ==
    ASSUME NEW L \in Links, NEW l \in Lists, NEW k \in Lists, k # l,
           NEW a, Listed(L, l, a), NEW b, Listed(L, k, b), Range(a) \cap Range(b) = {},
           NEW i \in 1 .. Len(a), NEW w, w = a[i]
    PROVE  LET M == AppendTo(Unlink(L, l, w), k, w)
           IN  \E s, t : /\ Listed(M, l, s) /\ Range(s) = Range(a) \ {w}
                         /\ Listed(M, k, t) /\ Range(t) = Range(b) \cup {w}
                         /\ \A x \in Workers \ (Range(a) \cup Range(b)) :
                               M.next[x] = L.next[x] /\ M.prev[x] = L.prev[x]
  <1> DEFINE U == Unlink(L, l, w)
             M == AppendTo(U, k, w)
  <1>1. /\ a \in Seq(Workers) /\ w \in Workers /\ w \in Range(a)
    BY ElementOfSeq, RangeEquality DEF Listed
  <1>2. PICK s : /\ U \in Links /\ Listed(U, l, s) /\ Range(s) = Range(a) \ {w}
                 /\ Elsewhere(L, U, l, Range(a))
    BY UnlinkedChain
  <1> HIDE DEF U
  <1>3. Listed(U, k, b)
    <2>1. Range(b) \cap Range(a) = {}
      OBVIOUS
    <2> QED  BY <1>2, <2>1, ListedElsewhere
  <1>4. w \notin Range(b)
    BY <1>1
  <1>5. Listed(M, k, Append(b, w)) /\ Elsewhere(U, M, k, Range(b) \cup {w})
    BY <1>1, <1>2, <1>3, <1>4, AppendListed
  <1> HIDE DEF M
  <1>6. Listed(M, l, s)
    <2>1. Range(s) \cap (Range(b) \cup {w}) = {}
      BY <1>2
    <2> QED  BY <1>2, <1>5, <2>1, ListedElsewhere
  <1>7. Range(Append(b, w)) = Range(b) \cup {w}
    <2>1. b \in Seq(Workers)
      BY DEF Listed
    <2> QED  BY <1>1, <2>1, AppendElements
  <1>8. ASSUME NEW x \in Workers \ (Range(a) \cup Range(b))
        PROVE  M.next[x] = L.next[x] /\ M.prev[x] = L.prev[x]
    <2>1. x # w
      BY <1>1
    <2> QED  BY <1>2, <1>5, <2>1 DEF Elsewhere
  <1> QED  BY <1>2, <1>5, <1>6, <1>7, <1>8 DEF M, U

-----------------------------------------------------------------------------
(* The jobs of the build are all for 32-bit workers, or all for 64-bit.    *)
OneKind == \A a, b \in Kinds : a = b

(* The labels at which the main thread has a worker.                       *)
Busy == {"send", "write", "mark", "move"}

HasWorker == mpc \in Busy => cur \in Workers

(* It is the first of the idle list, without a child, until a child is     *)
(* queued for it; and its pipe is open when a message is written.          *)
Chosen ==
    /\ mpc \in Busy => memory[cur] = "live" /\ links.head["idle"] = cur
    /\ mpc \in {"send", "write", "mark"} => child[cur] = "none" /\ exit[cur] = "none"
    /\ mpc = "move" => child[cur] # "none"
    /\ mpc \in {"write", "mark"} => pipe[cur]

Moving == IF mpc = "move" THEN {cur} ELSE {}

(* The lists are linked both ways and have all workers in use, those with  *)
(* a child on the busy list, but for the one that is about to be moved.    *)
Chained ==
    /\ \A l \in Lists : Listed(links, l, Order(links, l))
    /\ Members("busy") \cap Members("idle") = {}
    /\ Members("busy") \cup Members("idle") = {w \in Workers : memory[w] = "live"}
    /\ Members("busy") = {w \in Workers : child[w] # "none"} \ Moving
    /\ \A w \in Workers : memory[w] # "live" => links.next[w] = Nil /\ links.prev[w] = Nil

(* A process is at work, or its reply unread, only while somebody waits    *)
(* for it: a child, or the main thread that is about to queue one.         *)
Working(w) == child[w] = "queued" \/ (mpc = "mark" /\ cur = w)

JobOf(w) ==
    /\ replied[w] => done[w] /\ Working(w) /\ proc[w] # "busy"
    /\ proc[w] = "busy" => Working(w)
    /\ exit[w] = "replied" => done[w]
    /\ memory[w] = "unused" => child[w] = "none" /\ exit[w] = "none"
    /\ memory[w] = "live" => bits[w] \in Kinds
    /\ child[w] # "none" => memory[w] = "live"

Jobs == \A w \in Workers : JobOf(w)

IInv == TypeOK /\ HasWorker /\ Chosen /\ Chained /\ Jobs

-----------------------------------------------------------------------------
(* Types, for workers of both kinds.                                       *)

LEMMA LinksTypes ==
    ASSUME NEW L \in Links, NEW l \in Lists, NEW w \in Workers
    PROVE  Unlink(L, l, w) \in Links /\ AppendTo(L, l, w) \in Links
  <1> DEFINE n == L.next[w]
             p == L.prev[w]
             t == L.tail[l]
  <1>1. /\ n \in Pointers /\ p \in Pointers /\ t \in Pointers /\ Nil \in Pointers /\ w \in Pointers
        /\ L.head \in [Lists -> Pointers] /\ L.tail \in [Lists -> Pointers]
        /\ L.next \in [Workers -> Pointers] /\ L.prev \in [Workers -> Pointers]
    BY DEF Links, Pointers
  <1>2. Unlink(L, l, w) = [head |-> [L.head EXCEPT ![l] = IF p = Nil THEN n ELSE L.head[l]],
             tail |-> [L.tail EXCEPT ![l] = IF n = Nil THEN p ELSE L.tail[l]],
             next |-> [x \in Workers |-> IF x = w THEN Nil ELSE IF x = p THEN n ELSE L.next[x]],
             prev |-> [x \in Workers |-> IF x = w THEN Nil ELSE IF x = n THEN p ELSE L.prev[x]]]
    BY DEF Unlink
  <1>3. AppendTo(L, l, w) = [head |-> [L.head EXCEPT ![l] = IF t = Nil THEN w ELSE L.head[l]],
             tail |-> [L.tail EXCEPT ![l] = w],
             next |-> [x \in Workers |-> IF x = t THEN w ELSE IF x = w THEN Nil ELSE L.next[x]],
             prev |-> [L.prev EXCEPT ![w] = t]]
    BY DEF AppendTo
  <1> HIDE DEF n, p, t
  <1>4. Unlink(L, l, w) \in Links
    BY <1>1, <1>2 DEF Links
  <1>5. AppendTo(L, l, w) \in Links
    BY <1>1, <1>3 DEF Links
  <1> QED  BY <1>4, <1>5

LEMMA RemovedTypes ==
    ASSUME TypeOK, NEW w \in Workers
    PROVE  LinksRemoved(w) \in Links /\ HashRemoved(w) \in [Slots -> Pointers]
  <1>1. /\ links \in Links /\ links.next \in [Workers -> Pointers] /\ links.next[w] \in Pointers
        /\ pidHash \in [Slots -> Pointers]
    BY DEF TypeOK, Links
  <1>2. HashRemoved(w) \in [Slots -> Pointers]
    BY <1>1 DEF HashRemoved
  <1>3. ASSUME NEW f \in [Workers -> Pointers] PROVE [links EXCEPT !.next = f] \in Links
    BY <1>1 DEF Links
  <1>4. LinksRemoved(w) \in Links
    BY <1>1, <1>3 DEF LinksRemoved
  <1> QED  BY <1>2, <1>4

LEMMA TypesInit ==
    Init => TypeOK /\ HasWorker
  BY DEF Init, TypeOK, HasWorker, Busy, Pointers, Outcomes, Lists

LEMMA RespawningTypes ==
    ASSUME TypeOK, NEW w \in Workers, cur = w, mpc \in {"send", "write"}, Respawning(w),
           retries' \in 0 .. 1
    PROVE  TypeOK' /\ HasWorker'
  <1>1. /\ LinksRemoved(w) \in Links /\ HashRemoved(w) \in [Slots -> Pointers]
        /\ Unlink(LinksRemoved(w), "idle", w) \in Links
    BY RemovedTypes, LinksTypes DEF Lists
  <1>2. CASE Respawn(w)
    <2>1. links' \in Links
      BY <1>1, <1>2 DEF Respawn
    <2>2. PICK s \in Slots : /\ slot' = [slot EXCEPT ![w] = s]
                            /\ pidHash' = [HashRemoved(w) EXCEPT ![s] = w]
      BY <1>2 DEF Respawn, Spawned
    <2>3. slot' \in [Workers -> Slots \cup {Nil}] /\ pidHash' \in [Slots -> Pointers]
      BY <1>1, <2>2 DEF TypeOK, Pointers
    <2>4. /\ pipe' \in [Workers -> BOOLEAN] /\ replied' \in [Workers -> BOOLEAN]
          /\ proc' \in [Workers -> {"none", "ready", "busy", "leaving", "dead"}]
      BY <1>2 DEF Respawn, Spawned, TypeOK
    <2> QED  BY <1>2, <2>1, <2>3, <2>4
             DEF Respawn, Goto, TypeOK, HasWorker, Links, Pointers, children
  <1>3. CASE RespawnFails(w)
    <2>1. links' \in Links /\ pidHash' \in [Slots -> Pointers]
      BY <1>1, <1>3 DEF RespawnFails
    <2>2. /\ slot' \in [Workers -> Slots \cup {Nil}]
          /\ memory' \in [Workers -> {"unused", "live", "freed"}]
          /\ pipe' \in [Workers -> BOOLEAN] /\ replied' \in [Workers -> BOOLEAN]
          /\ proc' \in [Workers -> {"none", "ready", "busy", "leaving", "dead"}]
          /\ exit' \in [Workers -> Outcomes]
      BY <1>3 DEF RespawnFails, Return, TypeOK, Outcomes
    <2> QED  BY <1>3, <2>1, <2>2 DEF RespawnFails, Return, TypeOK, HasWorker, Links, Pointers, Busy
  <1>4. CASE Crash(w)
    BY <1>4 DEF Crash, Goto, TypeOK, HasWorker, Busy, instances, processes, children
  <1> QED  BY <1>2, <1>3, <1>4 DEF Respawning

LEMMA ReceiveTypes ==
    ASSUME TypeOK, NEW w \in Workers, Receive(w)
    PROVE  /\ result' \in [Workers -> Outcomes] /\ replied' \in [Workers -> BOOLEAN]
           /\ pipe' \in [Workers -> BOOLEAN] /\ WhatIsRead(w) \in Outcomes
  <1>1. WhatIsRead(w) \in Outcomes
    BY DEF WhatIsRead, Outcomes
  <1>2. result' \in [Workers -> Outcomes]
    BY <1>1 DEF Receive, TypeOK
  <1>3. replied' \in [Workers -> BOOLEAN] /\ pipe' \in [Workers -> BOOLEAN]
    BY DEF Receive, TypeOK
  <1> QED  BY <1>1, <1>2, <1>3

LEMMA TypesStep ==
    ASSUME TypeOK, HasWorker, [Next]_vars
    PROVE  TypeOK' /\ HasWorker'
  <1>1. ASSUME NEW b \in Kinds, SelectIdle(b) PROVE TypeOK' /\ HasWorker'
    <2>1. PICK w \in Workers : /\ mpc' = "send" /\ cur' = w
                              /\ exit' = [exit EXCEPT ![w] = "none"]
      BY <1>1 DEF SelectIdle, Suitable
    <2>2. exit' \in [Workers -> Outcomes]
      BY <2>1 DEF TypeOK, Outcomes
    <2> QED  BY <1>1, <2>1, <2>2
             DEF SelectIdle, TypeOK, HasWorker, Pointers, instances, processes
  <1>2. ASSUME NEW b \in Kinds, SelectNew(b) PROVE TypeOK' /\ HasWorker'
    <2>1. PICK w \in Workers :
             /\ memory' = [memory EXCEPT ![w] = "live"] /\ bits' = [bits EXCEPT ![w] = b]
             /\ links' = AppendTo(links, "idle", w)
             /\ Spawned(w, pidHash)
             /\ mpc' = "send" /\ cur' = w
      BY <1>2 DEF SelectNew
    <2>2. links \in Links /\ "idle" \in Lists
      BY DEF TypeOK, Links, Lists
    <2>3. links' \in Links
      BY <2>1, <2>2, LinksTypes
    <2>4. PICK s \in Slots : slot' = [slot EXCEPT ![w] = s] /\ pidHash' = [pidHash EXCEPT ![s] = w]
      BY <2>1 DEF Spawned
    <2>5. slot' \in [Workers -> Slots \cup {Nil}] /\ pidHash' \in [Slots -> Pointers]
      BY <2>4 DEF TypeOK, Pointers
    <2>6. /\ pipe' \in [Workers -> BOOLEAN] /\ replied' \in [Workers -> BOOLEAN]
          /\ proc' \in [Workers -> {"none", "ready", "busy", "leaving", "dead"}]
      BY <2>1 DEF Spawned, TypeOK
    <2>7. b \in {32, 64}
      BY KSubmitAssumption
    <2>8. memory' \in [Workers -> {"unused", "live", "freed"}] /\ bits' \in [Workers -> {32, 64}]
      BY <2>1, <2>7 DEF TypeOK
    <2> QED  BY <1>2, <2>1, <2>3, <2>5, <2>6, <2>8
             DEF SelectNew, TypeOK, HasWorker, Links, Pointers, children
  <1>3. CASE Send
    <2>1. cur \in Workers
      BY <1>3 DEF Send, HasWorker, Busy
    <2>2. CASE pipe[cur]
      BY <1>3, <2>1, <2>2 DEF Send, Goto, TypeOK, HasWorker, instances, processes, children
    <2>3. CASE ~pipe[cur]
      BY <1>3, <2>1, <2>3, RespawningTypes DEF Send
    <2> QED  BY <2>2, <2>3
  <1>4. CASE Write
    <2>1. cur \in Workers
      BY <1>4 DEF Write, HasWorker, Busy
    <2>2. /\ proc' \in [Workers -> {"none", "ready", "busy", "leaving", "dead"}]
          /\ done' \in [Workers -> BOOLEAN]
      BY <1>4 DEF Write, TypeOK
    <2> QED  BY <1>4, <2>1, <2>2 DEF Write, Goto, TypeOK, HasWorker, instances, children
  <1>5. CASE WriteBroken
    <2>1. cur \in Workers
      BY <1>5 DEF WriteBroken, HasWorker, Busy
    <2>2. retries' \in 0 .. 1
      BY <1>5 DEF WriteBroken, TypeOK
    <2> QED  BY <1>5, <2>1, <2>2, RespawningTypes DEF WriteBroken
  <1>6. CASE WriteFails
    <2>1. exit' \in [Workers -> Outcomes]
      BY <1>6 DEF WriteFails, Return, TypeOK, Outcomes
    <2> QED  BY <1>6, <2>1
             DEF WriteFails, Return, TypeOK, HasWorker, Busy, Pointers, instances, processes
  <1>7. CASE MarkActive
    <2>1. cur \in Workers
      BY <1>7 DEF MarkActive, HasWorker, Busy
    <2>2. CASE Receive(cur) /\ Return(cur, WhatIsRead(cur)) /\ UNCHANGED child
      <3>1. /\ result' \in [Workers -> Outcomes] /\ replied' \in [Workers -> BOOLEAN]
            /\ pipe' \in [Workers -> BOOLEAN] /\ WhatIsRead(cur) \in Outcomes
        BY <2>1, <2>2, ReceiveTypes
      <3>2. exit' \in [Workers -> Outcomes]
        BY <2>2, <3>1 DEF Return, TypeOK
      <3> QED  BY <1>7, <2>2, <3>1, <3>2
               DEF MarkActive, Receive, Return, TypeOK, HasWorker, Busy, Pointers, instances
    <2>3. CASE /\ result' = [result EXCEPT ![cur] = "none"]
               /\ child' = [child EXCEPT ![cur] = "queued"]
               /\ Goto("move")
               /\ UNCHANGED <<instances, pipe, processes, exit>>
      <3>1. /\ result' \in [Workers -> Outcomes]
            /\ child' \in [Workers -> {"none", "queued", "read"}]
        BY <2>3 DEF TypeOK, Outcomes
      <3> QED  BY <1>7, <2>1, <2>3, <3>1
               DEF MarkActive, Goto, TypeOK, HasWorker, instances, processes
    <2> QED  BY <1>7, <2>2, <2>3 DEF MarkActive
  <1>8. CASE MoveToBusy
    <2>1. cur \in Workers /\ links \in Links /\ "idle" \in Lists /\ "busy" \in Lists
      BY <1>8 DEF MoveToBusy, HasWorker, Busy, TypeOK, Links, Lists
    <2>2. links' \in Links
      BY <1>8, <2>1, LinksTypes DEF MoveToBusy
    <2> QED  BY <1>8, <2>2
             DEF MoveToBusy, TypeOK, HasWorker, Busy, Pointers, Links, processes, children
  <1>9. ASSUME NEW w \in Workers, GetResult(w) PROVE TypeOK' /\ HasWorker'
    <2>1. /\ result' \in [Workers -> Outcomes] /\ replied' \in [Workers -> BOOLEAN]
          /\ pipe' \in [Workers -> BOOLEAN] /\ WhatIsRead(w) \in Outcomes
      BY <1>9, ReceiveTypes DEF GetResult
    <2>2. exit' \in [Workers -> Outcomes] /\ child' \in [Workers -> {"none", "queued", "read"}]
      BY <1>9, <2>1 DEF GetResult, TypeOK
    <2> QED  BY <1>9, <2>1, <2>2 DEF GetResult, Receive, TypeOK, HasWorker, instances, main
  <1>10. ASSUME NEW w \in Workers, Cleanup(w) PROVE TypeOK' /\ HasWorker'
    <2>1. links \in Links /\ "idle" \in Lists /\ "busy" \in Lists
      BY DEF TypeOK, Links, Lists
    <2>2. links' \in Links
      BY <1>10, <2>1, LinksTypes DEF Cleanup
    <2>3. child' \in [Workers -> {"none", "queued", "read"}]
      BY <1>10 DEF Cleanup, TypeOK
    <2> QED  BY <1>10, <2>2, <2>3 DEF Cleanup, TypeOK, HasWorker, Links, processes, main
  <1>11. ASSUME NEW w \in Workers, Work(w) PROVE TypeOK' /\ HasWorker'
    <2>1. /\ proc' \in [Workers -> {"none", "ready", "busy", "leaving", "dead"}]
          /\ replied' \in [Workers -> BOOLEAN] /\ done' \in [Workers -> BOOLEAN]
      BY <1>11 DEF Work, TypeOK
    <2> QED  BY <1>11, <2>1 DEF Work, TypeOK, HasWorker, instances, children, main
  <1>12. ASSUME NEW w \in Workers, Die(w) PROVE TypeOK' /\ HasWorker'
    <2>1. /\ proc' \in [Workers -> {"none", "ready", "busy", "leaving", "dead"}]
          /\ replied' \in [Workers -> BOOLEAN]
      BY <1>12 DEF Die, TypeOK
    <2> QED  BY <1>12, <2>1 DEF Die, TypeOK, HasWorker, instances, children, main
  <1>13. CASE UNCHANGED vars
    BY <1>13 DEF vars, instances, processes, children, main, TypeOK, HasWorker
  <1> QED  BY <1>1, <1>2, <1>3, <1>4, <1>5, <1>6, <1>7, <1>8, <1>9, <1>10, <1>11, <1>12, <1>13
           DEF Next, Submit

(* Every variable keeps the values its C declaration and its use allow.    *)
THEOREM TypeCorrect == Spec => []TypeOK
  <1>1. Init => TypeOK /\ HasWorker
    BY TypesInit
  <1>2. TypeOK /\ HasWorker /\ [Next]_vars => TypeOK' /\ HasWorker'
    BY TypesStep
  <1> QED  BY <1>1, <1>2, PTL DEF Spec

-----------------------------------------------------------------------------
(* Chained, of two sequences that are the lists.                           *)
ChainsAre(a, b) ==
    /\ Listed(links, "idle", a) /\ Listed(links, "busy", b)
    /\ Range(a) \cap Range(b) = {}
    /\ Range(a) \cup Range(b) = {w \in Workers : memory[w] = "live"}
    /\ Range(b) = {w \in Workers : child[w] # "none"} \ Moving
    /\ \A w \in Workers : memory[w] # "live" => links.next[w] = Nil /\ links.prev[w] = Nil

LEMMA ChainsOfChained ==
    ASSUME Chained PROVE \E a, b : ChainsAre(a, b)
  <1>1. /\ Members("idle") = Range(Order(links, "idle"))
        /\ Members("busy") = Range(Order(links, "busy"))
    BY DEF Members, Order
  <1>2. Listed(links, "idle", Order(links, "idle")) /\ Listed(links, "busy", Order(links, "busy"))
    BY DEF Chained, Lists
  <1>3. ChainsAre(Order(links, "idle"), Order(links, "busy"))
    BY <1>1, <1>2 DEF Chained, ChainsAre
  <1> QED  BY <1>3

LEMMA ChainedByChains ==
    ASSUME NEW a, NEW b, ChainsAre(a, b)' PROVE Chained'
  <1>1. Listed(links', "idle", a) /\ Listed(links', "busy", b)
    BY DEF ChainsAre
  <1>2. Order(links', "idle") = a /\ Order(links', "busy") = b
    <2>1. "idle" \in Lists /\ "busy" \in Lists
      BY DEF Lists
    <2> QED  BY <1>1, <2>1, FollowIsOrder DEF Order
  <1>3. Members("idle")' = Range(a) /\ Members("busy")' = Range(b)
    BY <1>2 DEF Members, Order
  <1>4. \A l \in Lists : Listed(links', l, Order(links', l))
    BY <1>1, <1>2 DEF Lists
  <1> QED  BY <1>3, <1>4 DEF Chained, ChainsAre

LEMMA ChainsKept ==
    ASSUME Chained, UNCHANGED <<links, memory>>,
           {w \in Workers : child'[w] # "none"} \ Moving' = {w \in Workers : child[w] # "none"} \ Moving
    PROVE  Chained'
  BY DEF Chained, Members

LEMMA ChainElements ==
    ASSUME NEW l \in Lists, NEW s, Listed(links, l, s)
    PROVE  /\ s \in Seq(Workers) /\ DOMAIN s = 1 .. Len(s) /\ Len(s) \in Nat
           /\ (s = <<>> <=> Len(s) = 0)
           /\ \A i \in 1 .. Len(s) : s[i] \in Workers /\ s[i] \in Range(s)
           /\ \A w \in Range(s) : \E i \in 1 .. Len(s) : w = s[i]
           /\ Range(s) # {} => 1 \in 1 .. Len(s) /\ links.head[l] = s[1]
  <1>1. s \in Seq(Workers)
    BY DEF Listed
  <1>2. /\ DOMAIN s = 1 .. Len(s) /\ Len(s) \in Nat /\ (s = <<>> <=> Len(s) = 0)
        /\ \A i \in 1 .. Len(s) : s[i] \in Workers
        /\ Range(s) = {s[i] : i \in 1 .. Len(s)}
    BY <1>1, LenProperties, ElementOfSeq, EmptySeq, RangeEquality
  <1>3. ASSUME Range(s) # {} PROVE 1 \in 1 .. Len(s) /\ links.head[l] = s[1]
    <2>1. PICK i \in 1 .. Len(s) : TRUE
      BY <1>2, <1>3
    <2>2. Len(s) # 0 /\ 1 \in 1 .. Len(s)
      BY <1>2, <2>1
    <2> QED  BY <1>2, <2>2 DEF Listed
  <1> QED  BY <1>1, <1>2, <1>3

(* With one kind of worker the first idle one suits.                       *)
LEMMA FirstSuits ==
    ASSUME OneKind, Jobs, NEW a, NEW c, ChainsAre(a, c), NEW b \in Kinds
    PROVE  /\ \A w \in Suitable(b) : w \in Range(a) /\ w = links.head["idle"]
           /\ Suitable(b) = {} => a = <<>>
  <1> DEFINE Right == {x \in Workers : bits[x] = b}
  <1>1. Listed(links, "idle", a) /\ "idle" \in Lists
    BY DEF ChainsAre, Lists
  <1>2. /\ a \in Seq(Workers) /\ DOMAIN a = 1 .. Len(a) /\ Len(a) \in Nat
        /\ (a = <<>> <=> Len(a) = 0)
        /\ \A i \in 1 .. Len(a) : a[i] \in Workers /\ a[i] \in Range(a)
        /\ Range(a) # {} => 1 \in 1 .. Len(a) /\ links.head["idle"] = a[1]
    BY <1>1, ChainElements
  <1>3. Follow(links.next, links.head["idle"]) = a
    BY <1>1, FollowIsOrder
  <1>4. \A x \in Range(a) : x \in Right
    <2>1. \A x \in Range(a) : x \in Workers /\ memory[x] = "live"
      BY DEF ChainsAre
    <2> QED  BY <2>1 DEF Jobs, JobOf, OneKind
  <1>5. Suitable(b) = {w \in Workers : IsFirst(w, a, Right)}
    BY <1>3 DEF Suitable
  <1> HIDE DEF Right
  <1>6. ASSUME NEW w \in Suitable(b) PROVE w \in Range(a) /\ w = links.head["idle"]
    <2>1. PICK i \in 1 .. Len(a) : w = a[i] /\ \A j \in 1 .. i - 1 : a[j] \notin Right
      BY <1>2, <1>5, <1>6 DEF IsFirst
    <2>2. w \in Range(a) /\ 1 \in 1 .. Len(a) /\ links.head["idle"] = a[1]
      BY <1>2, <2>1
    <2>3. a[1] \in Right
      BY <1>2, <1>4, <2>2
    <2>4. ~(1 \in 1 .. i - 1)
      BY <2>1, <2>3
    <2>5. i = 1
      BY <1>2, <2>4
    <2> QED  BY <2>1, <2>2, <2>5
  <1>7. ASSUME a # <<>> PROVE Suitable(b) # {}
    <2>1. 1 \in 1 .. Len(a) /\ a[1] \in Workers /\ a[1] \in Right /\ 1 \in DOMAIN a
      <3>1. 1 \in 1 .. Len(a)
        BY <1>2, <1>7
      <3> QED  BY <1>2, <1>4, <3>1
    <2>2. \A j \in 1 .. 1 - 1 : a[j] \notin Right
      OBVIOUS
    <2>3. IsFirst(a[1], a, Right)
      BY <2>1, <2>2 DEF IsFirst
    <2> QED  BY <1>5, <2>1, <2>3
  <1> QED  BY <1>6, <1>7

(* The walk that removes the first idle worker from the hash table finds   *)
(* no worker before it: kSubmitPidHashRemove() leaves the lists alone.     *)
LEMMA NothingBefore ==
    ASSUME TypeOK, Chained, NEW w \in Workers, memory[w] = "live", links.head["idle"] = w
    PROVE  LinksRemoved(w) = links
  <1>1. PICK a, b : ChainsAre(a, b)
    BY ChainsOfChained
  <1>2. /\ Listed(links, "idle", a) /\ Listed(links, "busy", b)
        /\ "idle" \in Lists /\ "busy" \in Lists
    BY <1>1 DEF ChainsAre, Lists
  <1>3. /\ Len(a) \in Nat /\ DOMAIN a = 1 .. Len(a) /\ (a = <<>> <=> Len(a) = 0)
        /\ \A i \in 1 .. Len(a) : a[i] \in Workers /\ a[i] \in Range(a)
        /\ \A x \in Range(a) : \E i \in 1 .. Len(a) : x = a[i]
    BY <1>2, ChainElements
  <1>4. /\ Len(b) \in Nat /\ \A i \in 1 .. Len(b) : b[i] \in Workers /\ b[i] \in Range(b)
        /\ \A x \in Range(b) : \E i \in 1 .. Len(b) : x = b[i]
    BY <1>2, ChainElements
  <1>5. w # Nil
    BY KSubmitAssumption
  <1>6. a # <<>> /\ w = a[1] /\ 1 \in 1 .. Len(a)
    <2>1. a # <<>> /\ w = a[1]
      BY <1>2, <1>5 DEF Listed
    <2> QED  BY <1>3, <2>1
  <1>7. ASSUME NEW x \in Workers PROVE links.next[x] # w
    <2>1. CASE x \in Range(a)
      <3>1. PICK i \in 1 .. Len(a) : x = a[i]
        BY <1>3, <2>1
      <3>2. links.next[a[i]] = IF i = Len(a) THEN Nil ELSE a[i + 1]
        BY <1>2, <3>1 DEF Listed
      <3>3. i # Len(a) => i + 1 \in 1 .. Len(a) /\ i + 1 # 1
        <4>1. Len(a) \in Nat
          BY <1>3
        <4> QED  BY <3>1, <4>1
      <3>4. \A k \in 1 .. Len(a) : a[k] = a[1] => k = 1
        <4>1. IsInjective(a)
          BY <1>2 DEF Listed
        <4> QED  BY <1>3, <1>6, <4>1 DEF IsInjective
      <3>5. i # Len(a) => a[i + 1] # a[1]
        BY <3>3, <3>4
      <3> QED  BY <1>5, <1>6, <3>1, <3>2, <3>5
    <2>2. CASE x \in Range(b)
      <3>1. PICK i \in 1 .. Len(b) : x = b[i]
        BY <1>4, <2>2
      <3>2. links.next[b[i]] = IF i = Len(b) THEN Nil ELSE b[i + 1]
        BY <1>2, <3>1 DEF Listed
      <3>3. i # Len(b) => i + 1 \in 1 .. Len(b)
        BY <1>4, <3>1
      <3>4. i # Len(b) => b[i + 1] \in Range(b)
        BY <1>4, <3>3
      <3>5. w \notin Range(b)
        BY <1>1, <1>3, <1>6 DEF ChainsAre
      <3> QED  BY <1>5, <3>1, <3>2, <3>4, <3>5
    <2>3. CASE x \notin Range(a) \cup Range(b)
      <3>1. memory[x] # "live"
        BY <1>1, <2>3 DEF ChainsAre
      <3> QED  BY <1>1, <1>5, <3>1 DEF ChainsAre
    <2> QED  BY <2>1, <2>2, <2>3
  <1>8. HashPrevious(w) = {}
    <2>1. Before(w) = {}
      BY <1>7 DEF Before
    <2> QED  BY <2>1 DEF HashPrevious, IsFirst
  <1>9. [x \in Workers |-> IF x \in HashPrevious(w) THEN links.next[w] ELSE links.next[x]] = links.next
    BY <1>8 DEF TypeOK
  <1>10. [links EXCEPT !.next = links.next] = links
    BY DEF TypeOK
  <1> QED  BY <1>9, <1>10 DEF LinksRemoved

-----------------------------------------------------------------------------
(* Every step keeps the invariant.                                         *)

LEMMA InitStep ==
    Init => Chosen /\ Chained /\ Jobs
  <1> SUFFICES ASSUME Init PROVE Chosen /\ Chained /\ Jobs
    OBVIOUS
  <1>1. Chosen
    BY DEF Init, Chosen, Busy
  <1>2. Jobs
    BY DEF Init, Jobs, JobOf
  <1>3. \A l \in Lists : links.head[l] = Nil /\ links.tail[l] = Nil
    BY DEF Init
  <1>4. <<>> \in Seq(Workers) /\ Len(<<>>) = 0 /\ IsInjective(<<>>) /\ Range(<<>>) = {}
    BY EmptySeq DEF IsInjective, Range
  <1>5. ASSUME NEW l \in Lists PROVE Listed(links, l, <<>>)
    BY <1>3, <1>4 DEF Listed
  <1>6. \A l \in Lists : Order(links, l) = <<>>
    BY <1>5, FollowIsOrder DEF Order
  <1>7. Members("idle") = {} /\ Members("busy") = {}
    BY <1>4, <1>6 DEF Members, Order, Lists
  <1>8. \A w \in Workers : /\ memory[w] # "live" /\ child[w] = "none"
                          /\ links.next[w] = Nil /\ links.prev[w] = Nil
    BY DEF Init
  <1>9. Chained
    BY <1>5, <1>6, <1>7, <1>8 DEF Chained
  <1> QED  BY <1>1, <1>2, <1>9

LEMMA SelectIdleStep ==
    ASSUME OneKind, TypeOK, Chosen, Chained, Jobs, NEW b \in Kinds, SelectIdle(b)
    PROVE  Chosen' /\ Chained' /\ Jobs'
  <1>1. PICK a, c : ChainsAre(a, c)
    BY ChainsOfChained
  <1>2. PICK w \in Suitable(b) : /\ mpc' = "send" /\ cur' = w
                                /\ exit' = [exit EXCEPT ![w] = "none"]
    BY DEF SelectIdle
  <1>3. w \in Range(a) /\ w = links.head["idle"] /\ w \in Workers
    BY <1>1, FirstSuits DEF Suitable
  <1>4. mpc = "idle" /\ UNCHANGED <<instances, pipe, result, processes, child, retries>>
    BY DEF SelectIdle
  <1>5. Moving = {} /\ Moving' = {}
    BY <1>2, <1>4 DEF Moving
  <1>6. memory[w] = "live" /\ child[w] = "none"
    BY <1>1, <1>3, <1>5 DEF ChainsAre
  <1>7. exit'[w] = "none"
    BY <1>2, <1>3 DEF TypeOK
  <1>8. Chosen'
    BY <1>2, <1>3, <1>4, <1>6, <1>7 DEF Chosen, instances
  <1>9. Chained'
    BY <1>4, <1>5, ChainsKept DEF instances
  <1>10. ASSUME NEW x \in Workers
         PROVE  /\ exit'[x] \in {exit[x], "none"}
                /\ UNCHANGED <<replied[x], done[x], proc[x], child[x], memory[x], bits[x]>>
                /\ Working(x)' <=> Working(x)
    BY <1>2, <1>4 DEF TypeOK, Working, instances, processes
  <1>11. Jobs'
    BY <1>10 DEF Jobs, JobOf
  <1> QED  BY <1>8, <1>9, <1>11

LEMMA SelectNewStep ==
    ASSUME OneKind, TypeOK, Chosen, Chained, Jobs, NEW b \in Kinds, SelectNew(b)
    PROVE  Chosen' /\ Chained' /\ Jobs'
  <1>1. PICK c : ChainsAre(<<>>, c)
    <2>1. PICK a, c : ChainsAre(a, c)
      BY ChainsOfChained
    <2>2. Suitable(b) = {}
      BY DEF SelectNew
    <2>3. a = <<>>
      BY <2>1, <2>2, FirstSuits
    <2> QED  BY <2>1, <2>3
  <1>2. PICK w \in Workers :
             /\ memory[w] = "unused"
             /\ memory' = [memory EXCEPT ![w] = "live"] /\ bits' = [bits EXCEPT ![w] = b]
             /\ links' = AppendTo(links, "idle", w)
             /\ Spawned(w, pidHash)
             /\ mpc' = "send" /\ cur' = w
    BY DEF SelectNew
  <1>3. mpc = "idle" /\ UNCHANGED <<result, done, child, exit, retries>>
    BY DEF SelectNew, children
  <1>4. /\ links \in Links /\ "idle" \in Lists /\ "busy" \in Lists /\ "busy" # "idle"
        /\ Listed(links, "idle", <<>>) /\ Listed(links, "busy", c)
    BY <1>1 DEF TypeOK, Links, Lists, ChainsAre
  <1>5. Range(<<>>) = {} /\ w \notin Range(<<>>)
    BY DEF Range
  <1>6. Elsewhere(links, links', "idle", {w})
    <2>1. Elsewhere(links, AppendTo(links, "idle", w), "idle", Range(<<>>) \cup {w})
      BY <1>4, <1>5, AppendListed, Zenon
    <2> QED  BY <1>2, <1>5, <2>1
  <1>7. PICK s : Listed(links', "idle", s) /\ Range(s) = {w} /\ s # <<>> /\ s[1] = w
    <2>1. Listed(AppendTo(links, "idle", w), "idle", Append(<<>>, w))
      BY <1>4, <1>5, AppendListed, Zenon
    <2>2. Range(Append(<<>>, w)) = Range(<<>>) \cup {w}
      <3> DEFINE e == <<>>
      <3>1. e \in Seq(Workers)
        OBVIOUS
      <3> HIDE DEF e
      <3>2. Range(Append(e, w)) = Range(e) \cup {w}
        BY <3>1, AppendElements
      <3> QED  BY <3>2 DEF e
    <2>3. Append(<<>>, w) # <<>> /\ Append(<<>>, w)[1] = w
      OBVIOUS
    <2>4. Range(Append(<<>>, w)) = {w}
      BY <1>5, <2>2, Zenon
    <2> QED  BY <1>2, <2>1, <2>3, <2>4, Zenon
  <1>8. w \notin Range(c)
    BY <1>1, <1>2 DEF ChainsAre
  <1>9. Listed(links', "busy", c)
    BY <1>4, <1>6, <1>8, ListedElsewhere
  <1>10. Moving = {} /\ Moving' = {}
    BY <1>2, <1>3 DEF Moving
  <1>11. child[w] = "none" /\ exit[w] = "none"
    BY <1>2 DEF Jobs, JobOf
  <1>12. /\ \A x \in Workers : memory'[x] = IF x = w THEN "live" ELSE memory[x]
         /\ \A x \in Workers : bits'[x] = IF x = w THEN b ELSE bits[x]
    BY <1>2 DEF TypeOK
  <1>13. /\ \A x \in Workers : proc'[x] = IF x = w THEN "ready" ELSE proc[x]
         /\ \A x \in Workers : replied'[x] = IF x = w THEN FALSE ELSE replied[x]
    BY <1>2 DEF TypeOK, Spawned
  <1>14. ChainsAre(s, c)'
    <2>1. /\ Range(s) \cap Range(c) = {}
          /\ Range(s) \cup Range(c) = {x \in Workers : memory'[x] = "live"}
      BY <1>1, <1>5, <1>7, <1>8, <1>12 DEF ChainsAre
    <2>2. Range(c) = {x \in Workers : child'[x] # "none"} \ Moving'
      BY <1>1, <1>3, <1>10 DEF ChainsAre
    <2>3. \A x \in Workers : memory'[x] # "live" => links'.next[x] = Nil /\ links'.prev[x] = Nil
      BY <1>1, <1>5, <1>6, <1>12 DEF ChainsAre, Elsewhere
    <2> QED  BY <1>7, <1>9, <2>1, <2>2, <2>3 DEF ChainsAre
  <1>15. Chained'
    BY <1>14, ChainedByChains
  <1>16. links'.head["idle"] = w
    BY <1>7 DEF Listed
  <1>17. Chosen'
    BY <1>2, <1>3, <1>11, <1>12, <1>16 DEF Chosen
  <1>18. ASSUME NEW x \in Workers
         PROVE  Working(x)' <=> Working(x)
    BY <1>2, <1>3 DEF Working
  <1>19. Jobs'
    <2> SUFFICES ASSUME NEW x \in Workers PROVE JobOf(x)'
      BY DEF Jobs
    <2>1. CASE x = w
      BY <1>3, <1>11, <1>12, <1>13, <2>1 DEF JobOf
    <2>2. CASE x # w
      BY <1>3, <1>12, <1>13, <1>18, <2>2 DEF Jobs, JobOf
    <2> QED  BY <2>1, <2>2
  <1> QED  BY <1>15, <1>17, <1>19

(* The worker of the job is the first of the idle list.                    *)
LEMMA FirstIsIdle ==
    ASSUME HasWorker, Chosen, mpc \in Busy, NEW a, NEW b, ChainsAre(a, b)
    PROVE  1 \in 1 .. Len(a) /\ cur = a[1] /\ cur \in Range(a) /\ cur \notin Range(b)
  <1>1. Listed(links, "idle", a) /\ "idle" \in Lists
    BY DEF ChainsAre, Lists
  <1>2. cur \in Workers /\ links.head["idle"] = cur /\ cur # Nil
    BY KSubmitAssumption DEF HasWorker, Chosen
  <1>3. a # <<>> /\ cur = a[1]
    BY <1>1, <1>2 DEF Listed
  <1>4. /\ Len(a) \in Nat /\ (a = <<>> <=> Len(a) = 0)
        /\ \A i \in 1 .. Len(a) : a[i] \in Range(a)
    BY <1>1, ChainElements
  <1>5. 1 \in 1 .. Len(a)
    BY <1>3, <1>4
  <1> QED  BY <1>3, <1>4, <1>5 DEF ChainsAre

LEMMA RespawnStep ==
    ASSUME TypeOK, HasWorker, Chosen, Chained, Jobs, mpc \in {"send", "write"}, Respawn(cur)
    PROVE  Chosen' /\ Chained' /\ Jobs'
  <1>1. /\ mpc \in Busy /\ cur \in Workers /\ memory[cur] = "live" /\ links.head["idle"] = cur
        /\ child[cur] = "none" /\ exit[cur] = "none"
    BY DEF HasWorker, Chosen, Busy
  <1>2. links' = links
    BY <1>1, NothingBefore DEF Respawn
  <1>3. mpc' = "write" /\ UNCHANGED <<cur, memory, bits, result, done, child, exit>>
    BY DEF Respawn, Goto, children
  <1>4. /\ \A x \in Workers : proc'[x] = IF x = cur THEN "ready" ELSE proc[x]
        /\ \A x \in Workers : replied'[x] = IF x = cur THEN FALSE ELSE replied[x]
        /\ pipe'[cur] = TRUE
    BY <1>1 DEF Respawn, Spawned, TypeOK
  <1>5. Moving = {} /\ Moving' = {}
    BY <1>3 DEF Moving
  <1>6. Chained'
    BY <1>2, <1>3, <1>5, ChainsKept
  <1>7. Chosen'
    BY <1>1, <1>2, <1>3, <1>4 DEF Chosen
  <1>8. ASSUME NEW x \in Workers PROVE Working(x)' <=> Working(x)
    BY <1>3 DEF Working
  <1>9. Jobs'
    BY <1>3, <1>4, <1>8 DEF Jobs, JobOf
  <1> QED  BY <1>6, <1>7, <1>9

LEMMA RespawnFailsStep ==
    ASSUME TypeOK, HasWorker, Chosen, Chained, Jobs, mpc \in {"send", "write"}, RespawnFails(cur)
    PROVE  Chosen' /\ Chained' /\ Jobs'
  <1>1. /\ mpc \in Busy /\ cur \in Workers /\ memory[cur] = "live" /\ links.head["idle"] = cur
        /\ child[cur] = "none"
    BY DEF HasWorker, Chosen, Busy
  <1>2. links' = Unlink(links, "idle", cur)
    BY <1>1, NothingBefore DEF RespawnFails
  <1>3. mpc' = "idle" /\ UNCHANGED <<bits, result, done, child>>
    BY DEF RespawnFails, Return
  <1>4. /\ \A x \in Workers : memory'[x] = IF x = cur THEN "freed" ELSE memory[x]
        /\ \A x \in Workers : proc'[x] = IF x = cur THEN "none" ELSE proc[x]
        /\ \A x \in Workers : replied'[x] = IF x = cur THEN FALSE ELSE replied[x]
        /\ \A x \in Workers : exit'[x] = IF x = cur THEN "error" ELSE exit[x]
    BY <1>1 DEF RespawnFails, Return, TypeOK
  <1>5. Moving = {} /\ Moving' = {}
    BY <1>3 DEF Moving
  <1>6. PICK a, b : ChainsAre(a, b)
    BY ChainsOfChained
  <1>7. /\ links \in Links /\ "idle" \in Lists /\ "busy" \in Lists /\ "busy" # "idle"
        /\ Listed(links, "idle", a) /\ Listed(links, "busy", b)
    BY <1>6 DEF TypeOK, Links, Lists, ChainsAre
  <1>8. 1 \in 1 .. Len(a) /\ cur = a[1] /\ cur \in Range(a) /\ cur \notin Range(b)
    BY <1>1, <1>6, FirstIsIdle
  <1>9. PICK s : /\ Listed(links', "idle", s) /\ Range(s) = Range(a) \ {cur}
                 /\ Elsewhere(links, links', "idle", Range(a))
                 /\ links'.next[cur] = Nil /\ links'.prev[cur] = Nil
    BY <1>2, <1>7, <1>8, UnlinkedChain
  <1>10. Listed(links', "busy", b)
    BY <1>6, <1>7, <1>9, ListedElsewhere DEF ChainsAre
  <1>11. ChainsAre(s, b)'
    <2>1. /\ Range(s) \cap Range(b) = {}
          /\ Range(s) \cup Range(b) = {x \in Workers : memory'[x] = "live"}
      BY <1>4, <1>6, <1>8, <1>9 DEF ChainsAre
    <2>2. Range(b) = {x \in Workers : child'[x] # "none"} \ Moving'
      BY <1>3, <1>5, <1>6 DEF ChainsAre
    <2>3. \A x \in Workers : memory'[x] # "live" => links'.next[x] = Nil /\ links'.prev[x] = Nil
      <3> SUFFICES ASSUME NEW x \in Workers, memory'[x] # "live", x # cur
                   PROVE  links'.next[x] = Nil /\ links'.prev[x] = Nil
        BY <1>9
      <3>1. memory[x] # "live" /\ x \notin Range(a)
        BY <1>4, <1>6 DEF ChainsAre
      <3> QED  BY <1>6, <1>9, <3>1 DEF ChainsAre, Elsewhere
    <2> QED  BY <1>9, <1>10, <2>1, <2>2, <2>3 DEF ChainsAre
  <1>12. Chained'
    BY <1>11, ChainedByChains
  <1>13. Chosen'
    BY <1>3 DEF Chosen, Busy
  <1>14. ASSUME NEW x \in Workers PROVE Working(x)' <=> Working(x)
    BY <1>3 DEF Working
  <1>15. Jobs'
    <2> SUFFICES ASSUME NEW x \in Workers PROVE JobOf(x)'
      BY DEF Jobs
    <2>1. CASE x = cur
      BY <1>1, <1>3, <1>4, <2>1 DEF JobOf
    <2>2. CASE x # cur
      BY <1>3, <1>4, <1>14, <2>2 DEF Jobs, JobOf
    <2> QED  BY <2>1, <2>2
  <1> QED  BY <1>12, <1>13, <1>15

LEMMA CrashStep ==
    ASSUME TypeOK, HasWorker, Chosen, Chained, Jobs, mpc \in {"send", "write"}, Crash(cur)
    PROVE  Chosen' /\ Chained' /\ Jobs'
  <1>1. /\ mpc' = "crashed"
        /\ UNCHANGED <<links, memory, bits, proc, replied, done, child, exit, cur>>
    BY DEF Crash, Goto, instances, processes, children
  <1>2. Moving = {} /\ Moving' = {}
    BY <1>1 DEF Moving
  <1>3. Chained'
    BY <1>1, <1>2, ChainsKept
  <1>4. Chosen'
    BY <1>1 DEF Chosen, Busy
  <1>5. ASSUME NEW x \in Workers PROVE Working(x)' <=> Working(x)
    BY <1>1 DEF Working
  <1>6. Jobs'
    BY <1>1, <1>5 DEF Jobs, JobOf
  <1> QED  BY <1>3, <1>4, <1>6

LEMMA SendingStep ==
    ASSUME TypeOK, HasWorker, Chosen, Chained, Jobs, Send \/ Write \/ WriteBroken \/ WriteFails
    PROVE  Chosen' /\ Chained' /\ Jobs'
  <1>1. CASE Send /\ pipe[cur]
    <2>1. /\ mpc = "send" /\ mpc' = "write" /\ cur' = cur
          /\ UNCHANGED <<links, memory, bits, pipe, proc, replied, done, child, exit>>
      BY <1>1 DEF Send, Goto, instances, processes, children
    <2>2. Moving = {} /\ Moving' = {}
      BY <2>1 DEF Moving
    <2>3. Chained'
      BY <2>1, <2>2, ChainsKept
    <2>4. Chosen'
      BY <1>1, <2>1 DEF Chosen, Busy
    <2>5. ASSUME NEW x \in Workers PROVE Working(x)' <=> Working(x)
      BY <2>1 DEF Working
    <2>6. Jobs'
      BY <2>1, <2>5 DEF Jobs, JobOf
    <2> QED  BY <2>3, <2>4, <2>6
  <1>2. CASE (Send /\ ~pipe[cur]) \/ WriteBroken
    <2>1. mpc \in {"send", "write"} /\ Respawning(cur)
      BY <1>2 DEF Send, WriteBroken
    <2> QED  BY <2>1, RespawnStep, RespawnFailsStep, CrashStep DEF Respawning
  <1>3. CASE Write
    <2>1. /\ mpc = "write" /\ mpc' = "mark" /\ cur' = cur /\ cur \in Workers
          /\ UNCHANGED <<links, memory, bits, pipe, replied, child, exit>>
          /\ child[cur] = "none" /\ exit[cur] = "none"
      BY <1>3 DEF Write, Goto, instances, children, HasWorker, Chosen, Busy
    <2>2. /\ \A x \in Workers : proc'[x] = IF x = cur THEN "busy" ELSE proc[x]
          /\ \A x \in Workers : done'[x] = IF x = cur THEN FALSE ELSE done[x]
      BY <1>3, <2>1 DEF Write, TypeOK
    <2>3. Moving = {} /\ Moving' = {}
      BY <2>1 DEF Moving
    <2>4. Chained'
      BY <2>1, <2>3, ChainsKept
    <2>5. Chosen'
      BY <2>1 DEF Chosen, Busy
    <2>6. ~replied[cur]
      BY <2>1 DEF Jobs, JobOf, Working
    <2>7. ASSUME NEW x \in Workers PROVE Working(x)' <=> Working(x) \/ x = cur
      BY <2>1 DEF Working
    <2>8. Jobs'
      BY <2>1, <2>2, <2>6, <2>7 DEF Jobs, JobOf
    <2> QED  BY <2>4, <2>5, <2>8
  <1>4. CASE WriteFails
    <2>1. /\ mpc = "write" /\ mpc' = "idle" /\ cur \in Workers
          /\ UNCHANGED <<links, memory, bits, pipe, proc, replied, done, child>>
      BY <1>4 DEF WriteFails, Return, instances, processes, HasWorker, Busy
    <2>2. \A x \in Workers : exit'[x] = IF x = cur THEN "error" ELSE exit[x]
      BY <1>4, <2>1 DEF WriteFails, Return, TypeOK
    <2>3. Moving = {} /\ Moving' = {}
      BY <2>1 DEF Moving
    <2>4. Chained'
      BY <2>1, <2>3, ChainsKept
    <2>5. Chosen'
      BY <2>1 DEF Chosen, Busy
    <2>6. memory[cur] = "live"
      BY <2>1 DEF Chosen, Busy
    <2>7. ASSUME NEW x \in Workers PROVE Working(x)' <=> Working(x)
      BY <2>1 DEF Working
    <2>8. Jobs'
      BY <2>1, <2>2, <2>6, <2>7 DEF Jobs, JobOf
    <2> QED  BY <2>4, <2>5, <2>8
  <1> QED  BY <1>1, <1>2, <1>3, <1>4

LEMMA ReceiveFacts ==
    ASSUME TypeOK, Jobs, NEW w \in Workers, CanRead(w), Receive(w)
    PROVE  /\ UNCHANGED <<links, memory, bits, proc, done>>
           /\ proc[w] # "busy"
           /\ WhatIsRead(w) = "replied" => done[w]
           /\ \A x \in Workers : replied'[x] = IF x = w THEN FALSE ELSE replied[x]
           /\ \A x \in Workers \ {w} : pipe'[x] = pipe[x]
  BY DEF TypeOK, Jobs, JobOf, CanRead, Receive, WhatIsRead, instances

LEMMA MarkStep ==
    ASSUME TypeOK, HasWorker, Chosen, Chained, Jobs, MarkActive
    PROVE  Chosen' /\ Chained' /\ Jobs'
  <1>1. /\ mpc = "mark" /\ cur \in Workers /\ child[cur] = "none" /\ exit[cur] = "none"
        /\ memory[cur] = "live" /\ links.head["idle"] = cur
    BY DEF MarkActive, HasWorker, Chosen, Busy
  <1>2. CASE CanRead(cur) /\ Receive(cur) /\ Return(cur, WhatIsRead(cur)) /\ UNCHANGED child
    <2>1. /\ UNCHANGED <<links, memory, bits, proc, done, child>>
          /\ proc[cur] # "busy"
          /\ WhatIsRead(cur) = "replied" => done[cur]
          /\ \A x \in Workers : replied'[x] = IF x = cur THEN FALSE ELSE replied[x]
      BY <1>1, <1>2, ReceiveFacts
    <2>2. mpc' = "idle" /\ \A x \in Workers : exit'[x] = IF x = cur THEN WhatIsRead(cur) ELSE exit[x]
      BY <1>1, <1>2 DEF Return, TypeOK
    <2>3. Moving = {} /\ Moving' = {}
      BY <1>1, <2>2 DEF Moving
    <2>4. Chained'
      BY <2>1, <2>3, ChainsKept
    <2>5. Chosen'
      BY <2>2 DEF Chosen, Busy
    <2>6. \A x \in Workers : Working(x)' <=> Working(x) /\ x # cur
      BY <1>1, <2>1, <2>2 DEF Working
    <2>7. Jobs'
      BY <1>1, <2>1, <2>2, <2>6 DEF Jobs, JobOf
    <2> QED  BY <2>4, <2>5, <2>7
  <1>3. CASE /\ child' = [child EXCEPT ![cur] = "queued"]
             /\ Goto("move")
             /\ UNCHANGED <<instances, pipe, processes, exit>>
    <2>1. /\ mpc' = "move" /\ cur' = cur
          /\ UNCHANGED <<links, memory, bits, proc, replied, done, exit>>
      BY <1>3 DEF Goto, instances, processes
    <2>2. \A x \in Workers : child'[x] = IF x = cur THEN "queued" ELSE child[x]
      BY <1>1, <1>3 DEF TypeOK
    <2>3. Moving = {} /\ Moving' = {cur}
      BY <1>1, <2>1 DEF Moving
    <2>4. {x \in Workers : child'[x] # "none"} \ Moving' = {x \in Workers : child[x] # "none"} \ Moving
      BY <1>1, <2>2, <2>3
    <2>5. Chained'
      BY <2>1, <2>4, ChainsKept
    <2>6. Chosen'
      BY <1>1, <2>1, <2>2 DEF Chosen, Busy
    <2>7. \A x \in Workers : Working(x)' <=> Working(x)
      BY <1>1, <2>1, <2>2 DEF Working
    <2>8. Jobs'
      BY <1>1, <2>1, <2>2, <2>7 DEF Jobs, JobOf
    <2> QED  BY <2>5, <2>6, <2>8
  <1> QED  BY <1>2, <1>3 DEF MarkActive

LEMMA MoveStep ==
    ASSUME TypeOK, HasWorker, Chosen, Chained, Jobs, MoveToBusy
    PROVE  Chosen' /\ Chained' /\ Jobs'
  <1>1. /\ mpc = "move" /\ mpc \in Busy /\ cur \in Workers /\ child[cur] # "none"
    BY DEF MoveToBusy, HasWorker, Chosen, Busy
  <1>2. mpc' = "idle" /\ UNCHANGED <<memory, bits, proc, replied, done, child, exit>>
    BY DEF MoveToBusy, processes, children
  <1>3. Moving = {cur} /\ Moving' = {}
    BY <1>1, <1>2 DEF Moving
  <1>4. PICK a, b : ChainsAre(a, b)
    BY ChainsOfChained
  <1>5. 1 \in 1 .. Len(a) /\ cur = a[1] /\ cur \in Range(a) /\ cur \notin Range(b)
    BY <1>1, <1>4, FirstIsIdle
  <1>6. Listed(links, "idle", a) /\ Listed(links, "busy", b) /\ Range(a) \cap Range(b) = {}
    BY <1>4 DEF ChainsAre
  <1>7. links' = AppendTo(Unlink(links, "idle", cur), "busy", cur)
    BY DEF MoveToBusy
  <1>8. PICK s, t : /\ Listed(links', "idle", s) /\ Range(s) = Range(a) \ {cur}
                    /\ Listed(links', "busy", t) /\ Range(t) = Range(b) \cup {cur}
                    /\ \A x \in Workers \ (Range(a) \cup Range(b)) :
                          links'.next[x] = links.next[x] /\ links'.prev[x] = links.prev[x]
    <2>1. links \in Links /\ "busy" \in Lists /\ "idle" \in Lists /\ "idle" # "busy"
      BY DEF TypeOK, Links, Lists
    <2> QED  BY <1>5, <1>6, <1>7, <2>1, MovedChain
  <1>9. ChainsAre(s, t)'
    <2>1. /\ Range(s) \cap Range(t) = {}
          /\ Range(s) \cup Range(t) = {x \in Workers : memory'[x] = "live"}
      BY <1>2, <1>4, <1>5, <1>8 DEF ChainsAre
    <2>2. Range(t) = {x \in Workers : child'[x] # "none"} \ Moving'
      BY <1>1, <1>2, <1>3, <1>4, <1>8 DEF ChainsAre
    <2>3. \A x \in Workers : memory'[x] # "live" => links'.next[x] = Nil /\ links'.prev[x] = Nil
      BY <1>2, <1>4, <1>8 DEF ChainsAre
    <2> QED  BY <1>8, <2>1, <2>2, <2>3 DEF ChainsAre
  <1>10. Chained'
    BY <1>9, ChainedByChains
  <1>11. Chosen'
    BY <1>2 DEF Chosen, Busy
  <1>12. \A x \in Workers : Working(x)' <=> Working(x)
    BY <1>1, <1>2 DEF Working
  <1>13. Jobs'
    BY <1>2, <1>12 DEF Jobs, JobOf
  <1> QED  BY <1>10, <1>11, <1>13

LEMMA CleanupStep ==
    ASSUME TypeOK, HasWorker, Chosen, Chained, Jobs, NEW w \in Workers, Cleanup(w)
    PROVE  Chosen' /\ Chained' /\ Jobs'
  <1>1. mpc = "idle" /\ mpc' = "idle" /\ child[w] = "read"
    BY DEF Cleanup, main
  <1>2. /\ UNCHANGED <<memory, bits, proc, replied, done, exit>>
        /\ \A x \in Workers : child'[x] = IF x = w THEN "none" ELSE child[x]
    BY DEF Cleanup, processes, TypeOK
  <1>3. Moving = {} /\ Moving' = {}
    BY <1>1 DEF Moving
  <1>4. PICK a, b : ChainsAre(a, b)
    BY ChainsOfChained
  <1>5. /\ Listed(links, "idle", a) /\ Listed(links, "busy", b) /\ Range(b) \cap Range(a) = {}
        /\ w \in Range(b)
    BY <1>1, <1>3, <1>4 DEF ChainsAre
  <1>6. PICK i \in 1 .. Len(b) : w = b[i]
    BY <1>5, ChainElements DEF Lists
  <1>7. links' = AppendTo(Unlink(links, "busy", w), "idle", w)
    BY DEF Cleanup
  <1>8. PICK s, t : /\ Listed(links', "busy", s) /\ Range(s) = Range(b) \ {w}
                    /\ Listed(links', "idle", t) /\ Range(t) = Range(a) \cup {w}
                    /\ \A x \in Workers \ (Range(b) \cup Range(a)) :
                          links'.next[x] = links.next[x] /\ links'.prev[x] = links.prev[x]
    <2>1. links \in Links /\ "busy" \in Lists /\ "idle" \in Lists /\ "idle" # "busy"
      BY DEF TypeOK, Links, Lists
    <2> QED  BY <1>5, <1>6, <1>7, <2>1, MovedChain
  <1>9. ChainsAre(t, s)'
    <2>1. /\ Range(t) \cap Range(s) = {}
          /\ Range(t) \cup Range(s) = {x \in Workers : memory'[x] = "live"}
      BY <1>2, <1>4, <1>5, <1>8 DEF ChainsAre
    <2>2. Range(s) = {x \in Workers : child'[x] # "none"} \ Moving'
      BY <1>2, <1>3, <1>4, <1>8 DEF ChainsAre
    <2>3. \A x \in Workers : memory'[x] # "live" => links'.next[x] = Nil /\ links'.prev[x] = Nil
      BY <1>2, <1>4, <1>8 DEF ChainsAre
    <2> QED  BY <1>8, <2>1, <2>2, <2>3 DEF ChainsAre
  <1>10. Chained'
    BY <1>9, ChainedByChains
  <1>11. Chosen'
    BY <1>1 DEF Chosen, Busy
  <1>12. \A x \in Workers : Working(x)' <=> Working(x)
    BY <1>1, <1>2 DEF Working
  <1>13. Jobs'
    BY <1>2, <1>12 DEF Jobs, JobOf
  <1> QED  BY <1>10, <1>11, <1>13

LEMMA OutsideStep ==
    ASSUME TypeOK, HasWorker, Chosen, Chained, Jobs, NEW w \in Workers,
           GetResult(w) \/ Work(w) \/ Die(w)
    PROVE  Chosen' /\ Chained' /\ Jobs'
  <1>1. CASE GetResult(w)
    <2>1. /\ UNCHANGED <<links, memory, bits, proc, done, mpc, cur>>
          /\ proc[w] # "busy" /\ child[w] = "queued"
          /\ WhatIsRead(w) = "replied" => done[w]
          /\ \A x \in Workers : replied'[x] = IF x = w THEN FALSE ELSE replied[x]
          /\ \A x \in Workers \ {w} : pipe'[x] = pipe[x]
      BY <1>1, ReceiveFacts DEF GetResult, main
    <2>2. /\ \A x \in Workers : exit'[x] = IF x = w THEN WhatIsRead(w) ELSE exit[x]
          /\ \A x \in Workers : child'[x] = IF x = w THEN "read" ELSE child[x]
      BY <1>1 DEF GetResult, TypeOK
    <2>3. Moving' = Moving
      BY <2>1 DEF Moving
    <2>4. {x \in Workers : child'[x] # "none"} = {x \in Workers : child[x] # "none"}
      BY <2>1, <2>2
    <2>5. Chained'
      BY <2>1, <2>3, <2>4, ChainsKept
    <2>6. mpc \in {"send", "write", "mark"} => cur \in Workers \ {w}
      BY <2>1 DEF HasWorker, Chosen, Busy
    <2>7. mpc = "move" => cur \in Workers
      BY DEF HasWorker, Busy
    <2>8. Chosen'
      BY <2>1, <2>2, <2>6, <2>7 DEF Chosen
    <2>9. \A x \in Workers : Working(x)' <=> Working(x) /\ x # w
      BY <2>1, <2>2, <2>6 DEF Working
    <2>10. Jobs'
      <3> SUFFICES ASSUME NEW x \in Workers PROVE JobOf(x)'
        BY DEF Jobs
      <3>1. JobOf(x)
        BY DEF Jobs
      <3>2. CASE x = w
        BY <2>1, <2>2, <3>1, <3>2 DEF JobOf
      <3>3. CASE x # w
        BY <2>1, <2>2, <2>9, <3>1, <3>3 DEF JobOf
      <3> QED  BY <3>2, <3>3
    <2> QED  BY <2>5, <2>8, <2>10
  <1>2. CASE Work(w)
    <2>1. /\ UNCHANGED <<links, memory, bits, pipe, child, exit, mpc, cur>> /\ proc[w] = "busy"
      BY <1>2 DEF Work, instances, children, main
    <2>2. /\ \A x \in Workers : x # w => proc'[x] = proc[x]
          /\ proc'[w] # "busy"
          /\ \A x \in Workers : replied'[x] = IF x = w THEN TRUE ELSE replied[x]
          /\ \A x \in Workers : done'[x] = IF x = w THEN TRUE ELSE done[x]
      BY <1>2 DEF Work, TypeOK
    <2>3. Chained'
      BY <2>1, ChainsKept DEF Moving
    <2>4. Chosen'
      BY <2>1 DEF Chosen
    <2>5. \A x \in Workers : Working(x)' <=> Working(x)
      BY <2>1 DEF Working
    <2>6. Jobs'
      BY <2>1, <2>2, <2>5 DEF Jobs, JobOf
    <2> QED  BY <2>3, <2>4, <2>6
  <1>3. CASE Die(w)
    <2>1. /\ UNCHANGED <<links, memory, bits, pipe, done, child, exit, mpc, cur>>
      BY <1>3 DEF Die, instances, children, main
    <2>2. /\ \A x \in Workers : proc'[x] = IF x = w THEN "dead" ELSE proc[x]
          /\ \A x \in Workers : replied'[x] = IF x = w THEN FALSE ELSE replied[x]
      BY <1>3 DEF Die, TypeOK
    <2>3. Chained'
      BY <2>1, ChainsKept DEF Moving
    <2>4. Chosen'
      BY <2>1 DEF Chosen
    <2>5. \A x \in Workers : Working(x)' <=> Working(x)
      BY <2>1 DEF Working
    <2>6. Jobs'
      BY <2>1, <2>2, <2>5 DEF Jobs, JobOf
    <2> QED  BY <2>3, <2>4, <2>6
  <1> QED  BY <1>1, <1>2, <1>3

LEMMA Invariance ==
    ASSUME OneKind PROVE IInv /\ [Next]_vars => IInv'
  <1> SUFFICES ASSUME IInv, [Next]_vars PROVE IInv'
    OBVIOUS
  <1> USE DEF IInv
  <1>1. TypeOK' /\ HasWorker'
    BY TypesStep
  <1>2. ASSUME Submit PROVE Chosen' /\ Chained' /\ Jobs'
    BY <1>2, SelectIdleStep, SelectNewStep, SendingStep, MarkStep, MoveStep DEF Submit
  <1>3. ASSUME NEW w \in Workers, GetResult(w) \/ Cleanup(w) \/ Work(w) \/ Die(w)
        PROVE  Chosen' /\ Chained' /\ Jobs'
    BY <1>3, CleanupStep, OutsideStep
  <1>4. CASE UNCHANGED vars
    <2>1. UNCHANGED <<links, memory, bits, pipe, proc, replied, done, child, exit, mpc, cur>>
      BY <1>4 DEF vars, instances, processes, children, main
    <2>2. Chained'
      BY <2>1, ChainsKept DEF Moving
    <2>3. Chosen' /\ Jobs'
      BY <2>1 DEF Chosen, Jobs, JobOf, Working
    <2> QED  BY <1>1, <2>2, <2>3
  <1> QED  BY <1>1, <1>2, <1>3, <1>4 DEF Next

LEMMA Inductive == ASSUME OneKind PROVE Spec => []IInv
  <1>1. Init => IInv
    BY TypesInit, InitStep DEF IInv
  <1>2. IInv /\ [Next]_vars => IInv'
    BY Invariance
  <1> QED  BY <1>1, <1>2, PTL DEF Spec

-----------------------------------------------------------------------------
(* A worker gets a job only when its last one was reaped, over an open     *)
(* pipe, and never through freed memory.                                   *)
THEOREM Alone == ASSUME OneKind PROVE Spec => []AloneOnWorker
  <1>1. IInv => AloneOnWorker
    BY DEF IInv, Chosen, AloneOnWorker, Busy
  <1> QED  BY <1>1, Inductive, PTL

(* kmk is told that a job was done only if a kWorker has done that job,    *)
(* whichever processes have died, and whatever was sent again.             *)
THEOREM OwnStatus == ASSUME OneKind PROVE Spec => []StatusIsOwn
  <1>1. IInv => StatusIsOwn
    BY DEF IInv, Jobs, JobOf, StatusIsOwn
  <1> QED  BY <1>1, Inductive, PTL

(* The busy list has the workers whose child is not reaped, and no freed   *)
(* instance stays on a list.                                               *)
THEOREM BusyWorkers == ASSUME OneKind PROVE Spec => []BusyIsBusy
  <1>1. IInv => BusyIsBusy
    BY DEF IInv, Chained, BusyIsBusy, Moving
  <1> QED  BY <1>1, Inductive, PTL

(* What kSubmitListUnlink() asserts of the workers next to its own         *)
(* (kSubmit.c:229, 240) holds of every worker in use.                      *)
THEOREM ListsLinked == ASSUME OneKind PROVE Spec => []LinksHold
  <1>1. ASSUME IInv PROVE LinksHold
    <2>1. PICK a, b : ChainsAre(a, b)
      BY <1>1, ChainsOfChained DEF IInv
    <2>2. ASSUME NEW l \in Lists, NEW s, Listed(links, l, s), NEW w \in Range(s)
          PROVE  /\ links.next[w] # Nil => links.prev[links.next[w]] = w
                 /\ links.prev[w] # Nil => links.next[links.prev[w]] = w
      <3>1. Len(s) \in Nat
        BY <2>2, ChainElements
      <3>2. PICK i \in 1 .. Len(s) : w = s[i]
        BY <2>2, ChainElements
      <3>3. \A j \in 1 .. Len(s) : /\ links.next[s[j]] = IF j = Len(s) THEN Nil ELSE s[j + 1]
                                  /\ links.prev[s[j]] = IF j = 1 THEN Nil ELSE s[j - 1]
        BY <2>2 DEF Listed
      <3>4. ASSUME links.next[w] # Nil PROVE links.prev[links.next[w]] = w
        <4>1. i # Len(s) /\ links.next[w] = s[i + 1]
          BY <3>2, <3>3, <3>4
        <4>2. i + 1 \in 1 .. Len(s) /\ i + 1 # 1 /\ (i + 1) - 1 = i
          BY <3>1, <3>2, <4>1
        <4>3. links.prev[s[i + 1]] = s[(i + 1) - 1]
          BY <3>3, <4>2
        <4> QED  BY <3>2, <4>1, <4>2, <4>3
      <3>5. ASSUME links.prev[w] # Nil PROVE links.next[links.prev[w]] = w
        <4>1. i # 1 /\ links.prev[w] = s[i - 1]
          BY <3>2, <3>3, <3>5
        <4>2. i - 1 \in 1 .. Len(s) /\ i - 1 # Len(s) /\ (i - 1) + 1 = i
          BY <3>1, <3>2, <4>1
        <4>3. links.next[s[i - 1]] = s[(i - 1) + 1]
          BY <3>3, <4>2
        <4> QED  BY <3>2, <4>1, <4>2, <4>3
      <3> QED  BY <3>4, <3>5
    <2>3. \A w \in Workers : memory[w] = "live" => w \in Range(a) \cup Range(b)
      BY <2>1 DEF ChainsAre
    <2>4. /\ Listed(links, "idle", a) /\ Listed(links, "busy", b)
          /\ "idle" \in Lists /\ "busy" \in Lists
      BY <2>1 DEF ChainsAre, Lists
    <2> QED  BY <2>2, <2>3, <2>4 DEF LinksHold
  <1> QED  BY <1>1, Inductive, PTL
=============================================================================
