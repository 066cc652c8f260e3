--------------------------- MODULE ObjCacheProofs ---------------------------
(***************************************************************************)
(* For any number of objects, processes, arguments and runs: the state is  *)
(* well typed, the keys of the digests differ, and no digest is lost when  *)
(* the cache file is written.  When kObjCache ends well its object is the  *)
(* right one, and the checksums of an entry file are those of outputs that *)
(* produce its object, if the outputs that are compared are on the disk.   *)
(***************************************************************************)
EXTENDS ObjCache, Lemmas

(* What is assumed of the constants: Bad is not the content of a cache     *)
(* file.                                                                   *)
NotAFile == \A g, ds : [generation |-> g, digests |-> ds] # Bad

(* What the objects need besides: outputs are compared only if they are on *)
(* the disk, which they may not be if they are piped or preprocessors      *)
(* fail, and nothing is killed between its first change to an object or an *)
(* output and the end of its entry file.                                   *)
Sound ==
    /\ NotAFile
    /\ \A m \in Modes : m.compare => ~m.piped /\ ~m.fails
    /\ KillAt \subseteq {"idle", "look", "full", "preprocess", "write"}

Steps == {"idle", "look", "full", "preprocess", "search", "copy", "compile", "compiling",
          "finish", "update", "write"}

Shape ==
    /\ mode \in Modes
    /\ lock \in Entries \cup {NoOne}
    /\ pc \in [Entries -> Steps] /\ DOMAIN want = Entries /\ DOMAIN sums = Entries
    /\ DOMAIN memory = Entries /\ DOMAIN from = Entries
    /\ DOMAIN entry = Entries /\ DOMAIN object = Entries /\ DOMAIN cpp = Entries
    /\ needs \in [Entries -> BOOLEAN]

(* The lock belongs to the process that is where it needs it.              *)
Locks == \A e \in Entries : pc[e] \in Locked <=> lock = e

(* What a process has read is what is in the file if the generations are   *)
(* the same, which never go back.                                          *)
Generations ==
    /\ cache # Bad => cache.generation \in Nat \ {0}
    /\ \A e \in Entries :
         /\ memory[e].generation \in Nat
         /\ pc[e] \in Locked =>
              memory[e].generation = (IF cache = Bad THEN 0 ELSE cache.generation)
         /\ pc[e] \notin Locked /\ memory[e].generation # 0 =>
              /\ cache # Bad /\ memory[e].generation <= cache.generation
              /\ memory[e].generation = cache.generation => memory[e].digests = cache.digests

(* The process with the lock has added no digest but its own.              *)
Additions ==
    \A e \in Entries : pc[e] \in Locked =>
        \A d \in Range(memory[e].digests) :
            d.entry = e \/ (cache # Bad /\ d \in Range(cache.digests))

(* An object that is being replaced has no digest in the cache file.       *)
Replacing(e) == pc[e] \in {"full", "compile", "compiling"} \/ (pc[e] = "finish" /\ needs[e])

Own ==
    cache # Bad => \A d \in Range(cache.digests) :
        d.entry \in Entries /\ \A e \in Entries : Replacing(e) => d.entry # e

(* The process with the lock has dropped no digest that is valid, but its  *)
(* own.                                                                    *)
Kept ==
    cache # Bad => \A e \in Entries : pc[e] \in Locked =>
        \A d \in Range(cache.digests) :
            d.entry # e /\ Valid(d) => d \in Range(memory[e].digests)

(* Types, and what a process that runs knows of what it is to compile.     *)
Typed ==
    \A e \in Entries :
        /\ entry[e] = Bad \/ entry[e] \in [key : 1 .. KeyMod - 1, args : Args, sums : SUBSET Texts]
        /\ cpp[e] \in Texts \cup {Bad} /\ sums[e] \subseteq Texts /\ from[e] \in Entries
        /\ pc[e] # "idle" => want[e].text \in Texts /\ want[e].args \in Args
        /\ pc[e] \in {"look", "preprocess"} /\ ~needs[e] => entry[e] # Bad

(* An array that may have gaps.                                            *)
Array(ds) == ds = [i \in DOMAIN ds |-> ds[i]] /\ \E n \in Nat : DOMAIN ds \subseteq 1 .. n

(* Digests have keys and entries of their own, on the disk and in memory.  *)
Keyed(ds) ==
    /\ Array(ds) /\ Range(ds) \subseteq Digest
    /\ \A i, j \in DOMAIN ds : i # j => ds[i].key # ds[j].key /\ ds[i].entry # ds[j].entry

Keys ==
    /\ cache # Bad => Entries # {} /\ Keyed(cache.digests)
    /\ \A e \in Entries : Keyed(memory[e].digests) /\ memory[e].nextKey \in 0 .. KeyMod - 1

(* What is true of the cache file, whatever an object is.                  *)
CacheInv == Shape /\ Locks /\ Generations /\ Additions /\ Own /\ Kept /\ Typed /\ Keys

(* What an object is at each place of its process.                         *)
Old(e) == Usable(e) => \A s \in entry[e].sums : object[e] = Product(s, entry[e].args)

Unchanged(e) == \/ pc[e] \in {"idle", "look", "full", "preprocess", "search", "copy", "compile",
                              "write"}
                \/ pc[e] = "finish" /\ ~needs[e]

ObjectAt(e) ==
    /\ Unchanged(e) => Old(e)
    /\ pc[e] = "compiling" => object[e] = Bad
    /\ pc[e] \in {"finish", "update", "write"} => object[e] = Wanted(e)
    /\ pc[e] = "write" => entry[e].args = want[e].args
    /\ pc[e] \in {"search", "copy", "compile", "compiling", "finish", "update"} =>
         \A s \in sums[e] : Product(s, want[e].args) = Wanted(e)
    /\ pc[e] \in {"full", "search", "compile", "compiling"} => needs[e]
    /\ pc[e] \in {"look", "preprocess"} /\ ~needs[e] =>
         Usable(e) /\ entry[e].args = want[e].args
    /\ pc[e] = "copy" =>
         /\ from[e] \in Entries \ {e} /\ object[from[e]] = Wanted(e)
         /\ cache # Bad /\ \E d \in Range(cache.digests) : d.entry = from[e]

Objects == \A e \in Entries : ObjectAt(e)

(* What is on the disk of the preprocessor's output, if it is compared.    *)
Outputs ==
    mode.compare => \A e \in Entries :
        /\ pc[e] \in {"idle", "look", "full", "preprocess"} /\ Usable(e) =>
             cpp[e] # Bad /\ object[e] = Product(cpp[e], entry[e].args)
        /\ pc[e] \notin {"idle", "look", "full", "preprocess"} => cpp[e] = want[e].text

IInv == CacheInv /\ Objects /\ Outputs
-----------------------------------------------------------------------------
(* Digests: what is removed and what is added.                             *)
LEMMA RestrictRange ==
    ASSUME NEW f, NEW S \in SUBSET DOMAIN f
    PROVE  Range(Restrict(f, S)) \subseteq Range(f)
  BY DEF Restrict, Range

LEMMA WithoutOwn ==
    ASSUME NEW ds, NEW e
    PROVE  \A d \in Range(Without(ds, e)) : d \in Range(ds) /\ d.entry # e
  BY DEF Without, Restrict, Range

LEMMA SearchedRange ==
    ASSUME NEW ds, NEW e, NEW last
    PROVE  Range(Searched(ds, e, last)) \subseteq Range(ds)
  BY DEF Searched, Restrict, Range

LEMMA AppendedRange ==
    ASSUME NEW ds, NEW d
    PROVE  Range(Appended(ds, d)) \subseteq Range(ds) \cup {d}
  BY DEF Appended, Range

(* Reading gives what is in the file, from memory or not.                  *)
LEMMA ReadIsFresh ==
    ASSUME Generations, NEW e \in Entries, pc[e] \notin Locked
    PROVE  /\ Read(memory[e]).generation \in Nat
           /\ cache = Bad => Read(memory[e]).generation = 0 /\ Read(memory[e]).digests = <<>>
           /\ cache # Bad => /\ Read(memory[e]).generation = cache.generation
                             /\ Read(memory[e]).digests = cache.digests
  BY DEF Generations, Read, Empty

LEMMA NoDigests == Range(<<>>) = {}
  BY DEF Range

(* A digest that is added replaces none, and others are not removed.       *)
LEMMA WithoutOthers ==
    ASSUME NEW ds, NEW e, NEW d \in Range(ds), d.entry # e
    PROVE  d \in Range(Without(ds, e))
  BY DEF Without, Restrict, Range

LEMMA AppendedPlace ==
    ASSUME NEW ds, Array(ds), NEW d
    PROVE  /\ Array(Appended(ds, d))
           /\ Range(ds) \subseteq Range(Appended(ds, d))
  <1> DEFINE n == IF ds = <<>> THEN 1
                  ELSE 1 + CHOOSE i \in DOMAIN ds : \A j \in DOMAIN ds : j <= i
  <1>1. Appended(ds, d) = [i \in DOMAIN ds \cup {n} |-> IF i = n THEN d ELSE ds[i]]
    BY DEF Appended
  <1>2. PICK last \in Nat : DOMAIN ds \subseteq 1 .. last
    BY DEF Array
  <1>3. n \notin DOMAIN ds /\ n \in Nat /\ \E l \in Nat : n \in 1 .. l /\ last <= l
    <2>1. CASE ds = <<>>
      BY <2>1, <1>2
    <2>2. CASE ds # <<>>
      <3>1. DOMAIN ds # {}
        BY <2>2 DEF Array
      <3> DEFINE g == CHOOSE i \in DOMAIN ds : \A j \in DOMAIN ds : j <= i
      <3>2. \E i \in DOMAIN ds : \A j \in DOMAIN ds : j <= i
        BY <1>2, <3>1, Greatest
      <3>3. g \in DOMAIN ds /\ \A j \in DOMAIN ds : j <= g
        BY <3>2
      <3>4. n = 1 + g
        BY <2>2
      <3> HIDE DEF g, n
      <3>5. g \in 1 .. last
        BY <1>2, <3>3
      <3>6. n \notin DOMAIN ds /\ n \in 1 .. last + 1
        BY <3>3, <3>4, <3>5
      <3> QED
        BY <3>6
    <2> QED
      BY <2>1, <2>2
  <1> HIDE DEF n
  <1>4. Array(Appended(ds, d))
    <2>1. PICK l \in Nat : n \in 1 .. l /\ last <= l
      BY <1>3
    <2>2. DOMAIN Appended(ds, d) \subseteq 1 .. l
      BY <1>1, <1>2, <2>1
    <2>3. Appended(ds, d) = [i \in DOMAIN Appended(ds, d) |-> Appended(ds, d)[i]]
      BY <1>1, Zenon
    <2> QED
      BY <2>2, <2>3 DEF Array
  <1>5. Range(ds) \subseteq Range(Appended(ds, d))
    BY <1>1, <1>3 DEF Range
  <1> QED
    BY <1>4, <1>5

(* Fewer digests still have keys and entries of their own.                 *)
LEMMA KeyedLess ==
    ASSUME NEW ds, Keyed(ds), NEW S \in SUBSET DOMAIN ds
    PROVE  Keyed(Restrict(ds, S))
  BY DEF Keyed, Array, Restrict, Range

LEMMA NoneKeyed == Keyed(<<>>)
  BY DEF Keyed, Array, Range

LEMMA EmptyKeyed == Keyed(Empty.digests) /\ Empty.nextKey \in 0 .. KeyMod - 1
  BY NoneKeyed, ObjCacheAssumption, FS_CardinalityType DEF Empty

LEMMA SearchedKeyed ==
    ASSUME NEW ds, Keyed(ds), NEW e, NEW last
    PROVE  Keyed(Without(ds, e)) /\ Keyed(Searched(Without(ds, e), e, last))
  <1>1. Keyed(Without(ds, e))
    BY KeyedLess DEF Without
  <1> QED
    BY <1>1, KeyedLess DEF Searched

LEMMA AfterType ==
    ASSUME NEW key \in Nat PROVE After(key) \in 0 .. KeyMod - 1
  <1>1. KeyMod \in Nat /\ KeyMod > 0
    BY ObjCacheAssumption, FS_CardinalityType
  <1> QED
    BY <1>1 DEF After

(* The next key is in the range of the keys.                               *)
LEMMA NextKeyType ==
    ASSUME NEW ds, Keyed(ds)
    PROVE  NextKey(ds) \in 0 .. KeyMod - 1
  <1> DEFINE Since == {i \in DOMAIN ds : \A j \in DOMAIN ds : j >= i => After(ds[j].key) # 0}
             K     == {ds[i].key : i \in Since}
  <1>1. KeyMod \in Nat /\ KeyMod > 0
    BY ObjCacheAssumption, FS_CardinalityType
  <1>2. K \subseteq 1 .. KeyMod - 1
    BY DEF Keyed, Digest, Range
  <1>3. NextKey(ds) = IF K = {} THEN 0 ELSE After(CHOOSE k \in K : \A l \in K : l <= k)
    BY DEF NextKey
  <1> HIDE DEF K
  <1>4. CASE K = {}
    BY <1>1, <1>3, <1>4
  <1>5. CASE K # {}
    <2>1. KeyMod - 1 \in Nat
      BY <1>1
    <2>2. \E k \in K : \A l \in K : l <= k
      BY <1>2, <1>5, <2>1, Greatest
    <2>3. (CHOOSE k \in K : \A l \in K : l <= k) \in K
      BY <2>2
    <2>4. \A k \in K : k \in Nat
      BY <1>1, <1>2
    <2>5. (CHOOSE k \in K : \A l \in K : l <= k) \in Nat
      BY <2>3, <2>4, Zenon
    <2> QED
      BY <1>3, <1>5, <2>5, AfterType
  <1> QED
    BY <1>4, <1>5

(* There are more keys than entries: one is free for an entry that has no  *)
(* digest.                                                                 *)
LEMMA KeyLeft ==
    ASSUME NEW ds, Keyed(ds), NEW e \in Entries, \A d \in Range(ds) : d.entry # e
    PROVE  (1 .. KeyMod - 1) \ {d.key : d \in Range(ds)} # {}
  <1> DEFINE K      == 1 .. KeyMod - 1
             Others == Entries \ {e}
             At(k)  == CHOOSE i \in DOMAIN ds : ds[i].key = k
             f      == [k \in K |-> ds[At(k)].entry]
  <1> SUFFICES ASSUME K \subseteq {d.key : d \in Range(ds)} PROVE FALSE
    OBVIOUS
  <1>1. KeyMod \in Nat /\ KeyMod > Cardinality(Entries) /\ IsFiniteSet(Entries)
        /\ Cardinality(Entries) \in Nat
    BY ObjCacheAssumption, FS_CardinalityType
  <1>2. IsFiniteSet(Others) /\ Cardinality(Others) = Cardinality(Entries) - 1
    BY <1>1, FS_RemoveElement
  <1>3. \A k \in K : At(k) \in DOMAIN ds /\ ds[At(k)].key = k
    <2>1. ASSUME NEW k \in K PROVE \E i \in DOMAIN ds : ds[i].key = k
      <3>1. PICK d \in Range(ds) : k = d.key
        OBVIOUS
      <3> QED
        BY <3>1 DEF Range
    <2> QED
      BY <2>1
  <1> HIDE DEF At
  <1>4. f \in Injection(K, Others)
    <2>1. ASSUME NEW k \in K PROVE f[k] \in Others
      <3>1. ds[At(k)] \in Range(ds)
        BY <1>3 DEF Range
      <3>2. ds[At(k)].entry \in Entries /\ ds[At(k)].entry # e
        BY <3>1 DEF Keyed, Digest
      <3> QED
        BY <3>2
    <2>2. ASSUME NEW k \in K, NEW l \in K, f[k] = f[l] PROVE k = l
      <3>1. At(k) = At(l)
        BY <1>3, <2>2 DEF Keyed
      <3> QED
        BY <1>3, <3>1
    <2>3. f \in [K -> Others]
      BY <2>1
    <2> HIDE DEF f
    <2> QED
      BY <2>2, <2>3 DEF Injection, IsInjective
  <1>5. Cardinality(K) <= Cardinality(Others)
    BY <1>2, <1>4, FS_Injection
  <1>6. Cardinality(K) = KeyMod - 1
    <2>1. 1 \in Int /\ KeyMod - 1 \in Int /\ ~(1 > KeyMod - 1 + 1)
      BY <1>1
    <2>2. Cardinality(K) = IF 1 > KeyMod - 1 THEN 0 ELSE (KeyMod - 1) - 1 + 1
      BY <2>1, FS_Interval
    <2> QED
      BY <1>1, <2>2
  <1> QED
    BY <1>1, <1>2, <1>5, <1>6

(* The new key is not 0 and not in use.                                    *)
LEMMA NewKeyFree ==
    ASSUME NEW m, Keyed(m.digests), m.nextKey \in 0 .. KeyMod - 1,
           NEW e \in Entries, \A d \in Range(m.digests) : d.entry # e
    PROVE  NewKey(m) \in 1 .. KeyMod - 1 /\ \A d \in Range(m.digests) : d.key # NewKey(m)
  <1> DEFINE Free  == (1 .. KeyMod - 1) \ {d.key : d \in Range(m.digests)}
             Above == {k \in Free : k >= m.nextKey}
             From  == IF Above # {} THEN Above ELSE Free
  <1>1. KeyMod \in Nat
    BY ObjCacheAssumption
  <1>2. Free # {}
    BY KeyLeft
  <1>3. From # {} /\ From \subseteq Free
    BY <1>2
  <1>4. NewKey(m) = CHOOSE k \in From : \A l \in From : k <= l
    BY DEF NewKey
  <1>5. From \subseteq Nat
    BY <1>1, <1>3
  <1> HIDE DEF From
  <1>6. NewKey(m) \in From
    <2>1. \E k \in From : \A l \in From : k <= l
      BY <1>3, <1>5, Least
    <2> QED
      BY <1>4, <2>1
  <1> QED
    BY <1>3, <1>6

(* A digest with an entry and a key of its own may be added.               *)
LEMMA KeyedMore ==
    ASSUME NEW ds, Keyed(ds), NEW d \in Digest,
           \A c \in Range(ds) : c.entry # d.entry /\ c.key # d.key
    PROVE  Keyed(Appended(ds, d))
  <1> DEFINE n == IF ds = <<>> THEN 1
                  ELSE 1 + CHOOSE i \in DOMAIN ds : \A j \in DOMAIN ds : j <= i
  <1>1. Appended(ds, d) = [i \in DOMAIN ds \cup {n} |-> IF i = n THEN d ELSE ds[i]]
    BY DEF Appended
  <1> HIDE DEF n
  <1>2. Array(Appended(ds, d))
    BY AppendedPlace DEF Keyed
  <1> QED
    BY <1>1, <1>2 DEF Keyed, Range

(* What is read, from memory or not, has keys of its own.                  *)
LEMMA ReadKeyed ==
    ASSUME Keys, NEW e \in Entries
    PROVE  Keyed(Read(memory[e]).digests) /\ Read(memory[e]).nextKey \in 0 .. KeyMod - 1
  BY EmptyKeyed, NextKeyType DEF Keys, Read
-----------------------------------------------------------------------------
LEMMA InitCacheInv == NotAFile /\ Init => CacheInv
  <1> SUFFICES ASSUME NotAFile, Init PROVE CacheInv
    OBVIOUS
  <1> USE DEF Init, Steps, Nothing, Empty
  <1>1. Shape
    BY ObjCacheAssumption DEF Shape
  <1>2. Locks
    BY ObjCacheAssumption DEF Locks, Locked
  <1>3. Generations
    BY DEF Generations, Locked
  <1>4. Additions /\ Own /\ Kept
    BY DEF Additions, Own, Kept, Locked
  <1>5. Typed
    BY DEF Typed
  <1>6. Keys
    BY EmptyKeyed DEF Keys
  <1> QED
    BY <1>1, <1>2, <1>3, <1>4, <1>5, <1>6 DEF CacheInv

LEMMA BeginCacheInv ==
    ASSUME NotAFile, CacheInv, NEW e \in Entries, Begin(e)
    PROVE  CacheInv'
  <1> USE DEF CacheInv, Steps, Begin, Go, disk
  <1>1. Shape'
    BY ObjCacheAssumption DEF Shape
  <1>2. Locks'
    BY ObjCacheAssumption DEF Shape, Locks, Locked
  <1>3. Generations'
    BY ReadIsFresh DEF Shape, Locks, Locked, Generations
  <1>4. Additions'
    BY ReadIsFresh, NoDigests DEF Shape, Locks, Locked, Additions
  <1>5. Own'
    BY DEF Shape, Own, Replacing
  <1>6. Kept'
    BY ReadIsFresh DEF Shape, Locks, Locked, Kept, Valid, Usable
  <1>7. Typed'
    <2>1. PICK t \in Texts, a \in Args :
              /\ want' = [want EXCEPT ![e] = [text |-> t, args |-> a]]
              /\ needs' = [needs EXCEPT ![e] = ~(Usable(e) /\ entry[e].args = a)]
      OBVIOUS
    <2>2. want'[e].text \in Texts /\ want'[e].args \in Args /\ (~needs'[e] => entry[e] # Bad)
      BY <2>1 DEF Shape, Usable
    <2>3. \A o \in Entries \ {e} : want'[o] = want[o] /\ needs'[o] = needs[o] /\ pc'[o] = pc[o]
      BY <2>1 DEF Shape
    <2> QED
      BY <2>2, <2>3 DEF Typed
  <1>8. Keys'
    BY ReadKeyed DEF Shape, Keys
  <1> QED
    BY <1>1, <1>2, <1>3, <1>4, <1>5, <1>6, <1>7, <1>8

LEMMA LookCacheInv ==
    ASSUME NotAFile, CacheInv, NEW e \in Entries, Look(e)
    PROVE  CacheInv'
  <1> USE DEF CacheInv, Steps, Look, Go, disk
  <1>1. Shape'
    BY ObjCacheAssumption DEF Shape
  <1>2. Locks'
    BY ObjCacheAssumption DEF Shape, Locks, Locked
  <1>3. Generations'
    BY ReadIsFresh DEF Shape, Locks, Locked, Generations
  <1>4. Additions'
    BY ReadIsFresh, NoDigests DEF Shape, Locks, Locked, Additions
  <1>5. Own'
    BY DEF Shape, Own, Replacing
  <1>6. Kept'
    BY ReadIsFresh DEF Shape, Locks, Locked, Kept, Valid, Usable
  <1>7. Typed'
    BY DEF Shape, Typed
  <1>8. Keys'
    BY ReadKeyed DEF Shape, Keys
  <1> QED
    BY <1>1, <1>2, <1>3, <1>4, <1>5, <1>6, <1>7, <1>8

LEMMA PreProcessCacheInv ==
    ASSUME NotAFile, CacheInv, NEW e \in Entries, PreProcess(e)
    PROVE  CacheInv'
  <1> USE DEF CacheInv, Steps, PreProcess, Go
  <1>1. Shape'
    BY ObjCacheAssumption DEF Shape
  <1>2. Locks'
    BY ObjCacheAssumption DEF Shape, Locks, Locked
  <1>3. Generations'
    BY ReadIsFresh DEF Shape, Locks, Locked, Generations
  <1>4. Additions'
    BY ReadIsFresh, NoDigests DEF Shape, Locks, Locked, Additions
  <1>5. Own'
    BY DEF Shape, Own, Replacing
  <1>6. Kept'
    BY ReadIsFresh DEF Shape, Locks, Locked, Kept, Valid, Usable
  <1>7. Typed'
    BY DEF Shape, Typed
  <1>8. Keys'
    BY ReadKeyed DEF Shape, Keys
  <1> QED
    BY <1>1, <1>2, <1>3, <1>4, <1>5, <1>6, <1>7, <1>8

LEMMA PreProcessFailsCacheInv ==
    ASSUME NotAFile, CacheInv, NEW e \in Entries, PreProcessFails(e)
    PROVE  CacheInv'
  <1> USE DEF CacheInv, Steps, PreProcessFails, Go, Ends, Nothing, Empty
  <1>1. Shape'
    BY ObjCacheAssumption DEF Shape
  <1>2. Locks'
    BY ObjCacheAssumption DEF Shape, Locks, Locked
  <1>3. Generations'
    BY ReadIsFresh DEF Shape, Locks, Locked, Generations
  <1>4. Additions'
    BY ReadIsFresh, NoDigests DEF Shape, Locks, Locked, Additions
  <1>5. Own'
    BY DEF Shape, Own, Replacing
  <1>6. Kept'
    <2>1. \A o \in Entries : object'[o] # Bad => object[o] = object'[o]
      BY DEF Shape
    <2>2. UNCHANGED <<cache, entry, lock>> /\ pc'[e] \notin Locked
          /\ \A o \in Entries \ {e} : pc'[o] = pc[o] /\ memory'[o] = memory[o]
      BY DEF Shape, Locked
    <2>3. \A d : d.entry \in Entries /\ Valid(d)' => Valid(d)
      BY <2>1, <2>2 DEF Valid, Usable
    <2> QED
      BY <2>2, <2>3 DEF Kept, Own
  <1>7. Typed'
    BY DEF Shape, Typed
  <1>8. Keys'
    BY EmptyKeyed DEF Shape, Keys
  <1> QED
    BY <1>1, <1>2, <1>3, <1>4, <1>5, <1>6, <1>7, <1>8

LEMMA CopyCacheInv ==
    ASSUME NotAFile, CacheInv, NEW e \in Entries, Copy(e)
    PROVE  CacheInv'
  <1> USE DEF CacheInv, Steps, Copy, Go
  <1>1. Shape'
    BY ObjCacheAssumption DEF Shape
  <1>2. Locks'
    BY ObjCacheAssumption DEF Shape, Locks, Locked
  <1>3. Generations'
    BY ReadIsFresh DEF Shape, Locks, Locked, Generations
  <1>4. Additions'
    BY ReadIsFresh, NoDigests DEF Shape, Locks, Locked, Additions
  <1>5. Own'
    BY DEF Shape, Own, Replacing
  <1>6. Kept'
    BY ReadIsFresh DEF Shape, Locks, Locked, Kept, Valid, Usable
  <1>7. Typed'
    BY DEF Shape, Typed
  <1>8. Keys'
    BY ReadKeyed DEF Shape, Keys
  <1> QED
    BY <1>1, <1>2, <1>3, <1>4, <1>5, <1>6, <1>7, <1>8

LEMMA CompileDeletesCacheInv ==
    ASSUME NotAFile, CacheInv, NEW e \in Entries, CompileDeletes(e)
    PROVE  CacheInv'
  <1> USE DEF CacheInv, Steps, CompileDeletes, Go
  <1>1. Shape'
    BY ObjCacheAssumption DEF Shape
  <1>2. Locks'
    BY ObjCacheAssumption DEF Shape, Locks, Locked
  <1>3. Generations'
    BY ReadIsFresh DEF Shape, Locks, Locked, Generations
  <1>4. Additions'
    BY ReadIsFresh, NoDigests DEF Shape, Locks, Locked, Additions
  <1>5. Own'
    BY DEF Shape, Own, Replacing
  <1>6. Kept'
    BY ReadIsFresh DEF Shape, Locks, Locked, Kept, Valid, Usable
  <1>7. Typed'
    BY DEF Shape, Typed
  <1>8. Keys'
    BY ReadKeyed DEF Shape, Keys
  <1> QED
    BY <1>1, <1>2, <1>3, <1>4, <1>5, <1>6, <1>7, <1>8

LEMMA CompiledCacheInv ==
    ASSUME NotAFile, CacheInv, NEW e \in Entries, Compiled(e)
    PROVE  CacheInv'
  <1> USE DEF CacheInv, Steps, Compiled, Go
  <1>1. Shape'
    BY ObjCacheAssumption DEF Shape
  <1>2. Locks'
    BY ObjCacheAssumption DEF Shape, Locks, Locked
  <1>3. Generations'
    BY ReadIsFresh DEF Shape, Locks, Locked, Generations
  <1>4. Additions'
    BY ReadIsFresh, NoDigests DEF Shape, Locks, Locked, Additions
  <1>5. Own'
    BY DEF Shape, Own, Replacing
  <1>6. Kept'
    <2>1. cache # Bad => \A d \in Range(cache.digests) : object'[d.entry] = object[d.entry]
      BY DEF Shape, Own, Replacing
    <2>2. cache # Bad => \A d \in Range(cache.digests) : Valid(d)' => Valid(d)
      BY <2>1 DEF Valid, Usable
    <2> QED
      BY <2>2 DEF Shape, Kept, Locked
  <1>7. Typed'
    BY DEF Shape, Typed
  <1>8. Keys'
    BY ReadKeyed DEF Shape, Keys
  <1> QED
    BY <1>1, <1>2, <1>3, <1>4, <1>5, <1>6, <1>7, <1>8

LEMMA CompileFailsCacheInv ==
    ASSUME NotAFile, CacheInv, NEW e \in Entries, CompileFails(e)
    PROVE  CacheInv'
  <1> USE DEF CacheInv, Steps, CompileFails, disk, Ends, Nothing, Empty
  <1>1. Shape'
    BY ObjCacheAssumption DEF Shape
  <1>2. Locks'
    BY ObjCacheAssumption DEF Shape, Locks, Locked
  <1>3. Generations'
    BY ReadIsFresh DEF Shape, Locks, Locked, Generations
  <1>4. Additions'
    BY ReadIsFresh, NoDigests DEF Shape, Locks, Locked, Additions
  <1>5. Own'
    BY DEF Shape, Own, Replacing
  <1>6. Kept'
    BY ReadIsFresh DEF Shape, Locks, Locked, Kept, Valid, Usable
  <1>7. Typed'
    BY DEF Shape, Typed
  <1>8. Keys'
    BY EmptyKeyed DEF Shape, Keys
  <1> QED
    BY <1>1, <1>2, <1>3, <1>4, <1>5, <1>6, <1>7, <1>8

LEMMA FinishCacheInv ==
    ASSUME NotAFile, CacheInv, NEW e \in Entries, Finish(e)
    PROVE  CacheInv'
  <1> USE DEF CacheInv, Steps, Finish, Go, disk
  <1>1. Shape'
    BY ObjCacheAssumption DEF Shape
  <1>2. Locks'
    BY ObjCacheAssumption DEF Shape, Locks, Locked
  <1>3. Generations'
    BY ReadIsFresh DEF Shape, Locks, Locked, Generations
  <1>4. Additions'
    BY ReadIsFresh, NoDigests DEF Shape, Locks, Locked, Additions
  <1>5. Own'
    BY DEF Shape, Own, Replacing
  <1>6. Kept'
    BY ReadIsFresh DEF Shape, Locks, Locked, Kept, Valid, Usable
  <1>7. Typed'
    BY DEF Shape, Typed
  <1>8. Keys'
    BY ReadKeyed DEF Shape, Keys
  <1> QED
    BY <1>1, <1>2, <1>3, <1>4, <1>5, <1>6, <1>7, <1>8

LEMMA UpdateCacheInv ==
    ASSUME NotAFile, CacheInv, NEW e \in Entries, Update(e)
    PROVE  CacheInv'
  <1> DEFINE kept == Without(memory[e].digests, e)
             m    == With(memory[e], kept)
             d    == NewDigest(e, NewKey(m))
  <1> USE DEF CacheInv, Steps, Update, Go
  <1>a. /\ memory'[e].digests = Appended(kept, d) /\ memory'[e].nextKey = After(NewKey(m))
        /\ \A o \in Entries \ {e} : memory'[o] = memory[o] /\ entry'[o] = entry[o]
        /\ entry'[e] = [key |-> NewKey(m), args |-> want[e].args, sums |-> sums[e]]
        /\ m.digests = kept /\ m.nextKey = memory[e].nextKey
    BY DEF Shape, Insert, With
  <1>b. pc[e] = "update" /\ pc' = [pc EXCEPT ![e] = "write"]
        /\ UNCHANGED <<mode, cache, object, cpp, lock, want, needs, sums, from>>
    OBVIOUS
  <1>c. Keyed(kept) /\ \A c \in Range(kept) : c \in Range(memory[e].digests) /\ c.entry # e
    BY SearchedKeyed, WithoutOwn DEF Keys
  <1>d. NewKey(m) \in 1 .. KeyMod - 1 /\ \A c \in Range(kept) : c.key # NewKey(m)
    BY <1>a, <1>c, NewKeyFree DEF Keys
  <1>e. d.entry = e /\ d.key = NewKey(m) /\ d \in Digest
    BY <1>b, <1>d DEF NewDigest, Digest, Typed
  <1>1. Shape'
    BY ObjCacheAssumption DEF Shape
  <1>2. Locks'
    BY ObjCacheAssumption DEF Shape, Locks, Locked
  <1>3. Generations'
    BY DEF Shape, Locks, Locked, Generations, Insert, With
  <1>4. Additions'
    <2>1. \A c \in Range(memory'[e].digests) : c.entry = e \/ c \in Range(memory[e].digests)
      BY <1>a, <1>c, <1>e, AppendedRange
    <2> QED
      BY <1>a, <1>b, <2>1 DEF Shape, Locks, Locked, Additions
  <1>5. Own'
    BY DEF Shape, Own, Replacing
  <1>6. Kept'
    <2>1. ASSUME NEW c \in Range(memory[e].digests), c.entry # e
          PROVE  c \in Range(memory'[e].digests)
      BY <1>a, <1>c, <2>1, WithoutOthers, AppendedPlace DEF Keyed
    <2>2. \A o \in Entries \ {e} : pc'[o] \notin Locked
      BY <1>b DEF Shape, Locks, Locked
    <2>3. \A c : c.entry \in Entries \ {e} /\ Valid(c)' => Valid(c)
      BY <1>a, <1>b DEF Valid, Usable
    <2> QED
      BY <1>b, <2>1, <2>2, <2>3 DEF Kept, Own, Locked
  <1>7. Typed'
    BY <1>a, <1>b, <1>d DEF Shape, Typed
  <1>8. Keys'
    <2>1. Keyed(Appended(kept, d))
      BY <1>c, <1>d, <1>e, KeyedMore
    <2>2. After(NewKey(m)) \in 0 .. KeyMod - 1
      BY <1>d, AfterType, ObjCacheAssumption
    <2> QED
      BY <1>a, <1>b, <2>1, <2>2 DEF Keys
  <1> QED
    BY <1>1, <1>2, <1>3, <1>4, <1>5, <1>6, <1>7, <1>8

LEMMA WriteCacheInv ==
    ASSUME NotAFile, CacheInv, NEW e \in Entries, Write(e)
    PROVE  CacheInv'
  <1> USE DEF CacheInv, Steps, Write, Ends, Nothing, Empty
  <1>a. /\ cache' = [generation |-> memory[e].generation + 1, digests |-> memory[e].digests]
        /\ cache' # Bad /\ cache'.digests = memory[e].digests
        /\ cache'.generation = memory[e].generation + 1
    BY DEF Written, NotAFile
  <1>b. pc[e] = "write" /\ lock = e /\ lock' = NoOne
    BY DEF Locks, Locked
  <1>1. Shape'
    BY ObjCacheAssumption DEF Shape
  <1>2. Locks'
    BY ObjCacheAssumption DEF Shape, Locks, Locked
  <1>3. Generations'
    BY <1>a, <1>b DEF Shape, Locks, Locked, Generations
  <1>4. Additions'
    BY ReadIsFresh, NoDigests DEF Shape, Locks, Locked, Additions
  <1>5. Own'
    BY <1>a, <1>b DEF Shape, Locks, Locked, Additions, Own, Replacing
  <1>6. Kept'
    BY <1>2, <1>b, ObjCacheAssumption DEF Locks, Kept
  <1>7. Typed'
    BY DEF Shape, Typed
  <1>8. Keys'
    BY <1>a, EmptyKeyed DEF Shape, Keys
  <1> QED
    BY <1>1, <1>2, <1>3, <1>4, <1>5, <1>6, <1>7, <1>8

(* What a search removes: the process's own digest, and digests that match *)
(* and are not valid.                                                      *)
LEMMA SearchedKeeps ==
    ASSUME NEW ds, NEW e, NEW last, NEW d \in Range(ds), d.entry # e, Valid(d),
           \A i \in Found(Without(ds, e), e) : i <= last
    PROVE  d \in Range(Searched(Without(ds, e), e, last))
  <1>1. PICK i \in DOMAIN Without(ds, e) : Without(ds, e)[i] = d
    BY WithoutOthers DEF Range
  <1>2. i <= last \/ ~Matches(Without(ds, e)[i], e)
    BY <1>1 DEF Found
  <1> QED
    BY <1>1, <1>2 DEF Searched, Restrict, Range

LEMMA SearchHitCacheInv ==
    ASSUME NotAFile, CacheInv, NEW e \in Entries, SearchHit(e)
    PROVE  CacheInv'
  <1> DEFINE m  == Read(memory[e])
             ds == Without(m.digests, e)
  <1> USE DEF CacheInv, Steps, Go, disk
  <1>1. /\ pc[e] = "search" /\ pc' = [pc EXCEPT ![e] = "copy"] /\ lock = NoOne /\ lock' = e
        /\ UNCHANGED <<mode, cache, entry, object, cpp, want, needs, sums>>
    BY DEF SearchHit
  <1>2. PICK i \in Found(ds, e) :
            /\ \A j \in Found(ds, e) : j <= i
            /\ memory' = [memory EXCEPT ![e] = With(m, Searched(ds, e, i))]
            /\ from' = [from EXCEPT ![e] = ds[i].entry]
    BY DEF SearchHit
  <1>3. /\ memory'[e].generation = m.generation /\ memory'[e].nextKey = m.nextKey
        /\ memory'[e].digests = Searched(ds, e, i)
        /\ Range(memory'[e].digests) \subseteq Range(m.digests)
        /\ \A f \in Entries \ {e} : memory'[f] = memory[f]
    BY <1>2, SearchedRange, WithoutOwn DEF Shape, With
  <1>4. Keyed(m.digests) /\ m.nextKey \in 0 .. KeyMod - 1
    BY ReadKeyed
  <1>5. Shape'
    BY <1>1, <1>2 DEF Shape
  <1>6. Locks'
    BY <1>1, ObjCacheAssumption DEF Shape, Locks, Locked
  <1>7. Generations'
    BY <1>1, <1>3, ReadIsFresh DEF Shape, Locks, Locked, Generations
  <1>8. Additions'
    BY <1>1, <1>3, ReadIsFresh, NoDigests, ObjCacheAssumption DEF Shape, Locks, Locked, Additions
  <1>9. Own'
    BY <1>1 DEF Shape, Own, Replacing
  <1>10. Kept'
    <2>1. \A d : Valid(d)' <=> Valid(d)
      BY <1>1 DEF Valid, Usable
    <2>2. cache # Bad => m.digests = cache.digests
      BY <1>1, ReadIsFresh DEF Locked
    <2>3. cache # Bad => \A d \in Range(cache.digests) :
              d.entry # e /\ Valid(d) => d \in Range(memory'[e].digests)
      BY <1>2, <1>3, <2>2, SearchedKeeps
    <2>4. \A f \in Entries \ {e} : pc'[f] \notin Locked
      BY <1>1, ObjCacheAssumption DEF Shape, Locks, Locked
    <2> QED
      BY <1>1, <2>1, <2>3, <2>4 DEF Kept
  <1>11. Typed'
    <2>1. i \in DOMAIN ds
      BY DEF Found
    <2>2. ds[i] \in Range(ds) /\ Keyed(ds)
      BY <1>4, <2>1, SearchedKeyed DEF Range
    <2>3. ds[i].entry \in Entries
      BY <2>2 DEF Keyed, Digest
    <2> QED
      BY <1>1, <1>2, <2>3 DEF Shape, Typed
  <1>12. Keys'
    BY <1>1, <1>3, <1>4, SearchedKeyed DEF Keys
  <1> QED
    BY <1>5, <1>6, <1>7, <1>8, <1>9, <1>10, <1>11, <1>12

LEMMA SearchMissCacheInv ==
    ASSUME NotAFile, CacheInv, NEW e \in Entries, SearchMiss(e)
    PROVE  CacheInv'
  <1> DEFINE m  == Read(memory[e])
             ds == Without(m.digests, e)
             s  == Searched(ds, e, 0)
  <1> USE DEF CacheInv, Steps, Go
  <1>1. /\ pc[e] = "search" /\ pc' = [pc EXCEPT ![e] = "compile"] /\ lock = NoOne
        /\ UNCHANGED <<mode, entry, object, cpp, lock, want, needs, sums, from>>
    BY DEF SearchMiss
  <1>2. \/ With(m, s) = m /\ memory' = [memory EXCEPT ![e] = m] /\ cache' = cache
        \/ /\ cache' = [generation |-> m.generation + 1, digests |-> s]
           /\ memory' = [memory EXCEPT ![e] = [generation |-> m.generation + 1,
                                              nextKey |-> m.nextKey, digests |-> s]]
    BY DEF SearchMiss, Written, With
  <1>3. \A d \in Range(s) : d.entry # e /\ d \in Range(m.digests)
    BY WithoutOwn, SearchedRange
  <1>4. /\ cache = Bad => m.generation = 0 /\ m.digests = <<>>
        /\ cache # Bad => m.generation = cache.generation /\ m.digests = cache.digests
        /\ m.generation \in Nat /\ Keyed(m.digests) /\ m.nextKey \in 0 .. KeyMod - 1
    BY <1>1, ReadIsFresh, ReadKeyed DEF Locked
  <1>5. cache' # Bad => \A d \in Range(cache'.digests) :
            d.entry # e /\ cache # Bad /\ d \in Range(cache.digests)
    <2>1. CASE With(m, s) = m /\ cache' = cache
      <3>1. m.digests = s
        BY <2>1 DEF With
      <3> QED
        BY <1>3, <1>4, <2>1, <3>1
    <2>2. CASE cache' = [generation |-> m.generation + 1, digests |-> s]
      BY <1>3, <1>4, <2>2, NoDigests
    <2> QED
      BY <1>2, <2>1, <2>2
  <1>6. /\ memory'[e].nextKey = m.nextKey /\ memory'[e].digests \in {m.digests, s}
        /\ \A f \in Entries \ {e} : memory'[f] = memory[f]
        /\ cache' = cache \/ (cache' # Bad /\ cache'.digests = s)
    BY <1>2 DEF Shape, NotAFile
  <1>7. Shape'
    BY <1>1, <1>2 DEF Shape
  <1>8. Locks'
    BY <1>1, ObjCacheAssumption DEF Shape, Locks, Locked
  <1>9. Generations'
    <2>1. CASE memory' = [memory EXCEPT ![e] = m] /\ cache' = cache
      BY <1>1, <1>4, <2>1 DEF Shape, Locks, Locked, Generations
    <2>2. CASE /\ cache' = [generation |-> m.generation + 1, digests |-> s]
               /\ memory' = [memory EXCEPT ![e] = [generation |-> m.generation + 1,
                                                  nextKey |-> m.nextKey, digests |-> s]]
      <3>1. \A f \in Entries \ {e} : pc'[f] \notin Locked /\ memory'[f] = memory[f]
        BY <1>1, <2>2, ObjCacheAssumption DEF Shape, Locks, Locked
      <3>2. /\ cache' # Bad /\ cache'.generation = m.generation + 1 /\ cache'.digests = s
            /\ memory'[e].generation = m.generation + 1 /\ memory'[e].digests = s
            /\ pc'[e] \notin Locked
        BY <1>1, <2>2 DEF Shape, NotAFile, Locked
      <3>3. \A f \in Entries \ {e} : /\ memory[f].generation \in Nat
                                     /\ memory[f].generation # 0 => memory[f].generation <= m.generation
        BY <1>1, <1>4, ObjCacheAssumption DEF Generations, Locks
      <3> QED
        BY <1>4, <3>1, <3>2, <3>3 DEF Generations
    <2> QED
      BY <1>2, <2>1, <2>2
  <1>10. Additions' /\ Kept'
    BY <1>1, ObjCacheAssumption DEF Shape, Locks, Locked, Additions, Kept
  <1>11. Own'
    BY <1>1, <1>5 DEF Shape, Own, Replacing
  <1>12. Typed'
    BY <1>1 DEF Shape, Typed
  <1>13. Keys'
    <2>1. Keyed(s)
      BY <1>4, SearchedKeyed
    <2> QED
      BY <1>4, <1>6, <2>1 DEF Keys
  <1> QED
    BY <1>7, <1>8, <1>9, <1>10, <1>11, <1>12, <1>13

(* The processes are gone; who had the lock may have written the file.     *)
LEMMA CrashCacheInv ==
    ASSUME NotAFile, CacheInv, Crash
    PROVE  CacheInv'
  <1> USE DEF CacheInv, Steps, Crash, Nothing
  <1>1. /\ lock' = NoOne /\ UNCHANGED <<mode, entry, object, cpp>>
        /\ \A e \in Entries : /\ pc'[e] = "idle" /\ memory'[e] = Empty
                              /\ memory'[e].generation = 0 /\ ~Replacing(e)'
    BY DEF Replacing, Empty
  <1>2. \/ cache' \in {cache, Bad}
        \/ /\ lock \in Entries /\ cache' = Written(memory[lock])
           /\ cache' # Bad /\ cache'.generation = memory[lock].generation + 1
           /\ cache'.digests = memory[lock].digests
    <2>1. CASE cache' \in {cache, Bad}
      BY <2>1
    <2>2. CASE \E e \in Entries : pc[e] = "write" /\ cache' = Written(memory[lock])
      BY <2>2 DEF Locks, Locked, Written, NotAFile
    <2> QED
      BY <2>1, <2>2
  <1>3. Shape'
    BY DEF Shape
  <1>4. Locks'
    BY <1>1, ObjCacheAssumption DEF Locks, Locked
  <1>5. Generations'
    BY <1>1, <1>2 DEF Generations, Locked
  <1>6. Additions' /\ Kept'
    BY <1>1 DEF Additions, Kept, Locked
  <1>7. Own'
    <2>1. CASE cache' \in {cache, Bad}
      BY <1>1, <2>1 DEF Own
    <2>2. CASE lock \in Entries /\ cache'.digests = memory[lock].digests
      <3>1. \A d \in Range(memory[lock].digests) : d.entry \in Entries
        BY <2>2 DEF Keys, Keyed, Digest
      <3> QED
        BY <1>1, <2>2, <3>1 DEF Own
    <2> QED
      BY <1>2, <2>1, <2>2
  <1>8. Typed'
    BY <1>1 DEF Typed
  <1>9. Keys'
    BY <1>1, <1>2, EmptyKeyed DEF Keys
  <1> QED
    BY <1>3, <1>4, <1>5, <1>6, <1>7, <1>8, <1>9

LEMMA NextCacheInv == NotAFile /\ CacheInv /\ [Next]_vars => CacheInv'
  <1> SUFFICES ASSUME NotAFile, CacheInv, [Next]_vars PROVE CacheInv'
    OBVIOUS
  <1>1. CASE Crash
    BY <1>1, CrashCacheInv
  <1>2. ASSUME NEW e \in Entries,
               \/ Begin(e) \/ Look(e) \/ PreProcess(e) \/ PreProcessFails(e)
               \/ SearchHit(e) \/ SearchMiss(e) \/ Copy(e)
               \/ CompileDeletes(e) \/ Compiled(e) \/ CompileFails(e)
               \/ Finish(e) \/ Update(e) \/ Write(e)
        PROVE  CacheInv'
    BY <1>2, BeginCacheInv, LookCacheInv, PreProcessCacheInv, PreProcessFailsCacheInv,
       SearchHitCacheInv, SearchMissCacheInv, CopyCacheInv, CompileDeletesCacheInv,
       CompiledCacheInv, CompileFailsCacheInv, FinishCacheInv, UpdateCacheInv, WriteCacheInv
  <1>3. CASE UNCHANGED vars
    BY <1>3 DEF vars, disk, process, CacheInv, Shape, Locks, Generations, Additions, Own,
                Replacing, Kept, Valid, Usable, Typed, Keys
  <1> QED
    BY <1>1, <1>2, <1>3 DEF Next
-----------------------------------------------------------------------------
(* The objects.                                                            *)
LEMMA InitIInv == Sound /\ Init => IInv
  <1> SUFFICES ASSUME Sound, Init PROVE IInv
    OBVIOUS
  <1>1. CacheInv
    BY InitCacheInv DEF Sound
  <1>2. Objects /\ Outputs
    BY DEF Init, Nothing, Empty, Objects, ObjectAt, Unchanged, Old, Usable, Outputs
  <1> QED
    BY <1>1, <1>2 DEF IInv

LEMMA BeginObjects ==
    ASSUME Sound, IInv, NEW e \in Entries, Begin(e)
    PROVE  Objects' /\ Outputs'
  <1> USE DEF IInv, CacheInv, Steps, Begin, Go, disk
  <1>1. Objects'
    <2> SUFFICES ASSUME NEW o \in Entries
                 PROVE  ObjectAt(o)'
      BY DEF Objects
    <2>1. CASE o = e
      <3>1. pc'[e] = "look" /\ (~needs'[e] => Usable(e) /\ entry[e].args = want'[e].args)
        <4>1. PICK t, a : /\ want' = [want EXCEPT ![e] = [text |-> t, args |-> a]]
                          /\ needs' = [needs EXCEPT ![e] = ~(Usable(e) /\ entry[e].args = a)]
          OBVIOUS
        <4>2. pc'[e] = "look" /\ want'[e].args = a
          BY <4>1 DEF Shape
        <4>3. needs'[e] = ~(Usable(e) /\ entry[e].args = a)
          BY <4>1, Zenon DEF Shape
        <4> QED
          BY <4>2, <4>3
      <3>2. Old(e) /\ UNCHANGED <<entry, object>>
        BY DEF Objects, ObjectAt, Unchanged, disk
      <3> QED
        BY <2>1, <3>1, <3>2 DEF ObjectAt, Unchanged, Old, Usable
    <2>2. CASE o # e
      BY <2>2 DEF Shape, Locks, Locked, Objects, ObjectAt, Unchanged, Old, Usable, Wanted, Product
    <2> QED
      BY <2>1, <2>2
  <1>2. Outputs'
    BY ObjCacheAssumption DEF Shape, Objects, ObjectAt, Outputs, Usable, Wanted, Product, Sound
  <1> QED
    BY <1>1, <1>2

LEMMA LookObjects ==
    ASSUME Sound, IInv, NEW e \in Entries, Look(e)
    PROVE  Objects' /\ Outputs'
  <1> USE DEF IInv, CacheInv, Steps, Look, Go, disk
  <1>1. Objects'
    BY DEF Shape, Locks, Locked, Own, Replacing, Objects, ObjectAt, Unchanged, Old, Usable, Wanted, Product
  <1>2. Outputs'
    BY ObjCacheAssumption DEF Shape, Objects, ObjectAt, Outputs, Usable, Wanted, Product, Sound
  <1> QED
    BY <1>1, <1>2

LEMMA PreProcessObjects ==
    ASSUME Sound, IInv, NEW e \in Entries, PreProcess(e)
    PROVE  Objects' /\ Outputs'
  <1> USE DEF IInv, CacheInv, Steps, PreProcess, Go, SumKnown, SameOutput
  <1>1. Objects'
    <2> SUFFICES ASSUME NEW o \in Entries
                 PROVE  ObjectAt(o)'
      BY DEF Objects
    <2>1. CASE o # e
      BY <2>1 DEF Shape, Locks, Locked, Objects, ObjectAt, Unchanged, Old, Usable, Wanted, Product
    <2>2. CASE o = e /\ pc[e] = "full"
      <3>1. /\ pc'[e] = "compile" /\ sums'[e] = {want[e].text} /\ needs'[e]
            /\ UNCHANGED <<entry, object, want>> /\ Old(e)
        BY <2>2 DEF Shape, Objects, ObjectAt, Unchanged
      <3> QED
        BY <2>2, <3>1 DEF ObjectAt, Unchanged, Old, Usable, Wanted, Product
    <2>3. CASE o = e /\ pc[e] = "preprocess"
      <3> DEFINE same == ~needs[e] /\ (SumKnown(e) \/ SameOutput(e, cpp[e]))
      <3>1. /\ Old(e) /\ UNCHANGED <<mode, entry, object, want>>
            /\ ~needs[e] => Usable(e) /\ entry[e].args = want[e].args
        BY <2>3 DEF Objects, ObjectAt, Unchanged
      <3>2. CASE same
        <4>1. /\ pc'[e] = "finish" /\ ~needs'[e]
              /\ sums'[e] \subseteq {want[e].text} \cup entry[e].sums
          BY <2>3, <3>2 DEF Shape
        <4>2. Usable(e) /\ \A s \in entry[e].sums : object[e] = Product(s, want[e].args)
          BY <3>1, <3>2 DEF Old
        <4>3. object[e] = Wanted(e)
          <5>1. CASE SumKnown(e)
            BY <4>2, <5>1 DEF SumKnown, Wanted
          <5>2. CASE SameOutput(e, cpp[e])
            <6>1. mode.compare /\ cpp[e] # Bad /\ object[e] = Product(cpp[e], entry[e].args)
              BY <2>3, <4>2, <5>2 DEF SameOutput, Outputs
            <6>2. Meaning[cpp[e]] = Meaning[want[e].text]
              BY <5>2, <6>1 DEF SameOutput
            <6> QED
              BY <3>1, <3>2, <6>1, <6>2 DEF Wanted, Product
          <5> QED
            BY <3>2, <5>1, <5>2
        <4>4. \A s \in sums'[e] : Product(s, want[e].args) = Wanted(e)
          BY <4>1, <4>2, <4>3 DEF Wanted
        <4> QED
          BY <2>3, <3>1, <4>1, <4>3, <4>4 DEF ObjectAt, Unchanged, Old, Usable, Wanted, Product
      <3>3. CASE ~same
        <4>1. pc'[e] = "search" /\ needs'[e] /\ sums'[e] = {want[e].text}
          BY <2>3, <3>3 DEF Shape
        <4> QED
          BY <2>3, <3>1, <4>1 DEF ObjectAt, Unchanged, Old, Usable, Wanted, Product
      <3> QED
        BY <3>2, <3>3
    <2> QED
      BY <2>1, <2>2, <2>3
  <1>2. Outputs'
    BY ObjCacheAssumption DEF Shape, Objects, ObjectAt, Outputs, Usable, Wanted, Product, Sound
  <1> QED
    BY <1>1, <1>2

LEMMA PreProcessFailsObjects ==
    ASSUME Sound, IInv, NEW e \in Entries, PreProcessFails(e)
    PROVE  Objects' /\ Outputs'
  <1> USE DEF IInv, CacheInv, Steps, PreProcessFails, Go, Ends, Nothing, Empty
  <1>1. Objects'
    BY DEF Shape, Locks, Locked, Own, Replacing, Objects, ObjectAt, Unchanged, Old, Usable, Wanted, Product
  <1>2. Outputs'
    BY ObjCacheAssumption DEF Shape, Objects, ObjectAt, Outputs, Usable, Wanted, Product, Sound
  <1> QED
    BY <1>1, <1>2

LEMMA SearchHitObjects ==
    ASSUME Sound, IInv, NEW e \in Entries, SearchHit(e)
    PROVE  Objects' /\ Outputs'
  <1> DEFINE m  == Read(memory[e])
             ds == Without(m.digests, e)
  <1> USE DEF IInv, CacheInv, Steps, Go, disk
  <1>1. /\ pc[e] = "search" /\ pc' = [pc EXCEPT ![e] = "copy"] /\ lock = NoOne /\ lock' = e
        /\ UNCHANGED <<mode, cache, entry, object, cpp, want, needs, sums>>
    BY DEF SearchHit
  <1>2. PICK i \in Found(ds, e) :
            /\ memory' = [memory EXCEPT ![e] = With(m, Searched(ds, e, i))]
            /\ from' = [from EXCEPT ![e] = ds[i].entry]
    BY DEF SearchHit
  <1> DEFINE d == ds[i]
             o == d.entry
  <1>3. /\ Matches(d, e) /\ Valid(d) /\ i \in DOMAIN ds
        /\ cache # Bad /\ d \in Range(cache.digests) /\ o \in Entries \ {e}
    <2>1. Matches(d, e) /\ Valid(d) /\ i \in DOMAIN ds
      BY DEF Found
    <2>2. d \in Range(ds)
      BY <2>1 DEF Range
    <2>3. d \in Range(m.digests) /\ o # e
      BY <2>2, WithoutOwn
    <2>4. cache # Bad /\ d \in Range(cache.digests)
      BY <1>1, <2>3, ReadIsFresh, NoDigests DEF Locked
    <2> QED
      BY <2>1, <2>3, <2>4 DEF Own
  <1>4. object[o] = Wanted(e)
    <2>1. pc[o] \notin Locked /\ ~Replacing(o)
      BY <1>1, <1>3, ObjCacheAssumption DEF Locks, Own
    <2>2. Usable(o) /\ d.args = entry[o].args /\ d.sums \subseteq entry[o].sums
      BY <1>3 DEF Valid
    <2>3. Old(o)
      <3>1. ObjectAt(o) /\ pc[o] \in Steps
        BY <1>3 DEF Objects, Shape
      <3>2. pc[o] \in {"idle", "look", "preprocess", "search", "finish"}
        BY <2>1, <3>1 DEF Locked, Replacing
      <3> QED  BY <2>1, <3>1, <3>2 DEF Replacing, ObjectAt, Unchanged
    <2> QED
      BY <1>3, <2>2, <2>3 DEF Matches, Old, Wanted, Product
  <1>5. Objects'
    <2>1. ObjectAt(e)'
      <3>1. pc'[e] = "copy" /\ from'[e] = o
        BY <1>1, <1>2 DEF Shape
      <3>2. ObjectAt(e)
        BY DEF Objects
      <3> QED
        BY <1>1, <1>3, <1>4, <3>1, <3>2 DEF ObjectAt, Unchanged, Old, Usable, Wanted, Product
    <2>2. ASSUME NEW f \in Entries \ {e} PROVE ObjectAt(f)'
      <3>1. pc'[f] = pc[f] /\ from'[f] = from[f]
        BY <1>1, <1>2 DEF Shape
      <3>2. ObjectAt(f)
        BY DEF Objects
      <3> QED
        BY <1>1, <3>1, <3>2 DEF ObjectAt, Unchanged, Old, Usable, Wanted, Product
    <2> QED
      BY <2>1, <2>2 DEF Objects
  <1>6. Outputs'
    BY <1>1 DEF Shape, Outputs, Usable, Product, Wanted
  <1> QED
    BY <1>5, <1>6

LEMMA SearchMissObjects ==
    ASSUME Sound, IInv, NEW e \in Entries, SearchMiss(e)
    PROVE  Objects' /\ Outputs'
  <1> USE DEF IInv, CacheInv, Steps, Go
  <1>1. /\ pc[e] = "search" /\ pc' = [pc EXCEPT ![e] = "compile"] /\ lock = NoOne
        /\ UNCHANGED <<mode, entry, object, cpp, lock, want, needs, sums, from>>
    BY DEF SearchMiss
  <1>2. Objects'
    BY <1>1, ObjCacheAssumption
    DEF Shape, Locks, Locked, Objects, ObjectAt, Unchanged, Old, Usable, Wanted, Product
  <1>3. Outputs'
    BY <1>1 DEF Shape, Outputs, Usable, Product, Wanted
  <1> QED
    BY <1>2, <1>3

LEMMA CopyObjects ==
    ASSUME Sound, IInv, NEW e \in Entries, Copy(e)
    PROVE  Objects' /\ Outputs'
  <1> USE DEF IInv, CacheInv, Steps, Copy, Go
  <1>1. Objects'
    BY DEF Shape, Locks, Locked, Own, Replacing, Objects, ObjectAt, Unchanged, Old, Usable, Wanted, Product
  <1>2. Outputs'
    BY ObjCacheAssumption DEF Shape, Objects, ObjectAt, Outputs, Usable, Wanted, Product, Sound
  <1> QED
    BY <1>1, <1>2

LEMMA CompileDeletesObjects ==
    ASSUME Sound, IInv, NEW e \in Entries, CompileDeletes(e)
    PROVE  Objects' /\ Outputs'
  <1> USE DEF IInv, CacheInv, Steps, CompileDeletes, Go
  <1>1. Objects'
    BY DEF Shape, Locks, Locked, Own, Replacing, Objects, ObjectAt, Unchanged, Old, Usable, Wanted, Product
  <1>2. Outputs'
    BY ObjCacheAssumption DEF Shape, Objects, ObjectAt, Outputs, Usable, Wanted, Product, Sound
  <1> QED
    BY <1>1, <1>2

LEMMA CompiledObjects ==
    ASSUME Sound, IInv, NEW e \in Entries, Compiled(e)
    PROVE  Objects' /\ Outputs'
  <1> USE DEF IInv, CacheInv, Steps, Compiled, Go
  <1>1. Objects'
    BY DEF Shape, Locks, Locked, Own, Replacing, Objects, ObjectAt, Unchanged, Old, Usable, Wanted, Product
  <1>2. Outputs'
    BY ObjCacheAssumption DEF Shape, Objects, ObjectAt, Outputs, Usable, Wanted, Product, Sound
  <1> QED
    BY <1>1, <1>2

LEMMA CompileFailsObjects ==
    ASSUME Sound, IInv, NEW e \in Entries, CompileFails(e)
    PROVE  Objects' /\ Outputs'
  <1> USE DEF IInv, CacheInv, Steps, CompileFails, Go, disk, Ends, Nothing, Empty
  <1>1. Objects'
    BY DEF Shape, Locks, Locked, Own, Replacing, Objects, ObjectAt, Unchanged, Old, Usable, Wanted, Product
  <1>2. Outputs'
    BY ObjCacheAssumption DEF Shape, Objects, ObjectAt, Outputs, Usable, Wanted, Product, Sound
  <1> QED
    BY <1>1, <1>2

LEMMA FinishObjects ==
    ASSUME Sound, IInv, NEW e \in Entries, Finish(e)
    PROVE  Objects' /\ Outputs'
  <1> USE DEF IInv, CacheInv, Steps, Finish, Go, disk
  <1>1. Objects'
    BY DEF Shape, Locks, Locked, Own, Replacing, Objects, ObjectAt, Unchanged, Old, Usable, Wanted, Product
  <1>2. Outputs'
    BY ObjCacheAssumption DEF Shape, Objects, ObjectAt, Outputs, Usable, Wanted, Product, Sound
  <1> QED
    BY <1>1, <1>2

LEMMA UpdateObjects ==
    ASSUME Sound, IInv, NEW e \in Entries, Update(e)
    PROVE  Objects' /\ Outputs'
  <1> USE DEF IInv, CacheInv, Steps, Update, Go
  <1>1. Objects'
    BY DEF Shape, Locks, Locked, Own, Replacing, Objects, ObjectAt, Unchanged, Old, Usable, Wanted, Product
  <1>2. Outputs'
    BY ObjCacheAssumption DEF Shape, Objects, ObjectAt, Outputs, Usable, Wanted, Product, Sound
  <1> QED
    BY <1>1, <1>2

LEMMA WriteObjects ==
    ASSUME Sound, IInv, NEW e \in Entries, Write(e)
    PROVE  Objects' /\ Outputs'
  <1> USE DEF IInv, CacheInv, Steps, Write, Go, Ends, Nothing, Empty
  <1>1. Objects'
    BY DEF Shape, Locks, Locked, Own, Replacing, Objects, ObjectAt, Unchanged, Old, Usable, Wanted, Product
  <1>2. Outputs'
    <2>1. want[e].text # Bad
      BY ObjCacheAssumption DEF Typed, Shape
    <2> QED
      BY <2>1 DEF Shape, Objects, ObjectAt, Outputs, Usable, Wanted, Product, Sound
  <1> QED
    BY <1>1, <1>2

(* A process that is killed with the lock has written its entry file.      *)
LEMMA CrashObjects ==
    ASSUME Sound, IInv, Crash
    PROVE  Objects' /\ Outputs'
  <1> USE DEF IInv, CacheInv, Steps, Crash, Nothing, Empty
  <1>1. \A e \in Entries : pc[e] \in {"idle", "look", "full", "preprocess", "write"}
    BY DEF Sound
  <1>2. /\ UNCHANGED <<mode, entry, object, cpp>>
        /\ \A e \in Entries : pc'[e] = "idle"
    OBVIOUS
  <1>3. Objects'
    <2> SUFFICES ASSUME NEW e \in Entries
                 PROVE  ObjectAt(e)'
      BY DEF Objects
    <2>1. Old(e)
      BY <1>1 DEF Objects, ObjectAt, Unchanged
    <2> QED
      BY <1>2, <2>1 DEF ObjectAt, Unchanged, Old, Usable
  <1>4. Outputs'
    <2>1. \A e \in Entries : pc[e] = "write" => want[e].text # Bad
      BY ObjCacheAssumption DEF Typed, Shape
    <2> QED
      BY <1>1, <1>2, <2>1 DEF Shape, Outputs, Objects, ObjectAt, Usable, Product, Wanted
  <1> QED
    BY <1>3, <1>4

LEMMA NextIInv == Sound /\ IInv /\ [Next]_vars => IInv'
  <1> SUFFICES ASSUME Sound, IInv, [Next]_vars PROVE IInv'
    OBVIOUS
  <1>1. CacheInv'
    BY NextCacheInv DEF Sound, IInv
  <1>2. CASE Crash
    BY <1>1, <1>2, CrashObjects DEF IInv
  <1>3. ASSUME NEW e \in Entries,
               \/ Begin(e) \/ Look(e) \/ PreProcess(e) \/ PreProcessFails(e)
               \/ SearchHit(e) \/ SearchMiss(e) \/ Copy(e)
               \/ CompileDeletes(e) \/ Compiled(e) \/ CompileFails(e)
               \/ Finish(e) \/ Update(e) \/ Write(e)
        PROVE  Objects' /\ Outputs'
    BY <1>3, BeginObjects, LookObjects, PreProcessObjects, PreProcessFailsObjects,
       SearchHitObjects, SearchMissObjects, CopyObjects, CompileDeletesObjects,
       CompiledObjects, CompileFailsObjects, FinishObjects, UpdateObjects, WriteObjects
  <1>4. CASE UNCHANGED vars
    BY <1>1, <1>4
    DEF vars, disk, process, IInv, Objects, ObjectAt, Unchanged, Old, Usable, Wanted, Product, Outputs
  <1> QED
    BY <1>1, <1>2, <1>3, <1>4 DEF Next, IInv
-----------------------------------------------------------------------------
(* With any number of processes, arguments, outputs, runs and killed       *)
(* builds every variable has its type, and a process is where it uses the  *)
(* cache file exactly as long as it has the lock, if Bad is not the        *)
(* content of a file.                                                      *)
THEOREM TypeCorrect == ASSUME NotAFile PROVE Spec => []TypeOK
  <1>1. Init => CacheInv
    BY InitCacheInv
  <1>2. CacheInv /\ [Next]_vars => CacheInv'
    BY NextCacheInv
  <1>3. CacheInv => TypeOK
    BY DEF CacheInv, Shape, Locks, Generations, Typed, Keys, Keyed, TypeOK
  <1> QED
    BY <1>1, <1>2, <1>3, PTL DEF Spec

(* No key in the cache file is 0, and no two digests have the same key or  *)
(* are of the same entry file, however often uNextKey has wrapped around.  *)
THEOREM KeysDiffer == ASSUME NotAFile PROVE Spec => []KeysUnique
  <1>1. Init => CacheInv
    BY InitCacheInv
  <1>2. CacheInv /\ [Next]_vars => CacheInv'
    BY NextCacheInv
  <1>3. CacheInv => KeysUnique
    <2> SUFFICES ASSUME Keys, cache # Bad, NEW i \in DOMAIN cache.digests
                 PROVE  /\ cache.digests[i].key # 0
                        /\ \A j \in DOMAIN cache.digests : i # j =>
                              /\ cache.digests[i].key # cache.digests[j].key
                              /\ cache.digests[i].entry # cache.digests[j].entry
      BY DEF CacheInv, KeysUnique
    <2>1. cache.digests[i] \in Digest
      BY DEF Keys, Keyed, Range
    <2>2. cache.digests[i].key \in 1 .. KeyMod - 1
      BY <2>1 DEF Digest
    <2> QED
      BY <2>2, ObjCacheAssumption DEF Keys, Keyed
  <1> QED
    BY <1>1, <1>2, <1>3, PTL DEF Spec

(* A valid digest leaves the cache file only by the process of its own     *)
(* entry: whoever writes the file keeps those of all others, as do builds  *)
(* that are killed, and no update of another process is lost.              *)
THEOREM NothingLost == ASSUME NotAFile PROVE Spec => DigestsKept
  <1> DEFINE Lossless == cache # Bad /\ cache' # Bad =>
                 \A d \in Range(cache.digests) \ Range(cache'.digests) :
                     \/ ~Valid(d) \/ lock = d.entry
                     \/ pc[d.entry] = "search" /\ pc'[d.entry] = "compile"
  <1>1. Init => CacheInv
    BY InitCacheInv
  <1>2. CacheInv /\ [Next]_vars => CacheInv'
    BY NextCacheInv
  <1>3. CacheInv /\ [Next]_vars => [Lossless]_vars
    <2> SUFFICES ASSUME CacheInv, Next, cache # Bad, cache' # Bad
                 PROVE  Lossless
      OBVIOUS
    <2>1. CASE cache' = cache
      BY <2>1 DEF CacheInv, Keys
    <2>2. ASSUME NEW e \in Entries, SearchMiss(e), cache' # cache PROVE Lossless
      <3> DEFINE ds == Without(Read(memory[e]).digests, e)
      <3>1. /\ cache' = Written(With(Read(memory[e]), Searched(ds, e, 0)))
            /\ Found(ds, e) = {} /\ pc[e] = "search" /\ pc'[e] = "compile"
        BY <2>2 DEF SearchMiss, Go, CacheInv, Shape
      <3>2. Read(memory[e]).digests = cache.digests
        BY <3>1, ReadIsFresh DEF CacheInv, Locked
      <3>3. \A d \in Range(cache.digests) :
                d.entry # e /\ Valid(d) => d \in Range(Searched(ds, e, 0))
        BY <3>1, <3>2, SearchedKeeps
      <3>4. cache'.digests = Searched(ds, e, 0)
        BY <3>1 DEF Written, With
      <3> QED
        BY <3>1, <3>3, <3>4
    <2>3. ASSUME NEW e \in Entries, cache' = Written(memory[e]), pc[e] \in Locked
          PROVE  Lossless
      <3>1. cache'.digests = memory[e].digests /\ lock = e
        BY <2>3 DEF Written, CacheInv, Locks
      <3> QED
        BY <2>3, <3>1 DEF CacheInv, Kept
    <2>4. CASE Crash
      <3>1. CASE cache' \in {cache, Bad}
        BY <2>1, <3>1
      <3>2. CASE \E e \in Entries : pc[e] = "write" /\ cache' = Written(memory[lock])
        <4>1. PICK e \in Entries : pc[e] = "write" /\ cache' = Written(memory[lock])
          BY <3>2
        <4>2. pc[e] \in Locked /\ lock = e
          BY <4>1 DEF CacheInv, Locks, Locked
        <4> QED
          BY <2>3, <4>1, <4>2
      <3> QED
        BY <2>4, <3>1, <3>2 DEF Crash
    <2>5. CASE \E e \in Entries : Write(e)
      BY <2>3, <2>5 DEF Write, Locked
    <2>6. CASE \E e \in Entries :
                  \/ Begin(e) \/ Look(e) \/ PreProcess(e) \/ PreProcessFails(e)
                  \/ SearchHit(e) \/ Copy(e) \/ CompileDeletes(e) \/ Compiled(e)
                  \/ CompileFails(e) \/ Finish(e) \/ Update(e)
      BY <2>1, <2>6 DEF Begin, Look, PreProcess, PreProcessFails, SearchHit, Copy,
                        CompileDeletes, Compiled, CompileFails, Finish, Update, disk
    <2> QED
      BY <2>1, <2>2, <2>4, <2>5, <2>6 DEF Next
  <1> QED
    BY <1>1, <1>2, <1>3, PTL DEF Spec, DigestsKept

(* With any number of processes, arguments and outputs, runs and killed    *)
(* builds, a kObjCache that ends well leaves the object that its source    *)
(* compiles to, if the outputs it compares are neither piped nor those of  *)
(* preprocessors that may fail.                                            *)
THEOREM ObjectsRight == ASSUME Sound PROVE Spec => []ObjectRight
  <1>1. Init => IInv
    BY InitIInv
  <1>2. IInv /\ [Next]_vars => IInv'
    BY NextIInv
  <1>3. IInv => ObjectRight
    BY DEF IInv, Objects, ObjectAt, ObjectRight
  <1> QED
    BY <1>1, <1>2, <1>3, PTL DEF Spec

(* The checksums of an entry file nobody works on are those of outputs     *)
(* that produce its object, under the same assumptions.                    *)
THEOREM SumsRight == ASSUME Sound PROVE Spec => []SumsProduceObject
  <1>1. Init => IInv
    BY InitIInv
  <1>2. IInv /\ [Next]_vars => IInv'
    BY NextIInv
  <1>3. IInv => SumsProduceObject
    BY DEF IInv, Objects, ObjectAt, Unchanged, Old, SumsProduceObject
  <1> QED
    BY <1>1, <1>2, <1>3, PTL DEF Spec
=============================================================================
