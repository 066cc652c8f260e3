------------------------------ MODULE ObjCache ------------------------------
(***************************************************************************)
(* The object cache (src/kObjCache/kObjCache.c).  Each object has an entry *)
(* file beside it that says what it was compiled from.  The cache file has *)
(* a digest of every entry, and is shared by all kObjCache processes of a  *)
(* build, which lock it.  A process preprocesses its source; if the object *)
(* does not match the output it copies a matching object that the cache    *)
(* knows of, or compiles.                                                  *)
(*                                                                         *)
(* Preprocessing and compiling are done without the lock.  An entry file,  *)
(* an object and a preprocessor output are written by one process only.    *)
(***************************************************************************)
EXTENDS Integers, Sequences, FiniteSets, Functions

CONSTANTS Entries,      \* entry files; each has its object and its process
          Texts,        \* what a preprocessor may put out
          Meaning,      \* what a text compiles to: more than whitespace and #line
          Args,         \* the arguments of a compiler
          Modes,        \* options: -p or -r ("piped"); no -O2 ("compare"); and
                        \* whether preprocessors may fail or be killed ("fails")
          Bad,          \* a file that is missing, empty or cannot be parsed
          KillAt,       \* where processes may be when the build is killed
          MaxRuns,      \* bound: how often kObjCache is run
          KeyMod        \* stands for 2^32, the range of a key

NoOne   == "no one"
Nothing == [text |-> Bad, args |-> Bad]

ASSUME ObjCacheAssumption ==
    /\ IsFiniteSet(Entries) /\ NoOne \notin Entries
    /\ Bad \notin Texts
    /\ DOMAIN Meaning = Texts
    /\ Modes \subseteq [piped : BOOLEAN, compare : BOOLEAN, fails : BOOLEAN]
    /\ KillAt \subseteq STRING
    /\ MaxRuns \in Nat
    /\ KeyMod \in Nat /\ KeyMod > Cardinality(Entries)

VARIABLES
    mode,           \* the options, the same for each process, and "fails"
    cache,          \* the cache file: generation, digests
    lock,           \* who has locked the cache file
    entry,          \* entry files: uKey, SumHead, SumCompArgv
    object,         \* what each object file was compiled from
    cpp,            \* the preprocessor output on the disk
    pc,             \* each process: where it is
    want,           \* what it is to compile: text and arguments
    needs,          \* fNeedCompiling
    sums,           \* New.SumHead
    memory,         \* uGeneration, uNextKey, paDigests
    from,           \* pUseEntry
    runs            \* how many processes were started

disk    == <<cache, entry, object, cpp>>
process == <<pc, want, needs, sums, memory, from>>
vars    == <<mode, disk, lock, process, runs>>

Empty == [generation |-> 0, nextKey |-> 0, digests |-> <<>>]

Init ==
    /\ mode \in Modes
    /\ cache = Bad /\ lock = NoOne
    /\ entry = [e \in Entries |-> Bad] /\ object = [e \in Entries |-> Bad]
    /\ cpp = [e \in Entries |-> Bad]
    /\ pc = [e \in Entries |-> "idle"]
    /\ want = [e \in Entries |-> Nothing]
    /\ needs = [e \in Entries |-> FALSE] /\ sums = [e \in Entries |-> {}]
    /\ memory = [e \in Entries |-> Empty]
    /\ from = [e \in Entries |-> e]
    /\ runs = 0

Product(text, args) == <<Meaning[text], args>>
Wanted(e)           == Product(want[e].text, want[e].args)
-----------------------------------------------------------------------------
(* The cache file and its digests.                                         *)
After(key) == (key + 1) % KeyMod

(* uNextKey as kObjCacheRead() finds it, digest by digest: one more than   *)
(* the greatest key since it has last wrapped around.                      *)
NextKey(ds) ==
    LET Since == {i \in DOMAIN ds : \A j \in DOMAIN ds : j >= i => After(ds[j].key) # 0}
        Keys  == {ds[i].key : i \in Since}
    IN  IF Keys = {} THEN 0 ELSE After(CHOOSE k \in Keys : \A l \in Keys : l <= k)

(* Mutant: a file that was read before is not read again.                  *)
ReadOnce(m) ==
    IF cache = Bad THEN Empty
    ELSE IF m.generation # 0 THEN m
    ELSE [generation |-> cache.generation, nextKey |-> NextKey(cache.digests),
          digests |-> cache.digests]

(* kObjCacheRead(): a file of the generation that was read or written last *)
(* is not read again; a bad one is as good as none.                        *)
Read(m) ==
    IF cache = Bad THEN Empty
    ELSE IF m.generation # 0 /\ m.generation = cache.generation THEN m
    ELSE [generation |-> cache.generation, nextKey |-> NextKey(cache.digests),
          digests |-> cache.digests]

(* kObjCacheWrite().                                                       *)
Written(m) == [generation |-> m.generation + 1, digests |-> m.digests]

(* paDigests is an array; here it has gaps, as only the order matters.     *)
Without(ds, e)  == Restrict(ds, {i \in DOMAIN ds : ds[i].entry # e})
Appended(ds, d) ==
    LET n == IF ds = <<>> THEN 1 ELSE 1 + CHOOSE i \in DOMAIN ds : \A j \in DOMAIN ds : j <= i
    IN  [i \in DOMAIN ds \cup {n} |-> IF i = n THEN d ELSE ds[i]]

NewDigest(e, key) == [entry |-> e, key |-> key, args |-> want[e].args, sums |-> sums[e]]

(* Mutant: a key that wrapped around is not looked up among the digests.   *)
NewKeyUnchecked(m) == IF m.nextKey = 0 THEN 1 ELSE m.nextKey

(* The next key that is not 0 and not in use.                              *)
NewKey(m) ==
    LET Free  == (1 .. KeyMod - 1) \ {d.key : d \in Range(m.digests)}
        Above == {k \in Free : k >= m.nextKey}
        From  == IF Above # {} THEN Above ELSE Free
    IN  CHOOSE k \in From : \A l \in From : k <= l

With(m, ds) == [generation |-> m.generation, nextKey |-> m.nextKey, digests |-> ds]

(* kObjCacheInsertEntry().                                                 *)
Insert(m, e) ==
    [generation |-> m.generation, nextKey |-> After(NewKey(m)),
     digests |-> Appended(m.digests, NewDigest(e, NewKey(m)))]

(* kOCEntryRead(): the entry file can be parsed and the object exists.     *)
Usable(e) == entry[e] # Bad /\ object[e] # Bad

(* kOCDigestIsValid(): the digest is that of the entry file.               *)
Valid(d) ==
    /\ Usable(d.entry)
    /\ d.key = entry[d.entry].key /\ d.args = entry[d.entry].args
    /\ d.sums \subseteq entry[d.entry].sums

Matches(d, e) == d.args = want[e].args /\ want[e].text \in d.sums
-----------------------------------------------------------------------------
(* main().                                                                 *)
Go(e, a, b) == pc[e] = a /\ pc' = [pc EXCEPT ![e] = b]

(* What a process that ends leaves of its memory.                          *)
Ends(e) ==
    /\ pc' = [pc EXCEPT ![e] = "idle"] /\ want' = [want EXCEPT ![e] = Nothing]
    /\ needs' = [needs EXCEPT ![e] = FALSE] /\ sums' = [sums EXCEPT ![e] = {}]
    /\ memory' = [memory EXCEPT ![e] = Empty]
    /\ from' = [from EXCEPT ![e] = e]

(* The entry file is read, without the lock, and compared with the         *)
(* arguments.  No text is known yet: want.text is what it is going to be.  *)
Begin(e) ==
    /\ Go(e, "idle", "look") /\ runs < MaxRuns
    /\ \E t \in Texts, a \in Args :
         /\ want' = [want EXCEPT ![e] = [text |-> t, args |-> a]]
         /\ needs' = [needs EXCEPT ![e] = ~(Usable(e) /\ entry[e].args = a)]
    /\ runs' = runs + 1
    /\ UNCHANGED <<mode, disk, lock, sums, memory, from>>

(* The cache is locked, read and unlocked: if it is new and the object     *)
(* must be compiled in any case nothing is looked up.                      *)
Look(e) ==
    /\ lock = NoOne
    /\ memory' = [memory EXCEPT ![e] = Read(@)]
    /\ Go(e, "look", IF cache = Bad /\ needs[e] THEN "full" ELSE "preprocess")
    /\ UNCHANGED <<mode, disk, lock, want, needs, sums, from, runs>>

(* Mutant: any output is good if the arguments are the same.               *)
SameIfAny(e, old) == old # Bad

(* kOCEntryCalcRecompile(), with old as what the disk had before.  If that *)
(* was no file nothing was set aside, and unless piped the new output has  *)
(* its name when it is read as the old one: it is compared with itself.    *)
SumKnown(e) == want[e].text \in entry[e].sums
SameOutput(e, old) ==
    /\ mode.compare
    /\ \/ old = Bad /\ ~mode.piped
       \/ old # Bad /\ Meaning[old] = Meaning[want[e].text]

(* kOCEntryPreProcess(), unless piped, sets the output on the disk aside,  *)
(* if there is one, and puts the new one in its place; they are compared   *)
(* if the checksum is a new one.                                           *)
PreProcess(e) ==
    /\ cpp' = IF mode.piped THEN cpp ELSE [cpp EXCEPT ![e] = want[e].text]
    /\ \/ /\ Go(e, "full", "compile")
          /\ sums' = [sums EXCEPT ![e] = {want[e].text}] /\ UNCHANGED needs
       \/ /\ pc[e] = "preprocess"
          /\ LET same == ~needs[e] /\ (SumKnown(e) \/ SameOutput(e, cpp[e])) IN
             /\ needs' = [needs EXCEPT ![e] = ~same]
             /\ sums' = [sums EXCEPT ![e] =
                    {want[e].text} \cup (IF same /\ ~SumKnown(e) THEN entry[e].sums ELSE {})]
             /\ pc' = [pc EXCEPT ![e] = IF same THEN "finish" ELSE "search"]
    /\ UNCHANGED <<mode, cache, entry, object, lock, want, memory, from, runs>>

(* The preprocessor fails, or is killed, and with it the process; unless   *)
(* piped, nothing, or what it has written, is in the place of the old      *)
(* output.  With -p a full compile deletes the old output and the object   *)
(* before.                                                                 *)
PreProcessFails(e) ==
    /\ mode.fails
    /\ \/ /\ pc[e] \in {"full", "preprocess"} /\ UNCHANGED object
          /\ \E left \in Texts \cup {Bad} :
                 cpp' = IF mode.piped THEN cpp ELSE [cpp EXCEPT ![e] = left]
       \/ /\ pc[e] = "full" /\ mode.piped
          /\ cpp' = [cpp EXCEPT ![e] = Bad] /\ object' = [object EXCEPT ![e] = Bad]
    /\ Ends(e)
    /\ UNCHANGED <<mode, cache, entry, lock, runs>>

(* The lock is taken, the entry's own digest removed, and the digests      *)
(* searched from the last to the first; bad ones that match are removed.   *)
Found(ds, e) == {i \in DOMAIN ds : Matches(ds[i], e) /\ Valid(ds[i])}
Searched(ds, e, last) == Restrict(ds, {i \in DOMAIN ds : i <= last \/ ~Matches(ds[i], e)})

SearchHit(e) ==
    /\ Go(e, "search", "copy") /\ lock = NoOne /\ lock' = e
    /\ LET m    == Read(memory[e])
           ds   == Without(m.digests, e)
           hits == Found(ds, e)
       IN  \E last \in hits :
               /\ \A i \in hits : i <= last
               /\ memory' = [memory EXCEPT ![e] = With(m, Searched(ds, e, last))]
               /\ from' = [from EXCEPT ![e] = ds[last].entry]
    /\ UNCHANGED <<mode, disk, want, needs, sums, runs>>

(* Mutant: the digest of the entry stays while the object is replaced.     *)
SearchMissKeepsOwn(e) ==
    /\ Go(e, "search", "compile") /\ lock = NoOne
    /\ Found(Without(Read(memory[e]).digests, e), e) = {}
    /\ memory' = [memory EXCEPT ![e] = Read(@)]
    /\ UNCHANGED <<mode, disk, lock, want, needs, sums, from, runs>>

(* Nothing is found: the cache is unlocked again, and written if digests   *)
(* were removed.                                                           *)
SearchMiss(e) ==
    /\ Go(e, "search", "compile") /\ lock = NoOne
    /\ LET m  == Read(memory[e])
           ds == Without(m.digests, e)
           m1 == With(m, Searched(ds, e, 0))
       IN  /\ Found(ds, e) = {}
           /\ IF m1 = m
              THEN memory' = [memory EXCEPT ![e] = m] /\ UNCHANGED cache
              ELSE /\ cache' = Written(m1)
                   /\ memory' = [memory EXCEPT ![e] =
                          [generation |-> m.generation + 1, nextKey |-> m.nextKey,
                           digests |-> m1.digests]]
    /\ UNCHANGED <<mode, entry, object, cpp, lock, want, needs, sums, from, runs>>

(* kOCEntryCopy(): unlink, then a hard link or a copy.                     *)
Copy(e) ==
    /\ Go(e, "copy", "update")
    /\ object' = [object EXCEPT ![e] = object[from[e]]]
    /\ UNCHANGED <<mode, cache, entry, cpp, lock, want, needs, sums, memory, from, runs>>

(* kOCEntryCompileIt(): the object is deleted first; the preprocessor      *)
(* output is written now if it was piped.                                  *)
CompileDeletes(e) ==
    /\ Go(e, "compile", "compiling")
    /\ object' = [object EXCEPT ![e] = Bad]
    /\ cpp' = IF mode.piped THEN [cpp EXCEPT ![e] = want[e].text] ELSE cpp
    /\ UNCHANGED <<mode, cache, entry, lock, want, needs, sums, memory, from, runs>>

Compiled(e) ==
    /\ Go(e, "compiling", "finish")
    /\ object' = [object EXCEPT ![e] = Wanted(e)]
    /\ UNCHANGED <<mode, cache, entry, cpp, lock, want, needs, sums, memory, from, runs>>

(* A compiler that fails leaves no object, and is the end of the process.  *)
CompileFails(e) ==
    /\ pc[e] = "compiling" /\ Ends(e)
    /\ UNCHANGED <<mode, disk, lock, runs>>

(* Mutant: the cache is updated with the lock of someone else.             *)
FinishUnlocked(e) ==
    /\ Go(e, "finish", "update") /\ lock' = IF lock = NoOne THEN e ELSE lock
    /\ memory' = [memory EXCEPT ![e] = Read(@)]
    /\ UNCHANGED <<mode, disk, want, needs, sums, from, runs>>

(* The cache is locked, and read if someone has written it since.          *)
Finish(e) ==
    /\ Go(e, "finish", "update") /\ lock = NoOne /\ lock' = e
    /\ memory' = [memory EXCEPT ![e] = Read(@)]
    /\ UNCHANGED <<mode, disk, want, needs, sums, from, runs>>

(* The entry gets a new digest, with a new key, and is written.            *)
Update(e) ==
    /\ Go(e, "update", "write")
    /\ LET m == With(memory[e], Without(memory[e].digests, e)) IN
       /\ memory' = [memory EXCEPT ![e] = Insert(m, e)]
       /\ entry' = [entry EXCEPT ![e] =
              [key |-> NewKey(m), args |-> want[e].args, sums |-> sums[e]]]
    /\ UNCHANGED <<mode, cache, object, cpp, lock, want, needs, sums, from, runs>>

(* kObjCacheUnlock() writes a dirty cache, which the new digest made it.   *)
Write(e) ==
    /\ pc[e] = "write" /\ Ends(e)
    /\ cache' = Written(memory[e]) /\ lock' = NoOne
    /\ UNCHANGED <<mode, entry, object, cpp, runs>>

(* The build is killed, and all processes with it; the system removes      *)
(* their locks.  A cache file that was being written is old, new or bad.   *)
(* (Killed preprocessors: PreProcessFails, before this.)                   *)
Crash ==
    /\ KillAt # {} /\ \A e \in Entries : pc[e] \in KillAt
    /\ cache' \in {cache} \cup (IF \E e \in Entries : pc[e] = "write"
                               THEN {Written(memory[lock]), Bad} ELSE {})
    /\ lock' = NoOne
    /\ pc' = [e \in Entries |-> "idle"] /\ want' = [e \in Entries |-> Nothing]
    /\ needs' = [e \in Entries |-> FALSE] /\ sums' = [e \in Entries |-> {}]
    /\ memory' = [e \in Entries |-> Empty] /\ from' = [e \in Entries |-> e]
    /\ UNCHANGED <<mode, entry, object, cpp, runs>>

Next ==
    \/ Crash
    \/ \E e \in Entries :
          \/ Begin(e) \/ Look(e) \/ PreProcess(e) \/ PreProcessFails(e)
          \/ SearchHit(e) \/ SearchMiss(e) \/ Copy(e)
          \/ CompileDeletes(e) \/ Compiled(e) \/ CompileFails(e)
          \/ Finish(e) \/ Update(e) \/ Write(e)

Spec == Init /\ [][Next]_vars
-----------------------------------------------------------------------------
Digest == [entry : Entries, key : 1 .. KeyMod - 1, args : Args, sums : SUBSET Texts]
Locked == {"copy", "update", "write"}

(* Types; and a process is where it reads and writes the cache file        *)
(* exactly as long as it has the lock.                                     *)
TypeOK ==
    /\ mode \in Modes
    /\ cache = Bad \/ (cache.generation \in Nat \ {0} /\ Range(cache.digests) \subseteq Digest)
    /\ \A e \in Entries :
         /\ entry[e] = Bad \/ entry[e] \in [key : 1 .. KeyMod - 1, args : Args, sums : SUBSET Texts]
         /\ cpp[e] \in Texts \cup {Bad} /\ sums[e] \subseteq Texts
         /\ memory[e].nextKey \in 0 .. KeyMod - 1 /\ Range(memory[e].digests) \subseteq Digest
         /\ needs[e] \in BOOLEAN /\ from[e] \in Entries
         /\ pc[e] \in Locked <=> lock = e

(* The checksums in an entry file are those of "the preprocessor output    *)
(* checksums that will produce the cached object", when no process is at   *)
(* work on it.  What kObjCache may take for unchanged, or for a match,     *)
(* rests on it.                                                            *)
SumsProduceObject ==
    \A e \in Entries : pc[e] = "idle" /\ Usable(e) =>
        \A s \in entry[e].sums : object[e] = Product(s, entry[e].args)

(* When kObjCache ends well the object is the one its source compiles to,  *)
(* be it an old one, a copy of another or a new one, although the others   *)
(* preprocess and compile at the same time, without the lock.              *)
ObjectRight == \A e \in Entries : pc[e] = "write" => object[e] = Wanted(e)

(* The keys in the cache file are not 0, and those of two digests differ,  *)
(* when they have wrapped around too; an entry file has one digest.        *)
KeysUnique ==
    cache # Bad => \A i, j \in DOMAIN cache.digests :
        /\ cache.digests[i].key # 0
        /\ i # j => /\ cache.digests[i].key # cache.digests[j].key
                    /\ cache.digests[i].entry # cache.digests[j].entry

(* Nothing that others have written since a process read the cache file is *)
(* lost when it is written again: a valid digest leaves the file only by   *)
(* the process of its own entry, which has the lock, or is going to        *)
(* compile since it has found nothing.                                     *)
DigestsKept ==
    [][cache # Bad /\ cache' # Bad =>
        \A d \in Range(cache.digests) \ Range(cache'.digests) :
            \/ ~Valid(d) \/ lock = d.entry
            \/ pc[d.entry] = "search" /\ pc'[d.entry] = "compile"]_vars
=============================================================================
