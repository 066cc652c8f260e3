---------------------------- MODULE IncdepProofs ----------------------------
(***************************************************************************)
(* Theorems about Incdep, for any number of files, workers and restarts of *)
(* the worker pool, and for both flavours of waiting: types, owners, what  *)
(* is applied; and that Incdep implements IncludeDep: nothing is pending   *)
(* when snap_deps() goes on, every step of the thread pools is a step of   *)
(* the promise, and the totals that are then compared agree.               *)
(***************************************************************************)
EXTENDS Incdep, Lemmas

-----------------------------------------------------------------------------
(* Type correctness.                                                       *)

LEMMA NameListsType ==
    ASSUME TypeOK, NEW ns \in NameLists
    PROVE  /\ ns \in Seq(Files) /\ IsInjective(ns)
           /\ Range(ns) \cap (Queued \cup freed) = {}
  <1> USE IncdepAssumption
  <1>1. PICK n \in 0 .. MaxNames : ns \in [1 .. n -> Unused]
    BY DEF NameLists
  <1>2. Unused \subseteq Files
    BY DEF Unused
  <1>3. ns \in Seq(Unused) /\ ns \in Seq(Files)
    BY <1>1, <1>2, IsASeq
  <1>4. Range(ns) \subseteq Unused
    BY <1>3, RangeOfSeq
  <1> QED  BY <1>3, <1>4 DEF NameLists, Unused

LEMMA EvaluateType ==
    ASSUME TypeOK, NEW f \in Files, NEW b \in BOOLEAN, Evaluate(f, b)
    PROVE  /\ content' \in [Files -> {"unread", "text", "missing"}]
           /\ recorded' \in [Files -> BOOLEAN]
           /\ applied' \in [Files -> Nat]
  BY DEF Evaluate, ReadFile, EvalFile, TypeOK

LEMMA WantedThreadsType == ASSUME TypeOK PROVE WantedThreads \in 0 .. MaxThreads
  <1>1. build.threads \in 1 .. MaxThreads
    BY IncdepAssumption DEF TypeOK
  <1> QED  BY <1>1, IncdepAssumption DEF WantedThreads

(* Which thread holds a file, in terms of where the thread is.             *)
Shape ==
    /\ names # <<>> <=> mpc \in {"direct", "init", "queue", "eval"}
    /\ mpc = "eval" => Len(names) = 1
    /\ batch # <<>> => mpc = "apply"
    /\ \A w \in Threads : wcur[w] # NoFile <=> wpc[w] \in {"parse", "finish"}
    /\ \A w \in Threads : w[1] > inits => wpc[w] = "none"

LEMMA InitType == Init => TypeOK
  <1> SUFFICES ASSUME Init PROVE TypeOK
    OBVIOUS
  <1> USE IncdepAssumption DEF Init
  <1>1. /\ todo \in Seq(Files) /\ done \in Seq(Files) /\ names \in Seq(Files) /\ batch \in Seq(Files)
    BY EmptySeq
  <1>2. /\ countTodo \in Int /\ countDone \in Int /\ numReading \in Int
        /\ doneCount \in [Tids -> Nat] /\ todoCount \in Int /\ flushedCount \in Nat
        /\ count \in Int /\ todoWaiters \in Int
        /\ numThreads \in 0 .. MaxThreads /\ inits \in 0 .. MaxInits
    OBVIOUS
  <1>3. /\ terminate \in BOOLEAN /\ initialized \in BOOLEAN /\ threadsOn \in BOOLEAN
        /\ snapped \in BOOLEAN /\ build \in Builds
        /\ todoEvent \in BOOLEAN /\ doneEvent \in BOOLEAN /\ mop \in Ops
    BY DEF Ops
  <1>4. /\ wcur \in [Threads -> Files \cup {NoFile}]
        /\ content \in [Files -> {"unread", "text", "missing"}]
        /\ recorded \in [Files -> BOOLEAN]
        /\ applied \in [Files -> Nat]
    OBVIOUS
  <1> QED  BY <1>1, <1>2, <1>3, <1>4 DEF TypeOK

LEMMA InitShape == Init => Shape
  BY DEF Init, Shape

LEMMA WorkerType == ASSUME TypeOK, Shape, NEW w \in Threads, Worker(w) PROVE TypeOK'
  <1> USE IncdepAssumption DEF lists, control, counts, sync, mainv, text
  <1>0. TidOf(w) \in Tids
    BY DEF TidOf, Threads, Tids
  <1>1. CASE TakeJob(w)
    <2>1. Head(todo) \in Files /\ Tail(todo) \in Seq(Files)
      BY <1>1, TailElements DEF TypeOK, TakeJob
    <2> QED  BY <1>1, <2>1 DEF TypeOK, TakeJob
  <1>2. CASE WaitTodo(w)
    <2>1. \/ todoEvent' = FALSE /\ todoWaiters' = todoWaiters + 1
          \/ UNCHANGED <<todoEvent, todoWaiters>>
      BY <1>2, Zenon DEF WaitTodo
    <2>2. todoEvent' \in BOOLEAN
      BY <2>1, Zenon DEF TypeOK
    <2>3. todoWaiters' \in Int
      BY <2>1 DEF TypeOK
    <2> QED  BY <1>2, <2>2, <2>3 DEF TypeOK, WaitTodo
  <1>3. CASE WakeTodo(w)
    BY <1>3 DEF TypeOK, WakeTodo
  <1>4. CASE RelockTodo(w)
    BY <1>4 DEF TypeOK, RelockTodo
  <1>5. CASE Parse(w)
    <2>1. wcur[w] \in Files /\ Evaluate(wcur[w], TRUE)
      BY <1>5 DEF TypeOK, Shape, Parse
    <2>2. /\ content' \in [Files -> {"unread", "text", "missing"}]
          /\ recorded' \in [Files -> BOOLEAN]
          /\ applied' \in [Files -> Nat]
      BY <2>1, EvaluateType
    <2> QED  BY <1>5, <2>2 DEF TypeOK, Parse
  <1>6. CASE FinishJob(w)
    <2>1. wcur[w] \in Files
      BY <1>6 DEF TypeOK, Shape, FinishJob
    <2>2. done' \in Seq(Files)
      BY <1>6, <2>1, AppendElements DEF TypeOK, FinishJob
    <2>3. mpc' \in {"idle", "direct", "init", "queue", "flush", "eval", "asleep", "relock",
                    "apply", "term", "account"} /\ doneEvent' \in BOOLEAN
      BY <1>6 DEF TypeOK, FinishJob, SignalDone
    <2> QED  BY <1>0, <1>6, <2>2, <2>3 DEF TypeOK, FinishJob
  <1>7. CASE Quit(w)
    BY <1>7 DEF TypeOK, Quit
  <1> QED  BY <1>1, <1>2, <1>3, <1>4, <1>5, <1>6, <1>7 DEF Worker

LEMMA WorkerShape == ASSUME TypeOK, Shape, NEW w \in Threads, Worker(w) PROVE Shape'
  <1> USE IncdepAssumption DEF lists, control, counts, sync, mainv, text, TypeOK, Shape
  <1>1. CASE TakeJob(w)
    <2>1. Head(todo) \in Files
      BY <1>1, TailElements DEF TakeJob
    <2> QED  BY <1>1, <2>1 DEF TakeJob
  <1>2. CASE WaitTodo(w)
    BY <1>2 DEF WaitTodo
  <1>3. CASE WakeTodo(w)
    BY <1>3 DEF WakeTodo
  <1>4. CASE RelockTodo(w)
    BY <1>4 DEF RelockTodo
  <1>5. CASE Parse(w)
    BY <1>5 DEF Parse
  <1>6. CASE FinishJob(w)
    BY <1>6 DEF FinishJob, SignalDone
  <1>7. CASE Quit(w)
    BY <1>7 DEF Quit
  <1> QED  BY <1>1, <1>2, <1>3, <1>4, <1>5, <1>6, <1>7 DEF Worker

LEMMA MainType == ASSUME TypeOK, Shape, Main PROVE TypeOK'
  <1> USE IncdepAssumption DEF lists, control, counts, sync, mainv, text
  <1>1. ASSUME NEW ns \in NameLists, NEW op \in {"read_it", "queue", "flush"},
               EvalIncludeDep(ns, op)
        PROVE  TypeOK'
    <2>1. ns \in Seq(Files)
      BY NameListsType
    <2> QED  BY <1>1, <2>1 DEF TypeOK, EvalIncludeDep, Ops
  <1>2. CASE ReadDirectly \/ FlushEval
    <2>1. Head(names) \in Files /\ Tail(names) \in Seq(Files) /\ <<>> \in Seq(Files)
      BY <1>2, TailElements, EmptySeq DEF TypeOK, Shape, ReadDirectly, FlushEval
    <2>2. /\ content' \in [Files -> {"unread", "text", "missing"}]
          /\ recorded' \in [Files -> BOOLEAN]
          /\ applied' \in [Files -> Nat]
      BY <1>2, <2>1, EvaluateType DEF ReadDirectly, FlushEval
    <2>3. names' \in Seq(Files) /\ freed' \in SUBSET Files
          /\ mpc' \in {"idle", "direct", "flush"}
      BY <1>2, <2>1 DEF TypeOK, ReadDirectly, FlushEval
    <2>4. UNCHANGED <<lists, control, counts, sync, wpc, wcur, mop, batch, count>>
      BY <1>2 DEF ReadDirectly, FlushEval
    <2> QED  BY <2>2, <2>3, <2>4 DEF TypeOK
  <1>3. CASE InitThreads
    <2>1. wpc' \in [Threads -> {"none", "loop", "wait", "relock", "parse", "finish", "quit"}]
      <3>1. ASSUME NEW w \in Threads
            PROVE  wpc'[w] \in {"none", "loop", "wait", "relock", "parse", "finish", "quit"}
        <4>1. wpc[w] \in {"none", "loop", "wait", "relock", "parse", "finish", "quit"}
          BY DEF TypeOK
        <4>2. wpc'[w] \in {"loop", "relock", wpc[w]}
          BY <1>3 DEF InitThreads
        <4> QED  BY <4>1, <4>2
      <3>2. wpc' = [w \in Threads |-> wpc'[w]]
        BY <1>3 DEF InitThreads
      <3> QED  BY <3>1, <3>2
    <2>2. numThreads' \in 0 .. MaxThreads /\ inits' \in 0 .. MaxInits
      <3>1. numThreads' \in 0 .. MaxThreads
        BY <1>3, WantedThreadsType DEF InitThreads
      <3>2. inits' \in 0 .. MaxInits
        <4>1. inits \in 0 .. MaxInits
          BY DEF TypeOK
        <4>2. inits < MaxInits /\ inits' = inits + 1
          BY <1>3 DEF InitThreads
        <4> QED  BY <4>1, <4>2, IncdepAssumption
      <3> QED  BY <3>1, <3>2
    <2>3. todoEvent' \in BOOLEAN /\ doneEvent' \in BOOLEAN /\ todoWaiters' \in Int
          /\ terminate' \in BOOLEAN /\ initialized' \in BOOLEAN
      <3>1. /\ todoEvent' = FALSE /\ doneEvent' = FALSE /\ todoWaiters' = 0
            /\ terminate' = FALSE /\ initialized' = TRUE
        BY <1>3 DEF InitThreads
      <3>2. todoWaiters' \in Int
        BY <3>1
      <3> QED  BY <3>1, <3>2, Zenon
    <2>4. UNCHANGED <<lists, threadsOn, build, snapped, counts, wcur, mop, names, batch, count, text>>
          /\ mpc' = "queue"
      BY <1>3 DEF InitThreads
    <2> QED  BY <2>1, <2>2, <2>3, <2>4 DEF TypeOK
  <1>4. CASE QueueNames
    <2>1. /\ todo' \in Seq(Files) /\ Len(names) \in Int /\ names' \in Seq(Files)
      BY <1>4, ConcatElements, EmptySeq DEF TypeOK, QueueNames
    <2>2. /\ todoEvent' \in BOOLEAN
          /\ wpc' \in [Threads -> {"none", "loop", "wait", "relock", "parse", "finish", "quit"}]
      BY <1>4 DEF TypeOK, QueueNames, SignalTodo
    <2> QED  BY <1>4, <2>1, <2>2 DEF TypeOK, QueueNames
  <1>5. ASSUME NEW c \in Int, GrabDone(c) PROVE TypeOK'
    <2>1. <<>> \in Seq(Files)
      BY EmptySeq
    <2> QED  BY <1>5, <2>1 DEF TypeOK, GrabDone
  <1>5a. CASE RelockDone /\ done = <<>>
    BY <1>5a DEF TypeOK, RelockDone
  <1>5b. CASE FlushDone \/ (RelockDone /\ done # <<>>)
    <2>1. countDone \in Int /\ count \in Int
      BY DEF TypeOK
    <2> QED  BY <1>5, <1>5b, <2>1 DEF FlushDone, RelockDone
  <1>6. CASE FlushTodo
    <2>1. Head(todo) \in Files /\ Tail(todo) \in Seq(Files) /\ <<Head(todo)>> \in Seq(Files)
      BY <1>6, TailElements DEF TypeOK, FlushTodo
    <2> QED  BY <1>6, <2>1 DEF TypeOK, FlushTodo
  <1>7. CASE FlushReturn \/ FlushWait \/ WakeDone \/ FlushApplied
    <2>1. CASE FlushReturn
      BY <2>1 DEF TypeOK, FlushReturn
    <2>2. CASE FlushWait
      BY <2>2 DEF TypeOK, FlushWait
    <2>3. CASE WakeDone
      BY <2>3 DEF TypeOK, WakeDone
    <2>4. CASE FlushApplied
      BY <2>4 DEF TypeOK, FlushApplied
    <2> QED  BY <1>7, <2>1, <2>2, <2>3, <2>4
  <1>8. CASE FlushApply
    <2>1. Head(batch) \in Files /\ Tail(batch) \in Seq(Files)
      BY <1>8, TailElements DEF TypeOK, FlushApply
    <2>2. count' \in Int
      <3>1. count \in Int
        BY DEF TypeOK
      <3>2. count' = (count - 1) % CountMod
        BY <1>8 DEF FlushApply
      <3> QED  BY <3>1, <3>2, IncdepAssumption
    <2>3. flushedCount' \in Nat
      BY <1>8 DEF TypeOK, FlushApply
    <2>4. /\ recorded' \in [Files -> BOOLEAN] /\ applied' \in [Files -> Nat]
          /\ freed' \in SUBSET Files
      BY <1>8, <2>1 DEF TypeOK, FlushApply
    <2>5. /\ batch' \in Seq(Files)
          /\ UNCHANGED <<lists, control, doneCount, todoCount, sync, wpc, wcur, mpc, mop,
                         names, content>>
      BY <1>8, <2>1 DEF FlushApply
    <2> QED  BY <2>2, <2>3, <2>4, <2>5 DEF TypeOK, lists, control, sync
  <1>9. CASE SnapDeps
    BY <1>9 DEF TypeOK, SnapDeps, Ops
  <1>10. CASE TermSignal
    <2>1. /\ todoEvent' \in BOOLEAN
          /\ wpc' \in [Threads -> {"none", "loop", "wait", "relock", "parse", "finish", "quit"}]
      BY <1>10 DEF TypeOK, TermSignal, SignalTodo
    <2> QED  BY <1>10, <2>1 DEF TypeOK, TermSignal
  <1>11. CASE TermAccount
    <2>1. numThreads' \in 0 .. MaxThreads /\ mop' \in Ops
      BY <1>11 DEF TermAccount, Ops
    <2> QED  BY <1>11, <2>1 DEF TypeOK, TermAccount
  <1> QED  BY <1>1, <1>2, <1>3, <1>4, <1>5a, <1>5b, <1>6, <1>7, <1>8, <1>9, <1>10, <1>11 DEF Main, Flush

LEMMA MainShape == ASSUME TypeOK, Shape, Main PROVE Shape'
  <1> USE IncdepAssumption DEF lists, control, counts, sync, mainv, text
  <1>1. ASSUME NEW ns \in NameLists, NEW op \in {"read_it", "queue", "flush"},
               EvalIncludeDep(ns, op)
        PROVE  Shape'
    BY <1>1 DEF TypeOK, Shape, EvalIncludeDep
  <1>2. CASE ReadDirectly \/ FlushEval
    <2>1. names \in Seq(Files) /\ names # <<>>
      BY <1>2 DEF TypeOK, Shape, ReadDirectly, FlushEval
    <2>2. Tail(names) = <<>> <=> Len(names) = 1
      <3>1. Tail(names) \in Seq(Files) /\ Len(Tail(names)) = Len(names) - 1 /\ Len(names) \in Nat
        BY <2>1, TailElements
      <3>2. Tail(names) = <<>> <=> Len(Tail(names)) = 0
        BY <3>1, EmptySeq
      <3> QED  BY <3>1, <3>2
    <2> QED  BY <1>2, <2>2 DEF Shape, ReadDirectly, FlushEval
  <1>3. CASE InitThreads
    <2> SUFFICES ASSUME NEW w \in Threads
                 PROVE  /\ wpc'[w] \in {"parse", "finish"} <=> wpc[w] \in {"parse", "finish"}
                        /\ w[1] > inits' => wpc'[w] = "none"
      BY <1>3 DEF TypeOK, Shape, InitThreads
    <2>1. w[1] \in Nat /\ inits \in Nat /\ inits' = inits + 1
      BY <1>3 DEF TypeOK, InitThreads, Threads
    <2>2. wpc'[w] = CASE w[1] = inits + 1 /\ TidOf(w) < WantedThreads -> "loop"
                      [] w[1] <= inits /\ wpc[w] = "wait"             -> "relock"
                      [] OTHER                                        -> wpc[w]
      BY <1>3 DEF InitThreads
    <2>3. w[1] > inits => wpc[w] = "none"
      BY DEF Shape
    <2> QED  BY <2>1, <2>2, <2>3
  <1>4. CASE QueueNames
    BY <1>4 DEF TypeOK, Shape, QueueNames, SignalTodo
  <1>5. CASE FlushDone \/ RelockDone
    BY <1>5 DEF TypeOK, Shape, FlushDone, RelockDone, GrabDone
  <1>6. CASE FlushTodo
    BY <1>6 DEF TypeOK, Shape, FlushTodo
  <1>7. CASE FlushReturn \/ FlushWait \/ WakeDone \/ FlushApplied
    BY <1>7 DEF TypeOK, Shape, FlushReturn, FlushWait, WakeDone, FlushApplied
  <1>8. CASE FlushApply
    BY <1>8 DEF TypeOK, Shape, FlushApply
  <1>9. CASE SnapDeps
    BY <1>9 DEF TypeOK, Shape, SnapDeps
  <1>10. CASE TermSignal
    BY <1>10 DEF TypeOK, Shape, TermSignal, SignalTodo
  <1>11. CASE TermAccount
    BY <1>11 DEF TypeOK, Shape, TermAccount
  <1> QED  BY <1>1, <1>2, <1>3, <1>4, <1>5, <1>6, <1>7, <1>8, <1>9, <1>10, <1>11 DEF Main, Flush

LEMMA StutterTyped == ASSUME TypeOK, Shape, UNCHANGED vars PROVE TypeOK' /\ Shape'
  BY DEF TypeOK, Shape, vars, lists, control, counts, sync, mainv, text

LEMMA NextTyped == ASSUME TypeOK, Shape, [Next]_vars PROVE TypeOK' /\ Shape'
  BY WorkerType, WorkerShape, MainType, MainShape, StutterTyped DEF Next

(* Every variable keeps its type: the counters, lists and thread states    *)
(* of incdep.c never take a value their use does not expect.               *)
THEOREM TypeCorrect == Spec => []TypeOK
  <1>1. Init => TypeOK /\ Shape
    BY InitType, InitShape
  <1>2. TypeOK /\ Shape /\ [Next]_vars => (TypeOK /\ Shape)'
    BY NextTyped
  <1> QED  BY <1>1, <1>2, PTL DEF Spec

-----------------------------------------------------------------------------
(* A file structure has one owner.                                         *)

(* What OneOwner says of six lists and sets, whatever they are.  An action *)
(* moves a file from one of them to another; this names the pattern.       *)
Apart(A, B, C, D, E, F) ==
    /\ A \cap B = {} /\ A \cap C = {} /\ A \cap D = {} /\ A \cap E = {} /\ A \cap F = {}
    /\ B \cap C = {} /\ B \cap D = {} /\ B \cap E = {} /\ B \cap F = {}
    /\ C \cap D = {} /\ C \cap E = {} /\ C \cap F = {}
    /\ D \cap E = {} /\ D \cap F = {} /\ E \cap F = {}

PlacesApart == Apart(Range(names), Range(todo), Held, Range(done), Range(batch), freed)

LEMMA PlacesInFiles ==
    ASSUME TypeOK
    PROVE  /\ Range(names) \subseteq Files /\ Range(todo) \subseteq Files
           /\ Range(done) \subseteq Files /\ Range(batch) \subseteq Files
           /\ Held \subseteq Files /\ freed \subseteq Files
  BY RangeOfSeq DEF TypeOK, Held

LEMMA ApartIsDisjoint == ASSUME TypeOK PROVE PlacesDisjoint <=> PlacesApart
  BY PlacesInFiles DEF PlacesDisjoint, PlacesApart, Apart, Queued

LEMMA EmptyList == Range(<<>>) = {} /\ IsInjective(<<>>)
  BY DEF IsInjective, Range

LEMMA SingletonList == ASSUME NEW x PROVE Range(<<x>>) = {x} /\ IsInjective(<<x>>)
  BY DEF IsInjective, Range

(* The files in workers' hands after one of them takes or gives one.       *)
LEMMA HeldAfterTake ==
    ASSUME TypeOK, HeldOnce, NEW w \in Threads, NEW f \in Files, wcur[w] = NoFile, f \notin Held,
           wcur' = [wcur EXCEPT ![w] = f]
    PROVE  Held' = Held \cup {f} /\ HeldOnce'
  <1>1. /\ wcur'[w] = f /\ f # NoFile
        /\ \A v \in Threads \ {w} : wcur'[v] = wcur[v]
    BY IncdepAssumption DEF TypeOK
  <1>2. Held' = Held \cup {f}
    BY <1>1 DEF Held
  <1>3. HeldOnce'
    BY <1>1 DEF Held, HeldOnce
  <1> QED  BY <1>2, <1>3

LEMMA HeldAfterGive ==
    ASSUME TypeOK, HeldOnce, NEW w \in Threads, wcur[w] # NoFile,
           wcur' = [wcur EXCEPT ![w] = NoFile]
    PROVE  Held' = Held \ {wcur[w]} /\ HeldOnce' /\ wcur[w] \in Held
  <1>1. wcur'[w] = NoFile /\ \A v \in Threads \ {w} : wcur'[v] = wcur[v]
    BY DEF TypeOK
  <1>2. wcur[w] \in Held
    BY DEF Held
  <1>3. \A v \in Threads \ {w} : wcur[v] # wcur[w]
    BY DEF HeldOnce
  <1>4. Held' = Held \ {wcur[w]}
    BY <1>1, <1>3 DEF Held
  <1>5. HeldOnce'
    BY <1>1 DEF HeldOnce
  <1> QED  BY <1>2, <1>4, <1>5

Owners == ListsDistinct /\ HeldOnce /\ PlacesApart

LEMMA InitOwners == Init => Owners
  BY EmptyList DEF Init, Owners, ListsDistinct, HeldOnce, PlacesApart, Apart, Held

LEMMA SameOwners ==
    ASSUME Owners, UNCHANGED <<names, todo, done, batch, wcur, freed>>
    PROVE  Owners'
  BY DEF Owners, ListsDistinct, IsInjective, HeldOnce, PlacesApart, Apart, Held, Range

LEMMA WorkerOwners == ASSUME TypeOK, Shape, Owners, NEW w \in Threads, Worker(w) PROVE Owners'
  <1> USE DEF lists, control, counts, sync, mainv, text
  <1>1. CASE TakeJob(w)
    <2>1. /\ todo \in Seq(Files) /\ todo # <<>> /\ todo' = Tail(todo)
          /\ wcur' = [wcur EXCEPT ![w] = Head(todo)] /\ wcur[w] = NoFile
          /\ UNCHANGED <<names, done, batch, freed>>
      BY <1>1 DEF TypeOK, Shape, TakeJob
    <2>2. /\ Head(todo) \in Files /\ Range(todo) = Range(Tail(todo)) \cup {Head(todo)}
          /\ IsInjective(Tail(todo)) /\ Head(todo) \notin Range(Tail(todo))
      BY <2>1, TailElements DEF Owners, ListsDistinct
    <2>3. Head(todo) \notin Held
      BY <2>2 DEF Owners, PlacesApart, Apart
    <2>4. Held' = Held \cup {Head(todo)} /\ HeldOnce'
      BY <2>1, <2>2, <2>3, HeldAfterTake DEF Owners
    <2>5. ListsDistinct'
      BY <2>1, <2>2 DEF Owners, ListsDistinct
    <2>6. PlacesApart'
      BY <2>1, <2>2, <2>4 DEF Owners, PlacesApart, Apart
    <2> QED  BY <2>4, <2>5, <2>6 DEF Owners
  <1>2. CASE FinishJob(w)
    <2>1. /\ done \in Seq(Files) /\ done' = Append(done, wcur[w])
          /\ wcur' = [wcur EXCEPT ![w] = NoFile] /\ wcur[w] \in Files /\ wcur[w] # NoFile
          /\ UNCHANGED <<names, todo, batch, freed>>
      BY <1>2 DEF TypeOK, Shape, FinishJob
    <2>2. Held' = Held \ {wcur[w]} /\ HeldOnce' /\ wcur[w] \in Held
      BY <2>1, HeldAfterGive DEF Owners
    <2>3. wcur[w] \notin Range(done)
      BY <2>2 DEF Owners, PlacesApart, Apart
    <2>4. Range(done') = Range(done) \cup {wcur[w]} /\ IsInjective(done')
      BY <2>1, <2>3, AppendElements DEF Owners, ListsDistinct
    <2>5. ListsDistinct'
      BY <2>1, <2>4 DEF Owners, ListsDistinct
    <2>6. PlacesApart'
      BY <2>1, <2>2, <2>4 DEF Owners, PlacesApart, Apart
    <2> QED  BY <2>2, <2>5, <2>6 DEF Owners
  <1>3. CASE WaitTodo(w) \/ WakeTodo(w) \/ RelockTodo(w) \/ Parse(w) \/ Quit(w)
    BY <1>3, SameOwners DEF WaitTodo, WakeTodo, RelockTodo, Parse, Quit
  <1> QED  BY <1>1, <1>2, <1>3 DEF Worker

LEMMA MainOwners == ASSUME TypeOK, Shape, Owners, Main PROVE Owners'
  <1> USE DEF lists, control, counts, sync, mainv, text
  <1>1. ASSUME NEW ns \in NameLists, NEW op \in {"read_it", "queue", "flush"},
               EvalIncludeDep(ns, op)
        PROVE  Owners'
    <2>1. /\ IsInjective(ns) /\ Range(ns) \cap (Queued \cup freed) = {}
          /\ names' = ns /\ UNCHANGED <<todo, done, batch, wcur, freed>>
      BY <1>1, NameListsType DEF EvalIncludeDep
    <2>2. Held' = Held /\ HeldOnce' /\ ListsDistinct'
      BY <2>1 DEF Owners, ListsDistinct, HeldOnce, Held
    <2>3. PlacesApart'
      BY <2>1, <2>2 DEF Owners, PlacesApart, Apart, Queued
    <2> QED  BY <2>2, <2>3 DEF Owners
  <1>2. CASE ReadDirectly \/ FlushEval
    <2>1. /\ names \in Seq(Files) /\ names # <<>>
          /\ freed' = freed \cup {Head(names)}
          /\ UNCHANGED <<todo, done, batch, wcur>>
      BY <1>2 DEF TypeOK, Shape, ReadDirectly, FlushEval
    <2>2. /\ Range(names) = Range(Tail(names)) \cup {Head(names)}
          /\ IsInjective(Tail(names)) /\ Head(names) \notin Range(Tail(names))
      BY <2>1, TailElements DEF Owners, ListsDistinct
    <2>3. names' \in {Tail(names), <<>>}
      BY <1>2 DEF ReadDirectly, FlushEval
    <2>4. IsInjective(names') /\ Range(names') \subseteq Range(Tail(names))
      BY <2>2, <2>3, EmptyList
    <2>5. Held' = Held /\ HeldOnce' /\ ListsDistinct'
      BY <2>1, <2>4 DEF Owners, ListsDistinct, HeldOnce, Held
    <2>6. PlacesApart'
      BY <2>1, <2>2, <2>4, <2>5 DEF Owners, PlacesApart, Apart
    <2> QED  BY <2>5, <2>6 DEF Owners
  <1>3. CASE QueueNames
    <2>1. /\ todo \in Seq(Files) /\ names \in Seq(Files)
          /\ todo' = todo \o names /\ names' = <<>>
          /\ UNCHANGED <<done, batch, wcur, freed>>
      BY <1>3 DEF TypeOK, QueueNames
    <2>2. Range(todo') = Range(todo) \cup Range(names) /\ IsInjective(todo')
      BY <2>1, ConcatElements DEF Owners, ListsDistinct, PlacesApart, Apart
    <2>3. Held' = Held /\ HeldOnce' /\ ListsDistinct'
      BY <2>1, <2>2, EmptyList DEF Owners, ListsDistinct, HeldOnce, Held
    <2>4. PlacesApart'
      BY <2>1, <2>2, <2>3, EmptyList DEF Owners, PlacesApart, Apart
    <2> QED  BY <2>3, <2>4 DEF Owners
  <1>4. CASE FlushDone \/ (RelockDone /\ done # <<>>)
    <2>1. /\ batch = <<>> /\ batch' = done /\ done' = <<>>
          /\ UNCHANGED <<names, todo, wcur, freed>>
      BY <1>4 DEF Shape, FlushDone, RelockDone, GrabDone
    <2>2. Held' = Held /\ HeldOnce' /\ ListsDistinct'
      BY <2>1, EmptyList DEF Owners, ListsDistinct, HeldOnce, Held
    <2>3. PlacesApart'
      BY <2>1, <2>2, EmptyList DEF Owners, PlacesApart, Apart
    <2> QED  BY <2>2, <2>3 DEF Owners
  <1>5. CASE FlushTodo
    <2>1. /\ todo \in Seq(Files) /\ todo # <<>> /\ names = <<>>
          /\ todo' = Tail(todo) /\ names' = <<Head(todo)>>
          /\ UNCHANGED <<done, batch, wcur, freed>>
      BY <1>5 DEF TypeOK, Shape, FlushTodo
    <2>2. /\ Range(todo) = Range(Tail(todo)) \cup {Head(todo)}
          /\ IsInjective(Tail(todo)) /\ Head(todo) \notin Range(Tail(todo))
      BY <2>1, TailElements DEF Owners, ListsDistinct
    <2>3. Range(names') = {Head(todo)} /\ IsInjective(names')
      BY <2>1, SingletonList
    <2>4. Held' = Held /\ HeldOnce' /\ ListsDistinct'
      BY <2>1, <2>2, <2>3 DEF Owners, ListsDistinct, HeldOnce, Held
    <2>5. PlacesApart'
      BY <2>1, <2>2, <2>3, <2>4 DEF Owners, PlacesApart, Apart
    <2> QED  BY <2>4, <2>5 DEF Owners
  <1>6. CASE FlushApply
    <2>1. /\ batch \in Seq(Files) /\ batch # <<>> /\ batch' = Tail(batch)
          /\ freed' = freed \cup {Head(batch)}
          /\ UNCHANGED <<names, todo, done, wcur>>
      BY <1>6 DEF TypeOK, FlushApply
    <2>2. /\ Range(batch) = Range(Tail(batch)) \cup {Head(batch)}
          /\ IsInjective(Tail(batch)) /\ Head(batch) \notin Range(Tail(batch))
      BY <2>1, TailElements DEF Owners, ListsDistinct
    <2>3. Held' = Held /\ HeldOnce' /\ ListsDistinct'
      BY <2>1, <2>2 DEF Owners, ListsDistinct, HeldOnce, Held
    <2>4. PlacesApart'
      BY <2>1, <2>2, <2>3 DEF Owners, PlacesApart, Apart
    <2> QED  BY <2>3, <2>4 DEF Owners
  <1>7. CASE \/ InitThreads \/ FlushReturn \/ FlushWait \/ WakeDone \/ FlushApplied
             \/ SnapDeps \/ TermSignal \/ TermAccount
    BY <1>7, SameOwners DEF InitThreads, FlushReturn, FlushWait, WakeDone, FlushApplied,
                            SnapDeps, TermSignal, TermAccount
  <1>8. CASE RelockDone /\ done = <<>>
    BY <1>8, SameOwners DEF RelockDone
  <1> QED  BY <1>1, <1>2, <1>3, <1>4, <1>5, <1>6, <1>7, <1>8 DEF Main, Flush

-----------------------------------------------------------------------------
(* What was read is applied once.                                          *)

(* AppliedExactlyOnce is not inductive: a step that frees a structure has  *)
(* to know that what was recorded so far is what was read.                 *)
FileData(f) ==
    IF f \in freed
    THEN recorded[f] = FALSE /\ applied[f] = (IF content[f] = "text" THEN 1 ELSE 0)
    ELSE applied[f] = 0 /\ (recorded[f] <=> content[f] = "text")

Data == \A f \in Files : FileData(f)

LEMMA InitData == Init => Data
  BY DEF Init, Data, FileData

LEMMA SameData ==
    ASSUME Data, UNCHANGED <<content, recorded, applied, freed>> PROVE Data'
  BY DEF Data, FileData

(* Reading in a worker leaves the text recorded, reading in the main       *)
(* thread applies it; nothing changes for the other files.                 *)
LEMMA EvaluateOthers ==
    ASSUME TypeOK, NEW f \in Files, NEW b \in BOOLEAN, Evaluate(f, b), NEW g \in Files, g # f
    PROVE  content'[g] = content[g] /\ recorded'[g] = recorded[g] /\ applied'[g] = applied[g]
  BY DEF Evaluate, ReadFile, EvalFile, TypeOK

LEMMA EvaluateInWorker ==
    ASSUME TypeOK, NEW f \in Files, Evaluate(f, TRUE)
    PROVE  (recorded'[f] <=> content'[f] = "text") /\ applied'[f] = applied[f]
  <1>1. PICK c \in {"text", "missing"} :
             /\ content' = [content EXCEPT ![f] = c]
             /\ recorded' = [recorded EXCEPT ![f] = TRUE /\ c = "text"]
             /\ applied' = [applied EXCEPT ![f] = IF ~TRUE /\ c = "text" THEN @ + 1 ELSE @]
    BY DEF Evaluate, ReadFile, EvalFile
  <1>2. content'[f] = c /\ applied'[f] = applied[f]
    BY <1>1 DEF TypeOK
  <1>3. recorded'[f] = (TRUE /\ c = "text")
    BY <1>1, Zenon DEF TypeOK
  <1> QED  BY <1>2, <1>3, Zenon

LEMMA EvaluateInMain ==
    ASSUME TypeOK, NEW f \in Files, Evaluate(f, FALSE)
    PROVE  /\ recorded'[f] = FALSE
           /\ applied'[f] = applied[f] + (IF content'[f] = "text" THEN 1 ELSE 0)
  <1>1. PICK c \in {"text", "missing"} :
             /\ content' = [content EXCEPT ![f] = c]
             /\ recorded' = [recorded EXCEPT ![f] = FALSE /\ c = "text"]
             /\ applied' = [applied EXCEPT ![f] = IF ~FALSE /\ c = "text" THEN @ + 1 ELSE @]
    BY DEF Evaluate, ReadFile, EvalFile
  <1>2. content'[f] = c /\ applied[f] \in Nat
    BY <1>1 DEF TypeOK
  <1>3. applied'[f] = IF c = "text" THEN applied[f] + 1 ELSE applied[f]
    BY <1>1 DEF TypeOK
  <1>4. recorded'[f] = (FALSE /\ c = "text")
    BY <1>1, Zenon DEF TypeOK
  <1>5. recorded'[f] = FALSE
    BY <1>4, Zenon
  <1> QED  BY <1>2, <1>3, <1>5

LEMMA WorkerData == ASSUME TypeOK, Shape, Owners, Data, NEW w \in Threads, Worker(w) PROVE Data'
  <1>1. CASE Parse(w)
    <2>1. PICK f \in Files : f = wcur[w]
      BY <1>1 DEF TypeOK, Shape, Parse
    <2>2. f \in Held /\ Evaluate(f, TRUE) /\ freed' = freed
      BY <1>1, <2>1 DEF TypeOK, Shape, Parse, Held
    <2>3. f \notin freed
      BY <2>2 DEF Owners, PlacesApart, Apart
    <2>4. FileData(f)'
      BY <2>2, <2>3, EvaluateInWorker DEF Data, FileData
    <2>5. ASSUME NEW g \in Files, g # f PROVE FileData(g)'
      BY <2>2, <2>5, EvaluateOthers DEF Data, FileData
    <2> QED  BY <2>4, <2>5 DEF Data
  <1>2. CASE \/ TakeJob(w) \/ WaitTodo(w) \/ WakeTodo(w) \/ RelockTodo(w)
             \/ FinishJob(w) \/ Quit(w)
    BY <1>2, SameData DEF TakeJob, WaitTodo, WakeTodo, RelockTodo, FinishJob, Quit, text
  <1> QED  BY <1>1, <1>2 DEF Worker

LEMMA MainData == ASSUME TypeOK, Shape, Owners, Data, Main PROVE Data'
  <1>1. CASE ReadDirectly \/ FlushEval
    <2>1. names \in Seq(Files) /\ names # <<>>
      BY <1>1 DEF TypeOK, Shape, ReadDirectly, FlushEval
    <2>2. PICK f \in Files : f = Head(names) /\ f \in Range(names)
      BY <2>1, TailElements
    <2>3. freed' = freed \cup {f} /\ Evaluate(f, FALSE)
      BY <1>1, <2>2 DEF ReadDirectly, FlushEval
    <2>4. f \notin freed
      BY <2>2 DEF Owners, PlacesApart, Apart
    <2>5. applied[f] = 0
      BY <2>4 DEF Data, FileData
    <2>6. /\ recorded'[f] = FALSE
          /\ applied'[f] = applied[f] + (IF content'[f] = "text" THEN 1 ELSE 0)
      BY <2>3, EvaluateInMain
    <2>6a. applied'[f] = (IF content'[f] = "text" THEN 1 ELSE 0)
      BY <2>5, <2>6
    <2>6b. FileData(f)'
      BY <2>3, <2>6, <2>6a DEF FileData
    <2>7. ASSUME NEW g \in Files, g # f PROVE FileData(g)'
      BY <2>3, <2>7, EvaluateOthers DEF Data, FileData
    <2> QED  BY <2>6b, <2>7 DEF Data
  <1>2. CASE FlushApply
    <2>1. batch \in Seq(Files) /\ batch # <<>>
      BY <1>2 DEF TypeOK, FlushApply
    <2>2. PICK f \in Files : f = Head(batch) /\ f \in Range(batch)
      BY <2>1, TailElements
    <2>3. /\ freed' = freed \cup {f}
          /\ recorded' = [recorded EXCEPT ![f] = FALSE]
          /\ applied' = [applied EXCEPT ![f] = IF recorded[f] THEN @ + 1 ELSE @]
          /\ content' = content
      BY <1>2, <2>2 DEF FlushApply
    <2>4. f \notin freed
      BY <2>2 DEF Owners, PlacesApart, Apart
    <2>5. applied[f] = 0 /\ (recorded[f] <=> content[f] = "text")
      BY <2>4 DEF Data, FileData
    <2>6. applied'[f] = IF content[f] = "text" THEN 1 ELSE 0
      BY <2>3, <2>5 DEF TypeOK
    <2>7. recorded'[f] = FALSE
      BY <2>3, Zenon DEF TypeOK
    <2>8. FileData(f)'
      BY <2>3, <2>6, <2>7 DEF FileData
    <2>9. ASSUME NEW g \in Files, g # f PROVE FileData(g)'
      <3>1. recorded'[g] = recorded[g] /\ applied'[g] = applied[g] /\ content'[g] = content[g]
        BY <2>3, <2>9 DEF TypeOK
      <3> QED  BY <2>3, <2>9, <3>1 DEF Data, FileData
    <2> QED  BY <2>8, <2>9 DEF Data
  <1>3. ASSUME NEW ns \in NameLists, NEW op \in {"read_it", "queue", "flush"},
               EvalIncludeDep(ns, op)
        PROVE  Data'
    BY <1>3, SameData DEF EvalIncludeDep, text
  <1>4. CASE \/ InitThreads \/ QueueNames \/ FlushDone \/ FlushTodo \/ FlushReturn \/ FlushWait
             \/ WakeDone \/ RelockDone \/ FlushApplied \/ SnapDeps \/ TermSignal \/ TermAccount
    BY <1>4, SameData
    DEF InitThreads, QueueNames, FlushDone, FlushTodo, FlushReturn, FlushWait, WakeDone,
        RelockDone, GrabDone, FlushApplied, SnapDeps, TermSignal, TermAccount, text
  <1> QED  BY <1>1, <1>2, <1>3, <1>4 DEF Main, Flush

-----------------------------------------------------------------------------
(* The inductive invariant and what follows from it.                       *)

IInv == TypeOK /\ Shape /\ Owners /\ Data

LEMMA InitIInv == Init => IInv
  BY InitType, InitShape, InitOwners, InitData DEF IInv

LEMMA NextIInv == IInv /\ [Next]_vars => IInv'
  <1> SUFFICES ASSUME IInv, [Next]_vars PROVE IInv'
    OBVIOUS
  <1>1. TypeOK' /\ Shape'
    BY NextTyped DEF IInv
  <1>2. CASE Main
    BY <1>1, <1>2, MainOwners, MainData DEF IInv
  <1>3. ASSUME NEW w \in Threads, Worker(w) PROVE IInv'
    BY <1>1, <1>3, WorkerOwners, WorkerData DEF IInv
  <1>4. CASE UNCHANGED vars
    BY <1>1, <1>4, SameOwners, SameData DEF IInv, vars, lists, mainv, text
  <1> QED  BY <1>2, <1>3, <1>4 DEF Next

LEMMA IInvHolds == Spec => []IInv
  BY InitIInv, NextIInv, PTL DEF Spec

(* A struct incdep is on one list, or in one thread's hands, or freed, and *)
(* never in two of these places, for any number of files and workers.      *)
THEOREM OwnedOnce == Spec => []OneOwner
  <1>1. IInv => OneOwner
    BY ApartIsDisjoint DEF IInv, Owners, OneOwner
  <1> QED  BY <1>1, IInvHolds, PTL

(* The text of every dependency file reaches the databases exactly once,   *)
(* whichever thread read it.                                               *)
THEOREM AppliedOnce == Spec => []AppliedExactlyOnce
  <1>1. IInv => AppliedExactlyOnce
    BY DEF IInv, Data, FileData, AppliedExactlyOnce
  <1> QED  BY <1>1, IInvHolds, PTL
-----------------------------------------------------------------------------
(* incdep_num_reading counts the workers that hold a file, so that a flush *)
(* that finds it 0 knows that no file is in a worker's hands.              *)

Readers == {w \in Threads : wcur[w] # NoFile}

Counted == numReading = Cardinality(Readers)

LEMMA ReadersFinite == IsFiniteSet(Readers) /\ Cardinality(Readers) \in Nat
  <1>1. IsFiniteSet(Threads)
    <2>1. MaxInits \in Int /\ MaxThreads - 1 \in Int
      BY IncdepAssumption
    <2>2. IsFiniteSet(1 .. MaxInits) /\ IsFiniteSet(Tids)
      BY <2>1, FS_Interval DEF Tids
    <2> QED  BY <2>2, FS_Product DEF Threads
  <1>2. Readers \subseteq Threads
    BY DEF Readers
  <1> QED  BY <1>1, <1>2, FS_Subset, FS_CardinalityType

LEMMA NoReader == ASSUME Counted, numReading = 0 PROVE Held = {}
  <1>1. Readers = {}
    BY ReadersFinite, FS_EmptySet DEF Counted
  <1> QED  BY <1>1 DEF Readers, Held

LEMMA SameCounted == ASSUME Counted, UNCHANGED <<wcur, numReading>> PROVE Counted'
  BY DEF Counted, Readers

LEMMA NextCounted == ASSUME IInv, Counted, [Next]_vars PROVE Counted'
  <1> USE DEF lists, mainv
  <1>1. ASSUME NEW w \in Threads, TakeJob(w) PROVE Counted'
    <2>1. /\ wcur[w] = NoFile /\ wcur' = [wcur EXCEPT ![w] = Head(todo)] /\ Head(todo) \in Files
          /\ numReading' = numReading + 1
      BY <1>1, TailElements DEF IInv, TypeOK, Shape, TakeJob
    <2>2. Readers' = Readers \cup {w} /\ w \notin Readers
      BY <2>1, IncdepAssumption DEF Readers, IInv, TypeOK
    <2>3. Cardinality(Readers \cup {w}) = Cardinality(Readers) + 1
      BY <2>2, ReadersFinite, FS_AddElement
    <2> QED  BY <2>1, <2>2, <2>3 DEF Counted
  <1>2. ASSUME NEW w \in Threads, FinishJob(w) PROVE Counted'
    <2>1. /\ wcur[w] # NoFile /\ wcur' = [wcur EXCEPT ![w] = NoFile]
          /\ numReading' = numReading - 1
      BY <1>2 DEF IInv, TypeOK, Shape, FinishJob
    <2>2. Readers' = Readers \ {w} /\ w \in Readers
      BY <2>1 DEF Readers, IInv, TypeOK
    <2>3. Cardinality(Readers \ {w}) = Cardinality(Readers) - 1
      BY <2>2, ReadersFinite, FS_RemoveElement
    <2> QED  BY <2>1, <2>2, <2>3 DEF Counted
  <1>3. ASSUME NEW w \in Threads,
               WaitTodo(w) \/ WakeTodo(w) \/ RelockTodo(w) \/ Parse(w) \/ Quit(w)
        PROVE  Counted'
    BY <1>3, SameCounted DEF WaitTodo, WakeTodo, RelockTodo, Parse, Quit
  <1>4. ASSUME NEW ns \in NameLists, NEW op \in {"read_it", "queue", "flush"},
               EvalIncludeDep(ns, op)
        PROVE  Counted'
    BY <1>4, SameCounted DEF EvalIncludeDep
  <1>5. CASE \/ ReadDirectly \/ InitThreads \/ QueueNames \/ Flush
             \/ SnapDeps \/ TermSignal \/ TermAccount
    BY <1>5, SameCounted
    DEF ReadDirectly, InitThreads, QueueNames, Flush, FlushDone, FlushTodo, FlushEval, FlushReturn,
        FlushWait, WakeDone, RelockDone, GrabDone, FlushApply, FlushApplied, SnapDeps,
        TermSignal, TermAccount
  <1>6. CASE UNCHANGED vars
    BY <1>6, SameCounted DEF vars
  <1> QED  BY <1>1, <1>2, <1>3, <1>4, <1>5, <1>6 DEF Next, Main, Worker

-----------------------------------------------------------------------------
(* Before the first incdep_init() nothing can be queued, and from the end  *)
(* of the last flush to the return of incdep_flush_and_term() nothing is.  *)

Flushing == {"flush", "eval", "asleep", "relock", "apply", "term", "account"}

Phases ==
    /\ mop = "term" => snapped /\ mpc \in Flushing
    /\ mpc \in {"term", "account"} => mop = "term"
    /\ ~snapped => (inits = 0 <=> ~initialized)
    /\ initialized => inits > 0
    /\ inits = 0 => todo = <<>> /\ done = <<>> /\ mpc # "queue"
    /\ mpc \in {"term", "account"} => todo = <<>> /\ done = <<>> /\ Held = {}

LEMMA InitPhases == Init => Phases
  BY DEF Init, Phases

LEMMA SamePhases ==
    ASSUME Phases, UNCHANGED <<snapped, initialized, inits, mop, mpc, todo, done, wcur>>
    PROVE  Phases'
  <1>1. (snapped' <=> snapped) /\ (initialized' <=> initialized)
    BY Zenon
  <1>2. UNCHANGED <<inits, mop, mpc, todo, done, wcur>>
    OBVIOUS
  <1> QED  BY <1>1, <1>2 DEF Phases, Held

LEMMA WorkerPhases ==
    ASSUME IInv, Phases, NEW w \in Threads, Worker(w) PROVE Phases'
  <1> USE DEF lists, control, mainv
  <1>0. w[1] > 0 /\ inits \in Nat
    BY IncdepAssumption DEF Threads, IInv, TypeOK
  <1>1. CASE TakeJob(w)
    <2>1. todo # <<>> /\ wpc[w] = "loop"
      BY <1>1 DEF TakeJob
    <2>2. inits > 0 /\ mpc \notin {"term", "account"}
      BY <2>1, <1>0 DEF Phases
    <2> QED  BY <1>1, <1>0, <2>2 DEF TakeJob, Phases
  <1>2. CASE FinishJob(w)
    <2>1. wcur[w] \in Held
      BY <1>2 DEF FinishJob, IInv, Shape, Held
    <2>2. mpc \notin {"term", "account"} /\ inits > 0
      BY <1>0, <1>2, <2>1 DEF Phases, IInv, Shape, FinishJob
    <2>3. mpc' = mpc \/ (mpc = "asleep" /\ mpc' = "relock")
      BY <1>2 DEF FinishJob, SignalDone
    <2>4. /\ UNCHANGED <<mop, inits, todo>>
          /\ (snapped' <=> snapped) /\ (initialized' <=> initialized)
      BY <1>2, Zenon DEF FinishJob
    <2>5. mop' = "term" => snapped'
      BY <2>4 DEF Phases
    <2>6. mop' = "term" => mpc' \in Flushing
      BY <2>3, <2>4 DEF Phases, Flushing
    <2>7. ~snapped' => (inits' = 0 <=> ~initialized')
      BY <2>4 DEF Phases
    <2>8. initialized' => inits' > 0
      BY <2>4 DEF Phases
    <2>9. mpc' \notin {"term", "account", "queue"} \/ mpc' = mpc
      BY <2>3
    <2> QED  BY <1>0, <2>2, <2>4, <2>5, <2>6, <2>7, <2>8, <2>9 DEF Phases
  <1>3. CASE WaitTodo(w) \/ WakeTodo(w) \/ RelockTodo(w) \/ Parse(w) \/ Quit(w)
    BY <1>3, SamePhases DEF WaitTodo, WakeTodo, RelockTodo, Parse, Quit
  <1> QED  BY <1>1, <1>2, <1>3 DEF Worker

LEMMA MainPhases == ASSUME IInv, Counted, Phases, Main PROVE Phases'
  <1> USE DEF lists, control, mainv
  <1>0. inits \in Nat
    BY DEF IInv, TypeOK
  <1>1. ASSUME NEW ns \in NameLists, NEW op \in {"read_it", "queue", "flush"},
               EvalIncludeDep(ns, op)
        PROVE  Phases'
    <2>1. /\ mop' # "term" /\ mpc' \in {"direct", "queue", "init", "flush"}
          /\ mpc' = "queue" => initialized
          /\ UNCHANGED <<snapped, inits, initialized, todo, done>>
      BY <1>1 DEF EvalIncludeDep
    <2> QED  BY <1>0, <2>1 DEF Phases
  <1>2. CASE ReadDirectly
    BY <1>2 DEF ReadDirectly, Phases, Flushing
  <1>3. CASE InitThreads
    <2>1. mpc = "init" /\ mpc' = "queue" /\ inits' = inits + 1 /\ initialized'
          /\ UNCHANGED <<mop, snapped>>
      BY <1>3 DEF InitThreads
    <2> QED  BY <1>0, <2>1 DEF Phases, Flushing
  <1>4. CASE QueueNames
    <2>1. mpc = "queue" /\ mpc' \in {"flush", "idle"} /\ UNCHANGED <<mop, inits, done>>
          /\ (snapped' <=> snapped) /\ (initialized' <=> initialized)
      BY <1>4, Zenon DEF QueueNames
    <2> QED  BY <1>0, <2>1 DEF Phases, Flushing
  <1>5. CASE FlushDone \/ (RelockDone /\ done # <<>>)
    <2>1. /\ mpc \in Flushing \ {"term", "account"} /\ mpc' = "apply" /\ done' = <<>>
          /\ UNCHANGED <<mop, inits, todo>>
      BY <1>5 DEF FlushDone, RelockDone, GrabDone, Flushing
    <2>2. snapped' = snapped /\ initialized' = initialized
      BY <1>5 DEF FlushDone, RelockDone, GrabDone
    <2>3. (snapped' <=> snapped) /\ (initialized' <=> initialized)
      BY <2>2, Zenon
    <2> QED  BY <2>1, <2>3 DEF Phases, Flushing
  <1>6. CASE RelockDone /\ done = <<>>
    BY <1>6 DEF RelockDone, Phases, Flushing
  <1>7. CASE FlushTodo
    BY <1>0, <1>7 DEF FlushTodo, Phases, Flushing
  <1>8. CASE FlushEval \/ FlushWait \/ WakeDone \/ FlushApply \/ FlushApplied
    <2>1. /\ mpc \in Flushing \ {"term", "account"} /\ mpc' \in Flushing \ {"term", "account"}
          /\ UNCHANGED <<mop, inits, todo, done>>
      BY <1>8 DEF FlushEval, FlushWait, WakeDone, FlushApply, FlushApplied, Flushing
    <2>2. snapped' = snapped /\ initialized' = initialized
      BY <1>8 DEF FlushEval, FlushWait, WakeDone, FlushApply, FlushApplied
    <2>2a. (snapped' <=> snapped) /\ (initialized' <=> initialized)
      BY <2>2, Zenon
    <2> QED  BY <2>1, <2>2a DEF Phases, Flushing
  <1>9. CASE FlushReturn
    <2>1. Held' = {}
      BY <1>9, NoReader DEF FlushReturn, Held
    <2> QED  BY <1>9, <2>1 DEF FlushReturn, Phases, Flushing
  <1>10. CASE SnapDeps
    <2>1. /\ mpc = "idle" /\ snapped' = TRUE /\ UNCHANGED <<inits, initialized, todo, done>>
          /\ \/ mpc' = "flush" /\ mop' = "term"
             \/ mpc' = mpc /\ mop' = mop
      BY <1>10, Zenon DEF SnapDeps
    <2> QED  BY <2>1 DEF Phases, Flushing
  <1>11. CASE TermSignal
    <2>1. /\ mpc = "term" /\ mpc' = "account"
          /\ UNCHANGED <<snapped, mop, inits, initialized, todo, done, wcur>>
      BY <1>11 DEF TermSignal
    <2> QED  BY <2>1 DEF Phases, Flushing, Held
  <1>12. CASE TermAccount
    <2>1. /\ mpc = "account" /\ mpc' = "idle" /\ mop' = "queue" /\ ~initialized'
          /\ UNCHANGED <<snapped, inits, todo, done>>
      BY <1>12 DEF TermAccount
    <2>2. snapped
      BY <2>1 DEF Phases
    <2> QED  BY <2>1, <2>2 DEF Phases
  <1> QED  BY <1>1, <1>2, <1>3, <1>4, <1>5, <1>6, <1>7, <1>8, <1>9, <1>10, <1>11, <1>12
           DEF Main, Flush

PInv == IInv /\ Counted /\ Phases

LEMMA PInvHolds == Spec => []PInv
  <1>1. Init => PInv
    <2>1. ASSUME Init PROVE Counted
      BY <2>1, FS_EmptySet DEF Init, Counted, Readers
    <2> QED  BY <2>1, InitIInv, InitPhases DEF PInv
  <1>2. PInv /\ [Next]_vars => PInv'
    <2> SUFFICES ASSUME PInv, [Next]_vars PROVE PInv'
      OBVIOUS
    <2>1. IInv' /\ Counted'
      BY NextIInv, NextCounted DEF PInv
    <2>2. ASSUME UNCHANGED vars PROVE Phases'
      BY <2>2, SamePhases DEF PInv, vars, lists, control, mainv
    <2>3. Phases'
      BY <2>2, WorkerPhases, MainPhases DEF PInv, Next
    <2> QED  BY <2>1, <2>3 DEF PInv
  <1> QED  BY <1>1, <1>2, PTL DEF Spec

-----------------------------------------------------------------------------
(* When incdep_flush_and_term() goes on from its flush to tear the caches  *)
(* down, no file is pending and no worker is reading or parsing.           *)
THEOREM TermIsClean == Spec => []NothingPendingAtTerm
  <1>1. PInv => NothingPendingAtTerm
    <2> SUFFICES ASSUME PInv, mpc \in {"term", "account"}
                 PROVE  Queued = {} /\ \A w \in Threads : wpc[w] \notin {"parse", "finish"}
      BY DEF NothingPendingAtTerm
    <2>1. names = <<>> /\ batch = <<>> /\ todo = <<>> /\ done = <<>> /\ Held = {}
      BY DEF PInv, IInv, Shape, Phases
    <2>2. \A w \in Threads : wcur[w] = NoFile
      BY <2>1 DEF Held
    <2> QED  BY <2>1, <2>2, EmptyList DEF Queued, PInv, IInv, Shape
  <1> QED  BY <1>1, PInvHolds, PTL

-----------------------------------------------------------------------------
(* What the workers did is applied, taken over or on the done list; what   *)
(* was queued for them is done, being read or still queued.                *)
Sums ==
    /\ Total(doneCount) = flushedCount + Len(batch) + Len(done)
    /\ todoCount = Total(doneCount) + numReading + Len(todo)

LEMMA TidsFinite == IsFiniteSet(Tids)
  <1>1. 0 \in Int /\ MaxThreads - 1 \in Int
    BY IncdepAssumption
  <1> QED  BY <1>1, FS_Interval DEF Tids

LEMMA SumTypes ==
    ASSUME TypeOK
    PROVE  /\ Total(doneCount) \in Nat /\ flushedCount \in Nat
           /\ todoCount \in Int /\ numReading \in Int
           /\ Len(batch) \in Nat /\ Len(done) \in Nat /\ Len(todo) \in Nat /\ Len(names) \in Nat
  <1>1. doneCount \in [Tids -> Nat]
    BY DEF TypeOK
  <1>2. Total(doneCount) \in Nat
    BY <1>1, TidsFinite, TotalType
  <1> QED  BY <1>2, LenProperties DEF TypeOK

LEMMA SameSums ==
    ASSUME Sums, UNCHANGED <<doneCount, flushedCount, todoCount, numReading>>,
           Len(todo') = Len(todo), Len(done') = Len(done), Len(batch') = Len(batch)
    PROVE  Sums'
  BY DEF Sums

LEMMA WorkerSums == ASSUME IInv, Sums, NEW w \in Threads, Worker(w) PROVE Sums'
  <1> USE DEF lists, counts, mainv
  <1>0. TypeOK
    BY DEF IInv
  <1>00. /\ Total(doneCount) \in Nat /\ flushedCount \in Nat
        /\ todoCount \in Int /\ numReading \in Int
        /\ Len(batch) \in Nat /\ Len(done) \in Nat /\ Len(todo) \in Nat /\ Len(names) \in Nat
    BY <1>0, SumTypes
  <1>1. CASE TakeJob(w)
    <2>1. /\ numReading' = numReading + 1
          /\ UNCHANGED <<doneCount, flushedCount, todoCount, done, batch>>
      BY <1>1 DEF TakeJob
    <2>2. Len(todo') = Len(todo) - 1
      BY <1>0, <1>1, TailElements DEF TakeJob, TypeOK
    <2> QED  BY <1>00, <2>1, <2>2 DEF Sums
  <1>2. CASE FinishJob(w)
    <2>1. numReading' = numReading - 1 /\ UNCHANGED <<flushedCount, todoCount, todo, batch>>
      BY <1>2 DEF FinishJob
    <2>2. wcur[w] \in Files
      BY <1>2 DEF FinishJob, IInv, Shape, TypeOK
    <2>3. Len(done') = Len(done) + 1
      BY <1>0, <1>2, <2>2, AppendElements DEF FinishJob, TypeOK
    <2>4. TidOf(w) \in Tids /\ doneCount \in [Tids -> Nat]
      BY <1>0 DEF Threads, TidOf, TypeOK
    <2>5. Total(doneCount') = Total(doneCount) + 1
      BY <1>2, <2>4, TidsFinite, TotalInc DEF FinishJob
    <2> QED  BY <1>00, <2>1, <2>3, <2>5 DEF Sums
  <1>3. CASE WaitTodo(w) \/ WakeTodo(w) \/ RelockTodo(w) \/ Parse(w) \/ Quit(w)
    BY <1>3, SameSums DEF WaitTodo, WakeTodo, RelockTodo, Parse, Quit
  <1> QED  BY <1>1, <1>2, <1>3 DEF Worker

LEMMA MainSums == ASSUME IInv, Sums, Main PROVE Sums'
  <1> USE DEF lists, counts, mainv
  <1>0. TypeOK
    BY DEF IInv
  <1>00. /\ Total(doneCount) \in Nat /\ flushedCount \in Nat
        /\ todoCount \in Int /\ numReading \in Int
        /\ Len(batch) \in Nat /\ Len(done) \in Nat /\ Len(todo) \in Nat /\ Len(names) \in Nat
    BY <1>0, SumTypes
  <1>1. CASE QueueNames
    <2>1. /\ todo' = todo \o names /\ todoCount' = todoCount + Len(names)
          /\ UNCHANGED <<doneCount, flushedCount, numReading, done, batch>>
      BY <1>1 DEF QueueNames
    <2>2. Len(todo') = Len(todo) + Len(names)
      BY <1>0, <2>1, ConcatProperties DEF TypeOK
    <2> QED  BY <1>00, <2>1, <2>2 DEF Sums
  <1>2. CASE FlushDone \/ (RelockDone /\ done # <<>>)
    <2>1. /\ batch = <<>> /\ batch' = done /\ done' = <<>>
          /\ UNCHANGED <<doneCount, flushedCount, todoCount, numReading, todo>>
      BY <1>2 DEF IInv, Shape, FlushDone, RelockDone, GrabDone
    <2>2. Len(batch) = 0 /\ Len(done') = 0 /\ Len(batch') = Len(done)
      BY <1>0, <2>1, EmptySeq
    <2> QED  BY <1>00, <2>1, <2>2 DEF Sums
  <1>3. CASE FlushTodo
    <2>1. /\ todo' = Tail(todo) /\ todoCount' = todoCount - 1 /\ todo # <<>>
          /\ UNCHANGED <<doneCount, flushedCount, numReading, done, batch>>
      BY <1>3 DEF FlushTodo
    <2>2. Len(todo') = Len(todo) - 1
      BY <1>0, <2>1, TailElements DEF TypeOK
    <2> QED  BY <1>00, <2>1, <2>2 DEF Sums
  <1>4. CASE FlushApply
    <2>1. /\ batch' = Tail(batch) /\ flushedCount' = flushedCount + 1 /\ batch # <<>>
          /\ UNCHANGED <<doneCount, todoCount, numReading, todo, done>>
      BY <1>4 DEF FlushApply
    <2>2. Len(batch') = Len(batch) - 1
      BY <1>0, <2>1, TailElements DEF TypeOK
    <2> QED  BY <1>00, <2>1, <2>2 DEF Sums
  <1>5. CASE \/ \E ns \in NameLists, op \in {"read_it", "queue", "flush"} : EvalIncludeDep(ns, op)
             \/ ReadDirectly \/ InitThreads \/ FlushEval \/ FlushReturn \/ FlushWait \/ WakeDone
             \/ (RelockDone /\ done = <<>>) \/ FlushApplied \/ SnapDeps \/ TermSignal \/ TermAccount
    BY <1>5, SameSums
    DEF EvalIncludeDep, ReadDirectly, InitThreads, FlushEval, FlushReturn, FlushWait, WakeDone,
        RelockDone, FlushApplied, SnapDeps, TermSignal, TermAccount
  <1> QED  BY <1>1, <1>2, <1>3, <1>4, <1>5 DEF Main, Flush

(* The sanity checks of incdep_flush_and_term() hold: the workers are done *)
(* with as many files as were flushed, and as were queued and not read by  *)
(* the main thread.                                                        *)
THEOREM AccountsAgree == Spec => []AccountingHolds
  <1>1. Init => Sums
    <2> SUFFICES ASSUME Init PROVE Sums
      OBVIOUS
    <2>1. /\ doneCount = [t \in Tids |-> 0] /\ todoCount = 0 /\ flushedCount = 0 /\ numReading = 0
          /\ Len(todo) = 0 /\ Len(done) = 0 /\ Len(batch) = 0
      BY DEF Init
    <2>2. Total(doneCount) = 0
      <3>1. doneCount \in [Tids -> Nat] /\ \A t \in Tids : doneCount[t] = 0
        BY <2>1
      <3> QED  BY <3>1, TidsFinite, TotalZero
    <2> QED  BY <2>1, <2>2 DEF Sums
  <1>2. PInv /\ Sums /\ [Next]_vars => Sums'
    <2> SUFFICES ASSUME PInv, Sums, [Next]_vars PROVE Sums'
      OBVIOUS
    <2>1. ASSUME UNCHANGED vars PROVE Sums'
      BY <2>1, SameSums DEF vars, lists, counts, mainv
    <2> QED  BY <2>1, WorkerSums, MainSums DEF PInv, Next
  <1>3. PInv /\ Sums => AccountingHolds
    <2> SUFFICES ASSUME PInv, Sums, mpc = "account"
                 PROVE  Total(doneCount) = flushedCount /\ Total(doneCount) = todoCount
      BY DEF AccountingHolds
    <2>1. todo = <<>> /\ done = <<>> /\ Held = {} /\ batch = <<>>
      BY DEF PInv, IInv, Shape, Phases
    <2>2. numReading = 0
      <3>1. Readers = {}
        BY <2>1 DEF Readers, Held
      <3> QED  BY <3>1, FS_EmptySet DEF PInv, Counted
    <2>3. Len(todo) = 0 /\ Len(done) = 0 /\ Len(batch) = 0
      BY <2>1
    <2> QED  BY <2>2, <2>3, SumTypes DEF Sums, PInv, IInv
  <1> QED  BY <1>1, <1>2, <1>3, PInvHolds, PTL DEF Spec

-----------------------------------------------------------------------------
(* Refinement.                                                             *)

(* snapped as IncludeDep sees it.                                          *)
SnappedAbs == snapped /\ ~(mop = "term" /\ mpc \notin {"term", "account"})

Torn == mop = "term" /\ mpc \notin {"term", "account"}

LEMMA SameSnapped ==
    ASSUME snapped' = snapped, Torn' <=> Torn
    PROVE  SnappedAbs' = SnappedAbs
  BY Zenon DEF SnappedAbs, Torn

LEMMA InitRefines == Init => Promise!Init
  <1> SUFFICES ASSUME Init PROVE Promise!Init
    OBVIOUS
  <1>1. names = <<>> /\ todo = <<>> /\ done = <<>> /\ batch = <<>> /\ freed = {}
        /\ Held = {} /\ snapped = FALSE
    BY DEF Init, Held
  <1>2. Queued = {}
    BY <1>1, EmptyList DEF Queued
  <1> QED  BY <1>1, <1>2 DEF Promise!Init

LEMMA Stutter ==
    ASSUME Queued' = Queued, freed' = freed, SnappedAbs' = SnappedAbs
    PROVE  [Promise!Next]_Promise!vars
  BY DEF Promise!vars, SnappedAbs

LEMMA Loads ==
    ASSUME NEW f \in Files, f \in Queued, Queued' = Queued \ {f}, freed' = freed \cup {f},
           SnappedAbs' = SnappedAbs
    PROVE  [Promise!Next]_Promise!vars
  BY DEF Promise!Next, Promise!Load, SnappedAbs

LEMMA Includes ==
    ASSUME NEW S \in SUBSET Files, S \cap (Queued \cup freed) = {}, Queued' = Queued \cup S,
           freed' = freed, SnappedAbs' = SnappedAbs
    PROVE  [Promise!Next]_Promise!vars
  BY DEF Promise!Next, Promise!Include, SnappedAbs

LEMMA Snaps ==
    ASSUME Queued = {}, SnappedAbs = FALSE, SnappedAbs' = TRUE, Queued' = Queued, freed' = freed
    PROVE  [Promise!Next]_Promise!vars
  BY DEF Promise!Next, Promise!Snap, SnappedAbs

(* A worker moves a file it holds; the promise does not see it.            *)
LEMMA WorkerRefines ==
    ASSUME PInv, NEW w \in Threads, Worker(w) PROVE [Promise!Next]_Promise!vars
  <1> USE DEF lists, control, mainv, text
  <1>1. CASE TakeJob(w)
    <2>1. /\ todo \in Seq(Files) /\ todo # <<>> /\ todo' = Tail(todo)
          /\ wcur' = [wcur EXCEPT ![w] = Head(todo)] /\ wcur[w] = NoFile
          /\ UNCHANGED <<names, done, batch, freed, mop, mpc, snapped>>
      BY <1>1 DEF PInv, IInv, TypeOK, Shape, TakeJob
    <2>2. Head(todo) \in Files /\ Range(todo) = Range(Tail(todo)) \cup {Head(todo)}
      BY <2>1, TailElements
    <2>3. Held' = Held \cup {Head(todo)}
      BY <2>1, <2>2, HeldAfterTake DEF PInv, IInv, Owners, PlacesApart, Apart
    <2>4. Queued' = Queued
      BY <2>1, <2>2, <2>3 DEF Queued
    <2>5. SnappedAbs' = SnappedAbs
      BY <2>1, SameSnapped DEF Torn
    <2> QED  BY <2>1, <2>4, <2>5, Stutter
  <1>2. CASE FinishJob(w)
    <2>1. /\ done \in Seq(Files) /\ done' = Append(done, wcur[w])
          /\ wcur' = [wcur EXCEPT ![w] = NoFile] /\ wcur[w] \in Files /\ wcur[w] # NoFile
          /\ UNCHANGED <<names, todo, batch, freed, mop, snapped>>
          /\ mpc' = mpc \/ (mpc = "asleep" /\ mpc' = "relock")
      BY <1>2 DEF PInv, IInv, TypeOK, Shape, FinishJob, SignalDone
    <2>2. Range(done') = Range(done) \cup {wcur[w]}
      BY <2>1, AppendElements
    <2>3. Held' = Held \ {wcur[w]} /\ wcur[w] \in Held
      BY <2>1, HeldAfterGive DEF PInv, IInv, Owners
    <2>4. Queued' = Queued
      BY <2>1, <2>2, <2>3 DEF Queued
    <2>5. Torn' <=> Torn
      BY <2>1 DEF Torn
    <2>6. SnappedAbs' = SnappedAbs
      BY <2>1, <2>5, SameSnapped
    <2> QED  BY <2>1, <2>4, <2>6, Stutter
  <1>3. CASE WaitTodo(w) \/ WakeTodo(w) \/ RelockTodo(w) \/ Parse(w) \/ Quit(w)
    <2>1. UNCHANGED <<names, todo, done, batch, wcur, freed, mop, mpc, snapped>>
      BY <1>3 DEF WaitTodo, WakeTodo, RelockTodo, Parse, Quit
    <2>2. Queued' = Queued
      BY <2>1 DEF Queued, Held
    <2>3. SnappedAbs' = SnappedAbs
      BY <2>1, SameSnapped DEF Torn
    <2> QED  BY <2>1, <2>2, <2>3, Stutter
  <1> QED  BY <1>1, <1>2, <1>3 DEF Worker

LEMMA MainRefines == ASSUME PInv, Main PROVE [Promise!Next]_Promise!vars
  <1> USE DEF lists, control, mainv, text
  <1>1. ASSUME NEW ns \in NameLists, NEW op \in {"read_it", "queue", "flush"},
               EvalIncludeDep(ns, op)
        PROVE  [Promise!Next]_Promise!vars
    <2>1. /\ ns \in Seq(Files) /\ Range(ns) \cap (Queued \cup freed) = {}
          /\ names = <<>> /\ names' = ns
          /\ UNCHANGED <<todo, done, batch, wcur, freed, snapped>>
      BY <1>1, NameListsType DEF EvalIncludeDep, PInv, IInv, Shape
    <2>2. Range(ns) \in SUBSET Files
      BY <2>1, RangeOfSeq
    <2>3. Queued' = Queued \cup Range(ns)
      BY <2>1, EmptyList DEF Queued, Held
    <2>4. mop # "term" /\ mop' # "term"
      BY <1>1 DEF EvalIncludeDep, PInv, Phases, Flushing
    <2>5. SnappedAbs' = SnappedAbs
      BY <2>1, <2>4, SameSnapped DEF Torn
    <2> QED  BY <2>1, <2>2, <2>3, <2>5, Includes
  <1>2. CASE ReadDirectly \/ FlushEval
    <2>1. /\ names \in Seq(Files) /\ names # <<>>
          /\ freed' = freed \cup {Head(names)}
          /\ UNCHANGED <<todo, done, batch, wcur, snapped>>
      BY <1>2 DEF PInv, IInv, TypeOK, Shape, ReadDirectly, FlushEval
    <2>2. /\ Head(names) \in Files /\ Range(names) = Range(Tail(names)) \cup {Head(names)}
          /\ Head(names) \notin Range(Tail(names))
      BY <2>1, TailElements DEF PInv, IInv, Owners, ListsDistinct
    <2>3. Range(names') = Range(Tail(names))
      <3>1. CASE ReadDirectly
        BY <3>1 DEF ReadDirectly
      <3>2. CASE FlushEval
        <4>1. Len(names) = 1
          BY <3>2 DEF FlushEval, PInv, IInv, Shape
        <4>2. Len(Tail(names)) = 0 /\ Tail(names) \in Seq(Files)
          BY <2>1, <4>1, TailElements
        <4>3. Tail(names) = <<>>
          BY <4>2, EmptySeq
        <4> QED  BY <3>2, <4>3 DEF FlushEval
      <3> QED  BY <1>2, <3>1, <3>2
    <2>4. Head(names) \in Queued /\ Queued' = Queued \ {Head(names)}
      BY <2>1, <2>2, <2>3 DEF Queued, Held, PInv, IInv, Owners, PlacesApart, Apart
    <2>5. Torn' <=> Torn
      BY <1>2 DEF Torn, ReadDirectly, FlushEval
    <2>6. SnappedAbs' = SnappedAbs
      BY <2>1, <2>5, SameSnapped
    <2> QED  BY <2>1, <2>2, <2>4, <2>6, Loads
  <1>3. CASE FlushApply
    <2>1. /\ batch \in Seq(Files) /\ batch # <<>> /\ batch' = Tail(batch)
          /\ freed' = freed \cup {Head(batch)}
          /\ UNCHANGED <<names, todo, done, wcur, snapped, mop, mpc>>
      BY <1>3 DEF PInv, IInv, TypeOK, FlushApply
    <2>2. /\ Head(batch) \in Files /\ Range(batch) = Range(Tail(batch)) \cup {Head(batch)}
          /\ Head(batch) \notin Range(Tail(batch))
      BY <2>1, TailElements DEF PInv, IInv, Owners, ListsDistinct
    <2>3. Head(batch) \in Queued /\ Queued' = Queued \ {Head(batch)}
      BY <2>1, <2>2 DEF Queued, Held, PInv, IInv, Owners, PlacesApart, Apart
    <2>4. SnappedAbs' = SnappedAbs
      BY <2>1, SameSnapped DEF Torn
    <2> QED  BY <2>1, <2>2, <2>3, <2>4, Loads
  <1>4. CASE QueueNames
    <2>1. /\ todo' = todo \o names /\ names' = <<>> /\ todo \in Seq(Files) /\ names \in Seq(Files)
          /\ UNCHANGED <<done, batch, wcur, freed, snapped, mop>>
          /\ mpc \notin {"term", "account"} /\ mpc' \notin {"term", "account"}
      BY <1>4 DEF PInv, IInv, TypeOK, QueueNames
    <2>2. Queued' = Queued
      BY <2>1, ConcatElements, EmptyList DEF Queued, Held
    <2>3. SnappedAbs' = SnappedAbs
      BY <2>1, SameSnapped DEF Torn
    <2> QED  BY <2>1, <2>2, <2>3, Stutter
  <1>5. CASE FlushDone \/ (RelockDone /\ done # <<>>)
    <2>1. /\ batch = <<>> /\ batch' = done /\ done' = <<>>
          /\ UNCHANGED <<names, todo, wcur, freed, snapped, mop>>
          /\ mpc \notin {"term", "account"} /\ mpc' \notin {"term", "account"}
      BY <1>5 DEF PInv, IInv, Shape, FlushDone, RelockDone, GrabDone
    <2>2. Queued' = Queued
      BY <2>1, EmptyList DEF Queued, Held
    <2>3. SnappedAbs' = SnappedAbs
      BY <2>1, SameSnapped DEF Torn
    <2> QED  BY <2>1, <2>2, <2>3, Stutter
  <1>6. CASE FlushTodo
    <2>1. /\ todo \in Seq(Files) /\ todo # <<>> /\ names = <<>>
          /\ todo' = Tail(todo) /\ names' = <<Head(todo)>>
          /\ UNCHANGED <<done, batch, wcur, freed, snapped, mop>>
          /\ mpc \notin {"term", "account"} /\ mpc' \notin {"term", "account"}
      BY <1>6 DEF PInv, IInv, TypeOK, Shape, FlushTodo
    <2>2. Queued' = Queued
      BY <2>1, TailElements, SingletonList, EmptyList DEF Queued, Held
    <2>3. SnappedAbs' = SnappedAbs
      BY <2>1, SameSnapped DEF Torn
    <2> QED  BY <2>1, <2>2, <2>3, Stutter
  <1>7. CASE InitThreads \/ FlushWait \/ WakeDone \/ (RelockDone /\ done = <<>>) \/ FlushApplied
    <2>1. /\ UNCHANGED <<names, todo, done, batch, wcur, freed, snapped, mop>>
          /\ mpc \notin {"term", "account"} /\ mpc' \notin {"term", "account"}
      BY <1>7 DEF InitThreads, FlushWait, WakeDone, RelockDone, FlushApplied
    <2>2. Queued' = Queued
      BY <2>1 DEF Queued, Held
    <2>3. SnappedAbs' = SnappedAbs
      BY <2>1, SameSnapped DEF Torn
    <2> QED  BY <2>1, <2>2, <2>3, Stutter
  <1>8. CASE FlushReturn
    <2>1. /\ names = <<>> /\ todo = <<>> /\ done = <<>> /\ batch = <<>> /\ Held = {}
          /\ UNCHANGED <<names, todo, done, batch, wcur, freed, snapped, mop>>
      BY <1>8, NoReader DEF FlushReturn, PInv, IInv, Shape
    <2>2. Queued = {} /\ Queued' = Queued
      BY <2>1, EmptyList DEF Queued, Held
    <2>3. CASE mop = "term"
      <3>1. snapped /\ Torn /\ ~Torn' /\ snapped'
        BY <1>8, <2>1, <2>3 DEF FlushReturn, PInv, Phases, Torn
      <3>2. SnappedAbs = FALSE /\ SnappedAbs' = TRUE
        BY <3>1, Zenon DEF SnappedAbs, Torn
      <3> QED  BY <2>1, <2>2, <3>2, Snaps
    <2>4. CASE mop # "term"
      <3>1. SnappedAbs' = SnappedAbs
        BY <2>1, <2>4, SameSnapped DEF Torn
      <3> QED  BY <2>1, <2>2, <3>1, Stutter
    <2> QED  BY <2>3, <2>4
  <1>9. CASE SnapDeps
    <2>1. /\ mpc = "idle" /\ ~snapped /\ snapped' = TRUE
          /\ UNCHANGED <<names, todo, done, batch, wcur, freed>>
      BY <1>9 DEF SnapDeps
    <2>2. Queued' = Queued
      BY <2>1 DEF Queued, Held
    <2>3. SnappedAbs = FALSE
      BY <2>1, Zenon DEF SnappedAbs
    <2>4. CASE initialized
      <3>1. mpc' = "flush" /\ mop' = "term"
        BY <1>9, <2>4, Zenon DEF SnapDeps
      <3>2. Torn'
        BY <3>1 DEF Torn
      <3>3. SnappedAbs' = FALSE
        BY <3>2, Zenon DEF SnappedAbs, Torn
      <3> QED  BY <2>1, <2>2, <2>3, <3>3, Stutter
    <2>5. CASE ~initialized
      <3>1. mpc' = mpc /\ mop' = mop
        BY <1>9, <2>5, Zenon DEF SnapDeps
      <3>2. inits = 0
        BY <2>1, <2>5, Zenon DEF PInv, Phases
      <3>3. names = <<>> /\ batch = <<>> /\ todo = <<>> /\ done = <<>>
        BY <2>1, <3>2 DEF PInv, Phases, IInv, Shape
      <3>4. \A w \in Threads : wcur[w] = NoFile
        BY <3>2, IncdepAssumption DEF PInv, IInv, Shape, Threads
      <3>5. Queued = {}
        BY <3>3, <3>4, EmptyList DEF Queued, Held
      <3>6. ~Torn'
        BY <2>1, <3>1 DEF PInv, Phases, Flushing, Torn
      <3>7. SnappedAbs' = TRUE
        BY <2>1, <3>6, Zenon DEF SnappedAbs, Torn
      <3> QED  BY <2>1, <2>2, <2>3, <3>5, <3>7, Snaps
    <2> QED  BY <2>4, <2>5
  <1>10. CASE TermSignal \/ TermAccount
    <2>1. UNCHANGED <<names, todo, done, batch, wcur, freed, snapped>> /\ ~Torn /\ ~Torn'
      BY <1>10 DEF TermSignal, TermAccount, Torn
    <2>2. Queued' = Queued
      BY <2>1 DEF Queued, Held
    <2>3. SnappedAbs' = SnappedAbs
      BY <2>1, SameSnapped
    <2> QED  BY <2>1, <2>2, <2>3, Stutter
  <1> QED  BY <1>1, <1>2, <1>3, <1>4, <1>5, <1>6, <1>7, <1>8, <1>9, <1>10 DEF Main, Flush

(* The two thread pools, their lists and their counters implement what     *)
(* includedep promises: each file is loaded once, each mention of it is    *)
(* loaded before snap_deps() goes on from its flush.                       *)
THEOREM Implements == Spec => ImplementsPromise
  <1>1. PInv /\ [Next]_vars => [Promise!Next]_Promise!vars
    <2> SUFFICES ASSUME PInv, [Next]_vars PROVE [Promise!Next]_Promise!vars
      OBVIOUS
    <2>1. CASE UNCHANGED vars
      <3>1. UNCHANGED <<names, todo, done, batch, wcur, freed, mop, mpc, snapped>>
        BY <2>1 DEF vars, lists, control, mainv, text
      <3>2. Queued' = Queued
        BY <3>1 DEF Queued, Held
      <3>3. SnappedAbs' = SnappedAbs
        BY <3>1, SameSnapped DEF Torn
      <3> QED  BY <3>1, <3>2, <3>3, Stutter
    <2> QED  BY <2>1, WorkerRefines, MainRefines DEF Next
  <1> QED  BY <1>1, InitRefines, PInvHolds, PTL DEF Spec, ImplementsPromise, Promise!Spec
=============================================================================
