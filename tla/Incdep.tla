------------------------------- MODULE Incdep -------------------------------
(***************************************************************************)
(* The threaded reader of dependency files (src/kmk/incdep.c): the main    *)
(* thread queues files on a todo list, worker threads read and parse them  *)
(* into recorded instructions and move them to a done list, and the main   *)
(* thread flushes both lists, replaying what was recorded and reading what *)
(* no worker has taken.  A critical section of incdep_mtx is one action.   *)
(*                                                                         *)
(* Both flavours of waiting are here: condition variables (pthreads) and   *)
(* manual-reset events guarded by a waiter count (Windows, OS/2).          *)
(***************************************************************************)
EXTENDS Integers, Sequences, FiniteSets, Functions, Totals

CONSTANTS Files,        \* one element per struct incdep ever allocated
          NoFile,       \* what a worker without a file holds
          Builds,       \* how kmk may have been built: see build
          MaxThreads,   \* bound: the largest INCDEP_MAX_THREADS
          JobSlots,     \* job_slots when incdep_init() runs
          MaxNames,     \* bound: the names in one includedep line
          MaxInits,     \* bound: how often incdep_init() may run
          CountMod      \* stands for 2^32, the range of an unsigned int

ASSUME IncdepAssumption ==
    /\ NoFile \notin Files
    /\ MaxThreads \in Nat \ {0}
    /\ JobSlots \in Nat
    /\ MaxNames \in Nat
    /\ MaxInits \in Nat \ {0}
    /\ Builds \subseteq [events : BOOLEAN, threads : 1 .. MaxThreads]
    /\ CountMod \in Nat \ {0}

Ops     == {"read_it", "queue", "flush", "term"}
Tids    == 0 .. (MaxThreads - 1)
Threads == (1 .. MaxInits) \X Tids      \* <<which incdep_init(), worker_tid>>
TidOf(w) == w[2]

VARIABLES
    todo, countTodo,    \* incdep_head_todo .. incdep_tail_todo, incdep_count_todo
    done, countDone,    \* incdep_head_done .. incdep_tail_done, incdep_count_done
    numReading,         \* incdep_num_reading
    terminate,          \* incdep_terminate
    initialized,        \* incdep_initialized
    numThreads,         \* incdep_num_threads
    doneCount,          \* incdep_worker_data[tid].done_count
    todoCount,          \* incdep_worker_data[MAX].todo_count
    flushedCount,       \* incdep_worker_data[MAX].flushed_count
    todoEvent,          \* incdep_hev_todo is set (with events)
    todoWaiters,        \* incdep_hev_todo_waiters (with events)
    doneEvent,          \* incdep_hev_done is set (with events)
    wpc, wcur,          \* each worker: where it is, the file it holds
    mpc, mop,           \* main thread: where it is, the directive it executes
    names,              \* eval_include_dep(): the list built from NAMES
    batch, count,       \* incdep_flush_it(): the done list taken over, COUNT
    snapped,            \* snap_deps() has called incdep_flush_and_term()
    inits,              \* how often incdep_init() has run
    threadsOn,          \* incdep_are_threads_enabled()
    build,              \* INCDEP_MAX_THREADS, and what the threads wait with
    content,            \* what reading a file gave
    recorded,           \* a worker's result that main has yet to apply
    applied,            \* how often a file's text reached the databases
    freed               \* structures given to incdep_freeit()

lists   == <<todo, countTodo, done, countDone, numReading>>
control == <<terminate, initialized, numThreads, inits, threadsOn, build, snapped>>
counts  == <<doneCount, todoCount, flushedCount>>
sync    == <<todoEvent, todoWaiters, doneEvent>>
mainv   == <<mpc, mop, names, batch, count>>
text    == <<content, recorded, applied, freed>>
vars    == <<lists, control, counts, sync, wpc, wcur, mainv, text>>

Events   == build.events                 \* FALSE: condition variables
Held     == {wcur[w] : w \in Threads} \ {NoFile}
Queued   == Range(names) \cup Range(todo) \cup Held \cup Range(done) \cup Range(batch)
Unused   == Files \ (Queued \cup freed)

(* The lists an includedep line may give: new structures, one per name.    *)
NameLists == {ns \in UNION {[1 .. n -> Unused] : n \in 0 .. MaxNames} : IsInjective(ns)}

Init ==
    /\ todo = <<>> /\ countTodo = 0
    /\ done = <<>> /\ countDone = 0
    /\ numReading = 0
    /\ terminate = FALSE /\ initialized = FALSE /\ numThreads = 0
    /\ inits = 0 /\ threadsOn \in BOOLEAN /\ build \in Builds /\ snapped = FALSE
    /\ doneCount = [t \in Tids |-> 0] /\ todoCount = 0 /\ flushedCount = 0
    /\ todoEvent = FALSE /\ todoWaiters = 0 /\ doneEvent = FALSE
    /\ wpc = [w \in Threads |-> "none"]
    /\ wcur = [w \in Threads |-> NoFile]
    /\ mpc = "idle" /\ mop = "queue" /\ names = <<>>
    /\ batch = <<>> /\ count = 0
    /\ content = [f \in Files |-> "unread"]
    /\ recorded = [f \in Files |-> FALSE]
    /\ applied = [f \in Files |-> 0]
    /\ freed = {}

-----------------------------------------------------------------------------
(* incdep_read_file(): a file that cannot be read is ignored.              *)
ReadFile(f, c) == content' = [content EXCEPT ![f] = c]

(* Mutant: the worker executes what it also records.                       *)
EvalFileTwice(f, c, inWorker) ==
    /\ recorded' = [recorded EXCEPT ![f] = inWorker /\ c = "text"]
    /\ applied' = [applied EXCEPT ![f] = IF c = "text" THEN @ + 1 ELSE @]

(* eval_include_dep_file(): a worker keeps what it got for the main thread *)
(* (the instructions of the incdep_record_* functions with PARSE_IN_WORKER,*)
(* on Linux and macOS, else just the text); the main thread executes it.   *)
EvalFile(f, c, inWorker) ==
    /\ recorded' = [recorded EXCEPT ![f] = inWorker /\ c = "text"]
    /\ applied' = [applied EXCEPT ![f] = IF ~inWorker /\ c = "text" THEN @ + 1 ELSE @]

Evaluate(f, inWorker) ==
    \E c \in {"text", "missing"} : ReadFile(f, c) /\ EvalFile(f, c, inWorker)

(* Mutants: the sleepers are not told.                                     *)
SignalTodoNever == UNCHANGED <<todoEvent, wpc>>
SignalDoneNever == UNCHANGED <<doneEvent, mpc>>

(* Waking the waiters of a condition or event.  The caller owns the lock.  *)
SignalTodo ==
    /\ todoEvent' = (todoEvent \/ (Events /\ todoWaiters # 0))
    /\ wpc' = [w \in Threads |-> IF ~Events /\ wpc[w] = "wait" THEN "relock" ELSE wpc[w]]

DoneWaiters == IF mpc \in {"asleep", "relock"} THEN 1 ELSE 0

SignalDone ==
    /\ doneEvent' = (doneEvent \/ (Events /\ DoneWaiters # 0))
    /\ mpc' = IF ~Events /\ mpc = "asleep" THEN "relock" ELSE mpc
-----------------------------------------------------------------------------
(* The worker thread.                                                      *)

(* Top of incdep_worker()'s loop: take the head of the todo list.          *)
TakeJob(w) ==
    /\ wpc[w] = "loop" /\ ~terminate /\ todo # <<>>
    /\ todo' = Tail(todo) /\ countTodo' = countTodo - 1
    /\ numReading' = numReading + 1
    /\ wcur' = [wcur EXCEPT ![w] = Head(todo)]
    /\ wpc' = [wpc EXCEPT ![w] = "parse"]
    /\ UNCHANGED <<done, countDone, control, counts, sync, mainv, text>>

(* incdep_wait_todo() up to the point where it sleeps.                     *)
WaitTodo(w) ==
    /\ wpc[w] = "loop" /\ ~terminate /\ todo = <<>>
    /\ wpc' = [wpc EXCEPT ![w] = "wait"]
    /\ IF Events THEN todoEvent' = FALSE /\ todoWaiters' = todoWaiters + 1
                 ELSE UNCHANGED <<todoEvent, todoWaiters>>
    /\ UNCHANGED <<lists, control, counts, doneEvent, wcur, mainv, text>>

(* The sleep ends: the event is set, or (condition variables) spuriously.  *)
WakeTodo(w) ==
    /\ wpc[w] = "wait" /\ (Events => todoEvent)
    /\ wpc' = [wpc EXCEPT ![w] = "relock"]
    /\ UNCHANGED <<lists, control, counts, sync, wcur, mainv, text>>

(* The rest of incdep_wait_todo(), with the lock owned again.              *)
RelockTodo(w) ==
    /\ wpc[w] = "relock"
    /\ wpc' = [wpc EXCEPT ![w] = "loop"]
    /\ todoWaiters' = IF Events THEN todoWaiters - 1 ELSE todoWaiters
    /\ UNCHANGED <<lists, control, counts, todoEvent, doneEvent, wcur, mainv, text>>

(* Reading (and parsing), without the lock, with worker_tid set.           *)
Parse(w) ==
    /\ wpc[w] = "parse"
    /\ Evaluate(wcur[w], TRUE)
    /\ wpc' = [wpc EXCEPT ![w] = "finish"]
    /\ UNCHANGED <<lists, control, counts, sync, wcur, mainv, freed>>

(* Insert the finished job into the done list and tell the main thread.    *)
FinishJob(w) ==
    /\ wpc[w] = "finish"
    /\ numReading' = numReading - 1
    /\ done' = Append(done, wcur[w]) /\ countDone' = countDone + 1
    /\ doneCount' = [doneCount EXCEPT ![TidOf(w)] = @ + 1]
    /\ wcur' = [wcur EXCEPT ![w] = NoFile]
    /\ wpc' = [wpc EXCEPT ![w] = "loop"]
    /\ SignalDone
    /\ UNCHANGED <<todo, countTodo, control, todoCount, flushedCount, todoEvent,
                   todoWaiters, mop, names, batch, count, text>>

(* incdep_terminate is set: leave the loop and the thread.                 *)
Quit(w) ==
    /\ wpc[w] = "loop" /\ terminate
    /\ wpc' = [wpc EXCEPT ![w] = "quit"]
    /\ UNCHANGED <<lists, control, counts, sync, wcur, mainv, text>>

Worker(w) == TakeJob(w) \/ WaitTodo(w) \/ WakeTodo(w) \/ RelockTodo(w)
                \/ Parse(w) \/ FinishJob(w) \/ Quit(w)
-----------------------------------------------------------------------------
(* The main thread: eval_include_dep().                                    *)

(* NAMES is split into a list; then read it here, or queue it, or flush.   *)
EvalIncludeDep(ns, op) ==
    /\ mpc = "idle"
    /\ (op # "read_it" /\ ns # <<>> /\ ~initialized) => inits < MaxInits
    /\ op = "flush" \/ ns # <<>>
    /\ names' = ns /\ mop' = op
    /\ mpc' = CASE op = "read_it"     -> "direct"
                [] op # "read_it" /\ ns # <<>> -> IF initialized THEN "queue" ELSE "init"
                [] OTHER              -> "flush"
    /\ UNCHANGED <<lists, control, counts, sync, wpc, wcur, batch, count, text>>

(* incdep_read_it: one file after the other, in the main thread.           *)
ReadDirectly ==
    /\ mpc = "direct"
    /\ Evaluate(Head(names), FALSE)
    /\ freed' = freed \cup {Head(names)}
    /\ names' = Tail(names)
    /\ mpc' = IF Len(names) = 1 THEN "idle" ELSE "direct"
    /\ UNCHANGED <<lists, control, counts, sync, wpc, wcur, mop, batch, count>>

(* Mutant: INCDEP_MAX_THREADS is not considered.                           *)
WantedThreadsUnclamped == IF ~threadsOn THEN 0 ELSE JobSlots - 1

(* incdep_init(): fresh lock, conditions and events; start the threads.    *)
WantedThreads ==
    CASE ~threadsOn                                     -> 0
      [] threadsOn /\ build.threads + 1 <= JobSlots     -> build.threads
      [] threadsOn /\ build.threads + 1 > JobSlots      -> IF JobSlots <= 1 THEN 1 ELSE JobSlots - 1

InitThreads ==
    /\ mpc = "init" /\ inits < MaxInits
    /\ terminate' = FALSE
    /\ numThreads' = WantedThreads
    /\ inits' = inits + 1
    /\ initialized' = TRUE
    /\ wpc' = [w \in Threads |->
                  CASE w[1] = inits + 1 /\ TidOf(w) < WantedThreads -> "loop"
                    [] w[1] <= inits /\ wpc[w] = "wait"             -> "relock"
                    [] OTHER                                        -> wpc[w]]
    /\ todoEvent' = FALSE /\ doneEvent' = FALSE /\ todoWaiters' = 0
    /\ mpc' = "queue"
    /\ UNCHANGED <<lists, threadsOn, build, snapped, counts, wcur, mop, names, batch, count, text>>

(* Append the list to the todo list and notify the worker threads.         *)
QueueNames ==
    /\ mpc = "queue"
    /\ todo' = todo \o names /\ countTodo' = countTodo + Len(names)
    /\ todoCount' = todoCount + Len(names)
    /\ names' = <<>>
    /\ SignalTodo
    /\ mpc' = IF mop = "flush" THEN "flush" ELSE "idle"
    /\ UNCHANGED <<done, countDone, numReading, control, doneCount, flushedCount,
                   todoWaiters, doneEvent, wcur, mop, batch, count, text>>
-----------------------------------------------------------------------------
(* The main thread: incdep_flush_it().                                     *)

(* Mutant: the done list is taken over, but its head is not reset.         *)
GrabDoneKeepsList(cnt) ==
    /\ batch' = done /\ count' = cnt
    /\ countDone' = 0
    /\ mpc' = "apply"
    /\ UNCHANGED <<done, todo, countTodo, numReading, control, counts, sync, wpc, wcur,
                   mop, names, text>>

(* Take over the entire done list; COUNT was read at the top of the loop.  *)
GrabDone(cnt) ==
    /\ batch' = done /\ count' = cnt
    /\ done' = <<>> /\ countDone' = 0
    /\ mpc' = "apply"
    /\ UNCHANGED <<todo, countTodo, numReading, control, counts, sync, wpc, wcur,
                   mop, names, text>>

FlushDone == mpc = "flush" /\ done # <<>> /\ GrabDone(countDone)

(* Mutant: todo_count still counts the file main reads itself.             *)
FlushTodoUncorrected ==
    /\ mpc = "flush" /\ done = <<>> /\ todo # <<>>
    /\ todo' = Tail(todo) /\ countTodo' = countTodo - 1
    /\ names' = <<Head(todo)>>
    /\ mpc' = "eval"
    /\ UNCHANGED <<done, countDone, numReading, control, counts, sync, wpc, wcur, mop,
                   batch, count, text>>

(* Nothing done: take a todo entry and read it in the main thread.         *)
FlushTodo ==
    /\ mpc = "flush" /\ done = <<>> /\ todo # <<>>
    /\ todo' = Tail(todo) /\ countTodo' = countTodo - 1
    /\ todoCount' = todoCount - 1
    /\ names' = <<Head(todo)>>
    /\ mpc' = "eval"
    /\ UNCHANGED <<done, countDone, numReading, control, doneCount, flushedCount, sync,
                   wpc, wcur, mop, batch, count, text>>

FlushEval ==
    /\ mpc = "eval"
    /\ Evaluate(Head(names), FALSE)
    /\ freed' = freed \cup {Head(names)}
    /\ names' = <<>>
    /\ mpc' = "flush"
    /\ UNCHANGED <<lists, control, counts, sync, wpc, wcur, mop, batch, count>>

(* Mutant: incdep_num_reading is not looked at.                            *)
FlushReturnEarly ==
    /\ mpc = "flush" /\ done = <<>> /\ todo = <<>>
    /\ mpc' = IF mop = "term" THEN "term" ELSE "idle"
    /\ UNCHANGED <<lists, control, counts, sync, wpc, wcur, mop, names, batch, count, text>>

(* Both lists empty and nobody reading: the flush is over.                 *)
FlushReturn ==
    /\ mpc = "flush" /\ done = <<>> /\ todo = <<>> /\ numReading = 0
    /\ mpc' = IF mop = "term" THEN "term" ELSE "idle"
    /\ UNCHANGED <<lists, control, counts, sync, wpc, wcur, mop, names, batch, count, text>>

(* Both lists empty, a worker still reading: COUNT is 0, wait for it.      *)
FlushWait ==
    /\ mpc = "flush" /\ done = <<>> /\ todo = <<>> /\ numReading # 0
    /\ mpc' = "asleep" /\ count' = countDone
    /\ doneEvent' = IF Events THEN FALSE ELSE doneEvent
    /\ UNCHANGED <<lists, control, counts, todoEvent, todoWaiters, wpc, wcur, mop,
                   names, batch, text>>

WakeDone ==
    /\ mpc = "asleep" /\ (Events => doneEvent)
    /\ mpc' = "relock"
    /\ UNCHANGED <<lists, control, counts, sync, wpc, wcur, mop, names, batch, count, text>>

(* while (!incdep_head_done) incdep_wait_done (); with the lock owned.     *)
RelockDone ==
    /\ mpc = "relock"
    /\ \/ done # <<>> /\ GrabDone(count)
       \/ /\ done = <<>>
          /\ mpc' = "asleep"
          /\ doneEvent' = IF Events THEN FALSE ELSE doneEvent
          /\ UNCHANGED <<lists, control, counts, todoEvent, todoWaiters, wpc, wcur, mop,
                         names, batch, count, text>>

(* Replay the instructions, or parse the text, of one file of the batch    *)
(* and free it.                                                            *)
FlushApply ==
    /\ mpc = "apply" /\ batch # <<>>
    /\ LET f == Head(batch) IN
         /\ recorded' = [recorded EXCEPT ![f] = FALSE]
         /\ applied' = [applied EXCEPT ![f] = IF recorded[f] THEN @ + 1 ELSE @]
         /\ freed' = freed \cup {f}
    /\ flushedCount' = flushedCount + 1
    /\ count' = (count - 1) % CountMod
    /\ batch' = Tail(batch)
    /\ UNCHANGED <<lists, control, doneCount, todoCount, sync, wpc, wcur, mpc, mop,
                   names, content>>

FlushApplied ==
    /\ mpc = "apply" /\ batch = <<>>
    /\ mpc' = "flush"
    /\ UNCHANGED <<lists, control, counts, sync, wpc, wcur, mop, names, batch, count, text>>

Flush == FlushDone \/ FlushTodo \/ FlushEval \/ FlushReturn \/ FlushWait
            \/ WakeDone \/ RelockDone \/ FlushApply \/ FlushApplied
-----------------------------------------------------------------------------
(* The main thread: incdep_flush_and_term(), called once, by snap_deps().  *)
SnapDeps ==
    /\ mpc = "idle" /\ ~snapped
    /\ snapped' = TRUE
    /\ IF initialized THEN mpc' = "flush" /\ mop' = "term" ELSE UNCHANGED <<mpc, mop>>
    /\ UNCHANGED <<lists, terminate, initialized, numThreads, inits, threadsOn, build, counts,
                   sync, wpc, wcur, names, batch, count, text>>

TermSignal ==
    /\ mpc = "term"
    /\ terminate' = TRUE
    /\ SignalTodo
    /\ mpc' = "account"
    /\ UNCHANGED <<lists, initialized, numThreads, inits, threadsOn, build, snapped, counts,
                   todoWaiters, doneEvent, wcur, mop, names, batch, count, text>>

(* Frees the per-thread caches and sums up; nothing waits for the threads. *)
TermAccount ==
    /\ mpc = "account"
    /\ numThreads' = 0 /\ initialized' = FALSE
    /\ mpc' = "idle" /\ mop' = "queue"
    /\ UNCHANGED <<lists, terminate, inits, threadsOn, build, snapped, counts, sync, wpc, wcur,
                   names, batch, count, text>>

Main == \/ \E ns \in NameLists, op \in {"read_it", "queue", "flush"} : EvalIncludeDep(ns, op)
        \/ ReadDirectly \/ InitThreads \/ QueueNames
        \/ Flush
        \/ SnapDeps \/ TermSignal \/ TermAccount

Next == Main \/ \E w \in Threads : Worker(w)

(* Every thread keeps running while it can.  A sleeper is not owed a       *)
(* spurious wakeup: with condition variables only a signal ends its sleep. *)
MainFairness ==
    WF_vars(\/ ReadDirectly \/ InitThreads \/ QueueNames
            \/ FlushDone \/ FlushTodo \/ FlushEval \/ FlushReturn \/ FlushWait
            \/ (Events /\ WakeDone) \/ RelockDone \/ FlushApply \/ FlushApplied
            \/ TermSignal \/ TermAccount)

WorkerFairness(w) ==
    WF_vars(\/ TakeJob(w) \/ WaitTodo(w) \/ (Events /\ WakeTodo(w)) \/ RelockTodo(w)
            \/ Parse(w) \/ FinishJob(w) \/ Quit(w))

Spec     == Init /\ [][Next]_vars
FairSpec == Spec /\ MainFairness /\ \A w \in Threads : WorkerFairness(w)
-----------------------------------------------------------------------------
(* Every variable has the values its C declaration and its use allow.      *)
TypeOK ==
    /\ todo \in Seq(Files) /\ done \in Seq(Files) /\ names \in Seq(Files) /\ batch \in Seq(Files)
    /\ countTodo \in Int /\ countDone \in Int /\ numReading \in Int
    /\ terminate \in BOOLEAN /\ initialized \in BOOLEAN /\ threadsOn \in BOOLEAN
    /\ snapped \in BOOLEAN /\ build \in Builds
    /\ numThreads \in 0 .. MaxThreads /\ inits \in 0 .. MaxInits
    /\ doneCount \in [Tids -> Nat] /\ todoCount \in Int /\ flushedCount \in Nat
    /\ todoEvent \in BOOLEAN /\ todoWaiters \in Int /\ doneEvent \in BOOLEAN
    /\ wpc \in [Threads -> {"none", "loop", "wait", "relock", "parse", "finish", "quit"}]
    /\ wcur \in [Threads -> Files \cup {NoFile}]
    /\ mpc \in {"idle", "direct", "init", "queue", "flush", "eval", "asleep", "relock",
                "apply", "term", "account"}
    /\ mop \in Ops
    /\ count \in Int
    /\ content \in [Files -> {"unread", "text", "missing"}]
    /\ recorded \in [Files -> BOOLEAN]
    /\ applied \in [Files -> Nat]
    /\ freed \in SUBSET Files

(* A file structure is in one place only: on one list once, or held by one *)
(* thread, and never on a list or in a thread's hands once it is freed.    *)
ListsDistinct ==
    IsInjective(names) /\ IsInjective(todo) /\ IsInjective(done) /\ IsInjective(batch)

HeldOnce == \A v, w \in Threads : wcur[v] = wcur[w] /\ wcur[v] # NoFile => v = w

PlacesDisjoint ==
    \A f \in Files :
        /\ f \in freed => f \notin Queued
        /\ f \in Range(names) => f \notin Range(todo) \cup Held \cup Range(done) \cup Range(batch)
        /\ f \in Range(todo) => f \notin Held \cup Range(done) \cup Range(batch)
        /\ f \in Held => f \notin Range(done) \cup Range(batch)
        /\ f \in Range(done) => f \notin Range(batch)

OneOwner == ListsDistinct /\ HeldOnce /\ PlacesDisjoint

(* The text of a dependency file reaches the databases once if the file    *)
(* could be read, and never before the structure is disposed of, whichever *)
(* thread read it; nothing recorded is lost when it is freed (the three    *)
(* assertions of incdep_freeit()).                                         *)
AppliedExactlyOnce ==
    \A f \in Files :
        IF f \in freed
        THEN ~recorded[f] /\ applied[f] = (IF content[f] = "text" THEN 1 ELSE 0)
        ELSE applied[f] = 0

(* When incdep_flush_and_term() goes on from its flush, every file handed  *)
(* over so far is disposed of and no worker is inside incdep_read_file()   *)
(* or the parser, whose caches are then torn down.                         *)
NothingPendingAtTerm ==
    mpc \in {"term", "account"} => /\ Queued = {}
                                   /\ \A w \in Threads : wpc[w] \notin {"parse", "finish"}

(* The sanity checks of incdep_flush_and_term() never print their warning. *)
AccountingHolds ==
    mpc = "account" => Total(doneCount) = flushedCount /\ Total(doneCount) = todoCount

(* The main thread never sleeps for ever: a flush comes to its end.        *)
FlushTerminates ==
    (mpc = "flush") ~> (mpc \in {"idle", "term"})

(* Queued files do not wait for the next flush as long as a worker is      *)
(* there, and all get read: no wakeup of a sleeping worker is lost.        *)
QueuedGetsRead == (todo # <<>> /\ numThreads > 0 /\ inits = 1) ~> (todo = <<>>)

(* Each step does what includedep promises (module IncludeDep).            *)
Promise == INSTANCE IncludeDep
               WITH pending <- Queued, loaded <- freed,
                    snapped <- snapped /\ ~(mop = "term" /\ mpc \notin {"term", "account"})

ImplementsPromise == Promise!Spec
=============================================================================
