---------------------------- MODULE WinChildren -----------------------------
(***************************************************************************)
(* Child management on Windows (src/kmk/w32/winchildren.c).  The main      *)
(* thread queues a child on a childcare worker; the worker runs it and     *)
(* pushes it onto the list of completed children; the main thread takes it *)
(* from there.  There is no lock: both kinds of list are chains through    *)
(* pNext that end at the oldest child, and only their tail pointer is      *)
(* written with a compare-and-exchange.  A worker sleeps on an auto-reset  *)
(* event of its own, the main thread on another.                           *)
(*                                                                         *)
(* An action holds one access to memory another thread writes.             *)
(***************************************************************************)
EXTENDS Integers, Sequences, FiniteSets, Functions, SequencesExt

CONSTANTS Children,     \* one element per WINCHILD ever allocated
          Nil,          \* the null pointer
          MaxWorkers    \* g_cChildCareworkersMax, the number of job slots

ASSUME WinChildrenAssumption ==
    /\ IsFiniteSet(Children) /\ Nil \notin Children
    /\ MaxWorkers \in Nat \ {0}

Workers   == 1 .. MaxWorkers    \* indexes into g_papChildCareworkers
Completed == 0                  \* the list of the completed children
Lists     == Workers \cup {Completed}
Pointers  == Children \cup {Nil}

VARIABLES
    tail,           \* pTailTodoChildren, g_pTailCompletedChildren
    next,           \* pChild->pNext
    workers,        \* g_cChildCareworkers
    idle,           \* pWorker->fIdle
    idleWorkers,    \* g_cIdleChildcareWorkers
    evtIdle,        \* pWorker->hEvtIdle is set
    evtWait,        \* g_hEvtWaitChildren is set
    pending,        \* g_cPendingChildren
    wpc, wchild,    \* each worker: where it is, pChild
    wexpect,        \* pTailExpect
    mpc, mret,      \* main thread: where it is, and where it goes after a push
    mchild, mtarget,    \* mkWinChildPushToCareWorker(): pChild, pWorker
    mexpect,        \* pOldChild
    children,       \* the children job.c waits for (its chain children)
    ran, reaped     \* history: how often a child was run; those handed back

lists  == <<tail, next>>
idling == <<idle, idleWorkers, evtIdle>>
worker == <<wpc, wchild, wexpect>>
main   == <<mpc, mret, mchild, mtarget, mexpect>>
fates  == <<children, ran, reaped>>
vars   == <<lists, workers, idling, evtWait, pending, worker, main, fates>>

(* pNext leads from c through the children of s, newest first, to an end.  *)
Linked(s, c) ==
    /\ c = IF s = <<>> THEN Nil ELSE s[1]
    /\ \A i \in DOMAIN s : next[s[i]] = IF i = Len(s) THEN Nil ELSE s[i + 1]

(* The chain below a child, newest first.                                  *)
Below(c) == CHOOSE s \in SeqOf(Children, Cardinality(Children)) : Linked(s, c)

Chain(l) == Below(tail[l])
Oldest(c) == Below(c)[Len(Below(c))]

Init ==
    /\ tail = [l \in Lists |-> Nil] /\ next = [c \in Children |-> Nil]
    /\ workers = 0
    /\ idle = [w \in Workers |-> FALSE] /\ idleWorkers = 0
    /\ evtIdle = [w \in Workers |-> FALSE] /\ evtWait = FALSE
    /\ pending = 0
    /\ wpc = [w \in Workers |-> "none"] /\ wchild = [w \in Workers |-> Nil]
    /\ wexpect = [w \in Workers |-> Nil]
    /\ mpc = "idle" /\ mret = "idle" /\ mchild = Nil /\ mtarget = 1 /\ mexpect = Nil
    /\ children = {} /\ ran = [c \in Children |-> 0] /\ reaped = {}
-----------------------------------------------------------------------------
(* Mutant: the last pointer to a lone child is cleared without looking     *)
(* whether another one was pushed meanwhile.                               *)
DequeueBlindly(l, c) ==
    IF next[c] = Nil
    THEN tail' = [tail EXCEPT ![l] = Nil] /\ UNCHANGED next
    ELSE /\ next' = [next EXCEPT ![CHOOSE p \in Range(Below(c)) : next[p] = Oldest(c)] = Nil]
         /\ UNCHANGED tail

(* mkWinChildDequeFromLifo(): unlink the oldest child of the list whose    *)
(* tail was c when it was read.  The last child is taken by exchanging the *)
(* tail for null, unless something was pushed meanwhile.                   *)
Dequeue(l, c) ==
    IF next[c] = Nil /\ tail[l] = c
    THEN tail' = [tail EXCEPT ![l] = Nil] /\ UNCHANGED next
    ELSE LET from == IF next[c] = Nil THEN tail[l] ELSE c
             prev == CHOOSE p \in Range(Below(from)) : next[p] = Oldest(from)
         IN  next' = [next EXCEPT ![prev] = Nil] /\ UNCHANGED tail

Dequeued(l, c) == IF next[c] = Nil /\ tail[l] # c THEN Oldest(tail[l]) ELSE Oldest(c)

(* One round of a loop that pushes a child: it is linked to the tail that  *)
(* is expected and, if the tail is still that one, becomes the tail.       *)
Push(l, c, expect) ==
    /\ tail[l] = expect
    /\ next' = [next EXCEPT ![c] = expect] /\ tail' = [tail EXCEPT ![l] = c]
-----------------------------------------------------------------------------
(* mkWinChildcareWorkerThread().                                           *)
Step(w, from, to) == wpc[w] = from /\ wpc' = [wpc EXCEPT ![w] = to]

(* Mutant: the second look is left out.                                    *)
LookForWorkOnce(w) ==
    /\ wchild' = [wchild EXCEPT ![w] = tail[w]]
    /\ \/ Step(w, "top", IF tail[w] = Nil THEN "sayIdle" ELSE "dequeue")
       \/ Step(w, "reread", IF tail[w] = Nil THEN "top" ELSE "dequeue")
       \/ Step(w, "recheck", "count")
    /\ UNCHANGED <<lists, workers, idling, evtWait, pending, wexpect, main, fates>>

(* The top of the loop, the second look after the worker said that it is   *)
(* idle, and the look after it was woken.                                  *)
LookForWork(w) ==
    /\ wchild' = [wchild EXCEPT ![w] = tail[w]]
    /\ \/ Step(w, "top", IF tail[w] = Nil THEN "sayIdle" ELSE "dequeue")
       \/ Step(w, "reread", IF tail[w] = Nil THEN "top" ELSE "dequeue")
       \/ Step(w, "recheck", IF tail[w] = Nil THEN "count" ELSE "notIdle")
    /\ UNCHANGED <<lists, workers, idling, evtWait, pending, wexpect, main, fates>>

SayIdle(w) ==
    /\ Step(w, "sayIdle", "recheck")
    /\ idle' = [idle EXCEPT ![w] = TRUE]
    /\ UNCHANGED <<lists, workers, idleWorkers, evtIdle, evtWait, pending, wchild, wexpect,
                   main, fates>>

(* There was work after all.                                               *)
NotIdleAfterAll(w) ==
    /\ Step(w, "notIdle", "dequeue")
    /\ idle' = [idle EXCEPT ![w] = FALSE]
    /\ UNCHANGED <<lists, workers, idleWorkers, evtIdle, evtWait, pending, wchild, wexpect,
                   main, fates>>

CountIdle(w) ==
    /\ Step(w, "count", "sleep")
    /\ idleWorkers' = idleWorkers + 1
    /\ UNCHANGED <<lists, workers, idle, evtIdle, evtWait, pending, wchild, wexpect,
                   main, fates>>

(* WaitForSingleObject() on the auto-reset event.                          *)
WakeUp(w) ==
    /\ Step(w, "sleep", "woken") /\ evtIdle[w]
    /\ evtIdle' = [evtIdle EXCEPT ![w] = FALSE]
    /\ UNCHANGED <<lists, workers, idle, idleWorkers, evtWait, pending, wchild, wexpect,
                   main, fates>>

ClearIdle(w) ==
    /\ Step(w, "woken", "uncount")
    /\ idle' = [idle EXCEPT ![w] = FALSE]
    /\ UNCHANGED <<lists, workers, idleWorkers, evtIdle, evtWait, pending, wchild, wexpect,
                   main, fates>>

UncountIdle(w) ==
    /\ Step(w, "uncount", "reread")
    /\ idleWorkers' = idleWorkers - 1
    /\ UNCHANGED <<lists, workers, idle, evtIdle, evtWait, pending, wchild, wexpect, main, fates>>

DequeueTodo(w) ==
    /\ Step(w, "dequeue", "run")
    /\ Dequeue(w, wchild[w])
    /\ wchild' = [wchild EXCEPT ![w] = Dequeued(w, wchild[w])]
    /\ UNCHANGED <<workers, idling, evtWait, pending, wexpect, main, fates>>

(* The child is run: a process, a builtin, ... that ends at some time.     *)
RunChild(w) ==
    /\ Step(w, "run", "complete")
    /\ ran' = [ran EXCEPT ![wchild[w]] = @ + 1]
    /\ UNCHANGED <<lists, workers, idling, evtWait, pending, wchild, wexpect, main, children,
                   reaped>>

PushCompleted(w) ==
    /\ Step(w, "complete", "decrement")
    /\ Push(Completed, wchild[w], wexpect[w])
    /\ UNCHANGED <<workers, idling, evtWait, pending, wchild, wexpect, main, fates>>

PushCompletedAgain(w) ==
    /\ wpc[w] = "complete" /\ tail[Completed] # wexpect[w]
    /\ wexpect' = [wexpect EXCEPT ![w] = tail[Completed]]
    /\ UNCHANGED <<lists, workers, idling, evtWait, pending, wpc, wchild, main, fates>>

(* Mutant: only the last of the pending children is announced.             *)
DecrementPendingLast(w) ==
    /\ Step(w, "decrement", IF pending = 1 THEN "announce" ELSE "top")
    /\ pending' = pending - 1
    /\ wchild' = [wchild EXCEPT ![w] = Nil] /\ wexpect' = [wexpect EXCEPT ![w] = Nil]
    /\ UNCHANGED <<lists, workers, idling, evtWait, main, fates>>

(* Only a child pushed onto an empty list is announced.                    *)
DecrementPending(w) ==
    /\ Step(w, "decrement", IF wexpect[w] = Nil THEN "announce" ELSE "top")
    /\ pending' = pending - 1
    /\ wchild' = [wchild EXCEPT ![w] = Nil] /\ wexpect' = [wexpect EXCEPT ![w] = Nil]
    /\ UNCHANGED <<lists, workers, idling, evtWait, main, fates>>

Announce(w) ==
    /\ Step(w, "announce", "top")
    /\ evtWait' = TRUE
    /\ UNCHANGED <<lists, workers, idling, pending, wchild, wexpect, main, fates>>

Worker(w) ==
    \/ LookForWork(w) \/ SayIdle(w) \/ NotIdleAfterAll(w) \/ CountIdle(w) \/ WakeUp(w)
    \/ ClearIdle(w) \/ UncountIdle(w) \/ DequeueTodo(w) \/ RunChild(w) \/ PushCompleted(w)
    \/ PushCompletedAgain(w) \/ DecrementPending(w) \/ Announce(w)
-----------------------------------------------------------------------------
(* The main thread: mkWinChildPushToCareWorker(), called by new_job() and  *)
(* by reap_children() for the next command of a recipe.                    *)
(* A WINCHILD that is allocated now; which one makes no difference.        *)
Fresh    == Children \ (children \cup reaped)
NewChild == CHOOSE c \in Fresh : TRUE

Made      == 1 .. workers
IdleOnes  == {w \in Made : idle[w]}

(* Mutant: one worker more than there are slots.                           *)
CanCreateMore == workers <= MaxWorkers

CanCreate == workers < MaxWorkers

(* An idle worker if some are counted idle, and one is met as their flags  *)
(* are read one by one; else a new one if there may be more; else one      *)
(* without children waiting, if there is any.                              *)
ChooseWorker ==
    /\ mpc \in {"idle", "take", "acquire"} /\ Fresh # {}
    /\ mchild' = NewChild /\ mexpect' = Nil /\ mpc' = "push"
    /\ mret' = IF mpc = "take" THEN "take" ELSE "idle"
    /\ children' = children \cup {NewChild}
    /\ \/ /\ idleWorkers > 0 /\ mtarget' \in IdleOnes
          /\ UNCHANGED <<workers, wpc>>
       \/ /\ idleWorkers = 0 \/ Cardinality(IdleOnes) < workers
          /\ CanCreate
          /\ workers' = workers + 1 /\ mtarget' = workers + 1
          /\ wpc' = [wpc EXCEPT ![workers + 1] = "top"]
       \/ /\ idleWorkers = 0 \/ Cardinality(IdleOnes) < workers
          /\ ~CanCreate
          /\ LET free == {w \in Made : tail[w] = Nil} IN
             mtarget' = IF free = {} THEN workers ELSE CHOOSE w \in free : \A v \in free : v <= w
          /\ UNCHANGED <<workers, wpc>>
    /\ UNCHANGED <<lists, idling, evtWait, pending, wchild, wexpect, ran, reaped>>

PushTodo ==
    /\ mpc = "push" /\ mpc' = "increment"
    /\ Push(mtarget, mchild, mexpect)
    /\ mchild' = Nil /\ mexpect' = Nil
    /\ UNCHANGED <<workers, idling, evtWait, pending, worker, mret, mtarget, fates>>

PushTodoAgain ==
    /\ mpc = "push" /\ tail[mtarget] # mexpect
    /\ mexpect' = tail[mtarget]
    /\ UNCHANGED <<lists, workers, idling, evtWait, pending, worker, mpc, mret, mchild,
                   mtarget, fates>>

IncrementPending ==
    /\ mpc = "increment" /\ mpc' = "isIdle"
    /\ pending' = pending + 1
    /\ UNCHANGED <<lists, workers, idling, evtWait, worker, mret, mchild, mtarget, mexpect,
                   fates>>

Pushed == mpc' = mret /\ mret' = "idle" /\ mtarget' = 1

(* The worker is woken if it says that it is idle.                         *)
IsIdle ==
    /\ mpc = "isIdle"
    /\ IF idle[mtarget] THEN mpc' = "wake" /\ UNCHANGED <<mret, mtarget>> ELSE Pushed
    /\ UNCHANGED <<lists, workers, idling, evtWait, pending, worker, mchild, mexpect, fates>>

WakeWorker ==
    /\ mpc = "wake" /\ Pushed
    /\ evtIdle' = [evtIdle EXCEPT ![mtarget] = TRUE]
    /\ UNCHANGED <<lists, workers, idle, idleWorkers, evtWait, pending, worker, mchild, mexpect,
                   fates>>
-----------------------------------------------------------------------------
(* The main thread: reap_children() calls MkWinChildWait(), first with     *)
(* fBlock as it was told to, and then without until no child is left.      *)
Go(from, to) ==
    /\ mpc = from /\ mpc' = to
    /\ UNCHANGED <<lists, workers, idling, pending, worker, mret, mtarget, mexpect, fates>>

ReapChildren(block) ==
    /\ children # {}
    /\ Go("idle", IF block THEN "noneCompleted" ELSE "take")
    /\ UNCHANGED <<evtWait, mchild>>

NoneCompleted ==
    /\ Go("noneCompleted", IF tail[Completed] = Nil THEN "somePending" ELSE "take")
    /\ UNCHANGED <<evtWait, mchild>>

SomePending ==
    /\ Go("somePending", IF pending > 0 THEN "asleep" ELSE "take")
    /\ UNCHANGED <<evtWait, mchild>>

WakeMain ==
    /\ evtWait /\ Go("asleep", "take")
    /\ evtWait' = FALSE /\ UNCHANGED mchild

(* The tail is read; null means that there is no child, which ends         *)
(* reap_children() also if it was to block and the event was a stale one.  *)
TakeCompleted ==
    /\ Go("take", IF tail[Completed] = Nil THEN "idle" ELSE "dequeue")
    /\ mchild' = tail[Completed] /\ UNCHANGED evtWait

DequeueCompleted ==
    /\ mpc = "dequeue" /\ mpc' = "take"
    /\ Dequeue(Completed, mchild)
    /\ reaped' = reaped \cup {Dequeued(Completed, mchild)}
    /\ children' = children \ {Dequeued(Completed, mchild)}
    /\ mchild' = Nil
    /\ UNCHANGED <<workers, idling, evtWait, pending, worker, mret, mtarget, mexpect, ran>>

(* jobserver_acquire() (w32os.c) waits for a token or for the same event,  *)
(* if no child has completed yet, and not for long; with a token new_job() *)
(* starts a job, without one it calls reap_children (0, 0).                *)
Acquire ==
    /\ children # {}
    /\ Go("idle", IF tail[Completed] = Nil THEN "acquire" ELSE "take")
    /\ UNCHANGED <<evtWait, mchild>>

AcquireFails ==
    /\ Go("acquire", "take")
    /\ evtWait' \in {evtWait, FALSE} /\ UNCHANGED mchild

Main ==
    \/ ChooseWorker \/ PushTodo \/ PushTodoAgain \/ IncrementPending \/ IsIdle \/ WakeWorker
    \/ \E b \in BOOLEAN : ReapChildren(b)
    \/ NoneCompleted \/ SomePending \/ WakeMain \/ TakeCompleted \/ DequeueCompleted
    \/ Acquire \/ AcquireFails

Next == Main \/ \E w \in Workers : Worker(w)

(* Threads run, children end, and kmk does not exit before it has reaped   *)
(* its children: it calls reap_children() until none is left.              *)
Fairness ==
    /\ \A w \in Workers : WF_vars(Worker(w))
    /\ WF_vars(\/ PushTodo \/ PushTodoAgain \/ IncrementPending \/ IsIdle \/ WakeWorker
               \/ ReapChildren(TRUE) \/ NoneCompleted \/ SomePending \/ WakeMain
               \/ TakeCompleted \/ DequeueCompleted \/ AcquireFails)

Spec     == Init /\ [][Next]_vars
FairSpec == Spec /\ Fairness
-----------------------------------------------------------------------------
(* Every variable has the values its declaration and its use allow.        *)
TypeOK ==
    /\ tail \in [Lists -> Pointers] /\ next \in [Children -> Pointers]
    /\ workers \in 0 .. MaxWorkers
    /\ idle \in [Workers -> BOOLEAN] /\ idleWorkers \in 0 .. MaxWorkers
    /\ evtIdle \in [Workers -> BOOLEAN] /\ evtWait \in BOOLEAN
    /\ pending \in Int
    /\ wpc \in [Workers -> {"none", "top", "sayIdle", "recheck", "notIdle", "count", "sleep",
                            "woken", "uncount", "reread", "dequeue", "run", "complete",
                            "decrement", "announce"}]
    /\ wchild \in [Workers -> Pointers] /\ wexpect \in [Workers -> Pointers]
    /\ mpc \in {"idle", "push", "increment", "isIdle", "wake", "noneCompleted", "somePending",
               "asleep", "take", "dequeue", "acquire"}
    /\ mret \in {"idle", "take"} /\ mchild \in Pointers /\ mtarget \in Workers
    /\ mexpect \in Pointers
    /\ children \subseteq Children /\ ran \in [Children -> Nat] /\ reaped \subseteq Children

(* The children on the workers' lists, and those that the workers run or   *)
(* are about to hand on.                                                   *)
Todo  == UNION {Range(Chain(w)) : w \in Workers}
Hands == {wchild[w] : w \in {v \in Workers : wpc[v] \in {"run", "complete"}}}

(* The two lock-free lists and the hands of the workers are the queue of   *)
(* module ChildQueue: no child is lost, run twice or reaped twice however  *)
(* pushes and removals meet, and children are reaped in the order in which *)
(* they completed.                                                         *)
Queue == INSTANCE ChildQueue
             WITH created   <- Todo \cup (IF mpc = "push" THEN {mchild} ELSE {}),
                  running   <- Hands,
                  completed <- Reverse(Chain(Completed))

ImplementsChildQueue == Queue!Spec

(* A main thread that sleeps is woken: a child is still to be completed,   *)
(* or the event is set, or the worker that will set it is on its way.      *)
SleeperIsWoken ==
    mpc = "asleep" =>
        \/ evtWait
        \/ \E w \in Workers : wpc[w] = "announce" \/ (wpc[w] = "decrement" /\ wexpect[w] = Nil)
        \/ tail[Completed] = Nil /\ Todo \cup Hands # {}

(* Every child that is queued is run and handed back, whichever worker     *)
(* gets it and however the wakeups of both sides race.                     *)
AllReaped == children # {} ~> children = {}
=============================================================================
