------------------------------ MODULE KSubmit -------------------------------
(***************************************************************************)
(* kSubmit (src/kmk/kmkbuiltin/kSubmit.c): jobs are given to kWorker       *)
(* processes that stay for the next job.  The main thread of kmk keeps     *)
(* them on a list of idle ones and a list of busy ones and in a hash table *)
(* by process id; a childcare thread (winchildren.c) waits for the result. *)
(* A process that has leaked too much says so with its result, and any may *)
(* die; kSubmit starts another one when it next needs the worker.          *)
(*                                                                         *)
(* The build is a release build (NDEBUG, Config.kmk): no assertion stops   *)
(* kmk.  Memory that was freed keeps its contents or, when it is read, is  *)
(* the end of kmk.                                                         *)
(***************************************************************************)
EXTENDS Integers, FiniteSets, Functions

CONSTANTS Workers,      \* one element per WORKERINSTANCE ever allocated
          Kinds,        \* cBitsWorker of the jobs: -3 and -6
          Slots,        \* the values of KWORKER_PID_HASH()
          Nil           \* the null pointer, and the hash of no process

ASSUME KSubmitAssumption ==
    /\ IsFiniteSet(Workers) /\ Nil \notin Workers \cup Slots
    /\ Kinds \subseteq {32, 64}

Lists    == {"idle", "busy"}        \* g_IdleList, g_BusyList
Pointers == Workers \cup {Nil}

(* An exit code is what the process has replied, or kSubmit's own 127 for  *)
(* a job that it could not get done.                                       *)
Outcomes == {"none", "replied", "error"}

VARIABLES
    links,      \* pHead and pTail of the lists, pNext and pPrev of the workers
    pidHash,    \* g_apPidHash
    slot,       \* hash of pid
    memory,     \* the instance: unused, live or freed
    bits,       \* cBits
    pipe,       \* hPipe is valid
    result,     \* Result, if cbResultRead says that it is there
    proc,       \* the kWorker process: none, ready, busy, leaving or dead
    replied,    \* its reply is in the pipe
    child,      \* the WINCHILD of the job: none, queued, or read
    exit,       \* what kmk was told of the last job given to the worker
    mpc, cur, retries,  \* main thread: where it is, pWorker, cRetries
    done        \* history: a process has done the last job of the worker

instances == <<links, pidHash, slot, memory, bits>>
processes == <<proc, replied, done>>
children  == <<child, exit>>
main      == <<mpc, cur, retries>>
vars      == <<instances, pipe, result, processes, children, main>>

Init ==
    /\ links = [head |-> [l \in Lists |-> Nil], tail |-> [l \in Lists |-> Nil],
                next |-> [w \in Workers |-> Nil], prev |-> [w \in Workers |-> Nil]]
    /\ pidHash = [s \in Slots |-> Nil] /\ slot = [w \in Workers |-> Nil]
    /\ memory = [w \in Workers |-> "unused"] /\ bits = [w \in Workers |-> 64]
    /\ pipe = [w \in Workers |-> FALSE] /\ result = [w \in Workers |-> "none"]
    /\ proc = [w \in Workers |-> "none"] /\ replied = [w \in Workers |-> FALSE]
    /\ child = [w \in Workers |-> "none"] /\ exit = [w \in Workers |-> "none"]
    /\ mpc = "idle" /\ cur = Nil /\ retries = 0
    /\ done = [w \in Workers |-> FALSE]
-----------------------------------------------------------------------------
(* What is reached from a pointer, however the chain ends.                 *)
Follow(link, from) ==
    LET nth[n \in 1 .. Cardinality(Workers)] ==
            IF n = 1 THEN from ELSE IF nth[n - 1] = Nil THEN Nil ELSE link[nth[n - 1]]
    IN  Restrict(nth, {n \in 1 .. Cardinality(Workers) : nth[n] # Nil})

(* A walk along a chain ends at the first worker of a set.                 *)
IsFirst(w, chain, set) ==
    \E i \in DOMAIN chain : /\ w = chain[i] /\ w \in set
                            /\ \A j \in 1 .. i - 1 : chain[j] \notin set

Members(l) == Range(Follow(links.next, links.head[l]))

(* Mutant: the next worker keeps its pPrev.                                *)
UnlinkForward(L, l, w) ==
    LET n == L.next[w]  p == L.prev[w]
    IN  [head |-> [L.head EXCEPT ![l] = IF p = Nil THEN n ELSE @],
         tail |-> [L.tail EXCEPT ![l] = IF n = Nil THEN p ELSE @],
         next |-> [x \in Workers |-> IF x = w THEN Nil ELSE IF x = p THEN n ELSE L.next[x]],
         prev |-> [L.prev EXCEPT ![w] = Nil]]

(* kSubmitListUnlink().                                                    *)
Unlink(L, l, w) ==
    LET n == L.next[w]  p == L.prev[w]
    IN  [head |-> [L.head EXCEPT ![l] = IF p = Nil THEN n ELSE @],
         tail |-> [L.tail EXCEPT ![l] = IF n = Nil THEN p ELSE @],
         next |-> [x \in Workers |-> IF x = w THEN Nil ELSE IF x = p THEN n ELSE L.next[x]],
         prev |-> [x \in Workers |-> IF x = w THEN Nil ELSE IF x = n THEN p ELSE L.prev[x]]]

(* kSubmitListAppend().                                                    *)
AppendTo(L, l, w) ==
    LET t == L.tail[l]
    IN  [head |-> [L.head EXCEPT ![l] = IF t = Nil THEN w ELSE @],
         tail |-> [L.tail EXCEPT ![l] = w],
         next |-> [x \in Workers |-> IF x = t THEN w ELSE IF x = w THEN Nil ELSE L.next[x]],
         prev |-> [L.prev EXCEPT ![w] = t]]

(* kSubmitPidHashRemove(): the chain is followed through pNext, the link   *)
(* of the lists, and not through pNextPidHash.                             *)
HashWalk(w)     == Follow(links.next, pidHash[slot[w]])
Before(w)       == {x \in Workers : links.next[x] = w}
HashPrevious(w) == {p \in Workers : IsFirst(p, HashWalk(w), Before(w))}

HashRemoved(w)  == IF pidHash[slot[w]] = w
                   THEN [pidHash EXCEPT ![slot[w]] = links.next[w]]
                   ELSE pidHash
LinksRemoved(w) == IF pidHash[slot[w]] = w THEN links
                   ELSE [links EXCEPT !.next = [x \in Workers |->
                            IF x \in HashPrevious(w) THEN links.next[w] ELSE links.next[x]]]
ReadsFreed(w)   == /\ pidHash[slot[w]] # w
                   /\ LET freed == {x \in Workers : memory[x] = "freed"}
                      IN  \E p \in freed : IsFirst(p, HashWalk(w), freed \cup Before(w))

(* kSubmitSpawnWorker() did it, and the caller enters the worker into the  *)
(* hash table.                                                             *)
Spawned(w, hash) ==
    \E s \in Slots :
    /\ slot' = [slot EXCEPT ![w] = s]
    /\ pidHash' = [hash EXCEPT ![s] = w]
    /\ pipe' = [pipe EXCEPT ![w] = TRUE]
    /\ proc' = [proc EXCEPT ![w] = "ready"] /\ replied' = [replied EXCEPT ![w] = FALSE]

(* The main thread goes on, or returns the exit code of the job.           *)
Goto(label)   == mpc' = label /\ UNCHANGED cur
Return(w, rc) == /\ mpc' = "idle" /\ cur' = Nil
                 /\ exit' = [exit EXCEPT ![w] = rc]
-----------------------------------------------------------------------------
(* The first idle worker of the right kind, if there is one.               *)
Suitable(b) ==
    {w \in Workers : IsFirst(w, Follow(links.next, links.head["idle"]),
                             {x \in Workers : bits[x] = b})}

(* kmk_builtin_kSubmit() and kSubmitSelectWorkSpawnNewIfNecessary(): it is *)
(* taken, and stays on the list for now.                                   *)
SelectIdle(b) ==
    /\ mpc = "idle"
    /\ \E w \in Suitable(b) :
       /\ mpc' = "send" /\ cur' = w
       /\ exit' = [exit EXCEPT ![w] = "none"]
    /\ UNCHANGED <<instances, pipe, result, processes, child, retries>>

(* There is none: a new one.  If none can be started, the job fails and    *)
(* nothing changes.                                                        *)
SelectNew(b) ==
    /\ mpc = "idle" /\ Suitable(b) = {}
    /\ \E w \in Workers :
       /\ memory[w] = "unused"
       /\ memory' = [memory EXCEPT ![w] = "live"] /\ bits' = [bits EXCEPT ![w] = b]
       /\ links' = AppendTo(links, "idle", w)
       /\ Spawned(w, pidHash)
       /\ mpc' = "send" /\ cur' = w
    /\ UNCHANGED <<result, done, children, retries>>

(* kSubmitRespawnWorker(): the pipe is closed, the old process ends or is  *)
(* ended, and a new one is started for the instance.                       *)
Respawn(w) ==
    /\ Spawned(w, HashRemoved(w))
    /\ links' = LinksRemoved(w)
    /\ Goto("write")
    /\ UNCHANGED <<memory, bits, result, done, children>>

(* No new process: the instance is freed, the job fails.                   *)
RespawnFails(w) ==
    /\ links' = Unlink(LinksRemoved(w), "idle", w)
    /\ pidHash' = HashRemoved(w) /\ slot' = [slot EXCEPT ![w] = Nil]
    /\ memory' = [memory EXCEPT ![w] = "freed"]
    /\ pipe' = [pipe EXCEPT ![w] = FALSE]
    /\ proc' = [proc EXCEPT ![w] = "none"] /\ replied' = [replied EXCEPT ![w] = FALSE]
    /\ Return(w, "error")
    /\ UNCHANGED <<bits, result, done, child>>

(* The walk has read memory that was freed.                                *)
Crash(w) ==
    /\ ReadsFreed(w)
    /\ Goto("crashed")
    /\ UNCHANGED <<instances, pipe, result, processes, children>>

Respawning(w) == Respawn(w) \/ RespawnFails(w) \/ Crash(w)

(* Mutant: the worker that has said good-bye is used as it is.             *)
SendUnchecked ==
    /\ mpc = "send"
    /\ retries' = 1
    /\ Goto("write") /\ UNCHANGED <<instances, pipe, result, processes, children>>

(* kSubmitSendJobMessage(): a worker whose pipe was closed is respawned.   *)
Send ==
    /\ mpc = "send"
    /\ retries' = 1
    /\ IF pipe[cur]
       THEN Goto("write") /\ UNCHANGED <<instances, pipe, result, processes, children>>
       ELSE Respawning(cur)

(* The message is written, unless the process is dead.                     *)
Write ==
    /\ mpc = "write" /\ proc[cur] # "dead"
    /\ proc' = [proc EXCEPT ![cur] = "busy"]
    /\ done' = [done EXCEPT ![cur] = FALSE]
    /\ Goto("mark")
    /\ UNCHANGED <<instances, pipe, result, replied, children, retries>>

(* Mutant: there is no end to the retries.                                 *)
WriteBrokenAgain ==
    /\ mpc = "write" /\ proc[cur] = "dead"
    /\ retries' = retries - 1
    /\ Respawning(cur)

(* The pipe is broken: one retry with a new process.                       *)
WriteBroken ==
    /\ mpc = "write" /\ proc[cur] = "dead" /\ retries > 0
    /\ retries' = retries - 1
    /\ Respawning(cur)

(* It is broken again, or the write fails for some other reason.           *)
WriteFails ==
    /\ mpc = "write" /\ (proc[cur] = "dead" => retries = 0)
    /\ Return(cur, "error")
    /\ UNCHANGED <<instances, pipe, result, processes, child, retries>>

(* kSubmitReadMoreResultWin(): the reply, or 127 for a broken pipe.        *)
CanRead(w)    == replied[w] \/ proc[w] = "dead"
WhatIsRead(w) == IF replied[w] THEN "replied" ELSE "error"

(* The result is complete; a worker that is exiting loses its connection   *)
(* (kSubmitCloseConnectOnExitingWorker()).                                 *)
Receive(w) ==
    /\ result' = [result EXCEPT ![w] = WhatIsRead(w)]
    /\ replied' = [replied EXCEPT ![w] = FALSE]
    /\ pipe' = [pipe EXCEPT ![w] = proc[w] = "ready"]
    /\ UNCHANGED <<instances, proc, done>>

(* Mutant: cbResultRead is not reset.                                      *)
MarkKeepsResult ==
    /\ mpc = "mark"
    /\ \/ /\ result[cur] # "none" /\ Return(cur, result[cur])
          /\ UNCHANGED <<instances, pipe, result, processes, child>>
       \/ /\ result[cur] = "none" /\ CanRead(cur)
          /\ Receive(cur) /\ Return(cur, WhatIsRead(cur)) /\ UNCHANGED child
       \/ /\ result[cur] = "none" /\ ~CanRead(cur)
          /\ child' = [child EXCEPT ![cur] = "queued"]
          /\ Goto("move")
          /\ UNCHANGED <<instances, pipe, result, processes, exit>>
    /\ UNCHANGED retries

(* kSubmitMarkActive(): the result may be there at once.  Otherwise a      *)
(* child is queued for the childcare threads (MkWinChildCreateSubmit()).   *)
MarkActive ==
    /\ mpc = "mark"
    /\ \/ /\ CanRead(cur)
          /\ Receive(cur) /\ Return(cur, WhatIsRead(cur)) /\ UNCHANGED child
       \/ /\ ~CanRead(cur)
          /\ result' = [result EXCEPT ![cur] = "none"]
          /\ child' = [child EXCEPT ![cur] = "queued"]
          /\ Goto("move")
          /\ UNCHANGED <<instances, pipe, processes, exit>>
    /\ UNCHANGED retries

(* Mutant: the worker stays on the idle list.                              *)
MoveNot ==
    /\ mpc = "move"
    /\ mpc' = "idle" /\ cur' = Nil
    /\ UNCHANGED <<instances, pipe, result, processes, children, retries>>

(* ... and the worker, which may have replied, goes to the busy list.      *)
MoveToBusy ==
    /\ mpc = "move"
    /\ links' = AppendTo(Unlink(links, "idle", cur), "busy", cur)
    /\ mpc' = "idle" /\ cur' = Nil
    /\ UNCHANGED <<pidHash, slot, memory, bits, pipe, result, processes, children, retries>>

(* kSubmitSubProcGetResult() on the childcare thread.                      *)
GetResult(w) ==
    /\ child[w] = "queued" /\ CanRead(w)
    /\ Receive(w)
    /\ child' = [child EXCEPT ![w] = "read"]
    /\ exit' = [exit EXCEPT ![w] = WhatIsRead(w)]
    /\ UNCHANGED main

(* kmk reaps the child: kSubmitSubProcCleanup() on the main thread.        *)
Cleanup(w) ==
    /\ mpc = "idle" /\ child[w] = "read"
    /\ links' = AppendTo(Unlink(links, "busy", w), "idle", w)
    /\ child' = [child EXCEPT ![w] = "none"]
    /\ UNCHANGED <<pidHash, slot, memory, bits, pipe, result, processes, exit, main>>
-----------------------------------------------------------------------------
(* The kWorker process does the job and replies; it stays for more, or     *)
(* waits for kSubmit to close the pipe.                                    *)
Work(w) ==
    /\ proc[w] = "busy"
    /\ \E p \in {"ready", "leaving"} : proc' = [proc EXCEPT ![w] = p]
    /\ replied' = [replied EXCEPT ![w] = TRUE] /\ done' = [done EXCEPT ![w] = TRUE]
    /\ UNCHANGED <<instances, pipe, result, children, main>>

(* It ends: because the pipe was closed, or by itself.  A reply that was   *)
(* not read is lost with it.                                               *)
Die(w) ==
    /\ proc[w] \in {"ready", "busy", "leaving"}
    /\ proc' = [proc EXCEPT ![w] = "dead"] /\ replied' = [replied EXCEPT ![w] = FALSE]
    /\ UNCHANGED <<instances, pipe, result, done, children, main>>

Submit == \/ \E b \in Kinds : SelectIdle(b) \/ SelectNew(b)
          \/ Send \/ Write \/ WriteBroken \/ WriteFails \/ MarkActive \/ MoveToBusy

Next == Submit \/ \E w \in Workers : GetResult(w) \/ Cleanup(w) \/ Work(w) \/ Die(w)

Spec == Init /\ [][Next]_vars
-----------------------------------------------------------------------------
(* Every variable has the values its C declaration and its use allow.      *)
TypeOK ==
    /\ links \in [head : [Lists -> Pointers], tail : [Lists -> Pointers],
                  next : [Workers -> Pointers], prev : [Workers -> Pointers]]
    /\ pidHash \in [Slots -> Pointers] /\ slot \in [Workers -> Slots \cup {Nil}]
    /\ memory \in [Workers -> {"unused", "live", "freed"}] /\ bits \in [Workers -> {32, 64}]
    /\ pipe \in [Workers -> BOOLEAN] /\ result \in [Workers -> Outcomes]
    /\ proc \in [Workers -> {"none", "ready", "busy", "leaving", "dead"}]
    /\ replied \in [Workers -> BOOLEAN] /\ done \in [Workers -> BOOLEAN]
    /\ child \in [Workers -> {"none", "queued", "read"}] /\ exit \in [Workers -> Outcomes]
    /\ mpc \in {"idle", "send", "write", "mark", "move", "crashed"}
    /\ cur \in Pointers /\ retries \in 0 .. 1

(* A worker is never asked to do a job before its last one was reaped, and *)
(* a job is only written to a connection that is open: not to a worker     *)
(* that has said good-bye, and not through freed memory.                   *)
AloneOnWorker ==
    /\ mpc \in {"send", "write", "mark"} => child[cur] = "none"
    /\ mpc \in {"write", "mark"} => pipe[cur] /\ memory[cur] = "live"

(* kmk is told that a job was done only if a kWorker has done that job.    *)
StatusIsOwn == \A w \in Workers : exit[w] = "replied" => done[w]

(* The workers on the busy list are those whose child is still to be       *)
(* reaped, and an instance that was freed is on no list: whatever the hash *)
(* table does to the links.                                                *)
BusyIsBusy ==
    /\ Members("busy") = {w \in Workers : child[w] # "none"} \ (IF mpc = "move" THEN {cur} ELSE {})
    /\ Members("busy") \cap Members("idle") = {}
    /\ \A w \in Members("idle") : memory[w] = "live"

(* What kSubmitListUnlink() asserts of its worker, of each worker that is  *)
(* in use.                                                                 *)
LinksHold ==
    \A w \in Workers : memory[w] = "live" =>
        /\ links.next[w] # Nil => links.prev[links.next[w]] = w
        /\ links.prev[w] # Nil => links.next[links.prev[w]] = w
=============================================================================
