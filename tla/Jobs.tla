-------------------------------- MODULE Jobs --------------------------------
(***************************************************************************)
(* Job control of one kmk process (src/kmk/job.c): new_job() gives a       *)
(* target's recipe a job slot or a jobserver token and starts its first    *)
(* command, reap_children() collects dead children, starts their next      *)
(* command and finishes the target, start_waiting_jobs() retries the jobs  *)
(* put aside because of the load or of .NOTPARALLEL, and die() drains what *)
(* still runs.                                                             *)
(*                                                                         *)
(* kmk is single-threaded; its children, the load and the other makes that *)
(* share the jobserver run beside it.  The procedures call each other, so  *)
(* the state has a label, pc, and a stack of labels to return to.          *)
(***************************************************************************)
EXTENDS Integers, Sequences, FiniteSets, Functions

CONSTANTS Targets,      \* the targets to make
          MaxLines,     \* bound: the lines of a recipe
          Invocations,  \* how kmk may be called, and on what makefile
          NoPid, FakePid,   \* child.pid: 0, and 42424242 of a failed builtin
          NoTarget          \* C and FILE before the first job

(* One command line of a recipe, and whether it begins with '-'.           *)
Lines == [cmd : {"run", "recurse", "builtin", "empty"}, noerror : BOOLEAN]

Modes == {"linear", "unlimited", "jobserver"}      \* -j1, -j, and -jN

ASSUME JobsAssumption ==
    /\ IsFiniteSet(Targets) /\ MaxLines \in Nat
    /\ \A i \in Invocations :
         /\ i.makefiles \subseteq [Targets -> Seq(Lines)]
         /\ \A m \in i.makefiles : \A t \in Targets : Len(m[t]) <= MaxLines
         /\ i.mode \in Modes
         /\ i.tokens \in Nat
         /\ {i.keepGoing, i.question, i.loadLimit, i.forkFails} \subseteq BOOLEAN
    /\ NoPid # FakePid /\ {NoPid, FakePid} \cap (Targets \X (1 .. MaxLines)) = {}
    /\ NoTarget \notin Targets

VARIABLES
    invocation,         \* the command line and the environment; never changes
    recipe, alone,      \* file->cmds; the files marked COMMANDS_NOTPARALLEL
    commandState,       \* file->command_state
    updateStatus,       \* file->update_status
    line,               \* child->command_line of the file's child
    pid,                \* child->pid
    hasStatus,          \* child->has_status
    children,           \* the chain of started children, newest first
    waitingJobs,        \* the chain waiting_jobs
    jobSlotsUsed,       \* job_slots_used
    jobserverTokens,    \* jobserver_tokens
    notParallel,        \* not_parallel
    pool, others,       \* tokens in the pipe, and taken by the other makes
    exit, waited,       \* the children: how each ended; those wait() has given
    pc, stack,          \* where kmk is, and the labels to return to
    cur, new,           \* start_waiting_job()'s C, new_job()'s FILE
    block,              \* reap_children()'s BLOCK
    dying, status       \* die() was called, and with which status

files   == <<commandState, updateStatus>>
child   == <<line, pid, hasStatus>>
chains  == <<children, waitingJobs, jobSlotsUsed>>
tokens  == <<jobserverTokens, pool, others>>
system  == <<exit, waited>>
control == <<pc, stack>>
locals  == <<cur, new, block, dying, status>>
given   == <<invocation, recipe, alone>>
vars    == <<given, files, child, chains, tokens, notParallel, system, control, locals>>

Makefiles == invocation.makefiles   \* the recipes the targets may have
Mode      == invocation.mode        \* how the number of jobs is limited
Tokens    == invocation.tokens      \* in the jobserver pipe, when there is one
KeepGoing == invocation.keepGoing   \* keep_going_flag (-k)
Question  == invocation.question    \* question_flag (-q)
LoadLimit == invocation.loadLimit   \* max_load_average is set (-l)
ForkFails == invocation.forkFails   \* child_execute_job() may fail to fork

Procs    == Targets \X (1 .. MaxLines)  \* the process a line's command runs in
Results  == {"ok", "fail", "trouble"}   \* exit status 0, 2 or a signal, 1

Alive   == {p \in Procs : exit[p] = "running"}
Zombies == {p \in Procs : exit[p] \in Results} \ waited
Line(t) == recipe[t][line[t]]
One(b)  == IF b THEN 1 ELSE 0

(* A target without a recipe needs no job: it is made.                     *)
Init ==
    /\ invocation \in Invocations
    /\ recipe \in Makefiles /\ alone \in SUBSET {t \in Targets : recipe[t] # <<>>}
    /\ commandState = [t \in Targets |-> IF recipe[t] = <<>> THEN "finished" ELSE "not_started"]
    /\ updateStatus = [t \in Targets |-> IF recipe[t] = <<>> THEN "success" ELSE "none"]
    /\ line = [t \in Targets |-> 1]
    /\ pid = [t \in Targets |-> NoPid]
    /\ hasStatus = [t \in Targets |-> FALSE]
    /\ children = <<>> /\ waitingJobs = <<>> /\ jobSlotsUsed = 0
    /\ jobserverTokens = 0 /\ pool = Tokens /\ others = 0
    /\ notParallel \in (IF alone = {} THEN {0, -1} ELSE {0})
    /\ exit = [p \in Procs |-> "none"] /\ waited = {}
    /\ pc = "chain" /\ stack = <<>>
    /\ cur = NoTarget /\ new = NoTarget
    /\ block = FALSE /\ dying = FALSE /\ status = 0

Goto(label)       == pc' = label /\ UNCHANGED stack
Call(label, back) == pc' = label /\ stack' = <<back>> \o stack
Return            == pc' = Head(stack) /\ stack' = Tail(stack)
ReapThen(b, back) == Call("reap", back) /\ block' = b
-----------------------------------------------------------------------------
(* Mutant: not_parallel is not decremented.                                *)
NoticeFinishedUncounted(t, s) ==
    /\ updateStatus' = [updateStatus EXCEPT ![t] = s]
    /\ commandState' = [commandState EXCEPT ![t] = "finished"]
    /\ UNCHANGED notParallel

(* notice_finished_file(): the file is finished, with update status s; a   *)
(* not-parallel file that was running no longer counts.                    *)
NoticeFinished(t, s) ==
    /\ updateStatus' = [updateStatus EXCEPT ![t] = s]
    /\ notParallel' = notParallel - One(t \in alone /\ commandState[t] = "running")
    /\ commandState' = [commandState EXCEPT ![t] = "finished"]

(* Mutant: the free token is written to the pipe, too.                     *)
FreeChildAlwaysWrites ==
    /\ jobserverTokens' = jobserverTokens - 1
    /\ pool' = pool + One(Mode = "jobserver")
    /\ UNCHANGED others

(* free_child(): give back the token of a child that is not the last one.  *)
FreeChild ==
    /\ jobserverTokens' = jobserverTokens - 1
    /\ pool' = pool + One(Mode = "jobserver" /\ jobserverTokens > 1)
    /\ UNCHANGED others
-----------------------------------------------------------------------------
(* start_job_command(): the current line of cur.  A line that runs nothing *)
(* in a process of its own goes on with the next (next_command).           *)

Starting == pc = "start" /\ UNCHANGED <<given, chains, tokens, locals>>

NextCommand ==
    IF line[cur] < Len(recipe[cur])
    THEN /\ line' = [line EXCEPT ![cur] = @ + 1]
         /\ UNCHANGED <<updateStatus, notParallel, control>>
    ELSE /\ updateStatus' = [updateStatus EXCEPT ![cur] = "success"]
         /\ notParallel' = notParallel - One(cur \in alone)
         /\ Return
         /\ UNCHANGED line

LastCommand == line[cur] = Len(recipe[cur])

StartEmpty ==
    /\ Starting /\ Line(cur).cmd = "empty"
    /\ NextCommand
    /\ commandState' = [commandState EXCEPT ![cur] = IF LastCommand THEN "finished" ELSE @]
    /\ UNCHANGED <<pid, hasStatus, system>>

(* -q: there is something to do.                                           *)
StartQuestion ==
    /\ Starting /\ Question /\ Line(cur).cmd \in {"run", "builtin"}
    /\ NoticeFinished(cur, "question")
    /\ Return
    /\ UNCHANGED <<child, system>>

StartProcess ==
    /\ Starting
    /\ Line(cur).cmd = "recurse" \/ (Line(cur).cmd = "run" /\ ~Question)
    /\ pid' = [pid EXCEPT ![cur] = <<cur, line[cur]>>]
    /\ exit' = [exit EXCEPT ![<<cur, line[cur]>>] = "running"]
    /\ commandState' = [commandState EXCEPT ![cur] = "running"]
    /\ Return
    /\ UNCHANGED <<updateStatus, line, hasStatus, notParallel, waited>>

StartForkFails ==
    /\ Starting /\ ForkFails
    /\ Line(cur).cmd = "recurse" \/ (Line(cur).cmd = "run" /\ ~Question)
    /\ NoticeFinished(cur, "failed")
    /\ Return
    /\ UNCHANGED <<child, system>>

StartBuiltinOk ==
    /\ Starting /\ Line(cur).cmd = "builtin" /\ ~Question
    /\ pid' = [pid EXCEPT ![cur] = NoPid]
    /\ exit' = [exit EXCEPT ![<<cur, line[cur]>>] = "ok"]
    /\ waited' = waited \cup {<<cur, line[cur]>>}
    /\ NextCommand
    /\ commandState' = [commandState EXCEPT ![cur] = IF LastCommand THEN "finished" ELSE "running"]
    /\ UNCHANGED hasStatus

StartBuiltinFails ==
    /\ Starting /\ Line(cur).cmd = "builtin" /\ ~Question
    /\ pid' = [pid EXCEPT ![cur] = FakePid]
    /\ hasStatus' = [hasStatus EXCEPT ![cur] = TRUE]
    /\ exit' = [exit EXCEPT ![<<cur, line[cur]>>] = "fail"]
    /\ waited' = waited \cup {<<cur, line[cur]>>}
    /\ commandState' = [commandState EXCEPT ![cur] = "running"]
    /\ Return
    /\ UNCHANGED <<updateStatus, line, notParallel>>

StartJobCommand == \/ StartEmpty \/ StartQuestion \/ StartProcess \/ StartForkFails
                   \/ StartBuiltinOk \/ StartBuiltinFails
-----------------------------------------------------------------------------
(* reap_children(block, err); err is set in die() only.                    *)

Reaping == pc = "reap" /\ children # <<>>

(* The child found with has_status set: the last one of the chain.         *)
Completed == {i \in DOMAIN children : hasStatus[children[i]]}
CompletedChild == children[CHOOSE i \in Completed : \A j \in Completed : j <= i]

(* The first child of the chain with that pid.                             *)
Matching(p) == {i \in DOMAIN children : pid[children[i]] = p}
ChildOf(p)  == children[CHOOSE i \in Matching(p) : \A j \in Matching(p) : i <= j]

ReapReturns ==
    /\ pc = "reap" /\ children = <<>>
    /\ Return
    /\ UNCHANGED <<given, files, child, chains, tokens, notParallel, system, locals>>

(* waitpid (WNOHANG) finds nothing.  Without any process it would fail,    *)
(* and kmk with it; kmk is stuck here then.                                *)
ReapNothing ==
    /\ Reaping /\ ~block /\ Completed = {} /\ Zombies = {} /\ Alive # {}
    /\ Return
    /\ UNCHANGED <<given, files, child, chains, tokens, notParallel, system, locals>>

(* The chain without its i-th child.                                       *)
Unlinked(i) == SubSeq(children, 1, i - 1) \o SubSeq(children, i + 1, Len(children))

(* Finish C with update status s: out of the chain, and its token back; or *)
(* die (KMK: before the child is freed) when it failed and -k is not given.*)
FinishChild(c, s, failure) ==
    /\ NoticeFinished(c, s)
    /\ jobSlotsUsed' = jobSlotsUsed - One(jobSlotsUsed > 0)
    /\ children' = Unlinked(CHOOSE i \in DOMAIN children : children[i] = c)
    /\ IF failure # 0 /\ ~dying /\ ~KeepGoing
       THEN /\ dying' = TRUE /\ status' = failure
            /\ pc' = "die" /\ stack' = <<>>
            /\ UNCHANGED <<tokens, block>>
       ELSE /\ FreeChild
            /\ block' = FALSE
            /\ pc' = "reap"
            /\ UNCHANGED <<stack, dying, status>>
    /\ UNCHANGED <<given, child, waitingJobs, cur, new>>

(* Mutant: a death by a signal is not a failure.                           *)
FailureUnlessSignal(c, e) == IF e = "fail" THEN 2 ELSE 0

Failure(c, e) == CASE e = "ok"                                                -> 0
                   [] e = "trouble" /\ Question /\ Line(c).cmd = "recurse"    -> 1
                   [] OTHER                                                   -> 2

(* A child has ended with e: its target fails, or it is over, or the next  *)
(* line is started.                                                        *)
HandleExit(c, e) ==
    \/ /\ Failure(c, e) # 0 /\ ~Line(c).noerror
       /\ FinishChild(c, IF Failure(c, e) = 2 THEN "failed" ELSE "question", Failure(c, e))
    \/ /\ Failure(c, e) = 0 \/ Line(c).noerror
       /\ line[c] = Len(recipe[c])
       /\ FinishChild(c, "success", 0)
    \/ /\ Failure(c, e) = 0 \/ Line(c).noerror
       /\ line[c] < Len(recipe[c])
       /\ line' = [line EXCEPT ![c] = @ + 1]
       /\ cur' = c
       /\ Call("start", "reap_started")
       /\ UNCHANGED <<given, files, pid, hasStatus, chains, tokens, notParallel,
                      new, block, dying, status>>

(* A builtin's failure is taken from the child structure.                  *)
ReapCompleted ==
    /\ Reaping /\ Completed # {}
    /\ HandleExit(ChildOf(pid[CompletedChild]), "fail")
    /\ UNCHANGED system

(* wait() gives the status of a dead child, in any order.                  *)
ReapProcess(p) ==
    /\ Reaping /\ Completed = {} /\ p \in Zombies /\ Matching(p) # {}
    /\ waited' = waited \cup {p}
    /\ HandleExit(ChildOf(p), exit[p])
    /\ UNCHANGED exit

(* "An unknown child died.  Ignore it; it was inherited from our invoker." *)
ReapUnknown(p) ==
    /\ Reaping /\ Completed = {} /\ p \in Zombies /\ Matching(p) = {}
    /\ waited' = waited \cup {p}
    /\ UNCHANGED <<given, files, child, chains, tokens, notParallel, exit, control, locals>>

(* Back from starting the next line of a child.                            *)
ReapStarted ==
    /\ pc = "reap_started"
    /\ \/ /\ commandState[cur] = "running"
          /\ Goto("reap")
          /\ UNCHANGED <<given, files, child, chains, tokens, notParallel, locals>>
       \/ /\ commandState[cur] = "finished"
          /\ FinishChild(cur, updateStatus[cur], 0)
    /\ UNCHANGED system

ReapChildren == \/ ReapReturns \/ ReapNothing \/ ReapCompleted \/ ReapStarted
                \/ \E p \in Procs : ReapProcess(p) \/ ReapUnknown(p)
-----------------------------------------------------------------------------
(* start_waiting_job(cur), which returns 0 when it queues the job, so that *)
(* start_waiting_jobs() stops, and 1 when it has started the job.          *)

NowNotParallel == notParallel + One(cur \in alone)


QueueJob ==
    /\ pc = "start_waiting_job" /\ jobSlotsUsed > 0
    /\ NowNotParallel > 0 \/ LoadLimit
    /\ notParallel' = NowNotParallel
    /\ commandState' = [commandState EXCEPT ![cur] = "running"]
    /\ waitingJobs' = IF cur \in alone THEN Append(waitingJobs, cur) ELSE <<cur>> \o waitingJobs
    /\ LET rest == IF Head(stack) = "start_waiting_jobs" THEN Tail(stack) ELSE stack
       IN  pc' = Head(rest) /\ stack' = Tail(rest)
    /\ UNCHANGED <<given, updateStatus, child, children, jobSlotsUsed, tokens, system, locals>>

(* Mutant: not_parallel is looked at before the job is counted.            *)
StartNowUncounted ==
    /\ pc = "start_waiting_job" /\ (jobSlotsUsed = 0 \/ notParallel <= 0)
    /\ notParallel' = NowNotParallel
    /\ Call("start", "started")
    /\ UNCHANGED <<given, files, child, chains, tokens, system, locals>>

StartNow ==
    /\ pc = "start_waiting_job" /\ (jobSlotsUsed = 0 \/ NowNotParallel <= 0)
    /\ notParallel' = NowNotParallel
    /\ Call("start", "started")
    /\ UNCHANGED <<given, files, child, chains, tokens, system, locals>>

(* Mutant: a job is linked into the chain although its recipe is done.     *)
StartedAlwaysLinked ==
    /\ pc = "started"
    /\ children' = <<cur>> \o children
    /\ jobSlotsUsed' = jobSlotsUsed + 1
    /\ Return
    /\ UNCHANGED <<given, files, child, waitingJobs, tokens, notParallel, system, locals>>

(* Put the child on the chain, or free it if its recipe is already done.   *)
Started ==
    /\ pc = "started"
    /\ \/ /\ commandState[cur] = "running"
          /\ children' = <<cur>> \o children
          /\ jobSlotsUsed' = jobSlotsUsed + 1
          /\ UNCHANGED tokens
       \/ /\ commandState[cur] = "finished"
          /\ FreeChild
          /\ UNCHANGED <<children, jobSlotsUsed>>
    /\ Return
    /\ UNCHANGED <<given, files, child, waitingJobs, notParallel, system, locals>>

(* start_waiting_jobs(): reap, then take the head of the waiting chain.    *)
StartWaitingJobs ==
    /\ pc = "start_waiting_jobs"
    /\ IF waitingJobs = <<>> THEN Return /\ UNCHANGED block
                             ELSE ReapThen(FALSE, "take_waiting")
    /\ UNCHANGED <<given, files, child, chains, tokens, notParallel, system, cur, new,
                   dying, status>>

TakeWaiting ==
    /\ pc = "take_waiting"
    /\ cur' = Head(waitingJobs) /\ waitingJobs' = Tail(waitingJobs)
    /\ notParallel' = notParallel - One(Head(waitingJobs) \in alone)
    /\ Call("start_waiting_job", "start_waiting_jobs")
    /\ UNCHANGED <<given, files, child, children, jobSlotsUsed, tokens, system, new, block,
                   dying, status>>

WaitingJobs == QueueJob \/ StartNow \/ Started \/ StartWaitingJobs \/ TakeWaiting
-----------------------------------------------------------------------------
(* new_job(FILE).                                                          *)

NewJob(t) ==
    /\ pc = "chain" /\ commandState[t] = "not_started"
    /\ new' = t
    /\ Call("start_waiting_jobs", "reap_before")
    /\ UNCHANGED <<given, files, child, chains, tokens, notParallel, system, cur, block,
                   dying, status>>

ReapBefore ==
    /\ pc = "reap_before"
    /\ ReapThen(FALSE, "wait_slot")
    /\ UNCHANGED <<given, files, child, chains, tokens, notParallel, system, cur, new,
                   dying, status>>

(* Wait for a job slot (job_slots is 1), or make sure there is a token: a  *)
(* kmk without a job uses the one it was given by its parent.              *)
HaveSlot == CASE Mode = "linear"     -> jobSlotsUsed # 1
              [] Mode = "unlimited"  -> TRUE
              [] Mode = "jobserver"  -> jobserverTokens = 0

WaitSlot ==
    /\ pc = "wait_slot"
    /\ \/ HaveSlot /\ Goto("have_slot") /\ UNCHANGED block
       \/ ~HaveSlot /\ Mode = "linear" /\ ReapThen(TRUE, "wait_slot")
       \/ ~HaveSlot /\ Mode = "jobserver" /\ ReapThen(FALSE, "start_waiting")
    /\ UNCHANGED <<given, files, child, chains, tokens, notParallel, system, cur, new,
                   dying, status>>

StartWaiting ==
    /\ pc = "start_waiting"
    /\ Call("start_waiting_jobs", "free_token")
    /\ UNCHANGED <<given, files, child, chains, tokens, notParallel, system, locals>>

(* The "free" token may have become free; if not, sleep on the pipe.       *)
FreeToken ==
    /\ pc = "free_token"
    /\ IF jobserverTokens = 0 THEN Goto("have_slot") ELSE Goto("acquire")
    /\ UNCHANGED <<given, files, child, chains, tokens, notParallel, system, locals>>

(* jobserver_acquire(): a token, or 0 for a SIGCHLD or after one second if *)
(* jobs are waiting for the load.                                          *)
Acquire ==
    /\ pc = "acquire"
    /\ \/ pool > 0 /\ pool' = pool - 1 /\ Goto("have_slot")
       \/ /\ Zombies # {} \/ waitingJobs # <<>>
          /\ Goto("wait_slot")
          /\ UNCHANGED pool
    /\ UNCHANGED <<given, files, child, chains, jobserverTokens, others, notParallel, system,
                   locals>>

StartNewJob ==
    /\ pc = "have_slot"
    /\ jobserverTokens' = jobserverTokens + 1
    /\ cur' = new
    /\ Call("start_waiting_job", "linear")
    /\ UNCHANGED <<given, files, child, chains, pool, others, notParallel, system, new, block,
                   dying, status>>

(* With one slot or .NOTPARALLEL wait for the job; while not-parallel jobs *)
(* are in progress, wait for the children that run.                        *)
Linear ==
    /\ pc = "linear"
    /\ IF /\ commandState[new] = "running"
          /\ \/ Mode = "linear" \/ notParallel < 0
             \/ notParallel > 0 /\ children # <<>>
       THEN ReapThen(TRUE, "linear")
       ELSE Goto("chain") /\ UNCHANGED block
    /\ UNCHANGED <<given, files, child, chains, tokens, notParallel, system, cur, new,
                   dying, status>>

NewJobSteps == ReapBefore \/ WaitSlot \/ StartWaiting \/ FreeToken \/ Acquire
                  \/ StartNewJob \/ Linear
-----------------------------------------------------------------------------
(* update_goal_chain(), as far as job control goes: while goals remain,    *)
(* start what is waiting and wait for a child.  Then die (status).         *)

NextRound ==
    /\ pc = "chain" /\ \E t \in Targets : commandState[t] = "running"
    /\ Call("start_waiting_jobs", "reap_round")
    /\ UNCHANGED <<given, files, child, chains, tokens, notParallel, system, locals>>

ReapRound ==
    /\ pc = "reap_round"
    /\ ReapThen(TRUE, "chain")
    /\ UNCHANGED <<given, files, child, chains, tokens, notParallel, system, cur, new,
                   dying, status>>

ExitStatus(s) == CASE s = "failed" -> 2 [] s = "question" -> 1 [] OTHER -> 0

(* Every goal is done, or one is lost and the others are given up.         *)
LastRound ==
    /\ pc = "chain"
    /\ \E t \in Targets :
         /\ status' = ExitStatus(updateStatus[t])
         /\ \A u \in Targets : commandState[u] = "running" => ~KeepGoing /\ status' # 0
         /\ status' = 0 => \A u \in Targets : updateStatus[u] \notin {"failed", "question"}
    /\ dying' = TRUE
    /\ Goto("die")
    /\ UNCHANGED <<given, files, child, chains, tokens, notParallel, system, cur, new, block>>

(* die(): wait for the children to die.                                    *)
DieReaps ==
    /\ pc = "die" /\ jobSlotsUsed > 0
    /\ ReapThen(TRUE, "die")
    /\ UNCHANGED <<given, files, child, chains, tokens, notParallel, system, cur, new,
                   dying, status>>

(* clean_jobserver(): with status 2 the tokens kmk still has go back.      *)
CleanJobserver ==
    /\ pc = "die" /\ jobSlotsUsed = 0
    /\ IF Mode = "jobserver" /\ jobserverTokens > 0 /\ status = 2
       THEN pool' = pool + jobserverTokens - 1 /\ jobserverTokens' = 0
       ELSE UNCHANGED <<pool, jobserverTokens>>
    /\ Goto("exited")
    /\ UNCHANGED <<given, files, child, chains, others, notParallel, system, locals>>

Kmk == \/ StartJobCommand \/ ReapChildren \/ WaitingJobs \/ NewJobSteps
       \/ \E t \in Targets : NewJob(t)
       \/ NextRound \/ ReapRound \/ LastRound \/ DieReaps \/ CleanJobserver
-----------------------------------------------------------------------------
(* The processes kmk has started, and the makes it shares the pipe with.   *)

ProcessExits(p) ==
    /\ exit[p] = "running"
    /\ \E r \in Results : exit' = [exit EXCEPT ![p] = r]
    /\ UNCHANGED <<given, files, child, chains, tokens, notParallel, waited, control, locals>>

OtherTakes ==
    /\ Mode = "jobserver" /\ pool > 0
    /\ pool' = pool - 1 /\ others' = others + 1
    /\ UNCHANGED <<given, files, child, chains, jobserverTokens, notParallel, system, control,
                   locals>>

OtherGives ==
    /\ others > 0
    /\ pool' = pool + 1 /\ others' = others - 1
    /\ UNCHANGED <<given, files, child, chains, jobserverTokens, notParallel, system, control,
                   locals>>

Next == Kmk \/ OtherTakes \/ OtherGives \/ \E p \in Procs : ProcessExits(p)

(* kmk runs while it can and every process ends; nothing is assumed of the *)
(* other makes, which may keep every token they get.                       *)
Spec     == Init /\ [][Next]_vars
FairSpec == Spec /\ WF_vars(Kmk) /\ \A p \in Procs : WF_vars(ProcessExits(p))

-----------------------------------------------------------------------------
(* Every variable has the values its C declaration and its use allow.      *)
TypeOK ==
    /\ invocation \in Invocations
    /\ recipe \in Makefiles /\ alone \in SUBSET Targets
    /\ commandState \in [Targets -> {"not_started", "running", "finished"}]
    /\ updateStatus \in [Targets -> {"none", "success", "failed", "question"}]
    /\ \A t \in Targets : line[t] \in DOMAIN recipe[t] \/ recipe[t] = <<>>
    /\ pid \in [Targets -> Procs \cup {NoPid, FakePid}]
    /\ hasStatus \in [Targets -> BOOLEAN]
    /\ children \in Seq(Targets) /\ waitingJobs \in Seq(Targets)
    /\ jobSlotsUsed \in Nat /\ jobserverTokens \in Nat
    /\ notParallel \in Int
    /\ pool \in 0 .. Tokens /\ others \in 0 .. Tokens
    /\ exit \in [Procs -> {"none", "running"} \cup Results] /\ waited \subseteq Procs
    /\ cur \in Targets \cup {NoTarget} /\ new \in Targets \cup {NoTarget}
    /\ block \in BOOLEAN /\ dying \in BOOLEAN /\ status \in 0 .. 2

(* The job start_waiting_job() is about to put on a chain, if there is one.*)
InHand == IF \/ pc \in {"start_waiting_job", "started"}
             \/ pc = "start" /\ Head(stack) = "started"
          THEN {cur} ELSE {}

(* A job is on one chain, once, as long as its commands are in progress;   *)
(* job_slots_used and jobserver_tokens count what the chains hold, so that *)
(* free_child() has a token to free, and a blocking wait a child to wait   *)
(* for ("INTERNAL: Freeing child ... but no tokens left", "INTERNAL: no    *)
(* children as we go to sleep on read").                                   *)
JobsAccounted ==
    /\ jobSlotsUsed = Len(children)
    /\ Cardinality(Range(children) \cup Range(waitingJobs) \cup InHand)
          = Len(children) + Len(waitingJobs) + Cardinality(InHand)
    /\ ~dying => jobserverTokens = Len(children) + Len(waitingJobs) + Cardinality(InHand)
    /\ dying /\ pc # "exited" => jobserverTokens >= Len(children) + Len(waitingJobs)
    /\ pc = "chain" => \A t \in Targets : commandState[t] = "running"
                          <=> t \in Range(children) \cup Range(waitingJobs)
    /\ pc = "acquire" => children # <<>>

(* No token is lost or made up: those in the pipe, those of the other      *)
(* makes and those kmk has beyond its own free one are what the top make   *)
(* wrote into the pipe; and unless -q ended it, kmk exits with every token *)
(* it took written back, with nothing for clean_jobserver() to complain of.*)
TokensConserved ==
    Mode = "jobserver" =>
        /\ pool + others + (IF jobserverTokens = 0 THEN 0
                            ELSE jobserverTokens - One(pc # "have_slot")) = Tokens
        /\ pc = "exited" /\ status # 1 => jobserverTokens = 0

(* A not-parallel file's job is alone on the chain of running children.    *)
NotParallelAlone ==
    \A t \in alone : t \in Range(children) => children = <<t>>

(* not_parallel is "the number of notparallel files in progress (running   *)
(* or queued for running)", as long as every command that is to be started *)
(* is: with -q, or when fork() fails, a file that was counted is finished  *)
(* before it was running, and stays counted.                               *)
NotParallelCounts ==
    notParallel >= 0 /\ pc \in {"chain", "acquire", "die"} /\ ~Question /\ ~ForkFails
        => notParallel = Cardinality(alone \cap (Range(children) \cup Range(waitingJobs)))

(* A target that is said to be up to date has had every line of its recipe *)
(* run to its end, in order, and none failed but those whose failure is    *)
(* ignored.                                                                *)
SuccessMeansDone ==
    \A t \in Targets : commandState[t] = "finished" /\ updateStatus[t] = "success" =>
        \A i \in DOMAIN recipe[t] :
            recipe[t][i].cmd # "empty" => \/ exit[<<t, i>>] = "ok"
                                          \/ recipe[t][i].noerror /\ exit[<<t, i>>] \in Results

(* kmk sleeps for a token, and what it has for a child is a builtin that   *)
(* has failed already: no SIGCHLD and no time-out is going to end that.    *)
SleepsOnBuiltin ==
    /\ pc = "acquire" /\ waitingJobs = <<>>
    /\ Alive = {} /\ Zombies = {} /\ \A t \in Range(children) : hasStatus[t]


(* "There must be at least one child already, or we have no business       *)
(* waiting for a token": one whose end is still to come and ends the wait. *)
SleepsForChild == ~SleepsOnBuiltin

(* Each command gets its own exit status: a line after an ignored failure  *)
(* is not taken for ended before it is.                                    *)
StatusIsOwn == \A t \in Targets : commandState[t] = "finished" => \A p \in Alive : p[1] # t
=============================================================================
