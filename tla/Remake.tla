------------------------------- MODULE Remake -------------------------------
(***************************************************************************)
(* Target updating (src/kmk/remake.c): update_goal_chain() walks the       *)
(* dependency graph below the goals again and again, each pass after at    *)
(* least one child was reaped, until every goal is finished.  A walk       *)
(* checks a file's prerequisites first, depth first, and then decides      *)
(* whether the file's recipe must run.                                     *)
(*                                                                         *)
(* The C stack of update_file_1() and check_dep() is the variable frames.  *)
(* Recipes run beside kmk; their results are noticed when reap_children()  *)
(* is called, which is not only between two passes: new_job() calls it in  *)
(* the middle of a walk.  Explicit multi-target rules, "a + b +| c: deps", *)
(* make one recipe update several files; the head has the prerequisites.   *)
(***************************************************************************)
EXTENDS Integers, Sequences, FiniteSets, Functions

CONSTANTS Files,        \* the files the makefile names
          Makefiles     \* the rules, the goals and the options of an invocation

(* enum update_status; the values are compared.  0 is also NONEXISTENT.    *)
Success == 0
None    == 1
Failed  == 3
Statuses == {Success, None, Failed}
Missing == 0
NewestOld == 2          \* bound: the times files have before kmk is started

ASSUME RemakeAssumption ==
    /\ IsFiniteSet(Files)
    /\ \A m \in Makefiles :
         /\ m.deps \in [Files -> Seq(Files)]          \* file->deps
         /\ m.orderOnly \subseteq Files \X Files      \* d->ignore_mtime
         /\ m.group \in [Files -> Seq(Files)]         \* multi_head, multi_next
         /\ \A f \in Files : m.group[f] # <<>> /\ f \in Range(m.group[f]) /\ IsInjective(m.group[f])
         /\ \A f \in Files : \A g \in Range(m.group[f]) : m.group[g] = m.group[f]
         /\ m.maybe \subseteq Files                   \* file->multi_maybe
         /\ \A f \in Files : Head(m.group[f]) \notin m.maybe
         /\ m.cmds \in [Files -> {"none", "empty", "recipe"}]
         /\ {m.isTarget, m.phony} \subseteq SUBSET Files
         /\ m.goals \in Seq(Files)
         /\ m.keepGoing \in BOOLEAN
         /\ m.slots \in Nat \ {0}       \* recipes that may run at a time

VARIABLES
    make,               \* the makefile and the options; never changes
    disk, clock,        \* the files' times, 0 for none; the latest time
    lastMtime,          \* file->last_mtime
    deps,               \* file->deps, circular ones dropped
    commandState,       \* file->command_state
    updateStatus,       \* file->update_status
    updated,            \* file->updated
    considered,         \* files with file->considered == considered
    updating,           \* files with the flag is_updating() looks at
    goals, at,          \* what is left of the goals, and the walk's position
    status,             \* update_goal_chain()'s result so far
    frames,             \* the activations of update_file_1(), innermost first
    ret,                \* the result of the call that just returned
    children,           \* how many children run the recipe of each file
    started,            \* history: the files whose recipe was ever started
    lost,               \* history: recipes that failed, files without a rule
    pc

given == <<make>>
times == <<disk, clock, lastMtime>>
marks == <<commandState, updateStatus, updated>>
chain == <<goals, at, status>>
walk  == <<considered, updating, frames, ret>>
procs == <<children, started, lost>>
vars  == <<given, times, deps, marks, chain, walk, procs, pc>>

Head1(f)     == Head(make.group[f])     \* file->multi_head, or the file
Group(f)     == Range(make.group[f])
Linear       == make.slots = 1
OrderOnly(e) == e \in make.orderOnly
Running      == {f \in Files : children[f] > 0}
Top          == Head(frames)

(* Mutant: a prerequisite that waits for its own is not in progress.       *)
InProgressNow == {"running"}

(* The command states that make a dependent wait.                          *)
InProgress == {"running", "deps_running"}

(* Mutant: the last prerequisite's status replaces the others'.            *)
LargerLast(a, b) == b
Larger(a, b) == IF a > b THEN a ELSE b

(* One activation of update_file_1(): the head, the edges still to check   *)
(* and when each one's turn is (nth), this_mtime, must_make, deps_changed, *)
(* dep_status, running, and the current prerequisite's mtime before it was *)
(* checked.                                                                *)
Dep   == [nth : Nat \X Nat, edge : Files \X Files]
Frame == [file : Files, left : SUBSET Dep, mtime : Nat, must : BOOLEAN,
          changed : BOOLEAN, status : Statuses, running : BOOLEAN, before : Nat]

Init ==
    /\ make \in Makefiles
    /\ disk \in [Files -> 0 .. NewestOld] /\ \A f \in make.phony : disk[f] = Missing
    /\ clock = NewestOld /\ lastMtime = disk
    /\ deps = make.deps
    /\ commandState = [f \in Files |-> "not_started"]
    /\ updateStatus = [f \in Files |-> None]
    /\ updated = [f \in Files |-> FALSE]
    /\ considered = {} /\ updating = {}
    /\ goals = make.goals /\ at = 1 /\ status = None
    /\ frames = <<>> /\ ret = Success
    /\ children = [f \in Files |-> 0] /\ started = {} /\ lost = {}
    /\ pc = "pass"

(* set_command_state(): the whole group changes.                           *)
StateOfGroup(f, s) == [g \in Files |-> IF g \in Group(f) THEN s ELSE commandState[g]]
-----------------------------------------------------------------------------
(* Mutant: the members' times are not fetched again.                       *)
NoticeFinishedStaleTimes(f, s, ran, newDisk) ==
    /\ commandState' = StateOfGroup(f, "finished")
    /\ updated' = [g \in Files |-> updated[g] \/ g \in Group(f)]
    /\ updateStatus' = [g \in Files |->
          IF g = f \/ (g \in Group(f) /\ (ran \/ s = None))
          THEN (IF s = None THEN Success ELSE s) ELSE updateStatus[g]]
    /\ lastMtime' = lastMtime

(* notice_finished_file() with file->update_status = s: only a recipe that *)
(* ran, or a file that needed nothing, passes its status on to the group,  *)
(* and only a recipe that ran has the times fetched again.                 *)
NoticeFinished(f, s, ran, newDisk) ==
    /\ commandState' = StateOfGroup(f, "finished")
    /\ updated' = [g \in Files |-> updated[g] \/ g \in Group(f)]
    /\ updateStatus' = [g \in Files |->
          IF g = f \/ (g \in Group(f) /\ (ran \/ s = None))
          THEN (IF s = None THEN Success ELSE s) ELSE updateStatus[g]]
    /\ lastMtime' = [g \in Files |->
          IF ran /\ g \in Group(f) \ make.phony THEN newDisk[g] ELSE lastMtime[g]]

(* reap_children() takes the child that ran f's recipe, which ended well   *)
(* or not and has written some of the group; without -k a failure is the   *)
(* end of kmk.                                                             *)
Reap(f, result, next) ==
    /\ children[f] > 0
    /\ \E written \in SUBSET (Group(f) \ make.phony) :
         /\ disk' = [g \in Files |-> IF g \in written THEN clock + 1 ELSE disk[g]]
         /\ clock' = IF written = {} THEN clock ELSE clock + 1
    /\ children' = [children EXCEPT ![f] = @ - 1]
    /\ NoticeFinished(f, result, commandState[f] = "running", disk')
    /\ IF result = Failed /\ ~make.keepGoing
       THEN pc' = "die" /\ status' = Failed
       ELSE pc' = next /\ UNCHANGED status
    /\ lost' = IF result = Failed THEN lost \cup {f} ELSE lost
    /\ UNCHANGED <<given, deps, goals, at, walk, started>>

(* Mutant: the frame stays.                                                *)
ReturnKeepsFrame(value) ==
    /\ frames' = frames /\ ret' = value /\ pc' = "back"

Return(value) ==
    /\ frames' = Tail(frames) /\ ret' = value /\ pc' = "back"
-----------------------------------------------------------------------------
(* update_goal_chain(): a pass begins with reap_children (1, 0), which     *)
(* waits for one child if there is any and takes the other dead ones too.  *)
PassReaps ==
    /\ pc \in {"pass", "more"}
    /\ \E f \in Files, r \in {Success, Failed} : Reap(f, r, "more")

BeginPass ==
    /\ pc = "more" \/ (pc = "pass" /\ Running = {})
    /\ pc' = "goal" /\ at' = 1
    /\ UNCHANGED <<given, times, deps, marks, goals, status, walk, procs>>

(* update_file(): a file seen in this pass is pruned.                      *)
Pruned(f, below) ==
    /\ f \in considered
    /\ ret' = IF commandState[f] = "finished" THEN updateStatus[f] ELSE Success
    /\ pc' = "back" /\ frames' = below
    /\ UNCHANGED considered

(* The edges update_file_1() walks: those of the head, then the members'.  *)
(* A list of which circular prerequisites were dropped has gaps.           *)
Edges(h) ==
    UNION {LET o == make.group[h][i]
           IN  {[nth |-> <<i, j>>, edge |-> <<o, deps[o][j]>>] : j \in DOMAIN deps[o]} :
              i \in DOMAIN make.group[h]}

Before(p, q) == p[1] < q[1] \/ (p[1] = q[1] /\ p[2] <= q[2])
First(ds)    == CHOOSE d \in ds : \A o \in ds : Before(d.nth, o.nth)

(* this_mtime: that of the oldest member; a "maybe" member counts only if  *)
(* it is the file that was asked for and does not exist.                   *)
ThisMtime(f) ==
    LET Counted == {g \in Group(f) : \/ g = Head1(f) \/ g \notin make.maybe
                                     \/ (g = f /\ lastMtime[f] = Missing)}
    IN  CHOOSE t \in {lastMtime[g] : g \in Counted} : \A g \in Counted : t <= lastMtime[g]

NewFrame(f) ==
    [file |-> Head1(f), left |-> Edges(Head1(f)), mtime |-> ThisMtime(f),
     must |-> ThisMtime(f) = Missing, changed |-> FALSE, status |-> Success,
     running |-> FALSE, before |-> Missing]

(* update_file() and the part of update_file_1() before the prerequisites; *)
(* f's whole group is worked on through its head.                          *)
Consider(f, below) ==
    LET h == Head1(f) IN
    /\ f \notin considered
    /\ considered' = considered \cup {f}
    /\ IF updated[h] \/ commandState[h] = "running"
       THEN /\ ret' = IF updated[h] /\ updateStatus[h] > None THEN updateStatus[h] ELSE Success
            /\ pc' = "back" /\ frames' = below
       ELSE /\ frames' = <<NewFrame(f)>> \o below
            /\ pc' = "walk" /\ UNCHANGED ret

(* update_file (f), called from the activations below, with file->updating *)
(* set for the files in marked.                                            *)
UpdateFile(f, marked, below) ==
    /\ Pruned(f, below) \/ Consider(f, below)
    /\ updating' = marked \cup (IF pc' = "walk" THEN {Head1(f)} ELSE {})

WalkGoal ==
    /\ pc = "goal" /\ at <= Len(goals)
    /\ UpdateFile(goals[at], updating, <<>>)
    /\ UNCHANGED <<given, times, deps, marks, chain, procs>>

(* Back from update_file() for a goal: its status counts once it is        *)
(* updated or has failed; an updated goal leaves the chain.                *)
GoalBack ==
    /\ pc = "back" /\ frames = <<>>
    /\ LET g == goals[at] IN
         /\ status' = IF (ret # Success \/ updated[g]) /\ status # Failed
                         /\ updateStatus[g] # Success
                      THEN updateStatus[g] ELSE status
         /\ IF updated[g]
            THEN /\ goals' = SubSeq(goals, 1, at - 1) \o SubSeq(goals, at + 1, Len(goals))
                 /\ UNCHANGED at
            ELSE at' = at + 1 /\ UNCHANGED goals
    /\ pc' = "goal"
    /\ UNCHANGED <<given, times, deps, marks, walk, procs>>

(* Mutant: "considered" is not bumped.                                     *)
EndPassSame ==
    /\ pc = "goal" /\ at > Len(goals)
    /\ pc' = IF goals = <<>> THEN "die" ELSE "pass"
    /\ UNCHANGED <<given, times, deps, marks, chain, walk, procs>>

EndPass ==
    /\ pc = "goal" /\ at > Len(goals)
    /\ considered' = {}
    /\ pc' = IF goals = <<>> THEN "die" ELSE "pass"
    /\ UNCHANGED <<given, times, deps, marks, chain, updating, frames, ret, procs>>
-----------------------------------------------------------------------------
(* update_file_1(): the loop over the prerequisites.                       *)
Current    == First(Top.left)
Owner      == Current.edge[1]
Prereq     == Current.edge[2]
AtPrereq   == pc = "walk" /\ Top.left # {}
HackEdge(e) == e[1] \in make.maybe /\ e[2] = Head1(e[1])
NextPrereq == frames' = <<[Top EXCEPT !.left = @ \ {Current}]>> \o Tail(frames)

(* A prerequisite that is being considered further up: the edge is         *)
(* dropped, unless it is a "maybe" member's on its own head.               *)
CircularDropped ==
    /\ AtPrereq /\ Prereq \in updating
    /\ deps' = IF HackEdge(Current.edge) THEN deps
               ELSE [deps EXCEPT ![Owner] = Restrict(@, DOMAIN @ \ {Current.nth[2]})]
    /\ NextPrereq
    /\ UNCHANGED <<given, times, marks, chain, considered, updating, ret, procs, pc>>

(* check_dep() is called; it marks the prerequisite and updates it.        *)
CheckDep ==
    /\ AtPrereq /\ Prereq \notin updating
    /\ UpdateFile(Prereq, updating \cup {Prereq},
                  <<[Top EXCEPT !.before = lastMtime[Prereq]]>> \o Tail(frames))
    /\ UNCHANGED <<given, times, deps, marks, chain, procs>>

(* Mutant: a prerequisite of the same age makes the target out of date.    *)
OutOfDateIfSame(d, t) == lastMtime[d] = Missing \/ lastMtime[d] >= t

(* check_dep()'s test of the prerequisite's time.                          *)
OutOfDate(d, t) == lastMtime[d] = Missing \/ lastMtime[d] > t

(* Back from check_dep(): must_make, dep_status, running and d->changed    *)
(* are updated; without -k a failure ends the loop.                        *)
CheckedDep ==
    /\ pc = "back" /\ frames # <<>>
    /\ LET d     == Prereq
           binds == ~OrderOnly(Current.edge)
           new   == Larger(Top.status, ret)
           run   == Top.running \/ commandState[d] \in InProgress
           stop  == new # Success /\ ~make.keepGoing
           moved == binds /\ ~run /\ (lastMtime[d] # Top.before \/ Top.before = Missing)
       IN  /\ frames' = <<[Top EXCEPT
                    !.status = new, !.running = run,
                    !.must = @ \/ (binds /\ OutOfDate(d, Top.mtime)),
                    !.changed = @ \/ moved,
                    !.left = IF stop THEN {} ELSE @ \ {Current}]>> \o Tail(frames)
           /\ updating' = updating \ {d}
    /\ pc' = "walk"
    /\ UNCHANGED <<given, times, deps, marks, chain, considered, ret, procs>>
-----------------------------------------------------------------------------
(* update_file_1(): after the prerequisites.                               *)
Decide(f) == /\ pc = "walk" /\ Top.left = {} /\ f = Top.file
             /\ updating' = updating \ {f}

(* Some prerequisite is still being made: look again in the next pass.     *)
PrereqsRunning(f) ==
    /\ Decide(f) /\ Top.running
    /\ commandState' = StateOfGroup(f, "deps_running")
    /\ Return(Success)
    /\ UNCHANGED <<given, times, deps, updateStatus, updated, chain, considered, procs>>

GiveUp(f) ==
    /\ Decide(f) /\ ~Top.running /\ Top.status # Success
    /\ NoticeFinished(f, IF Top.status = None THEN Failed ELSE Top.status, FALSE, disk)
    /\ Return(Top.status)
    /\ UNCHANGED <<given, disk, clock, deps, chain, considered, procs>>

(* Must f be remade, now that its prerequisites are made?  A prerequisite  *)
(* may not exist even then; and a target without a recipe is not remade    *)
(* as long as no prerequisite changed.                                     *)
MustMake(f) ==
    /\ \/ Top.must
       \/ \E e \in {d.edge : d \in Edges(f)} :
             ~OrderOnly(e) /\ lastMtime[e[2]] = Missing /\ ~(e[1] = e[2] /\ e[1] \in make.maybe)
    /\ ~(/\ Top.mtime # Missing /\ f \in make.isTarget
         /\ ~Top.changed /\ make.cmds[f] = "none")

Decided(f) == Decide(f) /\ ~Top.running /\ Top.status = Success

NoNeedToRemake(f) ==
    /\ Decided(f) /\ ~MustMake(f)
    /\ NoticeFinished(f, updateStatus[f], FALSE, disk)
    /\ Return(Success)
    /\ UNCHANGED <<given, disk, clock, deps, chain, considered, procs>>

(* remake_file() without a recipe: a target, and a phony file, are taken   *)
(* as made; for anything else there is no rule, which is fatal without -k. *)
RemakeWithoutRecipe(f) ==
    /\ Decided(f) /\ MustMake(f) /\ make.cmds[f] = "none"
    /\ IF f \in make.phony \cup make.isTarget
       THEN NoticeFinished(f, Success, FALSE, disk) /\ Return(Success) /\ UNCHANGED <<status, lost>>
       ELSE /\ NoticeFinished(f, Failed, FALSE, disk) /\ lost' = lost \cup {f}
            /\ IF make.keepGoing
               THEN Return(Failed) /\ UNCHANGED status
               ELSE pc' = "die" /\ status' = Failed /\ UNCHANGED <<frames, ret>>
    /\ UNCHANGED <<given, disk, clock, deps, goals, at, considered, children, started>>

(* execute_file_commands(): a recipe of nothing but blanks has been run.   *)
RunEmptyRecipe(f) ==
    /\ Decided(f) /\ MustMake(f) /\ make.cmds[f] = "empty"
    /\ NoticeFinished(f, Success, TRUE, disk)
    /\ Return(Success)
    /\ UNCHANGED <<given, disk, clock, deps, chain, considered, procs>>

(* execute_file_commands() calls new_job(), which first reaps.             *)
MustRemake(f) ==
    /\ Decided(f) /\ MustMake(f) /\ make.cmds[f] = "recipe"
    /\ commandState' = StateOfGroup(f, "not_started")
    /\ pc' = "new_job"
    /\ UNCHANGED <<given, times, deps, updateStatus, updated, chain, considered, frames,
                   ret, procs>>

(* Children that have died are reaped before the new one is started; it    *)
(* waits until there is a slot, or a token, for it.                        *)
NewJobReaps ==
    /\ pc = "new_job"
    /\ \E f \in Files, r \in {Success, Failed} : Reap(f, r, "new_job")

NewJob(f) ==
    /\ pc = "new_job" /\ f = Top.file
    /\ Cardinality(Running) < make.slots
    /\ commandState' = StateOfGroup(f, "running")
    /\ children' = [children EXCEPT ![f] = @ + 1]
    /\ started' = started \cup {f}
    /\ IF Linear THEN pc' = "linear" /\ UNCHANGED <<frames, ret>> ELSE Return(Success)
    /\ UNCHANGED <<given, times, deps, updateStatus, updated, chain, considered, updating, lost>>

(* With one slot new_job() waits for its child.                            *)
LinearReaps ==
    /\ pc = "linear" /\ commandState[Top.file] = "running"
    /\ \E f \in Files, r \in {Success, Failed} : Reap(f, r, "linear")

LinearDone ==
    /\ pc = "linear" /\ commandState[Top.file] = "finished"
    /\ Return(updateStatus[Top.file])
    /\ UNCHANGED <<given, times, deps, marks, chain, considered, updating, procs>>

(* die() waits for the children that are left; nothing more is started.    *)
Die ==
    /\ pc = "die"
    /\ IF Running = {}
       THEN pc' = "exit" /\ UNCHANGED <<times, marks, chain, walk, procs>>
       ELSE \E f \in Files, r \in {Success, Failed} : Reap(f, r, "die")
    /\ UNCHANGED <<given, deps>>

Next ==
    \/ PassReaps \/ BeginPass \/ WalkGoal \/ GoalBack \/ EndPass
    \/ CircularDropped \/ CheckDep \/ CheckedDep
    \/ \E f \in Files : \/ PrereqsRunning(f) \/ GiveUp(f) \/ NoNeedToRemake(f)
                        \/ RemakeWithoutRecipe(f) \/ RunEmptyRecipe(f) \/ MustRemake(f)
                        \/ NewJob(f)
    \/ NewJobReaps \/ LinearReaps \/ LinearDone \/ Die

Spec     == Init /\ [][Next]_vars
FairSpec == Spec /\ WF_vars(Next)
-----------------------------------------------------------------------------
(* Every variable has the values its C declaration and its use allow, and  *)
(* the walk has a frame exactly where one is looked at.                    *)
TypeOK ==
    /\ make \in Makefiles
    /\ disk \in [Files -> Nat] /\ lastMtime \in [Files -> Nat] /\ clock \in Nat
    /\ DOMAIN deps = Files
    /\ \A f \in Files : DOMAIN deps[f] \subseteq Nat /\ deps[f] \in [DOMAIN deps[f] -> Files]
    /\ commandState \in [Files -> {"not_started", "deps_running", "running", "finished"}]
    /\ updateStatus \in [Files -> Statuses]
    /\ updated \in [Files -> BOOLEAN]
    /\ considered \subseteq Files /\ updating \subseteq Files
    /\ goals \in Seq(Files) /\ at \in Nat
    /\ {status, ret} \subseteq Statuses
    /\ frames \in Seq(Frame)
    /\ children \in [Files -> Nat] /\ started \subseteq Files /\ lost \subseteq Files
    /\ pc \in {"pass", "more", "goal", "walk", "back", "new_job", "linear", "die", "exit"}
    /\ pc \in {"walk", "new_job", "linear"} => frames # <<>>
    /\ pc = "back" /\ frames # <<>> => Top.left # {}

Heads == {f \in Files : Head1(f) = f}
Edge  == {e \in Files \X Files : e[2] \in Range(deps[e[1]]) /\ ~HackEdge(e)}

Made(f) ==
    CASE f \notin Heads -> "waiting"
      [] f \in Heads /\ updated[f] -> IF updateStatus[f] = Success THEN "done" ELSE "failed"
      [] OTHER -> IF commandState[f] = "running" THEN "making" ELSE "waiting"

(* Each step keeps the promise of module BuildOrder: the recipe of a group *)
(* is started once at most, and only when every prerequisite of a member   *)
(* is done.                                                                *)
Promise == INSTANCE BuildOrder
               WITH made  <- [f \in Files |-> Made(f)],
                    needs <- {<<Head1(e[1]), Head1(e[2])>> : e \in Edge}

ImplementsBuildOrder == Promise!Spec

Oldest(h) == {g \in Group(h) : g \notin make.maybe}

(* The file is there, and no prerequisite that counts is missing or newer, *)
(* on the disk and not only in the cached times.                           *)
FreshOnDisk(h) ==
    \A g \in Oldest(h) :
        /\ disk[g] # Missing
        /\ \A e \in Edge : Head1(e[1]) = h /\ ~OrderOnly(e) =>
               disk[e[2]] # Missing /\ disk[e[2]] <= disk[g]

(* A target that has a recipe and was found up to date, so that its recipe *)
(* was not run, is up to date: also when a prerequisite was remade while   *)
(* the walk went on, or in a pass after the target was first considered.   *)
UpToDate ==
    \A h \in Heads :
        Made(h) = "done" /\ h \notin started /\ make.cmds[h] = "recipe" => FreshOnDisk(h)

(* A recipe is started only for a target that is not up to date (or of     *)
(* which a "maybe" member is missing, which may have been asked for).      *)
NoNeedlessRecipe ==
    [][\A h \in Files : children'[h] > children[h] =>
          ~FreshOnDisk(h) \/ \E g \in Group(h) : disk[g] = Missing]_vars

(* When the goal chain is empty nothing is running any more, and kmk fails *)
(* exactly if a recipe failed or a file could not be made: a failure is    *)
(* not forgotten on its way to the goal, and none is made up.              *)
ExitTellsFailure ==
    pc = "die" /\ goals = <<>> => Running = {} /\ (status = Failed <=> lost # {})

(* kmk comes to an end: no pass is begun for ever, with cyclic rules too.  *)
RemakeEnds == <>(pc = "exit")
=============================================================================
