----------------------------- MODULE JobServer ------------------------------
(***************************************************************************)
(* The jobserver of POSIX systems (src/kmk/posixos.c) as new_job() and     *)
(* reap_children() of several kmk processes use it: a pipe of tokens that  *)
(* all makes of a tree read and write, and in each of them the sleep for a *)
(* token that the death of a child has to end.                             *)
(*                                                                         *)
(* Both ways to sleep are here: pselect(), with SIGCHLD to be blocked      *)
(* outside of it (Linux, Solaris), and a read of a duplicate descriptor    *)
(* that the SIGCHLD handler closes (the other systems).                    *)
(***************************************************************************)
EXTENDS Integers, FiniteSets, Totals

CONSTANTS Top, Subs,    \* the top kmk, and the kmks it starts as jobs
          Slots,        \* job_slots of the top kmk
          Commands,     \* how many jobs that are no kmk each kmk has
          Builds        \* which values HAVE_PSELECT may have

Makes == Subs \cup {Top}

ASSUME JobServerAssumption ==
    /\ IsFiniteSet(Subs) /\ Top \notin Subs
    /\ Slots \in Nat /\ Slots > 1
    /\ Commands \in [Makes -> Nat]
    /\ Builds \subseteq BOOLEAN

VARIABLES
    pselect,            \* HAVE_PSELECT: the jobserver_acquire() that was built
    pipe,               \* tokens in the pipe
    pc,                 \* where each kmk is
    tokens,             \* its jobserver_tokens
    todo, unspawned,    \* jobs not yet started: commands, and kmks (Top's)
    running, dead,      \* its commands that run; its children to be reaped
    blocked, pending,   \* SIGCHLD is blocked; is pending
    rfd,                \* job_rfd is open (without pselect)
    timeout             \* jobserver_acquire()'s TIMEOUT

jobs    == <<tokens, todo, unspawned, running>>
signals == <<blocked, pending, rfd>>
vars    == <<pselect, pipe, pc, jobs, dead, signals, timeout>>

One(b)  == IF b THEN 1 ELSE 0
All(v)  == [m \in Makes |-> v]

(* jobserver_setup (job_slots - 1): the top make keeps one for itself.     *)
Init ==
    /\ pselect \in Builds
    /\ pipe = Slots - 1
    /\ pc = [m \in Makes |-> IF m = Top THEN "loop" ELSE "off"]
    /\ tokens = All(0)
    /\ todo = Commands /\ unspawned = Subs
    /\ running = All(0) /\ dead = All(0)
    /\ blocked = All(pselect) /\ pending = All(FALSE)
    /\ rfd = All(~pselect)
    /\ timeout = All(FALSE)

Wants(m) == todo[m] > 0 \/ (m = Top /\ unspawned # {})
Live     == {s \in Subs : pc[s] \notin {"off", "exited"}}
Kids(m)  == running[m] + dead[m] + (IF m = Top THEN Cardinality(Live) ELSE 0)

Goto(m, label) == pc' = [pc EXCEPT ![m] = label]
-----------------------------------------------------------------------------
(* new_job(): use the "free" token, or get ready to sleep for another one  *)
(* (jobserver_pre_acquire() opens the duplicate descriptor again).         *)
NewJob(m) ==
    /\ pc[m] = "loop" /\ Wants(m)
    /\ IF tokens[m] = 0 THEN Goto(m, "start") /\ UNCHANGED rfd
                        ELSE Goto(m, "reap") /\ rfd' = [rfd EXCEPT ![m] = ~pselect]
    /\ UNCHANGED <<pipe, jobs, dead, blocked, pending, timeout>>

(* Mutant: the free token is written to the pipe, too.                     *)
ReapAlwaysWrites(m) ==
    /\ pc[m] = "reap" \/ (pc[m] = "loop" /\ ~Wants(m))
    /\ dead[m] > 0
    /\ dead' = [dead EXCEPT ![m] = @ - 1]
    /\ tokens' = [tokens EXCEPT ![m] = @ - 1]
    /\ pipe' = pipe + 1
    /\ UNCHANGED <<pc, todo, unspawned, running, signals, timeout>>

(* One turn of reap_children(), with free_child(): the token of a child    *)
(* that is not the last one is written back (jobserver_release()).         *)
Reap(m) ==
    /\ pc[m] = "reap" \/ (pc[m] = "loop" /\ ~Wants(m))
    /\ dead[m] > 0
    /\ dead' = [dead EXCEPT ![m] = @ - 1]
    /\ tokens' = [tokens EXCEPT ![m] = @ - 1]
    /\ pipe' = pipe + One(tokens[m] > 1)
    /\ UNCHANGED <<pc, todo, unspawned, running, signals, timeout>>

(* Nobody left to reap; TIMEOUT if jobs are waiting for the load.          *)
NothingToReap(m) ==
    /\ pc[m] = "reap" /\ dead[m] = 0
    /\ Goto(m, IF tokens[m] = 0 THEN "start" ELSE "acquire")
    /\ timeout' \in {[timeout EXCEPT ![m] = b] : b \in BOOLEAN}
    /\ UNCHANGED <<pipe, jobs, dead, signals>>

(* jobserver_acquire(): enter the sleep.  A closed descriptor is EBADF.    *)
Acquire(m) ==
    /\ pc[m] = "acquire"
    /\ Goto(m, IF pselect \/ rfd[m] THEN "asleep" ELSE "loop")
    /\ UNCHANGED <<pipe, jobs, dead, signals, timeout>>

(* Mutant: a token that is read while a child dies is forgotten.           *)
ReadyForgets(m) ==
    /\ pc[m] = "asleep" /\ pipe > 0
    /\ IF pselect THEN Goto(m, "read") /\ UNCHANGED pipe
       ELSE Goto(m, IF pending[m] THEN "loop" ELSE "start") /\ pipe' = pipe - 1
    /\ UNCHANGED <<jobs, dead, signals, timeout>>

(* There is a token.  After pselect() another make may be faster.          *)
Ready(m) ==
    /\ pc[m] = "asleep" /\ pipe > 0
    /\ IF pselect THEN Goto(m, "read") /\ UNCHANGED pipe
                  ELSE Goto(m, "start") /\ pipe' = pipe - 1
    /\ UNCHANGED <<jobs, dead, signals, timeout>>

(* Mutant: the read that finds no token is taken for one.                  *)
ReadUnchecked(m) ==
    /\ pc[m] = "read"
    /\ Goto(m, "start") /\ pipe' = pipe - One(pipe > 0)
    /\ UNCHANGED <<jobs, dead, signals, timeout>>

Read(m) ==
    /\ pc[m] = "read"
    /\ IF pipe > 0 THEN Goto(m, "start") /\ pipe' = pipe - 1
                   ELSE Goto(m, "acquire") /\ UNCHANGED pipe
    /\ UNCHANGED <<jobs, dead, signals, timeout>>

(* Mutant: the handler does not close the descriptor.                      *)
HandleKeepsFd(m) ==
    /\ pending[m] /\ pending' = [pending EXCEPT ![m] = FALSE]
    /\ UNCHANGED <<blocked, rfd>>

(* child_handler() runs: jobserver_signal() closes the descriptor.         *)
Handle(m) ==
    /\ pending[m] /\ pending' = [pending EXCEPT ![m] = FALSE]
    /\ rfd' = [rfd EXCEPT ![m] = FALSE]
    /\ UNCHANGED blocked

(* SIGCHLD ends the sleep: EINTR from pselect(), which unblocks it, or     *)
(* EINTR and then EBADF from the read that EINTRLOOP repeats.              *)
Interrupted(m) ==
    /\ pc[m] = "asleep" /\ Handle(m)
    /\ Goto(m, "loop")
    /\ UNCHANGED <<pipe, jobs, dead, timeout>>

(* SIGCHLD finds the make anywhere else.                                   *)
Signalled(m) ==
    /\ pc[m] \notin {"asleep", "off", "exited"} /\ ~blocked[m] /\ Handle(m)
    /\ UNCHANGED <<pselect, pipe, pc, jobs, dead, timeout>>

(* One second is over: pselect() returns.  The read goes on: EINTRLOOP     *)
(* repeats it when SIGALRM has interrupted it.                             *)
TimesOut(m) ==
    /\ pselect /\ pc[m] = "asleep" /\ timeout[m]
    /\ Goto(m, "loop")
    /\ UNCHANGED <<pselect, pipe, jobs, dead, signals, timeout>>

(* start_waiting_job(): fork the child, then unblock_sigs(), which blocks  *)
(* nothing.  A kmk begins with SIGCHLD blocked if it has pselect().        *)
StartJob(m) ==
    /\ pc[m] = "start"
    /\ tokens' = [tokens EXCEPT ![m] = @ + 1]
    /\ \/ /\ todo[m] > 0
          /\ todo' = [todo EXCEPT ![m] = @ - 1]
          /\ running' = [running EXCEPT ![m] = @ + 1]
          /\ pc' = [pc EXCEPT ![m] = "loop"]
          /\ UNCHANGED unspawned
       \/ \E s \in unspawned :
          /\ m = Top
          /\ unspawned' = unspawned \ {s}
          /\ pc' = [pc EXCEPT ![m] = "loop", ![s] = "loop"]
          /\ UNCHANGED <<todo, running>>
    /\ blocked' = [blocked EXCEPT ![m] = FALSE]
    /\ UNCHANGED <<pipe, dead, pending, rfd, timeout>>

ChildDies(m) == /\ dead' = [dead EXCEPT ![m] = @ + 1]
                /\ pending' = [pending EXCEPT ![m] = TRUE]

(* Nothing to start: die() waits while job_slots_used > 0, whoever is left;*)
(* it goes up and down with jobserver_tokens.  The parent gets a SIGCHLD.  *)
JobSlotsUsed(m) == tokens[m]

Exit(m) ==
    /\ pc[m] = "loop" /\ ~Wants(m) /\ JobSlotsUsed(m) = 0
    /\ Goto(m, "exited")
    /\ IF m = Top THEN UNCHANGED <<dead, pending>> ELSE ChildDies(Top)
    /\ UNCHANGED <<pipe, jobs, blocked, rfd, timeout>>

CommandEnds(m) ==
    /\ running[m] > 0
    /\ running' = [running EXCEPT ![m] = @ - 1]
    /\ ChildDies(m)
    /\ UNCHANGED <<pselect, pipe, pc, tokens, todo, unspawned, blocked, rfd, timeout>>

Make(m) == /\ \/ NewJob(m) \/ Reap(m) \/ NothingToReap(m) \/ Acquire(m) \/ Ready(m)
              \/ Read(m) \/ Interrupted(m) \/ StartJob(m) \/ Exit(m)
           /\ UNCHANGED pselect

Next == \E m \in Makes : Make(m) \/ Signalled(m) \/ TimesOut(m) \/ CommandEnds(m)

(* Every make runs while it can, signals arrive and commands end.          *)
Spec     == Init /\ [][Next]_vars
FairSpec == /\ Spec
            /\ \A m \in Makes : WF_vars(Make(m)) /\ WF_vars(Signalled(m)) /\ WF_vars(CommandEnds(m))
-----------------------------------------------------------------------------
(* Every variable has the values its C declaration and its use allow.      *)
TypeOK ==
    /\ pselect \in BOOLEAN
    /\ pipe \in 0 .. Slots - 1
    /\ pc \in [Makes -> {"off", "loop", "reap", "acquire", "asleep", "read", "start", "exited"}]
    /\ tokens \in [Makes -> Nat] /\ todo \in [Makes -> Nat] /\ unspawned \subseteq Subs
    /\ running \in [Makes -> Nat] /\ dead \in [Makes -> Nat]
    /\ blocked \in [Makes -> BOOLEAN] /\ pending \in [Makes -> BOOLEAN]
    /\ rfd \in [Makes -> BOOLEAN]
    /\ timeout \in [Makes -> BOOLEAN]

(* A make holds a token for each of its children, dead or alive; beyond    *)
(* the one it was given by its parent they come from the pipe, and no      *)
(* token is lost or made up.                                               *)
Borrowed(m) == IF tokens[m] = 0 THEN 0 ELSE tokens[m] - One(pc[m] # "start")
Borrowings  == [m \in Makes |-> Borrowed(m)]

TokensAddUp ==
    /\ \A m \in Makes : tokens[m] = Kids(m)
    /\ pipe + Total(Borrowings) = Slots - 1

(* The top kmk exits with every token back in the pipe, as clean_jobserver *)
(* wants ("INTERNAL: Exiting with %u jobserver tokens available; should be *)
(* %u!"), and no sub-make is left, though it counts its own jobs only.     *)
TokensBack == pc[Top] = "exited" => pipe = Slots - 1 /\ \A s \in Subs : pc[s] = "exited"

(* All makes of the tree together run at most -jN commands.                *)
Limit == INSTANCE JobLimit WITH running <- Total(running)

ImplementsLimit == Limit!Spec

(* The build comes to its end: the makes do not wait for each other's      *)
(* tokens while dead children keep them.                                   *)
BuildEnds == <>(pc[Top] = "exited")

(* That is what the duplicate descriptor achieves, without pselect().      *)
BuildEndsWithDup == ~pselect => BuildEnds
=============================================================================
