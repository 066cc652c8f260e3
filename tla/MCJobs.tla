------------------------------- MODULE MCJobs -------------------------------
(***************************************************************************)
(* Jobs for TLC.                                                           *)
(***************************************************************************)
EXTENDS Jobs, TLC

L(c)   == [cmd |-> c, noerror |-> FALSE]
Ign(c) == [cmd |-> c, noerror |-> TRUE]

(* Commands in processes of their own.                                     *)
Forked  == {<<L("run")>>, <<Ign("run"), L("run")>>}
(* Recipes that end without a process, or start with one.                  *)
Mixed   == {<<L("builtin"), L("empty")>>, <<L("run"), L("builtin")>>, <<L("empty"), L("run")>>}
(* An ignored failure of a builtin before a process.                       *)
Ignored == {<<Ign("builtin"), L("run")>>, <<L("run")>>}
(* What -q does run.                                                       *)
Recurse == {<<L("recurse")>>, <<L("empty"), L("run")>>}

(* Three targets of one command each, and two of some recipes.             *)
Three    == [Targets -> {<<L("run")>>}]
ThreeOr  == [Targets -> {<<L("run")>>, <<L("builtin")>>}]
Two(rs)  == LET third == CHOOSE t \in Targets : TRUE
            IN  {m \in [Targets -> rs \cup {<<>>}] : \A t \in Targets : m[t] = <<>> <=> t = third}

(* How the runs call kmk.                                                  *)
Invoke(j, t, keep, q, load, fork, ms) ==
    [mode |-> j, tokens |-> t, keepGoing |-> keep, question |-> q, loadLimit |-> load,
     forkFails |-> fork, makefiles |-> ms]

Serving   == Invoke("jobserver", 1, FALSE, FALSE, TRUE,  FALSE, Three)
Sleeping  == Invoke("jobserver", 1, FALSE, FALSE, TRUE,  FALSE, ThreeOr)
Forking   == Invoke("jobserver", 1, FALSE, FALSE, TRUE,  FALSE, Two(Forked))
OneSlot   == Invoke("linear",    0, FALSE, FALSE, TRUE,  FALSE, Two(Mixed))
NoLimit   == Invoke("unlimited", 0, TRUE,  FALSE, TRUE,  FALSE, Two(Forked))
NoServer  == Invoke("unlimited", 0, TRUE,  FALSE, TRUE,  FALSE, Three)
Asking    == Invoke("jobserver", 1, FALSE, TRUE,  FALSE, FALSE, Two(Recurse))
MixedKeep == Invoke("jobserver", 1, TRUE,  FALSE, TRUE,  TRUE,  Two(Mixed))
Ignoring  == Invoke("jobserver", 1, FALSE, FALSE, FALSE, FALSE, Two(Ignored))
OneFork   == Invoke("linear",    0, TRUE,  FALSE, TRUE,  TRUE,  Two(Mixed))

Everyday  == {Serving, Sleeping, Forking, OneSlot, NoLimit, NoServer, MixedKeep, OneFork, Ignoring, Asking}
HasStatus == {Ignoring}
Asleep    == {Sleeping}

(* The end: kmk has exited.                                                *)
TheEnd == pc = "exited" /\ UNCHANGED vars

MCNext     == Next \/ TheEnd
MCSpec     == Init /\ [][MCNext]_vars
MCFairSpec == MCSpec /\ WF_vars(Kmk) /\ \A p \in Procs : WF_vars(ProcessExits(p))
=============================================================================
