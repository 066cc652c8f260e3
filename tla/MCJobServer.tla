---------------------------- MODULE MCJobServer -----------------------------
(***************************************************************************)
(* JobServer for TLC.                                                      *)
(***************************************************************************)
EXTENDS JobServer, TLC

Symmetry == Permutations(Subs)

(* Bound: every kmk has two commands to run.                               *)
Two == [m \in Makes |-> 2]

(* The end: the top kmk has exited.                                        *)
TheEnd == pc[Top] = "exited" /\ UNCHANGED vars

MCNext     == Next \/ TheEnd
MCSpec     == Init /\ [][MCNext]_vars
MCFairSpec == /\ MCSpec
              /\ \A m \in Makes : WF_vars(Make(m)) /\ WF_vars(Signalled(m))
                                  /\ WF_vars(CommandEnds(m))
=============================================================================
