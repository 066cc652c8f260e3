------------------------------ MODULE MCIncdep ------------------------------
(***************************************************************************)
(* Incdep for TLC.                                                         *)
(***************************************************************************)
EXTENDS Incdep, TLC

(* One worker and condition variables, as on Linux, macOS and the BSDs;    *)
(* two workers and manual-reset events, as on Windows and OS/2.            *)
Platforms == {[events |-> FALSE, threads |-> 1], [events |-> TRUE, threads |-> 2]}

(* Bound: the makefile ends; main stops calling once every file is used    *)
(* and snap_deps() has run, the workers may still sleep or have quit.      *)
TheEnd == /\ mpc = "idle" /\ snapped /\ Unused = {}
          /\ UNCHANGED vars

MCNext == Next \/ TheEnd
MCSpec == Init /\ [][MCNext]_vars
MCFairSpec == MCSpec /\ MainFairness /\ \A w \in Threads : WorkerFairness(w)
=============================================================================
