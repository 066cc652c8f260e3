---------------------------- MODULE MCWinChildren ---------------------------
(***************************************************************************)
(* WinChildren for TLC.                                                    *)
(***************************************************************************)
EXTENDS WinChildren, TLC

(* The end: every child was reaped, and the workers sleep.                 *)
TheEnd == /\ mpc = "idle" /\ reaped = Children
          /\ \A w \in Workers : wpc[w] \in {"none", "sleep"}
          /\ UNCHANGED vars

MCNext     == Next \/ TheEnd
MCSpec     == Init /\ [][MCNext]_vars
MCFairSpec == MCSpec /\ Fairness
=============================================================================
