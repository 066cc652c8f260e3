----------------------------- MODULE BuildOrder -----------------------------
(***************************************************************************)
(* What target updating promises, whatever the order in which it walks the *)
(* dependency graph and however many recipes run at a time: a recipe runs  *)
(* at most once, and not before every prerequisite of its target is done;  *)
(* a target is given up only because one of its prerequisites failed; and  *)
(* a prerequisite is forgotten only to break a cycle.                      *)
(***************************************************************************)
CONSTANT Files

VARIABLES made,         \* what became of each file
          needs         \* pairs <<target, prerequisite>>, the dropped ones left out

vars == <<made, needs>>

Prereqs(f) == {d \in Files : <<f, d>> \in needs}
Ready(f)   == \A d \in Prereqs(f) : made[d] = "done"

(* There is a path from f to d: every set that contains f and the          *)
(* prerequisites of its members contains d.                                *)
Reaches(f, d) ==
    \A S \in SUBSET Files :
        f \in S /\ (\A e \in needs : e[1] \in S => e[2] \in S) => d \in S

Init ==
    /\ needs \in SUBSET (Files \X Files)
    /\ made = [f \in Files |-> "waiting"]

(* The recipe of f is started.                                             *)
Start(f) ==
    /\ made[f] = "waiting" /\ Ready(f)
    /\ made' = [made EXCEPT ![f] = "making"]
    /\ UNCHANGED needs

Finish(f, result) ==
    /\ made[f] = "making" /\ result \in {"done", "failed"}
    /\ made' = [made EXCEPT ![f] = result]
    /\ UNCHANGED needs

(* f is up to date, or there is no recipe to run.                          *)
Settle(f, result) ==
    /\ made[f] = "waiting" /\ Ready(f) /\ result \in {"done", "failed"}
    /\ made' = [made EXCEPT ![f] = result]
    /\ UNCHANGED needs

GiveUp(f) ==
    /\ made[f] = "waiting" /\ \E d \in Prereqs(f) : made[d] = "failed"
    /\ made' = [made EXCEPT ![f] = "failed"]
    /\ UNCHANGED needs

(* "Circular f <- d dependency dropped."                                   *)
Drop(f, d) ==
    /\ <<f, d>> \in needs /\ Reaches(d, f)
    /\ made[f] = "waiting"
    /\ needs' = needs \ {<<f, d>>}
    /\ UNCHANGED made

Next ==
    \E f \in Files :
        \/ Start(f) \/ GiveUp(f)
        \/ \E r \in {"done", "failed"} : Finish(f, r) \/ Settle(f, r)
        \/ \E d \in Files : Drop(f, d)

Spec == Init /\ [][Next]_vars
=============================================================================
