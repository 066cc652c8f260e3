------------------------------ MODULE JobLimit ------------------------------
(***************************************************************************)
(* What -jN promises for a whole tree of makes: at no time do more than N  *)
(* commands run, whichever make of the tree runs them.                     *)
(***************************************************************************)
EXTENDS Naturals

CONSTANT Slots          \* the N of the top make's -jN

VARIABLE running        \* how many commands run

Init  == running = 0
Start == running < Slots /\ running' = running + 1
End   == running > 0 /\ running' = running - 1
Next  == Start \/ End
Spec  == Init /\ [][Next]_running
=============================================================================
