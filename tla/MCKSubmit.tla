----------------------------- MODULE MCKSubmit ------------------------------
(***************************************************************************)
(* KSubmit for TLC.                                                        *)
(***************************************************************************)
EXTENDS KSubmit, TLC

(* Instances are alike, and so are the slots of the hash table.            *)
Alike == Permutations(Workers) \cup Permutations(Slots)
=============================================================================
