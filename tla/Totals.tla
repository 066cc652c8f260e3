------------------------------- MODULE Totals -------------------------------
(***************************************************************************)
(* The sum of the values of a function, which has a number for each make   *)
(* or thread: the number of its units, one element per unit.               *)
(***************************************************************************)
EXTENDS Integers, FiniteSets

Units(f) == UNION {{x} \X (1 .. f[x]) : x \in DOMAIN f}
Total(f) == Cardinality(Units(f))
=============================================================================
