----------------------------- MODULE IncludeDep -----------------------------
(***************************************************************************)
(* What the includedep, includedep-queue and includedep-flush directives   *)
(* promise a makefile: a dependency file handed to kmk is loaded into the  *)
(* file and variable databases once, at any moment up to snap_deps(), and  *)
(* snap_deps() goes on only when nothing is pending.  When the files are   *)
(* read, by which thread and in which order is left open.                  *)
(***************************************************************************)
CONSTANT Files                  \* one element per mention of a dependency file

VARIABLES pending,              \* handed over, not loaded yet
          loaded,               \* in the databases
          snapped               \* incdep_flush_and_term() has flushed

vars == <<pending, loaded, snapped>>

Init == pending = {} /\ loaded = {} /\ snapped = FALSE

Include(S) == /\ S \cap (pending \cup loaded) = {}
              /\ pending' = pending \cup S
              /\ UNCHANGED <<loaded, snapped>>

Load(f) == /\ f \in pending
           /\ pending' = pending \ {f}
           /\ loaded' = loaded \cup {f}
           /\ UNCHANGED snapped

Snap == /\ pending = {}
        /\ snapped = FALSE
        /\ snapped' = TRUE
        /\ UNCHANGED <<pending, loaded>>

Next == \/ \E S \in SUBSET Files : Include(S)
        \/ \E f \in Files : Load(f)
        \/ Snap

Spec == Init /\ [][Next]_vars
=============================================================================
