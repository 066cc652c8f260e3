----------------------------- MODULE ChildQueue -----------------------------
(***************************************************************************)
(* What the Windows child management promises to reap_children(): every    *)
(* child that was created is run once, and is handed back once, after it   *)
(* has run, in the order in which the children completed.                  *)
(***************************************************************************)
EXTENDS Sequences, Functions

CONSTANT Children

VARIABLES
    created,    \* children handed over and not yet run
    running,    \* children that are being run
    completed,  \* children that have run, oldest first
    reaped      \* children handed back

vars == <<created, running, completed, reaped>>

Init == created = {} /\ running = {} /\ completed = <<>> /\ reaped = {}

Create(c) ==
    /\ c \notin created \cup running \cup Range(completed) \cup reaped
    /\ created' = created \cup {c}
    /\ UNCHANGED <<running, completed, reaped>>

Run(c) ==
    /\ c \in created
    /\ created' = created \ {c} /\ running' = running \cup {c}
    /\ UNCHANGED <<completed, reaped>>

Complete(c) ==
    /\ c \in running
    /\ running' = running \ {c} /\ completed' = Append(completed, c)
    /\ UNCHANGED <<created, reaped>>

Reap ==
    /\ completed # <<>>
    /\ reaped' = reaped \cup {Head(completed)} /\ completed' = Tail(completed)
    /\ UNCHANGED <<created, running>>

Next == Reap \/ \E c \in Children : Create(c) \/ Run(c) \/ Complete(c)

Spec == Init /\ [][Next]_vars
=============================================================================
