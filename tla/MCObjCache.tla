----------------------------- MODULE MCObjCache -----------------------------
(***************************************************************************)
(* ObjCache for TLC.  t1 and t1x differ only in whitespace or #line        *)
(* statements.                                                             *)
(***************************************************************************)
EXTENDS ObjCache, TLC

CONSTANTS t1, t1x, t2

MCTexts   == {t1, t1x, t2}
MCMeaning == [t \in MCTexts |-> IF t = t2 THEN t2 ELSE t1]

Options(p, c, f) == [piped |-> p, compare |-> c, fails |-> f]

(* Failing preprocessors, unless their outputs are compared.               *)
GoodModes  == {Options(FALSE, FALSE, TRUE), Options(TRUE, FALSE, TRUE),
               Options(FALSE, TRUE, FALSE)}
PipedModes == {Options(TRUE, TRUE, FALSE)}
FailModes  == {Options(FALSE, TRUE, TRUE)}
PlainModes == {Options(FALSE, FALSE, FALSE)}

(* A process at these places has not begun to change its object, or has    *)
(* written its entry file.                                                 *)
Quiet    == {"idle", "look", "full", "preprocess", "write"}
Anywhere == Quiet \cup {"search", "copy", "compile", "compiling", "finish", "update"}

(* The entries, and the arguments, are alike.                              *)
Symmetry == Permutations(Entries) \cup Permutations(Args)

(* The end: each process that may be run was run.                          *)
TheEnd == /\ runs = MaxRuns /\ \A e \in Entries : pc[e] = "idle"
          /\ UNCHANGED vars

MCSpec == Init /\ [][Next \/ TheEnd]_vars
=============================================================================
