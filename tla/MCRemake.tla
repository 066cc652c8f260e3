------------------------------ MODULE MCRemake ------------------------------
(***************************************************************************)
(* Remake for TLC: the makefiles.                                          *)
(***************************************************************************)
EXTENDS Remake, TLC

CONSTANTS a, b, c, e

(* A makefile: the rules that are not the default, over "no rule".         *)
Over(given1, default) == [f \in Files |-> IF f \in DOMAIN given1 THEN given1[f] ELSE default]

Single == [f \in Files |-> <<f>>]
Group2(h, m) == [Single EXCEPT ![h] = <<h, m>>, ![m] = <<h, m>>]

Rules(ds, oo, gr, mb, cm, tg, ph, gs) ==
    [deps |-> Over(ds, <<>>), orderOnly |-> oo, group |-> gr, maybe |-> mb,
     cmds |-> Over(cm, "none"), isTarget |-> tg, phony |-> ph, goals |-> gs]

Recipes(S) == [f \in S |-> "recipe"]

(* a: b c; b: e; c: e; and e has no rule.                                  *)
Diamond == Rules((a :> <<b, c>>) @@ (b :> <<e>>) @@ (c :> <<e>>), {}, Single, {},
                 Recipes({a, b, c}), {a, b, c}, {}, <<a>>)
(* a: b | c; c: e; two goals.                                              *)
Orders  == Rules((a :> <<b, c>>) @@ (c :> <<e>>), {<<a, c>>}, Single, {},
                 Recipes({a, b, c}), {a, b, c}, {}, <<b, a>>)
(* a: b c, without a recipe and phony; b: e; c: b e, with c a real file.   *)
Phony   == Rules((a :> <<b, c>>) @@ (b :> <<e>>) @@ (c :> <<b, e>>), {}, Single, {},
                 Recipes({b, c}), {a, b, c, e}, {a}, <<a>>)
(* b + c: e; a: c b.                                                       *)
Multi   == Rules((a :> <<c, b>>) @@ (b :> <<e>>), {}, Group2(b, c), {},
                 Recipes({a, b, e}), {a, b, c, e}, {}, <<a>>)
(* b +| c: e; a: c; e has an empty recipe.                                 *)
Maybe   == Rules((a :> <<c>>) @@ (b :> <<e>>) @@ (c :> <<b>>), {<<c, b>>}, Group2(b, c), {c},
                 Recipes({a, b}) @@ (e :> "empty"), {a, b, c, e}, {}, <<a>>)
(* a: b e; b: c; c: a e.                                                   *)
Cycle   == Rules((a :> <<b, e>>) @@ (b :> <<c>>) @@ (c :> <<a, e>>), {}, Single, {},
                 Recipes({a, b, c}), {a, b, c}, {}, <<a>>)

With(m, keep, slots) ==
    [deps |-> m.deps, orderOnly |-> m.orderOnly, group |-> m.group, maybe |-> m.maybe,
     cmds |-> m.cmds, isTarget |-> m.isTarget, phony |-> m.phony, goals |-> m.goals,
     keepGoing |-> keep, slots |-> slots]

Sound == {With(m, k, n) : m \in {Diamond, Orders, Phony, Multi, Maybe, Cycle},
                          k \in BOOLEAN, n \in 1 .. 3}

(* b + c: e, and c is a goal.                                              *)
SecondaryGoal == {With([Multi EXCEPT !.goals = <<c>>], TRUE, 2)}

TheEnd == pc = "exit" /\ UNCHANGED vars

MCNext     == Next \/ TheEnd
MCSpec     == Init /\ [][MCNext]_vars
MCFairSpec == MCSpec /\ WF_vars(Next)
=============================================================================
