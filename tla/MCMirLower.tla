----------------------------- MODULE MCMirLower -----------------------------
(* Small instances of MirLower: the arm lists and patterns to choose from. *)
EXTENDS MirLower

Lit(d)  == [k |-> "lit", d |-> d]
Unit(d) == [k |-> "unit", d |-> d]
Wild    == [k |-> "wild", d |-> 0]
Arm(p)  == [pat |-> p, guard |-> FALSE]
Guarded(p) == [pat |-> p, guard |-> TRUE]

\* Every shape the switch treats differently: no arm, one, a default that is
\* known or not, a guard, an arm the switch cannot reach.
MCArmLists == {<<>>, <<Arm(Wild)>>, <<Arm(Lit(1)), Guarded(Lit(0))>>,
               <<Guarded(Unit(0)), Arm(Lit(1)), Arm(Wild)>>}
MCPatterns == {Lit(1)}
=============================================================================
