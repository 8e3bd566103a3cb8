------------------------------ MODULE MCMirExec ------------------------------
(* Small instances of MirExec.  The arm lists cover every outcome, as        *)
(* design/language/patterns.md asks of a match.                              *)
EXTENDS MirExec

Lit(d)  == [k |-> "lit", d |-> d]
Unit(d) == [k |-> "unit", d |-> d]
Wild    == [k |-> "wild", d |-> 0]
Arm(p)  == [pat |-> p, guard |-> FALSE]
Guarded(p) == [pat |-> p, guard |-> TRUE]

\* What is lowered as the language says it runs: all but `defer`.
Translated == NodeKinds \ {"defer"}

\* Some/none, and a known arm before a catch-all.
PlainArms == {<<Arm(Lit(1)), Arm(Lit(0))>>, <<Arm(Lit(0)), Arm(Wild)>>}
PresentPatterns == {Lit(1)}      \* some(x), ok(x), 1, true

\* A guarded arm before a catch-all, and no arms at all.
GuardArms == {<<Guarded(Lit(1)), Arm(Wild)>>}
NoArms == {}

\* For README.md, "Other divergences": arms of enum variants without a payload,
\* and `if let 0 = ...`.
UnitArms == {<<Arm(Unit(0)), Arm(Unit(1))>>}
ZeroPatterns == {Lit(0)}
=============================================================================
