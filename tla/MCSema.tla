------------------------------- MODULE MCSema -------------------------------
(* Small instances of Sema and LowerLocals. *)
EXTENDS LowerLocals

\* No name, and one that is bound twice (in the alternatives of an or-pattern),
\* by a shorthand field and then by name, which alone is recorded.
MCPatternLists == {<<>>, <<Binder("x", FALSE, FALSE), Binder("x", TRUE, FALSE)>>}

\* Without names of types, which none of the checks looks at, and with one of
\* the constructs that bind patterns and one of the blocks.
MCConstructs == Kinds \ {"type", "operands", "if_let", "match", "guard"}
=============================================================================
