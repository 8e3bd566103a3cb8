----------------------------- MODULE MCResolver -----------------------------
(* Small instances of Resolver. *)
EXTENDS LexicalScope

\* No name, and one that is bound twice (by the alternatives of an
\* or-pattern, or by two fields).
MCPatternLists == {<<>>, <<Binder("x", TRUE, FALSE), Binder("x", FALSE, FALSE)>>}

\* No name, or one that is not a field.
MCOneName == {<<>>, <<Binder("x", TRUE, FALSE)>>}
=============================================================================
