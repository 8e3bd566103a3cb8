------------------------------- MODULE MCLexer -------------------------------
(* Families of short sources for Lexer. *)
EXTENDS Lexemes

\* A character of one byte, and one of two (U+00E9).
OneByte(bytes) == {<<b>> : b \in bytes}
TwoBytes == {<<"C3", "A9">>}

\* The texts of up to so many of these characters.
Family(chars, length) == UNION {[1..n -> chars] : n \in 0..length}

MCSources == {FlattenSeq(text) : text \in UNION {
    \* Every pair of operators that one may take for a longer one.
    Family(OneByte({":", "=", "+", "-", "*", "/", "%", ".", "~", "<", ">", "!", "&", "|", "@"}), 3),
    Family(OneByte({"*", "=", ".", "/", "1"}), 5),
    \* Comments of each kind, inside and behind each other.
    Family(OneByte({"/", "*", "\n", "a"}) \cup TwoBytes, 6),
    \* Strings and their escapes.
    Family(OneByte({"quote", "\\", "r", "\n"}) \cup TwoBytes, 6),
    \* Characters and labels.
    Family(OneByte({"'", "\\", "a", "underscore", ":"}) \cup TwoBytes, 5),
    \* Words and numbers.
    Family(OneByte({"a", "1", "underscore", ".", "space"}) \cup TwoBytes, 5)}}
=============================================================================
