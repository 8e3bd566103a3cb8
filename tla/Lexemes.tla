------------------------------- MODULE Lexemes -------------------------------
(***************************************************************************)
(* What the tokens of a source are, whatever reads them: the longest       *)
(* lexeme at every place.  The lexemes are those of the kinds of token.rs  *)
(* (Lexeme), and the literals that only the documents of the language have *)
(* (DocumentedLiteral).                                                    *)
(***************************************************************************)
EXTENDS Lexer

\* The spellings that token.rs gives for the kinds of operators and punctuation.
Operators == {
    <<":", "=">>, <<"=">>, <<":">>,
    <<"+", "=">>, <<"-", "=">>, <<"*", "=">>, <<"/", "=">>, <<"%", "=">>, <<"*", "*", "=">>,
    <<"+">>, <<"-">>, <<"*">>, <<"/">>, <<"%">>, <<"*", "*">>,
    <<"=", "=">>, <<"!", "=">>, <<"<">>, <<">">>, <<"<", "=">>, <<">", "=">>, <<"&", "&">>,
    <<"|", "|">>, <<"&">>, <<"|">>, <<"^">>, <<"~">>, <<"<", "<">>, <<">", ">">>, <<"!">>,
    <<".">>, <<"-", ">">>, <<"~", ">">>, <<"?">>, <<".", ".">>, <<".", ".", "=">>,
    <<"lbrace">>, <<"rbrace">>, <<"[">>, <<"]">>, <<"(">>, <<")">>, <<"comma">>, <<"semicolon">>, <<"@">>}

WordBytes == {"a", "r", "x", "underscore", "1", "2"}

\* Position i of s is behind an odd number of backslashes in a row.
Escaped(s, i) ==
    \E k \in 1..(i - 2) :
        /\ k % 2 = 1
        /\ \A j \in (i - k)..(i - 1) : s[j] = "\\"
        /\ s[i - k - 1] # "\\"

Begins(s, prefix) == Len(s) >= Len(prefix) /\ \A i \in DOMAIN prefix : s[i] = prefix[i]
Without(s, b) == \A i \in DOMAIN s : s[i] # b
AllFrom(s, n, bytes) == \A i \in n..Len(s) : s[i] \in bytes

Word(s) == s[1] \in {"a", "r", "x", "underscore"} /\ AllFrom(s, 2, WordBytes) /\ s # <<"underscore">>

Number(s) ==
    /\ s[1] \in {"1", "2"}
    /\ \A i \in 2..Len(s) :
        \/ s[i] \in WordBytes
        \/ s[i] = "." /\ i < Len(s) /\ s[i + 1] \in {"1", "2"}

String(s) ==
    /\ Len(s) > 1 /\ s[1] = "quote" /\ s[Len(s)] = "quote" /\ ~Escaped(s, Len(s))
    /\ \A i \in 2..(Len(s) - 1) : s[i] = "quote" => Escaped(s, i)

Character(s) ==
    /\ Len(s) \in {3, 4} /\ s[1] = "'" /\ s[Len(s)] = "'"
    /\ s[2] = "\\" <=> Len(s) = 4

Label(s) == Len(s) > 1 /\ s[1] = "'" /\ AllFrom(s, 2, WordBytes)

DocComment(s) == Begins(s, <<"/", "/", "/">>) /\ Without(s, "\n")
LineComment(s) == Begins(s, <<"/", "/">>) /\ ~Begins(s, <<"/", "/", "/">>) /\ Without(s, "\n")

\* A closed comment ends with the first "*/", an open one never does.
BlockComment(s) ==
    /\ Begins(s, <<"/", "*">>)
    /\ \A i \in 3..(Len(s) - 2) : <<s[i], s[i + 1]>> # <<"*", "/">>

Lexeme(kind, s) ==
    \/ kind = "word" /\ Word(s)
    \/ kind = "underscore" /\ s = <<"underscore">>
    \/ kind = "number" /\ Number(s)
    \/ kind = "string" /\ String(s)
    \/ kind = "char" /\ Character(s)
    \/ kind = "label" /\ Label(s)
    \/ kind = "doc" /\ DocComment(s)
    \/ kind = "op" /\ s \in Operators
    \/ kind = "space" /\ s \in {<<"space">>, <<"\n">>}
    \/ kind = "line" /\ LineComment(s)
    \/ kind = "block" /\ BlockComment(s)

(* Literals that types.md and data-types-exs.md give and no kind of lexeme has. *)

\* r"C:\new": up to the next quote, whatever the backslashes.
RawString(s) ==
    /\ Begins(s, <<"r", "quote">>) /\ Len(s) > 2 /\ s[Len(s)] = "quote"
    /\ \A i \in 3..(Len(s) - 1) : s[i] # "quote"

\* A character of several bytes.
WideCharacter(s) ==
    /\ Len(s) > 3 /\ s[1] = "'" /\ s[Len(s)] = "'" /\ s[2] \in Lead
    /\ \A i \in 3..(Len(s) - 1) : s[i] \in Inner

\* '\x41' and '\u{1F600}'.
NumericCharacter(s) ==
    /\ Begins(s, <<"'", "\\", "x">>) /\ Len(s) > 5 /\ s[Len(s)] = "'"
    /\ \A i \in 4..(Len(s) - 1) : s[i] \in WordBytes \cup {"lbrace", "rbrace"}

DocumentedLiteral(s) == RawString(s) \/ WideCharacter(s) \/ NumericCharacter(s)

Skipped == {"space", "line", "block"}
Meaningful == {"word", "underscore", "number", "string", "char", "label", "doc", "op"}

Text(from, to) == SubSeq(source, from + 1, to)
Starts(kind, from) == \E to \in (from + 1)..Len(source) : Lexeme(kind, Text(from, to))
\* The source has a lexeme of this kind between the two places, and none there
\* is longer.
Longest(kind, from, to) ==
    /\ from < to /\ Lexeme(kind, Text(from, to))
    /\ \A other \in Skipped \cup Meaningful, end \in (to + 1)..Len(source) :
           ~Lexeme(other, Text(from, end))

\* No token so far begins where a literal does that only the documents have.  The
\* lexer takes such a literal to pieces, and is out of step with the language then.
InStepWithDocuments ==
    \A i \in DOMAIN tokens : \A to \in (tokens[i].from + 1)..Len(source) :
        ~DocumentedLiteral(Text(tokens[i].from, to))

(***************************************************************************)
(* Every token is the longest lexeme of the language where it begins, and  *)
(* an error is reported only where none does, up to the first literal that *)
(* only the documents have.  The lexer decides with one byte after another *)
(* and two or three bytes in view, in the order of its arms.               *)
(***************************************************************************)
Justified(t) ==
    /\ t.kind = Eof => t.from = Len(source) /\ t.to = t.from
    /\ t.kind = "error" => \A kind \in Skipped \cup Meaningful : ~Starts(kind, t.from)
    /\ t.kind \in Meaningful => Longest(t.kind, t.from, t.to)
LongestMatch == tokens # <<>> /\ InStepWithDocuments => Justified(Last(tokens))

(***************************************************************************)
(* "Raw strings use r"..." - no escape processing" (types.md:672): where   *)
(* one begins that the source closes, it is one token, up to its quote.    *)
(***************************************************************************)
RawStringsWhole ==
    \A i \in DOMAIN tokens : \A to \in (tokens[i].from + 1)..Len(source) :
        RawString(Text(tokens[i].from, to)) => tokens[i].kind = "string" /\ tokens[i].to = to

\* The source can be cut, from one place to another, into whitespace and comments.
OnlySkipped(from, to) ==
    \E cuts \in SUBSET (from..to) :
        /\ {from, to} \subseteq cuts
        /\ \A at \in cuts \ {to} : \E next \in cuts, kind \in Skipped : Longest(kind, at, next)

(***************************************************************************)
(* Nothing of the source is lost: between two tokens, and before the end,  *)
(* there are only whitespace and comments, and the end is one last token   *)
(* (lib.rs: "The returned vector always ends with a single `Eof` token").  *)
(***************************************************************************)
NothingLost ==
    tokens # <<>> =>
        /\ OnlySkipped(IF Len(tokens) = 1 THEN 0 ELSE tokens[Len(tokens) - 1].to, Last(tokens).from)
        /\ (Last(tokens).kind = Eof) = (mode = "done")
=============================================================================
