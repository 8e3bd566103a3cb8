----------------------------- MODULE ParseTypes -----------------------------
(***************************************************************************)
(* Types and patterns (razen_parser: types.rs, pat.rs).                    *)
(***************************************************************************)
EXTENDS TokenStream

\* `(T)` is T itself, with T's span: the list holds one element if the element
\* built last begins before all the others.
Group == [is |-> "group", from |-> pos, keep |-> Len(nodes)]
OneElement(keep) ==
    /\ Len(nodes) > keep
    /\ \A i \in keep + 1..Len(nodes) : Last(nodes).from <= nodes[i].from

EndGroup ==
    /\ Runs("group")
    /\ nodes' = IF OneElement(Top.keep) THEN nodes ELSE Built("type", Top.from, 0, pos)
    /\ calls' = Tail(calls)
    /\ UNCHANGED <<slots, tokens, pos, items, errors>>

Type == Parse("type")
OptType == Opt(":", <<Type>>)

ParseType ==
    /\ Runs("type")
    /\ \/ /\ Tok = "|"
          /\ Take(1, Delimited("|", <<Type>>) \o <<Token("->"), Type, Span("type", 0)>>)
       \/ Tok = "(" /\ Take(1, Delimited(")", <<Type>>) \o <<Group>>)
       \/ Tok = "[" /\ Take(1, <<Type, Token(";"), Expr(0), Token("]"), Span("type", 0)>>)
       \/ /\ IsIdent(Tok) /\ Tok \notin {"void", "never"} /\ Peek(1) = "["
          /\ Take(2, Delimited("]", <<Type>>) \o <<Span("type", 0)>>)
       \/ /\ IsIdent(Tok)
          /\ Tok \in {"void", "never"} \/ Peek(1) # "["
          /\ Leaf("type", 1, <<>>)
       \/ Tok = "Self" /\ Leaf("type", 1, <<>>)
       \/ Tok = "&" /\ Take(1, <<Type, Span("type", 0)>>)
       \/ ~IsIdent(Tok) /\ Tok \notin {"|", "(", "[", "Self", "&"} /\ Raise

-----------------------------------------------------------------------------
Pattern == Parse("pattern")
Single == Parse("single")
PatternSpan == Span("pattern", 0)

ParsePattern ==
    /\ Runs("pattern")
    /\ Then(<<Single, [is |-> "alternatives", from |-> pos]>>)

ParseAlternatives ==
    /\ Runs("alternatives")
    /\ \/ Tok = "|" /\ Then(<<More("|", <<Single>>), [PatternSpan EXCEPT !.from = Top.from]>>)
       \/ Tok # "|" /\ Return

\* The fields of a struct pattern (those of an enum variant may have patterns).
\* `_` stands for the rest and ends them.
Fields(value) == <<[is |-> "fields", value |-> value], Token("}")>>

ParseFields ==
    /\ Runs("fields")
    /\ \/ Tok \in {"}", "eof"} /\ Return
       \/ Tok = "_" /\ Take(1, <<LastComma>>)
       \/ /\ Tok \notin {"}", "eof", "_"}
          /\ Then(<<Name, Opt(":", <<Parse(Top.value)>>), Comma(Top)>>)

\* `name: alias`.  Anything else after the colon is not a pattern here ...
ParseRename ==
    /\ Runs("rename")
    /\ \/ IsIdent(Tok) /\ Take(1, <<>>)
       \/ ~IsIdent(Tok) /\ Return

\* ... and is one in the fields of a variant.
ParseFieldValue ==
    /\ Runs("field_value")
    /\ \/ IsIdent(Tok) /\ Take(1, <<>>)
       \/ ~IsIdent(Tok) /\ Then(<<Single>>)

ParseLiteralPattern ==
    /\ Runs("single")
    /\ \/ Tok = "_" /\ Leaf("pattern", 1, <<>>)
       \/ Tok \in {"int", "char"} /\ Leaf("literal", 1, <<[is |-> "range", from |-> pos]>>)
       \/ Tok \in Literals \ {"int", "char"} /\ Leaf("literal", 1, <<>>)

\* maybe_range_pattern: what follows the range operator is a primary expression.
ParseRange ==
    /\ Runs("range")
    /\ \/ /\ Tok \in {"..", "..="}
          /\ Take(1, <<Parse("primary"), [PatternSpan EXCEPT !.from = Top.from]>>)
       \/ Tok \notin {"..", "..="} /\ Return

ParseSingle ==
    /\ Runs("single")
    /\ \/ Tok = "(" /\ Take(1, Delimited(")", <<Pattern>>) \o <<PatternSpan>>)
       \/ Tok = "{" /\ Take(1, Fields("rename") \o <<PatternSpan>>)
       \/ /\ Tok \in {"some", "ok", "err"}
          /\ Take(1, <<Token("("), Pattern, Token(")"), PatternSpan>>)
       \/ Tok = "none" /\ Leaf("pattern", 1, <<>>)
       \/ /\ IsIdent(Tok) /\ Tok \notin {"some", "ok", "err", "none"}
          /\ \/ /\ Peek(1) = "."
                /\ Take(1, <<More(".", <<Name>>), Parse("variant"), PatternSpan>>)
             \/ Peek(1) = "(" /\ Take(2, Delimited(")", <<Pattern>>) \o <<PatternSpan>>)
             \/ Peek(1) \notin {".", "("} /\ Leaf("binding", 1, <<>>)
       \/ /\ ~IsIdent(Tok) /\ Tok \notin Literals \cup {"_", "(", "{"}
          /\ Raise

ParseVariant ==
    /\ Runs("variant")
    /\ \/ Tok = "{" /\ Take(1, Fields("field_value"))
       \/ Tok = "(" /\ Take(1, Delimited(")", <<Pattern>>))
       \/ Tok \notin {"{", "("} /\ Return

TypesAndPatterns ==
    \/ EndGroup
    \/ ParseType
    \/ ParsePattern
    \/ ParseAlternatives
    \/ ParseFields
    \/ ParseRename
    \/ ParseFieldValue
    \/ ParseLiteralPattern
    \/ ParseRange
    \/ ParseSingle
    \/ ParseVariant
=============================================================================
