------------------------------- MODULE Parser -------------------------------
(***************************************************************************)
(* The parser (razen_parser: lib.rs, item.rs, stmt.rs): statements, items, *)
(* the loop over the items of a module and its recovery from errors.       *)
(***************************************************************************)
EXTENDS ParseExpr

ItemStarts == {"act", "struct", "enum", "trait", "impl", "alias", "use", "pub", "async", "@"}

ParseDeclaration ==
    /\ Runs("stmt")
    /\ \/ Tok \in {"mut", "const"} /\ Take(1, <<Name, Token(":"), Type, Token("="), Value>>)
       \/ Tok = "shared" /\ Take(1, <<Name, OptType, Token("="), Value>>)

ParseStmt ==
    /\ Runs("stmt")
    /\ \/ /\ Tok = "ret"
          /\ Take(1, IF Peek(1) \in {"eof", "}"} THEN <<>> ELSE <<Value>>)
       \/ Tok = "defer" /\ Take(1, <<Value>>)
       \/ Tok = "guard" /\ Take(1, <<Value, Token("else"), Block>>)
       \/ Tok \in ItemStarts /\ Then(<<Parse("item")>>)

\* A destructuring pattern is tried before an expression.
ParseExprOrLet ==
    LET let == [is |-> "let", keep |-> Len(nodes)]
        otherwise == <<Value, let>>
    IN /\ Runs("stmt")
       /\ Tok \notin ItemStarts \cup {"mut", "const", "shared", "ret", "defer", "guard"}
       /\ \/ Tok \in {"(", "{"} /\ Then(<<Pattern, Commit(":=", <<Value>>, otherwise)>>)
          \/ Tok \notin {"(", "{"} /\ Then(otherwise)

\* expr_to_let_pattern: a name becomes a binding.  Any other expression is thrown
\* away, and so is the value: its binding is `_`.
AsBinding(expr) ==
    [expr EXCEPT !.kind = IF expr.kind = "ident" THEN "binding" ELSE "discarded", !.at = 0]

EndExprOrLet ==
    /\ Runs("let")
    /\ \/ /\ Tok = ":="
          /\ pos' = Advanced(1)
          /\ nodes' = Append(SubSeq(nodes, 1, Top.keep), AsBinding(Last(nodes)))
          /\ calls' = <<Value>> \o Tail(calls)
          /\ UNCHANGED <<slots, tokens, items, errors>>
       \/ Tok # ":=" /\ Return

-----------------------------------------------------------------------------
(* Items.                                                                  *)

Attributes == Parse("attributes")
Visibility == Parse("visibility")
Bounds == <<Type, More("+", <<Type>>)>>
Generics == Opt("[", Delimited("]", <<Name, Opt(":", Bounds)>>))
Where == Opt("where", <<List({"{", "->"}, <<Name, Token(":")>> \o Bounds)>>)
Methods == <<Token("{"), Until("}", <<Attributes, Visibility, Parse("fn")>>), Token("}")>>

ParseItem ==
    /\ Runs("item")
    /\ Then(<<Attributes, Visibility, Parse("definition")>>)

ParseAttributes ==
    LET args == Opt("[", Delimited("]", <<Parse("attribute_arg")>>))
    IN /\ Runs("attributes")
       /\ \/ Tok = "@" /\ Take(1, <<Name, args, Attributes>>)
          \/ Tok # "@" /\ Return

ParseAttributeArg ==
    /\ Runs("attribute_arg")
    /\ \/ Tok = "str" /\ Take(1, <<>>)
       \/ Tok # "str" /\ Then(<<Name, Opt(":", <<Value>>)>>)

ParseVisibility ==
    /\ Runs("visibility")
    /\ \/ Tok = "pub" /\ Take(1, <<Opt("(", <<Name, Token(")")>>)>>)
       \/ Tok # "pub" /\ Return

ParseFn ==
    /\ Runs("fn")
    /\ Then(<<Token("act"), Name, Generics, Token("(")>>
                \o Delimited(")", <<Parse("param")>>)
                \o <<Parse("return_type"), Where, Parse("body")>>)

ParseReturnType ==
    LET startsType == IsIdent(Tok) \/ Tok \in {"(", "[", "Self", "|"}
    IN /\ Runs("return_type")
       /\ \/ startsType /\ Then(<<Type>>)
          \/ ~startsType /\ Return

ParseBody ==
    /\ Runs("body")
    /\ \/ Tok = "->" /\ Take(1, <<Value>>)
       \/ Tok = "{" /\ Take(1, <<Until("}", <<Parse("stmt")>>), Token("}"), Whole("body")>>)
       \/ Tok \notin {"->", "{"} /\ Return

ParseParam ==
    \/ Runs("param") /\ Tok = "mut" /\ Take(1, <<Parse("param_name")>>)
    \/ Runs("param") /\ Tok # "mut" /\ Then(<<Parse("param_name")>>)

ParseParamName ==
    /\ Runs("param_name")
    /\ \/ Tok = "self" /\ Leaf("binding", 1, <<>>)
       \/ (Tok = "_" \/ IsIdent(Tok)) /\ Leaf("binding", 1, <<OptType>>)
       \/ ~IsIdent(Tok) /\ Tok \notin {"self", "_"} /\ Raise

\* What a struct or a variant of an enum is made of.
ParsePayload ==
    /\ Runs("payload")
    /\ \/ Tok = "(" /\ Take(1, Delimited(")", <<Type>>))
       \/ Tok = "{" /\ Take(1, Delimited("}", Top.visible \o <<Name, Token(":"), Type>>))
       \/ Tok \notin {"(", "{"} /\ Return
Payload(visible) == [is |-> "payload", visible |-> visible]

Definition(t) == Runs("definition") /\ Tok = t

ParseDefinition ==
    \/ Definition("async") /\ Take(1, <<Parse("fn")>>)
    \/ Definition("act") /\ Then(<<Parse("fn")>>)
    \/ Definition("const") /\ Take(1, <<Name, Token(":"), Type, Token("="), Value>>)
    \/ Definition("shared") /\ Take(1, <<Name, OptType, Token("="), Value>>)
    \/ /\ Runs("definition")
       /\ Tok \notin (ItemStarts \ {"@", "pub"}) \cup {"const", "shared"}
       /\ Raise

ParseStructDef ==
    /\ Definition("struct")
    /\ Take(1, <<Name, Generics, Where, Payload(<<Visibility>>)>>)

ParseEnumDef ==
    /\ Definition("enum")
    /\ Take(1, <<Name, Generics, Where, Token("{")>>
                  \o Delimited("}", <<Attributes, Name, Payload(<<>>)>>))

ParseTraitDef ==
    /\ Definition("trait")
    /\ Take(1, <<Name, Generics, Opt(":", Bounds), Where>> \o Methods)

ParseImplBlock ==
    /\ Definition("impl")
    /\ Take(1, <<Generics, Type, Opt("for", <<Type>>), Where>> \o Methods)

ParseTypeAlias ==
    /\ Definition("alias")
    /\ Take(1, <<Name, Generics, Token("="), Type>>)

ParseUseDecl ==
    /\ Definition("use")
    /\ Take(1, <<Opt("~", <<Token(".")>>), Name, More(".", <<Name>>), Parse("use_kind")>>)

ParseUseKind ==
    /\ Runs("use_kind")
    /\ \/ Tok = "{" /\ Take(1, Delimited("}", <<Name, Opt("as", <<Name>>)>>))
       \/ Tok = "as" /\ Take(1, <<Name>>)
       \/ Tok \notin {"{", "as"} /\ Return

-----------------------------------------------------------------------------
(* The module.                                                             *)

\* Slip: recovery stops where a statement starts.
RecoverAtMut == ItemStarts \cup {"const", "shared", "mut", "eof"}
\* Slip: recovery looks for an item only.
RecoverPastEof == ItemStarts \cup {"const", "shared"}
Recovered == ItemStarts \cup {"const", "shared", "eof"}

\* Parses an item, and goes on behind it or, if it is wrong, at the next item.
ParseModule ==
    LET end == [is |-> "item_end", since |-> pos, keep |-> Len(nodes)]
    IN /\ Runs("module")
       /\ \/ IsEof /\ Return
          \/ Tok = "doc" /\ Take(1, <<Top>>)
          \/ ~IsEof /\ Tok # "doc" /\ Then(<<Parse("item"), end, Top>>)

EndItem ==
    /\ Runs("item_end")
    /\ items' = items + 1
    /\ calls' = Tail(calls)
    /\ UNCHANGED <<slots, tokens, pos, nodes, errors>>

RecoverToNextItem ==
    /\ Runs("recover")
    /\ \/ Tok \in Recovered /\ Return
       \/ Tok \notin Recovered /\ Take(1, <<Top>>)

Done == calls = <<>> /\ UNCHANGED vars

Items ==
    \/ ParseDeclaration
    \/ ParseStmt
    \/ ParseExprOrLet
    \/ EndExprOrLet
    \/ ParseItem
    \/ ParseAttributes
    \/ ParseAttributeArg
    \/ ParseVisibility
    \/ ParseFn
    \/ ParseReturnType
    \/ ParseBody
    \/ ParseParam
    \/ ParseParamName
    \/ ParsePayload
    \/ ParseDefinition
    \/ ParseStructDef
    \/ ParseEnumDef
    \/ ParseTraitDef
    \/ ParseImplBlock
    \/ ParseTypeAlias
    \/ ParseUseDecl
    \/ ParseUseKind
    \/ ParseModule
    \/ EndItem
    \/ RecoverToNextItem

Init ==
    /\ slots \in Inputs
    /\ tokens = <<>>
    /\ pos = 1
    /\ calls = <<Parse("module")>>
    /\ nodes = <<>>
    /\ items = 0
    /\ errors = 0

Next == Machine \/ TypesAndPatterns \/ Expressions \/ Items \/ Done

\* One thread parses a finite input, and nothing it does waits for anything.
Spec == Init /\ [][Next]_vars /\ WF_vars(Next)
=============================================================================
