------------------------------ MODULE ParseExpr ------------------------------
(***************************************************************************)
(* Expressions (razen_parser: expr.rs): precedence climbing, one step per  *)
(* turn of its loop, and the primary expressions.                          *)
(***************************************************************************)
EXTENDS ParseTypes

Prefix == {"-", "!", "~", "&", "*"}
\* Slip: a prefix operator binds tighter than `**`.
TightPrefix == 30
PrefixPower == 27

InfixPower(op) ==
    CASE op = "~>"                       -> <<2, 3>>
      [] op = "||"                       -> <<4, 5>>
      [] op = "&&"                       -> <<6, 7>>
      [] op \in {"==", "!="}             -> <<8, 9>>
      [] op \in {"<", ">", "<=", ">="}   -> <<10, 11>>
      [] op \in {"..", "..="}            -> <<12, 13>>
      [] op = "|"                        -> <<14, 15>>
      [] op = "^"                        -> <<16, 17>>
      [] op = "&"                        -> <<18, 19>>
      [] op \in {"<<", ">>"}             -> <<20, 21>>
      [] op \in {"+", "-"}               -> <<22, 23>>
      [] op \in {"*", "/", "%"}          -> <<24, 25>>
      [] op = "**"                       -> <<29, 28>>

BinOps == {"~>", "||", "&&", "==", "!=", "<", ">", "<=", ">=", "..", "..=", "|", "^",
           "&", "<<", ">>", "+", "-", "*", "/", "%", "**"}
AssignOps == {"=", "+=", "-=", "*=", "/=", "%=", "**="}

\* What may follow at a position of its own: the loop goes on after it.
Infix(bp) == [is |-> "infix", min |-> bp]
\* A node from the start of the left operand to the end of the right one, which
\* are the nodes built last.
Join(kind) == [is |-> "join", kind |-> kind, from |-> Last(nodes).from, at |-> pos]
Left == Last(nodes).from
SpanFromLeft(kind, at) == [is |-> "span", kind |-> kind, from |-> Left, at |-> at]

Value == Expr(0)
Args == Delimited(")", <<Value>>)
Block == Parse("block")

ParseExprBp ==
    /\ Runs("expr")
    /\ Then(<<Parse("unary"), Infix(Top.min)>>)

\* Span::new(lhs.start, rhs.end)
JoinOperands ==
    /\ Runs("join")
    /\ nodes' = Append(nodes, Node(Top.kind, Top.from, Last(nodes).to, Top.at))
    /\ calls' = Tail(calls)
    /\ UNCHANGED <<slots, tokens, pos, items, errors>>

ParseInfix ==
    /\ Runs("infix")
    /\ \/ /\ Tok \in AssignOps /\ Top.min = 0
          /\ Take(1, <<Value, Join("assign"), Top>>)
       \/ Tok \in {"as", "is"} /\ Take(1, <<Type, Join("cast"), Top>>)
       \/ /\ Tok \in BinOps /\ InfixPower(Tok)[1] >= Top.min
          /\ Take(1, <<Expr(InfixPower(Tok)[2]), Join("binary"), Top>>)

EndInfix ==
    /\ Runs("infix")
    /\ \/ Tok \in AssignOps /\ Top.min # 0
       \/ Tok \in BinOps /\ InfixPower(Tok)[1] < Top.min
       \/ Tok \notin AssignOps \cup BinOps \cup {"as", "is", ".", "[", "(", "?"}
    /\ Return

ParsePostfix ==
    /\ Runs("infix")
    /\ \/ /\ Tok = "." /\ Peek(1) = "await"
          /\ Take(2, <<SpanFromLeft("postfix", pos), Top>>)
       \/ /\ Tok = "." /\ IsIdent(Peek(1)) /\ Peek(2) = "("
          /\ Take(3, Args \o <<SpanFromLeft("postfix", pos + 2), Top>>)
       \/ /\ Tok = "." /\ IsIdent(Peek(1)) /\ Peek(2) # "("
          /\ Take(2, <<SpanFromLeft("postfix", pos), Top>>)
       \/ Tok = "." /\ Peek(1) # "await" /\ ~IsIdent(Peek(1)) /\ Raise
       \/ /\ Tok = "["
          /\ Take(1, <<Value, Token("]"), SpanFromLeft("postfix", pos), Top>>)
       \/ Tok = "(" /\ Take(1, Args \o <<SpanFromLeft("postfix", pos), Top>>)
       \/ Tok = "?" /\ Take(1, <<SpanFromLeft("postfix", pos), Top>>)

\* Slip: the span of a prefix operation begins at its operand.
SpanOfOperand ==
    /\ Runs("unary")
    /\ \/ Tok \in Prefix
          /\ Take(1, <<Expr(PrefixPower), [Span("unary", pos) EXCEPT !.from = pos + 1]>>)
       \/ Tok \notin Prefix /\ Then(<<Parse("primary")>>)

ParseUnary ==
    /\ Runs("unary")
    /\ \/ Tok \in Prefix /\ Take(1, <<Expr(PrefixPower), Span("unary", pos)>>)
       \/ Tok \notin Prefix /\ Then(<<Parse("primary")>>)

-----------------------------------------------------------------------------
(* Primary expressions.                                                    *)

Atoms == Literals \cup {"self", "_"}
Starts == {"(", "{", "[", "if", "match", "loop", "|", "ret", "break", "next", "fork",
           "unsafe", "label"}

Else(blockOrIf) == Opt("else", <<blockOrIf>>)
Whole(kind) == Span(kind, 0)

ParseAtom ==
    /\ Runs("primary")
    /\ \/ /\ Tok \in Atoms
          /\ Leaf(IF Tok \in Literals THEN "literal" ELSE "ident", 1, <<>>)
       \/ /\ ~IsIdent(Tok) /\ Tok \notin Atoms \cup Starts
          /\ Raise

\* A first element, and what follows it tells a tuple from parentheses.
ParseParens ==
    /\ Runs("primary") /\ Tok = "("
    /\ \/ Peek(1) = ")" /\ Leaf("tuple", 2, <<>>)
       \/ Peek(1) # ")" /\ Take(1, <<Value, [is |-> "parens", from |-> pos]>>)

EndParens ==
    /\ Runs("parens")
    /\ LET whole == [Whole("parens") EXCEPT !.from = Top.from]
       IN \/ Tok = "," /\ Take(1, Args \o <<whole>>)
          \/ Tok # "," /\ Then(<<Token(")"), whole>>)

ParseArray ==
    /\ Runs("primary") /\ Tok = "["
    /\ Take(1, Delimited("]", <<Value>>) \o <<Whole("array")>>)

\* A collection, a struct literal or a name.
Entries(t) == IF t = "map" THEN <<Value, Token(":"), Value>> ELSE <<Value>>

IsStructLiteralStart ==
    /\ Peek(1) = "{"
    /\ \/ Peek(2) \in {"..", "}"}
       \/ IsIdent(Peek(2)) /\ Peek(3) \in {":", ","}

ParseIdent ==
    /\ Runs("primary") /\ IsIdent(Tok)
    /\ LET collection == Tok \in {"vec", "set", "map", "tensor"} /\ Peek(1) = "["
       IN \/ /\ collection
             /\ Take(2, Delimited("]", Entries(Tok)) \o <<Whole("array")>>)
          \/ /\ ~collection /\ IsStructLiteralStart
             /\ Leaf("ident", 1, <<Token("{"), Parse("field_inits"), Token("}"),
                                 Whole("struct_literal")>>)
          \/ ~collection /\ ~IsStructLiteralStart /\ Leaf("ident", 1, <<>>)

\* The base of a struct update ends the fields.
ParseFieldInits ==
    /\ Runs("field_inits")
    /\ \/ Tok \in {"}", "eof"} /\ Return
       \/ Tok = ".." /\ Take(1, <<Value, LastComma>>)
       \/ /\ Tok \notin {"}", "eof", ".."}
          /\ Then(<<Name, Token(":"), Value, Comma(Top)>>)

ParseBlock ==
    /\ \/ Runs("block")
       \/ Runs("primary") /\ Tok = "{"
    /\ Then(<<Token("{"), Until("}", <<Parse("stmt")>>), Token("}"), Whole("block")>>)

ParseJump ==
    /\ Runs("primary")
    /\ LET n == IF Peek(1) = "label" THEN 2 ELSE 1
       IN \/ Tok = "ret" /\ Take(1, <<Parse("ret_value"), Whole("jump")>>)
          \/ Tok = "break" /\ Take(n, <<Parse("break_value"), Whole("jump")>>)
          \/ Tok = "next" /\ Leaf("jump", n, <<>>)

ParseValue ==
    LET ends == IF Top.is = "ret_value" THEN {"eof", "}", ","} ELSE {"eof", "}", ",", ";"}
    IN /\ Runs("ret_value") \/ Runs("break_value")
       /\ \/ Tok \in ends /\ Return
          \/ Tok \notin ends /\ Then(<<Value>>)

ParseUnsafe ==
    /\ Runs("primary") /\ Tok = "unsafe"
    /\ Take(1, <<Block, Whole("unsafe")>>)

\* The node of a loop begins at `loop`, not at its label.
ParseLabel ==
    \/ Runs("primary") /\ Tok = "label" /\ Take(1, <<Token(":"), Parse("labelled")>>)
    \/ Runs("labelled") /\ Tok = "loop" /\ Then(<<Parse("primary")>>)
    \/ Runs("labelled") /\ Tok # "loop" /\ Raise

ParseIf ==
    /\ Runs("primary") /\ Tok = "if"
    /\ LET rest == <<Block, Else(Parse("else")), Whole("if")>>
       IN \/ Peek(1) = "let" /\ Take(2, <<Pattern, Token("="), Value>> \o rest)
          \/ Peek(1) # "let" /\ Take(1, <<Value>> \o rest)

ParseElse ==
    /\ Runs("else")
    /\ \/ Tok = "if" /\ Then(<<Parse("primary")>>)
       \/ Tok # "if" /\ Then(<<Block>>)

ParseMatch ==
    /\ Runs("primary") /\ Tok = "match"
    /\ LET arm == <<Pattern, Opt("if", <<Value>>), Token("->"), Value>>
       IN Take(1, <<Value, Token("{")>> \o Delimited("}", arm) \o <<Whole("match")>>)

\* Whether it goes over a collection is seen by trying to read a pattern and `in`.
ParseLoop ==
    /\ Runs("primary") /\ Tok = "loop"
    /\ LET rest == <<Value, Block, Else(Block)>>
           attempt == [Commit("in", rest, rest) EXCEPT !.pos = pos + 1]
       IN \/ Peek(1) = "let" /\ Take(2, <<Pattern, Token("="), Value, Block, Whole("loop")>>)
          \/ Peek(1) = "{" /\ Take(1, <<Block, Else(Block), Whole("loop")>>)
          \/ /\ Peek(1) \notin {"let", "{"}
             /\ Take(1, <<Pattern, attempt, Whole("loop")>>)

ParseClosure ==
    /\ Runs("primary") /\ Tok = "|"
    /\ Take(1, Delimited("|", <<Name, OptType>>) \o <<Parse("closure_body"), Whole("closure")>>)

ParseClosureBody ==
    /\ Runs("closure_body")
    /\ \/ Tok = "{" /\ Then(<<Block>>)
       \/ Tok # "{" /\ Then(<<Value>>)

ParseFork ==
    /\ Runs("primary") /\ Tok = "fork"
    /\ \/ /\ Peek(1) = "loop"
          /\ Take(2, <<Pattern, Token("in"), Value, Block, Whole("fork")>>)
       \/ /\ Peek(1) # "loop"
          /\ Take(1, <<Token("{")>> \o Delimited("}", <<Parse("task")>>) \o <<Whole("fork")>>)

\* `name <- task` is tried first; anything else is an expression from its start.
ParseTask ==
    /\ Runs("task")
    /\ LET named == IsIdent(Tok) /\ Peek(1) = "<" /\ Peek(2) = "-"
       IN \/ named /\ Take(3, <<Value>>)
          \/ ~named /\ Then(<<Value>>)

Expressions ==
    \/ ParseExprBp
    \/ JoinOperands
    \/ ParseInfix
    \/ EndInfix
    \/ ParsePostfix
    \/ ParseUnary
    \/ ParseAtom
    \/ ParseParens
    \/ EndParens
    \/ ParseArray
    \/ ParseIdent
    \/ ParseFieldInits
    \/ ParseBlock
    \/ ParseJump
    \/ ParseValue
    \/ ParseUnsafe
    \/ ParseLabel
    \/ ParseIf
    \/ ParseElse
    \/ ParseMatch
    \/ ParseLoop
    \/ ParseClosure
    \/ ParseClosureBody
    \/ ParseFork
    \/ ParseTask
=============================================================================
