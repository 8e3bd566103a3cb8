------------------------------ MODULE ParseTree ------------------------------
(***************************************************************************)
(* What the parser promises, stated over the tokens and the nodes built,   *)
(* without the functions that built them.                                  *)
(***************************************************************************)
EXTENDS Parser, FiniteSets

\* The frames, nodes and cursor are well formed.
TypeOK ==
    /\ slots \in Seq(DOMAIN Strings)
    /\ tokens \in Seq(STRING)
    /\ pos \in 1..Len(tokens) + 1
    /\ \A i \in DOMAIN calls : calls[i].is \in STRING
    /\ \A i \in DOMAIN nodes : /\ nodes[i].kind \in STRING
                               /\ nodes[i].from <= nodes[i].to
                               /\ nodes[i].to < pos
                               /\ nodes[i].at \in 0..pos
    /\ items \in Nat
    /\ errors \in Nat

\* The end of the input is never consumed, whichever function meets it: every
\* loop of the parser tests for it (input.rs advance, is_eof).
EofStays == Ended => pos <= Len(tokens)

\* Two nodes never have the same span, and they are apart or one in the other.
\* The later phases key the types and the definitions of nodes by their spans.
SpanKeys ==
    nodes # <<>> =>
        \A i \in 1..Len(nodes) - 1 :
            \/ nodes[i].to < Last(nodes).from
            \/ /\ Last(nodes).from <= nodes[i].from
               /\ nodes[i].to <= Last(nodes).to
               /\ nodes[i].to - nodes[i].from < Last(nodes).to - Last(nodes).from

-----------------------------------------------------------------------------
(* Precedence, as a ladder of operators from the loosest to the tightest.  *)

Ladder == <<AssignOps, {"~>"}, {"||"}, {"&&"}, {"==", "!="}, {"<", ">", "<=", ">="},
            {"..", "..="}, {"|"}, {"^"}, {"&"}, {"<<", ">>"}, {"+", "-"}, {"*", "/", "%"},
            {"prefix"}, {"**"}, {"as", "is", ".", "(", "[", "?"}>>
RightAssociative == AssignOps \cup {"**"}

Opening == {"(", "[", "{"}
Closing == {")", "]", "}"}
HowMany(S, i, j) == Cardinality({k \in i..j : tokens[k] \in S})
\* The tokens of a node that no brackets in it enclose.
Shallow(n) == {i \in n.from..n.to :
                  HowMany(Opening, n.from, i - 1) = HowMany(Closing, n.from, i - 1)}

EndsOperand(t) == IsIdent(t) \/ t \in Literals \cup Closing \cup {"self", "_", "?", "await"}
InType(i) == \E k \in DOMAIN nodes :
                nodes[k].kind = "type" /\ i \in nodes[k].from..nodes[k].to

\* The operators of a node by their positions.
Operator(n, i) == IF i = n.from THEN "prefix" ELSE tokens[i]
Operators(n) ==
    {i \in Shallow(n) :
        /\ ~InType(i)
        /\ \/ i = n.from /\ tokens[i] \in Prefix
           \/ i > n.from /\ EndsOperand(tokens[i - 1])
                         /\ tokens[i] \in UNION {Ladder[k] : k \in DOMAIN Ladder}}
Level(op) == CHOOSE k \in DOMAIN Ladder : op \in Ladder[k]

\* A closure, a jump and the like extend as far as they can.
Extends(n) ==
    \E i \in Shallow(n) :
        \/ tokens[i] \in {"if", "match", "loop", "ret", "break", "next", "fork", "label"}
        \/ tokens[i] = "|" /\ ~InType(i) /\ (i = n.from \/ ~EndsOperand(tokens[i - 1]))

\* An operation is that of the loosest operator among its tokens, the last of
\* several (the first, if they associate to the right): what infix_binding_power
\* and prefix_binding_power promise, also of the operators the loop of
\* parse_expr_bp tries beside the binary ones.
Precedence ==
    nodes # <<>> /\ Last(nodes).at # 0 /\ ~Extends(Last(nodes)) =>
        LET n       == Last(nodes)
            ops     == Operators(n)
            loosest == {i \in ops : \A j \in ops :
                           Level(Operator(n, i)) <= Level(Operator(n, j))}
        IN /\ n.at \in loosest
           /\ \A i \in loosest :
                 IF Operator(n, i) \in RightAssociative THEN n.at <= i ELSE i <= n.at

-----------------------------------------------------------------------------
\* Every literal of an item is one leaf of its tree: an attempt that is undone
\* gives back all it consumed (restore) and none of its nodes stays.  Only the
\* expression that `:=` throws away (stmt.rs expr_to_let_pattern) is missing.
EveryLiteralOnce ==
    calls # <<>> /\ Top.is = "item_end" =>
        LET new == SubSeq(nodes, Top.keep + 1, Len(nodes))
        IN \A i \in Top.since..pos - 1 :
              tokens[i] \in Literals \ {"str"} =>
                  LET leaves == {k \in DOMAIN new : new[k].from = i /\ new[k].to = i}
                  IN \/ Cardinality(leaves) = 1
                     \/ \E k \in DOMAIN new :
                           /\ new[k].kind = "discarded"
                           /\ i \in new[k].from..new[k].to

\* Every item and every error takes a token of its own, so recovery does not meet
\* the same error again (lib.rs recover_to_next_item stops only where parse_item
\* consumes a token).
ErrorsAdvance == items + errors <= pos

Keywords == {"act", "struct", "enum", "trait", "impl", "alias", "use", "const", "shared"}

\* In a module that is accepted all brackets are closed, and the keywords outside
\* of brackets are those of its items.
AcceptedShape ==
    calls = <<>> /\ errors = 0 =>
        LET whole == Node("module", 1, Len(tokens), 0)
        IN /\ HowMany(Opening, 1, Len(tokens)) = HowMany(Closing, 1, Len(tokens))
           /\ items = Cardinality({i \in Shallow(whole) : tokens[i] \in Keywords})

\* The parser ends on every input.
Terminates == <>(calls = <<>>)
=============================================================================
