----------------------------- MODULE TokenStream -----------------------------
(***************************************************************************)
(* The cursor of the parser (razen_parser: input.rs) and the machine the   *)
(* parse functions run on: the call stack of the recursive descent is the  *)
(* sequence `calls` of what is left to do, and a function that returns Err *)
(* unwinds it to the caller that catches the error.                        *)
(*                                                                         *)
(* A token is its kind; names are told apart only where the code does.     *)
(* The tokens are chosen when the cursor comes near them.                  *)
(***************************************************************************)
EXTENDS Integers, SequencesExt

CONSTANTS
    Strings,  \* slot -> the token sequences that may fill it
    Inputs    \* the inputs, as sequences of slots

ASSUME InputsAssumption ==
    /\ \A slot \in DOMAIN Strings : Strings[slot] \subseteq Seq(STRING)
    /\ Inputs \subseteq Seq(DOMAIN Strings)

VARIABLES
    slots,   \* the slots no tokens are chosen for yet
    tokens,  \* the tokens so far, "eof" the last of them
    pos,     \* the current token, from 1
    calls,   \* what is left to do, head first
    nodes,   \* the nodes of the tree with a span, in the order they are built
    items,   \* items parsed
    errors   \* errors reported

vars == <<slots, tokens, pos, calls, nodes, items, errors>>

\* Words the lexer reads as identifiers that some parse function looks for.
Words == {"vec", "set", "map", "tensor", "let", "for", "some", "none", "ok", "err",
          "void", "never"}
Idents == {"x", "y"} \cup Words
Literals == {"int", "float", "str", "char", "true", "false"}

-----------------------------------------------------------------------------
(* The cursor.                                                             *)

Peek(n) == tokens[IF pos + n < Len(tokens) THEN pos + n ELSE Len(tokens)]
Tok == Peek(0)
IsEof == Tok = "eof"
IsIdent(t) == t \in Idents

\* parse_ident_or_path looks 3 tokens ahead, and no function looks further.
MaxPeek == 3
Ended == tokens # <<>> /\ Last(tokens) = "eof"
Lexed == Ended \/ Len(tokens) >= pos + MaxPeek

Scan ==
    /\ calls # <<>>
    /\ ~Lexed
    /\ \/ /\ slots # <<>>
          /\ \E string \in Strings[Head(slots)] : tokens' = tokens \o string
          /\ slots' = Tail(slots)
       \/ /\ slots = <<>>
          /\ tokens' = Append(tokens, "eof")
          /\ UNCHANGED slots
    /\ UNCHANGED <<pos, calls, nodes, items, errors>>

\* `pos` when n tokens are consumed: it stops behind the last of them.
Advanced(n) == IF pos + n > Len(tokens) THEN Len(tokens) + 1 ELSE pos + n

-----------------------------------------------------------------------------
(* What is left to do.                                                     *)

Top == Head(calls)
Runs(is) == calls # <<>> /\ Top.is = is /\ Lexed

Parse(f)        == [is |-> f]
Expr(bp)        == [is |-> "expr", min |-> bp]
Token(t)        == [is |-> "token", token |-> t]
Name            == Token("ident")
List(ends, item)   == [is |-> "list", ends |-> ends, item |-> item]
Until(end, item)   == [is |-> "until", end |-> end, item |-> item]
Opt(t, then)    == [is |-> "opt", token |-> t, then |-> then]
\* What follows an item: a comma and the rest of its list, or nothing.
Comma(list)     == Opt(",", <<list>>)
LastComma       == Opt(",", <<>>)
More(t, item)   == [is |-> "more", token |-> t, item |-> item]
Commit(t, then, otherwise) ==
    [is |-> "commit", token |-> t, then |-> then, otherwise |-> otherwise,
     pos |-> pos, keep |-> Len(nodes)]
Span(kind, at)  == [is |-> "span", kind |-> kind, from |-> pos, at |-> at]
\* Slip: the closing delimiter is not asked for.
Unclosed(end, item) == <<List({end}, item)>>

\* A delimited list, from its first item to its closing delimiter.
Delimited(end, item) == <<List({end}, item), Token(end)>>

Node(kind, from, to, at) == [kind |-> kind, from |-> from, to |-> to, at |-> at]
\* Slip: a span goes on to the current token.
BuiltToCurrent(kind, from, at, p) == Append(nodes, Node(kind, from, p, at))

Built(kind, from, at, p) == Append(nodes, Node(kind, from, p - 1, at))

\* The function at the head consumes n tokens and goes on with `then`.
Take(n, then) ==
    /\ pos' = Advanced(n)
    /\ calls' = then \o Tail(calls)
    /\ UNCHANGED <<slots, tokens, nodes, items, errors>>
Then(then) == Take(0, then)
Return == Then(<<>>)

\* It consumes n tokens, which are a node, and goes on with `then`.
Leaf(kind, n, then) ==
    /\ pos' = Advanced(n)
    /\ calls' = then \o Tail(calls)
    /\ nodes' = Built(kind, pos, 0, Advanced(n))
    /\ UNCHANGED <<slots, tokens, items, errors>>

\* It returns Err: an attempt is undone, and any other error ends the item.
Raise ==
    LET at    == SelectInSeq(calls, LAMBDA f : f.is \in {"commit", "item_end"})
        catch == calls[at]
        rest  == SubSeq(calls, at + 1, Len(calls))
    IN /\ nodes' = SubSeq(nodes, 1, catch.keep)
       /\ \/ /\ catch.is = "commit"
             /\ pos' = catch.pos
             /\ calls' = catch.otherwise \o rest
             /\ UNCHANGED errors
          \/ /\ catch.is = "item_end"
             /\ calls' = <<Parse("recover")>> \o rest
             /\ errors' = errors + 1
             /\ UNCHANGED pos
       /\ UNCHANGED <<slots, tokens, items>>

-----------------------------------------------------------------------------
(* The steps every function is made of.                                    *)

Matches(t) == IF t = "ident" THEN IsIdent(Tok) ELSE Tok = t

Expect ==
    /\ Runs("token")
    /\ \/ Matches(Top.token) /\ Take(1, <<>>)
       \/ ~Matches(Top.token) /\ Raise

\* parse_comma_separated, and the loops written like it.
ParseList ==
    /\ Runs("list")
    /\ \/ Tok \in Top.ends \cup {"eof"} /\ Return
       \/ /\ Tok \notin Top.ends \cup {"eof"}
          /\ Then(Append(Top.item, Comma(Top)))

ParseUntil ==
    /\ Runs("until")
    /\ \/ Tok \in {Top.end, "eof"} /\ Return
       \/ Tok \notin {Top.end, "eof"} /\ Then(Append(Top.item, Top))

ParseOpt ==
    /\ Runs("opt")
    /\ \/ Tok = Top.token /\ Take(1, Top.then)
       \/ Tok # Top.token /\ Return

ParseMore ==
    /\ Runs("more")
    /\ \/ Tok = Top.token /\ Take(1, Append(Top.item, Top))
       \/ Tok # Top.token /\ Return

\* Slip: the cursor is not set back.
RestoreNothing(f) ==
    /\ calls' = f.otherwise \o Tail(calls)
    /\ nodes' = SubSeq(nodes, 1, f.keep)
    /\ UNCHANGED <<slots, tokens, pos, items, errors>>

\* The attempt succeeded; without the token that must follow it, it is undone.
Restore(f) ==
    /\ pos' = f.pos
    /\ calls' = f.otherwise \o Tail(calls)
    /\ nodes' = SubSeq(nodes, 1, f.keep)
    /\ UNCHANGED <<slots, tokens, items, errors>>

ParseCommit ==
    /\ Runs("commit")
    /\ \/ Tok = Top.token /\ Take(1, Top.then)
       \/ Tok # Top.token /\ Restore(Top)

\* A node from its first token to the one consumed last.
SpanFrom ==
    /\ Runs("span")
    /\ nodes' = Built(Top.kind, Top.from, Top.at, pos)
    /\ calls' = Tail(calls)
    /\ UNCHANGED <<slots, tokens, pos, items, errors>>

Machine ==
    \/ Scan
    \/ Expect
    \/ ParseList
    \/ ParseUntil
    \/ ParseOpt
    \/ ParseMore
    \/ ParseCommit
    \/ SpanFrom
=============================================================================
