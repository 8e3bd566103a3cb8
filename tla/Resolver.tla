------------------------------ MODULE Resolver ------------------------------
(***************************************************************************)
(* Name resolution (razen_sema: scope.rs, symbol.rs, resolve.rs): the walk *)
(* over a module that opens and closes scopes, defines names and looks     *)
(* names up.                                                               *)
(*                                                                         *)
(* As in MirLower, the walk is a stack machine and the tree is chosen when *)
(* the walk comes to it.  A construct is what it does to scopes: the order *)
(* in which it enters and leaves them, visits its children and defines the *)
(* names it binds.                                                         *)
(***************************************************************************)
EXTENDS Integers, Sequences, FiniteSets

CONSTANTS
    Names,        \* identifiers
    Bound,        \* those the module defines
    Prelude,      \* those the prelude defines
    MaxNodes,     \* bound on the syntax nodes of the module
    MaxOperands,  \* bound on the operands and statements of a node
    PatternLists, \* the lists of binders a pattern may have
    Constructs    \* the kinds of node a module is made of

Kinds == {"use", "type", "operands", "jump", "block", "if_let", "match", "loop",
          "closure", "fork", "let", "declare", "guard", "fn", "method", "const"}

\* What binds a name: whether the walk records the DefId at its span too, and
\* whether its SymbolKind lets it be assigned to (a mutable variable or shared).
Binder(name, recorded, mutable) ==
    [name |-> name, recorded |-> recorded, mutable |-> mutable]
BinderSet == [name : Bound, recorded : BOOLEAN, mutable : {FALSE}]

ASSUME ConstantsAssumption ==
    /\ Bound \subseteq Names
    /\ Prelude \subseteq Names
    /\ IsFiniteSet(Prelude)
    /\ MaxNodes \in Nat \ {0}
    /\ MaxOperands \in Nat
    /\ PatternLists \subseteq Seq(BinderSet)
    /\ Constructs \subseteq Kinds

VARIABLES
    ast,          \* the part of the tree read so far
    agenda,       \* what is left to do, head first
    scopes,       \* every scope there was: its parent and its bindings
    active,       \* ids of the open scopes, innermost last
    symbols,      \* the symbol table: where DefId i is defined
    resolutions,  \* span -> DefId
    errors        \* spans of the undefined identifiers reported

vars == <<ast, agenda, scopes, active, symbols, resolutions, errors>>
env  == <<scopes, active, symbols, resolutions, errors>>

-----------------------------------------------------------------------------
(* Syntax.  The span of a name that is used is <<node, 0>>, that of the    *)
(* i-th binder of a node <<node, i>>, and the prelude is at <<0, 0>>.      *)

Node(k, name, kids, binds) == [k |-> k, name |-> name, kids |-> kids, binds |-> binds]
Unread == Node("unread", CHOOSE x \in Names : TRUE, <<>>, <<>>)
PreludeSpan == <<0, 0>>

Top == Head(agenda)
E == Top.e
Running(op) == agenda # <<>> /\ Top.op = op
NewKids(n) == [i \in 1..n |-> Len(ast) + i]

Op(op, e, i) == [op |-> op, e |-> e, i |-> i]
Enter        == Op("enter", 0, 0)
Exit         == Op("exit", 0, 0)
Visit(e)     == Op("expr", e, 0)
VisitStmt(e) == Op("stmt", e, 0)
VisitAll(es)   == [i \in 1..Len(es) |-> Visit(es[i])]
VisitStmts(es) == [i \in 1..Len(es) |-> VisitStmt(es[i])]
Define(i)      == Op("define", E, i)
DefineAll(binds) == [i \in 1..Len(binds) |-> Define(i)]
Scoped(ops)    == <<Enter>> \o ops \o <<Exit>>

Do(ops) == agenda' = ops \o Tail(agenda)

\* The node at the head turns out to be of kind k, with n children that are not
\* read yet.
Read(k, n, binds) ==
    /\ k \in Constructs
    /\ Len(ast) + n <= MaxNodes
    /\ ast' = [ast EXCEPT ![E] = Node(k, @.name, NewKids(n), binds)]
                \o [i \in 1..n |-> Unread]

Reading     == Running("expr") \/ Running("stmt")
ReadingStmt == Running("stmt")

-----------------------------------------------------------------------------
(* Environment                                                             *)

\* The innermost open scope that binds x decides.
Holders(x) == {i \in DOMAIN active : x \in DOMAIN scopes[active[i]].bindings}
Defined(x) == Holders(x) # {}
Resolve(x) ==
    LET i == CHOOSE i \in Holders(x) : \A j \in Holders(x) : j <= i
    IN scopes[active[i]].bindings[x]

Insert(f, k, v) == [x \in DOMAIN f \cup {k} |-> IF x = k THEN v ELSE f[x]]

EnterScope ==
    /\ Running("enter")
    /\ scopes' = Append(scopes, [parent |-> active[Len(active)], bindings |-> <<>>])
    /\ active' = Append(active, Len(scopes) + 1)
    /\ Do(<<>>)
    /\ UNCHANGED <<ast, symbols, resolutions, errors>>

ExitScope ==
    /\ Running("exit")
    /\ active' = SubSeq(active, 1, Len(active) - 1)
    /\ Do(<<>>)
    /\ UNCHANGED <<ast, scopes, symbols, resolutions, errors>>

\* Slip: the id is the length of the table after the symbol was added.
NextIdAfter == Len(symbols) + 2
NextId      == Len(symbols) + 1

\* A fresh DefId, bound in the current scope; a name bound there before is
\* shadowed from here on.
DefineName ==
    /\ Running("define")
    /\ LET binder == ast[E].binds[Top.i]
           span   == <<E, Top.i>>
           id     == NextId
           inner  == active[Len(active)]
       IN /\ symbols' = Append(symbols, span)
          /\ scopes' = [scopes EXCEPT ![inner].bindings = Insert(@, binder.name, id)]
          /\ resolutions' = IF binder.recorded THEN Insert(resolutions, span, id)
                            ELSE resolutions
    /\ Do(<<>>)
    /\ UNCHANGED <<ast, active, errors>>

-----------------------------------------------------------------------------
(* Expressions                                                             *)

\* An identifier, or the first segment of a path.
VisitUse ==
    \E x \in Names :
        /\ Reading /\ "use" \in Constructs
        /\ ast' = [ast EXCEPT ![E] = Node("use", x, <<>>, <<>>)]
        /\ IF Defined(x)
           THEN resolutions' = Insert(resolutions, <<E, 0>>, Resolve(x)) /\ UNCHANGED errors
           ELSE errors' = errors \cup {<<E, 0>>} /\ UNCHANGED resolutions
        /\ Do(<<>>)
        /\ UNCHANGED <<scopes, active, symbols>>

\* The name of a type, in a cast or an annotation: unknown ones are let pass.
VisitType ==
    \E x \in Names :
        /\ Reading /\ "type" \in Constructs
        /\ ast' = [ast EXCEPT ![E] = Node("type", x, <<>>, <<>>)]
        /\ resolutions' = IF Defined(x) THEN Insert(resolutions, <<E, 0>>, Resolve(x))
                          ELSE resolutions
        /\ Do(<<>>)
        /\ UNCHANGED <<scopes, active, symbols, errors>>

\* Operators, calls, collections, struct literals, casts, assignments, `if`,
\* and the statements that evaluate without binding.
VisitOperands ==
    \E n \in 0..MaxOperands :
        /\ Reading
        /\ Read("operands", n, <<>>)
        /\ Do(VisitAll(NewKids(n)))
        /\ UNCHANGED env

\* break and return as expressions are leaves: their value, an identifier, is a
\* child that the walk does not visit.
VisitJump ==
    \E x \in Names :
        /\ Running("expr") /\ {"jump", "use"} \subseteq Constructs
        /\ Len(ast) < MaxNodes
        /\ ast' = Append([ast EXCEPT ![E] = Node("jump", @.name, NewKids(1), <<>>)],
                         Node("use", x, <<>>, <<>>))
        /\ Do(<<>>)
        /\ UNCHANGED env

VisitBlock ==
    \E n \in 0..MaxOperands :
        /\ Reading
        /\ Read("block", n, <<>>)
        /\ Do(Scoped(VisitStmts(NewKids(n))))
        /\ UNCHANGED env

VisitIfLet ==
    \E binds \in PatternLists, else \in BOOLEAN :
        /\ Reading
        /\ LET kids == NewKids(IF else THEN 3 ELSE 2)
           IN /\ Read("if_let", Len(kids), binds)
              /\ Do(<<Visit(kids[1])>> \o Scoped(Append(DefineAll(binds), Visit(kids[2])))
                      \o VisitAll(SubSeq(kids, 3, Len(kids))))
        /\ UNCHANGED env

\* A match of one arm; its guard, if any, is an operand of the body.
VisitMatch ==
    \E binds \in PatternLists :
        /\ Reading
        /\ LET kids == NewKids(2)
           IN /\ Read("match", 2, binds)
              /\ Do(<<Visit(kids[1])>> \o Scoped(Append(DefineAll(binds), Visit(kids[2]))))
        /\ UNCHANGED env

\* Loops of every kind: the condition, iterable or value is visited inside the
\* scope of the loop and before the pattern, the else block after the scope.
VisitLoop ==
    \E binds \in PatternLists, else \in BOOLEAN :
        /\ Reading
        /\ LET kids == NewKids(IF else THEN 3 ELSE 2)
           IN /\ Read("loop", Len(kids), binds)
              /\ Do(Scoped(<<Visit(kids[1])>> \o DefineAll(binds) \o <<Visit(kids[2])>>)
                      \o VisitAll(SubSeq(kids, 3, Len(kids))))
        /\ UNCHANGED env

\* Parameters of a closure are defined but not recorded at their spans.
VisitClosure ==
    \E x \in Bound :
        /\ Reading
        /\ LET binds == <<Binder(x, FALSE, FALSE)>>
               body  == NewKids(1)
           IN /\ Read("closure", 1, binds)
              /\ Do(Scoped(DefineAll(binds) \o VisitAll(body)))
        /\ UNCHANGED env

\* `fork` with two tasks; the result of the first has a name for the second.
VisitFork ==
    \E x \in Bound :
        /\ Reading
        /\ LET kids == NewKids(2)
           IN /\ Read("fork", 2, <<Binder(x, FALSE, FALSE)>>)
              /\ Do(Scoped(<<Visit(kids[1]), Define(1), Visit(kids[2])>>))
        /\ UNCHANGED env

-----------------------------------------------------------------------------
(* Statements and items                                                    *)

\* Slip: the pattern binds before the value is visited.
VisitLetRecursive ==
    \E binds \in PatternLists :
        /\ ReadingStmt
        /\ Read("let", 1, binds)
        /\ Do(DefineAll(binds) \o VisitAll(NewKids(1)))
        /\ UNCHANGED env

\* The value is visited before the pattern binds.
VisitLet ==
    \E binds \in PatternLists :
        /\ ReadingStmt
        /\ Read("let", 1, binds)
        /\ Do(VisitAll(NewKids(1)) \o DefineAll(binds))
        /\ UNCHANGED env

\* mut, const and shared; all but const are mutable.
VisitDeclare ==
    \E x \in Bound, mutable \in BOOLEAN :
        /\ ReadingStmt
        /\ Read("declare", 1, <<Binder(x, TRUE, mutable)>>)
        /\ Do(VisitAll(NewKids(1)) \o <<Define(1)>>)
        /\ UNCHANGED env

\* The else block of a guard is one scope.
VisitGuard ==
    \E n \in 0..MaxOperands :
        /\ ReadingStmt
        /\ Read("guard", 1 + n, <<>>)
        /\ LET kids == NewKids(1 + n)
           IN Do(<<Visit(kids[1])>> \o Scoped(VisitStmts(Tail(kids))))
        /\ UNCHANGED env

\* Slip: the scope of the parameters stays open.
FnBodyLeft(binds, first, n) ==
    <<Enter>> \o [i \in 1..(Len(binds) + 1 - first) |-> Define(first - 1 + i)]
        \o Scoped(VisitStmts(NewKids(n)))

\* A function: a scope for the parameters, those of `binds` from `first` on, and
\* one for the body.
FnBody(binds, first, n) ==
    Scoped([i \in 1..(Len(binds) + 1 - first) |-> Define(first - 1 + i)]
             \o Scoped(VisitStmts(NewKids(n))))

VisitLocalFn ==
    \E x \in Bound, params \in PatternLists, n \in 0..MaxOperands :
        /\ ReadingStmt
        /\ LET binds == <<Binder(x, FALSE, FALSE)>> \o params
           IN /\ Read("fn", n, binds)
              /\ Do(<<Define(1)>> \o FnBody(binds, 2, n))
        /\ UNCHANGED env

\* An item of the module that was declared in the first pass.
VisitFn ==
    \E params \in PatternLists, n \in 0..MaxOperands :
        /\ Running("item") /\ ast[E].binds # <<>>
        /\ LET binds == ast[E].binds \o params
           IN /\ Read("fn", n, binds)
              /\ Do(FnBody(binds, 2, n))
        /\ UNCHANGED env

\* A constant or a shared value of the module, which is mutable.
VisitConst ==
    \E mutable \in BOOLEAN :
        /\ Running("item") /\ ast[E].binds # <<>>
        /\ Read("const", 1, <<[ast[E].binds[1] EXCEPT !.mutable = mutable]>>)
        /\ Do(VisitAll(NewKids(1)))
        /\ UNCHANGED env

\* A method of an impl block declares nothing: its name is for the type checker.
\* Its parameters stand for those that are `mut`, those of functions for the others.
VisitMethod ==
    \E x \in Bound, params \in PatternLists, n \in 0..MaxOperands :
        /\ Running("item") /\ ast[E].binds = <<>>
        /\ "method" \in Constructs
        /\ Len(ast) + n <= MaxNodes
        /\ LET muts == [i \in DOMAIN params |-> [params[i] EXCEPT !.mutable = TRUE]]
           IN ast' = [ast EXCEPT ![E] = Node("method", x, NewKids(n), muts)]
                        \o [i \in 1..n |-> Unread]
        /\ Do(FnBody(params, 1, n))
        /\ UNCHANGED env

-----------------------------------------------------------------------------
(* The module: the prelude is defined in its scope, then its items are     *)
(* declared, all of them before the first is visited.                      *)

Root == 1

\* One way to number the names of the prelude.
PreludeIds ==
    CHOOSE ids \in [Prelude -> 1..Cardinality(Prelude)] :
        \A x, y \in Prelude : ids[x] = ids[y] => x = y

\* The members of items, a set of numbers up to n, in order.
Listings(n, items) ==
    {list \in UNION {[1..m -> items] : m \in 0..n} :
        /\ {list[i] : i \in DOMAIN list} = items
        /\ \A i, j \in DOMAIN list : i < j => list[i] < list[j]}

Init ==
    \E n \in 1..MaxOperands :
        \E binds \in [1..n -> {<<>>} \cup {<<Binder(x, FALSE, FALSE)>> : x \in Bound}] :
            \E named \in Listings(n, {i \in 1..n : binds[i] # <<>>}) :
                /\ ast = <<Node("module", Unread.name, [i \in 1..n |-> 1 + i], <<>>)>>
                         \o [i \in 1..n |-> [Unread EXCEPT !.binds = binds[i]]]
                /\ agenda = [i \in 1..Len(named) |-> Op("define", 1 + named[i], 1)]
                            \o [i \in 1..n |-> Op("item", 1 + i, 0)]
                /\ scopes = <<[parent |-> 0, bindings |-> PreludeIds]>>
                /\ active = <<1>>
                /\ symbols = [i \in 1..Cardinality(Prelude) |-> PreludeSpan]
                /\ resolutions = <<>>
                /\ errors = {}

Returned == agenda = <<>> /\ UNCHANGED vars

Walk ==
    \/ EnterScope \/ ExitScope \/ DefineName
    \/ VisitUse \/ VisitType \/ VisitOperands \/ VisitJump \/ VisitBlock
    \/ VisitIfLet \/ VisitMatch \/ VisitLoop \/ VisitClosure \/ VisitFork
    \/ VisitLet \/ VisitDeclare \/ VisitGuard \/ VisitLocalFn
    \/ VisitFn \/ VisitConst \/ VisitMethod

Next == Walk \/ Returned

Spec == Init /\ [][Next]_vars

-----------------------------------------------------------------------------
(* Properties                                                              *)

DefIds == 1..Len(symbols)

\* Scopes and the symbol table only ever refer to what is there.
TypeOK ==
    /\ \A s \in DOMAIN scopes :
          /\ scopes[s].parent \in 0..(s - 1)
          /\ \A x \in DOMAIN scopes[s].bindings : scopes[s].bindings[x] \in DefIds
    /\ \A i \in DOMAIN active : active[i] \in DOMAIN scopes
    /\ \A span \in DOMAIN resolutions :
          resolutions[span] \in DefIds /\ span[1] \in DOMAIN ast
    /\ \A span \in errors : span[1] \in DOMAIN ast

Pending(op) == Cardinality({i \in DOMAIN agenda : agenda[i].op = op})

(***************************************************************************)
(* The open scopes are the enclosing ones: each is the parent of the next, *)
(* there is one for every scope the calls in progress have still to leave, *)
(* and when the walk is over only the scope of the module is open, which   *)
(* is where the type checker looks names up afterwards.                    *)
(***************************************************************************)
ScopesNest ==
    /\ active[1] = 1
    /\ \A i \in 2..Len(active) : scopes[active[i]].parent = active[i - 1]
    /\ \A i \in 1..(Len(active) - 1) : active[i] < active[i + 1]
    /\ Len(active) = 1 + Pending("exit") - Pending("enter")

\* "Also record the definition span so the type-checker can look up the DefId":
\* a parameter of a closure and a name a pattern binds are found at their spans.
DefinitionsRecorded ==
    \A id \in DefIds :
        LET span == symbols[id]
        IN /\ span # PreludeSpan
           /\ ast[span[1]].k \in {"closure", "if_let", "match", "loop", "let", "method"}
           => span \in DOMAIN resolutions /\ resolutions[span] = id
=============================================================================
