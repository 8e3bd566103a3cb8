----------------------------- MODULE LowerLocals -----------------------------
(***************************************************************************)
(* Locals of lowered functions (razen_mir: lower.rs): after semantic       *)
(* analysis every function is lowered, and each name it binds gets a local *)
(* slot, under the DefId that the resolver recorded at its span.  A use is *)
(* the slot of the DefId it was resolved to, if there is one, and else a   *)
(* fresh slot that holds null (a lost one, when it is assigned to).        *)
(*                                                                         *)
(* A slot is the span of what it was allocated for.  Control flow, which   *)
(* MirLower is about, comes in where statements behind a jump are left out.*)
(***************************************************************************)
EXTENDS Sema

VARIABLES
    reads,    \* use that is lowered -> its slot
    partial,  \* nodes of whose patterns only a part is lowered
    skipped   \* statements that are not lowered

lowerVars == <<reads, partial, skipped>>

Null == <<-3, 0>>
Builder == [locals |-> <<>>, reads |-> <<>>]

-----------------------------------------------------------------------------
(* What the inputs of Sema leave open.                                     *)

Functions == {"fn", "method"}
Expressions == Constructs \ {"let", "declare", "guard", "fn"}

\* Of an or-pattern the first alternative is bound, of a parameter only a plain
\* name.  Here an alternative is one name.
Destructuring ==
    {e \in DOMAIN ast : /\ ast[e].k \in Functions \cup {"let", "if_let", "match", "loop"}
                        /\ Len(ast[e].binds) > 1}
\* The last binder of e to get a slot; the first of a function is its own name.
LastLowered(e, part) ==
    CASE e \notin part          -> Len(ast[e].binds)
      [] ast[e].k = "method"    -> 0
      [] OTHER                  -> 1

\* What may leave its block closed: `ret` as a statement is among the operands.
RECURSIVE MayJump(_)
MayJump(e) ==
    \/ ast[e].k \in {"jump", "operands"}
    \/ \E i \in DOMAIN ast[e].kids : MayJump(ast[e].kids[i])

\* Statements behind a jump, if what is around the jump leaves the block closed.
\* The tail of a block is lowered all the same.
Skippable ==
    {e \in DOMAIN ast \ {Root} :
        /\ ast[Parent(e)].k \in Functions \cup {"block", "guard"}
        /\ \E i \in 1..Place(e) - 1 : MayJump(ast[Parent(e)].kids[i])
        /\ ~ (ast[Parent(e)].k = "block" /\ Place(e) = Len(ast[Parent(e)].kids)
              /\ ast[e].k \in Expressions)}

-----------------------------------------------------------------------------
(* The walk, as the list of what it does to local_map.                     *)

\* bind_pattern, and the registration of parameters: slots for the binders of e
\* from `first` on.
Bind(e, first, part) ==
    [i \in 1..(LastLowered(e, part) + 1 - first) |->
        Step("local", <<e, first - 1 + i>>, ast[e].binds[first - 1 + i].name)]

\* Slip: a variable is registered under what its name means in the module's scope.
LowerDeclareByName(e) == <<Step("by_name", <<e, 1>>, ast[e].binds[1].name)>>

\* A constant has the slot of its value, others have one of their own.
LowerDeclare(e) ==
    LET mutable == ast[e].binds[1].mutable
    IN <<Step(IF mutable THEN "local" ELSE "alias", <<e, 1>>, ast[e].binds[1].name)>>

RECURSIVE LowerAll(_, _, _), LowerExpr(_, _, _)
LowerAll(es, part, skip) ==
    FlattenSeq([i \in 1..Len(es) |->
        IF es[i] \in skip THEN <<>> ELSE LowerExpr(es[i], part, skip)])

\* Nothing is lowered of closures, local functions and the else block of a loop.
LowerExpr(e, part, skip) ==
    LET kids == ast[e].kids
        All(es) == LowerAll(es, part, skip)
    IN CASE ast[e].k = "use"               -> <<Step("read", <<e, 0>>, ast[e].name)>>
         [] ast[e].k \in {"fn", "closure"} -> <<>>
         [] ast[e].k = "let"               -> All(kids) \o Bind(e, 1, part)
         [] ast[e].k = "declare"           -> All(kids) \o LowerDeclare(e)
         [] ast[e].k \in {"if_let", "match"} ->
                All(<<kids[1]>>) \o Bind(e, 1, part) \o All(Tail(kids))
         [] ast[e].k \in {"loop", "fork"}  ->
                All(<<kids[1]>>) \o Bind(e, 1, part) \o All(<<kids[2]>>)
         [] OTHER                          -> All(kids)

\* A function starts with no locals.
LowerFn(e, part, skip) ==
    IF ast[e].k \notin Functions THEN <<>>
    ELSE <<Step("fn", <<e, 0>>, ast[e].name)>>
            \o Bind(e, IF ast[e].k = "fn" THEN 2 ELSE 1, part)
            \o LowerAll(ast[e].kids, part, skip)

LocalOf(locals, e) ==
    IF <<e, 0>> \in DOMAIN resolutions /\ resolutions[<<e, 0>>] \in DOMAIN locals
    THEN locals[resolutions[<<e, 0>>]] ELSE Null

\* The slot that lower_expr returns: a name has its own, a block that of its tail,
\* anything else a temporary.
RECURSIVE Result(_, _)
Result(locals, e) ==
    CASE ast[e].k = "use" -> LocalOf(locals, e)
      [] ast[e].k = "block" /\ ast[e].kids # <<>> /\ ast[Last(ast[e].kids)].k \in Expressions ->
             Result(locals, Last(ast[e].kids))
      [] OTHER -> <<e, 0>>

Emit(b, step) ==
    LET Map(id, slot) == [b EXCEPT !.locals = Insert(@, id, slot)]
        recorded      == step.span \in DOMAIN resolutions
    IN CASE step.do = "fn"   -> [b EXCEPT !.locals = <<>>]
         [] step.do = "read" -> [b EXCEPT !.reads =
                                    Insert(@, step.span[1], LocalOf(b.locals, step.span[1]))]
         [] step.do = "local" /\ recorded -> Map(resolutions[step.span], step.span)
         [] step.do = "alias" /\ recorded ->
                Map(resolutions[step.span], Result(b.locals, ast[step.span[1]].kids[1]))
         [] step.do = "by_name" /\ Defined(step.name) -> Map(Resolve(step.name), step.span)
         [] OTHER -> b

\* The functions of the module and of its impl blocks, in their order.
LowerModule ==
    /\ phase = "done"
    /\ phase' = "lowered"
    /\ partial' \in SUBSET Destructuring
    /\ skipped' \in SUBSET Skippable
    /\ LET steps == [e \in ToSet(Items) |-> LowerFn(e, partial', skipped')]
       IN reads' = FoldLeft(Emit, Builder, EachItem(steps)).reads
    /\ UNCHANGED <<vars, type_env, types, reported>>

Lowered == phase = "lowered" /\ UNCHANGED <<vars, semaVars, lowerVars>>

LowerInit == SemaInit /\ reads = <<>> /\ partial = {} /\ skipped = {}

LowerNext ==
    \/ (Resolving \/ CheckModule \/ CheckMutability) /\ UNCHANGED lowerVars
    \/ LowerModule
    \/ Lowered

LowerSpec == LowerInit /\ [][LowerNext]_<<vars, semaVars, lowerVars>>

-----------------------------------------------------------------------------
(* Properties                                                              *)

\* The slot of what a name means.
SlotOf(span) ==
    LET e == span[1]
        RECURSIVE ValueOf(_)
        ValueOf(v) ==
            CASE ast[v].k = "use" -> reads[v]
              [] ast[v].k = "block" /\ ast[v].kids # <<>>
                    /\ ast[Last(ast[v].kids)].k \in Expressions -> ValueOf(Last(ast[v].kids))
              [] OTHER -> <<v, 0>>
    IN IF ast[e].k = "declare" /\ ~ast[e].binds[1].mutable THEN ValueOf(ast[e].kids[1]) ELSE span

HasSlot(span) ==
    /\ ast[span[1]].binds[span[2]].recorded
    /\ span[1] \notin skipped
    /\ span[2] <= LastLowered(span[1], partial)

(***************************************************************************)
(* A name reads the slot of the declaration it means, the nearest one by   *)
(* its place in the source, whatever is shadowed, skipped or declared      *)
(* elsewhere under its name.  Names of the module, the prelude and the     *)
(* tasks of a fork, shorthand fields, all but the first alternative of an  *)
(* or-pattern and parameters that are patterns have none, and read null.   *)
(***************************************************************************)
LocalsRead ==
    phase = "lowered" => \A e \in DOMAIN reads \cap Judged :
        LET m == MeaningOf(e)
        IN IF m = Undefined \/ OfModule(m) THEN reads[e] = Null
           ELSE reads[e] = IF HasSlot(m) THEN SlotOf(m) ELSE Null
=============================================================================
