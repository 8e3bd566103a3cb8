---------------------------- MODULE LexicalScope ----------------------------
(***************************************************************************)
(* What a name means by the place where it stands in the tree, without     *)
(* scopes: the reference for the walk of Resolver.  The language has two   *)
(* rules: a name is known in the block that binds it (Meaning), but for    *)
(* the results of a fork, which are known after it (PastResult).           *)
(***************************************************************************)
EXTENDS Resolver, FiniteSetsExt

Undefined == <<-1, 0>>

Parent(e) == CHOOSE p \in DOMAIN ast : \E i \in DOMAIN ast[p].kids : ast[p].kids[i] = e
Place(e)  == CHOOSE i \in DOMAIN ast[Parent(e)].kids : ast[Parent(e)].kids[i] = e

\* The binders of node e for x among its first to last, the latest of them.
Latest(e, x, from, upto) ==
    LET own == {i \in from..upto : ast[e].binds[i].name = x}
    IN IF own = {} THEN Undefined ELSE <<e, Max(own)>>

\* What a statement binds for the statements after it in its block: a let or a
\* declaration all its names, a local function its own.
BoundAfter(e, x) ==
    CASE ast[e].k \in {"let", "declare"} -> Latest(e, x, 1, Len(ast[e].binds))
      [] ast[e].k = "fn"                 -> Latest(e, x, 1, 1)
      [] OTHER                           -> Undefined

\* What a construct binds for its child in place i: a local function its own name
\* and its parameters, an item of the module only its parameters, a fork the result
\* of a task for the task after it.
BoundFor(p, i, x) ==
    LET after(k) == Latest(p, x, k, Len(ast[p].binds))
    IN CASE ast[p].k \in {"if_let", "match", "loop", "fork"} ->
                                      IF i = 2 THEN after(1) ELSE Undefined
         [] ast[p].k \in {"closure", "method"} -> after(1)
         [] ast[p].k = "fn"           -> after(IF Parent(p) = Root THEN 2 ELSE 1)
         [] OTHER                     -> Undefined

\* An item is known by its name everywhere in the module, the last of that name.
ModuleItem(x) ==
    LET items == {i \in DOMAIN ast[Root].kids :
                     LET binds == ast[ast[Root].kids[i]].binds
                     IN /\ ast[ast[Root].kids[i]].k \in {"unread", "fn", "const"}
                        /\ binds # <<>> /\ binds[1].name = x}
    IN IF items # {} THEN <<ast[Root].kids[Max(items)], 1>>
       ELSE IF x \in Prelude THEN PreludeSpan ELSE Undefined

\* What binds x for node e next to it: the latest of the statements before it in
\* its block, or else the construct around it.
BoundNextTo(e, x) ==
    LET p      == Parent(e)
        before == {i \in 1..(Place(e) - 1) : BoundAfter(ast[p].kids[i], x) # Undefined}
    IN IF before # {} THEN BoundAfter(ast[p].kids[Max(before)], x)
       ELSE BoundFor(p, Place(e), x)

\* What the names mean at a node by the blocks around it: the nearest binder, from
\* there outwards, or what they mean in the module.
Meaning[e \in DOMAIN ast \ {Root}] ==
    [x \in Names |->
        IF Parent(e) = Root THEN ModuleItem(x)
        ELSE IF BoundNextTo(e, x) # Undefined THEN BoundNextTo(e, x)
        ELSE Meaning[Parent(e)][x]]

(* Results of a fork.  `fork { x <- f() }` as a statement leaves x behind  *)
(* for the statements after it (keywords.md:538, 06_features.rzn:279).     *)

\* Child i of p is a statement of a block.
IsStatement(p, i) ==
    ast[p].k \in {"block", "fn", "method"} \/ (ast[p].k = "guard" /\ i > 1)

\* The result x of a fork among the statements before e, if nothing between the two
\* binds x again.
ResultNextTo(e, x) ==
    LET p     == Parent(e)
        kids  == ast[p].kids
        forks == {i \in 1..(Place(e) - 1) :
                     /\ IsStatement(p, i) /\ ast[kids[i]].k = "fork"
                     /\ Latest(kids[i], x, 1, Len(ast[kids[i]].binds)) # Undefined}
    IN IF forks # {} /\ \A i \in Max(forks)..(Place(e) - 1) : BoundAfter(kids[i], x) = Undefined
       THEN Latest(kids[Max(forks)], x, 1, Len(ast[kids[Max(forks)]].binds))
       ELSE Undefined

\* The names that mean the result of a fork that is over: no binder is nearer.
PastResult[e \in DOMAIN ast \ {Root}] ==
    [x \in Names |->
        IF Parent(e) = Root THEN Undefined
        ELSE IF ResultNextTo(e, x) # Undefined THEN ResultNextTo(e, x)
        ELSE IF BoundNextTo(e, x) # Undefined THEN Undefined
        ELSE PastResult[Parent(e)][x]]

AfterFork(e) == PastResult[e][ast[e].name] # Undefined

(***************************************************************************)
(* A name is resolved to the definition it means: no name of a scope that  *)
(* is over is seen, the nearest of several wins, a value does not see the  *)
(* name it initialises; and an error is reported for exactly the uses that *)
(* mean nothing.  Uses of the results of a fork that is over are apart,    *)
(* see ResultsAvailable.                                                   *)
(***************************************************************************)
LexicalScoping ==
    agenda = <<>> => \A e \in DOMAIN ast :
        ast[e].k \in {"use", "type"} /\ ast[Parent(e)].k # "jump" /\ ~AfterFork(e) =>
            LET means == Meaning[e][ast[e].name]
            IN /\ <<e, 0>> \in DOMAIN resolutions <=> means # Undefined
               /\ means # Undefined => symbols[resolutions[<<e, 0>>]] = means
               /\ <<e, 0>> \in errors <=> ast[e].k = "use" /\ means = Undefined

(***************************************************************************)
(* "both user_data and post_data available here" (keywords.md:543): a name *)
(* used after a fork that gives it to a result is that result.             *)
(***************************************************************************)
ResultsAvailable ==
    agenda = <<>> => \A e \in DOMAIN ast :
        ast[e].k = "use" /\ ast[Parent(e)].k # "jump" /\ AfterFork(e) =>
            /\ <<e, 0>> \in DOMAIN resolutions
            /\ symbols[resolutions[<<e, 0>>]] = PastResult[e][ast[e].name]
=============================================================================
