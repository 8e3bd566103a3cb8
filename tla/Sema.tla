-------------------------------- MODULE Sema --------------------------------
(***************************************************************************)
(* Semantic analysis (razen_sema, analyze): after the names of the module  *)
(* are resolved, the type checker collects the types of its declarations   *)
(* and walks the bodies, and the mutability check looks at assignments.    *)
(* Both find declarations in what the resolver left: `resolutions`, by     *)
(* span, and the one scope that is still open, by name.                    *)
(*                                                                         *)
(* A type is the declaration it was given by, so that one can tell whose   *)
(* type a name has; what types are and how they unify is InferCtx.         *)
(***************************************************************************)
EXTENDS LexicalScope, SequencesExt

VARIABLES
    phase,     \* "resolve", "check", "done" or (LowerLocals) "lowered"
    type_env,  \* DefId -> type, for the definitions that have one
    types,     \* use -> the type it was given
    reported   \* uses that may not be the root of an assignment's target

semaVars == <<phase, type_env, types, reported>>

Untyped == <<-2, 0>>
Items == ast[Root].kids

-----------------------------------------------------------------------------
(* The walk of the type checker, as the list of what it does to the        *)
(* environment: look up a use, give a type to the DefId recorded at a      *)
(* span, or to the one that a name has in the scope of the module, which   *)
(* is the only one open.                                                   *)

Step(do, span, name) == [do |-> do, span |-> span, name |-> name]
LookUp(e)            == <<Step("look_up", <<e, 0>>, ast[e].name)>>

\* Slip: the names of patterns are looked up like those of mut, const and shared.
BindPatternByName(e, first) ==
    [i \in 1..(Len(ast[e].binds) + 1 - first) |->
        Step("declare", <<e, first - 1 + i>>, ast[e].binds[first - 1 + i].name)]

\* bind_pattern_types, for the binders of e from `first` on.
BindPattern(e, first) ==
    [i \in 1..(Len(ast[e].binds) + 1 - first) |->
        Step("bind", <<e, first - 1 + i>>, ast[e].binds[first - 1 + i].name)]

\* lookup_def: mut, const, shared, and functions local or not.
Declare(e) == <<Step("declare", <<e, 1>>, ast[e].binds[1].name)>>

\* Slip: the values of jumps are passed over, as the resolver does.
ChildrenResolved(e) == IF ast[e].k = "jump" THEN <<>> ELSE ast[e].kids
Children(e)         == ast[e].kids

RECURSIVE CheckAll(_), CheckStmt(_), InferExpr(_)
CheckAll(es) == FlattenSeq([i \in 1..Len(es) |-> CheckStmt(es[i])])

CheckFn(e, first) == BindPattern(e, first) \o CheckAll(Children(e))

CheckStmt(e) ==
    CASE ast[e].k = "let"     -> CheckAll(Children(e)) \o BindPattern(e, 1)
      [] ast[e].k = "declare" -> CheckAll(Children(e)) \o Declare(e)
      [] ast[e].k = "fn"      -> Declare(e) \o CheckFn(e, 2)
      [] OTHER                -> InferExpr(e)

\* The tasks of a fork give their names no type.
InferExpr(e) ==
    CASE ast[e].k = "use"     -> LookUp(e)
      [] ast[e].k = "closure" -> BindPattern(e, 1) \o CheckAll(Children(e))
      [] ast[e].k \in {"if_let", "match", "loop"} ->
             CheckStmt(ast[e].kids[1]) \o BindPattern(e, 1) \o CheckAll(Tail(Children(e)))
      [] OTHER                -> CheckAll(Children(e))

CheckItem(e) ==
    CASE ast[e].k = "fn"     -> CheckFn(e, 2)
      [] ast[e].k = "method" -> CheckFn(e, 1)
      [] ast[e].k = "const"  -> CheckAll(Children(e))

\* The type of an item goes to its name; so does that of a method of an impl whose
\* target is a named type (`named`).
CollectDefinitions(e, named) ==
    CASE ast[e].k # "method" -> Declare(e)
      [] e \in named         -> <<Step("declare", <<e, 0>>, ast[e].name)>>
      [] OTHER               -> <<>>

\* infer_ident: no resolution, or none with a type, is the error type.
TypeOf(known, span) ==
    IF span \in DOMAIN resolutions /\ resolutions[span] \in DOMAIN known
    THEN known[resolutions[span]] ELSE Untyped

Take(known, step) ==
    LET Give(id) == [known EXCEPT !.env = Insert(@, id, step.span)]
    IN CASE step.do = "bind" /\ step.span \in DOMAIN resolutions -> Give(resolutions[step.span])
         [] step.do = "declare" /\ Defined(step.name) -> Give(Resolve(step.name))
         [] step.do = "look_up" ->
                [known EXCEPT !.uses = Insert(@, step.span[1], TypeOf(known.env, step.span))]
         [] OTHER -> known

Perform(steps) ==
    LET known == FoldLeft(Take, [env |-> type_env, uses |-> types], steps)
    IN type_env' = known.env /\ types' = known.uses

-----------------------------------------------------------------------------
(* The mutability check                                                    *)

\* Slip: every local variable counts, whatever its is_mut says.
MutableLocal(span) == span # PreludeSpan /\ Parent(span[1]) # Root
Mutable(span) == span # PreludeSpan /\ ast[span[1]].binds[span[2]].mutable

\* A target without a resolution passes.
IsMutableTarget(e) ==
    <<e, 0>> \in DOMAIN resolutions => Mutable(symbols[resolutions[<<e, 0>>]])

RECURSIVE UsesUnder(_)
UsesUnder(e) ==
    IF ast[e].k = "use" THEN {e}
    ELSE UNION {UsesUnder(Children(e)[i]) : i \in DOMAIN Children(e)}

\* What it comes to: functions and methods, the values of jumps included, but not
\* constants and shared values of the module.
Visited == UNION {UsesUnder(e) : e \in {e \in ToSet(Items) : ast[e].k # "const"}}

-----------------------------------------------------------------------------
(* The phases                                                              *)

Resolving ==
    /\ phase = "resolve"
    /\ Walk
    /\ UNCHANGED semaVars

\* The steps for every item, in the order of the items.
EachItem(steps) == FlattenSeq([i \in 1..Len(Items) |-> steps[Items[i]]])

\* The methods that are in an impl of a named type: the rest is of traits or of
\* other types.
OfNamedTypes == SUBSET {e \in ToSet(Items) : ast[e].k = "method"}

\* Slip: an item is collected when it is checked.
CheckModuleOnePass ==
    /\ phase = "resolve" /\ agenda = <<>>
    /\ phase' = "check"
    /\ \E named \in OfNamedTypes :
           Perform(EachItem([e \in ToSet(Items) |->
                                CollectDefinitions(e, named) \o CheckItem(e)]))
    /\ UNCHANGED <<vars, reported>>

CheckModule ==
    /\ phase = "resolve" /\ agenda = <<>>
    /\ phase' = "check"
    /\ \E named \in OfNamedTypes :
           Perform(EachItem([e \in ToSet(Items) |-> CollectDefinitions(e, named)])
                     \o EachItem([e \in ToSet(Items) |-> CheckItem(e)]))
    /\ UNCHANGED <<vars, reported>>

\* Which uses would be reported, were they assigned to: what is said of one
\* assignment does not depend on the others.
CheckMutability ==
    /\ phase = "check"
    /\ phase' = "done"
    /\ reported' = {e \in Visited : ~IsMutableTarget(e)}
    /\ UNCHANGED <<vars, type_env, types>>

Analyzed == phase = "done" /\ UNCHANGED <<vars, semaVars>>

\* The prelude comes with its types.
SemaInit ==
    /\ Init
    /\ phase = "resolve"
    /\ type_env = [i \in DOMAIN symbols |-> PreludeSpan]
    /\ types = <<>>
    /\ reported = {}

SemaNext == Resolving \/ CheckModule \/ CheckMutability \/ Analyzed

SemaSpec == SemaInit /\ [][SemaNext]_<<vars, semaVars>>

-----------------------------------------------------------------------------
(* Properties                                                              *)

Done == phase = "done"
Uses == {e \in DOMAIN ast : ast[e].k = "use"}
MeaningOf(e) == IF ast[Parent(e)].k = "jump" THEN Undefined ELSE Meaning[e][ast[e].name]

\* Those that do not mean the result of a fork that is over, which is lost.
Judged == {e \in Uses : ~AfterFork(e)}

\* Declared by an item of the module or by the prelude.
OfModule(span) ==
    \/ span = PreludeSpan
    \/ ast[span[1]].k \in {"fn", "const"} /\ span[2] = 1 /\ Parent(span[1]) = Root

DeclaredMutable(span) == span # PreludeSpan /\ ast[span[1]].binds[span[2]].mutable

\* The environment refers to what is there, and every use has been given a type
\* when the type checker is done.
TypesOK ==
    /\ phase \in {"resolve", "check", "done", "lowered"}
    /\ DOMAIN type_env \subseteq DefIds
    /\ DOMAIN types = IF phase = "resolve" THEN {} ELSE Uses
    /\ reported \subseteq Uses

(***************************************************************************)
(* A name that a let, a parameter or a pattern binds has the type given    *)
(* there wherever it is used: one that is shadowed or out of scope lends   *)
(* it nothing, and no declaration of its name disturbs it.  All other      *)
(* local names (mut, const and shared, local functions, parameters of      *)
(* closures, shorthand fields, tasks of a fork) and the values of jumps    *)
(* have the error type, which agrees with every other.  Results of a fork  *)
(* that is over are apart, see LexicalScope.                               *)
(***************************************************************************)
LocalsTyped ==
    Done => \A e \in Judged :
        LET m     == MeaningOf(e)
            found == ast[m[1]].k # "declare" /\ ast[m[1]].binds[m[2]].recorded
        IN CASE m = Undefined -> types[e] = Untyped
             [] OfModule(m)   -> TRUE
             [] OTHER         -> types[e] = IF found THEN m ELSE Untyped

\* What is given its type by name without being the item of that name.
Intruders(x) ==
    {<<e, 1>> : e \in {e \in DOMAIN ast :
        /\ ast[e].k \in {"declare", "fn"} /\ Parent(e) # Root
        /\ ast[e].binds[1].name = x}}
    \cup {<<e, 0>> : e \in {e \in DOMAIN ast : ast[e].k = "method" /\ ast[e].name = x}}

(***************************************************************************)
(* A name of the module has the type of its item, whatever the order of    *)
(* items and uses; only a declaration inside a function and a method, of   *)
(* the same name, can put theirs in its place.                             *)
(***************************************************************************)
ItemsTyped ==
    Done => \A e \in Judged :
        LET m == MeaningOf(e)
        IN m # Undefined /\ OfModule(m) => types[e] \in {m} \cup Intruders(ast[e].name)

(***************************************************************************)
(* An assignment in a function is reported if and only if its target means *)
(* something that is not mutable: the walk of the mutability check and     *)
(* that of the resolver agree on every name but those in jumps, which pass.*)
(***************************************************************************)
AssignmentsChecked ==
    Done => \A e \in Visited \cap Judged :
        LET m == MeaningOf(e)
        IN e \in reported <=> m # Undefined /\ ~DeclaredMutable(m)
=============================================================================
