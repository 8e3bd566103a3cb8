------------------------------- MODULE MirExec -------------------------------
(***************************************************************************)
(* What the MIR of a lowered function does, next to what the program says. *)
(*                                                                         *)
(* When lowering has returned, the function is run twice at once: by the   *)
(* control flow of the source, as design/language describes it, on the     *)
(* tree that was lowered, and by following the terminators of its blocks.  *)
(* Calls, decisions and the return are visible; the two runs take them     *)
(* together, and every decision comes out the same way for both.           *)
(***************************************************************************)
EXTENDS MirLower

CONSTANT Outcomes     \* what a condition or a discriminant may evaluate to

ASSUME OutcomesAssumption == {0, 1} \subseteq Outcomes /\ Outcomes \subseteq Nat

VARIABLES
    phase,   \* "lowering", "running" or "done"
    todo,    \* the source: what is left to do, head first
    pc,      \* the MIR: the block being executed
    silent   \* terminators the MIR has followed since anything was visible

run_vars == <<phase, todo, pc, silent>>
all_vars == <<vars, run_vars>>

-----------------------------------------------------------------------------
(* The source                                                              *)

\* d: the outcome a match is about; ds: the deferred bodies of a scope.
Item(op, e, at, d, ds) == [op |-> op, e |-> e, at |-> at, d |-> d, ds |-> ds]
Eval(e)       == Item("eval", e, 0, 0, <<>>)
Doing(op, e)  == Item(op, e, 0, 0, <<>>)
EvalAll(es)   == [i \in 1..Len(es) |-> Eval(es[i])]

Matches(pat, d) ==
    CASE pat.k = "wild" -> TRUE
      [] pat.k = "cond" -> d # 0
      [] OTHER          -> pat.d = d

\* The deferred bodies of the scopes among `items`, innermost scope first.
RECURSIVE Deferred(_)
Deferred(items) ==
    IF items = <<>> THEN <<>> ELSE EvalAll(Head(items).ds) \o Deferred(Tail(items))

FirstIndex(items, P(_)) ==
    LET hits == {i \in DOMAIN items : P(items[i])}
    IN CHOOSE i \in hits : \A j \in hits : i <= j

Begin(e) ==
    LET n == ast[e]
    IN CASE n.k \in {"operands"}          -> EvalAll(n.kids)
         [] n.k = "call"                  -> Append(EvalAll(n.kids), Doing("act", e))
         [] n.k \in {"block", "fn"}       -> Append(EvalAll(n.kids), Doing("scope", e))
         [] n.k \in {"if", "guard", "match"} -> <<Eval(n.kids[1]), Doing("pick", e)>>
         [] n.k = "infinite"              -> <<Eval(n.kids[1]), Doing("loop", e)>>
         [] n.k \in {"while", "let", "in", "forkloop"} ->
                                             <<Eval(n.kids[2]), Doing("pick", e)>>
         [] n.k \in {"break", "next"}     -> Append(EvalAll(n.kids), Doing("jump", e))
         [] n.k = "ret"                   -> Append(EvalAll(n.kids), Doing("leave", e))

\* The end of a loop body: a condition is tested again, an iterator asked for
\* its next element.
Again(e) ==
    CASE ast[e].k = "infinite"           -> <<Eval(ast[e].kids[1]), Doing("loop", e)>>
      [] ast[e].k \in {"while", "let"}   -> <<Eval(ast[e].kids[2]), Doing("pick", e)>>
      [] ast[e].k \in {"in", "forkloop"} -> <<Doing("pick", e)>>

\* A match from arm i on: the first arm whose pattern and guard are true.
RECURSIVE TryArms(_, _, _)
TryArms(e, i, d) ==
    LET arms == ast[e].arms
    IN CASE i > Len(arms)                -> <<>>
         [] ~Matches(arms[i].pat, d)     -> TryArms(e, i + 1, d)
         [] arms[i].guard /\ Matches(arms[i].pat, d) ->
                <<Eval(ast[e].kids[GuardKid(arms, i)]), Item("guard", e, i, d, <<>>)>>
         [] OTHER                        -> <<Eval(ast[e].kids[BodyKid(i)])>>

\* What follows when decision item `it` comes out as d.
Decided(it, d) ==
    LET n == ast[it.e]
        otherwise == IF n.flag THEN <<Eval(n.kids[3])>> ELSE <<>>
    IN CASE it.op = "guard" ->
              IF d # 0 THEN <<Eval(n.kids[BodyKid(it.at)])>>
              ELSE TryArms(it.e, it.at + 1, it.d)
         [] it.op = "pick" /\ n.k = "match" -> TryArms(it.e, 1, d)
         [] it.op = "pick" /\ n.k = "guard" ->
              IF d # 0 THEN <<>> ELSE <<Eval(n.kids[2])>>
         [] it.op = "pick" /\ n.k = "if" ->
              IF Matches(n.pat, d) THEN <<Eval(n.kids[2])>> ELSE otherwise
         [] OTHER ->
              IF d # 0 THEN <<Eval(n.kids[1]), Doing("loop", it.e)>> ELSE otherwise

\* break and next end the scopes up to the loop they name, ret all of them.
Jump(e, items) ==
    LET n  == ast[e]
        at == FirstIndex(items, LAMBDA it : /\ it.op = "loop"
                                            /\ n.label \in {0, it.e})
    IN Deferred(SubSeq(items, 1, at - 1))
       \o SubSeq(items, IF n.k = "break" THEN at + 1 ELSE at, Len(items))

\* `defer` gives its body to the innermost scope, before those it has.
Defer(e, items) ==
    LET at == FirstIndex(items, LAMBDA it : it.op = "scope")
    IN [items EXCEPT ![at].ds = <<ast[e].kids[1]>> \o @]

Visible == todo # <<>> => Head(todo).op \in {"act", "pick", "guard"}

Event(k, n) == [k |-> k, n |-> n]

SourceEvent ==
    IF todo = <<>> THEN Event("return", 0)
    ELSE LET it == Head(todo)
         IN CASE it.op = "act"   -> Event("call", it.e)
              [] it.op = "pick"  -> Event("pick", it.e)
              [] it.op = "guard" -> Event("pick", 
                                     ast[it.e].kids[GuardKid(ast[it.e].arms, it.at)])

SourceStep ==
    /\ phase = "running" /\ ~Visible
    /\ LET it   == Head(todo)
           rest == Tail(todo)
       IN todo' = CASE it.op = "eval" /\ ast[it.e].k = "defer" -> Defer(it.e, rest)
                    [] it.op = "eval" /\ ast[it.e].k # "defer" -> Begin(it.e) \o rest
                    [] it.op = "scope" -> EvalAll(it.ds) \o rest
                    [] it.op = "loop"  -> Again(it.e) \o rest
                    [] it.op = "jump"  -> Jump(it.e, rest)
                    [] it.op = "leave" -> Deferred(rest)
    /\ UNCHANGED <<vars, phase, pc, silent>>

-----------------------------------------------------------------------------
(* The MIR                                                                 *)

Term == fb.term[pc]

\* Calls the lowering made up (__iter_next, __vec_push) are not the program's.
MirVisible == Term.k # "goto" /\ ~(Term.k = "call" /\ Term.n = 0)

MirEvent ==
    CASE Term.k = "call"               -> Event("call", Term.n)
      [] Term.k \in {"branch", "switch"} -> Event("pick", Term.n)
      [] OTHER                         -> Event(Term.k, 0)

\* A branch tests for non-zero; a switch takes its first arm on d.
Target(t, d) ==
    CASE t.k = "branch" -> IF d # 0 THEN t.to[1] ELSE t.to[2]
      [] t.k = "switch" ->
            LET hits == {i \in DOMAIN t.on : t.on[i] = d}
            IN IF hits = {} THEN t.to[Len(t.to)]
               ELSE t.to[CHOOSE i \in hits : \A j \in hits : i <= j]
      [] OTHER -> t.to[1]

MirStep ==
    /\ phase = "running" /\ Visible /\ ~MirVisible
    /\ pc' = Target(Term, 0)
    /\ silent' = silent + 1
    /\ UNCHANGED <<vars, phase, todo>>

-----------------------------------------------------------------------------
(* Both                                                                    *)

Lowering == Next /\ phase = "lowering" /\ UNCHANGED run_vars

Start ==
    /\ phase = "lowering" /\ Lowered
    /\ phase' = "running"
    /\ todo' = <<Eval(1)>>
    /\ pc' = Entry
    /\ UNCHANGED <<vars, silent>>

Agree == SourceEvent = MirEvent

Together(k) ==
    phase = "running" /\ Visible /\ MirVisible /\ Agree /\ MirEvent.k = k

CallStep ==
    /\ Together("call")
    /\ todo' = Tail(todo)
    /\ pc' = Target(Term, 0)
    /\ silent' = 0
    /\ UNCHANGED <<vars, phase>>

PickStep ==
    \E d \in Outcomes :
        /\ Together("pick")
        /\ todo' = Decided(Head(todo), d) \o Tail(todo)
        /\ pc' = Target(Term, d)
        /\ silent' = 0
        /\ UNCHANGED <<vars, phase>>

ReturnStep ==
    /\ Together("return")
    /\ phase' = "done"
    /\ UNCHANGED <<vars, todo, pc, silent>>

RunInit ==
    /\ Init
    /\ phase = "lowering"
    /\ todo = <<>>
    /\ pc = Entry
    /\ silent = 0

Ended == phase = "done" /\ UNCHANGED all_vars

RunNext ==
    \/ Lowering \/ Start \/ SourceStep \/ MirStep
    \/ CallStep \/ PickStep \/ ReturnStep \/ Ended

RunSpec == RunInit /\ [][RunNext]_all_vars

(***************************************************************************)
(* The MIR of a function does what its source says: whenever both runs     *)
(* have come to something visible it is the same call, decision or return. *)
(***************************************************************************)
InStep == phase = "running" /\ Visible /\ MirVisible => Agree

(***************************************************************************)
(* It does so in finite time: while the source waits at something visible  *)
(* the MIR passes no block twice, which would be going round for ever.     *)
(***************************************************************************)
MirAnswers == silent < Len(fb.term)
=============================================================================
