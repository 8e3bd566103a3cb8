------------------------------ MODULE InferCtx ------------------------------
(***************************************************************************)
(* Type inference (razen_sema/src/infer.rs): the variables handed out, the *)
(* substitution, and `unify` as the checker calls it, with any two types   *)
(* built from the variables there are.                                     *)
(*                                                                         *)
(* One step is one call of `unify`.  It applies the substitution to both   *)
(* types, takes the first arm that fits, and leaves the calls it makes, in *)
(* order, and what is built from their results, on the agenda.             *)
(***************************************************************************)
EXTENDS Ty, TLC

CONSTANTS
    MaxVars,     \* bound on the variables handed out
    Checkers,    \* families of inputs: types the checker passes, and bounds on
                 \* the variables it asks for and the calls it makes
    Ground       \* types without variables, to look for solutions in

VARIABLES
    checker,     \* the family of inputs of this behaviour
    next_id,     \* the next variable
    subst,       \* variable -> type
    errors,      \* how many mismatches were reported
    agenda,      \* calls of unify to make and types to build, head first
    results,     \* types returned and not used yet, the last one first
    calls,       \* ghost: the calls of the checker, with what they returned
    phase        \* "checking", "finalized", or "overflowed"

vars == <<checker, next_id, subst, errors, agenda, results, calls, phase>>

ASSUME ConstantsAssumption ==
    /\ MaxVars \in Nat
    /\ \A c \in Checkers :
        /\ c.vars \in 0..MaxVars /\ c.calls \in Nat
        /\ \A t \in c.types : Mentions(t) \subseteq Nat

-----------------------------------------------------------------------------
(* Substitution                                                            *)

\* The variables met when following the substitution from vs.
RECURSIVE Reached(_)
Reached(vs) ==
    LET more == UNION {Mentions(subst[v]) : v \in vs \cap DOMAIN subst}
    IN IF more \subseteq vs THEN vs ELSE Reached(vs \cup more)

Cyclic(v) == v \in DOMAIN subst /\ v \in Reached(Mentions(subst[v]))

\* `apply` follows the substitution for ever: the stack of the compiler
\* overflows and the process aborts.
Diverges(t) == \E v \in Reached(Mentions(t)) : Cyclic(v)

RECURSIVE Walk(_)
Walk(id) ==
    IF id \notin DOMAIN subst THEN Infer(id)
    ELSE IF subst[id].k = "infer" THEN Walk(subst[id].id)
    ELSE subst[id]

RECURSIVE Apply(_)
Apply(t) ==
    IF t.k = "infer"
    THEN LET walked == Walk(t.id)
         IN IF walked.k = "infer" THEN walked ELSE Apply(walked)
    ELSE Ty(t.k, t.id, [i \in DOMAIN t.args |-> Apply(t.args[i])])

\* Slip: the check against trivial cycles drops every binding to a variable.
BindUnlessVariable(id, ty) ==
    subst' = IF ty.k = "infer" THEN subst ELSE (id :> ty) @@ subst

\* The occurs check looks no deeper than the variable itself.
Bind(id, ty) ==
    subst' = IF ty = Infer(id) THEN subst ELSE (id :> ty) @@ subst

\* finalize: what is still unknown becomes `int`.
DefaultInferVars(t) == Substitute(t, [v \in Mentions(t) |-> Int64])

-----------------------------------------------------------------------------
(* unify                                                                   *)

Unify(a, b) == [op |-> "unify", a |-> a, b |-> b]
Build(k, id, n) == [op |-> "build", k |-> k, id |-> id, n |-> n]
Finish(errs) == [op |-> "finish", errs |-> errs]

\* The arms in the order of the code.
Arms == <<"error", "same", "bind", "never", "widen", "shared", "unshare",
          "parts", "param", "mismatch">>

Fits(arm, a, b) ==
    CASE arm = "error"    -> a = Error \/ b = Error
      [] arm = "same"     -> a = b
      [] arm = "bind"     -> a.k = "infer" \/ b.k = "infer"
      [] arm = "never"    -> a.k = "never" \/ b.k = "never"
      [] arm = "widen"    -> Widens(a, b) \/ Widens(b, a)
      [] arm = "shared"   -> a.k = "shared" /\ b.k = "shared"
      [] arm = "unshare"  -> a.k = "shared" \/ b.k = "shared"
      [] arm = "parts"    -> SameHead(a, b)
      [] arm = "param"    -> a.k = "param" \/ b.k = "param"
      [] arm = "mismatch" -> TRUE

FirstArm(a, b) ==
    LET fit == {i \in DOMAIN Arms : Fits(Arms[i], a, b)}
    IN Arms[CHOOSE i \in fit : \A j \in fit : i <= j]

Top == Head(agenda)
\* Slips: one of the types is used as it was before the calls in between.
StaleA == Top.a
StaleB == Top.b
A == Apply(Top.a)
B == Apply(Top.b)

Calling == phase = "checking" /\ agenda # <<>> /\ Top.op = "unify"
Takes(arm) ==
    /\ Calling
    /\ ~Diverges(Top.a) /\ ~Diverges(Top.b)
    /\ FirstArm(A, B) = arm

Returns(t)  == results' = <<t>> \o results /\ agenda' = Tail(agenda)
Does(items) == agenda' = items \o Tail(agenda) /\ UNCHANGED results

UnifyError ==
    /\ Takes("error")
    /\ Returns(Error)
    /\ UNCHANGED <<checker, next_id, subst, errors, calls, phase>>

UnifySame ==
    /\ Takes("same")
    /\ Returns(A)
    /\ UNCHANGED <<checker, next_id, subst, errors, calls, phase>>

UnifyBind ==
    /\ Takes("bind")
    /\ LET id    == IF A.k = "infer" THEN A.id ELSE B.id
           other == IF A.k = "infer" THEN B ELSE A
       IN Bind(id, other) /\ Returns(other)
    /\ UNCHANGED <<checker, next_id, errors, calls, phase>>

UnifyNever ==
    /\ Takes("never")
    /\ Returns(IF A.k = "never" THEN B ELSE A)
    /\ UNCHANGED <<checker, next_id, subst, errors, calls, phase>>

UnifyWiden ==
    /\ Takes("widen")
    /\ Returns(IF Widens(A, B) THEN B ELSE A)
    /\ UNCHANGED <<checker, next_id, subst, errors, calls, phase>>

UnifyShared ==
    /\ Takes("shared")
    /\ Does(<<Unify(A.args[1], B.args[1]), Build("shared", 0, 1)>>)
    /\ UNCHANGED <<checker, next_id, subst, errors, calls, phase>>

UnifyUnshare ==
    /\ Takes("unshare")
    /\ Does(<<IF A.k = "shared" THEN Unify(A.args[1], B) ELSE Unify(B.args[1], A)>>)
    /\ UNCHANGED <<checker, next_id, subst, errors, calls, phase>>

\* Slip: the parts are paired crosswise.
UnifyPartsCrossed ==
    /\ Takes("parts")
    /\ LET n  == Cardinality(SharedParts(A, B))
           id == IF A.k = "array" /\ A.id = 0 THEN B.id ELSE A.id
       IN Does(Append([i \in 1..n |-> Unify(A.args[i], B.args[n + 1 - i])],
                      Build(A.k, id, n)))
    /\ errors' = errors + IF SizesAgree(A, B) THEN 0 ELSE 1
    /\ UNCHANGED <<checker, next_id, subst, calls, phase>>

\* Arrays adopt the size that is known; two that differ are a mismatch.
UnifyParts ==
    /\ Takes("parts")
    /\ LET parts == SharedParts(A, B)
           id    == IF A.k = "array" /\ A.id = 0 THEN B.id ELSE A.id
       IN Does(Append([i \in parts |-> Unify(A.args[i], B.args[i])],
                      Build(A.k, id, Cardinality(parts))))
    /\ errors' = errors + IF SizesAgree(A, B) THEN 0 ELSE 1
    /\ UNCHANGED <<checker, next_id, subst, calls, phase>>

UnifyParam ==
    /\ Takes("param")
    /\ Returns(IF A.k = "param" THEN B ELSE A)
    /\ UNCHANGED <<checker, next_id, subst, errors, calls, phase>>

\* Slip: the error type is returned and nothing reported.
UnifyMismatchSilent ==
    /\ Takes("mismatch")
    /\ Returns(Error)
    /\ UNCHANGED <<checker, next_id, subst, errors, calls, phase>>

UnifyMismatch ==
    /\ Takes("mismatch")
    /\ Returns(Error)
    /\ errors' = errors + 1
    /\ UNCHANGED <<checker, next_id, subst, calls, phase>>

UnifyOverflow ==
    /\ Calling
    /\ Diverges(Top.a) \/ Diverges(Top.b)
    /\ phase' = "overflowed"
    /\ UNCHANGED <<checker, next_id, subst, errors, agenda, results, calls>>

\* Slip: the parts are left behind.
BuildTypeKeepsParts ==
    /\ phase = "checking" /\ agenda # <<>> /\ Top.op = "build"
    /\ LET n == Top.n
       IN results' = <<Ty(Top.k, Top.id, [i \in 1..n |-> results[n + 1 - i]])>>
                        \o results
    /\ agenda' = Tail(agenda)
    /\ UNCHANGED <<checker, next_id, subst, errors, calls, phase>>

\* The results of the parts are collected into the type they are parts of.
BuildType ==
    /\ phase = "checking" /\ agenda # <<>> /\ Top.op = "build"
    /\ LET n == Top.n
           parts == [i \in 1..n |-> results[n + 1 - i]]
       IN results' = <<Ty(Top.k, Top.id, parts)>>
                        \o SubSeq(results, n + 1, Len(results))
    /\ agenda' = Tail(agenda)
    /\ UNCHANGED <<checker, next_id, subst, errors, calls, phase>>

-----------------------------------------------------------------------------
(* The checker                                                             *)

Idle == phase = "checking" /\ agenda = <<>>

NewVar ==
    /\ Idle /\ next_id < checker.vars
    /\ next_id' = next_id + 1
    /\ UNCHANGED <<checker, subst, errors, agenda, results, calls, phase>>

\* A call is `ok` when it has returned and reported no mismatch.
CallUnify ==
    \E a, b \in {t \in checker.types : Mentions(t) \subseteq 0..(next_id - 1)} :
        /\ Idle /\ Len(calls) < checker.calls
        /\ agenda' = <<Unify(a, b), Finish(errors)>>
        /\ calls' = Append(calls, [a |-> a, b |-> b, r |-> Error, ok |-> FALSE])
        /\ UNCHANGED <<checker, next_id, subst, errors, results, phase>>

CallReturns ==
    /\ phase = "checking" /\ agenda # <<>> /\ Top.op = "finish"
    /\ calls' = [calls EXCEPT ![Len(calls)].r = Head(results),
                              ![Len(calls)].ok = errors = Top.errs]
    /\ agenda' = <<>>
    /\ results' = Tail(results)
    /\ UNCHANGED <<checker, next_id, subst, errors, phase>>

Recorded == UNION {{c.a, c.b, c.r} : c \in {calls[i] : i \in DOMAIN calls}}

\* Every recorded type is applied and its unknowns defaulted.
Finalize ==
    /\ Idle
    /\ phase' = IF \E t \in Recorded : Diverges(t) THEN "overflowed" ELSE "finalized"
    /\ UNCHANGED <<checker, next_id, subst, errors, agenda, results, calls>>

Init ==
    /\ checker \in Checkers
    /\ next_id = 0
    /\ subst = << >>
    /\ errors = 0
    /\ agenda = <<>>
    /\ results = <<>>
    /\ calls = <<>>
    /\ phase = "checking"

Ended == phase # "checking" /\ UNCHANGED vars

Next ==
    \/ NewVar \/ CallUnify \/ CallReturns \/ Finalize \/ BuildType \/ Ended
    \/ UnifyError \/ UnifySame \/ UnifyBind \/ UnifyNever \/ UnifyWiden
    \/ UnifyShared \/ UnifyUnshare \/ UnifyParts \/ UnifyParam
    \/ UnifyMismatch \/ UnifyOverflow

Spec == Init /\ [][Next]_vars

-----------------------------------------------------------------------------
(* Properties                                                              *)

Known(t) == Mentions(t) \subseteq 0..(next_id - 1)

\* Nothing mentions a variable that was not handed out, a call leaves no
\* results behind, and a call in progress has one type for each that was built.
TypeOK ==
    /\ checker \in Checkers
    /\ next_id \in 0..checker.vars
    /\ DOMAIN subst \subseteq 0..(next_id - 1)
    /\ \A v \in DOMAIN subst : Known(subst[v])
    /\ errors \in Nat
    /\ \A i \in DOMAIN results : Known(results[i])
    /\ \A t \in Recorded : Known(t)
    /\ Len(calls) <= checker.calls
    /\ phase \in {"checking", "finalized", "overflowed"}
    /\ agenda = <<>> => results = <<>>

(***************************************************************************)
(* A variable that is bound stays bound to the same type: `bind` inserts   *)
(* into the map without looking, and what earlier constraints have learnt  *)
(* is lost if unify ever gets there with a type it has not applied afresh. *)
(***************************************************************************)
NeverRebound ==
    [][\A v \in DOMAIN subst : v \in DOMAIN subst' /\ subst'[v] = subst[v]]_vars

\* `walk` ends: variables are not bound to each other in a circle.
WalkEnds ==
    LET next(v) == IF v \in DOMAIN subst /\ subst[v].k = "infer" THEN {subst[v].id} ELSE {}
        chase[n \in 0..MaxVars, v \in 0..(MaxVars - 1)] ==
            IF n = 0 THEN FALSE
            ELSE \A w \in next(v) : chase[n - 1, w]
    IN \A v \in DOMAIN subst : chase[MaxVars, v]

(***************************************************************************)
(* Two types that were unified without a mismatch fit each other from then *)
(* on, and both fit the type unify returned, whatever is unified later,    *)
(* successfully or not; and still do when what is unknown is defaulted.    *)
(***************************************************************************)
Agreement ==
    \A i \in DOMAIN calls :
        LET c == calls[i]
            Fit(s, t) ==
                ~Diverges(s) /\ ~Diverges(t) =>
                    /\ Compatible(Apply(s), Apply(t))
                    /\ Compatible(DefaultInferVars(Apply(s)), DefaultInferVars(Apply(t)))
        IN c.ok => Fit(c.a, c.b) /\ Fit(c.r, c.a) /\ Fit(c.r, c.b)

\* Types that unify compares for equality and nothing else.
RECURSIVE Plain(_)
Plain(t) ==
    /\ t.k \in {"infer", "bool", "str", "vec", "map", "tuple"}
    /\ \A i \in DOMAIN t.args : Plain(t.args[i])

(***************************************************************************)
(* On plain types unify commits itself to nothing the constraints do not   *)
(* demand: every way of filling in the variables that satisfies all calls  *)
(* made so far agrees with every binding.  So a reported mismatch, and an  *)
(* overflow of the stack, mean that the constraints have no solution.      *)
(***************************************************************************)
MostGeneral ==
    /\ agenda = <<>> \/ phase = "overflowed"
    /\ \A i \in DOMAIN calls : Plain(calls[i].a) /\ Plain(calls[i].b)
    =>
        \A s \in [0..(next_id - 1) -> Ground] :
            (\A i \in DOMAIN calls :
                Substitute(calls[i].a, s) = Substitute(calls[i].b, s)) =>
                    /\ \A v \in DOMAIN subst : s[v] = Substitute(subst[v], s)
                    /\ errors = 0 /\ phase # "overflowed"

\* "After `TypeChecker::finalize()` runs, all `Ty::Infer` variants are replaced
\* with concrete types" (ty.rs): applying the recorded types comes to an end.
FinalizeReturns == phase # "overflowed"
=============================================================================
