----------------------------- MODULE MCInferCtx -----------------------------
(* Small instances of InferCtx. *)
EXTENDS InferCtx

V(i)      == Infer(i)
Vec(t)    == Ty("vec", 0, <<t>>)
Map(k, v) == Ty("map", 0, <<k, v>>)
Fn(p, r)  == Ty("fn", 0, <<p, r>>)
Array(n, t)  == Ty("array", n, <<t>>)
Named(args)  == Ty("named", 7, args)
Bool == Prim("bool")
Str  == Prim("str")
I32  == Prim("i32")

\* Variables and plain types around them: constraints that share variables,
\* that mention one twice, and that are deeper than one level.
PlainInputs ==
    {V(0), V(1), Bool, Vec(V(0)), Map(V(1), Vec(V(0))), Map(Str, V(2))}

\* One type for each rule by which types that differ give way to each other.
MixedInputs ==
    {V(0), V(1), Bool, Int64, Prim("uint"), Prim("i32"), Prim("never"),
     Prim("param"), Error, Shared(V(0)), Shared(Int64), Vec(V(1)), Array(0, V(0)),
     Array(2, V(1)), Array(3, Int64), Fn(V(0), V(1)), Named(<<>>), Named(<<V(0)>>)}

\* Flat types and some of depth two and three: enough to tell apart all that
\* PlainInputs can be made equal to.
MCGround ==
    {Bool, Str, Vec(Bool), Vec(Str), Vec(Vec(Bool)), Map(Str, Bool), Map(Bool, Vec(Str))}

Checker(types, nvars, ncalls) == [types |-> types, vars |-> nvars, calls |-> ncalls]
MCCheckers   == {Checker(PlainInputs, 3, 3), Checker(MixedInputs, 2, 2)}
FirstChecker == {Checker(PlainInputs, 3, 2)}
=============================================================================
