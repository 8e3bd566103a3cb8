--------------------------------- MODULE Ty ---------------------------------
(***************************************************************************)
(* The resolved types of razen_sema/src/ty.rs.  A type is its variant, the *)
(* number that goes with it (the id of an inference variable, the DefId of *)
(* a named type, the size of an array, 1 for an async function) and its    *)
(* component types, the return type of a function last.                    *)
(***************************************************************************)
EXTENDS Integers, Sequences, FiniteSets

Ty(k, id, args) == [k |-> k, id |-> id, args |-> args]
Prim(k)   == Ty(k, 0, <<>>)
Infer(id) == Ty("infer", id, <<>>)
Shared(t) == Ty("shared", 0, <<t>>)

Error == Prim("error")
Int64 == Prim("int")     \* `int`, the default integer type

UnsignedKinds == {"u8", "u16", "u32", "u64", "u128", "usize"}
IntegralKinds == UnsignedKinds \cup
    {"int", "uint", "i8", "i16", "i32", "i64", "i128", "isize"}
FloatKinds == {"float", "f32", "f64"}

\* The variables a type mentions.
RECURSIVE Mentions(_)
Mentions(t) ==
    IF t.k = "infer" THEN {t.id}
    ELSE UNION {Mentions(t.args[i]) : i \in DOMAIN t.args}

\* A type with every variable v that it mentions replaced by s[v].
RECURSIVE Substitute(_, _)
Substitute(t, s) ==
    IF t.k = "infer" THEN s[t.id]
    ELSE Ty(t.k, t.id, [i \in DOMAIN t.args |-> Substitute(t.args[i], s)])

(***************************************************************************)
(* The arms of `unify`: which of them fit a pair of types.  Widening is    *)
(* from a default type to one of its family.                               *)
(***************************************************************************)
Widens(a, b) ==
    \/ a.k = "int" /\ b.k \in IntegralKinds
    \/ a.k = "uint" /\ b.k \in UnsignedKinds
    \/ a.k = "float" /\ b.k \in FloatKinds

\* Two types of one constructor, to be unified part by part.  The sizes of
\* arrays are compared apart; named types compare the arguments both have.
SameHead(a, b) ==
    /\ a.k = b.k
    /\ a.k \in {"vec", "map", "set", "option", "result", "tuple", "array",
                "named", "fn"}
    /\ a.k # "array" => a.id = b.id
    /\ a.k # "named" => Len(a.args) = Len(b.args)

SharedParts(a, b) ==
    1..(IF Len(a.args) < Len(b.args) THEN Len(a.args) ELSE Len(b.args))

SizesAgree(a, b) == a.k # "array" \/ a.id = 0 \/ b.id = 0 \/ a.id = b.id

(***************************************************************************)
(* What two types without a mismatch look like once everything known is    *)
(* filled in: the same, or one gives way to the other, all the way down.   *)
(***************************************************************************)
RECURSIVE Compatible(_, _)
Compatible(a, b) ==
    \/ a = b
    \/ {a.k, b.k} \cap {"error", "never", "param"} # {}
    \/ Widens(a, b) \/ Widens(b, a)
    \/ a.k = "shared" /\ b.k = "shared" /\ Compatible(a.args[1], b.args[1])
    \/ a.k = "shared" /\ b.k # "shared" /\ Compatible(a.args[1], b)
    \/ b.k = "shared" /\ a.k # "shared" /\ Compatible(a, b.args[1])
    \/ /\ SameHead(a, b) /\ SizesAgree(a, b)
       /\ \A i \in SharedParts(a, b) : Compatible(a.args[i], b.args[i])
=============================================================================
