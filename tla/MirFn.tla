-------------------------------- MODULE MirFn --------------------------------
(***************************************************************************)
(* A MIR function under construction: the basic blocks of                  *)
(* razen_mir/src/func.rs and the part of `FnBuilder` (lower.rs) that says  *)
(* which block is being filled.  Instructions and locals are data here:    *)
(* only control flow is kept, so a block is its terminator.                *)
(*                                                                         *)
(* Block ids are positions of `term`: BlockId(n) of the code is n + 1.     *)
(***************************************************************************)
EXTENDS Integers, Sequences

Entry == 1
Block == Nat \ {0}

(***************************************************************************)
(* A terminator: its variant, the source node whose effect or decision it  *)
(* carries (0 for none), the blocks it can go to, and for a switch the     *)
(* discriminant of each arm, the default target being the last of `to`.    *)
(* An arm the code gives no entry is there with a discriminant no value    *)
(* has, and with the default target.                                       *)
(***************************************************************************)
Terminator(k, n, to, on) == [k |-> k, n |-> n, to |-> to, on |-> on]

\* `Terminator::Unreachable`, the placeholder of a block nothing has closed.
Open            == Terminator("unreachable", 0, <<>>, <<>>)
Goto(b)         == Terminator("goto", 0, <<b>>, <<>>)
Branch(n, t, f) == Terminator("branch", n, <<t, f>>, <<>>)
Call(n, target) == Terminator("call", n, <<target>>, <<>>)
Return          == Terminator("return", 0, <<>>, <<>>)
Switch(n, arms, on, otherwise) ==
    Terminator("switch", n, Append(arms, otherwise), on)

NoDiscriminant == -1

TermKinds == {"unreachable", "goto", "branch", "switch", "call", "return"}
TermSet == [k : TermKinds, n : Nat, to : Seq(Block), on : Seq(Int)]

Successors(t) == {t.to[i] : i \in DOMAIN t.to}

-----------------------------------------------------------------------------
(* FnBuilder: the block being filled and the cached `terminated` flag.     *)

Builder == [term : Seq(TermSet), cur : Block, terminated : BOOLEAN]

NewFn == [term |-> <<Open>>, cur |-> Entry, terminated |-> FALSE]

BlockCount(fb) == Len(fb.term)

\* Slip: the id is counted from the blocks before the last one.
PreviousBlock(fb) == BlockCount(fb) - 1

\* The id the next `new_block` returns.
NextBlock(fb) == BlockCount(fb) + 1

\* n calls of `new_block` in a row.
NewBlocks(fb, n) ==
    [term |-> fb.term \o [i \in 1..n |-> Open],
     cur |-> fb.cur, terminated |-> fb.terminated]

SwitchTo(fb, b) == [term |-> fb.term, cur |-> b, terminated |-> FALSE]

\* Slip: a terminator always goes to `set_term`, which overwrites.
TerminateAgain(fb, t) ==
    [term |-> [fb.term EXCEPT ![fb.cur] = t],
     cur |-> fb.cur, terminated |-> TRUE]

\* Dropped when the builder believes the current block is closed.
Terminate(fb, t) ==
    IF fb.terminated THEN fb
    ELSE [term |-> [fb.term EXCEPT ![fb.cur] = t],
          cur |-> fb.cur, terminated |-> TRUE]

IsTerminated(fb, b) == fb.term[b] # Open

IsFullyTerminated(fb) == \A b \in DOMAIN fb.term : IsTerminated(fb, b)

\* The block the builder is filling, unless it is closed.
Held(fb) == IF fb.terminated THEN {} ELSE {fb.cur}
=============================================================================
