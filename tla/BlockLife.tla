------------------------------ MODULE BlockLife ------------------------------
(***************************************************************************)
(* What razen_mir/src/block.rs promises of the blocks of a function while  *)
(* it is built: a block is allocated blank, is filled at most once, is     *)
(* closed by one terminator and keeps it.  One block is filled at a time,  *)
(* and it is not left before it is closed.                                 *)
(***************************************************************************)
EXTENDS Naturals, Sequences

CONSTANT Blank     \* the terminator of a block that has none

VARIABLE life      \* per block, its phase and its terminator

Rank == [waiting |-> 0, open |-> 1, closed |-> 2]

Init == life = <<[phase |-> "open", term |-> Blank]>>

OneOpen(blocks) ==
    \A b, c \in DOMAIN blocks :
        blocks[b].phase = "open" /\ blocks[c].phase = "open" => b = c

Ages(old, new) ==
    /\ Rank[old.phase] <= Rank[new.phase]
    /\ old.phase = "closed" => new = old
    /\ new.phase # "closed" => new.term = Blank

Grow ==
    /\ DOMAIN life \subseteq DOMAIN life'
    /\ \A b \in DOMAIN life : Ages(life[b], life'[b])
    /\ OneOpen(life')

Spec == Init /\ [][Grow]_life
=============================================================================
