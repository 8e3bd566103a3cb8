---------------------------- MODULE MirFnProofs ----------------------------
(***************************************************************************)
(* What the operations of FnBuilder keep, whoever calls them.  A function  *)
(* under construction is Sound for a set of blocks that wait to be filled  *)
(* when its open blocks are those and the one being filled.                *)
(***************************************************************************)
EXTENDS MirFn, SequenceTheorems, TLAPS

\* The ids of the next n blocks.
Fresh(f, n) == (BlockCount(f) + 1)..(BlockCount(f) + n)

TargetsOK(f) ==
    \A b \in 1..BlockCount(f) : Successors(f.term[b]) \subseteq 1..BlockCount(f)

Sound(f, waiting) ==
    /\ f \in Builder
    /\ waiting \subseteq 1..BlockCount(f)
    /\ f.cur \in 1..BlockCount(f)
    /\ f.cur \notin waiting
    /\ f.terminated <=> IsTerminated(f, f.cur)
    /\ \A b \in 1..BlockCount(f) :
          ~IsTerminated(f, b) <=> b \in Held(f) \cup waiting
    /\ TargetsOK(f)

\* What one operation may do to the blocks there are: closed ones stay as
\* they are, and the one being filled is not left open behind.
Keeps(f, g) ==
    /\ BlockCount(f) <= BlockCount(g)
    /\ \A b \in 1..BlockCount(f) : IsTerminated(f, b) => g.term[b] = f.term[b]
    /\ g.cur = f.cur \/ IsTerminated(g, f.cur)

\* f becomes g, with n more blocks, `waiting` being those still to fill.
Leads(f, g, n, waiting) ==
    /\ Sound(g, waiting)
    /\ Keeps(f, g)
    /\ BlockCount(g) = BlockCount(f) + n

\* A terminator that closes a block of a function of n blocks.
Closer(t, n) ==
    t \in TermSet /\ t.k # "unreachable" /\ Successors(t) \subseteq 1..n

-----------------------------------------------------------------------------

LEMMA OpenIsTerm == Open \in TermSet /\ Successors(Open) = {} /\ Open.k = "unreachable"
BY EmptySeq DEF Open, Terminator, TermSet, TermKinds, Successors

LEMMA TermLen ==
    ASSUME NEW f \in Builder
    PROVE  /\ f.term \in Seq(TermSet) /\ f.cur \in Block /\ f.terminated \in BOOLEAN
           /\ BlockCount(f) \in Nat /\ DOMAIN f.term = 1..BlockCount(f)
           /\ \A b \in 1..BlockCount(f) : f.term[b] \in TermSet
           /\ f = [term |-> f.term, cur |-> f.cur, terminated |-> f.terminated]
<1>1. f.term \in Seq(TermSet) /\ f.cur \in Block /\ f.terminated \in BOOLEAN
           /\ f = [term |-> f.term, cur |-> f.cur, terminated |-> f.terminated]
  BY DEF Builder
<1> QED BY <1>1, LenProperties DEF BlockCount

LEMMA SoundLen ==
    ASSUME NEW f, NEW W, Sound(f, W)
    PROVE  f \in Builder /\ f.cur \in 1..BlockCount(f) /\ BlockCount(f) \in Nat \ {0}
BY TermLen DEF Sound

LEMMA KeepsRefl == ASSUME NEW f \in Builder PROVE Keeps(f, f)
BY TermLen DEF Keeps

LEMMA LeadsTrans ==
    ASSUME NEW f, NEW g, NEW h, NEW m \in Nat, NEW n \in Nat, NEW U, NEW V, NEW W,
           Sound(f, U), Leads(f, g, m, V), Leads(g, h, n, W)
    PROVE  Leads(f, h, m + n, W)
<1>1. /\ f.cur \in 1..BlockCount(f) /\ BlockCount(f) \in Nat
      /\ BlockCount(g) \in Nat /\ BlockCount(h) \in Nat
      /\ BlockCount(g) = BlockCount(f) + m /\ BlockCount(h) = BlockCount(g) + n
      /\ Sound(h, W) /\ Keeps(f, g) /\ Keeps(g, h)
  BY SoundLen DEF Leads
<1>2. \A b \in 1..BlockCount(f) : IsTerminated(f, b) => h.term[b] = f.term[b]
  BY <1>1 DEF Keeps, IsTerminated
<1>3. h.cur = f.cur \/ IsTerminated(h, f.cur)
  BY <1>1 DEF Keeps, IsTerminated
<1>4. BlockCount(h) = BlockCount(f) + (m + n) /\ BlockCount(f) <= BlockCount(h)
  BY <1>1
<1> QED BY <1>1, <1>2, <1>3, <1>4 DEF Leads, Keeps

LEMMA Closers ==
    ASSUME NEW n \in Nat, NEW b \in 1..n, NEW c \in 1..n, NEW e \in Nat
    PROVE  /\ Closer(Goto(b), n) /\ Closer(Branch(e, b, c), n)
           /\ Closer(Call(e, b), n) /\ Closer(Return, n)
<1>1. <<b>> \in Seq(Block) /\ <<b, c>> \in Seq(Block) /\ <<>> \in Seq(Block)
      /\ <<>> \in Seq(Int)
  BY DEF Block
<1> QED
  BY <1>1 DEF Closer, Goto, Branch, Call, Return, Terminator, TermSet, TermKinds,
              Successors

\* `new_block`, n times: the new blocks wait.
LEMMA Alloc ==
    ASSUME NEW f, NEW W, NEW n \in Nat, Sound(f, W)
    PROVE  Leads(f, NewBlocks(f, n), n, W \cup Fresh(f, n))
<1> DEFINE g == NewBlocks(f, n)
           s == [i \in 1..n |-> Open]
<1>1. f \in Builder BY DEF Sound
<1>2. s \in Seq(TermSet) /\ Len(s) = n /\ \A i \in 1..n : s[i] = Open
  BY OpenIsTerm, IsASeq
<1>3. g = [term |-> f.term \o s, cur |-> f.cur, terminated |-> f.terminated]
  BY DEF NewBlocks
<1> HIDE DEF g, s
<1>4. /\ g.term \in Seq(TermSet) /\ BlockCount(g) = BlockCount(f) + n
      /\ \A i \in 1..BlockCount(f) : g.term[i] = f.term[i]
      /\ \A i \in Fresh(f, n) : g.term[i] = Open
  BY <1>1, <1>2, <1>3, TermLen, ConcatProperties DEF Fresh, BlockCount
<1>5. g \in Builder /\ g.cur = f.cur /\ g.terminated = f.terminated
  BY <1>1, <1>3, <1>4, TermLen DEF Builder
<1>6. Fresh(f, n) \cap 1..BlockCount(f) = {}
      /\ 1..BlockCount(g) = 1..BlockCount(f) \cup Fresh(f, n)
  BY <1>1, <1>4, TermLen DEF Fresh
<1>7. Keeps(f, g)
  BY <1>1, <1>4, <1>5, TermLen DEF Keeps
<1>8. TargetsOK(g)
  BY <1>4, <1>6, OpenIsTerm DEF TargetsOK, Sound
<1>9. \A b \in 1..BlockCount(g) : ~IsTerminated(g, b) <=>
         b \in Held(g) \cup (W \cup Fresh(f, n))
  BY <1>1, <1>4, <1>5, <1>6, TermLen DEF Sound, IsTerminated, Held
<1>10. Sound(g, W \cup Fresh(f, n))
  BY <1>1, <1>4, <1>5, <1>6, <1>8, <1>9, TermLen DEF Sound, IsTerminated
<1> QED BY <1>4, <1>7, <1>10 DEF g, Leads

\* `terminate`: the current block is closed, unless it was.
LEMMA Close ==
    ASSUME NEW f, NEW W, NEW t, Sound(f, W), Closer(t, BlockCount(f))
    PROVE  Leads(f, Terminate(f, t), 0, W) /\ Terminate(f, t).terminated
<1> DEFINE g == Terminate(f, t)
<1>1. f \in Builder /\ t \in TermSet /\ t # Open
  BY OpenIsTerm DEF Sound, Closer
<1>2. CASE f.terminated
  BY <1>1, <1>2, KeepsRefl, TermLen DEF Terminate, Leads
<1>3. CASE ~f.terminated
  <2>1. g = [term |-> [f.term EXCEPT ![f.cur] = t], cur |-> f.cur, terminated |-> TRUE]
    BY <1>3 DEF Terminate
  <2> HIDE DEF g
  <2>2. f.cur \in 1..BlockCount(f)
    BY DEF Sound
  <2>3. /\ g.term \in Seq(TermSet) /\ BlockCount(g) = BlockCount(f)
        /\ \A i \in 1..BlockCount(f) : g.term[i] = IF i = f.cur THEN t ELSE f.term[i]
    BY <1>1, <2>1, <2>2, TermLen, ExceptSeq DEF BlockCount
  <2>4. g \in Builder /\ g.cur = f.cur /\ g.terminated
    BY <1>1, <2>1, <2>3, TermLen DEF Builder
  <2>5. Keeps(f, g)
    BY <1>1, <1>3, <2>2, <2>3, <2>4, TermLen DEF Keeps, Sound, IsTerminated
  <2>6. TargetsOK(g)
    BY <1>1, <2>3 DEF TargetsOK, Sound, Closer
  <2>7. \A b \in 1..BlockCount(g) : ~IsTerminated(g, b) <=> b \in Held(g) \cup W
    BY <1>1, <1>3, <2>2, <2>3, <2>4 DEF Sound, IsTerminated, Held
  <2>8. Sound(g, W)
    BY <1>1, <2>2, <2>3, <2>4, <2>6, <2>7 DEF Sound, IsTerminated
  <2> QED BY <1>1, <2>3, <2>4, <2>5, <2>8, TermLen DEF g, Leads
<1> QED BY <1>2, <1>3

\* `switch_to` a block that waits, from one that is closed.
LEMMA Switching ==
    ASSUME NEW f, NEW W, NEW b, b \in W, Sound(f, W), f.terminated
    PROVE  Leads(f, SwitchTo(f, b), 0, W \ {b})
<1> DEFINE g == SwitchTo(f, b)
<1>1. f \in Builder /\ b \in 1..BlockCount(f) BY DEF Sound
<1>2. g = [term |-> f.term, cur |-> b, terminated |-> FALSE]
  BY DEF SwitchTo
<1> HIDE DEF g
<1>3. /\ g \in Builder /\ g.term = f.term /\ g.cur = b /\ ~g.terminated
      /\ BlockCount(g) = BlockCount(f)
  BY <1>1, <1>2, TermLen DEF Builder, Block, BlockCount
<1>4. Keeps(f, g)
  BY <1>1, <1>3, TermLen DEF Keeps, IsTerminated, Sound
<1>5. Sound(g, W \ {b})
  <2>1. ~IsTerminated(f, b) BY <1>1 DEF Sound
  <2>2. \A c \in 1..BlockCount(f) : ~IsTerminated(f, c) <=> c \in W
    BY DEF Sound, Held
  <2> QED BY <1>1, <1>3, <2>1, <2>2 DEF Sound, IsTerminated, Held, TargetsOK
<1> QED BY <1>1, <1>3, <1>4, <1>5, TermLen DEF g, Leads

\* The common step: close the current block and go on in one that waits.
LEMMA GoOn ==
    ASSUME NEW f, NEW W, NEW t, NEW b, b \in W, Sound(f, W), Closer(t, BlockCount(f))
    PROVE  Leads(f, SwitchTo(Terminate(f, t), b), 0, W \ {b})
<1> DEFINE g == Terminate(f, t)
<1>1. Leads(f, g, 0, W) /\ g.terminated
  BY Close
<1> HIDE DEF g
<1>2. Leads(g, SwitchTo(g, b), 0, W \ {b})
  BY <1>1, Switching DEF Leads
<1>3. Leads(f, SwitchTo(g, b), 0 + 0, W \ {b})
  BY <1>1, <1>2, LeadsTrans
<1> QED BY <1>3 DEF g

\* The same after n new blocks.
LEMMA Move ==
    ASSUME NEW f, NEW W, NEW n \in Nat, NEW t, NEW b, b \in W \cup Fresh(f, n),
           Sound(f, W), Closer(t, BlockCount(f) + n)
    PROVE  Leads(f, SwitchTo(Terminate(NewBlocks(f, n), t), b), n,
                 (W \cup Fresh(f, n)) \ {b})
<1> DEFINE g == NewBlocks(f, n)
           V == W \cup Fresh(f, n)
<1>1. Leads(f, g, n, V)
  BY Alloc
<1>2. Closer(t, BlockCount(g)) /\ b \in V
  BY <1>1 DEF Leads
<1> HIDE DEF g, V
<1>3. Sound(g, V)
  BY <1>1 DEF Leads
<1>4. Leads(g, SwitchTo(Terminate(g, t), b), 0, V \ {b})
  BY <1>2, <1>3, GoOn
<1>5. Leads(f, SwitchTo(Terminate(g, t), b), n + 0, V \ {b})
  BY <1>1, <1>4, LeadsTrans
<1> QED BY <1>5 DEF g, V

\* One new block, entered at once: what waits is unchanged.
LEMMA Detour ==
    ASSUME NEW f, NEW W, NEW t, Sound(f, W), Closer(t, BlockCount(f) + 1)
    PROVE  Leads(f, SwitchTo(Terminate(NewBlocks(f, 1), t), BlockCount(f) + 1), 1, W)
<1> DEFINE b == BlockCount(f) + 1
<1>1. BlockCount(f) \in Nat /\ W \subseteq 1..BlockCount(f)
  BY SoundLen DEF Sound
<1>2. Fresh(f, 1) = {b} /\ b \notin W
  BY <1>1 DEF Fresh
<1>3. (W \cup Fresh(f, 1)) \ {b} = W /\ b \in W \cup Fresh(f, 1)
  BY <1>2
<1> HIDE DEF b
<1>4. Leads(f, SwitchTo(Terminate(NewBlocks(f, 1), t), b), 1, (W \cup Fresh(f, 1)) \ {b})
  BY <1>3, Move
<1> QED BY <1>3, <1>4 DEF b
=============================================================================
