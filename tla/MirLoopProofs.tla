--------------------------- MODULE MirLoopProofs ---------------------------
(***************************************************************************)
(* Theorems about the loops of a function body: loop_stack is the nesting  *)
(* of the bodies that lowering is in, and no terminator goes back to the   *)
(* entry block.                                                            *)
(*                                                                         *)
(* What the frames of the agenda say of a loop is true for as long as they *)
(* are there: its header is not one of the blocks that wait to be filled,  *)
(* and behind the end of the header it is closed.                          *)
(***************************************************************************)
EXTENDS MirLowerProofs, CountingProofs

\* The bodies that end in an agenda from place i on.
Depth(ag, i) == Count(ag, i, "loop_end")

\* The contexts are those of the bodies that end in the agenda, outermost first.
Nests(ag, loops) ==
    /\ Len(loops) = Depth(ag, 1)
    /\ \A i \in 1..Len(ag) :
        ag[i].op = "loop_end" => loops[Depth(ag, i)] = LoopCtx(ag[i].owes[1], ag[i].hdr)

\* Nothing goes to the entry block.
Onwards == {t \in TermSet : Entry \notin Successors(t)}
Clean(f) == f.term \in Seq(Onwards)

\* Every break and next stands in a loop that pushes a LoopCtx.
Disciplined == Features \cap {"stray", "fork_break"} = {}

LoopInv ==
    /\ Inv
    /\ Nests(agenda, loop_stack)
    /\ \A i \in 1..Len(loop_stack) :
        loop_stack[i].break_block # Entry /\ loop_stack[i].continue_block # Entry
    /\ Entry \notin Waits(agenda)
    /\ \A i \in 1..Len(agenda) :
        /\ agenda[i].hdr # Entry
        /\ agenda[i].op = "loop_test" => agenda[i].hdr \notin Waits(agenda)
        /\ agenda[i].op = "loop_end" => IsTerminated(fb, agenda[i].hdr)
    /\ Disciplined =>
        /\ Clean(fb)
        /\ \A i \in 1..Len(agenda) : agenda[i].op = "break_end" => Depth(agenda, i) > 0

-----------------------------------------------------------------------------
(* How many bodies end in an agenda                                        *)

LEMMA DepthIn ==
    ASSUME NEW ag, Len(ag) \in Nat, NEW i \in 1..Len(ag), ag[i].op = "loop_end"
    PROVE  Depth(ag, i) \in 1..Depth(ag, 1)
<1> DEFINE P(j) == Places(ag, j, "loop_end")
<1>1. i \in P(i) /\ P(i) \in SUBSET P(1) BY DEF Places
<1>2. /\ IsFiniteSet(P(1)) /\ IsFiniteSet(P(i))
      /\ Depth(ag, i) \in Nat /\ Depth(ag, 1) \in Nat
  BY CountType DEF Depth
<1>3. Depth(ag, i) <= Depth(ag, 1) BY <1>1, <1>2, FS_Subset DEF Depth, Count
<1>4. Depth(ag, i) # 0 BY <1>1, <1>2, FS_EmptySet DEF Depth, Count
<1> QED BY <1>2, <1>3, <1>4

LEMMA DepthShifts ==
    ASSUME NEW s, NEW t, Len(t) \in Nat, NEW k \in Nat, Len(s) = Len(t) + k,
           NEW i \in Nat \ {0}, \A j \in i..Len(t) : s[j + k] = t[j]
    PROVE  Depth(s, i + k) = Depth(t, i)
BY CountShifts DEF Depth

\* What is put on top without the end of a body.
LEMMA DepthOnTop ==
    ASSUME NEW s, Len(s) \in Nat, NEW k \in 0..Len(s),
           \A j \in 1..k : s[j].op # "loop_end"
    PROVE  Depth(s, 1) = Depth(s, k + 1)
<1>1. Places(s, 1, "loop_end") = Places(s, k + 1, "loop_end") BY DEF Places
<1> QED BY <1>1 DEF Depth, Count

\* Frames put on top, none of them the end of a body.
LEMMA NestsOnTop ==
    ASSUME NEW S, NEW fs \in Seq(S), NEW ag \in Seq(S), NEW loops, Nests(ag, loops),
           \A j \in 1..Len(fs) : fs[j].op # "loop_end"
    PROVE  /\ Nests(fs \o ag, loops)
           /\ \A i \in 1..Len(ag) : Depth(fs \o ag, i + Len(fs)) = Depth(ag, i)
<1> DEFINE s == fs \o ag
           k == Len(fs)
<1>1. /\ k \in Nat /\ Len(ag) \in Nat /\ Len(s) = Len(ag) + k
      /\ \A j \in 1..k : s[j] = fs[j]
      /\ \A j \in 1..Len(ag) : s[j + k] = ag[j]
  BY Parts
<1> HIDE DEF s, k
<1>2. ASSUME NEW i \in Nat \ {0} PROVE Depth(s, i + k) = Depth(ag, i)
  <2>1. \A j \in i..Len(ag) : s[j + k] = ag[j] BY <1>1
  <2> QED BY <2>1, <1>1, DepthShifts
<1>3. Depth(s, 1) = Depth(ag, 1)
  <2>1. k \in 0..Len(s) /\ \A j \in 1..k : s[j].op # "loop_end" BY <1>1 DEF k
  <2>2. Len(s) \in Nat BY <1>1
  <2>3. Depth(s, 1) = Depth(s, k + 1) BY <2>1, <2>2, DepthOnTop
  <2>4. k + 1 = 1 + k BY <1>1
  <2> QED BY <2>3, <2>4, <1>2
<1>4. ASSUME NEW i \in 1..Len(s), s[i].op = "loop_end"
      PROVE  loops[Depth(s, i)] = LoopCtx(s[i].owes[1], s[i].hdr)
  <2>1. i \notin 1..k BY <1>1, <1>4 DEF k
  <2>2. i - k \in 1..Len(ag) /\ (i - k) + k = i /\ i - k \in Nat \ {0} BY <2>1, <1>1
  <2>3. s[i] = ag[i - k] /\ Depth(s, i) = Depth(ag, i - k) BY <2>2, <1>1, <1>2
  <2> QED BY <2>2, <2>3, <1>4 DEF Nests
<1> QED BY <1>1, <1>2, <1>3, <1>4, SMTT(30) DEF Nests, s, k

\* The head is taken off: a call that does not end a body, ...
LEMMA TailParts ==
    ASSUME NEW ag \in Seq(FrameSet), ag # <<>>
    PROVE  /\ Tail(ag) \in Seq(FrameSet) /\ Head(ag) = ag[1] /\ Len(ag) \in Nat \ {0}
           /\ Len(Tail(ag)) \in Nat /\ Len(ag) = Len(Tail(ag)) + 1
           /\ \A i \in 1..Len(Tail(ag)) : ag[i + 1] = Tail(ag)[i]
           /\ \A i \in Nat \ {0} : Depth(ag, i + 1) = Depth(Tail(ag), i)
<1>1. /\ Tail(ag) \in Seq(FrameSet) /\ Head(ag) = ag[1] /\ Len(ag) \in Nat \ {0}
      /\ Len(Tail(ag)) \in Nat /\ Len(ag) = Len(Tail(ag)) + 1
      /\ \A i \in 1..Len(Tail(ag)) : ag[i + 1] = Tail(ag)[i]
  BY HeadTailProperties, EmptySeq
<1> DEFINE t == Tail(ag)
<1> HIDE DEF t
<1>2. ASSUME NEW i \in Nat \ {0} PROVE Depth(ag, i + 1) = Depth(t, i)
  <2>1. /\ \A j \in i..Len(t) : ag[j + 1] = t[j]
        /\ Len(t) \in Nat /\ Len(ag) = Len(t) + 1 /\ 1 \in Nat
    BY <1>1 DEF t
  <2> QED BY <2>1, DepthShifts
<1> QED BY <1>1, <1>2 DEF t

LEMMA NestsTail ==
    ASSUME NEW ag \in Seq(FrameSet), ag # <<>>, NEW loops, Nests(ag, loops),
           Head(ag).op # "loop_end"
    PROVE  Nests(Tail(ag), loops)
<1> DEFINE t == Tail(ag)
<1>1. /\ Head(ag) = ag[1] /\ Len(ag) \in Nat \ {0} /\ Len(t) \in Nat /\ Len(ag) = Len(t) + 1
      /\ \A i \in 1..Len(t) : ag[i + 1] = t[i]
      /\ \A i \in Nat \ {0} : Depth(ag, i + 1) = Depth(t, i)
  BY TailParts
<1> HIDE DEF t
<1>2. Depth(t, 1) = Depth(ag, 1)
  <2>1. Depth(ag, 1) = Depth(ag, 1 + 1) + 0 BY <1>1, CountBehind, SMTT(30) DEF Depth
  <2>2. Depth(ag, 1 + 1) \in Nat BY <1>1, CountType DEF Depth
  <2> QED BY <2>1, <2>2, <1>1
<1>3. ASSUME NEW i \in 1..Len(t), t[i].op = "loop_end"
      PROVE  loops[Depth(t, i)] = LoopCtx(t[i].owes[1], t[i].hdr)
  <2>1. i + 1 \in 1..Len(ag) /\ ag[i + 1] = t[i] /\ Depth(ag, i + 1) = Depth(t, i) BY <1>1
  <2> QED BY <2>1, <1>3 DEF Nests
<1> QED BY <1>2, <1>3 DEF Nests, t

\* ... or one that does.
LEMMA NestsEnd ==
    ASSUME NEW ag \in Seq(FrameSet), ag # <<>>, NEW S, NEW loops \in Seq(S), Nests(ag, loops),
           Head(ag).op = "loop_end"
    PROVE  Nests(Tail(ag), SubSeq(loops, 1, Len(loops) - 1))
<1> DEFINE t == Tail(ag)
           fewer == SubSeq(loops, 1, Len(loops) - 1)
<1>1. /\ Head(ag) = ag[1] /\ Len(ag) \in Nat \ {0} /\ Len(t) \in Nat /\ Len(ag) = Len(t) + 1
      /\ \A i \in 1..Len(t) : ag[i + 1] = t[i]
      /\ \A i \in Nat \ {0} : Depth(ag, i + 1) = Depth(t, i)
  BY TailParts
<1> HIDE DEF t
<1>2. Len(loops) = Depth(t, 1) + 1 /\ Depth(t, 1) \in Nat
  <2>1. 1 \in 1..Len(ag) /\ Len(ag) \in Nat /\ ag[1].op = "loop_end" BY <1>1
  <2>2. Depth(ag, 1) = Depth(ag, 1 + 1) + 1 BY <2>1, CountBehind DEF Depth
  <2> QED BY <2>2, <1>1, CountType DEF Nests, Depth
<1>3. Len(fewer) = Depth(t, 1) /\ \A i \in 1..Depth(t, 1) : fewer[i] = loops[i]
  <2>1. Len(loops) \in Nat \ {0} /\ Len(loops) - 1 = Depth(t, 1) BY <1>2
  <2> QED BY <2>1, <1>2, SubSeqProperties
<1> HIDE DEF fewer
<1>4. ASSUME NEW i \in 1..Len(t), t[i].op = "loop_end"
      PROVE  fewer[Depth(t, i)] = LoopCtx(t[i].owes[1], t[i].hdr)
  <2>1. i + 1 \in 1..Len(ag) /\ ag[i + 1] = t[i] /\ Depth(ag, i + 1) = Depth(t, i) BY <1>1
  <2>2. Depth(t, i) \in 1..Depth(t, 1) BY <1>1, <1>4, DepthIn
  <2> QED BY <2>1, <2>2, <1>3, <1>4 DEF Nests
<1> QED BY <1>3, <1>4 DEF Nests, t, fewer

\* A body begins: the frame that ends it is put on the agenda.
LEMMA NestsBegin ==
    ASSUME NEW F, NEW ag \in Seq(F), NEW f \in F, f.op = "loop_end",
           NEW S, NEW loops \in Seq(S), Nests(ag, loops)
    PROVE  Nests(<<f>> \o ag, Append(loops, LoopCtx(f.owes[1], f.hdr)))
<1> DEFINE s == <<f>> \o ag
           ctx == LoopCtx(f.owes[1], f.hdr)
           more == Append(loops, ctx)
<1>1. <<f>> \in Seq(F) /\ Len(<<f>>) = 1 /\ <<f>>[1] = f OBVIOUS
<1>2. /\ Len(ag) \in Nat /\ Len(s) = Len(ag) + 1 /\ s[1] = f
      /\ \A j \in 1..Len(ag) : s[j + 1] = ag[j]
  BY <1>1, Parts
<1> HIDE DEF s
<1>3. ASSUME NEW i \in Nat \ {0} PROVE Depth(s, i + 1) = Depth(ag, i)
  <2>1. \A j \in i..Len(ag) : s[j + 1] = ag[j] BY <1>2
  <2> QED BY <2>1, <1>2, DepthShifts
<1>4. Len(loops) = Depth(ag, 1) /\ Depth(ag, 1) \in Nat BY <1>2, CountType DEF Nests, Depth
<1>5. Depth(s, 1) = Len(loops) + 1
  <2>1. Len(s) \in Nat /\ 1 \in 1..Len(s) BY <1>2
  <2>2. Depth(s, 1) = Depth(s, 1 + 1) + 1 BY <2>1, <1>2, CountBehind DEF Depth
  <2> QED BY <2>2, <1>3, <1>4
<1>6. /\ Len(more) = Len(loops) + 1 /\ more[Len(loops) + 1] = ctx
      /\ \A i \in 1..Len(loops) : more[i] = loops[i]
  <2>1. loops \in Seq(S \cup {ctx})
    <3>1. S \subseteq S \cup {ctx} OBVIOUS
    <3> QED BY <3>1
  <2> HIDE DEF ctx
  <2> QED BY <2>1, AppendProperties DEF more
<1> HIDE DEF more
<1>7. ASSUME NEW i \in 1..Len(s), s[i].op = "loop_end"
      PROVE  more[Depth(s, i)] = LoopCtx(s[i].owes[1], s[i].hdr)
  <2>1. CASE i = 1 BY <2>1, <1>2, <1>5, <1>6
  <2>2. CASE i # 1
    <3>1. i - 1 \in 1..Len(ag) /\ (i - 1) + 1 = i /\ i - 1 \in Nat \ {0} BY <2>2, <1>2
    <3>2. s[i] = ag[i - 1] /\ Depth(s, i) = Depth(ag, i - 1) BY <3>1, <1>2, <1>3
    <3>3. Depth(ag, i - 1) \in 1..Len(loops) BY <3>1, <3>2, <1>2, <1>4, <1>7, DepthIn
    <3> QED BY <3>1, <3>2, <3>3, <1>6, <1>7 DEF Nests
  <2> QED BY <2>1, <2>2
<1> QED BY <1>5, <1>6, <1>7 DEF Nests, s, more

-----------------------------------------------------------------------------
(* What a step leaves true                                                 *)

\* A block that does not wait never waits again, a closed one stays closed.
LEMMA StepFacts ==
    ASSUME Inv, Inv', Keeps(fb, fb')
    PROVE  /\ BlockCount(fb) \in Nat \ {0} /\ BlockCount(fb') \in Nat
           /\ \A b \in 1..BlockCount(fb) :
                /\ b \notin Waits(agenda) => b \notin Waits(agenda')
                /\ IsTerminated(fb, b) => IsTerminated(fb', b)
<1> DEFINE N == BlockCount(fb)
           M == BlockCount(fb')
           W == Waits(agenda)
           V == Waits(agenda')
<1>1. Sound(fb, W) /\ Sound(fb', V) BY DEF Inv
<1>2. N \in Nat \ {0} /\ M \in Nat /\ N <= M BY <1>1, SoundLen DEF Keeps
<1>3. ASSUME NEW b \in 1..N, IsTerminated(fb, b) PROVE IsTerminated(fb', b)
  BY <1>3 DEF Keeps, IsTerminated
<1> HIDE DEF N, M, W, V
<1>4. ASSUME NEW b \in 1..N, b \notin W PROVE b \notin V
  <2>1. b \in 1..M BY <1>2
  <2>2. b \in Held(fb) \/ IsTerminated(fb, b) BY <1>1, <1>4 DEF Sound, N
  <2>3. CASE IsTerminated(fb, b)
    <3>1. IsTerminated(fb', b) BY <1>3, <2>3
    <3> QED BY <3>1, <2>1, <1>1 DEF Sound, M
  <2>4. CASE b \in Held(fb)
    <3>1. b = fb.cur BY <2>4 DEF Held
    <3>2. fb'.cur = b \/ IsTerminated(fb', b) BY <3>1 DEF Keeps
    <3> QED BY <3>2, <2>1, <1>1 DEF Sound, M
  <2> QED BY <2>2, <2>3, <2>4
<1> QED BY <1>2, <1>3, <1>4 DEF N, M, W, V

\* The head has been replaced by fs.
LEMMA LoopStep ==
    ASSUME LoopInv, Inv', Keeps(fb, fb'), agenda # <<>>,
           NEW S, NEW fs \in Seq(S), Do(fs),
           Nests(agenda', loop_stack'),
           \A i \in 1..Len(loop_stack') :
                loop_stack'[i].break_block # Entry /\ loop_stack'[i].continue_block # Entry,
           Disciplined => Clean(fb'),
           \A i \in 1..Len(fs) :
                /\ fs[i].hdr # Entry
                /\ fs[i].op = "loop_test" => fs[i].hdr \notin Waits(agenda')
                /\ fs[i].op = "loop_end" => IsTerminated(fb', fs[i].hdr)
                /\ Disciplined /\ fs[i].op = "break_end" => Depth(agenda', i) > 0
    PROVE  LoopInv'
<1> DEFINE t == Tail(agenda)
           k == Len(fs)
<1>1. /\ t \in Seq(FrameSet) /\ Len(agenda) = Len(t) + 1 /\ Len(t) \in Nat
      /\ \A i \in 1..Len(t) : agenda[i + 1] = t[i]
      /\ \A i \in Nat \ {0} : Depth(agenda, i + 1) = Depth(t, i)
  <2>1. agenda \in Seq(FrameSet) BY DEF LoopInv, Inv, Tidy
  <2> QED BY <2>1, TailParts
<1> HIDE DEF t
<1>2. /\ k \in Nat /\ Len(agenda') = Len(t) + k
      /\ \A j \in 1..k : agenda'[j] = fs[j]
      /\ \A j \in 1..Len(t) : agenda'[j + k] = t[j]
  <2>1. fs \in Seq(S \cup FrameSet) /\ t \in Seq(S \cup FrameSet)
    <3>1. S \subseteq S \cup FrameSet /\ FrameSet \subseteq S \cup FrameSet OBVIOUS
    <3> QED BY <3>1, <1>1, SMTT(30)
  <2>2. agenda' = fs \o t BY DEF Do, t
  <2> QED BY <2>1, <2>2, Parts
<1> HIDE DEF k
<1>3. ASSUME NEW i \in Nat \ {0} PROVE Depth(agenda', i + k) = Depth(agenda, i + 1)
  <2>1. PICK s : s = agenda' OBVIOUS
  <2>2. \A j \in i..Len(t) : s[j + k] = t[j] BY <2>1, <1>2
  <2>3. Len(s) = Len(t) + k /\ k \in Nat /\ Len(t) \in Nat BY <2>1, <1>1, <1>2
  <2>4. Depth(s, i + k) = Depth(t, i) BY <2>2, <2>3, DepthShifts
  <2> QED BY <2>1, <2>4, <1>1
<1>4. Inv BY DEF LoopInv
<1>5. Entry \notin Waits(agenda')
  <2>1. Entry \in 1..BlockCount(fb) BY <1>4, StepFacts DEF Entry
  <2> QED BY <2>1, <1>4, StepFacts DEF LoopInv
<1>6. ASSUME NEW i \in 1..Len(agenda')
      PROVE  \/ i \in 1..k /\ agenda'[i] = fs[i]
             \/ \E j \in Nat \ {0} :
                   /\ j + 1 \in 1..Len(agenda) /\ i = j + k
                   /\ agenda'[i] = agenda[j + 1]
  <2>1. CASE i <= k BY <2>1, <1>2
  <2>2. CASE ~(i <= k)
    <3>1. PICK j : j = i - k OBVIOUS
    <3>2. j \in 1..Len(t) /\ i = j + k BY <3>1, <2>2, <1>2, <1>1
    <3>3. j + 1 \in 1..Len(agenda) /\ j \in Nat \ {0}
      <4>1. Len(agenda) = Len(t) + 1 /\ Len(t) \in Nat BY <1>1
      <4> QED BY <4>1, <3>2
    <3>4. agenda'[i] = agenda[j + 1] BY <3>2, <1>1, <1>2
    <3> QED BY <3>2, <3>3, <3>4
  <2> QED BY <2>1, <2>2
<1>7. ASSUME NEW i \in 1..Len(agenda')
      PROVE  /\ agenda'[i].hdr # Entry
             /\ agenda'[i].op = "loop_test" => agenda'[i].hdr \notin Waits(agenda')
             /\ agenda'[i].op = "loop_end" => IsTerminated(fb', agenda'[i].hdr)
             /\ Disciplined /\ agenda'[i].op = "break_end" => Depth(agenda', i) > 0
  <2>1. CASE i \in 1..k /\ agenda'[i] = fs[i] BY <2>1 DEF k
  <2>2. ASSUME NEW j \in Nat \ {0}, j + 1 \in 1..Len(agenda), i = j + k,
               agenda'[i] = agenda[j + 1]
        PROVE  <1>7!2
    <3> DEFINE f == agenda[j + 1]
    <3>1. /\ f.hdr # Entry
          /\ f.op = "loop_test" => f.hdr \notin Waits(agenda)
          /\ f.op = "loop_end" => IsTerminated(fb, f.hdr)
          /\ Disciplined /\ f.op = "break_end" => Depth(agenda, j + 1) > 0
      BY <2>2 DEF LoopInv
    <3>2. f.op \in {"loop_test", "loop_end"} => f.hdr \in 1..BlockCount(fb)
      <4>1. FrameOK(f, BlockCount(fb)) BY <2>2 DEF LoopInv, Inv, Tidy
      <4> QED BY <4>1 DEF FrameOK, Fits, FrameSet
    <3> HIDE DEF f
    <3>3. agenda'[i] = f BY <2>2 DEF f
    <3>4. Depth(agenda', i) = Depth(agenda, j + 1) BY <2>2, <1>3
    <3> QED BY <3>1, <3>2, <3>3, <3>4, <1>4, StepFacts
  <2> QED BY <2>1, <2>2, <1>6
<1> QED BY <1>5, <1>7 DEF LoopInv, Disciplined

-----------------------------------------------------------------------------
(* Steps that neither begin nor end a loop                                 *)

\* A frame that says nothing of a loop, and a list of them.
Quiet(f) == f.op \notin {"loop_end", "loop_test", "break_end"} /\ f.hdr # Entry
Calm(fs) == \E S : fs \in Seq(S) /\ \A f \in S : Quiet(f)

LEMMA NestsStill ==
    ASSUME LoopInv, agenda # <<>>, Top.op # "loop_end", NEW S, NEW fs \in Seq(S), Do(fs),
           \A i \in 1..Len(fs) : fs[i].op # "loop_end", UNCHANGED loop_stack
    PROVE  Nests(agenda', loop_stack')
<1>1. agenda \in Seq(FrameSet) /\ Nests(agenda, loop_stack) BY DEF LoopInv, Inv, Tidy
<1>2. Nests(Tail(agenda), loop_stack) BY <1>1, NestsTail DEF Top
<1>3. fs \in Seq(S \cup FrameSet) /\ Tail(agenda) \in Seq(S \cup FrameSet)
  <2>1. S \subseteq S \cup FrameSet /\ FrameSet \subseteq S \cup FrameSet OBVIOUS
  <2>2. Tail(agenda) \in Seq(FrameSet) BY <1>1, TailParts
  <2> QED BY <2>1, <2>2
<1>4. Nests(fs \o Tail(agenda), loop_stack) BY <1>2, <1>3, NestsOnTop
<1> QED BY <1>4 DEF Do

LEMMA CalmStep ==
    ASSUME LoopInv, Inv', Keeps(fb, fb'), agenda # <<>>, Top.op # "loop_end",
           NEW fs, Calm(fs), Do(fs), UNCHANGED loop_stack,
           Disciplined => Clean(fb')
    PROVE  LoopInv'
<1>1. PICK S : fs \in Seq(S) /\ \A f \in S : Quiet(f) BY DEF Calm
<1>2. \A i \in 1..Len(fs) : Quiet(fs[i]) BY <1>1, LenProperties
<1>3. Nests(agenda', loop_stack') BY <1>1, <1>2, NestsStill DEF Quiet
<1>4. \A i \in 1..Len(loop_stack') :
        loop_stack'[i].break_block # Entry /\ loop_stack'[i].continue_block # Entry
  BY DEF LoopInv
<1> QED BY <1>1, <1>2, <1>3, <1>4, LoopStep DEF Quiet

LEMMA CalmNone == Calm(<<>>)
<1>1. PICK S : S = {} OBVIOUS
<1>2. <<>> \in Seq(S) /\ \A f \in S : Quiet(f) BY <1>1
<1> QED BY <1>2 DEF Calm

LEMMA CalmAppend ==
    ASSUME NEW fs, Calm(fs), NEW f, Quiet(f)
    PROVE  Calm(Append(fs, f))
<1>1. PICK S : fs \in Seq(S) /\ \A g \in S : Quiet(g) BY DEF Calm
<1>2. fs \in Seq(S \cup {f})
  <2>1. S \subseteq S \cup {f} OBVIOUS
  <2> QED BY <2>1, <1>1
<1>3. Append(fs, f) \in Seq(S \cup {f}) BY <1>2, AppendProperties
<1> QED BY <1>1, <1>3 DEF Calm

LEMMA CalmOne == ASSUME NEW f, Quiet(f) PROVE Calm(<<f>>)
<1>1. Calm(Append(<<>>, f)) BY CalmNone, CalmAppend
<1> QED BY <1>1, OneFrame

LEMMA CalmTwo == ASSUME NEW f, Quiet(f), NEW g, Quiet(g) PROVE Calm(<<f, g>>)
<1>1. Calm(Append(<<f>>, g)) BY CalmOne, CalmAppend
<1> QED BY <1>1, TwoFrames

LEMMA QuietThen ==
    ASSUME NEW op, op \notin {"loop_end", "loop_test", "break_end"}, NEW e, NEW node
    PROVE  Quiet(Then(op, e, node))
BY DEF Quiet, Then, Frame, Entry

LEMMA QuietLower == \A e : Quiet(LowerExpr(e)) /\ Quiet(LowerStmt(e))
BY DEF LowerExpr, LowerStmt, Quiet, Then, Frame, Entry

LEMMA CalmAll ==
    ASSUME NEW es, Len(es) \in Nat
    PROVE  Calm(LowerAll(es))
<1> DEFINE S == {LowerExpr(es[i]) : i \in 1..Len(es)}
<1>1. LowerAll(es) \in Seq(S) BY IsASeq DEF LowerAll
<1> QED BY <1>1, QuietLower DEF Calm

LEMMA CalmKids == ASSUME Inv, NEW n \in Nat PROVE Calm(LowerAll(NewKids(n)))
<1>1. Len(NewKids(n)) \in Nat BY NewKidsOK DEF Inv
<1> QED BY <1>1, CalmAll

\* The rest of the call at the head.
LEMMA QuietRest ==
    ASSUME LoopInv, agenda # <<>>
    PROVE  /\ \A op, owes : op \notin {"loop_end", "loop_test", "break_end"}
                              => Quiet(Rest(op, owes))
           /\ \A owes : Top.op \notin {"loop_end", "loop_test", "break_end"}
                              => Quiet(Onward(owes))
           /\ Top.hdr # Entry
<1>1. Top.hdr # Entry
  <2>1. agenda \in Seq(FrameSet) BY DEF LoopInv, Inv, Tidy
  <2>2. Top = agenda[1] /\ 1 \in 1..Len(agenda) BY <2>1, TailParts DEF Top
  <2> QED BY <2>2 DEF LoopInv
<1> QED BY <1>1 DEF Quiet, Rest, Onward, Frame

\* Reading a node that is not a loop, break or next, and the steps that only
\* put the children of a node on the agenda.
LEMMA DescentIsCalm ==
    ASSUME LoopInv,
           \/ VisitOperands \/ VisitCall \/ VisitBlock \/ VisitIf \/ VisitGuard \/ VisitDefer
           \/ VisitMatch \/ VisitForkLoop \/ VisitReturn \/ NextStmt \/ BlockTail \/ SkipStmt
    PROVE  /\ \E fs : Calm(fs) /\ Do(fs)
           /\ UNCHANGED <<fb, loop_stack>>
           /\ agenda # <<>> /\ Top.op # "loop_end"
<1> DEFINE Goal == /\ \E fs : Calm(fs) /\ Do(fs)
                   /\ UNCHANGED <<fb, loop_stack>>
                   /\ agenda # <<>> /\ Top.op # "loop_end"
<1>i. Inv BY DEF LoopInv
<1>r. Reading => agenda # <<>> /\ Top.op # "loop_end" BY DEF Reading, Running
<1>s. Running("stmt") /\ ~fb.terminated => Reading BY DEF Reading
<1>1. CASE VisitOperands
  <2>1. PICK n \in 0..MaxOperands : Reading /\ Do(LowerAll(NewKids(n))) BY <1>1 DEF VisitOperands
  <2>2. n \in Nat BY ConstantsAssumption
  <2> QED BY <2>1, <2>2, <1>1, <1>i, <1>r, CalmKids DEF VisitOperands
<1>2. CASE VisitCall
  <2>1. PICK n \in 1..MaxOperands :
          Reading /\ Do(Append(LowerAll(NewKids(n)), Then("call_end", Top.e, Leaf)))
    BY <1>2 DEF VisitCall
  <2>2. n \in Nat BY ConstantsAssumption
  <2>3. Calm(Append(LowerAll(NewKids(n)), Then("call_end", Top.e, Leaf)))
    BY <2>2, <1>i, CalmKids, CalmAppend, QuietThen
  <2> QED BY <2>1, <2>3, <1>2, <1>r DEF VisitCall
<1>3. CASE VisitBlock
  <2>1. PICK node : Reading /\ Do(<<Then("stmts", Top.e, node)>>) BY <1>3 DEF VisitBlock
  <2>2. Calm(<<Then("stmts", Top.e, node)>>) BY CalmOne, QuietThen
  <2> QED BY <2>1, <2>2, <1>3, <1>r DEF VisitBlock
<1>4. CASE VisitIf
  <2>1. PICK node : Reading /\ Do(<<LowerExpr(node.kids[1]), Then("if_branch", Top.e, node)>>)
    BY <1>4 DEF VisitIf
  <2>2. Calm(<<LowerExpr(node.kids[1]), Then("if_branch", Top.e, node)>>)
    BY CalmTwo, QuietThen, QuietLower
  <2> QED BY <2>1, <2>2, <1>4, <1>r DEF VisitIf
<1>5. CASE VisitGuard
  <2>1. PICK node : Do(<<LowerExpr(node.kids[1]), Then("guard_test", Top.e, node)>>)
    BY <1>5 DEF VisitGuard
  <2>2. Calm(<<LowerExpr(node.kids[1]), Then("guard_test", Top.e, node)>>)
    BY CalmTwo, QuietThen, QuietLower
  <2> QED BY <2>1, <2>2, <1>5, <1>r, <1>s DEF VisitGuard
<1>6. CASE VisitDefer
  <2>1. Do(LowerAll(NewKids(1))) BY <1>6 DEF VisitDefer
  <2>2. Calm(LowerAll(NewKids(1))) BY <1>i, CalmKids
  <2> QED BY <2>1, <2>2, <1>6, <1>r, <1>s DEF VisitDefer
<1>7. CASE VisitMatch
  <2>1. PICK node :
          Reading /\ Do(<<LowerExpr(node.kids[1]), Then("match_switch", Top.e, node)>>)
    BY <1>7 DEF VisitMatch
  <2>2. Calm(<<LowerExpr(node.kids[1]), Then("match_switch", Top.e, node)>>)
    BY CalmTwo, QuietThen, QuietLower
  <2> QED BY <2>1, <2>2, <1>7, <1>r DEF VisitMatch
<1>8. CASE VisitForkLoop
  <2>1. PICK node :
          Reading /\ Do(<<LowerExpr(node.kids[2]), Then("fork_head", Top.e, node)>>)
    BY <1>8 DEF VisitForkLoop
  <2>2. Calm(<<LowerExpr(node.kids[2]), Then("fork_head", Top.e, node)>>)
    BY CalmTwo, QuietThen, QuietLower
  <2> QED BY <2>1, <2>2, <1>8, <1>r DEF VisitForkLoop
<1>9. CASE VisitReturn
  <2>1. PICK n \in {0, 1} :
          Reading /\ Do(Append(LowerAll(NewKids(n)), Then("ret_end", Top.e, Leaf)))
    BY <1>9 DEF VisitReturn
  <2>2. Calm(Append(LowerAll(NewKids(n)), Then("ret_end", Top.e, Leaf)))
    BY <1>i, CalmKids, CalmAppend, QuietThen
  <2> QED BY <2>1, <2>2, <1>9, <1>r DEF VisitReturn
<1>10. CASE NextStmt
  <2>1. agenda # <<>> /\ Top.op \in {"stmts", "fn_stmts"} BY <1>10 DEF NextStmt, Running
  <2>2. Do(<<LowerStmt(Kid(Top.at)), Onward(<<>>)>>) BY <1>10 DEF NextStmt
  <2>3. Quiet(Onward(<<>>)) BY <2>1, QuietRest
  <2>4. Calm(<<LowerStmt(Kid(Top.at)), Onward(<<>>)>>) BY <2>3, CalmTwo, QuietLower
  <2> QED BY <2>1, <2>2, <2>4, <1>10 DEF NextStmt
<1>11. CASE BlockTail
  <2>1. agenda # <<>> /\ Top.op = "stmts" BY <1>11 DEF BlockTail, Running
  <2>2. Do(<<LowerExpr(TailExpr)>>) \/ Do(<<>>) BY <1>11 DEF BlockTail
  <2>3. Calm(<<LowerExpr(TailExpr)>>) /\ Calm(<<>>) BY CalmOne, CalmNone, QuietLower
  <2> QED BY <2>1, <2>2, <2>3, <1>11 DEF BlockTail
<1>12. CASE SkipStmt
  <2>1. agenda # <<>> /\ Top.op = "stmt" BY <1>12 DEF SkipStmt, Running
  <2> QED BY <2>1, <1>12, CalmNone DEF SkipStmt
<1> QED BY <1>1, <1>2, <1>3, <1>4, <1>5, <1>6, <1>7, <1>8, <1>9, <1>10, <1>11, <1>12

LEMMA DescentStep ==
    ASSUME LoopInv, Inv', Keeps(fb, fb'),
           \/ VisitOperands \/ VisitCall \/ VisitBlock \/ VisitIf \/ VisitGuard \/ VisitDefer
           \/ VisitMatch \/ VisitForkLoop \/ VisitReturn \/ NextStmt \/ BlockTail \/ SkipStmt
    PROVE  LoopInv'
<1>1. PICK fs : Calm(fs) /\ Do(fs) BY DescentIsCalm
<1>2. UNCHANGED <<fb, loop_stack>> /\ agenda # <<>> /\ Top.op # "loop_end" BY DescentIsCalm
<1>3. Disciplined => Clean(fb') BY <1>2 DEF LoopInv
<1> QED BY <1>1, <1>2, <1>3, CalmStep

-----------------------------------------------------------------------------
(* Terminators that go to other blocks than the entry                      *)

LEMMA CleanNew ==
    ASSUME NEW f, Clean(f), NEW n \in Nat
    PROVE  Clean(NewBlocks(f, n))
<1>1. Open \in Onwards BY OpenIsTerm DEF Onwards
<1>2. [i \in 1..n |-> Open] \in Seq(Onwards) BY <1>1, IsASeq
<1> QED BY <1>2, ConcatProperties DEF Clean, NewBlocks

LEMMA CleanSwitch == ASSUME NEW f, Clean(f), NEW b PROVE Clean(SwitchTo(f, b))
BY DEF Clean, SwitchTo

LEMMA CleanClose ==
    ASSUME NEW f, Clean(f), NEW t \in Onwards
    PROVE  Clean(Terminate(f, t))
<1>1. [f.term EXCEPT ![f.cur] = t] \in Seq(Onwards)
  <2>1. f.term \in [1..Len(f.term) -> Onwards] /\ Len(f.term) \in Nat BY LenProperties DEF Clean
  <2>2. [f.term EXCEPT ![f.cur] = t] \in [1..Len(f.term) -> Onwards] BY <2>1
  <2> QED BY <2>1, <2>2
<1> QED BY <1>1 DEF Clean, Terminate

\* Later blocks than the entry.
Later == Block \ {Entry}

LEMMA OnwardTerms ==
    /\ Return \in Onwards
    /\ \A b \in Later : Goto(b) \in Onwards
    /\ \A e \in Nat, b \in Later : Call(e, b) \in Onwards
    /\ \A e \in Nat, b \in Later, c \in Later : Branch(e, b, c) \in Onwards
<1>1. <<>> \in Seq(Block) /\ <<>> \in Seq(Int) /\ DOMAIN <<>> = {} OBVIOUS
<1>2. Return \in Onwards
  BY <1>1 DEF Onwards, Return, Terminator, TermSet, TermKinds, Successors
<1>3. ASSUME NEW b \in Later PROVE Goto(b) \in Onwards
  <2>1. <<b>> \in Seq(Block) /\ DOMAIN <<b>> = {1} /\ <<b>>[1] # Entry BY DEF Later
  <2> QED BY <1>1, <2>1 DEF Onwards, Goto, Terminator, TermSet, TermKinds, Successors
<1>4. ASSUME NEW e \in Nat, NEW b \in Later PROVE Call(e, b) \in Onwards
  <2>1. <<b>> \in Seq(Block) /\ DOMAIN <<b>> = {1} /\ <<b>>[1] # Entry BY DEF Later
  <2> QED BY <1>1, <2>1 DEF Onwards, Call, Terminator, TermSet, TermKinds, Successors
<1>5. ASSUME NEW e \in Nat, NEW b \in Later, NEW c \in Later PROVE Branch(e, b, c) \in Onwards
  <2>1. <<b, c>> \in Seq(Block) /\ DOMAIN <<b, c>> = {1, 2}
        /\ <<b, c>>[1] # Entry /\ <<b, c>>[2] # Entry
    BY DEF Later
  <2> QED BY <1>1, <2>1 DEF Onwards, Branch, Terminator, TermSet, TermKinds, Successors
<1> QED BY <1>2, <1>3, <1>4, <1>5

LEMMA SwitchOnward ==
    ASSUME NEW e \in Nat, NEW arms \in Seq(ArmSet), NEW j \in Later
    PROVE  SwitchOn(e, arms, j) \in Onwards
<1> DEFINE n == Len(arms)
           o == j + n
           to == [i \in 1..n |-> IF Known(arms[i]) THEN j + i ELSE o]
<1>1. n \in Nat /\ j \in Nat \ {0} /\ j > 1 BY LenProperties DEF Later, Block, Entry
<1>2. SwitchOn(e, arms, j) \in TermSet BY <1>1, SwitchCloses DEF Closer
<1>3. SwitchOn(e, arms, j).to = Append(to, o) BY DEF SwitchOn, Switch, Terminator
<1>4. o \in Later /\ \A i \in 1..n : j + i \in Later BY <1>1 DEF Later, Block, Entry
<1>5. to \in Seq(Later)
  <2>1. \A i \in 1..n : (IF Known(arms[i]) THEN j + i ELSE o) \in Later BY <1>4
  <2> HIDE DEF n, o
  <2> QED BY <1>1, <2>1, IsASeq
<1> HIDE DEF n, o, to
<1>6. Append(to, o) \in Seq(Later) BY <1>4, <1>5, AppendProperties
<1>7. \A i \in DOMAIN Append(to, o) : Append(to, o)[i] # Entry
  BY <1>6, LenProperties DEF Later
<1> QED BY <1>2, <1>3, <1>7 DEF Onwards, Successors

LEMMA LaterBlocks ==
    ASSUME LoopInv, agenda # <<>>
    PROVE  /\ NextBlock(fb) \in Later
           /\ \A k \in Nat : NextBlock(fb) + k \in Later
           /\ \A i \in 1..Len(Top.owes) : Top.owes[i] \in Later
           /\ Top.hdr >= 1 => Top.hdr \in Later
<1>1. Inv BY DEF LoopInv
<1>2. BlockCount(fb) \in Nat \ {0} BY <1>1, TopOK
<1>3. \A i \in 1..Len(Top.owes) : Top.owes[i] \in Later
  <2>1. Top.owes \in Seq(Block) /\ OwedBy(Top) \subseteq Waits(agenda) BY <1>1, TopOK
  <2>2. Entry \notin Waits(agenda) BY DEF LoopInv
  <2> QED BY <2>1, <2>2, LenProperties DEF OwedBy, Later
<1>4. Top.hdr >= 1 => Top.hdr \in Later
  BY <1>1, TopOK, QuietRest DEF Later, Block
<1> QED BY <1>2, <1>3, <1>4 DEF NextBlock, Later, Block, Entry

-----------------------------------------------------------------------------
(* Steps that close and fill blocks                                        *)

LEMMA CallEndLoop == LoopInv /\ Inv' /\ Keeps(fb, fb') /\ CallEnd => LoopInv'
<1> SUFFICES ASSUME LoopInv, Inv', Keeps(fb, fb'), CallEnd PROVE LoopInv'
  OBVIOUS
<1>1. agenda # <<>> /\ Top.op # "loop_end" BY DEF CallEnd, Running
<1>2. Call(Top.e, NextBlock(fb)) \in Onwards
  <2>1. Top.e \in Nat BY <1>1, TopOK DEF LoopInv
  <2> QED BY <2>1, <1>1, LaterBlocks, OnwardTerms
<1>3. Disciplined => Clean(fb')
  BY <1>2, CleanNew, CleanClose, CleanSwitch DEF CallEnd, LoopInv
<1> QED BY <1>1, <1>3, CalmNone, CalmStep DEF CallEnd

LEMMA ReturnsLoop ==
    LoopInv /\ Inv' /\ Keeps(fb, fb') /\ (FnEnd \/ FnTail \/ ReturnEnd) => LoopInv'
<1> SUFFICES ASSUME LoopInv, Inv', Keeps(fb, fb'), FnEnd \/ FnTail \/ ReturnEnd PROVE LoopInv'
  OBVIOUS
<1>1. agenda # <<>> /\ Top.op # "loop_end" BY DEF FnEnd, FnTail, ReturnEnd, Running
<1>2. UNCHANGED loop_stack BY DEF FnEnd, FnTail, ReturnEnd
<1>3. fb' = fb \/ fb' = Terminate(fb, Return) BY DEF FnEnd, FnTail, ReturnEnd
<1>4. Disciplined => Clean(fb') BY <1>3, OnwardTerms, CleanClose DEF LoopInv
<1>5. Do(<<>>) \/ Do(<<LowerExpr(TailExpr), Then("fn_end", Top.e, Leaf)>>)
  BY DEF FnEnd, FnTail, ReturnEnd
<1>6. Calm(<<>>) /\ Calm(<<LowerExpr(TailExpr), Then("fn_end", Top.e, Leaf)>>)
  BY CalmNone, CalmTwo, QuietThen, QuietLower
<1> QED BY <1>1, <1>2, <1>4, <1>5, <1>6, CalmStep

LEMMA IfBranchLoop == LoopInv /\ Inv' /\ Keeps(fb, fb') /\ IfBranch => LoopInv'
<1> SUFFICES ASSUME LoopInv, Inv', Keeps(fb, fb'), IfBranch PROVE LoopInv'
  OBVIOUS
<1> DEFINE then_bb == NextBlock(fb)
           fs == <<LowerExpr(Kid(2)), Rest("if_then", <<then_bb + 1, then_bb + 2>>)>>
<1>1. agenda # <<>> /\ Top.op # "loop_end" BY DEF IfBranch, Running
<1>2. Branch(Top.e, then_bb, then_bb + 1) \in Onwards
  <2>1. Top.e \in Nat BY <1>1, TopOK DEF LoopInv
  <2> QED BY <2>1, <1>1, LaterBlocks, OnwardTerms
<1>3. Disciplined => Clean(fb')
  BY <1>2, CleanNew, CleanClose, CleanSwitch DEF IfBranch, LoopInv
<1>4. Calm(fs) BY <1>1, QuietRest, QuietLower, CalmTwo
<1>5. Do(fs) /\ UNCHANGED loop_stack BY DEF IfBranch
<1> QED BY <1>1, <1>3, <1>4, <1>5, CalmStep

LEMMA IfThenLoop == LoopInv /\ Inv' /\ Keeps(fb, fb') /\ IfThen => LoopInv'
<1> SUFFICES ASSUME LoopInv, Inv', Keeps(fb, fb'), IfThen PROVE LoopInv'
  OBVIOUS
<1> DEFINE join_bb == Top.owes[2]
           at_else == SwitchTo(Terminate(fb, Goto(join_bb)), Top.owes[1])
           fs == <<LowerExpr(Kid(3)), Rest("if_else", <<join_bb>>)>>
<1>1. agenda # <<>> /\ Top.op = "if_then" /\ Len(Top.owes) = 2
  <2>1. agenda # <<>> /\ Top.op = "if_then" BY DEF IfThen, Running
  <2>2. Fits(Top) BY <2>1, TopOK DEF LoopInv, FrameOK
  <2> QED BY <2>1, <2>2 DEF Fits, OwesOf
<1>2. Goto(join_bb) \in Onwards BY <1>1, LaterBlocks, OnwardTerms
<1>3. Disciplined => Clean(at_else) BY <1>2, CleanClose, CleanSwitch DEF LoopInv
<1> HIDE DEF at_else
<1>4. Disciplined => Clean(SwitchTo(Terminate(at_else, Goto(join_bb)), join_bb))
  BY <1>2, <1>3, CleanClose, CleanSwitch
<1>5. /\ fb' = at_else \/ fb' = SwitchTo(Terminate(at_else, Goto(join_bb)), join_bb)
      /\ Do(fs) \/ Do(<<>>)
      /\ UNCHANGED loop_stack
  BY DEF IfThen, at_else
<1>6. Calm(fs) /\ Calm(<<>>) BY <1>1, QuietRest, QuietLower, CalmTwo, CalmNone
<1>7. Disciplined => Clean(fb') BY <1>3, <1>4, <1>5
<1> QED BY <1>1, <1>5, <1>6, <1>7, CalmStep

LEMMA JoinLoop ==
    LoopInv /\ Inv' /\ Keeps(fb, fb') /\ (IfElse \/ GuardEnd) => LoopInv'
<1> SUFFICES ASSUME LoopInv, Inv', Keeps(fb, fb'), NEW op \in {"if_else", "guard_end"}, Join(op)
             PROVE  LoopInv'
  BY DEF IfElse, GuardEnd
<1>1. agenda # <<>> /\ Top.op = op /\ Len(Top.owes) = 1
  <2>1. agenda # <<>> /\ Top.op = op BY DEF Join, Running
  <2>2. Fits(Top) BY <2>1, TopOK DEF LoopInv, FrameOK
  <2> QED BY <2>1, <2>2 DEF Fits, OwesOf
<1>2. Goto(Top.owes[1]) \in Onwards BY <1>1, LaterBlocks, OnwardTerms
<1>3. Disciplined => Clean(fb') BY <1>2, CleanClose, CleanSwitch DEF LoopInv, Join
<1> QED BY <1>1, <1>3, CalmNone, CalmStep DEF Join

LEMMA GuardTestLoop == LoopInv /\ Inv' /\ Keeps(fb, fb') /\ GuardTest => LoopInv'
<1> SUFFICES ASSUME LoopInv, Inv', Keeps(fb, fb'), GuardTest PROVE LoopInv'
  OBVIOUS
<1> DEFINE else_bb == NextBlock(fb)
           fs == <<LowerExpr(Kid(2)), Rest("guard_end", <<else_bb + 1>>)>>
<1>1. agenda # <<>> /\ Top.op # "loop_end" BY DEF GuardTest, Running
<1>2. Branch(Top.e, else_bb + 1, else_bb) \in Onwards
  <2>1. Top.e \in Nat BY <1>1, TopOK DEF LoopInv
  <2> QED BY <2>1, <1>1, LaterBlocks, OnwardTerms
<1>3. Disciplined => Clean(fb')
  BY <1>2, CleanNew, CleanClose, CleanSwitch DEF GuardTest, LoopInv
<1>4. Calm(fs) BY <1>1, QuietRest, QuietLower, CalmTwo
<1>5. Do(fs) /\ UNCHANGED loop_stack BY DEF GuardTest
<1> QED BY <1>1, <1>3, <1>4, <1>5, CalmStep

LEMMA CalmArm == \A i : Calm(LowerArm(i))
<1> SUFFICES ASSUME NEW i PROVE Calm(LowerArm(i))
  OBVIOUS
<1> DEFINE g == LowerExpr(Kid(GuardKid(Top.node.arms, i)))
           b == LowerExpr(Kid(BodyKid(i)))
<1>1. Quiet(g) /\ Quiet(b) BY QuietLower
<1>2. LowerArm(i) = (IF Top.node.arms[i].guard THEN <<g>> ELSE <<>>) \o <<b>> BY DEF LowerArm
<1> HIDE DEF g, b
<1>3. <<g>> \o <<b>> = <<g, b>>
  <2>1. <<g>> \in Seq({g, b}) /\ b \in {g, b} OBVIOUS
  <2>2. Append(<<g>>, b) = <<g>> \o <<b>> BY <2>1, AppendIsConcat
  <2> QED BY <2>2, TwoFrames
<1>4. <<>> \o <<b>> = <<b>> OBVIOUS
<1>5. LowerArm(i) = <<g, b>> \/ LowerArm(i) = <<b>> BY <1>2, <1>3, <1>4
<1> QED BY <1>1, <1>5, CalmOne, CalmTwo

LEMMA MatchSwitchLoop == LoopInv /\ Inv' /\ Keeps(fb, fb') /\ MatchSwitch => LoopInv'
<1> SUFFICES ASSUME LoopInv, Inv', Keeps(fb, fb'), MatchSwitch PROVE LoopInv'
  OBVIOUS
<1> DEFINE arms == Top.node.arms
           n == Len(arms)
           join == NextBlock(fb)
           closed == Terminate(NewBlocks(fb, n + 1), SwitchOn(Top.e, arms, join))
           owes == Append([i \in 1..(n - 1) |-> join + 1 + i], join)
           fs == Append(LowerArm(1), Rest("match_arm", owes))
<1>1. agenda # <<>> /\ Top.op # "loop_end" /\ Top.op = "match_switch" BY DEF MatchSwitch, Running
<1>2. Top.e \in Nat /\ arms \in Seq(ArmSet) /\ n \in Nat BY <1>1, TopOK DEF LoopInv
<1>3. SwitchOn(Top.e, arms, join) \in Onwards
  <2>1. join \in Later BY <1>1, LaterBlocks
  <2> HIDE DEF arms, join
  <2> QED BY <2>1, <1>2, SwitchOnward
<1>4. Disciplined => Clean(closed)
  <2>1. n + 1 \in Nat BY <1>2
  <2> HIDE DEF n, join, arms
  <2> QED BY <2>1, <1>3, CleanNew, CleanClose DEF LoopInv
<1>5. /\ fb' = SwitchTo(closed, join) \/ fb' = SwitchTo(closed, join + 1)
      /\ Do(<<>>) \/ Do(fs)
      /\ UNCHANGED loop_stack
  BY DEF MatchSwitch
<1>6. Quiet(Rest("match_arm", owes))
  <2> HIDE DEF owes
  <2> QED BY <1>1, QuietRest
<1>7. Calm(<<>>) /\ Calm(fs)
  <2> HIDE DEF owes
  <2> QED BY <1>6, CalmNone, CalmArm, CalmAppend
<1> HIDE DEF closed, fs, join
<1>8. Disciplined => Clean(fb') BY <1>4, <1>5, CleanSwitch
<1> QED BY <1>1, <1>5, <1>7, <1>8, CalmStep

LEMMA MatchArmLoop == LoopInv /\ Inv' /\ Keeps(fb, fb') /\ MatchArm => LoopInv'
<1> SUFFICES ASSUME LoopInv, Inv', Keeps(fb, fb'), MatchArm PROVE LoopInv'
  OBVIOUS
<1> DEFINE join == Top.owes[Len(Top.owes)]
           f == Onward(Tail(Top.owes))
           fs == Append(LowerArm(Top.at + 1), f)
<1>1. agenda # <<>> /\ Top.op = "match_arm" BY DEF MatchArm, Running
<1>2. Len(Top.owes) \in 1..Len(Top.owes)
  <2>1. Fits(Top) /\ Len(Top.node.arms) \in Nat BY <1>1, TopOK DEF LoopInv, FrameOK
  <2> QED BY <1>1, <2>1 DEF Fits
<1>3. Goto(join) \in Onwards BY <1>1, <1>2, LaterBlocks, OnwardTerms
<1>4. Quiet(f) BY <1>1, QuietRest
<1>5. fb' = SwitchTo(Terminate(fb, Goto(join)), Head(Top.owes)) BY DEF MatchArm
<1>6. (Do(<<>>) \/ Do(fs)) /\ UNCHANGED loop_stack BY DEF MatchArm
<1> HIDE DEF join, f
<1>7. Calm(<<>>) /\ Calm(fs) BY <1>4, CalmNone, CalmArm, CalmAppend
<1>8. Disciplined => Clean(fb') BY <1>3, <1>5, CleanClose, CleanSwitch DEF LoopInv
<1> HIDE DEF fs
<1> QED BY <1>1, <1>6, <1>7, <1>8, CalmStep

LEMMA ForkHeadLoop == LoopInv /\ Inv' /\ Keeps(fb, fb') /\ ForkHead => LoopInv'
<1> SUFFICES ASSUME LoopInv, Inv', Keeps(fb, fb'), ForkHead PROVE LoopInv'
  OBVIOUS
<1> DEFINE hdr == NextBlock(fb)
           at_hdr == SwitchTo(Terminate(NewBlocks(fb, 3), Goto(hdr)), hdr)
           at_chk == SwitchTo(Terminate(NewBlocks(at_hdr, 1), Call(0, hdr + 3)), hdr + 3)
           f == Frame("fork_end", Top.e, Top.node, <<hdr + 2>>, hdr, 1)
           fs == <<LowerExpr(Kid(1)), f>>
<1>1. agenda # <<>> /\ Top.op # "loop_end" BY DEF ForkHead, Running
<1>2. hdr \in Later /\ hdr + 1 \in Later /\ hdr + 2 \in Later /\ hdr + 3 \in Later
  BY <1>1, LaterBlocks
<1>3. /\ fb' = SwitchTo(Terminate(at_chk, Branch(Top.e, hdr + 1, hdr + 2)), hdr + 1)
      /\ Do(fs) /\ UNCHANGED loop_stack
  BY DEF ForkHead
<1>4. Top.e \in Nat BY <1>1, TopOK DEF LoopInv
<1> HIDE DEF hdr
<1>5. /\ Goto(hdr) \in Onwards /\ Call(0, hdr + 3) \in Onwards
      /\ Branch(Top.e, hdr + 1, hdr + 2) \in Onwards
  BY <1>2, <1>4, OnwardTerms
<1>6. Disciplined => Clean(at_hdr) BY <1>5, CleanNew, CleanClose, CleanSwitch DEF LoopInv
<1> HIDE DEF at_hdr
<1>7. Disciplined => Clean(at_chk) BY <1>5, <1>6, CleanNew, CleanClose, CleanSwitch
<1> HIDE DEF at_chk
<1>8. Disciplined => Clean(fb') BY <1>3, <1>5, <1>7, CleanClose, CleanSwitch
<1>9. Quiet(f) BY <1>2 DEF Quiet, Frame, Later
<1> HIDE DEF f
<1>10. Calm(fs) BY <1>9, QuietLower, CalmTwo
<1> QED BY <1>1, <1>3, <1>8, <1>10, CalmStep

LEMMA ForkEndLoop == LoopInv /\ Inv' /\ Keeps(fb, fb') /\ ForkEnd => LoopInv'
<1> SUFFICES ASSUME LoopInv, Inv', Keeps(fb, fb'), ForkEnd PROVE LoopInv'
  OBVIOUS
<1> DEFINE push == NextBlock(fb)
           pushed == SwitchTo(Terminate(NewBlocks(fb, 1), Call(0, push)), push)
<1>1. agenda # <<>> /\ Top.op = "fork_end" /\ Top.hdr >= 1
  <2>1. agenda # <<>> /\ Top.op = "fork_end" BY DEF ForkEnd, Running
  <2>2. Fits(Top) BY <2>1, TopOK DEF LoopInv, FrameOK
  <2> QED BY <2>1, <2>2 DEF Fits
<1>2. Call(0, push) \in Onwards /\ Goto(Top.hdr) \in Onwards BY <1>1, LaterBlocks, OnwardTerms
<1>3. fb' = SwitchTo(Terminate(pushed, Goto(Top.hdr)), Top.owes[1]) BY DEF ForkEnd
<1> HIDE DEF push
<1>4. Disciplined => Clean(pushed) BY <1>2, CleanNew, CleanClose, CleanSwitch DEF LoopInv
<1> HIDE DEF pushed
<1>5. Disciplined => Clean(fb') BY <1>2, <1>3, <1>4, CleanClose, CleanSwitch
<1> QED BY <1>1, <1>5, CalmNone, CalmStep DEF ForkEnd

-----------------------------------------------------------------------------
(* Jumps                                                                   *)

\* Inside a loop a jump does not go to the entry block.
LEMMA JumpsOnward ==
    ASSUME LoopInv, Depth(agenda, 1) > 0
    PROVE  /\ loop_stack # <<>>
           /\ Goto(BreakTarget) \in Onwards /\ Goto(NextTarget) \in Onwards
<1>1. Len(loop_stack) > 0 BY DEF LoopInv, Nests
<1>2. LoopsOK(loop_stack, BlockCount(fb)) BY DEF LoopInv, Inv
<1>3. Len(loop_stack) \in 1..Len(loop_stack) /\ loop_stack # <<>>
  BY <1>1, <1>2, LenProperties DEF LoopsOK
<1>4. BreakTarget \in Later /\ NextTarget \in Later
  BY <1>2, <1>3 DEF BreakTarget, NextTarget, LoopInv, LoopsOK, Later, Block
<1> QED BY <1>3, <1>4, OnwardTerms

LEMMA AllowedInside ==
    ASSUME LoopInv, Allowed, Disciplined
    PROVE  Depth(agenda, 1) > 0
<1>1. agenda \in Seq(FrameSet) BY DEF LoopInv, Inv, Tidy
<1>2. DOMAIN agenda = 1..Len(agenda) /\ Len(agenda) \in Nat BY <1>1, LenProperties
<1>3. PICK i \in 1..Len(agenda) : agenda[i].op = "loop_end"
  BY <1>2 DEF Allowed, Disciplined, LoopEnds
<1>4. Depth(agenda, i) \in 1..Depth(agenda, 1) BY <1>2, <1>3, DepthIn
<1>5. Depth(agenda, 1) \in Nat BY <1>2, CountType DEF Depth
<1> QED BY <1>4, <1>5

LEMMA BreakEndLoop == LoopInv /\ Inv' /\ Keeps(fb, fb') /\ BreakEnd => LoopInv'
<1> SUFFICES ASSUME LoopInv, Inv', Keeps(fb, fb'), BreakEnd PROVE LoopInv'
  OBVIOUS
<1>1. agenda # <<>> /\ Top.op = "break_end" BY DEF BreakEnd, Running
<1>2. Disciplined => Depth(agenda, 1) > 0
  <2>1. agenda \in Seq(FrameSet) BY DEF LoopInv, Inv, Tidy
  <2>2. Top = agenda[1] /\ 1 \in 1..Len(agenda) BY <1>1, <2>1, TailParts DEF Top
  <2> QED BY <1>1, <2>2 DEF LoopInv
<1>3. Disciplined => Clean(fb') BY <1>2, JumpsOnward, CleanClose DEF BreakEnd, LoopInv
<1> QED BY <1>1, <1>3, CalmNone, CalmStep DEF BreakEnd

LEMMA VisitNextLoop == LoopInv /\ Inv' /\ Keeps(fb, fb') /\ VisitNext => LoopInv'
<1> SUFFICES ASSUME LoopInv, Inv', Keeps(fb, fb'), VisitNext PROVE LoopInv'
  OBVIOUS
<1>1. agenda # <<>> /\ Top.op # "loop_end" BY DEF VisitNext, Reading, Running
<1>2. Allowed BY DEF VisitNext
<1>3. fb' = Terminate(fb, Goto(NextTarget)) /\ Do(<<>>) /\ UNCHANGED loop_stack
  BY DEF VisitNext
<1>4. Disciplined => Clean(fb')
  BY <1>2, <1>3, AllowedInside, JumpsOnward, CleanClose DEF LoopInv
<1> QED BY <1>1, <1>3, <1>4, CalmNone, CalmStep

\* A break that is allowed is as deep as what it is put on top of.
LEMMA VisitBreakLoop == LoopInv /\ Inv' /\ Keeps(fb, fb') /\ VisitBreak => LoopInv'
<1> SUFFICES ASSUME LoopInv, Inv', Keeps(fb, fb'), VisitBreak PROVE LoopInv'
  OBVIOUS
<1> DEFINE f == Then("break_end", Top.e, Leaf)
<1>1. agenda # <<>> /\ Top.op # "loop_end" BY DEF VisitBreak, Reading, Running
<1>2. PICK n \in {0, 1} :
        Do(Append(IF loop_stack = <<>> THEN <<>> ELSE LowerAll(NewKids(n)), f))
  BY DEF VisitBreak
<1>3. PICK ds : Calm(ds) /\ Do(Append(ds, f))
  <2>1. Calm(<<>>) /\ Calm(LowerAll(NewKids(n))) BY CalmNone, CalmKids DEF LoopInv
  <2> QED BY <1>2, <2>1
<1>4. Allowed /\ UNCHANGED <<fb, loop_stack>> BY DEF VisitBreak
<1>5. f.op = "break_end" /\ f.hdr # Entry BY DEF Then, Frame, Entry
<1> HIDE DEF f
<1>6. PICK S : ds \in Seq(S) /\ \A g \in S : Quiet(g) BY <1>3 DEF Calm
<1> DEFINE fs == Append(ds, f)
           T == S \cup {f} \cup FrameSet
<1>7. fs \in Seq(S \cup {f})
  <2>1. S \subseteq S \cup {f} OBVIOUS
  <2>2. ds \in Seq(S \cup {f}) BY <1>6, <2>1
  <2> QED BY <2>2, AppendProperties
<1>8. Do(fs) BY <1>3
<1> HIDE DEF fs
<1>9. \A i \in 1..Len(fs) : fs[i].op \notin {"loop_end", "loop_test"} /\ fs[i].hdr # Entry
  <2>1. \A i \in 1..Len(fs) : fs[i] \in S \cup {f} BY <1>7, LenProperties
  <2> QED BY <2>1, <1>5, <1>6 DEF Quiet
<1>10. Nests(agenda', loop_stack') BY <1>1, <1>4, <1>7, <1>8, <1>9, NestsStill
<1>11. ASSUME NEW i \in 1..Len(fs) PROVE Depth(agenda', i) = Depth(agenda', 1)
  <2>1. PICK s : s = agenda' OBVIOUS
  <2>2. /\ Len(fs) \in Nat /\ Len(s) \in Nat /\ Len(fs) <= Len(s)
        /\ \A j \in 1..Len(fs) : s[j] = fs[j]
    <3>1. Tail(agenda) \in Seq(FrameSet) BY <1>1, TailParts DEF LoopInv, Inv, Tidy
    <3>2. fs \in Seq(T) /\ Tail(agenda) \in Seq(T)
      <4>1. S \cup {f} \subseteq T /\ FrameSet \subseteq T OBVIOUS
      <4> HIDE DEF T
      <4> QED BY <1>7, <3>1, <4>1
    <3>3. s = fs \o Tail(agenda) BY <1>8, <2>1 DEF Do
    <3> HIDE DEF T
    <3>4. /\ Len(fs) \in Nat /\ Len(Tail(agenda)) \in Nat
          /\ Len(s) = Len(Tail(agenda)) + Len(fs)
          /\ \A j \in 1..Len(fs) : s[j] = fs[j]
      BY <3>2, <3>3, Parts
    <3> QED BY <3>4
  <2>3. i - 1 \in 0..Len(s) /\ (i - 1) + 1 = i BY <2>2
  <2>4. \A j \in 1..(i - 1) : s[j].op # "loop_end"
    <3>1. \A j \in 1..(i - 1) : j \in 1..Len(fs) BY <2>2
    <3> QED BY <3>1, <2>2, <1>9
  <2>5. Depth(s, 1) = Depth(s, (i - 1) + 1) BY <2>2, <2>3, <2>4, DepthOnTop
  <2> QED BY <2>1, <2>3, <2>5
<1>12. Disciplined => Depth(agenda', 1) > 0
  <2>1. Len(loop_stack') = Depth(agenda', 1) BY <1>10 DEF Nests
  <2>2. Len(loop_stack) = Depth(agenda, 1) BY DEF LoopInv, Nests
  <2> QED BY <2>1, <2>2, <1>4, AllowedInside
<1>13. \A i \in 1..Len(loop_stack') :
        loop_stack'[i].break_block # Entry /\ loop_stack'[i].continue_block # Entry
  BY <1>4 DEF LoopInv
<1>14. Disciplined => Clean(fb') BY <1>4 DEF LoopInv
<1> QED BY <1>1, <1>7, <1>8, <1>9, <1>10, <1>11, <1>12, <1>13, <1>14, LoopStep

-----------------------------------------------------------------------------
(* Loops begin and end                                                     *)

\* The header is being filled.
LEMMA VisitLoopLoop == LoopInv /\ Inv' /\ Keeps(fb, fb') /\ VisitLoop => LoopInv'
<1> SUFFICES ASSUME LoopInv, Inv', Keeps(fb, fb'), VisitLoop PROVE LoopInv'
  OBVIOUS
<1> DEFINE hdr == NextBlock(fb)
<1>1. agenda # <<>> /\ Top.op # "loop_end" BY DEF VisitLoop, Reading, Running
<1>2. PICK node, ds : /\ ds = <<>> \/ ds = <<LowerExpr(node.kids[2])>>
                      /\ Do(Append(ds, Frame("loop_test", Top.e, node,
                                             <<hdr + 1, hdr + 2>>, hdr, 1)))
  BY DEF VisitLoop
<1> DEFINE f == Frame("loop_test", Top.e, node, <<hdr + 1, hdr + 2>>, hdr, 1)
           fs == Append(ds, f)
<1>3. fb' = SwitchTo(Terminate(NewBlocks(fb, 3), Goto(hdr)), hdr) /\ UNCHANGED loop_stack
  BY DEF VisitLoop
<1>4. f.op = "loop_test" /\ f.hdr = hdr BY DEF Frame
<1>5. hdr \in Later BY <1>1, LaterBlocks
<1>6. hdr \notin Waits(agenda')
  <2>1. fb'.cur = hdr BY <1>3 DEF SwitchTo
  <2> QED BY <2>1 DEF Inv, Sound
<1>7. Do(fs) BY <1>2
<1> HIDE DEF f, hdr
<1>8. PICK S : ds \in Seq(S) /\ \A g \in S : Quiet(g)
  <2>1. Calm(<<>>) /\ Calm(<<LowerExpr(node.kids[2])>>) BY CalmNone, CalmOne, QuietLower
  <2>2. Calm(ds) BY <1>2, <2>1
  <2> QED BY <2>2 DEF Calm
<1>9. fs \in Seq(S \cup {f})
  <2>1. S \subseteq S \cup {f} OBVIOUS
  <2>2. ds \in Seq(S \cup {f}) BY <1>8, <2>1
  <2> QED BY <2>2, AppendProperties
<1> HIDE DEF fs
<1>10. \A i \in 1..Len(fs) :
        /\ fs[i].op \notin {"loop_end", "break_end"} /\ fs[i].hdr # Entry
        /\ fs[i].op = "loop_test" => fs[i].hdr \notin Waits(agenda')
  <2>1. \A i \in 1..Len(fs) : fs[i] \in S \cup {f} BY <1>9, LenProperties
  <2> QED BY <2>1, <1>4, <1>5, <1>6, <1>8 DEF Quiet, Later
<1>11. Nests(agenda', loop_stack') BY <1>1, <1>3, <1>7, <1>9, <1>10, NestsStill
<1>12. \A i \in 1..Len(loop_stack') :
        loop_stack'[i].break_block # Entry /\ loop_stack'[i].continue_block # Entry
  BY <1>3 DEF LoopInv
<1>13. Disciplined => Clean(fb')
  <2>1. Goto(hdr) \in Onwards BY <1>5, OnwardTerms
  <2> QED BY <1>3, <2>1, CleanNew, CleanClose, CleanSwitch DEF LoopInv
<1> QED BY <1>1, <1>7, <1>9, <1>10, <1>11, <1>12, <1>13, LoopStep

\* What both kinds of loop do when their body begins.
LEMMA BeginStep ==
    ASSUME LoopInv, Inv', Keeps(fb, fb'), agenda # <<>>, Top.op # "loop_end",
           NEW d, Quiet(d), NEW f, f.op = "loop_end", f.hdr \in Later, f.owes[1] \in Later,
           Do(<<d, f>>), PushLoop(f.owes[1], f.hdr), IsTerminated(fb', f.hdr),
           Disciplined => Clean(fb')
    PROVE  LoopInv'
<1> DEFINE t == Tail(agenda)
           F == {d, f} \cup FrameSet
           L == [break_block : Block, continue_block : Block]
           ctx == LoopCtx(f.owes[1], f.hdr)
<1>1. agenda \in Seq(FrameSet) /\ loop_stack \in Seq(L) BY DEF LoopInv, Inv, Tidy, LoopsOK
<1>2. t \in Seq(F)
  <2>1. Tail(agenda) \in Seq(FrameSet) BY <1>1, TailParts
  <2>2. FrameSet \subseteq F OBVIOUS
  <2> HIDE DEF F
  <2> QED BY <2>1, <2>2
<1>3. f \in F /\ d \in F /\ <<d, f>> \in Seq({d, f}) OBVIOUS
<1>4. Nests(t, loop_stack) BY <1>1, NestsTail DEF LoopInv, Top
<1> HIDE DEF t, F, L
<1>5. Nests(<<f>> \o t, Append(loop_stack, ctx)) BY <1>1, <1>2, <1>3, <1>4, NestsBegin
<1>6. <<f>> \in Seq(F) /\ <<d>> \in Seq(F) /\ Len(<<d>>) = 1 /\ <<d>>[1] = d BY <1>3
<1>7. <<f>> \o t \in Seq(F) BY <1>2, <1>6, ConcatProperties
<1>8. Nests(<<d>> \o (<<f>> \o t), Append(loop_stack, ctx))
  <2>1. \A j \in 1..Len(<<d>>) : <<d>>[j].op # "loop_end" BY <1>6 DEF Quiet
  <2> QED BY <2>1, <1>5, <1>6, <1>7, NestsOnTop
<1>9. <<d>> \o (<<f>> \o t) = <<d, f>> \o t
  <2>1. <<d, f>> = <<d>> \o <<f>> BY <1>3, <1>6, TwoFrames, AppendIsConcat
  <2> QED BY <2>1, <1>2, <1>6, ConcatAssociative
<1>10. Nests(agenda', loop_stack')
  <2>1. agenda' = <<d, f>> \o t BY DEF Do, t
  <2>2. loop_stack' = Append(loop_stack, ctx) BY DEF PushLoop
  <2> QED BY <2>1, <2>2, <1>8, <1>9
<1>11. \A i \in 1..Len(loop_stack') :
        loop_stack'[i].break_block # Entry /\ loop_stack'[i].continue_block # Entry
  <2>1. loop_stack' = Append(loop_stack, ctx) BY DEF PushLoop
  <2>2. /\ ctx.break_block # Entry /\ ctx.continue_block # Entry BY DEF LoopCtx, Later
  <2>3. /\ Len(loop_stack') = Len(loop_stack) + 1 /\ Len(loop_stack) \in Nat
        /\ \A i \in 1..Len(loop_stack) : loop_stack'[i] = loop_stack[i]
        /\ loop_stack'[Len(loop_stack) + 1] = ctx
    <3>1. loop_stack \in Seq(L \cup {ctx})
      <4>1. L \subseteq L \cup {ctx} OBVIOUS
      <4> HIDE DEF ctx
      <4> QED BY <4>1, <1>1
    <3> HIDE DEF ctx
    <3> QED BY <2>1, <3>1, AppendProperties, LenProperties
  <2>4. \A i \in 1..Len(loop_stack') : i \in 1..Len(loop_stack) \/ i = Len(loop_stack) + 1
    BY <2>3
  <2> HIDE DEF ctx
  <2> QED BY <2>2, <2>3, <2>4 DEF LoopInv
<1>12. Len(<<d, f>>) = 2 /\ <<d, f>>[1] = d /\ <<d, f>>[2] = f /\ 1..2 = {1, 2} OBVIOUS
<1>13. \A i \in 1..Len(<<d, f>>) :
        /\ <<d, f>>[i].hdr # Entry
        /\ <<d, f>>[i].op \notin {"loop_test", "break_end"}
        /\ <<d, f>>[i].op = "loop_end" => IsTerminated(fb', <<d, f>>[i].hdr)
  BY <1>12 DEF Quiet, Later
<1> QED BY <1>3, <1>10, <1>11, <1>13, LoopStep

\* The header only goes to the body.
LEMMA VisitInfiniteLoop == LoopInv /\ Inv' /\ Keeps(fb, fb') /\ VisitInfinite => LoopInv'
<1> SUFFICES ASSUME LoopInv, Inv', Keeps(fb, fb'), VisitInfinite PROVE LoopInv'
  OBVIOUS
<1> DEFINE n == BlockCount(fb)
           hdr == NextBlock(fb)
           W == Waits(agenda)
           V == (W \cup Fresh(fb, 3)) \ {hdr}
           node == Node("infinite", NewKids(1), FALSE)
           at_hdr == SwitchTo(Terminate(NewBlocks(fb, 3), Goto(hdr)), hdr)
           d == LowerExpr(node.kids[1])
           f == Frame("loop_end", Top.e, node, <<hdr + 2>>, hdr, 1)
<1>1. agenda # <<>> /\ Top.op # "loop_end" BY DEF VisitInfinite, Reading, Running
<1>2. hdr \in Later /\ hdr + 1 \in Later /\ hdr + 2 \in Later BY <1>1, LaterBlocks
<1>3. /\ f.op = "loop_end" /\ f.hdr = hdr /\ f.owes[1] = hdr + 2
  BY DEF Frame
<1>4. /\ fb' = SwitchTo(Terminate(at_hdr, Goto(hdr + 1)), hdr + 1)
      /\ Do(<<d, f>>) /\ PushLoop(f.owes[1], f.hdr)
  BY <1>3 DEF VisitInfinite
<1>5. Quiet(d) BY QuietLower
<1> HIDE DEF d, f
<1>6. /\ n \in Nat /\ Sound(fb, W) /\ hdr = n + 1 /\ hdr \in Nat /\ hdr + 1 # hdr
      /\ Fresh(fb, 3) = {hdr, hdr + 1, hdr + 2}
      /\ hdr \in 1..(n + 3) /\ hdr + 1 \in 1..(n + 3) /\ n + 3 \in Nat
  <2>1. n \in Nat /\ Sound(fb, W) BY <1>1, TopOK DEF Inv, LoopInv
  <2>2. hdr = n + 1 BY DEF NextBlock
  <2> QED BY <2>1, <2>2 DEF Fresh
<1> HIDE DEF W, hdr, n
<1>7. IsTerminated(fb', hdr)
  <2>1. Leads(fb, at_hdr, 3, V)
    <3>1. hdr \in W \cup Fresh(fb, 3) /\ 3 \in Nat BY <1>6
    <3>2. Closer(Goto(hdr), n + 3) BY <1>6, Closers
    <3> QED BY <1>6, <3>1, <3>2, Move DEF n
  <2>2. Sound(at_hdr, V) /\ BlockCount(at_hdr) = n + 3 BY <2>1 DEF Leads, n
  <2>3. hdr + 1 \in V BY <1>6
  <2>4. Closer(Goto(hdr + 1), n + 3) BY <1>6, Closers
  <2>5. Keeps(at_hdr, fb')
    <3> HIDE DEF at_hdr, V
    <3> QED BY <1>4, <2>2, <2>3, <2>4, GoOn DEF Leads
  <2>6. at_hdr.cur = hdr /\ fb'.cur = hdr + 1 BY <1>4 DEF SwitchTo
  <2> HIDE DEF at_hdr
  <2> QED BY <1>6, <2>5, <2>6 DEF Keeps
<1>8. Disciplined => Clean(fb')
  <2>1. Goto(hdr) \in Onwards /\ Goto(hdr + 1) \in Onwards BY <1>2, OnwardTerms
  <2>2. Disciplined => Clean(at_hdr) BY <2>1, CleanNew, CleanClose, CleanSwitch DEF LoopInv
  <2> HIDE DEF at_hdr
  <2> QED BY <1>4, <2>1, <2>2, CleanClose, CleanSwitch
<1> QED BY <1>1, <1>2, <1>3, <1>4, <1>5, <1>7, <1>8, BeginStep

\* The header ends in the block that is being filled, the loop's own or one that
\* its condition has come to: by then it is closed.
LEMMA LoopTestLoop == LoopInv /\ Inv' /\ Keeps(fb, fb') /\ LoopTest => LoopInv'
<1> SUFFICES ASSUME LoopInv, Inv', Keeps(fb, fb'), LoopTest PROVE LoopInv'
  OBVIOUS
<1> DEFINE n == BlockCount(fb)
           body == Top.owes[1]
           exit == Top.owes[2]
           test == Branch(Top.e, body, exit)
           check == NextBlock(fb)
           start == check + 1
           asked == SwitchTo(Terminate(NewBlocks(fb, 1), Call(0, check)), check)
           bound == SwitchTo(Terminate(asked, test), body)
           d == LowerExpr(Kid(1))
           f == Rest("loop_end", <<exit>>)
<1>1. /\ agenda # <<>> /\ Top.op = "loop_test" /\ Len(Top.owes) = 2
      /\ Top.hdr \in 1..n /\ n \in Nat /\ Top.e \in Nat
  <2>1. agenda # <<>> /\ Top.op = "loop_test" BY DEF LoopTest, Running
  <2>2. Fits(Top) /\ Top.hdr \in Nat /\ Top.hdr <= n /\ n \in Nat /\ Top.e \in Nat
    BY <2>1, TopOK DEF LoopInv, FrameOK
  <2> QED BY <2>1, <2>2 DEF Fits, OwesOf
<1>2. body \in Later /\ exit \in Later /\ Top.hdr \in Later /\ check \in Later /\ start \in Later
  BY <1>1, LaterBlocks
<1>3. f.op = "loop_end" /\ f.hdr = Top.hdr /\ f.owes[1] = exit BY DEF Rest, Frame
<1>4. Do(<<d, f>>) /\ PushLoop(f.owes[1], f.hdr) BY <1>3 DEF LoopTest
<1>5. \/ fb' = SwitchTo(Terminate(NewBlocks(bound, 1), Goto(start)), start)
      \/ fb' = SwitchTo(Terminate(fb, test), body)
  BY DEF LoopTest
<1>6. Quiet(d) BY QuietLower
<1>7. fb'.cur = start \/ fb'.cur = body BY <1>5 DEF SwitchTo
<1>8. body \in Waits(agenda) /\ Top.hdr \notin Waits(agenda)
  <2>1. OwedBy(Top) \subseteq Waits(agenda) BY <1>1, TopOK DEF LoopInv
  <2>2. body \in OwedBy(Top) BY <1>1 DEF OwedBy
  <2>3. agenda \in Seq(FrameSet) BY DEF LoopInv, Inv, Tidy
  <2>4. Top = agenda[1] /\ 1 \in 1..Len(agenda) BY <1>1, <2>3, TailParts DEF Top
  <2>5. Top.hdr \notin Waits(agenda) BY <1>1, <2>4 DEF LoopInv
  <2> QED BY <2>1, <2>2, <2>5
<1>9. fb'.cur # Top.hdr
  <2>1. start # Top.hdr BY <1>1 DEF NextBlock
  <2> QED BY <1>7, <1>8, <2>1
<1>10. IsTerminated(fb', Top.hdr)
  <2>1. Sound(fb', Waits(agenda')) BY DEF Inv
  <2>2. Top.hdr \notin Waits(agenda') BY <1>1, <1>8, StepFacts DEF LoopInv
  <2>3. Top.hdr \in 1..BlockCount(fb')
    <3>1. BlockCount(fb') \in Nat /\ n <= BlockCount(fb') BY StepFacts DEF Keeps, LoopInv
    <3> HIDE DEF n
    <3> QED BY <1>1, <3>1
  <2>4. Top.hdr \notin Held(fb') BY <1>9 DEF Held
  <2> QED BY <2>1, <2>2, <2>3, <2>4 DEF Sound
<1>11. Disciplined => Clean(fb')
  <2>1. /\ test \in Onwards /\ Call(0, check) \in Onwards /\ Goto(start) \in Onwards
    BY <1>1, <1>2, OnwardTerms
  <2> HIDE DEF test, check, start
  <2>2. Disciplined => Clean(asked) BY <2>1, CleanNew, CleanClose, CleanSwitch DEF LoopInv
  <2> HIDE DEF asked
  <2>3. Disciplined => Clean(bound) BY <2>1, <2>2, CleanClose, CleanSwitch
  <2> HIDE DEF bound
  <2>4. Disciplined => Clean(SwitchTo(Terminate(NewBlocks(bound, 1), Goto(start)), start))
    BY <2>1, <2>3, CleanNew, CleanClose, CleanSwitch
  <2>5. Disciplined => Clean(SwitchTo(Terminate(fb, test), body))
    BY <2>1, CleanClose, CleanSwitch DEF LoopInv
  <2> QED BY <1>5, <2>4, <2>5
<1> HIDE DEF d, f
<1> QED BY <1>1, <1>2, <1>3, <1>4, <1>6, <1>10, <1>11, BeginStep

LEMMA LoopEndLoop == LoopInv /\ Inv' /\ Keeps(fb, fb') /\ LoopEnd => LoopInv'
<1> SUFFICES ASSUME LoopInv, Inv', Keeps(fb, fb'), LoopEnd PROVE LoopInv'
  OBVIOUS
<1> DEFINE L == [break_block : Block, continue_block : Block]
           m == Len(loop_stack) - 1
<1>1. agenda # <<>> /\ Top.op = "loop_end" /\ Top.hdr >= 1
  <2>1. agenda # <<>> /\ Top.op = "loop_end" BY DEF LoopEnd, Running
  <2>2. Fits(Top) BY <2>1, TopOK DEF LoopInv, FrameOK
  <2> QED BY <2>1, <2>2 DEF Fits
<1>2. agenda \in Seq(FrameSet) /\ loop_stack \in Seq(L) BY DEF LoopInv, Inv, Tidy, LoopsOK
<1>3. /\ fb' = SwitchTo(Terminate(fb, Goto(Top.hdr)), Top.owes[1])
      /\ loop_stack' = SubSeq(loop_stack, 1, m) /\ Do(<<>>)
  BY DEF LoopEnd, PopLoop
<1>4. Nests(agenda', loop_stack')
  <2>1. Nests(Tail(agenda), loop_stack') BY <1>1, <1>2, <1>3, NestsEnd DEF LoopInv, Top
  <2>2. agenda' = Tail(agenda)
    <3>1. Tail(agenda) \in Seq(FrameSet) BY <1>1, <1>2, TailParts
    <3> QED BY <1>3, <3>1, ConcatEmptySeq DEF Do
  <2> QED BY <2>1, <2>2
<1>5. \A i \in 1..Len(loop_stack') :
        loop_stack'[i].break_block # Entry /\ loop_stack'[i].continue_block # Entry
  <2>1. Len(loop_stack) \in Nat \ {0}
    <3>1. agenda[1].op = "loop_end" /\ 1 \in 1..Len(agenda) /\ Len(agenda) \in Nat
      BY <1>1, <1>2, TailParts DEF Top
    <3>2. Depth(agenda, 1) \in 1..Depth(agenda, 1) /\ Depth(agenda, 1) \in Nat
      BY <3>1, DepthIn, CountType DEF Depth
    <3> QED BY <3>2 DEF LoopInv, Nests
  <2>2. m \in Nat /\ \A i \in 1..m : i \in 1..Len(loop_stack) BY <2>1
  <2>3. \A i \in 1..m : loop_stack[i] \in L BY <1>2, <2>2, LenProperties
  <2> HIDE DEF m, L
  <2>4. Len(loop_stack') = m /\ \A i \in 1..m : loop_stack'[i] = loop_stack[i]
    BY <1>3, <2>2, <2>3, SubSeqProperties
  <2> QED BY <2>2, <2>4 DEF LoopInv
<1>6. Disciplined => Clean(fb')
  <2>1. Goto(Top.hdr) \in Onwards BY <1>1, LaterBlocks, OnwardTerms
  <2> QED BY <1>3, <2>1, CleanClose, CleanSwitch DEF LoopInv
<1>7. PICK fs : fs = <<>> OBVIOUS
<1>8. fs \in Seq(FrameSet) /\ Do(fs) /\ \A i \in 1..Len(fs) : FALSE BY <1>3, <1>7
<1> QED BY <1>1, <1>4, <1>5, <1>6, <1>8, LoopStep

-----------------------------------------------------------------------------
(* Theorems                                                                *)

LEMMA InitLoop == Init => LoopInv
<1> SUFFICES ASSUME Init PROVE LoopInv
  OBVIOUS
<1>1. PICK node : /\ agenda = <<Then("fn_stmts", 1, node)>>
                  /\ fb = NewFn /\ loop_stack = <<>>
  BY DEF Init
<1> DEFINE f == Then("fn_stmts", 1, node)
<1>2. f.op = "fn_stmts" /\ f.hdr = 0 /\ f.owes = <<>> BY DEF Then, Frame
<1>3. agenda = <<f>> BY <1>1
<1> HIDE DEF f
<1>4. Len(agenda) = 1 /\ agenda[1] = f /\ 1..1 = {1} BY <1>3
<1>5. Waits(agenda) = {}
  <2>1. OwedBy(f) = {} BY <1>2, Nothing
  <2> QED BY <2>1, <1>4 DEF Waits
<1>6. Nests(agenda, loop_stack)
  <2>1. \A j \in 1..Len(agenda) : agenda[j].op # "loop_end" BY <1>2, <1>4
  <2>2. Depth(agenda, 1) = 0 BY <2>1, CountNone DEF Depth
  <2> QED BY <2>2, <1>1, <1>2, <1>4 DEF Nests
<1>7. Clean(fb)
  <2>1. Open \in Onwards BY OpenIsTerm DEF Onwards
  <2>2. <<Open>> \in Seq(Onwards) BY <2>1
  <2>3. fb.term = <<Open>> BY <1>1 DEF NewFn
  <2> QED BY <2>2, <2>3 DEF Clean
<1>8. \A i \in 1..Len(loop_stack) : FALSE BY <1>1
<1> QED BY <1>2, <1>4, <1>5, <1>6, <1>7, <1>8, InitInv DEF LoopInv, Entry

LEMMA VisitLoopInv == LoopInv /\ Inv' /\ Keeps(fb, fb') /\ Visit => LoopInv'
BY DescentStep, VisitInfiniteLoop, VisitLoopLoop, VisitBreakLoop, VisitNextLoop DEF Visit

LEMMA ResumeLoopInv == LoopInv /\ Inv' /\ Keeps(fb, fb') /\ Resume => LoopInv'
BY DescentStep, CallEndLoop, ReturnsLoop, IfBranchLoop, IfThenLoop, JoinLoop, GuardTestLoop,
   MatchSwitchLoop, MatchArmLoop, LoopTestLoop, LoopEndLoop, ForkHeadLoop, ForkEndLoop,
   BreakEndLoop DEF Resume

LEMMA LoopInvStep == LoopInv /\ [Next]_vars => LoopInv'
<1> SUFFICES ASSUME LoopInv, [Next]_vars PROVE LoopInv'
  OBVIOUS
<1>1. Inv' /\ Keeps(fb, fb') BY InvStep DEF LoopInv
<1>2. CASE Visit BY <1>1, <1>2, VisitLoopInv
<1>3. CASE Resume BY <1>1, <1>3, ResumeLoopInv
<1>4. CASE UNCHANGED vars
  <2>1. agenda' = agenda /\ fb' = fb /\ loop_stack' = loop_stack BY <1>4 DEF vars
  <2> QED BY <1>1, <2>1 DEF LoopInv, Disciplined
<1> QED BY <1>2, <1>3, <1>4 DEF Next, Returned

\* The inductive invariant of loops: contexts nest as bodies do, the header of a
\* body that lowering is in is closed, and jumps stay behind the entry block.
THEOREM LoopInvariant == Spec => []LoopInv
BY InitLoop, LoopInvStep, PTL DEF Spec

\* lower_expr keeps loop_stack equal to the nesting of the loop bodies around
\* the current point, with closed headers to continue and open exits to break to.
THEOREM LoopsNest == Spec => []LoopNesting
<1>1. LoopInv => LoopNesting
  <2> SUFFICES ASSUME LoopInv PROVE LoopNesting
    OBVIOUS
  <2>1. agenda \in Seq(FrameSet) /\ Inv BY DEF LoopInv, Inv, Tidy
  <2>2. DOMAIN agenda = 1..Len(agenda) /\ Len(agenda) \in Nat BY <2>1, LenProperties
  <2>3. \A i \in 1..Len(agenda) : BodiesFrom(i) = Places(agenda, i, "loop_end")
    BY <2>2 DEF BodiesFrom, Places
  <2>4. BodiesFrom(1) = Places(agenda, 1, "loop_end") BY <2>2 DEF BodiesFrom, Places
  <2>5. ASSUME NEW i \in BodiesFrom(1)
        PROVE  /\ loop_stack[Cardinality(BodiesFrom(i))] = LoopCtx(agenda[i].owes[1], agenda[i].hdr)
               /\ IsTerminated(fb, agenda[i].hdr)
               /\ ~IsTerminated(fb, agenda[i].owes[1])
    <3>1. i \in 1..Len(agenda) /\ agenda[i].op = "loop_end" BY <2>2 DEF BodiesFrom
    <3>2. loop_stack[Depth(agenda, i)] = LoopCtx(agenda[i].owes[1], agenda[i].hdr)
          /\ IsTerminated(fb, agenda[i].hdr)
      BY <3>1 DEF LoopInv, Nests
    <3>3. Len(agenda[i].owes) = 1
      <4>1. Fits(agenda[i]) BY <3>1, <2>1 DEF Inv, Tidy, FrameOK
      <4> QED BY <4>1, <3>1 DEF Fits, OwesOf
    <3>4. agenda[i].owes[1] \in Waits(agenda)
      <4>1. agenda[i].owes[1] \in OwedBy(agenda[i]) BY <3>3 DEF OwedBy
      <4> QED BY <4>1, <3>1 DEF Waits
    <3>5. ~IsTerminated(fb, agenda[i].owes[1]) BY <3>4, <2>1 DEF Inv, Sound
    <3> QED BY <3>1, <3>2, <3>5, <2>3 DEF Depth, Count
  <2>6. Len(loop_stack) = Cardinality(BodiesFrom(1)) BY <2>4 DEF LoopInv, Nests, Depth, Count
  <2> QED BY <2>5, <2>6 DEF LoopNesting
<1> QED BY <1>1, LoopInvariant, PTL

\* A program whose breaks and nexts stand in loops that push a LoopCtx is lowered
\* without a terminator that goes back to the entry block of the function.
THEOREM EntryOnce == Spec => []EntryNotRejoined
<1>1. LoopInv => EntryNotRejoined
  <2> SUFFICES ASSUME LoopInv, Disciplined,
                      NEW b \in DOMAIN fb.term
               PROVE  Entry \notin Successors(fb.term[b])
    BY DEF EntryNotRejoined, Disciplined
  <2>1. fb.term \in Seq(Onwards) BY DEF LoopInv, Clean
  <2>2. fb.term[b] \in Onwards BY <2>1, LenProperties
  <2> QED BY <2>2 DEF Onwards
<1> QED BY <1>1, LoopInvariant, PTL

=============================================================================
