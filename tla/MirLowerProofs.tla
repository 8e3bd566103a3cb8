--------------------------- MODULE MirLowerProofs ---------------------------
(***************************************************************************)
(* Theorems about MirLower, for every bound on programs and every choice   *)
(* of arm lists, patterns and features.                                    *)
(*                                                                         *)
(* The inductive invariant says of the agenda that every frame has the     *)
(* children and owes the blocks its operation needs (Fits), that no block  *)
(* is owed twice and that lower_fn is at the bottom (Tidy); of the         *)
(* function that it is Sound for the owed blocks.                          *)
(***************************************************************************)
EXTENDS MirLower, MirFnProofs, FiniteSetTheorems

-----------------------------------------------------------------------------
(* The agenda                                                              *)

OwedBy(f) == {f.owes[j] : j \in 1..Len(f.owes)}
Waits(ag) == UNION {OwedBy(ag[i]) : i \in 1..Len(ag)}

Once(s) == \A j, l \in 1..Len(s) : s[j] = s[l] => j = l

BaseOps == {"fn_stmts", "fn_end"}

\* How many blocks a frame owes, but for "match_arm".
OwesOf(op) ==
    IF op \in {"if_then", "loop_test"} THEN 2
    ELSE IF op \in {"if_else", "guard_end", "loop_end", "fork_end"} THEN 1
    ELSE 0

\* A frame has what its operation takes from it.
Fits(f) ==
    /\ f.op \in {"stmts", "fn_stmts"} =>
          f.at >= 1 /\ (f.node.flag => Len(f.node.kids) >= 1)
    /\ f.op \in {"if_branch", "if_then"} =>
          Len(f.node.kids) = IF f.node.flag THEN 3 ELSE 2
    /\ f.op = "guard_test" => Len(f.node.kids) = 2
    /\ f.op \in {"match_switch", "match_arm"} =>
          Len(f.node.kids) = MatchKids(f.node.arms)
    /\ f.op = "match_switch" => f.at = 1
    /\ f.op = "match_arm" =>
          f.at \in 1..Len(f.node.arms) /\ Len(f.owes) = Len(f.node.arms) - f.at + 1
    /\ f.op \in {"loop_test", "fork_head"} => Len(f.node.kids) >= 1
    /\ f.op \in {"loop_test", "loop_end", "fork_end"} => f.hdr >= 1
    /\ f.op # "match_arm" => Len(f.owes) = OwesOf(f.op)
    /\ Once(f.owes)

FrameOK(f, n) == f \in FrameSet /\ Fits(f) /\ f.hdr <= n

Tidy(ag, n) ==
    /\ ag \in Seq(FrameSet)
    /\ \A i \in 1..Len(ag) : FrameOK(ag[i], n)
    /\ \A i, k \in 1..Len(ag) : i # k => OwedBy(ag[i]) \cap OwedBy(ag[k]) = {}
    /\ \A i \in 1..Len(ag) : ag[i].op \in BaseOps <=> i = Len(ag)

\* Frames that only send lowering into a child.
Descends(fs) ==
    /\ fs \in Seq(FrameSet)
    /\ \A i \in 1..Len(fs) :
          fs[i].op \in {"expr", "stmt"} /\ fs[i].owes = <<>> /\ fs[i].hdr = 0

LoopsOK(ls, n) ==
    /\ ls \in Seq([break_block : Block, continue_block : Block])
    /\ \A i \in 1..Len(ls) : ls[i].break_block \in 1..n /\ ls[i].continue_block \in 1..n

Inv ==
    /\ ast \in Seq(NodeSet)
    /\ Tidy(agenda, BlockCount(fb))
    /\ Sound(fb, Waits(agenda))
    /\ LoopsOK(loop_stack, BlockCount(fb))
    /\ Lowered => fb.terminated

-----------------------------------------------------------------------------

\* A longer function disturbs no frame and no loop.
LEMMA TidyGrows ==
    ASSUME NEW ag, NEW m \in Nat, NEW n \in Nat, m <= n, Tidy(ag, m)
    PROVE  Tidy(ag, n)
<1>1. \A i \in 1..Len(ag) : ag[i].hdr \in Nat
  BY LenProperties DEF Tidy, FrameOK, FrameSet
<1>2. \A i \in 1..Len(ag) : FrameOK(ag[i], n)
  <2> SUFFICES ASSUME NEW i \in 1..Len(ag) PROVE FrameOK(ag[i], n)
    OBVIOUS
  <2>1. FrameOK(ag[i], m) BY DEF Tidy
  <2> QED BY <1>1, <2>1 DEF FrameOK
<1> QED BY <1>2 DEF Tidy

LEMMA LoopsGrow ==
    ASSUME NEW ls, NEW m \in Nat, NEW n \in Nat, m <= n, LoopsOK(ls, m)
    PROVE  LoopsOK(ls, n)
BY DEF LoopsOK

\* The head is taken off.
LEMMA Pop ==
    ASSUME NEW ag, NEW n \in Nat, Tidy(ag, n), ag # <<>>
    PROVE  /\ Tidy(Tail(ag), n)
           /\ FrameOK(Head(ag), n)
           /\ Waits(ag) = OwedBy(Head(ag)) \cup Waits(Tail(ag))
           /\ OwedBy(Head(ag)) \cap Waits(Tail(ag)) = {}
           /\ Head(ag).op \in BaseOps <=> Tail(ag) = <<>>
<1> DEFINE t == Tail(ag)
<1>1. /\ ag \in Seq(FrameSet) /\ Len(ag) \in Nat \ {0} /\ Head(ag) = ag[1]
      /\ t \in Seq(FrameSet) /\ Len(t) = Len(ag) - 1
      /\ \A i \in 1..Len(t) : t[i] = ag[i + 1]
  BY HeadTailProperties, EmptySeq DEF Tidy
<1> HIDE DEF t
<1>e. t = <<>> <=> Len(t) = 0
  BY <1>1, EmptySeq
<1>2. /\ 1 \in 1..Len(ag) /\ \A i \in 1..Len(t) : i + 1 \in 1..Len(ag) /\ i + 1 # 1
      /\ \A i \in 1..Len(ag) : i = 1 \/ (i - 1 \in 1..Len(t) /\ (i - 1) + 1 = i)
  BY <1>1
<1>3. \A i \in 1..Len(ag) : i # 1 => i - 1 \in 1..Len(t) /\ ag[i] = t[i - 1]
  BY <1>1, <1>2
<1>4. Tidy(t, n)
  <2>1. \A i \in 1..Len(t) : FrameOK(t[i], n)
    BY <1>1, <1>2 DEF Tidy
  <2>2. \A i, k \in 1..Len(t) : i # k => OwedBy(t[i]) \cap OwedBy(t[k]) = {}
    <3> SUFFICES ASSUME NEW i \in 1..Len(t), NEW k \in 1..Len(t), i # k
                 PROVE  OwedBy(t[i]) \cap OwedBy(t[k]) = {}
      OBVIOUS
    <3>1. i + 1 \in 1..Len(ag) /\ k + 1 \in 1..Len(ag) /\ i + 1 # k + 1
      BY <1>1
    <3>2. t[i] = ag[i + 1] /\ t[k] = ag[k + 1]
      BY <1>1
    <3> QED BY <3>1, <3>2 DEF Tidy
  <2>3. \A i \in 1..Len(t) : t[i].op \in BaseOps <=> i = Len(t)
    <3> SUFFICES ASSUME NEW i \in 1..Len(t)
                 PROVE  t[i].op \in BaseOps <=> i = Len(t)
      OBVIOUS
    <3>1. i + 1 \in 1..Len(ag) /\ t[i] = ag[i + 1] /\ (i + 1 = Len(ag) <=> i = Len(t))
      BY <1>1
    <3> QED BY <3>1 DEF Tidy
  <2> QED BY <1>1, <2>1, <2>2, <2>3 DEF Tidy
<1>5. FrameOK(Head(ag), n)
  BY <1>1, <1>2 DEF Tidy
<1>6. Waits(ag) = OwedBy(Head(ag)) \cup Waits(t)
  <2>1. \A b \in Waits(ag) : b \in OwedBy(ag[1]) \cup Waits(t)
    BY <1>3 DEF Waits
  <2>2. OwedBy(ag[1]) \subseteq Waits(ag)
    BY <1>2 DEF Waits
  <2>3. \A i \in 1..Len(t) : OwedBy(t[i]) \subseteq Waits(ag)
    BY <1>1, <1>2 DEF Waits
  <2>4. Waits(t) \subseteq Waits(ag)
    BY <2>3 DEF Waits
  <2> QED BY <1>1, <2>1, <2>2, <2>4
<1>7. OwedBy(Head(ag)) \cap Waits(t) = {}
  <2>1. \A i \in 1..Len(t) : OwedBy(ag[1]) \cap OwedBy(t[i]) = {}
    <3> SUFFICES ASSUME NEW i \in 1..Len(t) PROVE OwedBy(ag[1]) \cap OwedBy(t[i]) = {}
      OBVIOUS
    <3>1. i + 1 \in 1..Len(ag) /\ 1 \in 1..Len(ag) /\ 1 # i + 1 /\ t[i] = ag[i + 1]
      BY <1>1, <1>2
    <3> QED BY <3>1 DEF Tidy
  <2> QED BY <1>1, <2>1 DEF Waits
<1>8. Head(ag).op \in BaseOps <=> t = <<>>
  <2>1. 1 = Len(ag) <=> Len(t) = 0 BY <1>1
  <2> QED BY <1>1, <1>2, <1>e, <2>1 DEF Tidy
<1> QED BY <1>4, <1>5, <1>6, <1>7, <1>8 DEF t

\* A frame is put on top.
LEMMA Push ==
    ASSUME NEW ag, NEW n \in Nat, NEW f, Tidy(ag, n), FrameOK(f, n),
           OwedBy(f) \cap Waits(ag) = {}, f.op \in BaseOps <=> ag = <<>>
    PROVE  /\ Tidy(<<f>> \o ag, n)
           /\ Waits(<<f>> \o ag) = OwedBy(f) \cup Waits(ag)
           /\ <<f>> \o ag # <<>>
<1> DEFINE s == <<f>> \o ag
<1>1. /\ ag \in Seq(FrameSet) /\ f \in FrameSet /\ Len(ag) \in Nat
      /\ ag = <<>> <=> Len(ag) = 0
  BY EmptySeq, LenProperties DEF Tidy, FrameOK
<1>2. <<f>> \in Seq(FrameSet) /\ Len(<<f>>) = 1 /\ <<f>>[1] = f
  BY <1>1
<1>3. s \in Seq(FrameSet) /\ Len(s) = 1 + Len(ag)
      /\ \A i \in 1..(1 + Len(ag)) : s[i] = IF i <= 1 THEN <<f>>[i] ELSE ag[i - 1]
  BY <1>1, <1>2, ConcatProperties
<1> HIDE DEF s
<1>4. /\ s[1] = f /\ 1 \in 1..Len(s)
      /\ \A i \in 1..Len(s) : i # 1 => i - 1 \in 1..Len(ag) /\ s[i] = ag[i - 1]
      /\ \A i \in 1..Len(ag) : i + 1 \in 1..Len(s) /\ s[i + 1] = ag[i]
  BY <1>1, <1>2, <1>3
<1>5. \A i \in 1..Len(s) : FrameOK(s[i], n)
  BY <1>4 DEF Tidy
<1>6. \A i \in 1..Len(ag) : OwedBy(f) \cap OwedBy(ag[i]) = {}
  BY DEF Waits
<1>7. \A i, k \in 1..Len(s) : i # k => OwedBy(s[i]) \cap OwedBy(s[k]) = {}
  <2> SUFFICES ASSUME NEW i \in 1..Len(s), NEW k \in 1..Len(s), i # k
               PROVE  OwedBy(s[i]) \cap OwedBy(s[k]) = {}
    OBVIOUS
  <2>1. CASE i = 1 BY <1>4, <1>6, <2>1
  <2>2. CASE k = 1 BY <1>4, <1>6, <2>2
  <2>3. CASE i # 1 /\ k # 1
    <3>1. i - 1 \in 1..Len(ag) /\ k - 1 \in 1..Len(ag) /\ i - 1 # k - 1
      BY <1>1, <1>3, <2>3
    <3>2. s[i] = ag[i - 1] /\ s[k] = ag[k - 1]
      BY <1>4, <2>3
    <3>3. OwedBy(ag[i - 1]) \cap OwedBy(ag[k - 1]) = {}
      BY <3>1 DEF Tidy
    <3> QED BY <3>2, <3>3
  <2> QED BY <2>1, <2>2, <2>3
<1>8. \A i \in 1..Len(s) : s[i].op \in BaseOps <=> i = Len(s)
  <2> SUFFICES ASSUME NEW i \in 1..Len(s) PROVE s[i].op \in BaseOps <=> i = Len(s)
    OBVIOUS
  <2>1. CASE i = 1 BY <1>1, <1>3, <1>4, <2>1
  <2>2. CASE i # 1
    <3>1. i - 1 = Len(ag) <=> i = Len(s) BY <1>1, <1>3
    <3> QED BY <1>4, <2>2, <3>1 DEF Tidy
  <2> QED BY <2>1, <2>2
<1>9. Waits(s) = OwedBy(f) \cup Waits(ag)
  <2>1. \A b \in Waits(s) : b \in OwedBy(f) \cup Waits(ag)
    BY <1>4 DEF Waits
  <2>2. OwedBy(f) \subseteq Waits(s)
    BY <1>4 DEF Waits
  <2>3. \A i \in 1..Len(ag) : OwedBy(ag[i]) \subseteq Waits(s)
    BY <1>4 DEF Waits
  <2>4. Waits(ag) \subseteq Waits(s)
    BY <2>3 DEF Waits
  <2> QED BY <2>1, <2>2, <2>4
<1>10. s # <<>> BY <1>1, <1>3
<1> QED BY <1>3, <1>5, <1>7, <1>8, <1>9, <1>10 DEF s, Tidy

\* Frames that descend owe nothing.
LEMMA DescendsOK ==
    ASSUME NEW fs, NEW n \in Nat, Descends(fs), NEW i \in 1..Len(fs)
    PROVE  FrameOK(fs[i], n) /\ OwedBy(fs[i]) = {} /\ fs[i].op \notin BaseOps
<1>1. fs[i] \in FrameSet /\ fs[i].op \in {"expr", "stmt"}
      /\ fs[i].owes = <<>> /\ fs[i].hdr = 0
  BY LenProperties DEF Descends
<1>2. Fits(fs[i]) /\ OwedBy(fs[i]) = {}
  BY <1>1 DEF Fits, Once, OwesOf, OwedBy
<1> QED BY <1>1, <1>2 DEF FrameOK, BaseOps

LEMMA Prefix ==
    ASSUME NEW ag, NEW n \in Nat, NEW fs, Tidy(ag, n), Descends(fs),
           ag # <<>> \/ fs = <<>>
    PROVE  /\ Tidy(fs \o ag, n)
           /\ Waits(fs \o ag) = Waits(ag)
           /\ ag # <<>> => fs \o ag # <<>>
<1> DEFINE s == fs \o ag
<1>1. /\ ag \in Seq(FrameSet) /\ fs \in Seq(FrameSet)
      /\ Len(ag) \in Nat /\ Len(fs) \in Nat
      /\ ag # <<>> => Len(ag) # 0
  BY EmptySeq, LenProperties DEF Tidy, Descends
<1>2. s \in Seq(FrameSet) /\ Len(s) = Len(fs) + Len(ag)
      /\ \A i \in 1..(Len(fs) + Len(ag)) :
            s[i] = IF i <= Len(fs) THEN fs[i] ELSE ag[i - Len(fs)]
  BY <1>1, ConcatProperties
<1>3. CASE fs = <<>>
  BY <1>1, <1>3, ConcatEmptySeq
<1>4. CASE ag # <<>>
  <2> HIDE DEF s
  <2>a. ASSUME NEW i \in 1..Len(s)
        PROVE  \/ i \in 1..Len(fs) /\ s[i] = fs[i]
               \/ i \notin 1..Len(fs) /\ i - Len(fs) \in 1..Len(ag) /\ s[i] = ag[i - Len(fs)]
    <3>1. i \in 1..(Len(fs) + Len(ag)) BY <1>2
    <3>2. s[i] = IF i <= Len(fs) THEN fs[i] ELSE ag[i - Len(fs)] BY <1>2, <3>1
    <3> QED BY <1>1, <3>1, <3>2
  <2>b. ASSUME NEW i \in 1..Len(ag)
        PROVE  i + Len(fs) \in 1..Len(s) /\ s[i + Len(fs)] = ag[i]
    <3>1. i + Len(fs) \in 1..(Len(fs) + Len(ag)) /\ ~(i + Len(fs) <= Len(fs))
          /\ (i + Len(fs)) - Len(fs) = i
      BY <1>1
    <3> QED BY <1>2, <3>1
  <2>1. /\ \A i \in 1..Len(s) :
              \/ i \in 1..Len(fs) /\ s[i] = fs[i]
              \/ i \notin 1..Len(fs) /\ i - Len(fs) \in 1..Len(ag) /\ s[i] = ag[i - Len(fs)]
        /\ \A i \in 1..Len(ag) : i + Len(fs) \in 1..Len(s) /\ s[i + Len(fs)] = ag[i]
    BY <2>a, <2>b
  <2>2. \A i \in 1..Len(s) : FrameOK(s[i], n)
    BY <2>1, DescendsOK DEF Tidy
  <2>3. \A i, k \in 1..Len(s) : i # k => OwedBy(s[i]) \cap OwedBy(s[k]) = {}
    <3> SUFFICES ASSUME NEW i \in 1..Len(s), NEW k \in 1..Len(s), i # k
                 PROVE  OwedBy(s[i]) \cap OwedBy(s[k]) = {}
      OBVIOUS
    <3>1. CASE i \in 1..Len(fs) BY <2>1, <3>1, DescendsOK
    <3>2. CASE k \in 1..Len(fs) BY <2>1, <3>2, DescendsOK
    <3>3. CASE i \notin 1..Len(fs) /\ k \notin 1..Len(fs)
      <4>1. i - Len(fs) # k - Len(fs)
        BY <1>1, <1>2
      <4>2. i - Len(fs) \in 1..Len(ag) /\ k - Len(fs) \in 1..Len(ag)
            /\ s[i] = ag[i - Len(fs)] /\ s[k] = ag[k - Len(fs)]
        BY <2>1, <3>3
      <4>3. OwedBy(ag[i - Len(fs)]) \cap OwedBy(ag[k - Len(fs)]) = {}
        BY <4>1, <4>2 DEF Tidy
      <4> QED BY <4>2, <4>3
    <3> QED BY <3>1, <3>2, <3>3
  <2>4. \A i \in 1..Len(s) : s[i].op \in BaseOps <=> i = Len(s)
    <3> SUFFICES ASSUME NEW i \in 1..Len(s) PROVE s[i].op \in BaseOps <=> i = Len(s)
      OBVIOUS
    <3>1. CASE i \in 1..Len(fs)
      <4>1. i # Len(s) BY <1>1, <1>2, <1>4, <3>1
      <4> QED BY <2>1, <3>1, <4>1, DescendsOK
    <3>2. CASE i \notin 1..Len(fs)
      <4>1. i - Len(fs) = Len(ag) <=> i = Len(s) BY <1>1, <1>2
      <4>2. i - Len(fs) \in 1..Len(ag) /\ s[i] = ag[i - Len(fs)] BY <2>1, <3>2
      <4>3. ag[i - Len(fs)].op \in BaseOps <=> i - Len(fs) = Len(ag)
        BY <4>2 DEF Tidy
      <4> QED BY <4>1, <4>2, <4>3
    <3> QED BY <3>1, <3>2
  <2>5. Waits(s) = Waits(ag)
    <3>1. \A i \in 1..Len(s) : OwedBy(s[i]) \subseteq Waits(ag)
      BY <2>1, DescendsOK, ZenonT(60) DEF Waits
    <3>2. \A i \in 1..Len(ag) : OwedBy(ag[i]) \subseteq Waits(s)
      BY <2>1 DEF Waits
    <3>3. Waits(s) \subseteq Waits(ag) BY <3>1 DEF Waits
    <3>4. Waits(ag) \subseteq Waits(s) BY <3>2 DEF Waits
    <3> QED BY <3>3, <3>4
  <2>6. s # <<>> BY <1>1, <1>2, <1>4, EmptySeq
  <2> QED BY <1>2, <2>2, <2>3, <2>4, <2>5, <2>6 DEF s, Tidy
<1> QED BY <1>3, <1>4

\* A step that only descends from the head, whose call is at its end.
LEMMA Ends ==
    ASSUME NEW ag, NEW m \in Nat, NEW n \in Nat, m <= n, NEW fs, Tidy(ag, m),
           ag # <<>>, Head(ag).op \notin BaseOps, Descends(fs)
    PROVE  /\ Tidy(fs \o Tail(ag), n)
           /\ Waits(fs \o Tail(ag)) = Waits(ag) \ OwedBy(Head(ag))
           /\ fs \o Tail(ag) # <<>>
<1>1. Tidy(ag, n) BY TidyGrows
<1>2. /\ Tidy(Tail(ag), n) /\ Tail(ag) # <<>>
      /\ Waits(Tail(ag)) = Waits(ag) \ OwedBy(Head(ag))
  BY <1>1, Pop
<1> QED BY <1>2, Prefix

\* A step after which the call at the head has something left to do.
LEMMA GoesOn ==
    ASSUME NEW ag, NEW m \in Nat, NEW n \in Nat, m <= n, NEW fs, NEW f, Tidy(ag, m),
           ag # <<>>, Descends(fs), FrameOK(f, n),
           Head(ag).op \in BaseOps <=> f.op \in BaseOps,
           OwedBy(f) \cap (Waits(ag) \ OwedBy(Head(ag))) = {}
    PROVE  /\ Tidy(Append(fs, f) \o Tail(ag), n)
           /\ Waits(Append(fs, f) \o Tail(ag)) =
                 OwedBy(f) \cup (Waits(ag) \ OwedBy(Head(ag)))
           /\ Append(fs, f) \o Tail(ag) # <<>>
<1> DEFINE t == Tail(ag)
           u == <<f>> \o t
<1>1. Tidy(ag, n) BY TidyGrows
<1>2. /\ Tidy(t, n) /\ Waits(t) = Waits(ag) \ OwedBy(Head(ag))
      /\ t = <<>> <=> Head(ag).op \in BaseOps
  BY <1>1, Pop
<1>3. t \in Seq(FrameSet) /\ f \in FrameSet /\ fs \in Seq(FrameSet)
  BY <1>2 DEF Tidy, FrameOK, Descends
<1>4. Append(fs, f) \o t = fs \o u
  <2>1. Append(fs, f) = fs \o <<f>> BY <1>3, AppendIsConcat
  <2>2. <<f>> \in Seq(FrameSet) BY <1>3
  <2> QED BY <1>3, <2>1, <2>2, ConcatAssociative
<1> HIDE DEF t
<1>5. Tidy(u, n) /\ Waits(u) = OwedBy(f) \cup Waits(t) /\ u # <<>>
  BY <1>2, Push
<1> HIDE DEF u
<1>6. Tidy(fs \o u, n) /\ Waits(fs \o u) = Waits(u) /\ fs \o u # <<>>
  BY <1>5, Prefix
<1> QED BY <1>2, <1>4, <1>5, <1>6 DEF t

-----------------------------------------------------------------------------
(* Nodes and frames have their types                                       *)

LEMMA NodeOK ==
    ASSUME NEW k \in NodeKinds, NEW kids \in Seq(Nat), NEW flag \in BOOLEAN
    PROVE  /\ Node(k, kids, flag) \in NodeSet
           /\ Node(k, kids, flag).kids = kids /\ Node(k, kids, flag).flag = flag
           /\ Node(k, kids, flag).arms = <<>>
<1>1. <<>> \in Seq(ArmSet) /\ [k |-> "cond", d |-> 1] \in PatternSet
  BY DEF PatternSet
<1> QED BY <1>1 DEF Node, NodeSet

LEMMA KidsTyped ==
    ASSUME NEW node \in NodeSet
    PROVE  /\ node.kids \in Seq(Nat) /\ Len(node.kids) \in Nat
           /\ \A i \in 1..Len(node.kids) : node.kids[i] \in Nat
<1>1. node.kids \in Seq(Nat) BY DEF NodeSet
<1> QED BY <1>1, LenProperties

LEMMA ThenTyped ==
    ASSUME NEW op \in Ops, NEW e \in Nat, NEW node \in NodeSet
    PROVE  /\ Then(op, e, node) \in FrameSet
           /\ Then(op, e, node).op = op
           /\ Then(op, e, node).node = node
           /\ Then(op, e, node).owes = <<>>
           /\ Then(op, e, node).hdr = 0
           /\ Then(op, e, node).at = 1
BY DEF Then, Frame, FrameSet

LEMMA LeafOK == Leaf \in NodeSet
<1>1. <<>> \in Seq(Nat) /\ "operands" \in NodeKinds
  BY DEF NodeKinds
<1> QED BY <1>1, NodeOK DEF Leaf

\* A call that has only to come to its end.
Plain(op) == op \in {"call_end", "break_end", "ret_end", "fn_end"}

LEMMA PlainOK ==
    ASSUME NEW op, Plain(op), NEW e \in Nat, NEW n \in Nat
    PROVE  /\ FrameOK(Then(op, e, Leaf), n) /\ Then(op, e, Leaf).owes = <<>>
           /\ Then(op, e, Leaf).op = op
<1>1. op \in Ops BY DEF Plain, Ops
<1>2. /\ Then(op, e, Leaf) \in FrameSet /\ Then(op, e, Leaf).owes = <<>>
      /\ Then(op, e, Leaf).op = op /\ Then(op, e, Leaf).hdr = 0
      /\ Then(op, e, Leaf).at = 1 /\ Then(op, e, Leaf).node = Leaf
  BY <1>1, LeafOK, ThenTyped
<1> QED BY <1>2 DEF FrameOK, Fits, OwesOf, Once, Plain, BaseOps

LEMMA LowerOne ==
    ASSUME NEW e \in Nat
    PROVE  Descends(<<LowerExpr(e)>>) /\ Descends(<<LowerStmt(e)>>) /\ Descends(<<>>)
<1>1. "expr" \in Ops /\ "stmt" \in Ops BY DEF Ops
<1>2. /\ LowerExpr(e) \in FrameSet /\ LowerExpr(e).op = "expr"
      /\ LowerExpr(e).owes = <<>> /\ LowerExpr(e).hdr = 0
  BY <1>1, LeafOK, ThenTyped DEF LowerExpr
<1>3. /\ LowerStmt(e) \in FrameSet /\ LowerStmt(e).op = "stmt"
      /\ LowerStmt(e).owes = <<>> /\ LowerStmt(e).hdr = 0
  BY <1>1, LeafOK, ThenTyped DEF LowerStmt
<1> QED BY <1>2, <1>3 DEF Descends

LEMMA LowerAllOK ==
    ASSUME NEW es \in Seq(Nat)
    PROVE  Descends(LowerAll(es))
<1>1. Len(es) \in Nat /\ \A i \in 1..Len(es) : es[i] \in Nat
  BY LenProperties
<1>2. \A i \in 1..Len(es) : /\ LowerExpr(es[i]) \in FrameSet
                             /\ LowerExpr(es[i]).op = "expr"
                             /\ LowerExpr(es[i]).owes = <<>>
                             /\ LowerExpr(es[i]).hdr = 0
  <2>1. "expr" \in Ops BY DEF Ops
  <2> QED BY <1>1, <2>1, LeafOK, ThenTyped DEF LowerExpr
<1>3. LowerAll(es) \in Seq(FrameSet) /\ Len(LowerAll(es)) = Len(es)
      /\ \A i \in 1..Len(es) : LowerAll(es)[i] = LowerExpr(es[i])
  BY <1>1, <1>2, IsASeq DEF LowerAll
<1> QED BY <1>2, <1>3 DEF Descends

LEMMA NewKidsOK ==
    ASSUME ast \in Seq(NodeSet), NEW n \in Nat
    PROVE  /\ NewKids(n) \in Seq(Nat) /\ Len(NewKids(n)) = n
           /\ \A i \in 1..n : NewKids(n)[i] \in Nat
<1>1. Len(ast) \in Nat BY LenProperties
<1>2. \A i \in 1..n : Len(ast) + i \in Nat BY <1>1
<1> QED BY <1>2, IsASeq DEF NewKids

LEMMA ReadOK ==
    ASSUME ast \in Seq(NodeSet), NEW e, NEW node \in NodeSet, Read(e, node)
    PROVE  ast' \in Seq(NodeSet)
<1> DEFINE a == [ast EXCEPT ![e] = node]
           b == [i \in 1..Len(node.kids) |-> Unread(node, i)]
<1>1. a \in Seq(NodeSet)
  <2>1. Len(ast) \in Nat /\ ast \in [1..Len(ast) -> NodeSet] BY LenProperties
  <2>2. a \in [1..Len(ast) -> NodeSet] BY <2>1
  <2> QED BY <2>1, <2>2
<1>2. b \in Seq(NodeSet)
  <2>1. node.kids \in Seq(Nat) BY DEF NodeSet
  <2>2. Len(node.kids) \in Nat BY <2>1, LenProperties
  <2>3. Node("call", <<>>, FALSE) \in NodeSet
    <3>1. <<>> \in Seq(Nat) /\ "call" \in NodeKinds BY DEF NodeKinds
    <3> QED BY <3>1, NodeOK
  <2>4. \A i \in 1..Len(node.kids) : Unread(node, i) \in NodeSet
    BY <2>3, LeafOK DEF Unread
  <2> QED BY <2>2, <2>4, IsASeq
<1>3. ast' = a \o b BY DEF Read
<1> HIDE DEF a, b
<1> QED BY <1>1, <1>2, <1>3, ConcatProperties

-----------------------------------------------------------------------------
(* What every action relies on                                             *)

LEMMA TopOK ==
    ASSUME Inv, agenda # <<>>
    PROVE  /\ BlockCount(fb) \in Nat \ {0} /\ fb \in Builder /\ ast \in Seq(NodeSet)
           /\ FrameOK(Top, BlockCount(fb))
           /\ Top.op \in Ops /\ Top.e \in Nat /\ Top.node \in NodeSet
           /\ Top.owes \in Seq(Block) /\ Top.hdr \in Nat /\ Top.at \in Nat
           /\ Top.node.kids \in Seq(Nat) /\ Len(Top.node.kids) \in Nat
           /\ Top.node.arms \in Seq(ArmSet) /\ Len(Top.node.arms) \in Nat
           /\ Top.node.flag \in BOOLEAN
           /\ \A i \in 1..Len(Top.node.kids) : Kid(i) \in Nat
           /\ OwedBy(Top) \subseteq Waits(agenda)
           /\ Waits(agenda) \subseteq 1..BlockCount(fb)
<1>1. BlockCount(fb) \in Nat \ {0} /\ fb \in Builder
  BY SoundLen DEF Inv
<1>2. FrameOK(Top, BlockCount(fb)) /\ OwedBy(Top) \subseteq Waits(agenda)
  BY <1>1, Pop DEF Inv, Top
<1>3. /\ Top.op \in Ops /\ Top.e \in Nat /\ Top.node \in NodeSet
      /\ Top.owes \in Seq(Block) /\ Top.hdr \in Nat /\ Top.at \in Nat
  BY <1>2 DEF FrameOK, FrameSet
<1>4. /\ Top.node.kids \in Seq(Nat) /\ Top.node.arms \in Seq(ArmSet)
      /\ Top.node.flag \in BOOLEAN
  BY <1>3 DEF NodeSet
<1>5. \A i \in 1..Len(Top.node.kids) : Kid(i) \in Nat
  BY <1>4, LenProperties DEF Kid
<1>6. Waits(agenda) \subseteq 1..BlockCount(fb)
  BY DEF Inv, Sound
<1> QED BY <1>1, <1>2, <1>3, <1>4, <1>5, <1>6, LenProperties DEF Inv

\* The call at the head is at its end, but for what it descends into.
LEMMA EndStep ==
    ASSUME Inv, agenda # <<>>, Top.op \notin BaseOps, ast' \in Seq(NodeSet),
           NEW fs, Descends(fs), Do(fs), NEW k \in Nat,
           Leads(fb, fb', k, Waits(agenda) \ OwedBy(Top)),
           LoopsOK(loop_stack', BlockCount(fb'))
    PROVE  Inv' /\ Keeps(fb, fb')
<1>1. BlockCount(fb) \in Nat /\ BlockCount(fb') \in Nat /\ BlockCount(fb) <= BlockCount(fb')
  BY TopOK DEF Leads
<1>2. Tidy(agenda, BlockCount(fb)) BY DEF Inv
<1>3. /\ Tidy(agenda', BlockCount(fb')) /\ agenda' # <<>>
      /\ Waits(agenda') = Waits(agenda) \ OwedBy(Top)
  BY <1>1, <1>2, Ends DEF Do, Top
<1> QED BY <1>3 DEF Inv, Leads, Lowered

\* It goes on as frame f.
LEMMA OnStep ==
    ASSUME Inv, agenda # <<>>, ast' \in Seq(NodeSet),
           NEW fs, Descends(fs), NEW f, FrameOK(f, BlockCount(fb')), Do(Append(fs, f)),
           f.op \in BaseOps <=> Top.op \in BaseOps,
           OwedBy(f) \cap (Waits(agenda) \ OwedBy(Top)) = {}, NEW k \in Nat,
           Leads(fb, fb', k, OwedBy(f) \cup (Waits(agenda) \ OwedBy(Top))),
           LoopsOK(loop_stack', BlockCount(fb'))
    PROVE  Inv' /\ Keeps(fb, fb')
<1>1. BlockCount(fb) \in Nat /\ BlockCount(fb') \in Nat /\ BlockCount(fb) <= BlockCount(fb')
  BY TopOK DEF Leads
<1>2. Tidy(agenda, BlockCount(fb)) BY DEF Inv
<1>3. agenda' = Append(fs, f) \o Tail(agenda) BY DEF Do
<1>4. /\ Head(agenda).op \in BaseOps <=> f.op \in BaseOps
      /\ OwedBy(f) \cap (Waits(agenda) \ OwedBy(Head(agenda))) = {}
  BY DEF Top
<1>5. /\ Tidy(Append(fs, f) \o Tail(agenda), BlockCount(fb'))
      /\ Append(fs, f) \o Tail(agenda) # <<>>
      /\ Waits(Append(fs, f) \o Tail(agenda)) =
            OwedBy(f) \cup (Waits(agenda) \ OwedBy(Head(agenda)))
  BY <1>1, <1>2, <1>4, GoesOn
<1>6. /\ Tidy(agenda', BlockCount(fb')) /\ agenda' # <<>>
      /\ Waits(agenda') = OwedBy(f) \cup (Waits(agenda) \ OwedBy(Top))
  BY <1>3, <1>5 DEF Top
<1> QED BY <1>6 DEF Inv, Leads, Lowered

LEMMA Still ==
    ASSUME Inv, UNCHANGED fb
    PROVE  Leads(fb, fb', 0, Waits(agenda))
BY SoundLen, KeepsRefl DEF Inv, Leads

LEMMA LoopsStill ==
    ASSUME Inv, UNCHANGED loop_stack, BlockCount(fb) <= BlockCount(fb'),
           BlockCount(fb') \in Nat
    PROVE  LoopsOK(loop_stack', BlockCount(fb'))
BY SoundLen, LoopsGrow DEF Inv

LEMMA Nothing ==
    ASSUME NEW f, f.owes = <<>>
    PROVE  OwedBy(f) = {}
BY DEF OwedBy

\* Reading a node, when that adds no block: lowering descends into children,
\* after which the call may have a rest that owes nothing.
LEMMA ReadStep ==
    ASSUME Inv, Reading, NEW node \in NodeSet, Read(Top.e, node),
           NEW fs, Descends(fs), UNCHANGED <<fb, loop_stack>>,
           \/ Do(fs)
           \/ \E f : /\ FrameOK(f, BlockCount(fb)) /\ f.owes = <<>>
                      /\ f.op \notin BaseOps /\ Do(Append(fs, f))
    PROVE  Inv' /\ Keeps(fb, fb')
<1>1. /\ agenda # <<>> /\ Top.op \notin BaseOps /\ OwedBy(Top) = {}
  <2>1. agenda # <<>> /\ Top.op \in {"expr", "stmt"} BY DEF Reading, Running
  <2>2. Fits(Top) /\ Top.owes \in Seq(Block) BY <2>1, TopOK DEF FrameOK
  <2>3. Len(Top.owes) = 0 BY <2>1, <2>2 DEF Fits, OwesOf
  <2>4. Top.owes = <<>> BY <2>2, <2>3, EmptySeq
  <2> QED BY <2>1, <2>4, Nothing DEF BaseOps
<1>2. ast' \in Seq(NodeSet) BY ReadOK DEF Inv
<1>3. Leads(fb, fb', 0, Waits(agenda) \ OwedBy(Top))
  BY <1>1, Still
<1>4. LoopsOK(loop_stack', BlockCount(fb')) BY DEF Inv
<1>5. CASE Do(fs)
  BY <1>1, <1>2, <1>3, <1>4, <1>5, EndStep
<1>6. ASSUME NEW f, FrameOK(f, BlockCount(fb)), f.owes = <<>>,
             f.op \notin BaseOps, Do(Append(fs, f))
      PROVE  Inv' /\ Keeps(fb, fb')
  <2>1. OwedBy(f) = {} BY <1>6, Nothing
  <2>2. Leads(fb, fb', 0, OwedBy(f) \cup (Waits(agenda) \ OwedBy(Top)))
    BY <1>3, <2>1
  <2>3. FrameOK(f, BlockCount(fb')) BY <1>6
  <2> QED BY <1>1, <1>2, <1>4, <1>6, <2>1, <2>2, <2>3, OnStep
<1> QED BY <1>5, <1>6

-----------------------------------------------------------------------------
(* Actions that read a node and add no block                               *)

LEMMA WithPat ==
    ASSUME NEW base \in NodeSet, NEW pat \in PatternSet
    PROVE  /\ [base EXCEPT !.pat = pat] \in NodeSet
           /\ [base EXCEPT !.pat = pat].kids = base.kids
           /\ [base EXCEPT !.pat = pat].flag = base.flag
BY DEF NodeSet

LEMMA WithLabel ==
    ASSUME NEW base \in NodeSet, NEW label \in Nat
    PROVE  [base EXCEPT !.label = label] \in NodeSet
BY DEF NodeSet

LEMMA WithArms ==
    ASSUME NEW base \in NodeSet, NEW arms \in Seq(ArmSet)
    PROVE  /\ [base EXCEPT !.arms = arms] \in NodeSet
           /\ [base EXCEPT !.arms = arms].kids = base.kids
           /\ [base EXCEPT !.arms = arms].arms = arms
BY DEF NodeSet

LEMMA OneFrame == ASSUME NEW f PROVE <<f>> = Append(<<>>, f)
OBVIOUS

LEMMA TwoFrames == ASSUME NEW f, NEW g PROVE <<f, g>> = Append(<<f>>, g)
OBVIOUS

\* A call that goes on after a child and owes nothing yet.
Begun(op) == op \in {"stmts", "if_branch", "guard_test", "match_switch", "fork_head"}

LEMMA BegunOK ==
    ASSUME NEW op, Begun(op), NEW e \in Nat, NEW node \in NodeSet, NEW n \in Nat,
           op = "stmts" => (node.flag => Len(node.kids) >= 1),
           op = "if_branch" => Len(node.kids) = IF node.flag THEN 3 ELSE 2,
           op = "guard_test" => Len(node.kids) = 2,
           op = "match_switch" => Len(node.kids) = MatchKids(node.arms),
           op = "fork_head" => Len(node.kids) >= 1
    PROVE  /\ FrameOK(Then(op, e, node), n) /\ Then(op, e, node).owes = <<>>
           /\ Then(op, e, node).op \notin BaseOps
<1>1. op \in Ops BY DEF Begun, Ops
<1>2. /\ Then(op, e, node) \in FrameSet /\ Then(op, e, node).owes = <<>>
      /\ Then(op, e, node).op = op /\ Then(op, e, node).hdr = 0
      /\ Then(op, e, node).at = 1 /\ Then(op, e, node).node = node
  BY <1>1, ThenTyped
<1> QED BY <1>2 DEF FrameOK, Fits, OwesOf, Once, Begun, BaseOps

LEMMA ReadingTop ==
    ASSUME Inv, Reading
    PROVE  /\ agenda # <<>> /\ Top.op \in {"expr", "stmt"} /\ Top.op \notin BaseOps
           /\ Top.e \in Nat /\ ast \in Seq(NodeSet) /\ BlockCount(fb) \in Nat \ {0}
           /\ Top.owes = <<>> /\ OwedBy(Top) = {}
<1>1. agenda # <<>> /\ Top.op \in {"expr", "stmt"} BY DEF Reading, Running
<1>2. Fits(Top) /\ Top.owes \in Seq(Block) BY <1>1, TopOK DEF FrameOK
<1>3. Len(Top.owes) = 0 BY <1>1, <1>2 DEF Fits, OwesOf
<1>4. Top.owes = <<>> BY <1>2, <1>3, EmptySeq
<1> QED BY <1>1, <1>4, TopOK, Nothing DEF BaseOps

LEMMA VisitOperandsStep == Inv /\ VisitOperands => Inv' /\ Keeps(fb, fb')
<1> SUFFICES ASSUME Inv, NEW n \in 0..MaxOperands, Reading,
                    Read(Top.e, Node("operands", NewKids(n), FALSE)),
                    Do(LowerAll(NewKids(n))), UNCHANGED <<fb, loop_stack>>
             PROVE  Inv' /\ Keeps(fb, fb')
  BY DEF VisitOperands
<1>1. n \in Nat /\ "operands" \in NodeKinds BY ConstantsAssumption DEF NodeKinds
<1>2. NewKids(n) \in Seq(Nat) BY <1>1, ReadingTop, NewKidsOK
<1>3. Node("operands", NewKids(n), FALSE) \in NodeSet BY <1>1, <1>2, NodeOK
<1>4. Descends(LowerAll(NewKids(n))) BY <1>2, LowerAllOK
<1> QED BY <1>3, <1>4, ReadStep

LEMMA VisitCallStep == Inv /\ VisitCall => Inv' /\ Keeps(fb, fb')
<1> SUFFICES ASSUME Inv, NEW n \in 1..MaxOperands, Reading,
                    Read(Top.e, Node("call", NewKids(n), FALSE)),
                    Do(Append(LowerAll(NewKids(n)), Then("call_end", Top.e, Leaf))),
                    UNCHANGED <<fb, loop_stack>>
             PROVE  Inv' /\ Keeps(fb, fb')
  BY DEF VisitCall
<1>1. n \in Nat /\ "call" \in NodeKinds BY ConstantsAssumption DEF NodeKinds
<1>2. NewKids(n) \in Seq(Nat) BY <1>1, ReadingTop, NewKidsOK
<1>3. Node("call", NewKids(n), FALSE) \in NodeSet BY <1>1, <1>2, NodeOK
<1>4. Descends(LowerAll(NewKids(n))) BY <1>2, LowerAllOK
<1> DEFINE f == Then("call_end", Top.e, Leaf)
<1>5. FrameOK(f, BlockCount(fb)) /\ f.owes = <<>> /\ f.op \notin BaseOps
  BY ReadingTop, PlainOK DEF Plain, BaseOps
<1> HIDE DEF f
<1>6. Do(Append(LowerAll(NewKids(n)), f)) BY DEF f
<1> QED BY <1>3, <1>4, <1>5, <1>6, ReadStep

LEMMA VisitReturnStep == Inv /\ VisitReturn => Inv' /\ Keeps(fb, fb')
<1> SUFFICES ASSUME Inv, NEW n \in {0, 1}, Reading,
                    Read(Top.e, Node("ret", NewKids(n), FALSE)),
                    Do(Append(LowerAll(NewKids(n)), Then("ret_end", Top.e, Leaf))),
                    UNCHANGED <<fb, loop_stack>>
             PROVE  Inv' /\ Keeps(fb, fb')
  BY DEF VisitReturn
<1>1. n \in Nat /\ "ret" \in NodeKinds BY DEF NodeKinds
<1>2. NewKids(n) \in Seq(Nat) BY <1>1, ReadingTop, NewKidsOK
<1>3. Node("ret", NewKids(n), FALSE) \in NodeSet BY <1>1, <1>2, NodeOK
<1>4. Descends(LowerAll(NewKids(n))) BY <1>2, LowerAllOK
<1> DEFINE f == Then("ret_end", Top.e, Leaf)
<1>5. FrameOK(f, BlockCount(fb)) /\ f.owes = <<>> /\ f.op \notin BaseOps
  BY ReadingTop, PlainOK DEF Plain, BaseOps
<1> HIDE DEF f
<1>6. Do(Append(LowerAll(NewKids(n)), f)) BY DEF f
<1> QED BY <1>3, <1>4, <1>5, <1>6, ReadStep

LEMMA VisitBlockStep == Inv /\ VisitBlock => Inv' /\ Keeps(fb, fb')
<1> SUFFICES ASSUME Inv, NEW m \in 0..MaxOperands, NEW tail \in BOOLEAN, Reading,
                    Read(Top.e, Node("block", NewKids(m + IF tail THEN 1 ELSE 0), tail)),
                    Do(<<Then("stmts", Top.e,
                              Node("block", NewKids(m + IF tail THEN 1 ELSE 0), tail))>>),
                    UNCHANGED <<fb, loop_stack>>
             PROVE  Inv' /\ Keeps(fb, fb')
  BY DEF VisitBlock
<1> DEFINE n == m + IF tail THEN 1 ELSE 0
           node == Node("block", NewKids(n), tail)
           f == Then("stmts", Top.e, node)
<1>1. n \in Nat /\ "block" \in NodeKinds /\ (tail => n >= 1)
  BY ConstantsAssumption DEF NodeKinds
<1>2. Do(<<f>>) /\ Read(Top.e, node) OBVIOUS
<1> HIDE DEF n
<1>3. NewKids(n) \in Seq(Nat) /\ Len(NewKids(n)) = n BY <1>1, ReadingTop, NewKidsOK
<1>4. node \in NodeSet /\ node.flag = tail /\ Len(node.kids) = n
  BY <1>1, <1>3, NodeOK
<1> HIDE DEF node
<1>5. FrameOK(f, BlockCount(fb)) /\ f.owes = <<>> /\ f.op \notin BaseOps
  BY <1>1, <1>4, ReadingTop, BegunOK DEF Begun
<1> HIDE DEF f
<1>6. Do(Append(<<>>, f)) /\ Descends(<<>>) BY <1>2, OneFrame, ReadingTop, LowerOne
<1> QED BY <1>2, <1>4, <1>5, <1>6, ReadStep

LEMMA VisitIfStep == Inv /\ VisitIf => Inv' /\ Keeps(fb, fb')
<1> SUFFICES ASSUME Inv, NEW else \in BOOLEAN, NEW pat \in Patterns \cup {Leaf.pat}, Reading,
                    NEW node,
                    node = [Node("if", NewKids(IF else THEN 3 ELSE 2), else)
                              EXCEPT !.pat = pat],
                    Read(Top.e, node),
                    Do(<<LowerExpr(node.kids[1]), Then("if_branch", Top.e, node)>>),
                    UNCHANGED <<fb, loop_stack>>
             PROVE  Inv' /\ Keeps(fb, fb')
  BY DEF VisitIf
<1> DEFINE n == IF else THEN 3 ELSE 2
           base == Node("if", NewKids(n), else)
           f == Then("if_branch", Top.e, node)
<1>1. n \in Nat /\ 1 \in 1..n /\ "if" \in NodeKinds
  BY DEF NodeKinds
<1> HIDE DEF n
<1>2. pat \in PatternSet
  <2>1. Leaf.pat \in PatternSet BY LeafOK DEF NodeSet
  <2> QED BY <2>1, ConstantsAssumption
<1>3. NewKids(n) \in Seq(Nat) /\ Len(NewKids(n)) = n /\ NewKids(n)[1] \in Nat
  BY <1>1, ReadingTop, NewKidsOK
<1>4. base \in NodeSet /\ base.flag = else /\ base.kids = NewKids(n)
  BY <1>1, <1>3, NodeOK
<1>5. node = [base EXCEPT !.pat = pat] BY DEF n
<1> HIDE DEF base
<1>6. /\ node \in NodeSet /\ node.flag = else /\ node.kids = NewKids(n)
      /\ Len(node.kids) = n
  <2>1. /\ [base EXCEPT !.pat = pat] \in NodeSet
        /\ [base EXCEPT !.pat = pat].kids = base.kids
        /\ [base EXCEPT !.pat = pat].flag = base.flag
    BY <1>2, <1>4, WithPat
  <2> QED BY <1>3, <1>4, <1>5, <2>1
<1>7. FrameOK(f, BlockCount(fb)) /\ f.owes = <<>> /\ f.op \notin BaseOps
  <2>1. Len(node.kids) = IF node.flag THEN 3 ELSE 2 BY <1>6 DEF n
  <2> QED BY <1>6, <2>1, ReadingTop, BegunOK, ZenonT(60) DEF Begun
<1> HIDE DEF f
<1>8. node.kids[1] \in Nat
  BY <1>3, <1>6
<1>9. Do(Append(<<LowerExpr(node.kids[1])>>, f)) BY TwoFrames DEF f
<1> QED BY <1>6, <1>7, <1>8, <1>9, LowerOne, ReadStep

LEMMA VisitGuardStep == Inv /\ VisitGuard => Inv' /\ Keeps(fb, fb')
<1> SUFFICES ASSUME Inv, Reading, NEW node, node = Node("guard", NewKids(2), FALSE),
                    Read(Top.e, node),
                    Do(<<LowerExpr(node.kids[1]), Then("guard_test", Top.e, node)>>),
                    UNCHANGED <<fb, loop_stack>>
             PROVE  Inv' /\ Keeps(fb, fb')
  BY DEF VisitGuard, Reading
<1> DEFINE f == Then("guard_test", Top.e, node)
<1>1. "guard" \in NodeKinds BY DEF NodeKinds
<1>2. NewKids(2) \in Seq(Nat) /\ Len(NewKids(2)) = 2 /\ NewKids(2)[1] \in Nat
  <2>1. 1 \in 1..2 /\ 2 \in Nat OBVIOUS
  <2> QED BY <2>1, ReadingTop, NewKidsOK
<1>3. node \in NodeSet /\ Len(node.kids) = 2 /\ node.kids = NewKids(2)
  BY <1>1, <1>2, NodeOK
<1>4. FrameOK(f, BlockCount(fb)) /\ f.owes = <<>> /\ f.op \notin BaseOps
  BY <1>3, ReadingTop, BegunOK DEF Begun
<1> HIDE DEF f
<1>5. node.kids[1] \in Nat
  BY <1>2, <1>3
<1>6. Do(Append(<<LowerExpr(node.kids[1])>>, f)) BY TwoFrames DEF f
<1> QED BY <1>3, <1>4, <1>5, <1>6, LowerOne, ReadStep

LEMMA VisitDeferStep == Inv /\ VisitDefer => Inv' /\ Keeps(fb, fb')
<1> SUFFICES ASSUME Inv, Reading, Read(Top.e, Node("defer", NewKids(1), FALSE)),
                    Do(LowerAll(NewKids(1))), UNCHANGED <<fb, loop_stack>>
             PROVE  Inv' /\ Keeps(fb, fb')
  BY DEF VisitDefer, Reading
<1>1. "defer" \in NodeKinds BY DEF NodeKinds
<1>2. NewKids(1) \in Seq(Nat) BY ReadingTop, NewKidsOK
<1>3. Node("defer", NewKids(1), FALSE) \in NodeSet BY <1>1, <1>2, NodeOK
<1>4. Descends(LowerAll(NewKids(1))) BY <1>2, LowerAllOK
<1> QED BY <1>3, <1>4, ReadStep

LEMMA MatchKidsOK ==
    ASSUME NEW arms \in Seq(ArmSet)
    PROVE  /\ MatchKids(arms) \in Nat \ {0}
           /\ \A i \in 1..Len(arms) :
                 /\ BodyKid(i) \in 1..MatchKids(arms)
                 /\ arms[i].guard => GuardKid(arms, i) \in 1..MatchKids(arms)
<1> DEFINE n == Len(arms)
           S(i) == {j \in 1..i : arms[j].guard}
<1>1. n \in Nat BY LenProperties
<1>2. \A i \in 0..n : IsFiniteSet(S(i)) /\ Cardinality(S(i)) \in Nat
  <2> SUFFICES ASSUME NEW i \in 0..n PROVE IsFiniteSet(S(i)) /\ Cardinality(S(i)) \in Nat
    OBVIOUS
  <2>1. IsFiniteSet(1..i) BY <1>1, FS_Interval
  <2>2. S(i) \in SUBSET (1..i) OBVIOUS
  <2> HIDE DEF S
  <2> QED BY <2>1, <2>2, FS_Subset, FS_CardinalityType
<1>3. \A i \in 1..n : Cardinality(S(i)) <= Cardinality(S(n))
  <2> SUFFICES ASSUME NEW i \in 1..n PROVE Cardinality(S(i)) <= Cardinality(S(n))
    OBVIOUS
  <2>1. S(i) \in SUBSET S(n) BY <1>1
  <2>2. IsFiniteSet(S(n)) BY <1>1, <1>2
  <2> HIDE DEF S, n
  <2> QED BY <2>1, <2>2, FS_Subset
<1>4. \A i \in 0..n : GuardKid(arms, i) = 1 + n + Cardinality(S(i))
  BY DEF GuardKid, GuardsUpTo
<1> HIDE DEF S, n
<1>5. MatchKids(arms) = 1 + n + Cardinality(S(n)) /\ Cardinality(S(n)) \in Nat
  BY <1>1, <1>2, <1>4 DEF MatchKids, n
<1>6. ASSUME NEW i \in 1..n
      PROVE  BodyKid(i) \in 1..MatchKids(arms) /\ GuardKid(arms, i) \in 1..MatchKids(arms)
  <2>1. Cardinality(S(i)) \in Nat /\ Cardinality(S(i)) <= Cardinality(S(n))
        /\ GuardKid(arms, i) = 1 + n + Cardinality(S(i))
    BY <1>1, <1>2, <1>3, <1>4
  <2> QED BY <1>1, <1>5, <2>1 DEF BodyKid
<1>7. MatchKids(arms) \in Nat \ {0} BY <1>1, <1>5
<1> QED BY <1>6, <1>7 DEF n

LEMMA VisitMatchStep == Inv /\ VisitMatch => Inv' /\ Keeps(fb, fb')
<1> SUFFICES ASSUME Inv, NEW arms \in ArmLists, Reading, NEW node,
                    node = [Node("match", NewKids(MatchKids(arms)), FALSE)
                              EXCEPT !.arms = arms],
                    Read(Top.e, node),
                    Do(<<LowerExpr(node.kids[1]), Then("match_switch", Top.e, node)>>),
                    UNCHANGED <<fb, loop_stack>>
             PROVE  Inv' /\ Keeps(fb, fb')
  BY DEF VisitMatch
<1> DEFINE n == MatchKids(arms)
           base == Node("match", NewKids(n), FALSE)
           f == Then("match_switch", Top.e, node)
<1>1. arms \in Seq(ArmSet) /\ "match" \in NodeKinds
  BY ConstantsAssumption DEF NodeKinds
<1>2. n \in Nat \ {0} BY <1>1, MatchKidsOK
<1>3. NewKids(n) \in Seq(Nat) /\ Len(NewKids(n)) = n /\ NewKids(n)[1] \in Nat
  BY <1>2, ReadingTop, NewKidsOK
<1>4. base \in NodeSet /\ base.kids = NewKids(n)
  BY <1>1, <1>3, NodeOK
<1>5. node = [base EXCEPT !.arms = arms] OBVIOUS
<1> HIDE DEF base
<1>6. node \in NodeSet /\ node.arms = arms /\ node.kids = NewKids(n)
  <2>1. /\ [base EXCEPT !.arms = arms] \in NodeSet
        /\ [base EXCEPT !.arms = arms].kids = base.kids
        /\ [base EXCEPT !.arms = arms].arms = arms
    BY <1>1, <1>4, WithArms
  <2> QED BY <1>4, <1>5, <2>1
<1>7. Len(node.kids) = MatchKids(node.arms) BY <1>3, <1>6
<1>8. FrameOK(f, BlockCount(fb)) /\ f.owes = <<>> /\ f.op \notin BaseOps
  BY <1>6, <1>7, ReadingTop, BegunOK DEF Begun
<1> HIDE DEF f
<1>9. node.kids[1] \in Nat
  BY <1>3, <1>6
<1>10. Do(Append(<<LowerExpr(node.kids[1])>>, f)) BY TwoFrames DEF f
<1> QED BY <1>6, <1>8, <1>9, <1>10, LowerOne, ReadStep

LEMMA VisitForkLoopStep == Inv /\ VisitForkLoop => Inv' /\ Keeps(fb, fb')
<1> SUFFICES ASSUME Inv, Reading, NEW node, node = Node("forkloop", NewKids(2), FALSE),
                    Read(Top.e, node),
                    Do(<<LowerExpr(node.kids[2]), Then("fork_head", Top.e, node)>>),
                    UNCHANGED <<fb, loop_stack>>
             PROVE  Inv' /\ Keeps(fb, fb')
  BY DEF VisitForkLoop
<1> DEFINE f == Then("fork_head", Top.e, node)
<1>1. "forkloop" \in NodeKinds BY DEF NodeKinds
<1>2. NewKids(2) \in Seq(Nat) /\ Len(NewKids(2)) >= 1 /\ NewKids(2)[2] \in Nat
  BY ReadingTop, NewKidsOK
<1>3. node \in NodeSet /\ Len(node.kids) >= 1 /\ node.kids = NewKids(2)
  BY <1>1, <1>2, NodeOK
<1>4. FrameOK(f, BlockCount(fb)) /\ f.owes = <<>> /\ f.op \notin BaseOps
  BY <1>3, ReadingTop, BegunOK DEF Begun
<1> HIDE DEF f
<1>5. node.kids[2] \in Nat
  BY <1>2, <1>3
<1>6. Do(Append(<<LowerExpr(node.kids[2])>>, f)) BY TwoFrames DEF f
<1> QED BY <1>3, <1>4, <1>5, <1>6, LowerOne, ReadStep

LEMMA JumpLabelsOK == ASSUME Inv PROVE JumpLabels \subseteq Nat
<1>1. agenda \in Seq(FrameSet) BY DEF Inv, Tidy
<1>2. \A i \in DOMAIN agenda : agenda[i].e \in Nat
  <2>1. \A i \in DOMAIN agenda : agenda[i] \in FrameSet BY <1>1, LenProperties
  <2> QED BY <2>1 DEF FrameSet
<1> QED BY <1>2 DEF JumpLabels, LoopEnds

LEMMA VisitBreakStep == Inv /\ VisitBreak => Inv' /\ Keeps(fb, fb')
<1> SUFFICES ASSUME Inv, NEW n \in {0, 1}, NEW label \in JumpLabels, Reading,
                    Read(Top.e, [Node("break", NewKids(n), FALSE) EXCEPT !.label = label]),
                    Do(Append(IF loop_stack = <<>> THEN <<>> ELSE LowerAll(NewKids(n)),
                              Then("break_end", Top.e, Leaf))),
                    UNCHANGED <<fb, loop_stack>>
             PROVE  Inv' /\ Keeps(fb, fb')
  BY DEF VisitBreak
<1> DEFINE f == Then("break_end", Top.e, Leaf)
           fs == IF loop_stack = <<>> THEN <<>> ELSE LowerAll(NewKids(n))
           base == Node("break", NewKids(n), FALSE)
           node == [base EXCEPT !.label = label]
<1>1. n \in Nat /\ "break" \in NodeKinds BY DEF NodeKinds
<1>2. label \in Nat BY JumpLabelsOK
<1>3. NewKids(n) \in Seq(Nat) BY <1>1, ReadingTop, NewKidsOK
<1>4. base \in NodeSet BY <1>1, <1>3, NodeOK
<1>5. node \in NodeSet
  <2> HIDE DEF base
  <2> QED BY <1>2, <1>4, WithLabel
<1>6. Descends(fs) BY <1>3, LowerAllOK, ReadingTop, LowerOne
<1>7. FrameOK(f, BlockCount(fb)) /\ f.owes = <<>> /\ f.op \notin BaseOps
  BY ReadingTop, PlainOK DEF Plain, BaseOps
<1>8. Do(Append(fs, f)) /\ Read(Top.e, node) OBVIOUS
<1> HIDE DEF f, fs, base, node
<1> QED BY <1>5, <1>6, <1>7, <1>8, ReadStep

-----------------------------------------------------------------------------
(* Actions that only close the current block, or nothing                   *)

LEMMA RunningTop ==
    ASSUME Inv, NEW op, Running(op)
    PROVE  /\ agenda # <<>> /\ Top.op = op /\ Fits(Top) /\ Top.owes \in Seq(Block)
           /\ OwesOf(op) = 0 /\ op # "match_arm" => Top.owes = <<>> /\ OwedBy(Top) = {}
<1>1. agenda # <<>> /\ Top.op = op BY DEF Running
<1>2. Fits(Top) /\ Top.owes \in Seq(Block) BY <1>1, TopOK DEF FrameOK
<1>3. OwesOf(op) = 0 /\ op # "match_arm" => Top.owes = <<>>
  BY <1>1, <1>2, EmptySeq DEF Fits
<1> QED BY <1>1, <1>2, <1>3, Nothing

LEMMA JumpTargets ==
    ASSUME Inv
    PROVE  BreakTarget \in 1..BlockCount(fb) /\ NextTarget \in 1..BlockCount(fb)
<1>1. BlockCount(fb) \in Nat \ {0} BY SoundLen DEF Inv
<1>2. LoopsOK(loop_stack, BlockCount(fb)) BY DEF Inv
<1>3. CASE loop_stack = <<>>
  BY <1>1, <1>3 DEF BreakTarget, NextTarget, Entry
<1>4. CASE loop_stack # <<>>
  <2>1. Len(loop_stack) \in 1..Len(loop_stack)
    BY <1>2, <1>4, EmptySeq DEF LoopsOK
  <2> QED BY <1>2, <1>4, <2>1 DEF LoopsOK, BreakTarget, NextTarget
<1> QED BY <1>3, <1>4

\* Closing the current block is all a call has left to do.
LEMMA CloseStep ==
    ASSUME Inv, agenda # <<>>, Top.op \notin BaseOps, OwedBy(Top) = {},
           ast' \in Seq(NodeSet), NEW t, Closer(t, BlockCount(fb)),
           fb' = Terminate(fb, t), Do(<<>>), UNCHANGED loop_stack
    PROVE  Inv' /\ Keeps(fb, fb')
<1>1. Leads(fb, fb', 0, Waits(agenda) \ OwedBy(Top))
  BY Close DEF Inv
<1>2. LoopsOK(loop_stack', BlockCount(fb'))
  <2>1. BlockCount(fb') = BlockCount(fb) + 0 BY <1>1 DEF Leads
  <2>2. BlockCount(fb') = BlockCount(fb) BY <2>1, TopOK
  <2> QED BY <2>2 DEF Inv
<1> QED BY <1>1, <1>2, EndStep, LowerOne

LEMMA BreakEndStep == Inv /\ BreakEnd => Inv' /\ Keeps(fb, fb')
<1> SUFFICES ASSUME Inv, BreakEnd PROVE Inv' /\ Keeps(fb, fb')
  OBVIOUS
<1>1. agenda # <<>> /\ Top.op \notin BaseOps /\ OwedBy(Top) = {}
  BY RunningTop DEF BreakEnd, BaseOps, OwesOf
<1>2. Closer(Goto(BreakTarget), BlockCount(fb))
  BY <1>1, TopOK, JumpTargets, Closers
<1> QED BY <1>1, <1>2, CloseStep DEF BreakEnd, Inv

LEMMA ReturnEndStep == Inv /\ ReturnEnd => Inv' /\ Keeps(fb, fb')
<1> SUFFICES ASSUME Inv, ReturnEnd PROVE Inv' /\ Keeps(fb, fb')
  OBVIOUS
<1>1. agenda # <<>> /\ Top.op \notin BaseOps /\ OwedBy(Top) = {}
  BY RunningTop DEF ReturnEnd, BaseOps, OwesOf
<1>2. Closer(Return, BlockCount(fb))
  BY <1>1, TopOK, Closers
<1> QED BY <1>1, <1>2, CloseStep DEF ReturnEnd, Inv

LEMMA VisitNextStep == Inv /\ VisitNext => Inv' /\ Keeps(fb, fb')
<1> SUFFICES ASSUME Inv, NEW label \in JumpLabels, Reading,
                    Read(Top.e, [Node("next", <<>>, FALSE) EXCEPT !.label = label]),
                    fb' = Terminate(fb, Goto(NextTarget)), Do(<<>>), UNCHANGED loop_stack
             PROVE  Inv' /\ Keeps(fb, fb')
  BY DEF VisitNext
<1> DEFINE base == Node("next", <<>>, FALSE)
<1>1. base \in NodeSet
  <2>1. "next" \in NodeKinds /\ <<>> \in Seq(Nat) BY DEF NodeKinds
  <2> QED BY <2>1, NodeOK
<1>2. [base EXCEPT !.label = label] \in NodeSet
  <2> HIDE DEF base
  <2> QED BY <1>1, JumpLabelsOK, WithLabel
<1>3. ast' \in Seq(NodeSet) BY <1>2, ReadOK, ReadingTop
<1>4. agenda # <<>> /\ Top.op \notin BaseOps /\ OwedBy(Top) = {} BY ReadingTop
<1>5. Closer(Goto(NextTarget), BlockCount(fb))
  BY <1>4, TopOK, JumpTargets, Closers
<1> QED BY <1>3, <1>4, <1>5, CloseStep

\* The return of lower_fn.
LEMMA LastStep ==
    ASSUME Inv, agenda # <<>>, Top.op \in BaseOps, UNCHANGED <<ast, loop_stack>>,
           fb' = Terminate(fb, Return), Do(<<>>)
    PROVE  Inv' /\ Keeps(fb, fb')
<1>1. OwedBy(Top) = {}
  <2>1. Running(Top.op) BY DEF Running
  <2> QED BY <2>1, RunningTop DEF BaseOps, OwesOf
<1>2. Closer(Return, BlockCount(fb)) BY TopOK, Closers
<1>3. Leads(fb, fb', 0, Waits(agenda)) /\ fb'.terminated
  BY <1>2, Close DEF Inv
<1>4. Tail(agenda) = <<>> /\ Waits(agenda) = Waits(Tail(agenda))
      /\ Tidy(Tail(agenda), BlockCount(fb))
  BY <1>1, TopOK, Pop DEF Inv, Top
<1>5. agenda' = <<>> BY <1>4 DEF Do
<1>6. BlockCount(fb') = BlockCount(fb) BY <1>3, TopOK DEF Leads
<1> QED BY <1>3, <1>4, <1>5, <1>6 DEF Inv, Leads, Lowered

LEMMA FnEndStep == Inv /\ FnEnd => Inv' /\ Keeps(fb, fb')
BY LastStep DEF FnEnd, Running, BaseOps

LEMMA FnTailStep == Inv /\ FnTail => Inv' /\ Keeps(fb, fb')
<1> SUFFICES ASSUME Inv, FnTail PROVE Inv' /\ Keeps(fb, fb')
  OBVIOUS
<1>1. agenda # <<>> /\ Top.op = "fn_stmts" /\ Fits(Top) /\ OwedBy(Top) = {}
  BY RunningTop DEF FnTail, OwesOf
<1>2. CASE Top.node.flag /\ ~fb.terminated
  <2> DEFINE f == Then("fn_end", Top.e, Leaf)
  <2>1. FrameOK(f, BlockCount(fb')) /\ f.op \in BaseOps /\ OwedBy(f) = {}
    BY <1>1, <1>2, TopOK, PlainOK, Nothing DEF Plain, BaseOps, FnTail
  <2>2. TailExpr \in Nat
    <3>1. Len(Top.node.kids) \in 1..Len(Top.node.kids) BY <1>1, <1>2, TopOK DEF Fits
    <3> QED BY <1>1, <3>1, TopOK DEF TailExpr
  <2> HIDE DEF f
  <2>3. Do(Append(<<LowerExpr(TailExpr)>>, f)) BY <1>2, TwoFrames DEF FnTail, f
  <2>4. Leads(fb, fb', 0, OwedBy(f) \cup (Waits(agenda) \ OwedBy(Top)))
    BY <1>1, <1>2, <2>1, Still DEF FnTail
  <2>5. Top.op \in BaseOps BY <1>1 DEF BaseOps
  <2>6. LoopsOK(loop_stack', BlockCount(fb')) /\ ast' \in Seq(NodeSet)
    BY <1>2 DEF FnTail, Inv
  <2> QED BY <1>1, <2>1, <2>2, <2>3, <2>4, <2>5, <2>6, LowerOne, OnStep
<1>3. CASE ~(Top.node.flag /\ ~fb.terminated)
  BY <1>1, <1>3, LastStep DEF FnTail, BaseOps
<1> QED BY <1>2, <1>3

LEMMA NextStmtStep == Inv /\ NextStmt => Inv' /\ Keeps(fb, fb')
<1> SUFFICES ASSUME Inv, NextStmt PROVE Inv' /\ Keeps(fb, fb')
  OBVIOUS
<1> DEFINE f == Onward(<<>>)
<1>1. /\ agenda # <<>> /\ Top.op \in {"stmts", "fn_stmts"} /\ Fits(Top)
      /\ OwedBy(Top) = {}
  BY RunningTop DEF NextStmt, OwesOf
<1>2. FrameOK(Top, BlockCount(fb)) BY <1>1, TopOK
<1>3. /\ f \in FrameSet /\ f.op = Top.op /\ f.node = Top.node /\ f.owes = <<>>
      /\ f.hdr = Top.hdr /\ f.at = Top.at + 1
  <2>1. <<>> \in Seq(Block) /\ Top.at + 1 \in Nat BY <1>1, TopOK
  <2>2. /\ Top.op \in Ops /\ Top.e \in Nat /\ Top.node \in NodeSet /\ Top.hdr \in Nat
    BY <1>1, TopOK
  <2> QED BY <2>1, <2>2 DEF Onward, Frame, FrameSet
<1> HIDE DEF f
<1>4. FrameOK(f, BlockCount(fb)) /\ OwedBy(f) = {}
  <2>1. f.at >= 1 BY <1>1, <1>3, TopOK
  <2>2. Fits(f) BY <1>1, <1>3, <2>1 DEF Fits, OwesOf, Once
  <2> QED BY <1>2, <1>3, <2>2, Nothing DEF FrameOK
<1>5. Kid(Top.at) \in Nat
  <2>1. Top.at >= 1 BY <1>1 DEF Fits
  <2>2. /\ Len(Top.node.kids) \in Nat /\ Top.at \in Nat
        /\ \A i \in 1..Len(Top.node.kids) : Kid(i) \in Nat
    BY <1>1, TopOK
  <2>3. Top.at <= StmtCount BY DEF NextStmt, MoreStmts
  <2>4. StmtCount <= Len(Top.node.kids) /\ StmtCount \in Int
    <3> DEFINE c == Len(Top.node.kids)
               d == IF Top.node.flag THEN 1 ELSE 0
    <3>1. StmtCount = c - d BY DEF StmtCount
    <3>2. c \in Nat /\ d \in {0, 1} BY <2>2
    <3> HIDE DEF c, d
    <3>3. StmtCount <= c /\ StmtCount \in Int BY <3>1, <3>2
    <3> QED BY <3>3 DEF c
  <2>5. Top.at \in 1..Len(Top.node.kids) BY <2>1, <2>2, <2>3, <2>4
  <2> QED BY <2>2, <2>5
<1>6. Do(Append(<<LowerStmt(Kid(Top.at))>>, f)) BY TwoFrames DEF NextStmt, f
<1>7. Leads(fb, fb', 0, OwedBy(f) \cup (Waits(agenda) \ OwedBy(Top)))
  BY <1>1, <1>4, Still DEF NextStmt
<1>8. LoopsOK(loop_stack', BlockCount(fb')) /\ ast' \in Seq(NodeSet) /\ fb' = fb
  BY DEF NextStmt, Inv
<1> QED BY <1>1, <1>3, <1>4, <1>5, <1>6, <1>7, <1>8, LowerOne, OnStep

LEMMA BlockTailStep == Inv /\ BlockTail => Inv' /\ Keeps(fb, fb')
<1> SUFFICES ASSUME Inv, BlockTail PROVE Inv' /\ Keeps(fb, fb')
  OBVIOUS
<1> DEFINE fs == IF Top.node.flag THEN <<LowerExpr(TailExpr)>> ELSE <<>>
<1>1. agenda # <<>> /\ Top.op = "stmts" /\ Fits(Top) /\ OwedBy(Top) = {}
  BY RunningTop DEF BlockTail, OwesOf
<1>2. Descends(fs)
  <2>1. CASE Top.node.flag
    <3>1. Len(Top.node.kids) \in 1..Len(Top.node.kids) BY <1>1, <2>1, TopOK DEF Fits
    <3>2. TailExpr \in Nat BY <1>1, <3>1, TopOK DEF TailExpr
    <3> QED BY <2>1, <3>2, LowerOne
  <2>2. CASE ~Top.node.flag BY <1>1, <2>2, TopOK, LowerOne
  <2> QED BY <2>1, <2>2
<1>3. Do(fs) BY DEF BlockTail
<1> HIDE DEF fs
<1>4. Leads(fb, fb', 0, Waits(agenda) \ OwedBy(Top)) BY <1>1, Still DEF BlockTail
<1>5. LoopsOK(loop_stack', BlockCount(fb')) /\ ast' \in Seq(NodeSet)
  BY DEF BlockTail, Inv
<1>6. Top.op \notin BaseOps BY <1>1 DEF BaseOps
<1> QED BY <1>1, <1>2, <1>3, <1>4, <1>5, <1>6, EndStep

LEMMA SkipStmtStep == Inv /\ SkipStmt => Inv' /\ Keeps(fb, fb')
<1> SUFFICES ASSUME Inv, SkipStmt PROVE Inv' /\ Keeps(fb, fb')
  OBVIOUS
<1>1. agenda # <<>> /\ Top.op \notin BaseOps /\ OwedBy(Top) = {}
  BY RunningTop DEF SkipStmt, OwesOf, BaseOps
<1>2. Leads(fb, fb', 0, Waits(agenda) \ OwedBy(Top)) BY <1>1, Still DEF SkipStmt
<1>3. LoopsOK(loop_stack', BlockCount(fb')) /\ ast' \in Seq(NodeSet)
  BY DEF SkipStmt, Inv
<1>4. Do(<<>>) /\ Descends(<<>>) BY <1>1, TopOK, LowerOne DEF SkipStmt
<1> QED BY <1>1, <1>2, <1>3, <1>4, EndStep

-----------------------------------------------------------------------------
(* Actions that close the current block and go on in another               *)

LEMMA OwedOne ==
    ASSUME NEW f, f.owes \in Seq(Block), Len(f.owes) = 1
    PROVE  OwedBy(f) = {f.owes[1]}
BY DEF OwedBy

LEMMA OwedTwo ==
    ASSUME NEW f, f.owes \in Seq(Block), Len(f.owes) = 2
    PROVE  OwedBy(f) = {f.owes[1], f.owes[2]}
<1>1. 1..2 = {1, 2} OBVIOUS
<1> QED BY <1>1 DEF OwedBy

LEMMA LoopsLead ==
    ASSUME Inv, UNCHANGED loop_stack, NEW k \in Nat, NEW V, Leads(fb, fb', k, V)
    PROVE  LoopsOK(loop_stack', BlockCount(fb'))
<1>1. BlockCount(fb) \in Nat BY SoundLen DEF Inv
<1>2. BlockCount(fb') = BlockCount(fb) + k BY DEF Leads
<1>3. BlockCount(fb') \in Nat /\ BlockCount(fb) <= BlockCount(fb') BY <1>1, <1>2
<1> QED BY <1>1, <1>3, LoopsStill

\* New blocks are not among those that wait.
LEMMA FreshOK ==
    ASSUME Inv, NEW k \in Nat
    PROVE  /\ BlockCount(fb) \in Nat \ {0} /\ Sound(fb, Waits(agenda))
           /\ Waits(agenda) \subseteq 1..BlockCount(fb)
           /\ \A i \in 1..k : BlockCount(fb) + i \in Fresh(fb, k)
           /\ \A i \in 1..k : BlockCount(fb) + i \in 1..(BlockCount(fb) + k)
           /\ \A b \in Fresh(fb, k) : b \in Block /\ b \notin Waits(agenda)
<1>1. BlockCount(fb) \in Nat \ {0} /\ Sound(fb, Waits(agenda))
  BY SoundLen DEF Inv
<1>2. Waits(agenda) \subseteq 1..BlockCount(fb) BY <1>1 DEF Sound
<1> QED BY <1>1, <1>2 DEF Fresh, Block

LEMMA CallEndStep == Inv /\ CallEnd => Inv' /\ Keeps(fb, fb')
<1> SUFFICES ASSUME Inv, CallEnd PROVE Inv' /\ Keeps(fb, fb')
  OBVIOUS
<1> DEFINE n == BlockCount(fb)
           W == Waits(agenda)
           t == Call(Top.e, n + 1)
<1>1. agenda # <<>> /\ Top.op \notin BaseOps /\ OwedBy(Top) = {}
  BY RunningTop DEF CallEnd, OwesOf, BaseOps
<1>2. /\ n \in Nat /\ Sound(fb, W) /\ Fresh(fb, 1) = {n + 1} /\ n + 1 \notin W
      /\ n + 1 \in 1..(n + 1)
  BY FreshOK DEF Fresh
<1>3. Closer(t, n + 1) BY <1>1, <1>2, TopOK, Closers
<1>4. fb' = SwitchTo(Terminate(NewBlocks(fb, 1), t), n + 1)
  BY DEF CallEnd, NextBlock
<1> HIDE DEF n, W, t
<1>5. Leads(fb, fb', 1, (W \cup Fresh(fb, 1)) \ {n + 1})
  BY <1>2, <1>3, <1>4, Move DEF n
<1>6. Leads(fb, fb', 1, W \ OwedBy(Top))
  <2>1. (W \cup Fresh(fb, 1)) \ {n + 1} = W \ OwedBy(Top) BY <1>1, <1>2
  <2> QED BY <1>5, <2>1
<1>7. LoopsOK(loop_stack', BlockCount(fb')) BY <1>6, LoopsLead DEF CallEnd
<1>8. Do(<<>>) /\ Descends(<<>>) /\ ast' \in Seq(NodeSet)
  BY <1>1, TopOK, LowerOne DEF CallEnd, Inv
<1> QED BY <1>1, <1>6, <1>7, <1>8, EndStep DEF W

LEMMA IfBranchStep == Inv /\ IfBranch => Inv' /\ Keeps(fb, fb')
<1> SUFFICES ASSUME Inv, IfBranch PROVE Inv' /\ Keeps(fb, fb')
  OBVIOUS
<1> DEFINE n == BlockCount(fb)
           W == Waits(agenda)
           t == Branch(Top.e, n + 1, n + 2)
           f == Rest("if_then", <<n + 2, n + 3>>)
<1>1. /\ agenda # <<>> /\ Top.op = "if_branch" /\ OwedBy(Top) = {} /\ Fits(Top)
      /\ Top.op \notin BaseOps
  BY RunningTop DEF IfBranch, OwesOf, BaseOps
<1>2. /\ n \in Nat /\ Sound(fb, W) /\ Fresh(fb, 3) = {n + 1, n + 2, n + 3}
      /\ n + 1 \notin W /\ n + 2 \notin W /\ n + 3 \notin W
      /\ n + 2 \in Block /\ n + 3 \in Block
  BY FreshOK DEF Fresh, Block
<1>3. Closer(t, n + 3)
  <2>1. n + 1 \in 1..(n + 3) /\ n + 2 \in 1..(n + 3) /\ n + 3 \in Nat BY <1>2
  <2> QED BY <1>1, <2>1, TopOK, Closers
<1>4. fb' = SwitchTo(Terminate(NewBlocks(fb, 3), t), n + 1)
      /\ Do(Append(<<LowerExpr(Kid(2))>>, f))
  <2>1. (n + 1) + 1 = n + 2 /\ (n + 1) + 2 = n + 3 BY <1>2
  <2> QED BY <2>1, TwoFrames DEF IfBranch, NextBlock
<1>5. f.owes \in Seq(Block) /\ f.owes = <<n + 2, n + 3>> /\ f.hdr = Top.hdr
      /\ f \in FrameSet /\ f.op = "if_then" /\ f.node = Top.node
  <2>1. <<n + 2, n + 3>> \in Seq(Block) /\ "if_then" \in Ops BY <1>2 DEF Ops
  <2>2. /\ Top.e \in Nat /\ Top.node \in NodeSet /\ Top.at \in Nat /\ Top.hdr \in Nat
    BY <1>1, TopOK
  <2> QED BY <2>1, <2>2 DEF Rest, Frame, FrameSet
<1> HIDE DEF n, W, t, f
<1>6. Leads(fb, fb', 3, (W \cup Fresh(fb, 3)) \ {n + 1})
  <2>1. n + 1 \in W \cup Fresh(fb, 3) /\ 3 \in Nat BY <1>2
  <2> QED BY <1>2, <1>3, <1>4, <2>1, Move DEF n
<1>7. OwedBy(f) = {n + 2, n + 3} /\ Fits(f)
  <2>1. Len(f.owes) = 2 /\ f.owes[1] = n + 2 /\ f.owes[2] = n + 3 BY <1>5
  <2>2. OwedBy(f) = {n + 2, n + 3} BY <1>5, <2>1, OwedTwo
  <2>3. Once(f.owes)
    <3>1. n + 2 # n + 3 /\ 1..2 = {1, 2} BY <1>2
    <3> QED BY <2>1, <3>1 DEF Once
  <2> QED BY <1>1, <1>5, <2>1, <2>2, <2>3 DEF Fits, OwesOf
<1>8. (W \cup Fresh(fb, 3)) \ {n + 1} = OwedBy(f) \cup (W \ OwedBy(Top))
      /\ OwedBy(f) \cap (W \ OwedBy(Top)) = {}
  <2>1. n + 2 # n + 1 /\ n + 3 # n + 1 BY <1>2
  <2> QED BY <1>1, <1>2, <1>7, <2>1
<1>9. Leads(fb, fb', 3, OwedBy(f) \cup (W \ OwedBy(Top))) BY <1>6, <1>8
<1>10. FrameOK(f, BlockCount(fb'))
  <2>1. BlockCount(fb') = n + 3 BY <1>9 DEF Leads, n
  <2>2. Top.hdr <= n /\ Top.hdr \in Nat BY <1>1, TopOK DEF FrameOK, n
  <2>3. Top.hdr <= BlockCount(fb') BY <1>2, <2>1, <2>2
  <2> QED BY <1>5, <1>7, <2>3 DEF FrameOK
<1>11. LoopsOK(loop_stack', BlockCount(fb')) BY <1>9, LoopsLead DEF IfBranch
<1>12. Descends(<<LowerExpr(Kid(2))>>) /\ ast' \in Seq(NodeSet)
  <2>1. Len(Top.node.kids) \in {2, 3} BY <1>1 DEF Fits
  <2>2. 2 \in 1..Len(Top.node.kids) BY <2>1
  <2> QED BY <1>1, <2>2, TopOK, LowerOne DEF IfBranch, Inv
<1>13. f.op \notin BaseOps BY <1>5 DEF BaseOps
<1> QED BY <1>1, <1>4, <1>8, <1>9, <1>10, <1>11, <1>12, <1>13, OnStep DEF W

LEMMA IfThenStep == Inv /\ IfThen => Inv' /\ Keeps(fb, fb')
<1> SUFFICES ASSUME Inv, IfThen PROVE Inv' /\ Keeps(fb, fb')
  OBVIOUS
<1> DEFINE n == BlockCount(fb)
           W == Waits(agenda)
           else_bb == Top.owes[1]
           join_bb == Top.owes[2]
           at_else == SwitchTo(Terminate(fb, Goto(join_bb)), else_bb)
           f == Rest("if_else", <<join_bb>>)
<1>1. /\ agenda # <<>> /\ Top.op = "if_then" /\ Fits(Top) /\ Top.op \notin BaseOps
      /\ Len(Top.owes) = 2
  <2>1. agenda # <<>> /\ Top.op = "if_then" /\ Fits(Top)
    BY RunningTop DEF IfThen
  <2> QED BY <2>1 DEF Fits, OwesOf, BaseOps
<1>2. n \in Nat /\ Sound(fb, W) /\ W \subseteq 1..n BY FreshOK
<1>3. OwedBy(Top) = {else_bb, join_bb} /\ OwedBy(Top) \subseteq W /\ else_bb # join_bb
      /\ join_bb \in Block
  <2>1. Top.owes \in Seq(Block) /\ OwedBy(Top) \subseteq W BY <1>1, TopOK
  <2>2. Once(Top.owes) BY <1>1 DEF Fits
  <2>3. else_bb # join_bb BY <1>1, <2>2 DEF Once
  <2>4. join_bb \in Block BY <1>1, <2>1
  <2> QED BY <1>1, <2>1, <2>3, <2>4, OwedTwo
<1>4. Closer(Goto(join_bb), n) BY <1>2, <1>3, Closers
<1>5. /\ Top.node.flag => fb' = at_else /\ Do(Append(<<LowerExpr(Kid(3))>>, f))
      /\ ~Top.node.flag => /\ fb' = SwitchTo(Terminate(at_else, Goto(join_bb)), join_bb)
                           /\ Do(<<>>)
  BY TwoFrames DEF IfThen
<1>6. /\ f.owes \in Seq(Block) /\ f.owes = <<join_bb>> /\ f.hdr = Top.hdr
      /\ f \in FrameSet /\ f.op = "if_else" /\ f.node = Top.node
  <2>1. <<join_bb>> \in Seq(Block) /\ "if_else" \in Ops BY <1>3 DEF Ops
  <2>2. /\ Top.e \in Nat /\ Top.node \in NodeSet /\ Top.at \in Nat /\ Top.hdr \in Nat
    BY <1>1, TopOK
  <2> QED BY <2>1, <2>2 DEF Rest, Frame, FrameSet
<1>7. ast' \in Seq(NodeSet) BY DEF IfThen, Inv
<1>8. Leads(fb, at_else, 0, W \ {else_bb})
  <2>1. else_bb \in W BY <1>3
  <2> HIDE DEF else_bb, join_bb, W, n
  <2> QED BY <1>2, <1>4, <2>1, GoOn DEF n
<1>9. CASE Top.node.flag
  <2> HIDE DEF f, at_else
  <2>1. OwedBy(f) = {join_bb} /\ Fits(f)
    <3>1. Len(f.owes) = 1 /\ f.owes[1] = join_bb BY <1>6
    <3>2. Once(f.owes) BY <3>1 DEF Once
    <3> QED BY <1>6, <3>1, <3>2, OwedOne DEF Fits, OwesOf
  <2> HIDE DEF else_bb, join_bb, W
  <2>2. W \ {else_bb} = OwedBy(f) \cup (W \ OwedBy(Top))
        /\ OwedBy(f) \cap (W \ OwedBy(Top)) = {}
    BY <1>3, <2>1
  <2>3. Leads(fb, fb', 0, OwedBy(f) \cup (W \ OwedBy(Top))) BY <1>5, <1>8, <1>9, <2>2
  <2>4. FrameOK(f, BlockCount(fb'))
    <3>1. BlockCount(fb') = n + 0 BY <2>3 DEF Leads
    <3>2. BlockCount(fb') = n BY <1>2, <3>1
    <3>3. Top.hdr <= n BY <1>1, TopOK DEF FrameOK
    <3> QED BY <1>6, <2>1, <3>2, <3>3 DEF FrameOK
  <2>5. LoopsOK(loop_stack', BlockCount(fb')) BY <2>3, LoopsLead DEF IfThen
  <2>6. Descends(<<LowerExpr(Kid(3))>>)
    <3>1. Len(Top.node.kids) = 3 BY <1>1, <1>9 DEF Fits
    <3>2. 3 \in 1..Len(Top.node.kids) BY <3>1
    <3> QED BY <1>1, <3>2, TopOK, LowerOne
  <2>7. f.op \notin BaseOps BY <1>6 DEF BaseOps
  <2>8. Do(Append(<<LowerExpr(Kid(3))>>, f)) BY <1>5, <1>9
  <2> QED BY <1>1, <1>7, <2>2, <2>3, <2>4, <2>5, <2>6, <2>7, <2>8, OnStep DEF W
<1>10. CASE ~Top.node.flag
  <2> HIDE DEF f, at_else
  <2>1. Sound(at_else, W \ {else_bb}) /\ BlockCount(at_else) = n + 0
    BY <1>8 DEF Leads
  <2>2. BlockCount(at_else) = n BY <1>2, <2>1
  <2>3. join_bb \in W \ {else_bb} BY <1>3
  <2>4. fb' = SwitchTo(Terminate(at_else, Goto(join_bb)), join_bb) /\ Do(<<>>)
    BY <1>5, <1>10
  <2> HIDE DEF else_bb, join_bb, W, n
  <2>5. Closer(Goto(join_bb), BlockCount(at_else)) BY <1>4, <2>2
  <2> DEFINE V == W \ {else_bb}
  <2>6. Sound(at_else, V) /\ join_bb \in V BY <2>1, <2>3
  <2>7. Leads(fb, at_else, 0, V) BY <1>8
  <2> HIDE DEF V
  <2>8. Leads(at_else, fb', 0, V \ {join_bb})
    BY <2>4, <2>5, <2>6, GoOn
  <2>9. Leads(fb, fb', 0 + 0, V \ {join_bb})
    BY <1>2, <2>7, <2>8, LeadsTrans
  <2>10. V \ {join_bb} = W \ OwedBy(Top) BY <1>3 DEF V
  <2>11. Leads(fb, fb', 0, W \ OwedBy(Top)) BY <2>9, <2>10
  <2>12. LoopsOK(loop_stack', BlockCount(fb')) BY <2>11, LoopsLead DEF IfThen
  <2> QED BY <1>1, <1>7, <2>4, <2>11, <2>12, TopOK, LowerOne, EndStep DEF W
<1> QED BY <1>9, <1>10

LEMMA JoinStep ==
    ASSUME Inv, NEW op, op \in {"if_else", "guard_end"}, Join(op)
    PROVE  Inv' /\ Keeps(fb, fb')
<1> DEFINE n == BlockCount(fb)
           W == Waits(agenda)
           join_bb == Top.owes[1]
<1>1. /\ agenda # <<>> /\ Top.op \notin BaseOps
      /\ Len(Top.owes) = 1
  <2>1. agenda # <<>> /\ Top.op = op /\ Fits(Top)
    BY RunningTop DEF Join
  <2> QED BY <2>1 DEF Fits, OwesOf, BaseOps
<1>2. n \in Nat /\ Sound(fb, W) /\ W \subseteq 1..n BY FreshOK
<1>3. OwedBy(Top) = {join_bb} /\ OwedBy(Top) \subseteq W
  BY <1>1, TopOK, OwedOne
<1>4. Closer(Goto(join_bb), n) /\ join_bb \in W BY <1>2, <1>3, Closers
<1>5. fb' = SwitchTo(Terminate(fb, Goto(join_bb)), join_bb) /\ Do(<<>>)
  BY DEF Join
<1> HIDE DEF W, join_bb
<1>6. Leads(fb, fb', 0, W \ {join_bb}) BY <1>2, <1>4, <1>5, GoOn
<1>7. Leads(fb, fb', 0, W \ OwedBy(Top)) BY <1>3, <1>6
<1>8. LoopsOK(loop_stack', BlockCount(fb')) BY <1>7, LoopsLead DEF Join
<1>9. ast' \in Seq(NodeSet) BY DEF Join, Inv
<1> QED BY <1>1, <1>5, <1>7, <1>8, <1>9, TopOK, LowerOne, EndStep DEF W

LEMMA GuardTestStep == Inv /\ GuardTest => Inv' /\ Keeps(fb, fb')
<1> SUFFICES ASSUME Inv, GuardTest PROVE Inv' /\ Keeps(fb, fb')
  OBVIOUS
<1> DEFINE n == BlockCount(fb)
           W == Waits(agenda)
           t == Branch(Top.e, n + 2, n + 1)
           f == Rest("guard_end", <<n + 2>>)
<1>1. /\ agenda # <<>> /\ Top.op = "guard_test" /\ OwedBy(Top) = {} /\ Fits(Top)
      /\ Top.op \notin BaseOps
  BY RunningTop DEF GuardTest, OwesOf, BaseOps
<1>2. /\ n \in Nat /\ Sound(fb, W) /\ Fresh(fb, 2) = {n + 1, n + 2}
      /\ n + 1 \notin W /\ n + 2 \notin W /\ n + 2 \in Block /\ n + 2 # n + 1
  BY FreshOK, SMTT(30) DEF Fresh, Block
<1>3. Closer(t, n + 2)
  <2>1. n + 1 \in 1..(n + 2) /\ n + 2 \in 1..(n + 2) /\ n + 2 \in Nat BY <1>2
  <2> QED BY <1>1, <2>1, TopOK, Closers
<1>4. fb' = SwitchTo(Terminate(NewBlocks(fb, 2), t), n + 1)
      /\ Do(Append(<<LowerExpr(Kid(2))>>, f))
  <2>1. (n + 1) + 1 = n + 2 BY <1>2
  <2> QED BY <2>1, TwoFrames DEF GuardTest, NextBlock
<1>5. f.owes \in Seq(Block) /\ f.owes = <<n + 2>> /\ f.hdr = Top.hdr
      /\ f \in FrameSet /\ f.op = "guard_end" /\ f.node = Top.node
  <2>1. <<n + 2>> \in Seq(Block) /\ "guard_end" \in Ops BY <1>2 DEF Ops
  <2>2. /\ Top.e \in Nat /\ Top.node \in NodeSet /\ Top.at \in Nat /\ Top.hdr \in Nat
    BY <1>1, TopOK
  <2> QED BY <2>1, <2>2 DEF Rest, Frame, FrameSet
<1> HIDE DEF n, W, t, f
<1>6. Leads(fb, fb', 2, (W \cup Fresh(fb, 2)) \ {n + 1})
  <2>1. n + 1 \in W \cup Fresh(fb, 2) /\ 2 \in Nat BY <1>2
  <2> QED BY <1>2, <1>3, <1>4, <2>1, Move DEF n
<1>7. OwedBy(f) = {n + 2} /\ Fits(f)
  <2>1. Len(f.owes) = 1 /\ f.owes[1] = n + 2 BY <1>5
  <2>2. Once(f.owes) BY <2>1 DEF Once
  <2> QED BY <1>5, <2>1, <2>2, OwedOne DEF Fits, OwesOf
<1>8. (W \cup Fresh(fb, 2)) \ {n + 1} = OwedBy(f) \cup (W \ OwedBy(Top))
      /\ OwedBy(f) \cap (W \ OwedBy(Top)) = {}
  BY <1>1, <1>2, <1>7
<1>9. Leads(fb, fb', 2, OwedBy(f) \cup (W \ OwedBy(Top))) BY <1>6, <1>8
<1>10. FrameOK(f, BlockCount(fb'))
  <2>1. BlockCount(fb') = n + 2 BY <1>9 DEF Leads, n
  <2>2. Top.hdr <= n /\ Top.hdr \in Nat BY <1>1, TopOK DEF FrameOK, n
  <2>3. Top.hdr <= BlockCount(fb') BY <1>2, <2>1, <2>2
  <2> QED BY <1>5, <1>7, <2>3 DEF FrameOK
<1>11. LoopsOK(loop_stack', BlockCount(fb')) BY <1>9, LoopsLead DEF GuardTest
<1>12. Descends(<<LowerExpr(Kid(2))>>) /\ ast' \in Seq(NodeSet)
  <2>1. Len(Top.node.kids) = 2 BY <1>1 DEF Fits
  <2>2. 2 \in 1..Len(Top.node.kids) BY <2>1
  <2> QED BY <1>1, <2>2, TopOK, LowerOne DEF GuardTest, Inv
<1>13. f.op \notin BaseOps BY <1>5 DEF BaseOps
<1> QED BY <1>1, <1>4, <1>8, <1>9, <1>10, <1>11, <1>12, <1>13, OnStep DEF W

-----------------------------------------------------------------------------
(* Loops                                                                   *)

LEMMA PushLoopOK ==
    ASSUME NEW n \in Nat, LoopsOK(loop_stack, n), NEW x \in 1..n, NEW h \in 1..n,
           PushLoop(x, h)
    PROVE  LoopsOK(loop_stack', n)
<1> DEFINE S == [break_block : Block, continue_block : Block]
           c == LoopCtx(x, h)
<1>1. c \in S /\ c.break_block = x /\ c.continue_block = h BY DEF LoopCtx, Block
<1>2. loop_stack \in Seq(S) /\ loop_stack' = Append(loop_stack, c)
  BY DEF LoopsOK, PushLoop
<1> HIDE DEF S, c
<1>3. /\ loop_stack' \in Seq(S) /\ Len(loop_stack') = Len(loop_stack) + 1
      /\ \A i \in 1..Len(loop_stack) : loop_stack'[i] = loop_stack[i]
      /\ loop_stack'[Len(loop_stack) + 1] = c /\ Len(loop_stack) \in Nat
  BY <1>1, <1>2, AppendProperties, LenProperties
<1>4. \A i \in 1..Len(loop_stack') : i \in 1..Len(loop_stack) \/ i = Len(loop_stack) + 1
  BY <1>3
<1> QED BY <1>1, <1>3, <1>4 DEF LoopsOK, S

LEMMA PopLoopOK ==
    ASSUME NEW n \in Nat, LoopsOK(loop_stack, n), PopLoop
    PROVE  LoopsOK(loop_stack', n)
<1> DEFINE S == [break_block : Block, continue_block : Block]
           m == Len(loop_stack) - 1
<1>1. loop_stack \in Seq(S) /\ Len(loop_stack) \in Nat
  BY LenProperties DEF LoopsOK
<1>2. loop_stack' = SubSeq(loop_stack, 1, m) BY DEF PopLoop
<1>3. \A i \in 1..m : i \in 1..Len(loop_stack) /\ loop_stack[i] \in S
  <2>1. \A i \in 1..m : i \in 1..Len(loop_stack) BY <1>1
  <2> QED BY <1>1, <2>1, LenProperties
<1>4. loop_stack' = [i \in 1..m |-> loop_stack[i]]
  <2>1. loop_stack' = [i \in 1..(m + 1 - 1) |-> loop_stack[1 + i - 1]]
    BY <1>1, <1>2
  <2> QED BY <1>1, <2>1
<1>5. CASE m >= 0
  <2>1. m \in Nat BY <1>1, <1>5
  <2> HIDE DEF m, S
  <2>2. loop_stack' \in Seq(S) /\ Len(loop_stack') = m
        /\ \A i \in 1..m : loop_stack'[i] = loop_stack[i]
    BY <1>3, <1>4, <2>1, IsASeq
  <2> QED BY <1>3, <2>2 DEF LoopsOK, S
<1>6. CASE ~(m >= 0)
  <2>1. loop_stack' = <<>> BY <1>1, <1>4, <1>6
  <2> QED BY <2>1 DEF LoopsOK
<1> QED BY <1>5, <1>6

LEMMA VisitInfiniteStep == Inv /\ VisitInfinite => Inv' /\ Keeps(fb, fb')
<1> SUFFICES ASSUME Inv, VisitInfinite PROVE Inv' /\ Keeps(fb, fb')
  OBVIOUS
<1> DEFINE n == BlockCount(fb)
           W == Waits(agenda)
           node == Node("infinite", NewKids(1), FALSE)
           at_hdr == SwitchTo(Terminate(NewBlocks(fb, 3), Goto(n + 1)), n + 1)
           f == Frame("loop_end", Top.e, node, <<n + 3>>, n + 1, 1)
           V == (W \cup Fresh(fb, 3)) \ {n + 1}
<1>1. /\ Reading /\ agenda # <<>> /\ Top.op \notin BaseOps /\ OwedBy(Top) = {}
      /\ Top.e \in Nat
  BY ReadingTop DEF VisitInfinite
<1>2. /\ n \in Nat /\ Sound(fb, W) /\ Fresh(fb, 3) = {n + 1, n + 2, n + 3}
      /\ n + 1 \notin W /\ n + 2 \notin W /\ n + 3 \notin W /\ n + 1 \in Nat
      /\ n + 3 \in Block /\ n + 1 # n + 2 /\ n + 1 # n + 3 /\ n + 2 # n + 3
  BY FreshOK DEF Fresh, Block
<1>3. Closer(Goto(n + 1), n + 3) /\ Closer(Goto(n + 2), n + 3)
  <2>1. n + 1 \in 1..(n + 3) /\ n + 2 \in 1..(n + 3) /\ n + 3 \in Nat BY <1>2
  <2> QED BY <2>1, Closers
<1>4. /\ fb' = SwitchTo(Terminate(at_hdr, Goto(n + 2)), n + 2)
      /\ Do(Append(<<LowerExpr(node.kids[1])>>, f))
      /\ PushLoop(n + 3, n + 1) /\ Read(Top.e, node)
  <2>1. (n + 1) + 1 = n + 2 /\ (n + 1) + 2 = n + 3 BY <1>2
  <2> QED BY <2>1, TwoFrames DEF VisitInfinite, NextBlock
<1>5. node \in NodeSet /\ node.kids[1] \in Nat
  <2>1. NewKids(1) \in Seq(Nat) /\ NewKids(1)[1] \in Nat
    <3>1. 1 \in 1..1 /\ 1 \in Nat OBVIOUS
    <3> QED BY <1>1, <3>1, ReadingTop, NewKidsOK
  <2>2. "infinite" \in NodeKinds BY DEF NodeKinds, LoopKinds
  <2> QED BY <2>1, <2>2, NodeOK
<1> HIDE DEF node
<1>6. f.owes \in Seq(Block) /\ f.owes = <<n + 3>> /\ f.hdr = n + 1
      /\ f \in FrameSet /\ f.op = "loop_end"
  <2>1. <<n + 3>> \in Seq(Block) /\ "loop_end" \in Ops BY <1>2 DEF Ops
  <2> QED BY <1>1, <1>2, <1>5, <2>1 DEF Frame, FrameSet
<1> HIDE DEF n, W, f, at_hdr
<1>7. Leads(fb, at_hdr, 3, V)
  <2>1. n + 1 \in W \cup Fresh(fb, 3) /\ 3 \in Nat BY <1>2
  <2> QED BY <1>2, <1>3, <2>1, Move DEF n, at_hdr
<1>8. n + 2 \in V /\ V \ {n + 2} = W \cup {n + 3} BY <1>2
<1> HIDE DEF V
<1>9. Sound(at_hdr, V) /\ BlockCount(at_hdr) = n + 3 BY <1>7 DEF Leads, n
<1>10. Leads(at_hdr, fb', 0, V \ {n + 2}) BY <1>3, <1>4, <1>8, <1>9, GoOn
<1>11. Leads(fb, fb', 3 + 0, V \ {n + 2}) BY <1>2, <1>7, <1>10, LeadsTrans
<1>12. OwedBy(f) = {n + 3} /\ Fits(f)
  <2>1. Len(f.owes) = 1 /\ f.owes[1] = n + 3 BY <1>6
  <2>2. Once(f.owes) BY <2>1 DEF Once
  <2>3. f.hdr >= 1 BY <1>2, <1>6
  <2> QED BY <1>6, <2>1, <2>2, <2>3, OwedOne DEF Fits, OwesOf
<1>13. Leads(fb, fb', 3, OwedBy(f) \cup (W \ OwedBy(Top)))
       /\ OwedBy(f) \cap (W \ OwedBy(Top)) = {}
  <2>1. V \ {n + 2} = OwedBy(f) \cup (W \ OwedBy(Top)) BY <1>1, <1>8, <1>12
  <2> QED BY <1>2, <1>11, <1>12, <2>1
<1>14. BlockCount(fb') = n + 3 BY <1>13 DEF Leads, n
<1>15. FrameOK(f, BlockCount(fb'))
  <2>1. f.hdr <= n + 3 BY <1>2, <1>6
  <2> QED BY <1>6, <1>12, <1>14, <2>1 DEF FrameOK
<1>16. LoopsOK(loop_stack', BlockCount(fb'))
  <2>1. n + 3 \in Nat /\ n <= n + 3 /\ n + 3 \in 1..(n + 3) /\ n + 1 \in 1..(n + 3)
    BY <1>2
  <2>2. LoopsOK(loop_stack, n) BY DEF Inv, n
  <2>3. LoopsOK(loop_stack, n + 3) BY <1>2, <2>1, <2>2, LoopsGrow
  <2>4. LoopsOK(loop_stack', n + 3) BY <1>4, <2>1, <2>3, PushLoopOK
  <2> QED BY <1>14, <2>4
<1>17. ast' \in Seq(NodeSet) BY <1>4, <1>5, ReadOK DEF Inv
<1>18. f.op \notin BaseOps BY <1>6 DEF BaseOps
<1> QED BY <1>1, <1>4, <1>5, <1>13, <1>15, <1>16, <1>17, <1>18, LowerOne, OnStep DEF W

LEMMA VisitLoopStep == Inv /\ VisitLoop => Inv' /\ Keeps(fb, fb')
<1> SUFFICES ASSUME Inv, NEW k \in TestedLoops, NEW else \in BOOLEAN, Reading, NEW node,
                    node = Node(k, NewKids(IF else THEN 3 ELSE 2), else), NEW head,
                    head = (IF k = "in" /\ "iterable" \notin Features
                            THEN <<>> ELSE <<LowerExpr(node.kids[2])>>),
                    NEW hdr, hdr = NextBlock(fb),
                    Read(Top.e, node),
                    fb' = SwitchTo(Terminate(NewBlocks(fb, 3), Goto(hdr)), hdr),
                    Do(Append(head, Frame("loop_test", Top.e, node,
                                          <<hdr + 1, hdr + 2>>, hdr, 1))),
                    UNCHANGED loop_stack
             PROVE  Inv' /\ Keeps(fb, fb')
  BY DEF VisitLoop
<1> DEFINE n == BlockCount(fb)
           W == Waits(agenda)
           m == IF else THEN 3 ELSE 2
           f == Frame("loop_test", Top.e, node, <<hdr + 1, hdr + 2>>, hdr, 1)
<1>1. /\ agenda # <<>> /\ Top.op \notin BaseOps /\ OwedBy(Top) = {} /\ Top.e \in Nat
  BY ReadingTop
<1>2. /\ n \in Nat /\ Sound(fb, W) /\ hdr = n + 1 /\ hdr \in Nat
      /\ Fresh(fb, 3) = {hdr, hdr + 1, hdr + 2}
      /\ hdr \notin W /\ hdr + 1 \notin W /\ hdr + 2 \notin W
      /\ hdr + 1 \in Block /\ hdr + 2 \in Block
      /\ hdr # hdr + 1 /\ hdr # hdr + 2 /\ hdr + 1 # hdr + 2
      /\ hdr \in 1..(n + 3) /\ n + 3 \in Nat
  BY FreshOK, SMTT(30) DEF Fresh, Block, NextBlock
<1>3. Closer(Goto(hdr), n + 3) BY <1>2, Closers
<1>4. node \in NodeSet /\ node.kids[2] \in Nat /\ Len(node.kids) >= 1
  <2>1. m \in Nat /\ 2 \in 1..m /\ m >= 1 OBVIOUS
  <2>2. node = Node(k, NewKids(m), else) OBVIOUS
  <2> HIDE DEF m
  <2>3. NewKids(m) \in Seq(Nat) /\ NewKids(m)[2] \in Nat /\ Len(NewKids(m)) = m
    BY <1>1, <2>1, ReadingTop, NewKidsOK
  <2>4. k \in NodeKinds BY DEF NodeKinds, LoopKinds
  <2>5. node \in NodeSet /\ node.kids = NewKids(m) BY <2>2, <2>3, <2>4, NodeOK
  <2> QED BY <2>1, <2>3, <2>5
<1>5. f.owes \in Seq(Block) /\ f.owes = <<hdr + 1, hdr + 2>> /\ f.hdr = hdr
      /\ f \in FrameSet /\ f.op = "loop_test" /\ f.node = node
  <2>1. <<hdr + 1, hdr + 2>> \in Seq(Block) /\ "loop_test" \in Ops BY <1>2 DEF Ops
  <2> QED BY <1>1, <1>2, <1>4, <2>1 DEF Frame, FrameSet
<1>6. Do(Append(head, f)) OBVIOUS
<1> HIDE DEF n, W, f
<1>7. Leads(fb, fb', 3, (W \cup Fresh(fb, 3)) \ {hdr})
  <2>1. hdr \in W \cup Fresh(fb, 3) /\ 3 \in Nat BY <1>2
  <2> QED BY <1>2, <1>3, <2>1, Move DEF n
<1>8. OwedBy(f) = {hdr + 1, hdr + 2} /\ Fits(f)
  <2>1. Len(f.owes) = 2 /\ f.owes[1] = hdr + 1 /\ f.owes[2] = hdr + 2 BY <1>5
  <2>2. OwedBy(f) = {hdr + 1, hdr + 2} BY <1>5, <2>1, OwedTwo
  <2>3. Once(f.owes)
    <3>1. 1..2 = {1, 2} OBVIOUS
    <3> QED BY <1>2, <2>1, <3>1 DEF Once
  <2>4. f.hdr >= 1 BY <1>2, <1>5
  <2> QED BY <1>4, <1>5, <2>1, <2>2, <2>3, <2>4 DEF Fits, OwesOf
<1>9. Leads(fb, fb', 3, OwedBy(f) \cup (W \ OwedBy(Top)))
      /\ OwedBy(f) \cap (W \ OwedBy(Top)) = {}
  <2>1. (W \cup Fresh(fb, 3)) \ {hdr} = OwedBy(f) \cup (W \ OwedBy(Top))
    BY <1>1, <1>2, <1>8
  <2> QED BY <1>2, <1>7, <1>8, <2>1
<1>10. FrameOK(f, BlockCount(fb'))
  <2>1. BlockCount(fb') = n + 3 BY <1>9 DEF Leads, n
  <2>2. f.hdr <= n + 3 BY <1>2, <1>5
  <2> QED BY <1>5, <1>8, <2>1, <2>2 DEF FrameOK
<1>11. LoopsOK(loop_stack', BlockCount(fb')) BY <1>9, LoopsLead
<1>12. ast' \in Seq(NodeSet) BY <1>4, ReadOK DEF Inv
<1>13. f.op \notin BaseOps BY <1>5 DEF BaseOps
<1>14. Descends(head) BY <1>4, LowerOne
<1> QED BY <1>1, <1>6, <1>9, <1>10, <1>11, <1>12, <1>13, <1>14, OnStep DEF W

LEMMA LoopEndStep == Inv /\ LoopEnd => Inv' /\ Keeps(fb, fb')
<1> SUFFICES ASSUME Inv, LoopEnd PROVE Inv' /\ Keeps(fb, fb')
  OBVIOUS
<1> DEFINE n == BlockCount(fb)
           W == Waits(agenda)
           exit == Top.owes[1]
<1>1. /\ agenda # <<>> /\ Top.op \notin BaseOps /\ Len(Top.owes) = 1 /\ Top.hdr >= 1
  <2>1. agenda # <<>> /\ Top.op = "loop_end" /\ Fits(Top)
    BY RunningTop DEF LoopEnd
  <2> QED BY <2>1 DEF Fits, OwesOf, BaseOps
<1>2. n \in Nat /\ Sound(fb, W) /\ W \subseteq 1..n BY FreshOK
<1>3. OwedBy(Top) = {exit} /\ exit \in W
  <2>1. Top.owes \in Seq(Block) /\ OwedBy(Top) \subseteq W BY <1>1, TopOK
  <2> QED BY <1>1, <2>1, OwedOne
<1>4. Closer(Goto(Top.hdr), n)
  <2>1. Top.hdr \in Nat /\ Top.hdr <= n BY <1>1, TopOK DEF FrameOK
  <2>2. Top.hdr \in 1..n BY <1>1, <1>2, <2>1
  <2> QED BY <1>2, <2>2, Closers
<1>5. fb' = SwitchTo(Terminate(fb, Goto(Top.hdr)), exit) /\ Do(<<>>)
  BY DEF LoopEnd
<1> HIDE DEF W, exit
<1>6. Leads(fb, fb', 0, W \ OwedBy(Top)) BY <1>2, <1>3, <1>4, <1>5, GoOn
<1>7. LoopsOK(loop_stack', BlockCount(fb'))
  <2>1. BlockCount(fb') = n + 0 BY <1>6 DEF Leads
  <2>2. BlockCount(fb') = n BY <1>2, <2>1
  <2>3. LoopsOK(loop_stack', n) BY <1>2, PopLoopOK DEF Inv, LoopEnd
  <2> QED BY <2>2, <2>3
<1>8. ast' \in Seq(NodeSet) BY DEF LoopEnd, Inv
<1> QED BY <1>1, <1>5, <1>6, <1>7, <1>8, TopOK, LowerOne, EndStep DEF W

LEMMA LoopTestStep == Inv /\ LoopTest => Inv' /\ Keeps(fb, fb')
<1> SUFFICES ASSUME Inv, LoopTest PROVE Inv' /\ Keeps(fb, fb')
  OBVIOUS
<1> DEFINE n == BlockCount(fb)
           W == Waits(agenda)
           body == Top.owes[1]
           exit == Top.owes[2]
           test == Branch(Top.e, body, exit)
           f == Rest("loop_end", <<exit>>)
           asked == SwitchTo(Terminate(NewBlocks(fb, 1), Call(0, n + 1)), n + 1)
           bound == SwitchTo(Terminate(asked, test), body)
<1>1. /\ agenda # <<>> /\ Top.op = "loop_test" /\ Fits(Top) /\ Top.op \notin BaseOps
      /\ Len(Top.owes) = 2 /\ Top.hdr >= 1 /\ Len(Top.node.kids) >= 1
  <2>1. agenda # <<>> /\ Top.op = "loop_test" /\ Fits(Top)
    BY RunningTop DEF LoopTest
  <2> QED BY <2>1 DEF Fits, OwesOf, BaseOps
<1>2. /\ n \in Nat /\ n + 1 \in Nat /\ n + 2 \in Nat /\ 0 \in Nat
      /\ n + 1 \in 1..(n + 1) /\ n + 2 \in 1..(n + 2) /\ (n + 1) + 1 = n + 2
      /\ Sound(fb, W) /\ W \subseteq 1..n
  BY FreshOK
<1>3. /\ OwedBy(Top) = {body, exit} /\ body \in W /\ exit \in W /\ body # exit
      /\ body \in Block /\ exit \in Block
  <2>1. Top.owes \in Seq(Block) /\ OwedBy(Top) \subseteq W BY <1>1, TopOK
  <2>2. Once(Top.owes) BY <1>1 DEF Fits
  <2>3. body # exit BY <1>1, <2>2 DEF Once
  <2>4. body \in Block /\ exit \in Block BY <1>1, <2>1
  <2> QED BY <1>1, <2>1, <2>3, <2>4, OwedTwo
<1>4. Closer(test, n) /\ Closer(test, n + 1)
  <2>1. body \in 1..n /\ exit \in 1..n BY <1>2, <1>3
  <2>2. body \in 1..(n + 1) /\ exit \in 1..(n + 1) BY <1>2, <2>1
  <2>3. Top.e \in Nat BY <1>1, TopOK
  <2> QED BY <1>2, <2>1, <2>2, <2>3, Closers
<1>5. /\ f.owes = <<exit>> /\ f.hdr = Top.hdr /\ f \in FrameSet /\ f.op = "loop_end"
      /\ f.owes \in Seq(Block)
  <2>1. <<exit>> \in Seq(Block) /\ "loop_end" \in Ops BY <1>3 DEF Ops
  <2>2. /\ Top.e \in Nat /\ Top.node \in NodeSet /\ Top.at \in Nat /\ Top.hdr \in Nat
    BY <1>1, TopOK
  <2> QED BY <2>1, <2>2 DEF Rest, Frame, FrameSet
<1>6. Do(Append(<<LowerExpr(Kid(1))>>, f)) /\ PushLoop(exit, Top.hdr)
  BY TwoFrames DEF LoopTest
<1>7. \/ /\ fb' = SwitchTo(Terminate(NewBlocks(bound, 1), Goto(n + 2)), n + 2)
      \/ fb' = SwitchTo(Terminate(fb, test), body)
  BY <1>2 DEF LoopTest, NextBlock
<1> HIDE DEF W, f, n, body, exit, test, asked, bound
<1>8. \E k \in Nat : Leads(fb, fb', k, W \ {body})
  <2>1. CASE fb' = SwitchTo(Terminate(fb, test), body)
    <3>1. Leads(fb, fb', 0, W \ {body}) BY <1>2, <1>3, <1>4, <2>1, GoOn DEF n
    <3> QED BY <3>1
  <2>2. CASE fb' = SwitchTo(Terminate(NewBlocks(bound, 1), Goto(n + 2)), n + 2)
    <3>1. Leads(fb, asked, 1, W)
      <4>1. Closer(Call(0, n + 1), n + 1) BY <1>2, Closers
      <4> QED BY <1>2, <4>1, Detour DEF n, asked
    <3>2. Sound(asked, W) /\ BlockCount(asked) = n + 1 BY <3>1 DEF Leads, n
    <3>3. Leads(asked, bound, 0, W \ {body}) BY <1>3, <1>4, <3>2, GoOn DEF bound
    <3>4. Leads(fb, bound, 1 + 0, W \ {body}) BY <1>2, <3>1, <3>3, LeadsTrans
    <3>5. Sound(bound, W \ {body}) /\ BlockCount(bound) = n + 1
      BY <1>2, <3>4 DEF Leads, n
    <3>6. Leads(bound, fb', 1, W \ {body})
      <4>1. Closer(Goto(n + 2), n + 2) BY <1>2, Closers
      <4>2. n + 2 = BlockCount(bound) + 1 BY <1>2, <3>5
      <4> DEFINE c == n + 2
      <4>3. fb' = SwitchTo(Terminate(NewBlocks(bound, 1), Goto(c)), c)
            /\ Closer(Goto(c), BlockCount(bound) + 1) /\ c = BlockCount(bound) + 1
        BY <2>2, <4>1, <4>2
      <4> HIDE DEF c
      <4> QED BY <3>5, <4>3, Detour
    <3>7. Leads(fb, bound, 1, W \ {body}) BY <3>4
    <3>8. Leads(fb, fb', 1 + 1, W \ {body}) BY <1>2, <3>6, <3>7, LeadsTrans
    <3> QED BY <3>8
  <2> QED BY <1>7, <2>1, <2>2
<1>9. PICK k \in Nat : Leads(fb, fb', k, W \ {body}) BY <1>8
<1>10. OwedBy(f) = {exit} /\ Fits(f)
  <2>1. Len(f.owes) = 1 /\ f.owes[1] = exit BY <1>5
  <2>2. Once(f.owes) BY <2>1 DEF Once
  <2> QED BY <1>1, <1>5, <2>1, <2>2, OwedOne DEF Fits, OwesOf
<1>11. W \ {body} = OwedBy(f) \cup (W \ OwedBy(Top))
       /\ OwedBy(f) \cap (W \ OwedBy(Top)) = {}
  BY <1>3, <1>10
<1>12. Leads(fb, fb', k, OwedBy(f) \cup (W \ OwedBy(Top))) BY <1>9, <1>11
<1>13. BlockCount(fb') \in Nat /\ n <= BlockCount(fb')
  <2>1. BlockCount(fb') = n + k BY <1>9 DEF Leads, n
  <2> QED BY <1>2, <2>1
<1>14. Top.hdr \in Nat /\ Top.hdr <= n BY <1>1, TopOK DEF FrameOK, n
<1>15. FrameOK(f, BlockCount(fb'))
  <2>1. f.hdr <= BlockCount(fb') BY <1>2, <1>5, <1>13, <1>14
  <2> QED BY <1>5, <1>10, <2>1 DEF FrameOK
<1>16. LoopsOK(loop_stack', BlockCount(fb'))
  <2>1. LoopsOK(loop_stack, n) BY DEF Inv, n
  <2>2. LoopsOK(loop_stack, BlockCount(fb')) BY <1>2, <1>13, <2>1, LoopsGrow
  <2>3. exit \in 1..BlockCount(fb') /\ Top.hdr \in 1..BlockCount(fb')
    BY <1>1, <1>2, <1>3, <1>13, <1>14
  <2> QED BY <1>6, <1>13, <2>2, <2>3, PushLoopOK
<1>17. Descends(<<LowerExpr(Kid(1))>>) /\ ast' \in Seq(NodeSet)
  <2>1. 1 \in 1..Len(Top.node.kids) BY <1>1, TopOK
  <2> QED BY <1>1, <2>1, TopOK, LowerOne DEF LoopTest, Inv
<1>18. f.op \notin BaseOps BY <1>5 DEF BaseOps
<1> QED BY <1>1, <1>6, <1>11, <1>12, <1>15, <1>16, <1>17, <1>18, OnStep DEF W

LEMMA ForkEndStep == Inv /\ ForkEnd => Inv' /\ Keeps(fb, fb')
<1> SUFFICES ASSUME Inv, ForkEnd PROVE Inv' /\ Keeps(fb, fb')
  OBVIOUS
<1> DEFINE n == BlockCount(fb)
           W == Waits(agenda)
           exit == Top.owes[1]
           pushed == SwitchTo(Terminate(NewBlocks(fb, 1), Call(0, n + 1)), n + 1)
<1>1. /\ agenda # <<>> /\ Top.op \notin BaseOps /\ Len(Top.owes) = 1 /\ Top.hdr >= 1
  <2>1. agenda # <<>> /\ Top.op = "fork_end" /\ Fits(Top)
    BY RunningTop DEF ForkEnd
  <2> QED BY <2>1 DEF Fits, OwesOf, BaseOps
<1>2. /\ n \in Nat /\ n + 1 \in Nat /\ n + 1 \in 1..(n + 1) /\ 0 \in Nat
      /\ Sound(fb, W) /\ W \subseteq 1..n
  BY FreshOK
<1>3. OwedBy(Top) = {exit} /\ exit \in W
  <2>1. Top.owes \in Seq(Block) /\ OwedBy(Top) \subseteq W BY <1>1, TopOK
  <2> QED BY <1>1, <2>1, OwedOne
<1>4. Closer(Goto(Top.hdr), n + 1)
  <2>1. Top.hdr \in Nat /\ Top.hdr <= n BY <1>1, TopOK DEF FrameOK
  <2>2. Top.hdr \in 1..(n + 1) BY <1>1, <1>2, <2>1
  <2> QED BY <1>2, <2>2, Closers
<1>5. fb' = SwitchTo(Terminate(pushed, Goto(Top.hdr)), exit) /\ Do(<<>>)
  BY DEF ForkEnd, NextBlock
<1> HIDE DEF W, exit, n, pushed
<1>6. Leads(fb, pushed, 1, W)
  <2>1. Closer(Call(0, n + 1), n + 1) BY <1>2, Closers
  <2> QED BY <1>2, <2>1, Detour DEF n, pushed
<1>7. Sound(pushed, W) /\ BlockCount(pushed) = n + 1 BY <1>6 DEF Leads, n
<1>8. Leads(pushed, fb', 0, W \ {exit}) BY <1>3, <1>4, <1>5, <1>7, GoOn
<1>9. Leads(fb, fb', 1 + 0, W \ {exit}) BY <1>2, <1>6, <1>8, LeadsTrans
<1>10. Leads(fb, fb', 1, W \ OwedBy(Top)) BY <1>3, <1>9
<1>11. LoopsOK(loop_stack', BlockCount(fb')) BY <1>10, LoopsLead DEF ForkEnd
<1>12. ast' \in Seq(NodeSet) BY DEF ForkEnd, Inv
<1> QED BY <1>1, <1>5, <1>10, <1>11, <1>12, TopOK, LowerOne, EndStep DEF W

LEMMA ForkHeadStep == Inv /\ ForkHead => Inv' /\ Keeps(fb, fb')
<1> SUFFICES ASSUME Inv, ForkHead PROVE Inv' /\ Keeps(fb, fb')
  OBVIOUS
<1> DEFINE n == BlockCount(fb)
           W == Waits(agenda)
           V == W \cup {n + 2, n + 3}
           test == Branch(Top.e, n + 2, n + 3)
           at_hdr == SwitchTo(Terminate(NewBlocks(fb, 3), Goto(n + 1)), n + 1)
           at_chk == SwitchTo(Terminate(NewBlocks(at_hdr, 1), Call(0, n + 4)), n + 4)
           f == Frame("fork_end", Top.e, Top.node, <<n + 3>>, n + 1, 1)
<1>1. /\ agenda # <<>> /\ Top.op = "fork_head" /\ OwedBy(Top) = {} /\ Fits(Top)
      /\ Top.op \notin BaseOps /\ Len(Top.node.kids) >= 1
  <2>1. agenda # <<>> /\ Top.op = "fork_head" /\ OwedBy(Top) = {} /\ Fits(Top)
    BY RunningTop DEF ForkHead, OwesOf
  <2> QED BY <2>1 DEF Fits, BaseOps
<1>2. /\ n \in Nat /\ Sound(fb, W) /\ Fresh(fb, 3) = {n + 1, n + 2, n + 3}
      /\ n + 1 \notin W /\ n + 2 \notin W /\ n + 3 \notin W
      /\ n + 1 # n + 2 /\ n + 1 # n + 3 /\ n + 2 # n + 3
      /\ n + 1 \in Nat /\ n + 3 \in Nat /\ n + 4 \in Nat /\ 0 \in Nat /\ n + 3 \in Block
      /\ n + 1 \in 1..(n + 3) /\ n + 4 \in 1..(n + 4) /\ (n + 3) + 1 = n + 4
      /\ n + 2 \in 1..(n + 4) /\ n + 3 \in 1..(n + 4)
  BY FreshOK, SMTT(30) DEF Fresh, Block
<1>3. /\ Closer(Goto(n + 1), n + 3) /\ Closer(Call(0, n + 4), n + 4)
      /\ Closer(test, n + 4)
  <2>1. Top.e \in Nat BY <1>1, TopOK
  <2> QED BY <1>2, <2>1, Closers
<1>4. /\ fb' = SwitchTo(Terminate(at_chk, test), n + 2)
      /\ Do(Append(<<LowerExpr(Kid(1))>>, f))
  <2>1. (n + 1) + 1 = n + 2 /\ (n + 1) + 2 = n + 3 /\ (n + 1) + 3 = n + 4 BY <1>2
  <2> QED BY <2>1, TwoFrames DEF ForkHead, NextBlock
<1>5. /\ f.owes = <<n + 3>> /\ f.hdr = n + 1 /\ f \in FrameSet /\ f.op = "fork_end"
      /\ f.owes \in Seq(Block)
  <2>1. <<n + 3>> \in Seq(Block) /\ "fork_end" \in Ops BY <1>2 DEF Ops
  <2>2. Top.e \in Nat /\ Top.node \in NodeSet BY <1>1, TopOK
  <2> QED BY <1>2, <2>1, <2>2 DEF Frame, FrameSet
<1> HIDE DEF n, W, f, at_hdr, at_chk, test
<1>6. Leads(fb, at_hdr, 3, V)
  <2>1. n + 1 \in W \cup Fresh(fb, 3) /\ 3 \in Nat BY <1>2
  <2>2. Leads(fb, at_hdr, 3, (W \cup Fresh(fb, 3)) \ {n + 1})
    BY <1>2, <1>3, <2>1, Move DEF n, at_hdr
  <2>3. (W \cup Fresh(fb, 3)) \ {n + 1} = V BY <1>2
  <2> QED BY <2>2, <2>3
<1>7. n + 2 \in V /\ V \ {n + 2} = W \cup {n + 3} BY <1>2
<1> HIDE DEF V
<1>8. Sound(at_hdr, V) /\ BlockCount(at_hdr) = n + 3 BY <1>6 DEF Leads, n
<1>9. Leads(at_hdr, at_chk, 1, V)
  <2> DEFINE c == n + 4
  <2>1. /\ c = BlockCount(at_hdr) + 1 /\ Closer(Call(0, c), BlockCount(at_hdr) + 1)
        /\ at_chk = SwitchTo(Terminate(NewBlocks(at_hdr, 1), Call(0, c)), c)
    BY <1>2, <1>3, <1>8 DEF at_chk
  <2> HIDE DEF c
  <2> QED BY <1>8, <2>1, Detour
<1>10. Leads(fb, at_chk, 3 + 1, V) BY <1>2, <1>6, <1>9, LeadsTrans
<1>11. Leads(fb, at_chk, 4, V) BY <1>10
<1>12. Sound(at_chk, V) /\ BlockCount(at_chk) = n + 4
  BY <1>2, <1>11 DEF Leads, n
<1>13. Leads(at_chk, fb', 0, V \ {n + 2}) BY <1>3, <1>4, <1>7, <1>12, GoOn
<1>14. Leads(fb, fb', 4 + 0, V \ {n + 2}) BY <1>2, <1>11, <1>13, LeadsTrans
<1>15. OwedBy(f) = {n + 3} /\ Fits(f)
  <2>1. Len(f.owes) = 1 /\ f.owes[1] = n + 3 BY <1>5
  <2>2. Once(f.owes) BY <2>1 DEF Once
  <2>3. f.hdr >= 1 BY <1>2, <1>5
  <2> QED BY <1>5, <2>1, <2>2, <2>3, OwedOne DEF Fits, OwesOf
<1>16. Leads(fb, fb', 4, OwedBy(f) \cup (W \ OwedBy(Top)))
       /\ OwedBy(f) \cap (W \ OwedBy(Top)) = {}
  <2>1. V \ {n + 2} = OwedBy(f) \cup (W \ OwedBy(Top)) BY <1>1, <1>7, <1>15
  <2> QED BY <1>2, <1>14, <1>15, <2>1
<1>17. FrameOK(f, BlockCount(fb'))
  <2>1. BlockCount(fb') = n + 4 BY <1>16 DEF Leads, n
  <2>2. f.hdr <= n + 4 BY <1>2, <1>5
  <2> QED BY <1>5, <1>15, <2>1, <2>2 DEF FrameOK
<1>18. LoopsOK(loop_stack', BlockCount(fb')) BY <1>16, LoopsLead DEF ForkHead
<1>19. Descends(<<LowerExpr(Kid(1))>>) /\ ast' \in Seq(NodeSet)
  <2>1. 1 \in 1..Len(Top.node.kids) BY <1>1, TopOK
  <2> QED BY <1>1, <2>1, TopOK, LowerOne DEF ForkHead, Inv
<1>20. f.op \notin BaseOps BY <1>5 DEF BaseOps
<1> QED BY <1>1, <1>4, <1>16, <1>17, <1>18, <1>19, <1>20, OnStep DEF W

-----------------------------------------------------------------------------
(* match                                                                   *)

\* Lowering an arm descends into its guard, if it has one, and its body.
LEMMA LowerArmOK ==
    ASSUME Inv, agenda # <<>>, Len(Top.node.kids) = MatchKids(Top.node.arms),
           NEW i \in 1..Len(Top.node.arms)
    PROVE  Descends(LowerArm(i))
<1>1. /\ Kid(BodyKid(i)) \in Nat
      /\ Top.node.arms[i].guard => Kid(GuardKid(Top.node.arms, i)) \in Nat
  <2>1. Top.node.arms \in Seq(ArmSet) BY TopOK
  <2>2. /\ BodyKid(i) \in 1..Len(Top.node.kids)
        /\ Top.node.arms[i].guard => GuardKid(Top.node.arms, i) \in 1..Len(Top.node.kids)
    BY <2>1, MatchKidsOK
  <2> QED BY <2>2, TopOK
<1>2. "expr" \in Ops BY DEF Ops
<1> DEFINE g == LowerExpr(Kid(GuardKid(Top.node.arms, i)))
           b == LowerExpr(Kid(BodyKid(i)))
<1>3. /\ Top.node.arms[i].guard =>
            g \in FrameSet /\ g.op = "expr" /\ g.owes = <<>> /\ g.hdr = 0
      /\ b \in FrameSet /\ b.op = "expr" /\ b.owes = <<>> /\ b.hdr = 0
  BY <1>1, <1>2, LeafOK, ThenTyped DEF LowerExpr
<1> HIDE DEF g, b
<1>4. LowerArm(i) = (IF Top.node.arms[i].guard THEN <<g>> ELSE <<>>) \o <<b>>
  BY DEF LowerArm, g, b
<1>5. CASE Top.node.arms[i].guard
  <2>1. LowerArm(i) = <<g>> \o <<b>> BY <1>4, <1>5
  <2>2. LowerArm(i) = <<g, b>>
    <3>1. <<g>> \in Seq(FrameSet) BY <1>3, <1>5
    <3>2. Append(<<g>>, b) = <<g>> \o <<b>> BY <1>3, <3>1, AppendIsConcat
    <3> QED BY <2>1, <3>2, TwoFrames
  <2> QED BY <1>3, <1>5, <2>2 DEF Descends
<1>6. CASE ~Top.node.arms[i].guard
  <2>1. LowerArm(i) = <<>> \o <<b>> BY <1>4, <1>6
  <2>2. LowerArm(i) = <<b>> BY <2>1
  <2> QED BY <1>3, <2>2 DEF Descends
<1> QED BY <1>5, <1>6

\* The switch closes a block: arm i goes to the block i after the join block.
LEMMA SwitchCloses ==
    ASSUME NEW e \in Nat, NEW arms \in Seq(ArmSet), NEW j \in Nat \ {0}
    PROVE  Closer(SwitchOn(e, arms, j), j + Len(arms))
<1> DEFINE n == Len(arms)
           o == j + n
           to == [i \in 1..n |-> IF Known(arms[i]) THEN j + i ELSE o]
           on == [i \in 1..n |-> IF Known(arms[i]) THEN arms[i].pat.d ELSE NoDiscriminant]
<1>1. n \in Nat /\ \A i \in 1..n : arms[i] \in ArmSet
  BY LenProperties
<1>2. o \in Block /\ o \in 1..o /\ \A i \in 1..n : j + i \in Block /\ j + i \in 1..o
  BY <1>1 DEF Block
<1>3. \A i \in 1..n : arms[i].pat.d \in Int
  BY <1>1 DEF ArmSet, PatternSet
<1>4. SwitchOn(e, arms, j) = [k |-> "switch", n |-> e, to |-> Append(to, o), on |-> on]
  BY DEF SwitchOn, Switch, Terminator
<1>5. on \in Seq(Int)
  <2>1. \A i \in 1..n : (IF Known(arms[i]) THEN arms[i].pat.d ELSE NoDiscriminant) \in Int
    BY <1>3 DEF NoDiscriminant
  <2> HIDE DEF n
  <2> QED BY <1>1, <2>1, IsASeq
<1>6. to \in Seq(Block) /\ Len(to) = n /\ \A i \in 1..n : to[i] \in 1..o
  <2>1. \A i \in 1..n : /\ (IF Known(arms[i]) THEN j + i ELSE o) \in Block
                         /\ (IF Known(arms[i]) THEN j + i ELSE o) \in 1..o
    BY <1>2
  <2> HIDE DEF n, o
  <2> QED BY <1>1, <2>1, IsASeq
<1> HIDE DEF to, on, o, n
<1>7. /\ Append(to, o) \in Seq(Block) /\ Len(Append(to, o)) = n + 1
      /\ \A i \in 1..n : Append(to, o)[i] = to[i]
      /\ Append(to, o)[n + 1] = o
  BY <1>2, <1>6, AppendProperties
<1>8. \A i \in 1..(n + 1) : Append(to, o)[i] \in 1..o
  <2>1. \A i \in 1..(n + 1) : i \in 1..n \/ i = n + 1 BY <1>1
  <2> QED BY <1>2, <1>6, <1>7, <2>1
<1>9. DOMAIN Append(to, o) = 1..(n + 1)
  BY <1>7, LenProperties
<1>10. Closer(SwitchOn(e, arms, j), o)
  BY <1>4, <1>5, <1>7, <1>8, <1>9 DEF Closer, TermSet, TermKinds, Successors
<1> QED BY <1>10 DEF o, n

\* The blocks a match with n arms owes when its first arm is being lowered: those
\* of the other arms, in order, and the join block.
ArmBlocks(n, join) == Append([i \in 1..(n - 1) |-> join + 1 + i], join)

LEMMA ArmBlocksOK ==
    ASSUME NEW n \in Nat \ {0}, NEW join \in Nat \ {0}
    PROVE  /\ ArmBlocks(n, join) \in Seq(Block) /\ Len(ArmBlocks(n, join)) = n
           /\ Once(ArmBlocks(n, join))
           /\ {ArmBlocks(n, join)[i] : i \in 1..n} = (join..(join + n)) \ {join + 1}
<1> DEFINE s == [i \in 1..(n - 1) |-> join + 1 + i]
           a == ArmBlocks(n, join)
<1>1. s \in Seq(Block) /\ Len(s) = n - 1 /\ \A i \in 1..(n - 1) : s[i] = join + 1 + i
  <2>1. n - 1 \in Nat /\ \A i \in 1..(n - 1) : join + 1 + i \in Block BY DEF Block
  <2> QED BY <2>1, IsASeq
<1>2. a = Append(s, join) BY DEF ArmBlocks
<1> HIDE DEF s, a
<1>3. /\ a \in Seq(Block) /\ Len(a) = n
      /\ \A i \in 1..(n - 1) : a[i] = join + 1 + i
      /\ a[n] = join
  <2>1. join \in Block BY DEF Block
  <2>2. /\ a \in Seq(Block) /\ Len(a) = Len(s) + 1
        /\ \A i \in 1..Len(s) : a[i] = s[i] /\ a[Len(s) + 1] = join
    BY <1>1, <1>2, <2>1, AppendProperties
  <2>3. Len(s) + 1 = n /\ a[Len(s) + 1] = join
    BY <1>1, <1>2, <2>1, AppendProperties
  <2> QED BY <1>1, <2>2, <2>3
<1>4. \A i \in 1..n : \/ i \in 1..(n - 1) /\ a[i] = join + 1 + i
                      \/ i = n /\ a[i] = join
  BY <1>3
<1>5. Once(a)
  BY <1>3, <1>4 DEF Once
<1>6. \A i \in 1..n : a[i] \in (join..(join + n)) \ {join + 1}
  BY <1>4
<1>7. \A b \in (join..(join + n)) \ {join + 1} : \E i \in 1..n : a[i] = b
  <2> SUFFICES ASSUME NEW b \in (join..(join + n)) \ {join + 1}
               PROVE  \E i \in 1..n : a[i] = b
    OBVIOUS
  <2>1. CASE b = join BY <1>3, <2>1
  <2>2. CASE b # join
    <3>1. b - join - 1 \in 1..(n - 1) /\ join + 1 + (b - join - 1) = b BY <2>2
    <3>2. b - join - 1 \in 1..n /\ a[b - join - 1] = b BY <1>3, <3>1
    <3> QED BY <3>2
  <2> QED BY <2>1, <2>2
<1>8. {a[i] : i \in 1..n} = (join..(join + n)) \ {join + 1}
  BY <1>6, <1>7
<1> QED BY <1>3, <1>5, <1>8 DEF a

LEMMA MatchSwitchStep == Inv /\ MatchSwitch => Inv' /\ Keeps(fb, fb')
<1> SUFFICES ASSUME Inv, MatchSwitch PROVE Inv' /\ Keeps(fb, fb')
  OBVIOUS
<1> DEFINE N == BlockCount(fb)
           W == Waits(agenda)
           n == Len(Top.node.arms)
           join == N + 1
           t == SwitchOn(Top.e, Top.node.arms, join)
           f == Rest("match_arm", ArmBlocks(n, join))
<1>1. /\ agenda # <<>> /\ Top.op = "match_switch" /\ OwedBy(Top) = {} /\ Fits(Top)
      /\ Top.op \notin BaseOps /\ Top.at = 1 /\ Len(Top.node.kids) = MatchKids(Top.node.arms)
  <2>1. agenda # <<>> /\ Top.op = "match_switch" /\ OwedBy(Top) = {} /\ Fits(Top)
    BY RunningTop DEF MatchSwitch, OwesOf
  <2> QED BY <2>1 DEF Fits, BaseOps
<1>2. /\ N \in Nat /\ n \in Nat /\ Sound(fb, W) /\ W \subseteq 1..N
      /\ join \in Nat \ {0} /\ join + n = N + (n + 1) /\ n + 1 \in Nat
      /\ Fresh(fb, n + 1) = join..(join + n) /\ join \in Fresh(fb, n + 1)
  <2>1. n \in Nat /\ N \in Nat /\ W \subseteq 1..N /\ Sound(fb, W)
    BY <1>1, TopOK DEF Inv
  <2> HIDE DEF n
  <2> QED BY <2>1 DEF Fresh
<1>3. Closer(t, N + (n + 1))
  <2>1. Top.e \in Nat /\ Top.node.arms \in Seq(ArmSet) BY <1>1, TopOK
  <2> QED BY <1>2, <2>1, SwitchCloses
<1>4. /\ n = 0 => /\ fb' = SwitchTo(Terminate(NewBlocks(fb, n + 1), t), join)
                  /\ Do(<<>>)
      /\ n # 0 => /\ fb' = SwitchTo(Terminate(NewBlocks(fb, n + 1), t), join + 1)
                  /\ Do(Append(LowerArm(1), f))
  BY DEF MatchSwitch, NextBlock, ArmBlocks
<1>5. ast' \in Seq(NodeSet) BY DEF MatchSwitch, Inv
<1>6. CASE n = 0
  <2> HIDE DEF t, N, W, join, n, f
  <2>1. Leads(fb, fb', n + 1, (W \cup Fresh(fb, n + 1)) \ {join})
    BY <1>2, <1>3, <1>4, <1>6, Move DEF N
  <2>2. Fresh(fb, n + 1) = {join} /\ join \notin W
    <3>1. join + n = join /\ join = N + 1 BY <1>2, <1>6 DEF join
    <3>2. Fresh(fb, n + 1) = {join} BY <1>2, <3>1
    <3> QED BY <1>2, <3>1, <3>2
  <2>3. (W \cup Fresh(fb, n + 1)) \ {join} = W \ OwedBy(Top) BY <1>1, <2>2
  <2>4. Leads(fb, fb', n + 1, W \ OwedBy(Top)) BY <2>1, <2>3
  <2>5. LoopsOK(loop_stack', BlockCount(fb')) BY <1>2, <2>4, LoopsLead DEF MatchSwitch
  <2>6. Do(<<>>) /\ Descends(<<>>) BY <1>1, <1>4, <1>6, TopOK, LowerOne
  <2> QED BY <1>1, <1>2, <1>5, <2>4, <2>5, <2>6, EndStep DEF W
<1>7. CASE n # 0
  <2> DEFINE a == ArmBlocks(n, join)
  <2>1. n \in Nat \ {0} BY <1>2, <1>7
  <2>2. Descends(LowerArm(1))
    <3>1. 1 \in 1..n BY <2>1
    <3> QED BY <1>1, <3>1, LowerArmOK
  <2>3. /\ a \in Seq(Block) /\ Len(a) = n /\ Once(a)
        /\ {a[i] : i \in 1..n} = (join..(join + n)) \ {join + 1}
    <3> HIDE DEF n, join
    <3> QED BY <1>2, <2>1, ArmBlocksOK
  <2> HIDE DEF a
  <2>4. /\ f.owes = a /\ f.hdr = Top.hdr /\ f \in FrameSet /\ f.op = "match_arm"
        /\ f.node = Top.node /\ f.at = 1
    <3>1. "match_arm" \in Ops BY DEF Ops
    <3>2. /\ Top.e \in Nat /\ Top.node \in NodeSet /\ Top.at \in Nat /\ Top.hdr \in Nat
      BY <1>1, TopOK
    <3> QED BY <1>1, <2>3, <3>1, <3>2 DEF Rest, Frame, FrameSet, a
  <2> HIDE DEF f, t
  <2>5. OwedBy(f) = (join..(join + n)) \ {join + 1}
    <3>1. Len(f.owes) = n BY <2>3, <2>4
    <3> HIDE DEF n, join
    <3> QED BY <2>3, <2>4, <3>1 DEF OwedBy
  <2>6. Fits(f)
    <3>1. f.at \in 1..Len(f.node.arms) /\ Len(f.owes) = Len(f.node.arms) - f.at + 1
      <4>1. Len(f.node.arms) = n BY <2>4
      <4> HIDE DEF n
      <4> QED BY <2>1, <2>3, <2>4, <4>1
    <3>2. Len(f.node.kids) = MatchKids(f.node.arms) BY <1>1, <2>4
    <3> QED BY <2>3, <2>4, <3>1, <3>2 DEF Fits
  <2> HIDE DEF N, W, n, join
  <2>7. join + 1 \in Fresh(fb, n + 1) BY <1>2, <2>1
  <2>8. Leads(fb, fb', n + 1, (W \cup Fresh(fb, n + 1)) \ {join + 1})
    BY <1>2, <1>3, <1>4, <1>7, <2>7, Move DEF N
  <2>9. Fresh(fb, n + 1) \cap W = {}
    <3>1. \A b \in join..(join + n) : b \notin 1..N BY <1>2 DEF join
    <3> QED BY <1>2, <3>1
  <2>10. /\ (W \cup Fresh(fb, n + 1)) \ {join + 1} = OwedBy(f) \cup (W \ OwedBy(Top))
         /\ OwedBy(f) \cap (W \ OwedBy(Top)) = {}
    BY <1>1, <1>2, <2>5, <2>7, <2>9
  <2>11. Leads(fb, fb', n + 1, OwedBy(f) \cup (W \ OwedBy(Top))) BY <2>8, <2>10
  <2>12. FrameOK(f, BlockCount(fb'))
    <3>1. BlockCount(fb') = N + (n + 1) BY <2>11 DEF Leads, N
    <3>2. Top.hdr <= N /\ Top.hdr \in Nat BY <1>1, TopOK DEF FrameOK, N
    <3>3. Top.hdr <= N + (n + 1)
      <4>1. N \in Nat /\ n + 1 \in Nat BY <1>2
      <4> QED BY <3>2, <4>1
    <3> QED BY <2>4, <2>6, <3>1, <3>3 DEF FrameOK
  <2>13. LoopsOK(loop_stack', BlockCount(fb')) BY <1>2, <2>11, LoopsLead DEF MatchSwitch
  <2>14. f.op \notin BaseOps /\ Do(Append(LowerArm(1), f))
    BY <1>4, <1>7, <2>4 DEF BaseOps
  <2> QED BY <1>1, <1>2, <1>5, <2>2, <2>10, <2>11, <2>12, <2>13, <2>14, OnStep DEF W
<1> QED BY <1>6, <1>7

LEMMA MatchArmStep == Inv /\ MatchArm => Inv' /\ Keeps(fb, fb')
<1> SUFFICES ASSUME Inv, MatchArm PROVE Inv' /\ Keeps(fb, fb')
  OBVIOUS
<1> DEFINE N == BlockCount(fb)
           W == Waits(agenda)
           n == Len(Top.node.arms)
           m == Len(Top.owes)
           join == Top.owes[m]
           next == Head(Top.owes)
           f == Onward(Tail(Top.owes))
<1>1. /\ agenda # <<>> /\ Top.op = "match_arm" /\ Fits(Top) /\ Top.op \notin BaseOps
      /\ Top.owes \in Seq(Block) /\ Once(Top.owes)
      /\ Top.at \in 1..n /\ m = n - Top.at + 1
      /\ Len(Top.node.kids) = MatchKids(Top.node.arms)
  <2>1. agenda # <<>> /\ Top.op = "match_arm" /\ Fits(Top) /\ Top.owes \in Seq(Block)
    BY RunningTop DEF MatchArm
  <2> QED BY <2>1 DEF Fits, BaseOps
<1>2. /\ N \in Nat /\ n \in Nat /\ m \in Nat \ {0} /\ Top.at \in Nat /\ Sound(fb, W)
      /\ W \subseteq 1..N /\ OwedBy(Top) \subseteq W
  <2>1. N \in Nat /\ n \in Nat /\ Top.at \in Nat /\ W \subseteq 1..N
        /\ OwedBy(Top) \subseteq W /\ Sound(fb, W)
    BY <1>1, TopOK DEF Inv
  <2> HIDE DEF n, m, W
  <2> QED BY <1>1, <2>1
<1>3. next = Top.owes[1] /\ 1 \in 1..m /\ m \in 1..m
  <2>1. Top.owes # <<>> BY <1>2
  <2> QED BY <1>1, <1>2, <2>1, HeadTailProperties
<1>4. next \in W /\ join \in W
  <2>1. next \in OwedBy(Top) /\ join \in OwedBy(Top) BY <1>3 DEF OwedBy
  <2> QED BY <1>2, <2>1
<1>5. Closer(Goto(join), N) BY <1>2, <1>4, Closers
<1>6. /\ fb' = SwitchTo(Terminate(fb, Goto(join)), next)
      /\ Top.at = n => Do(<<>>)
      /\ Top.at # n => Do(Append(LowerArm(Top.at + 1), f))
  BY DEF MatchArm
<1>7. ast' \in Seq(NodeSet) BY DEF MatchArm, Inv
<1>8. Leads(fb, fb', 0, W \ {next})
  <2> HIDE DEF join, next, W, N
  <2> QED BY <1>2, <1>4, <1>5, <1>6, GoOn DEF N
<1>9. CASE Top.at = n
  <2>1. OwedBy(Top) = {next}
    <3>1. Len(Top.owes) = 1
      <4> HIDE DEF n
      <4> QED BY <1>1, <1>2, <1>9
    <3> QED BY <1>1, <1>3, <3>1, OwedOne
  <2> HIDE DEF next, W, N, n, f
  <2>2. Leads(fb, fb', 0, W \ OwedBy(Top)) BY <1>8, <2>1
  <2>3. LoopsOK(loop_stack', BlockCount(fb')) BY <2>2, LoopsLead DEF MatchArm
  <2>4. Do(<<>>) /\ Descends(<<>>) BY <1>1, <1>6, <1>9, TopOK, LowerOne
  <2> QED BY <1>1, <1>7, <2>2, <2>3, <2>4, EndStep DEF W
<1>10. CASE Top.at # n
  <2> DEFINE r == Tail(Top.owes)
  <2>1. /\ r \in Seq(Block) /\ Len(r) = m - 1
        /\ \A i \in 1..(m - 1) : r[i] = Top.owes[i + 1]
    <3>1. Top.owes # <<>> BY <1>2
    <3> QED BY <1>1, <3>1, HeadTailProperties
  <2>2. /\ f.owes = r /\ f.hdr = Top.hdr /\ f \in FrameSet /\ f.op = "match_arm"
        /\ f.node = Top.node /\ f.at = Top.at + 1
    <3>1. /\ Top.op \in Ops /\ Top.e \in Nat /\ Top.node \in NodeSet /\ Top.hdr \in Nat
      BY <1>1, TopOK
    <3>2. Top.at + 1 \in Nat BY <1>2
    <3> QED BY <1>1, <2>1, <3>1, <3>2 DEF Onward, Frame, FrameSet
  <2> HIDE DEF r, f, next, join, N, W
  <2>3. Top.at + 1 \in 1..n /\ m - 1 = n - (Top.at + 1) + 1 /\ m - 1 \in Nat
    <3> HIDE DEF n, m
    <3> QED BY <1>1, <1>2, <1>10, SMTT(30)
  <2>4. Descends(LowerArm(Top.at + 1)) BY <1>1, <2>3, LowerArmOK
  <2>5. Once(r)
    <3> SUFFICES ASSUME NEW i \in 1..(m - 1), NEW k \in 1..(m - 1), r[i] = r[k]
                 PROVE  i = k
      BY <2>1 DEF Once
    <3>1. i + 1 \in 1..m /\ k + 1 \in 1..m BY <1>2
    <3>2. Top.owes[i + 1] = Top.owes[k + 1] BY <2>1
    <3>3. i + 1 = k + 1 BY <1>1, <3>1, <3>2 DEF Once
    <3> QED BY <1>2, <3>3
  <2>6. Fits(f)
    <3>1. f.at \in 1..Len(f.node.arms) /\ Len(f.owes) = Len(f.node.arms) - f.at + 1
      BY <2>1, <2>2, <2>3
    <3>2. Len(f.node.kids) = MatchKids(f.node.arms) BY <1>1, <2>2
    <3> QED BY <2>2, <2>5, <3>1, <3>2 DEF Fits
  <2>7. OwedBy(f) = OwedBy(Top) \ {next}
    <3>1. \A i \in 1..(m - 1) : i + 1 \in 1..m /\ Top.owes[i + 1] # Top.owes[1]
      <4> SUFFICES ASSUME NEW i \in 1..(m - 1)
                   PROVE  i + 1 \in 1..m /\ Top.owes[i + 1] # Top.owes[1]
        OBVIOUS
      <4>1. i + 1 \in 1..m /\ i + 1 # 1 BY <1>2
      <4> QED BY <1>1, <1>3, <4>1 DEF Once
    <3>2. \A i \in 1..(m - 1) : r[i] \in OwedBy(Top) \ {next}
      BY <1>3, <2>1, <3>1 DEF OwedBy
    <3>3. \A i \in 1..m : i = 1 \/ (i - 1 \in 1..(m - 1) /\ r[i - 1] = Top.owes[i])
      <4> SUFFICES ASSUME NEW i \in 1..m, i # 1
                   PROVE  i - 1 \in 1..(m - 1) /\ r[i - 1] = Top.owes[i]
        OBVIOUS
      <4>1. i - 1 \in 1..(m - 1) /\ (i - 1) + 1 = i BY <1>2
      <4> QED BY <2>1, <4>1
    <3>4. OwedBy(f) = {r[i] : i \in 1..(m - 1)} BY <2>1, <2>2 DEF OwedBy
    <3>5. \A b \in OwedBy(Top) \ {next} : b \in OwedBy(f)
      <4> SUFFICES ASSUME NEW b \in OwedBy(Top), b # next PROVE b \in OwedBy(f)
        OBVIOUS
      <4>1. PICK i \in 1..m : b = Top.owes[i] BY DEF OwedBy
      <4>2. i # 1 BY <1>3, <4>1
      <4> QED BY <3>3, <3>4, <4>1, <4>2
    <3> QED BY <3>2, <3>4, <3>5
  <2>8. /\ W \ {next} = OwedBy(f) \cup (W \ OwedBy(Top))
        /\ OwedBy(f) \cap (W \ OwedBy(Top)) = {}
    <3>1. next \in OwedBy(Top) BY <1>3 DEF OwedBy
    <3> QED BY <1>2, <2>7, <3>1
  <2>9. Leads(fb, fb', 0, OwedBy(f) \cup (W \ OwedBy(Top))) BY <1>8, <2>8
  <2>10. FrameOK(f, BlockCount(fb'))
    <3>1. BlockCount(fb') = N + 0 BY <2>9 DEF Leads, N
    <3>2. BlockCount(fb') = N BY <1>2, <3>1
    <3>3. Top.hdr <= N BY <1>1, TopOK DEF FrameOK, N
    <3> QED BY <2>2, <2>6, <3>2, <3>3 DEF FrameOK
  <2>11. LoopsOK(loop_stack', BlockCount(fb')) BY <2>9, LoopsLead DEF MatchArm
  <2>12. f.op \notin BaseOps /\ Do(Append(LowerArm(Top.at + 1), f))
    BY <1>6, <1>10, <2>2 DEF BaseOps
  <2> QED BY <1>1, <1>7, <2>4, <2>8, <2>9, <2>10, <2>11, <2>12, OnStep DEF W
<1> QED BY <1>9, <1>10

-----------------------------------------------------------------------------
(* The invariant                                                           *)

LEMMA InitInv == Init => Inv
<1> SUFFICES ASSUME NEW n \in 0..MaxOperands, NEW tail \in BOOLEAN, NEW kids, NEW node,
                    kids = [i \in 1..(n + IF tail THEN 1 ELSE 0) |-> 1 + i],
                    node = Node("fn", kids, tail),
                    ast = <<node>> \o [i \in 1..Len(kids) |-> Leaf],
                    agenda = <<Then("fn_stmts", 1, node)>>,
                    fb = NewFn, loop_stack = <<>>
             PROVE  Inv
  BY DEF Init
<1> DEFINE k == n + IF tail THEN 1 ELSE 0
           f == Then("fn_stmts", 1, node)
           leaves == [i \in 1..Len(kids) |-> Leaf]
<1>1. k \in Nat /\ (tail => k >= 1) BY ConstantsAssumption
<1>2. kids = [i \in 1..k |-> 1 + i] OBVIOUS
<1> HIDE DEF k
<1>3. kids \in Seq(Nat) /\ Len(kids) = k
  <2>1. \A i \in 1..k : 1 + i \in Nat BY <1>1
  <2> QED BY <1>1, <1>2, <2>1, IsASeq
<1>4. node \in NodeSet /\ node.kids = kids /\ node.flag = tail
  <2>1. "fn" \in NodeKinds BY DEF NodeKinds
  <2> QED BY <1>3, <2>1, NodeOK
<1>5. ast \in Seq(NodeSet)
  <2>1. leaves \in Seq(NodeSet) BY <1>1, <1>3, LeafOK, IsASeq
  <2>2. <<node>> \in Seq(NodeSet) BY <1>4
  <2>3. ast = <<node>> \o leaves OBVIOUS
  <2> HIDE DEF leaves
  <2> QED BY <2>1, <2>2, <2>3, ConcatProperties, ZenonT(60)
<1>6. /\ f \in FrameSet /\ f.op = "fn_stmts" /\ f.node = node /\ f.owes = <<>>
      /\ f.hdr = 0 /\ f.at = 1
  <2>1. "fn_stmts" \in Ops /\ 1 \in Nat BY DEF Ops
  <2> QED BY <1>4, <2>1, ThenTyped
<1>7. agenda = <<f>> OBVIOUS
<1> HIDE DEF f
<1>8. /\ agenda \in Seq(FrameSet) /\ Len(agenda) = 1 /\ agenda[1] = f
      /\ 1..1 = {1} /\ agenda # <<>>
  BY <1>6, <1>7
<1>9. NewFn \in Builder /\ NewFn.term = <<Open>> /\ BlockCount(NewFn) = 1
      /\ NewFn.cur = 1 /\ ~NewFn.terminated
  BY OpenIsTerm DEF NewFn, Builder, Block, Entry, BlockCount
<1>10. Fits(f)
  BY <1>1, <1>3, <1>4, <1>6 DEF Fits, OwesOf, Once
<1>11. Tidy(agenda, BlockCount(fb))
  <2>1. FrameOK(f, BlockCount(fb)) BY <1>6, <1>9, <1>10 DEF FrameOK
  <2>2. \A i, j \in 1..Len(agenda) : i = j BY <1>8
  <2> QED BY <1>6, <1>8, <2>1, <2>2 DEF Tidy, BaseOps
<1>12. Waits(agenda) = {}
  <2>1. OwedBy(f) = {} BY <1>6, Nothing
  <2>2. \A i \in 1..Len(agenda) : OwedBy(agenda[i]) = {} BY <1>8, <2>1
  <2> QED BY <2>2 DEF Waits
<1>13. Sound(fb, Waits(agenda))
  <2>1. NewFn.term[1] = Open BY <1>9
  <2> QED BY <1>8, <1>9, <1>12, <2>1, OpenIsTerm
          DEF Sound, IsTerminated, Held, TargetsOK
<1>14. LoopsOK(loop_stack, BlockCount(fb))
  BY DEF LoopsOK
<1> QED BY <1>5, <1>8, <1>11, <1>13, <1>14 DEF Inv, Lowered

LEMMA VisitStep == Inv /\ Visit => Inv' /\ Keeps(fb, fb')
BY VisitOperandsStep, VisitCallStep, VisitBlockStep, VisitIfStep, VisitGuardStep,
   VisitDeferStep, VisitMatchStep, VisitInfiniteStep, VisitLoopStep,
   VisitForkLoopStep, VisitBreakStep, VisitNextStep, VisitReturnStep DEF Visit

LEMMA ResumeStep == Inv /\ Resume => Inv' /\ Keeps(fb, fb')
<1>1. Inv /\ IfElse => Inv' /\ Keeps(fb, fb') BY JoinStep DEF IfElse
<1>2. Inv /\ GuardEnd => Inv' /\ Keeps(fb, fb') BY JoinStep DEF GuardEnd
<1> QED
  BY <1>1, <1>2, CallEndStep, NextStmtStep, BlockTailStep, SkipStmtStep, FnTailStep,
     FnEndStep, IfBranchStep, IfThenStep, GuardTestStep, MatchSwitchStep,
     MatchArmStep, LoopTestStep, LoopEndStep, ForkHeadStep, ForkEndStep,
     BreakEndStep, ReturnEndStep DEF Resume

LEMMA StutterStep == Inv /\ UNCHANGED vars => Inv' /\ Keeps(fb, fb')
<1> SUFFICES ASSUME Inv, UNCHANGED vars PROVE Inv' /\ Keeps(fb, fb')
  OBVIOUS
<1>1. ast' = ast /\ agenda' = agenda /\ fb' = fb /\ loop_stack' = loop_stack
  BY DEF vars
<1>2. Keeps(fb, fb') BY <1>1, SoundLen, KeepsRefl DEF Inv
<1> QED BY <1>1, <1>2 DEF Inv, Lowered

LEMMA InvStep == Inv /\ [Next]_vars => Inv' /\ Keeps(fb, fb')
BY VisitStep, ResumeStep, StutterStep DEF Next, Returned

\* The inductive invariant: the agenda is tidy and the function is sound for the
\* blocks that the calls in progress (the Rust call stack of lower_expr) owe.
THEOREM Invariant == Spec => []Inv
<1>1. Inv /\ [Next]_vars => Inv' BY InvStep
<1> QED BY <1>1, InitInv, PTL DEF Spec

-----------------------------------------------------------------------------
(* Theorems                                                                *)

\* Type correctness of the state of lower_fn.
THEOREM TypeCorrect == Spec => []TypeOK
<1>1. Inv => TypeOK BY DEF Inv, TypeOK, Tidy, Sound, LoopsOK
<1> QED BY <1>1, Invariant, PTL

LEMMA OwedIsWaiting == ASSUME Inv, NEW b PROVE Owed(b) <=> b \in Waits(agenda)
<1>1. \A i \in 1..Len(agenda) : /\ agenda[i].owes \in Seq(Block)
                                /\ DOMAIN agenda[i].owes = 1..Len(agenda[i].owes)
  <2> SUFFICES ASSUME NEW i \in 1..Len(agenda)
               PROVE  agenda[i].owes \in Seq(Block) /\
                      DOMAIN agenda[i].owes = 1..Len(agenda[i].owes)
    OBVIOUS
  <2>1. agenda[i].owes \in Seq(Block) BY DEF Inv, Tidy, FrameOK, FrameSet
  <2> QED BY <2>1, LenProperties
<1>2. DOMAIN agenda = 1..Len(agenda) BY LenProperties DEF Inv, Tidy
<1> QED BY <1>1, <1>2 DEF Owed, Waits, OwedBy

LEMMA OneOwnerOK == Inv => OneOwner
<1> SUFFICES ASSUME Inv PROVE OneOwner
  OBVIOUS
<1>1. fb \in Builder /\ Sound(fb, Waits(agenda)) BY DEF Inv, Sound
<1>2. DOMAIN fb.term = 1..BlockCount(fb) BY <1>1, TermLen
<1>3. fb.cur \in DOMAIN fb.term /\ (fb.terminated <=> IsTerminated(fb, fb.cur))
  BY <1>1, <1>2 DEF Sound
<1>4. \A b \in DOMAIN fb.term : ~IsTerminated(fb, b) <=> b \in Held(fb) \/ Owed(b)
  BY <1>1, <1>2, OwedIsWaiting DEF Sound
<1>5. ~Owed(fb.cur) BY <1>1, OwedIsWaiting DEF Sound
<1>6. DOMAIN agenda = 1..Len(agenda) BY LenProperties DEF Inv, Tidy
<1>7. ASSUME NEW i \in DOMAIN agenda, NEW k \in DOMAIN agenda,
             NEW j \in DOMAIN agenda[i].owes, NEW l \in DOMAIN agenda[k].owes,
             agenda[i].owes[j] = agenda[k].owes[l]
      PROVE  i = k /\ j = l
  <2>1. /\ agenda[i].owes \in Seq(Block) /\ Fits(agenda[i])
        /\ agenda[k].owes \in Seq(Block)
    BY <1>6, <1>7 DEF Inv, Tidy, FrameOK, FrameSet
  <2>2. j \in 1..Len(agenda[i].owes) /\ l \in 1..Len(agenda[k].owes)
    BY <2>1, LenProperties
  <2>3. agenda[i].owes[j] \in OwedBy(agenda[i]) /\ agenda[k].owes[l] \in OwedBy(agenda[k])
    BY <2>2 DEF OwedBy
  <2>4. i = k
    <3>1. OwedBy(agenda[i]) \cap OwedBy(agenda[k]) # {} BY <1>7, <2>3
    <3> QED BY <1>6, <3>1 DEF Inv, Tidy
  <2>5. j = l BY <1>7, <2>1, <2>2, <2>4 DEF Fits, Once
  <2> QED BY <2>4, <2>5
<1> QED BY <1>3, <1>4, <1>5, <1>7 DEF OneOwner

\* An open block is the one being filled or is owed by exactly one call in
\* progress: `switch_to` and `set_term` never meet a block another call closed.
THEOREM BlocksHaveOneOwner == Spec => []OneOwner
BY Invariant, OneOwnerOK, PTL

\* No terminator of a MIR function names a block the function does not have.
THEOREM NoDanglingTarget == Spec => []TargetsExist
<1>1. Inv => TargetsExist
  <2> SUFFICES ASSUME Inv PROVE TargetsExist
    OBVIOUS
  <2>1. fb \in Builder /\ TargetsOK(fb) BY DEF Inv, Sound
  <2>2. DOMAIN fb.term = 1..BlockCount(fb) BY <2>1, TermLen
  <2> QED BY <2>1, <2>2 DEF TargetsExist, TargetsOK
<1> QED BY <1>1, Invariant, PTL

\* When lower_fn returns, every block of the function has its terminator.
THEOREM FinalMirIsTerminated == Spec => []AllTerminated
<1>1. Inv => AllTerminated
  <2> SUFFICES ASSUME Inv, Lowered PROVE IsFullyTerminated(fb)
    BY DEF AllTerminated
  <2>1. Sound(fb, Waits(agenda)) /\ fb.terminated /\ fb \in Builder
    BY DEF Inv, Sound
  <2>2. Waits(agenda) = {} BY DEF Lowered, Waits
  <2>3. DOMAIN fb.term = 1..BlockCount(fb) BY <2>1, TermLen
  <2> QED BY <2>1, <2>2, <2>3 DEF Sound, Held, IsFullyTerminated
<1> QED BY <1>1, Invariant, PTL

LEMMA LifeInit == Init => BL!Init
<1> SUFFICES ASSUME Init PROVE BL!Init
  OBVIOUS
<1>1. fb = NewFn BY DEF Init
<1>2. fb.term = <<Open>> /\ fb.cur = 1 BY <1>1 DEF NewFn, Entry
<1>3. DOMAIN fb.term = {1} /\ fb.term[1] = Open BY <1>2
<1>4. Life = [b \in {1} |-> [phase |-> "open", term |-> Open]]
  BY <1>2, <1>3 DEF Life, IsTerminated
<1>5. <<[phase |-> "open", term |-> Open]>> =
        [b \in {1} |-> [phase |-> "open", term |-> Open]]
  OBVIOUS
<1> QED BY <1>4, <1>5 DEF BL!Init

Phase(f, b) ==
    IF IsTerminated(f, b) THEN "closed" ELSE IF b = f.cur THEN "open" ELSE "waiting"
LifeOf(f) == [b \in DOMAIN f.term |-> [phase |-> Phase(f, b), term |-> f.term[b]]]

LEMMA LifeFacts ==
    ASSUME NEW f, NEW b \in DOMAIN f.term
    PROVE  /\ DOMAIN LifeOf(f) = DOMAIN f.term /\ LifeOf(f)[b].term = f.term[b]
           /\ LifeOf(f)[b] = [phase |-> Phase(f, b), term |-> f.term[b]]
           /\ LifeOf(f)[b].phase = Phase(f, b)
           /\ Phase(f, b) = "closed" <=> f.term[b] # Open
           /\ Phase(f, b) = "open" <=> f.term[b] = Open /\ b = f.cur
           /\ Phase(f, b) \in {"waiting", "open", "closed"}
BY DEF LifeOf, Phase, IsTerminated

LEMMA LifeStep == Inv /\ Inv' /\ Keeps(fb, fb') => BL!Grow
<1> SUFFICES ASSUME Inv, Inv', Keeps(fb, fb') PROVE BL!Grow
  OBVIOUS
<1>1. /\ fb \in Builder /\ fb' \in Builder
  BY DEF Inv, Sound
<1>2. /\ DOMAIN fb.term = 1..BlockCount(fb) /\ DOMAIN fb'.term = 1..BlockCount(fb')
      /\ BlockCount(fb) \in Nat /\ BlockCount(fb') \in Nat
  BY <1>1, TermLen
<1>3. DOMAIN fb.term \subseteq DOMAIN fb'.term BY <1>2 DEF Keeps
<1>4. Life = LifeOf(fb) /\ Life' = LifeOf(fb')
  BY DEF Life, LifeOf, Phase
<1>5. DOMAIN Life = DOMAIN fb.term /\ DOMAIN Life' = DOMAIN fb'.term
  BY <1>4 DEF LifeOf
<1>6. ASSUME NEW b \in DOMAIN Life PROVE BL!Ages(Life[b], Life'[b])
  <2>1. b \in DOMAIN fb.term /\ b \in DOMAIN fb'.term /\ b \in 1..BlockCount(fb)
    BY <1>2, <1>3, <1>5, <1>6
  <2> DEFINE x == Life[b]
             y == Life'[b]
  <2>2. /\ x = [phase |-> Phase(fb, b), term |-> fb.term[b]]
        /\ y = [phase |-> Phase(fb', b), term |-> fb'.term[b]]
        /\ x.phase = Phase(fb, b) /\ y.phase = Phase(fb', b) /\ y.term = fb'.term[b]
    BY <1>4, <2>1, LifeFacts
  <2> HIDE DEF x, y
  <2>3. /\ Phase(fb, b) = "closed" <=> fb.term[b] # Open
        /\ Phase(fb, b) = "open" <=> fb.term[b] = Open /\ b = fb.cur
        /\ Phase(fb, b) \in {"waiting", "open", "closed"}
        /\ Phase(fb', b) = "closed" <=> fb'.term[b] # Open
        /\ Phase(fb', b) = "open" <=> fb'.term[b] = Open /\ b = fb'.cur
        /\ Phase(fb', b) \in {"waiting", "open", "closed"}
    BY <2>1, LifeFacts
  <2>4. y.phase # "closed" => y.term = Open BY <2>2, <2>3
  <2>5. fb.term[b] # Open => fb'.term[b] = fb.term[b]
    BY <2>1 DEF Keeps, IsTerminated
  <2>6. b = fb.cur => fb'.cur = fb.cur \/ fb'.term[b] # Open
    BY DEF Keeps, IsTerminated
  <2>7. x.phase = "closed" => y = x
    <3> SUFFICES ASSUME x.phase = "closed" PROVE y = x
      OBVIOUS
    <3>1. fb'.term[b] = fb.term[b] BY <2>2, <2>3, <2>5
    <3>2. Phase(fb', b) = Phase(fb, b) BY <2>2, <2>3, <3>1
    <3> QED BY <2>2, <3>1, <3>2
  <2>8. x.phase = "open" => y.phase \in {"open", "closed"}
    BY <2>2, <2>3, <2>6
  <2>9. BL!Rank[x.phase] <= BL!Rank[y.phase]
    <3>1. x.phase \in {"waiting", "open", "closed"} /\ y.phase \in {"waiting", "open", "closed"}
          /\ (x.phase = "closed" => y.phase = "closed")
      BY <2>2, <2>3, <2>7
    <3> QED BY <2>8, <3>1 DEF BL!Rank
  <2>10. BL!Ages(x, y) BY <2>4, <2>7, <2>9 DEF BL!Ages
  <2> QED BY <2>10 DEF x, y
<1>7. BL!OneOpen(Life')
  <2>1. \A b \in DOMAIN fb'.term : LifeOf(fb')[b].phase = "open" => b = fb'.cur
    BY LifeFacts
  <2> QED BY <1>4, <1>5, <2>1 DEF BL!OneOpen
<1>8. DOMAIN Life \subseteq DOMAIN Life' BY <1>3, <1>5
<1> QED BY <1>6, <1>7, <1>8 DEF BL!Grow

\* Lowering implements the life of blocks that block.rs promises: a block is
\* terminated at most once and keeps its terminator, blocks are filled one at a
\* time, and none is left before it is closed.
THEOREM LoweringKeepsBlockLife == Spec => BlocksLiveOnce
<1>1. Inv /\ [Next]_vars => BL!Grow
  BY InvStep, LifeStep
<1> QED BY <1>1, Invariant, LifeInit, PTL DEF Spec, BlocksLiveOnce, BL!Spec
=============================================================================
