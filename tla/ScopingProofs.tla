---------------------------- MODULE ScopingProofs ----------------------------
(***************************************************************************)
(* The theorem about name resolution: the walk of Resolver gives a name    *)
(* the definition that LexicalScope says it means.                         *)
(*                                                                         *)
(* The walk knows scopes and no tree, the reference a tree and no scopes.  *)
(* What links them is the agenda: run from the scopes that are open now,   *)
(* with nodes that are not read yet binding nothing, it must come to every *)
(* one of those nodes with the names that the tree has for it.             *)
(***************************************************************************)
EXTENDS LexicalScope, ResolverProofs

-----------------------------------------------------------------------------
(* The tree: every node but the root is the child of one other, which was  *)
(* read before it was there.                                               *)

TreeOK ==
    /\ IsSequence(ast) /\ Len(ast) >= 1 /\ ast[Root].k = "module"
    /\ \A p \in 1..Len(ast) :
          /\ IsSequence(ast[p].kids) /\ IsSequence(ast[p].binds)
          /\ \A i \in 1..Len(ast[p].kids) : ast[p].kids[i] \in (p + 1)..Len(ast)
    /\ \A p, q \in 1..Len(ast) :
          \A i \in 1..Len(ast[p].kids), j \in 1..Len(ast[q].kids) :
             ast[p].kids[i] = ast[q].kids[j] => p = q /\ i = j
    /\ \A e \in 2..Len(ast) :
          \E p \in 1..Len(ast) : \E i \in 1..Len(ast[p].kids) : ast[p].kids[i] = e

\* Parent and Place find what they are looking for.
ParentsOK ==
    /\ Len(ast) \in Nat /\ DOMAIN ast = 1..Len(ast)
    /\ \A p \in 1..Len(ast) :
          /\ Len(ast[p].kids) \in Nat /\ Len(ast[p].binds) \in Nat
          /\ \A i \in 1..Len(ast[p].kids) :
                Parent(ast[p].kids[i]) = p /\ Place(ast[p].kids[i]) = i
    /\ \A e \in 2..Len(ast) :
          /\ Parent(e) \in 1..(e - 1)
          /\ Place(e) \in 1..Len(ast[Parent(e)].kids)
          /\ ast[Parent(e)].kids[Place(e)] = e

LEMMA ParentsFound == TreeOK => ParentsOK
<1> SUFFICES ASSUME TreeOK PROVE ParentsOK
  OBVIOUS
<1>1. Len(ast) \in Nat /\ DOMAIN ast = 1..Len(ast)
  BY LenProperties DEF TreeOK, IsSequence
<1>2. ASSUME NEW p \in 1..Len(ast)
      PROVE  /\ Len(ast[p].kids) \in Nat /\ DOMAIN ast[p].kids = 1..Len(ast[p].kids)
             /\ Len(ast[p].binds) \in Nat
  BY LenProperties DEF TreeOK, IsSequence
<1>3. ASSUME NEW p \in 1..Len(ast), NEW i \in 1..Len(ast[p].kids)
      PROVE  Parent(ast[p].kids[i]) = p /\ Place(ast[p].kids[i]) = i
  <2> DEFINE e == ast[p].kids[i]
  <2>1. \A q \in DOMAIN ast : \A j \in DOMAIN ast[q].kids : ast[q].kids[j] = e => q = p /\ j = i
    <3> SUFFICES ASSUME NEW q \in DOMAIN ast, NEW j \in DOMAIN ast[q].kids,
                        ast[q].kids[j] = ast[p].kids[i]
                 PROVE  q = p /\ j = i
      OBVIOUS
    <3>1. q \in 1..Len(ast) /\ j \in 1..Len(ast[q].kids) BY <1>1, <1>2
    <3> QED BY <3>1, <1>3 DEF TreeOK
  <2>2. p \in DOMAIN ast /\ i \in DOMAIN ast[p].kids /\ ast[p].kids[i] = e
    BY <1>1, <1>2, <1>3
  <2> HIDE DEF e
  <2>3. Parent(e) = p BY <2>1, <2>2 DEF Parent
  <2>4. Place(e) = i BY <2>1, <2>2, <2>3 DEF Place
  <2> QED BY <2>3, <2>4 DEF e
<1>4. ASSUME NEW e \in 2..Len(ast)
      PROVE  /\ Parent(e) \in 1..(e - 1)
             /\ Place(e) \in 1..Len(ast[Parent(e)].kids)
             /\ ast[Parent(e)].kids[Place(e)] = e
  <2>1. PICK p \in 1..Len(ast) : \E i \in 1..Len(ast[p].kids) : ast[p].kids[i] = e
    BY DEF TreeOK
  <2>2. PICK i \in 1..Len(ast[p].kids) : ast[p].kids[i] = e BY <2>1
  <2>3. Parent(e) = p /\ Place(e) = i BY <2>2, <1>3
  <2>4. e \in (p + 1)..Len(ast) BY <2>2 DEF TreeOK
  <2> QED BY <1>1, <2>2, <2>3, <2>4
<1> QED BY <1>1, <1>2, <1>3, <1>4 DEF ParentsOK

-----------------------------------------------------------------------------
(* What names mean                                                         *)

\* The body of Meaning, with the meanings further out given.
Means(f, e) ==
    [x \in Names |->
        IF Parent(e) = Root THEN ModuleItem(x)
        ELSE IF BoundNextTo(e, x) # Undefined THEN BoundNextTo(e, x)
        ELSE f[Parent(e)][x]]

\* Parents come first, so there is such a function up to any node.
LEMMA MeaningExists ==
    ASSUME ParentsOK, NEW n \in Nat, n <= Len(ast)
    PROVE  \E f : f = [e \in 2..n |-> Means(f, e)]
<1> DEFINE Good(m) == \E f : f = [e \in 2..m |-> Means(f, e)]
           T == {m \in 0..n : ~Good(m)}
<1>1. ASSUME T # {} PROVE FALSE
  <2>1. T \subseteq Nat OBVIOUS
  <2>2. PICK m \in T : \A y \in T : m <= y
    <3> HIDE DEF T
    <3> QED BY <1>1, <2>1, Smallest
  <2>3. m \in 0..n /\ ~Good(m) OBVIOUS
  <2>4. CASE m \in 0..1
    <3>1. PICK f : f = [e \in {} |-> e] OBVIOUS
    <3>2. 2..m = {} BY <2>4
    <3>3. f = [e \in 2..m |-> Means(f, e)] BY <3>1, <3>2
    <3> QED BY <2>3, <3>3
  <2>5. CASE m \in 2..n
    <3>1. m - 1 \in 0..n /\ m - 1 < m BY <2>5
    <3>2. m - 1 \notin T BY <2>2, <3>1
    <3>3. Good(m - 1) BY <3>1, <3>2
    <3>4. PICK g : g = [e \in 2..(m - 1) |-> Means(g, e)] BY <3>3
    <3>5. PICK f : f = [e \in 2..m |-> Means(g, e)] OBVIOUS
    <3>6. \A e \in 2..(m - 1) : f[e] = g[e]
      <4>1. \A e \in 2..(m - 1) : e \in 2..m BY <3>1
      <4>2. \A e \in 2..(m - 1) : g[e] = Means(g, e) BY <3>4
      <4>3. \A e \in 2..m : f[e] = Means(g, e) BY <3>5
      <4> QED BY <4>1, <4>2, <4>3
    <3>7. ASSUME NEW e \in 2..m PROVE Means(g, e) = Means(f, e)
      <4>1. CASE Parent(e) = Root BY <4>1 DEF Means
      <4>2. CASE Parent(e) # Root
        <5>1. e \in 2..Len(ast) BY <2>5
        <5>2. Parent(e) \in 2..(m - 1) BY <4>2, <5>1 DEF ParentsOK, Root
        <5>3. f[Parent(e)] = g[Parent(e)] BY <5>2, <3>6
        <5> QED BY <5>3 DEF Means
      <4> QED BY <4>1, <4>2
    <3>8. f = [e \in 2..m |-> Means(f, e)] BY <3>5, <3>7
    <3> QED BY <2>3, <3>8
  <2> QED BY <2>3, <2>4, <2>5
<1>2. n \in 0..n OBVIOUS
<1> QED BY <1>1, <1>2

\* The statements before child i of p that bind x, and what binds x next to it.
Before(p, i, x) == {j \in 1..(i - 1) : BoundAfter(ast[p].kids[j], x) # Undefined}
NextTo(p, i, x) ==
    IF Before(p, i, x) # {} THEN BoundAfter(ast[p].kids[Max(Before(p, i, x))], x)
    ELSE BoundFor(p, i, x)

MeaningOK ==
    \A p \in 1..Len(ast) : \A i \in 1..Len(ast[p].kids) : \A x \in Names :
        Meaning[ast[p].kids[i]][x] =
            IF p = Root THEN ModuleItem(x)
            ELSE IF NextTo(p, i, x) # Undefined THEN NextTo(p, i, x)
            ELSE Meaning[p][x]

LEMMA MeaningFound == TreeOK => MeaningOK
<1> SUFFICES ASSUME TreeOK PROVE MeaningOK
  OBVIOUS
<1>1. ParentsOK BY ParentsFound
<1>2. Len(ast) \in Nat /\ DOMAIN ast \ {Root} = 2..Len(ast)
  BY <1>1 DEF ParentsOK, Root
<1>3. \E f : f = [e \in 2..Len(ast) |-> Means(f, e)]
  BY <1>1, <1>2, MeaningExists
<1>4. Meaning = [e \in DOMAIN ast \ {Root} |-> Means(Meaning, e)]
  <2>1. PICK f : f = [e \in 2..Len(ast) |-> Means(f, e)] BY <1>3
  <2>2. f = [e \in DOMAIN ast \ {Root} |-> Means(f, e)] BY <1>2, <2>1
  <2> HIDE DEF ModuleItem, BoundNextTo, Parent
  <2> QED BY <2>2 DEF Meaning, Means
<1>5. ASSUME NEW e \in 2..Len(ast) PROVE Meaning[e] = Means(Meaning, e)
  <2> HIDE DEF Meaning, Means
  <2> QED BY <1>2, <1>4
<1>6. ASSUME NEW p \in 1..Len(ast), NEW i \in 1..Len(ast[p].kids), NEW x \in Names
      PROVE  Meaning[ast[p].kids[i]][x] =
                IF p = Root THEN ModuleItem(x)
                ELSE IF NextTo(p, i, x) # Undefined THEN NextTo(p, i, x)
                ELSE Meaning[p][x]
  <2>1. PICK e : e = ast[p].kids[i] OBVIOUS
  <2>2. e \in 2..Len(ast) BY <1>2, <2>1 DEF TreeOK
  <2>3. Parent(e) = p /\ Place(e) = i BY <1>1, <2>1 DEF ParentsOK
  <2>4. BoundNextTo(e, x) = NextTo(p, i, x)
    BY <2>3 DEF BoundNextTo, NextTo, Before
  <2>5. Meaning[e][x] = Means(Meaning, e)[x] BY <1>5, <2>2
  <2> HIDE DEF Meaning, NextTo
  <2> QED BY <2>1, <2>3, <2>4, <2>5 DEF Means
<1> QED BY <1>6 DEF MeaningOK

\* The same after a step.
LEMMA TreeNext == TreeOK' => ParentsOK' /\ MeaningOK'
BY ParentsFound, MeaningFound, PTL

-----------------------------------------------------------------------------
(* Agendas.  A stack of scopes is <<what the names mean in it, the stack   *)
(* around it>>; Step is what a frame makes of a stack, for a tree a in     *)
(* which names mean M.  What a statement that is not read yet will bind is *)
(* open: of the statements after it the frames only say that they follow.  *)

Looking(o) == o.op \in {"expr", "stmt", "item"}

FrameOK(a, o) ==
    \/ o.op \in {"enter", "exit"} /\ o.e = 0
    \/ o.op = "define" /\ o.e \in 2..Len(a) /\ o.i \in 1..Len(a[o.e].binds)
    \/ /\ Looking(o) /\ o.e \in 2..Len(a) /\ a[o.e].k = "unread" /\ a[o.e].kids = <<>>
       /\ o.op = "item" <=> \E i \in 1..Len(a[Root].kids) : a[Root].kids[i] = o.e

Step(a, o, s, t) ==
    /\ o.op = "enter" => t = <<s[1], s>>
    /\ o.op = "exit" => t = s[2]
    /\ o.op = "define" =>
          /\ t[2] = s[2]
          /\ \A x \in Names :
                t[1][x] = IF x = a[o.e].binds[o.i].name THEN <<o.e, o.i>> ELSE s[1][x]
    /\ o.op \in {"expr", "item"} => t = s
    /\ o.op = "stmt" => t[2] = s[2]

Sees(M, s, e) == \A x \in Names : s[1][x] = M[e][x]

\* W is what the stack is before each frame, and in the end.
Flows(a, M, ag, W) ==
    \A i \in 1..Len(ag) :
        /\ Step(a, ag[i], W[i], W[i + 1])
        /\ Looking(ag[i]) /\ (i = 1 \/ ag[i - 1].op # "stmt") => Sees(M, W[i], ag[i].e)

Bodies == {"block", "guard", "fn", "method"}

\* Behind a statement come the statements after it, and the end of their scope.
Followed(a, ag, i, p, k) ==
    LET d == Len(a[p].kids) - k
    IN /\ a[p].k \in Bodies /\ a[p].kids[k] = ag[i].e
       /\ i + d + 1 <= Len(ag)
       /\ \A j \in 1..d : ag[i + j].op = "stmt" /\ ag[i + j].e = a[p].kids[k + j]
       /\ ag[i + d + 1].op = "exit"
Continues(a, ag, i) ==
    \E p \in 2..Len(a) : \E k \in 1..Len(a[p].kids) : Followed(a, ag, i, p, k)

Distinct(A, B) == \A i \in 1..Len(A), j \in 1..Len(B) : Looking(A[i]) => B[j].e # A[i].e

\* The frames ag lead from stack s to stack t, and visit every node with the
\* names that it has.
Runs(a, M, ag, s, t) ==
    /\ IsSequence(ag)
    /\ \A i \in 1..Len(ag) :
          /\ FrameOK(a, ag[i])
          /\ \A j \in 1..Len(ag) : i < j /\ Looking(ag[i]) => ag[j].e # ag[i].e
          /\ ag[i].op = "stmt" => Continues(a, ag, i)
    /\ \E W : W[1] = s /\ W[Len(ag) + 1] = t /\ Flows(a, M, ag, W)

LEMMA RunsConcat ==
    ASSUME NEW a, \A p \in 1..Len(a) : Len(a[p].kids) \in Nat, NEW M, NEW A, NEW B,
           NEW s, NEW t, NEW u,
           Runs(a, M, A, s, t), Runs(a, M, B, t, u), Distinct(A, B)
    PROVE  Runs(a, M, A \o B, s, u)
<1> DEFINE C == A \o B
           n == Len(A)
           m == Len(B)
<1>1. /\ IsSequence(C) /\ n \in Nat /\ m \in Nat /\ Len(C) = n + m
      /\ \A j \in 1..n : C[j] = A[j]
      /\ \A j \in 1..m : C[j + n] = B[j]
  BY Concats DEF Runs
<1>2. ASSUME NEW j \in 1..(n + m) PROVE j \in 1..n \/ \E i \in 1..m : j = i + n
  <2>1. CASE j <= n BY <2>1, <1>1
  <2>2. CASE ~(j <= n)
    <3>1. j - n \in 1..m /\ j = (j - n) + n BY <2>2, <1>1
    <3> QED BY <3>1
  <2> QED BY <2>1, <2>2
<1>3. PICK Wa : Wa[1] = s /\ Wa[n + 1] = t /\ Flows(a, M, A, Wa) BY DEF Runs
<1>4. PICK Wb : Wb[1] = t /\ Wb[m + 1] = u /\ Flows(a, M, B, Wb) BY DEF Runs
<1> HIDE DEF C
<1>5. ASSUME NEW j \in 1..Len(C) PROVE FrameOK(a, C[j])
  <2>1. CASE j \in 1..n BY <2>1, <1>1 DEF Runs
  <2>2. CASE j \notin 1..n
    <3>1. PICK l \in 1..m : j = l + n BY <2>2, <1>1, <1>2
    <3>2. C[j] = B[l] BY <3>1, <1>1
    <3> QED BY <3>2 DEF Runs
  <2> QED BY <2>1, <2>2
<1>6. ASSUME NEW i \in 1..Len(C), NEW j \in 1..Len(C), i < j, Looking(C[i])
      PROVE  C[j].e # C[i].e
  <2>1. CASE i \in 1..n /\ j \in 1..n BY <2>1, <1>1, <1>6 DEF Runs
  <2>2. CASE i \in 1..n /\ j \notin 1..n
    <3>1. PICK l \in 1..m : j = l + n BY <2>2, <1>1, <1>2
    <3>2. C[i] = A[i] /\ C[j] = B[l] BY <2>2, <3>1, <1>1
    <3> QED BY <2>2, <3>2, <1>6 DEF Distinct
  <2>3. CASE i \notin 1..n
    <3>1. PICK k \in 1..m : i = k + n BY <2>3, <1>1, <1>2
    <3>2. j \notin 1..n BY <1>1, <1>6, <3>1
    <3>3. PICK l \in 1..m : j = l + n BY <3>2, <1>1, <1>2
    <3>4. k < l /\ C[i] = B[k] /\ C[j] = B[l] BY <3>1, <3>3, <1>1, <1>6
    <3> QED BY <3>4, <1>6 DEF Runs
  <2> QED BY <2>1, <2>2, <2>3
<1>7. ASSUME NEW i \in 1..Len(C), C[i].op = "stmt" PROVE Continues(a, C, i)
  <2>1. CASE i \in 1..n
    <3>1. Continues(a, A, i) BY <2>1, <1>1, <1>7 DEF Runs
    <3>2. PICK p \in 2..Len(a) : \E k \in 1..Len(a[p].kids) : Followed(a, A, i, p, k)
      BY <3>1 DEF Continues
    <3>20. PICK k \in 1..Len(a[p].kids) : Followed(a, A, i, p, k) BY <3>2
    <3>3. PICK d \in Nat : d = Len(a[p].kids) - k
      <4>1. p \in 1..Len(a) OBVIOUS
      <4>2. Len(a[p].kids) - k \in Nat BY <4>1
      <4> QED BY <4>2
    <3>4. i + d + 1 <= n + m /\ i + d + 1 \in 1..n
      <4>1. i + d + 1 <= n BY <3>20, <3>3 DEF Followed
      <4>2. PICK w \in Nat : w = n BY <1>1
      <4>3. i \in 1..w /\ i + d + 1 <= w BY <4>1, <4>2, <2>1
      <4>4. i + d + 1 <= w + m /\ i + d + 1 \in 1..w BY <4>3, <1>1
      <4> QED BY <4>2, <4>4
    <3>5. \A j \in 1..d : i + j \in 1..n
      <4>1. PICK w \in Nat : w = n BY <1>1
      <4>2. i \in 1..w /\ i + d + 1 <= w BY <4>1, <2>1, <3>4
      <4>3. \A j \in 1..d : i + j \in 1..w BY <4>2
      <4> QED BY <4>1, <4>3
    <3>6. \A j \in 1..d : C[i + j] = A[i + j] BY <3>5, <1>1
    <3>7. C[i] = A[i] /\ C[i + d + 1] = A[i + d + 1] BY <2>1, <3>4, <1>1
    <3>8. Followed(a, C, i, p, k) BY <3>20, <3>3, <3>4, <3>6, <3>7, <1>1 DEF Followed
    <3> QED BY <3>8 DEF Continues
  <2>2. CASE i \notin 1..n
    <3>1. PICK l \in 1..m : i = l + n BY <2>2, <1>1, <1>2
    <3>2. C[i] = B[l] BY <3>1, <1>1
    <3>3. Continues(a, B, l) BY <3>2, <1>7 DEF Runs
    <3>4. PICK p \in 2..Len(a) : \E k \in 1..Len(a[p].kids) : Followed(a, B, l, p, k)
      BY <3>3 DEF Continues
    <3>40. PICK k \in 1..Len(a[p].kids) : Followed(a, B, l, p, k) BY <3>4
    <3>5. PICK d \in Nat : d = Len(a[p].kids) - k
      <4>1. p \in 1..Len(a) OBVIOUS
      <4>2. Len(a[p].kids) - k \in Nat BY <4>1
      <4> QED BY <4>2
    <3>6. i + d + 1 <= n + m /\ l + d + 1 \in 1..m /\ i + d + 1 = (l + d + 1) + n
      <4>1. l + d + 1 <= m BY <3>40, <3>5 DEF Followed
      <4> QED BY <4>1, <3>1, <1>1
    <3>7. ASSUME NEW j \in 1..d PROVE l + j \in 1..m /\ i + j = (l + j) + n
      BY <3>1, <3>6, <1>1
    <3>8. \A j \in 1..d : C[i + j] = B[l + j] BY <3>7, <1>1
    <3>9. C[i + d + 1] = B[l + d + 1] BY <3>6, <1>1
    <3>10. Followed(a, C, i, p, k)
      BY <3>2, <3>40, <3>5, <3>6, <3>8, <3>9, <1>1 DEF Followed
    <3> QED BY <3>10 DEF Continues
  <2> QED BY <2>1, <2>2
<1>8. PICK V : V = [i \in 1..(n + m + 1) |-> IF i <= n THEN Wa[i] ELSE Wb[i - n]] OBVIOUS
<1>9. /\ \A i \in 1..(n + 1) : V[i] = Wa[i]
      /\ \A i \in 1..(m + 1) : V[i + n] = Wb[i]
  <2>1. ASSUME NEW i \in 1..(n + 1) PROVE V[i] = Wa[i]
    <3>1. i \in 1..(n + m + 1) BY <1>1
    <3>2. CASE i <= n BY <3>1, <3>2, <1>8
    <3>3. CASE i = n + 1
      <4>1. i - n = 1 /\ ~(i <= n) BY <3>3, <1>1
      <4> QED BY <3>1, <3>3, <4>1, <1>3, <1>4, <1>8
    <3> QED BY <3>2, <3>3, <1>1
  <2>2. ASSUME NEW i \in 1..(m + 1) PROVE V[i + n] = Wb[i]
    <3>1. i + n \in 1..(n + m + 1) /\ ~(i + n <= n) /\ (i + n) - n = i BY <1>1
    <3> QED BY <3>1, <1>8
  <2> QED BY <2>1, <2>2
<1>10. ASSUME NEW i \in 1..Len(C)
       PROVE  /\ Step(a, C[i], V[i], V[i + 1])
              /\ Looking(C[i]) /\ (i = 1 \/ C[i - 1].op # "stmt") => Sees(M, V[i], C[i].e)
  <2>1. CASE i \in 1..n
    <3>1. C[i] = A[i] /\ V[i] = Wa[i] /\ V[i + 1] = Wa[i + 1] BY <2>1, <1>1, <1>9
    <3>2. i = 1 \/ C[i - 1] = A[i - 1] BY <2>1, <1>1
    <3> QED BY <2>1, <3>1, <3>2, <1>3 DEF Flows
  <2>2. CASE i \notin 1..n
    <3>1. PICK l \in 1..m : i = l + n BY <2>2, <1>1, <1>2
    <3>2. C[i] = B[l] /\ V[i] = Wb[l]
      <4>1. l \in 1..(m + 1) BY <1>1
      <4> QED BY <4>1, <3>1, <1>1, <1>9
    <3>3. V[i + 1] = Wb[l + 1]
      <4>1. l + 1 \in 1..(m + 1) /\ i + 1 = (l + 1) + n BY <3>1, <1>1
      <4> QED BY <4>1, <1>9
    <3>4. l = 1 \/ C[i - 1] = B[l - 1]
      <4>1. CASE l # 1
        <5>1. l - 1 \in 1..m /\ i - 1 = (l - 1) + n BY <3>1, <4>1, <1>1
        <5> QED BY <5>1, <1>1
      <4> QED BY <4>1
    <3>5. /\ Step(a, B[l], Wb[l], Wb[l + 1])
          /\ Looking(B[l]) /\ (l = 1 \/ B[l - 1].op # "stmt") => Sees(M, Wb[l], B[l].e)
      BY <1>4 DEF Flows
    <3>6. i # 1 \/ l = 1 BY <3>1, <1>1
    <3> QED BY <3>2, <3>3, <3>4, <3>5, <3>6
  <2> QED BY <2>1, <2>2
<1>11. V[1] = s /\ V[Len(C) + 1] = u
  <2>1. 1 \in 1..(n + 1) /\ m + 1 \in 1..(m + 1) /\ Len(C) + 1 = (m + 1) + n BY <1>1
  <2> QED BY <2>1, <1>3, <1>4, <1>9
<1>12. Flows(a, M, C, V) BY <1>10 DEF Flows
<1>13. Runs(a, M, C, s, u) BY <1>1, <1>5, <1>6, <1>7, <1>11, <1>12 DEF Runs
<1> QED BY <1>13 DEF C
\* Visits alone.
LEMMA RunsVisits ==
    ASSUME NEW a, NEW M, NEW ops, IsSequence(ops), NEW s,
           \A i \in 1..Len(ops) :
              ops[i].op = "expr" /\ FrameOK(a, ops[i]) /\ Sees(M, s, ops[i].e),
           \A i, j \in 1..Len(ops) : ops[i].e = ops[j].e => i = j
    PROVE  Runs(a, M, ops, s, s)
<1> DEFINE n == Len(ops)
<1>1. n \in Nat BY LenProperties DEF IsSequence
<1>2. PICK W : W = [i \in 1..(n + 1) |-> s] OBVIOUS
<1>3. W[1] = s /\ W[n + 1] = s /\ \A i \in 1..n : W[i] = s /\ W[i + 1] = s BY <1>1, <1>2
<1>4. Flows(a, M, ops, W) BY <1>3 DEF Flows, Step
<1>5. \A i \in 1..n : \A j \in 1..n : i < j => ops[j].e # ops[i].e BY <1>1
<1> QED BY <1>3, <1>4, <1>5 DEF Runs

\* The binders of e from place f on, m of them.
Binds(e, f, m) == [i \in 1..m |-> Op("define", e, f - 1 + i)]

\* Latest, for the binders b.
LatestIn(b, e, x, from, upto) ==
    LET own == {i \in from..upto : b[i].name = x}
    IN IF own = {} THEN Undefined ELSE <<e, Max(own)>>

\* What a name means with these binders, in a place where it means c.
Over(c, b, e, x, from, upto) ==
    IF LatestIn(b, e, x, from, upto) # Undefined THEN LatestIn(b, e, x, from, upto) ELSE c

LEMMA MaxOf ==
    ASSUME NEW n \in Nat, NEW T, T \subseteq 1..n, T # {}
    PROVE  Max(T) \in T /\ \A y \in T : y <= Max(T)
<1>1. PICK x \in T : \A y \in T : y <= x BY Greatest
<1>2. \E z \in T : \A y \in T : z >= y BY <1>1
<1>3. Max(T) \in T /\ \A y \in T : Max(T) >= y BY <1>2 DEF Max
<1> QED BY <1>3

LEMMA NoneYet ==
    ASSUME NEW b, NEW e, NEW x, NEW f \in Nat, NEW g \in Nat, g < f, NEW c
    PROVE  Over(c, b, e, x, f, g) = c
<1>1. {i \in f..g : b[i].name = x} = {} OBVIOUS
<1> QED BY <1>1 DEF Over, LatestIn

LEMMA OneMore ==
    ASSUME NEW b, NEW e \in Nat, NEW x, NEW f \in Nat \ {0}, NEW g \in Nat,
           NEW c, f <= g + 1
    PROVE  Over(c, b, e, x, f, g + 1) =
                IF b[g + 1].name = x THEN <<e, g + 1>> ELSE Over(c, b, e, x, f, g)
<1> DEFINE own(h) == {i \in f..h : b[i].name = x}
<1>1. f..(g + 1) = (f..g) \cup {g + 1} OBVIOUS
<1>2. CASE b[g + 1].name = x
  <2>1. g + 1 \in own(g + 1) /\ own(g + 1) \subseteq 1..(g + 1) BY <1>1, <1>2
  <2>2. g + 1 \in Nat /\ own(g + 1) # {} BY <2>1
  <2>3. Max(own(g + 1)) \in own(g + 1) /\ \A y \in own(g + 1) : y <= Max(own(g + 1))
    <3> DEFINE T == own(g + 1)
    <3>1. T \subseteq 1..(g + 1) /\ T # {} BY <2>1
    <3> HIDE DEF T
    <3>2. Max(T) \in T /\ \A y \in T : y <= Max(T) BY <2>2, <3>1, MaxOf
    <3> QED BY <3>2 DEF T
  <2>4. Max(own(g + 1)) = g + 1 BY <2>1, <2>3
  <2>5. LatestIn(b, e, x, f, g + 1) = <<e, g + 1>> BY <2>2, <2>4 DEF LatestIn
  <2>6. <<e, g + 1>> # Undefined BY DEF Undefined
  <2> QED BY <1>2, <2>5, <2>6 DEF Over
<1>3. CASE b[g + 1].name # x
  <2>1. own(g + 1) = own(g) BY <1>1, <1>3
  <2>2. LatestIn(b, e, x, f, g + 1) = LatestIn(b, e, x, f, g) BY <2>1 DEF LatestIn
  <2> QED BY <1>3, <2>2 DEF Over
<1> QED BY <1>2, <1>3

\* Those binders, added to the scope that is open.
Bind(b, e, f, m, s, t) ==
    t[2] = s[2] /\ \A x \in Names : t[1][x] = Over(s[1][x], b, e, x, f, f - 1 + m)

LEMMA RunsBinds ==
    ASSUME NEW a, NEW M, NEW e \in 2..Len(a), Len(a) \in Nat,
           NEW f \in Nat \ {0}, NEW m \in Nat,
           \A i \in f..(f - 1 + m) : i \in 1..Len(a[e].binds),
           NEW s
    PROVE  \E t : Runs(a, M, Binds(e, f, m), s, t) /\ Bind(a[e].binds, e, f, m, s, t)
<1> DEFINE ops == Binds(e, f, m)
           b == a[e].binds
           At(i) == <<[x \in Names |-> Over(s[1][x], b, e, x, f, f - 1 + (i - 1))], s[2]>>
<1>1. /\ ops \in [1..m -> {Op("define", e, f - 1 + i) : i \in 1..m}]
      /\ \A i \in 1..m : ops[i] = Op("define", e, f - 1 + i)
  BY DEF Binds
<1>2. \A i \in 1..m : ops[i].op = "define" /\ ops[i].e = e /\ ops[i].i = f - 1 + i
  BY <1>1 DEF Op
<1> HIDE DEF ops
<1>3. IsSequence(ops) /\ Len(ops) = m BY <1>1, OfLength
<1>4. \A i \in 1..m : FrameOK(a, ops[i]) /\ ~Looking(ops[i])
  <2> SUFFICES ASSUME NEW i \in 1..m PROVE FrameOK(a, ops[i]) /\ ~Looking(ops[i])
    OBVIOUS
  <2>1. f - 1 + i \in f..(f - 1 + m) OBVIOUS
  <2> QED BY <2>1, <1>2 DEF FrameOK, Looking
<1> HIDE DEF b
<1>5. PICK W : W = [i \in 1..(m + 1) |-> IF i = 1 THEN s ELSE At(i)] OBVIOUS
<1>6. ASSUME NEW i \in 1..(m + 1)
      PROVE  /\ W[i][2] = s[2]
             /\ \A x \in Names : W[i][1][x] = Over(s[1][x], b, e, x, f, f - 1 + (i - 1))
  <2>1. CASE i = 1
    <3>1. f - 1 + (i - 1) = f - 1 /\ f - 1 < f /\ f - 1 \in Nat /\ e \in Nat BY <2>1
    <3>2. ASSUME NEW x \in Names PROVE Over(s[1][x], b, e, x, f, f - 1) = s[1][x]
      <4>1. PICK g \in Nat : g = f - 1 BY <3>1
      <4>2. g < f /\ e \in Nat BY <4>1
      <4>3. Over(s[1][x], b, e, x, f, g) = s[1][x] BY <4>2, NoneYet
      <4> QED BY <4>1, <4>3
    <3>3. W[i] = s BY <2>1, <1>5
    <3> QED BY <3>1, <3>2, <3>3
  <2>2. CASE i # 1
    <3>1. W[i] = At(i) BY <2>2, <1>5
    <3> QED BY <3>1
  <2> QED BY <2>1, <2>2
<1>7. W[1] = s BY <1>5
<1>8. ASSUME NEW i \in 1..m PROVE Step(a, ops[i], W[i], W[i + 1])
  <2>1. i \in 1..(m + 1) /\ i + 1 \in 1..(m + 1) OBVIOUS
  <2>2. W[i + 1][2] = W[i][2] BY <2>1, <1>6
  <2>3. ASSUME NEW x \in Names
        PROVE  W[i + 1][1][x] = IF x = b[f - 1 + i].name THEN <<e, f - 1 + i>> ELSE W[i][1][x]
    <3>1. PICK g \in Nat : g = f - 1 + (i - 1)
      <4>1. f - 1 + (i - 1) \in Nat OBVIOUS
      <4> QED BY <4>1
    <3>2. /\ f - 1 + ((i + 1) - 1) = g + 1 /\ f - 1 + i = g + 1
          /\ f <= g + 1 /\ e \in Nat
      BY <3>1
    <3>3. W[i][1][x] = Over(s[1][x], b, e, x, f, g) BY <2>1, <3>1, <1>6
    <3>4. W[i + 1][1][x] = Over(s[1][x], b, e, x, f, g + 1) BY <2>1, <3>2, <1>6
    <3>5. Over(s[1][x], b, e, x, f, g + 1) =
            IF b[g + 1].name = x THEN <<e, g + 1>> ELSE Over(s[1][x], b, e, x, f, g)
      BY <3>2, OneMore
    <3> QED BY <3>2, <3>3, <3>4, <3>5
  <2> QED BY <2>2, <2>3, <1>2 DEF Step, b
<1>9. Flows(a, M, ops, W) BY <1>3, <1>4, <1>8 DEF Flows
<1>10. Runs(a, M, ops, s, W[m + 1]) BY <1>2, <1>3, <1>4, <1>7, <1>9 DEF Runs
<1>11. m + 1 \in 1..(m + 1) /\ f - 1 + ((m + 1) - 1) = f - 1 + m OBVIOUS
<1>12. Bind(b, e, f, m, s, W[m + 1]) BY <1>6, <1>11 DEF Bind
<1> QED BY <1>10, <1>12 DEF ops, b
LEMMA ScopedIs ==
    ASSUME NEW ops, IsSequence(ops)
    PROVE  /\ IsSequence(Scoped(ops)) /\ Len(ops) \in Nat /\ Len(Scoped(ops)) = Len(ops) + 2
           /\ Scoped(ops)[1] = Enter /\ Scoped(ops)[Len(ops) + 2] = Exit
           /\ \A i \in 1..Len(ops) : Scoped(ops)[i + 1] = ops[i]
<1>1. PICK b : b = <<Enter>> OBVIOUS
<1>2. PICK c : c = <<Exit>> OBVIOUS
<1>3. /\ IsSequence(b) /\ Len(b) = 1 /\ b[1] = Enter
      /\ IsSequence(c) /\ Len(c) = 1 /\ c[1] = Exit
  BY <1>1, <1>2, SmallSequences
<1>4. PICK d : d = b \o ops OBVIOUS
<1>5. /\ IsSequence(d) /\ Len(ops) \in Nat /\ Len(d) = 1 + Len(ops) /\ d[1] = Enter
      /\ \A i \in 1..Len(ops) : d[i + 1] = ops[i]
  <2>1. IsSequence(b) /\ IsSequence(ops) BY <1>3
  <2>2. /\ IsSequence(b \o ops) /\ Len(ops) \in Nat /\ Len(b \o ops) = Len(b) + Len(ops)
        /\ \A j \in 1..Len(b) : (b \o ops)[j] = b[j]
        /\ \A j \in 1..Len(ops) : (b \o ops)[j + Len(b)] = ops[j]
    BY <2>1, Concats
  <2>3. 1 \in 1..Len(b) BY <1>3
  <2> QED BY <2>2, <2>3, <1>3, <1>4
<1>6. /\ IsSequence(d \o c) /\ Len(d \o c) = Len(ops) + 2
      /\ \A j \in 1..Len(d) : (d \o c)[j] = d[j]
      /\ (d \o c)[Len(ops) + 2] = Exit
  <2>1. IsSequence(d) /\ IsSequence(c) BY <1>3, <1>5
  <2>2. /\ IsSequence(d \o c) /\ Len(d \o c) = Len(d) + Len(c)
        /\ \A j \in 1..Len(d) : (d \o c)[j] = d[j]
        /\ \A j \in 1..Len(c) : (d \o c)[j + Len(d)] = c[j]
    BY <2>1, Concats
  <2>3. 1 \in 1..Len(c) /\ 1 + Len(d) = Len(ops) + 2 BY <1>3, <1>5
  <2> QED BY <2>2, <2>3, <1>3, <1>5
<1>7. Scoped(ops) = d \o c BY <1>1, <1>2, <1>4 DEF Scoped
<1>8. 1 \in 1..Len(d) /\ \A i \in 1..Len(ops) : i + 1 \in 1..Len(d) BY <1>5
<1> QED BY <1>5, <1>6, <1>7, <1>8

LEMMA RunsEnds ==
    ASSUME NEW a, NEW M, NEW s
    PROVE  Runs(a, M, <<Enter>>, s, <<s[1], s>>) /\ Runs(a, M, <<Exit>>, s, s[2])
<1>1. Enter.op = "enter" /\ Enter.e = 0 /\ Exit.op = "exit" /\ Exit.e = 0
  BY DEF Enter, Exit, Op
<1>2. ASSUME NEW o, NEW t, FrameOK(a, o), ~Looking(o), o.op # "stmt", Step(a, o, s, t)
      PROVE  Runs(a, M, <<o>>, s, t)
  <2>1. PICK ops : ops = <<o>> OBVIOUS
  <2>2. IsSequence(ops) /\ Len(ops) = 1 /\ ops[1] = o BY <2>1, SmallSequences
  <2>3. PICK W : W = [i \in 1..2 |-> IF i = 1 THEN s ELSE t] OBVIOUS
  <2>4. W[1] = s /\ W[1 + 1] = t BY <2>3
  <2>5. \A i \in 1..Len(ops) : i = 1 BY <2>2
  <2>6. Flows(a, M, ops, W) BY <1>2, <2>2, <2>4, <2>5 DEF Flows
  <2>7. Runs(a, M, ops, s, t) BY <1>2, <2>2, <2>4, <2>5, <2>6 DEF Runs
  <2> QED BY <2>1, <2>7
<1>3. FrameOK(a, Enter) /\ ~Looking(Enter) /\ FrameOK(a, Exit) /\ ~Looking(Exit)
  BY <1>1 DEF FrameOK, Looking
<1>4. Step(a, Enter, s, <<s[1], s>>) /\ Step(a, Exit, s, s[2]) BY <1>1 DEF Step
<1>5. Enter.op # "stmt" /\ Exit.op # "stmt" BY <1>1
<1> QED BY <1>2, <1>3, <1>4, <1>5

\* Whatever the frames do to the scope they run in, it is left.
LEMMA RunsScoped ==
    ASSUME NEW a, \A p \in 1..Len(a) : Len(a[p].kids) \in Nat, NEW M, NEW ops, NEW s, NEW t,
           Runs(a, M, ops, <<s[1], s>>, t), t[2] = s
    PROVE  Runs(a, M, Scoped(ops), s, s)
<1>1. Enter.op = "enter" /\ Enter.e = 0 /\ Exit.op = "exit" /\ Exit.e = 0
  BY DEF Enter, Exit, Op
<1>2. PICK b : b = <<Enter>> OBVIOUS
<1>3. PICK c : c = <<Exit>> OBVIOUS
<1>4. Len(b) = 1 /\ b[1] = Enter /\ Len(c) = 1 /\ c[1] = Exit BY <1>2, <1>3
<1>5. Runs(a, M, b, s, <<s[1], s>>) /\ Runs(a, M, c, t, s) BY <1>2, <1>3, RunsEnds
<1>6. Distinct(b, ops) BY <1>1, <1>4 DEF Distinct, Looking
<1>7. Runs(a, M, b \o ops, s, t) BY <1>5, <1>6, RunsConcat
<1>8. Distinct(b \o ops, c)
  <2>1. \A i \in 1..Len(b \o ops) : FrameOK(a, (b \o ops)[i]) BY <1>7 DEF Runs
  <2>2. \A i \in 1..Len(b \o ops) : Looking((b \o ops)[i]) => (b \o ops)[i].e # 0
    BY <2>1 DEF FrameOK, Looking
  <2>3. \A j \in 1..Len(c) : c[j].e = 0 BY <1>1, <1>4
  <2> QED BY <2>2, <2>3 DEF Distinct
<1>9. Runs(a, M, (b \o ops) \o c, s, s) BY <1>5, <1>7, <1>8, RunsConcat
<1> QED BY <1>2, <1>3, <1>9 DEF Scoped

\* The statements of a body, from place f on.
LEMMA Between ==
    ASSUME NEW n \in Nat, NEW i \in 1..(n + 2), i # 1, i # n + 2
    PROVE  \E j \in 1..n : i = j + 1
<1>1. i - 1 \in 1..n /\ i = (i - 1) + 1 OBVIOUS
<1> QED BY <1>1

LEMMA RunsBody ==
    ASSUME NEW a, \A p \in 1..Len(a) : Len(a[p].kids) \in Nat, NEW M, NEW s,
           NEW p \in 2..Len(a), Len(a) \in Nat, a[p].k \in Bodies, NEW f \in Nat \ {0},
           NEW es, IsSequence(es), Len(es) = Len(a[p].kids) + 1 - f,
           \A i \in 1..Len(es) : es[i] = a[p].kids[f - 1 + i] /\ FrameOK(a, VisitStmt(es[i])),
           \A i, j \in 1..Len(es) : es[i] = es[j] => i = j,
           Len(es) # 0 => Sees(M, s, es[1])
    PROVE  Runs(a, M, Scoped(VisitStmts(es)), s, s)
<1> DEFINE n == Len(es)
           A == VisitStmts(es)
           C == Scoped(A)
<1>1. n \in Nat BY LenProperties DEF IsSequence
<1>21. n = Len(a[p].kids) + 1 - f OBVIOUS
<1>2. /\ A \in [1..n -> {VisitStmt(es[i]) : i \in 1..n}]
      /\ \A i \in 1..n : A[i] = VisitStmt(es[i])
  BY DEF VisitStmts
<1> HIDE DEF A
<1>3. IsSequence(A) /\ Len(A) = n BY <1>1, <1>2, OfLength
<1>4. /\ IsSequence(C) /\ Len(C) = n + 2 /\ C[1] = Enter /\ C[n + 2] = Exit
      /\ \A i \in 1..n : C[i + 1] = A[i]
  BY <1>3, ScopedIs
<1>20. /\ \A i \in 1..n : es[i] = a[p].kids[f - 1 + i] /\ FrameOK(a, VisitStmt(es[i]))
       /\ \A i, j \in 1..n : es[i] = es[j] => i = j
       /\ n # 0 => Sees(M, s, es[1])
  OBVIOUS
<1> HIDE DEF C, n
<1>5. Enter.op = "enter" /\ Enter.e = 0 /\ Exit.op = "exit" /\ Exit.e = 0
  BY DEF Enter, Exit, Op
<1>6. \A i \in 1..n : C[i + 1].op = "stmt" /\ C[i + 1].e = es[i] /\ FrameOK(a, C[i + 1])
  <2> SUFFICES ASSUME NEW i \in 1..n
               PROVE  C[i + 1].op = "stmt" /\ C[i + 1].e = es[i] /\ FrameOK(a, C[i + 1])
    OBVIOUS
  <2>1. C[i + 1] = VisitStmt(es[i]) BY <1>2, <1>4
  <2>2. VisitStmt(es[i]).op = "stmt" /\ VisitStmt(es[i]).e = es[i] BY OpFields
  <2> QED BY <2>1, <2>2, <1>20
<1>7. ASSUME NEW i \in 1..(n + 2) PROVE i = 1 \/ i = n + 2 \/ \E j \in 1..n : i = j + 1
  <2>1. CASE i # 1 /\ i # n + 2
    <3> QED BY <2>1, <1>1, Between
  <2> QED BY <2>1
<1>8. ASSUME NEW i \in 1..Len(C) PROVE FrameOK(a, C[i])
  <2>1. FrameOK(a, Enter) /\ FrameOK(a, Exit) BY <1>5 DEF FrameOK
  <2> QED BY <2>1, <1>4, <1>6, <1>7
<1>9. ASSUME NEW i \in 1..Len(C), NEW j \in 1..Len(C), i < j, Looking(C[i])
      PROVE  C[j].e # C[i].e
  <2>1. PICK k \in 1..n : i = k + 1
    <3>1. i # 1 /\ i # n + 2 BY <1>4, <1>5, <1>9 DEF Looking
    <3> QED BY <3>1, <1>4, <1>7
  <2>2. C[i].e = es[k] /\ C[i].op = "stmt" /\ FrameOK(a, C[i]) BY <2>1, <1>6
  <2>3. C[i].e # 0 BY <2>2 DEF FrameOK, Looking
  <2>4. CASE j = n + 2 BY <2>3, <2>4, <1>4, <1>5
  <2>5. CASE j # n + 2
    <3>1. PICK l \in 1..n : j = l + 1
      <4>1. j \in 1..(n + 2) /\ j # 1 BY <2>1, <1>4, <1>9
      <4> QED BY <4>1, <2>5, <1>7
    <3>2. C[j].e = es[l] /\ k # l BY <3>1, <2>1, <1>6, <1>9
    <3> QED BY <3>2, <2>2, <1>20
  <2> QED BY <2>4, <2>5
<1>10. ASSUME NEW i \in 1..Len(C), C[i].op = "stmt" PROVE Continues(a, C, i)
  <2>1. PICK k \in 1..n : i = k + 1
    <3>1. i # 1 /\ i # n + 2 BY <1>4, <1>5, <1>10
    <3> QED BY <3>1, <1>4, <1>7
  <2>2. PICK m \in Nat : m = Len(a[p].kids)
    <3>1. p \in 1..Len(a) OBVIOUS
    <3> QED BY <3>1
  <2>3. PICK g \in 1..m : g = f - 1 + k
    <3>1. f - 1 + k \in 1..m BY <2>2, <1>1, <1>21
    <3> QED BY <3>1
  <2>4. m - g = n - k BY <2>2, <2>3, <1>1, <1>21
  <2>5. Followed(a, C, i, p, g)
    <3>1. a[p].kids[g] = C[i].e BY <2>1, <2>3, <1>6, <1>20
    <3>2. i + (m - g) + 1 = n + 2 BY <2>1, <2>4, <1>1
    <3>3. ASSUME NEW j \in 1..(m - g)
          PROVE  C[i + j].op = "stmt" /\ C[i + j].e = a[p].kids[g + j]
      <4>1. PICK l \in 1..n : l = k + j
        <5>1. k + j \in 1..n BY <2>4, <1>1
        <5> QED BY <5>1
      <4>2. i + j = l + 1 /\ g + j = f - 1 + l
        <5>1. PICK w \in Nat : w = j BY <2>4, <1>1
        <5>2. l = k + w /\ i = k + 1 /\ g = f - 1 + k BY <5>1, <4>1, <2>1, <2>3
        <5>3. i + w = l + 1 /\ g + w = f - 1 + l BY <5>2
        <5> QED BY <5>1, <5>3
      <4>3. C[l + 1].op = "stmt" /\ C[l + 1].e = es[l] /\ es[l] = a[p].kids[f - 1 + l]
        BY <1>6, <1>20
      <4> QED BY <4>2, <4>3
    <3>4. C[i + (m - g) + 1].op = "exit" BY <3>2, <1>4, <1>5
    <3>5. i + (m - g) + 1 <= Len(C) BY <3>2, <1>1, <1>4
    <3> QED BY <2>2, <3>1, <3>3, <3>4, <3>5 DEF Followed
  <2> QED BY <2>2, <2>5 DEF Continues
<1>11. PICK inner : inner = <<s[1], s>> OBVIOUS
<1>12. inner[1] = s[1] /\ inner[2] = s BY <1>11
<1>13. PICK W : W = [i \in 1..(n + 3) |-> IF i = 1 \/ i = n + 3 THEN s ELSE inner] OBVIOUS
<1>14. /\ W[1] = s /\ W[Len(C) + 1] = s
       /\ \A i \in 1..(n + 1) : W[i + 1] = inner
  <2>1. Len(C) + 1 = n + 3 BY <1>1, <1>4
  <2> QED BY <2>1, <1>1, <1>13
<1>15. ASSUME NEW i \in 1..Len(C)
       PROVE  /\ Step(a, C[i], W[i], W[i + 1])
              /\ Looking(C[i]) /\ (i = 1 \/ C[i - 1].op # "stmt") => Sees(M, W[i], C[i].e)
  <2>1. CASE i = 1
    <3>1. W[i + 1] = inner
      <4>1. 1 \in 1..(n + 1) BY <1>1
      <4> QED BY <4>1, <2>1, <1>14
    <3> QED BY <2>1, <3>1, <1>4, <1>5, <1>11, <1>14 DEF Step, Looking
  <2>2. CASE i = n + 2
    <3>1. n + 1 \in 1..(n + 1) /\ (n + 1) + 1 = i /\ i + 1 = Len(C) + 1 BY <2>2, <1>1, <1>4
    <3>2. W[i] = inner /\ W[i + 1] = s BY <3>1, <1>14
    <3> QED BY <2>2, <3>2, <1>4, <1>5, <1>12 DEF Step, Looking
  <2>3. CASE i # 1 /\ i # n + 2
    <3>1. PICK k \in 1..n : i = k + 1 BY <2>3, <1>4, <1>7
    <3>2. W[i] = inner /\ W[i + 1] = inner
      <4>1. k \in 1..(n + 1) /\ k + 1 \in 1..(n + 1) BY <1>1
      <4> QED BY <3>1, <4>1, <1>14
    <3>3. C[i].op = "stmt" /\ C[i].e = es[k] BY <3>1, <1>6
    <3>4. Step(a, C[i], W[i], W[i + 1]) BY <3>2, <3>3 DEF Step
    <3>5. CASE k = 1
      <4>1. Sees(M, s, es[k]) BY <3>5, <1>1, <1>20
      <4>2. Sees(M, inner, es[k]) BY <4>1, <1>12 DEF Sees
      <4> QED BY <3>2, <3>3, <3>4, <4>2
    <3>6. CASE k # 1
      <4>1. k - 1 \in 1..n /\ i - 1 = (k - 1) + 1 BY <3>1, <3>6, <1>1
      <4>2. C[i - 1].op = "stmt" BY <4>1, <1>6
      <4> QED BY <2>3, <3>4, <4>2
    <3> QED BY <3>5, <3>6
  <2> QED BY <2>1, <2>2, <2>3
<1>16. Flows(a, M, C, W) BY <1>15 DEF Flows
<1>17. Runs(a, M, C, s, s) BY <1>4, <1>8, <1>9, <1>10, <1>14, <1>16 DEF Runs
<1> QED BY <1>17 DEF C, A
\* Such frames that visit nodes of V, and define what e binds.
Makes(a, M, e, V, ops, s, t) ==
    /\ Runs(a, M, ops, s, t)
    /\ \A i \in 1..Len(ops) :
          IF Looking(ops[i]) THEN ops[i].e \in V ELSE ops[i].e \in {0, e}

LEMMA MakesConcat ==
    ASSUME NEW a, \A p \in 1..Len(a) : Len(a[p].kids) \in Nat, NEW M, NEW e, NEW A, NEW B,
           NEW s, NEW t, NEW u, NEW V, NEW W,
           Makes(a, M, e, V, A, s, t), Makes(a, M, e, W, B, t, u),
           V \cap W = {}, 0 \notin V, e \notin V
    PROVE  Makes(a, M, e, V \cup W, A \o B, s, u)
<1>1. Distinct(A, B) BY DEF Distinct, Makes
<1>2. Runs(a, M, A \o B, s, u) BY <1>1, RunsConcat DEF Makes
<1>3. /\ Len(A) \in Nat /\ Len(B) \in Nat /\ Len(A \o B) = Len(A) + Len(B)
      /\ \A j \in 1..Len(A) : (A \o B)[j] = A[j]
      /\ \A j \in 1..Len(B) : (A \o B)[j + Len(A)] = B[j]
  BY Concats DEF Makes, Runs
<1>4. ASSUME NEW i \in 1..Len(A \o B)
      PROVE  IF Looking((A \o B)[i]) THEN (A \o B)[i].e \in V \cup W
             ELSE (A \o B)[i].e \in {0, e}
  <2>1. CASE i \in 1..Len(A) BY <2>1, <1>3 DEF Makes
  <2>2. CASE i \notin 1..Len(A)
    <3>1. i - Len(A) \in 1..Len(B) /\ i = (i - Len(A)) + Len(A) BY <2>2, <1>3
    <3>2. (A \o B)[i] = B[i - Len(A)] BY <3>1, <1>3
    <3> QED BY <3>1, <3>2 DEF Makes
  <2> QED BY <2>1, <2>2
<1> QED BY <1>2, <1>4 DEF Makes

LEMMA MakesScoped ==
    ASSUME NEW a, \A p \in 1..Len(a) : Len(a[p].kids) \in Nat, NEW M, NEW e, NEW ops,
           NEW s, NEW t, NEW V, Makes(a, M, e, V, ops, <<s[1], s>>, t), t[2] = s
    PROVE  Makes(a, M, e, V, Scoped(ops), s, s)
<1>1. Runs(a, M, Scoped(ops), s, s) BY RunsScoped DEF Makes
<1>2. /\ Len(ops) \in Nat /\ Len(Scoped(ops)) = Len(ops) + 2
      /\ Scoped(ops)[1] = Enter /\ Scoped(ops)[Len(ops) + 2] = Exit
      /\ \A i \in 1..Len(ops) : Scoped(ops)[i + 1] = ops[i]
  BY ScopedIs DEF Makes, Runs
<1>3. ASSUME NEW i \in 1..Len(Scoped(ops))
      PROVE  IF Looking(Scoped(ops)[i]) THEN Scoped(ops)[i].e \in V
             ELSE Scoped(ops)[i].e \in {0, e}
  <2>1. CASE i = 1 \/ i = Len(ops) + 2 BY <2>1, <1>2 DEF Enter, Exit, Op, Looking
  <2>2. CASE i # 1 /\ i # Len(ops) + 2
    <3>1. PICK j \in 1..Len(ops) : i = j + 1 BY <2>2, <1>2, Between
    <3>2. Scoped(ops)[i] = ops[j] BY <3>1, <1>2
    <3> QED BY <3>2 DEF Makes
  <2> QED BY <2>1, <2>2
<1> QED BY <1>1, <1>3 DEF Makes

LEMMA MakesVisits ==
    ASSUME NEW a, NEW M, NEW e, NEW V, NEW s, NEW es, IsSequence(es),
           \A i \in 1..Len(es) :
              es[i] \in V /\ FrameOK(a, Visit(es[i])) /\ Sees(M, s, es[i]),
           \A i, j \in 1..Len(es) : es[i] = es[j] => i = j
    PROVE  Makes(a, M, e, V, VisitAll(es), s, s)
<1> DEFINE n == Len(es)
           A == VisitAll(es)
<1>1. n \in Nat BY LenProperties DEF IsSequence
<1>2. A \in [1..n -> {Visit(es[i]) : i \in 1..n}] /\ \A i \in 1..n : A[i] = Visit(es[i])
  BY DEF VisitAll
<1> HIDE DEF A
<1>3. IsSequence(A) /\ Len(A) = n BY <1>1, <1>2, OfLength
<1>4. ASSUME NEW i \in 1..n
      PROVE  A[i].op = "expr" /\ A[i].e = es[i] /\ FrameOK(a, A[i]) /\ Looking(A[i])
  <2>1. A[i] = Visit(es[i]) BY <1>2
  <2>2. Visit(es[i]).op = "expr" /\ Visit(es[i]).e = es[i] BY OpFields
  <2> QED BY <2>1, <2>2 DEF Looking
<1>5. /\ \A i \in 1..Len(A) : A[i].op = "expr" /\ FrameOK(a, A[i]) /\ Sees(M, s, A[i].e)
      /\ \A i, j \in 1..Len(A) : A[i].e = A[j].e => i = j
  BY <1>3, <1>4
<1>6. Runs(a, M, A, s, s) BY <1>3, <1>5, RunsVisits
<1>7. Makes(a, M, e, V, A, s, s) BY <1>3, <1>4, <1>6 DEF Makes
<1> QED BY <1>7 DEF A

LEMMA MakesVisit ==
    ASSUME NEW a, NEW M, NEW e, NEW s, NEW x, FrameOK(a, Visit(x)), Sees(M, s, x)
    PROVE  Makes(a, M, e, {x}, <<Visit(x)>>, s, s)
<1>1. PICK es : es = <<x>> OBVIOUS
<1>2. IsSequence(es) /\ Len(es) = 1 /\ es[1] = x BY <1>1, SmallSequences
<1>3. VisitAll(es) = <<Visit(x)>> BY <1>1 DEF VisitAll
<1>4. PICK V : V = {x} OBVIOUS
<1>5. \A i \in 1..Len(es) : i = 1 BY <1>2
<1>6. Makes(a, M, e, V, VisitAll(es), s, s)
  <2>1. /\ \A i \in 1..Len(es) :
             es[i] \in V /\ FrameOK(a, Visit(es[i])) /\ Sees(M, s, es[i])
        /\ \A i, j \in 1..Len(es) : es[i] = es[j] => i = j
    BY <1>2, <1>4, <1>5
  <2> QED BY <2>1, <1>2, MakesVisits
<1> QED BY <1>3, <1>4, <1>6

LEMMA MakesBinds ==
    ASSUME NEW a, NEW M, NEW e \in 2..Len(a), Len(a) \in Nat,
           NEW f \in Nat \ {0}, NEW m \in Nat,
           \A i \in f..(f - 1 + m) : i \in 1..Len(a[e].binds),
           NEW s
    PROVE  \E t : Makes(a, M, e, {}, Binds(e, f, m), s, t) /\ Bind(a[e].binds, e, f, m, s, t)
<1>1. PICK t : Runs(a, M, Binds(e, f, m), s, t) /\ Bind(a[e].binds, e, f, m, s, t)
  BY RunsBinds
<1> DEFINE ops == Binds(e, f, m)
<1>2. /\ ops \in [1..m -> {Op("define", e, f - 1 + i) : i \in 1..m}]
      /\ \A i \in 1..m : ops[i] = Op("define", e, f - 1 + i)
  BY DEF Binds
<1> HIDE DEF ops
<1>3. Len(ops) = m BY <1>2, OfLength
<1>4. \A i \in 1..Len(ops) : ~Looking(ops[i]) /\ ops[i].e = e BY <1>2, <1>3 DEF Op, Looking
<1>5. Makes(a, M, e, {}, ops, s, t) BY <1>1, <1>4 DEF Makes, ops
<1> QED BY <1>1, <1>5 DEF ops

LEMMA MakesBody ==
    ASSUME NEW a, \A p \in 1..Len(a) : Len(a[p].kids) \in Nat, NEW M, NEW s,
           NEW e \in 2..Len(a), Len(a) \in Nat, a[e].k \in Bodies, NEW f \in Nat \ {0},
           NEW es, IsSequence(es), Len(es) = Len(a[e].kids) + 1 - f, NEW V,
           \A i \in 1..Len(es) :
              /\ es[i] = a[e].kids[f - 1 + i] /\ es[i] \in V
              /\ FrameOK(a, VisitStmt(es[i])),
           \A i, j \in 1..Len(es) : es[i] = es[j] => i = j,
           Len(es) # 0 => Sees(M, s, es[1])
    PROVE  Makes(a, M, e, V, Scoped(VisitStmts(es)), s, s)
<1>1. Runs(a, M, Scoped(VisitStmts(es)), s, s) BY RunsBody
<1> DEFINE n == Len(es)
           A == VisitStmts(es)
<1>2. n \in Nat BY LenProperties DEF IsSequence
<1>3. /\ A \in [1..n -> {VisitStmt(es[i]) : i \in 1..n}]
      /\ \A i \in 1..n : A[i] = VisitStmt(es[i])
  BY DEF VisitStmts
<1> HIDE DEF A
<1>4. IsSequence(A) /\ Len(A) = n BY <1>2, <1>3, OfLength
<1>5. /\ Len(Scoped(A)) = n + 2 /\ Scoped(A)[1] = Enter /\ Scoped(A)[n + 2] = Exit
      /\ \A i \in 1..n : Scoped(A)[i + 1] = A[i]
  BY <1>4, ScopedIs
<1>6. \A i \in 1..n : Looking(A[i]) /\ A[i].e = es[i] /\ es[i] \in V
  <2> SUFFICES ASSUME NEW i \in 1..n PROVE Looking(A[i]) /\ A[i].e = es[i] /\ es[i] \in V
    OBVIOUS
  <2>1. VisitStmt(es[i]).op = "stmt" /\ VisitStmt(es[i]).e = es[i] BY OpFields
  <2> QED BY <2>1, <1>3 DEF Looking
<1>7. ASSUME NEW i \in 1..Len(Scoped(A))
      PROVE  IF Looking(Scoped(A)[i]) THEN Scoped(A)[i].e \in V
             ELSE Scoped(A)[i].e \in {0, e}
  <2>1. CASE i = 1 \/ i = n + 2
    <3>1. Scoped(A)[i] = Enter \/ Scoped(A)[i] = Exit BY <2>1, <1>5
    <3>2. Enter.op = "enter" /\ Enter.e = 0 /\ Exit.op = "exit" /\ Exit.e = 0
      BY DEF Enter, Exit, Op
    <3> QED BY <3>1, <3>2 DEF Looking
  <2>2. CASE i # 1 /\ i # n + 2
    <3>1. PICK j \in 1..n : i = j + 1
      <4>1. i \in 1..(n + 2) BY <1>5
      <4> HIDE DEF n
      <4> QED BY <2>2, <4>1, <1>2, Between
    <3>2. Scoped(A)[i] = A[j] BY <3>1, <1>5
    <3> QED BY <3>2, <1>6
  <2> QED BY <2>1, <2>2
<1> QED BY <1>1, <1>7 DEF Makes, A
-----------------------------------------------------------------------------
(* A node is read                                                          *)

\* Node e turns out to be something, with k children behind all that there is.
Grew(e, k) ==
    /\ IsSequence(ast') /\ Len(ast') = Len(ast) + k
    /\ \A j \in 1..Len(ast) : j # e => ast'[j] = ast[j]
    /\ IsSequence(ast'[e].kids) /\ Len(ast'[e].kids) = k /\ IsSequence(ast'[e].binds)
    /\ \A i \in 1..k : ast'[e].kids[i] = Len(ast) + i
    /\ \A j \in (Len(ast) + 1)..(Len(ast) + k) :
          /\ ast'[j].kids = <<>> /\ ast'[j].binds = <<>>
          /\ ast'[j].k \in {"unread", "use"}

LEMMA NoKids == IsSequence(<<>>) /\ Len(<<>>) = 0
BY SmallSequences

LEMMA GrewTree ==
    ASSUME TreeOK, NEW e \in 2..Len(ast), ast[e].kids = <<>>, NEW k \in Nat, Grew(e, k)
    PROVE  TreeOK'
<1>1. PICK n \in Nat : n = Len(ast) BY ParentsFound DEF ParentsOK
<1>2. /\ Len(ast') = n + k
      /\ \A j \in 1..n : j # e => ast'[j] = ast[j]
      /\ \A i \in 1..k : ast'[e].kids[i] = n + i
      /\ \A j \in (n + 1)..(n + k) : ast'[j].kids = <<>> /\ ast'[j].binds = <<>>
  BY <1>1 DEF Grew
<1>3. e \in 2..n BY <1>1
<1>4. /\ \A j \in 1..n : j # e => Len(ast'[j].kids) = Len(ast[j].kids)
      /\ Len(ast'[e].kids) = k /\ Len(ast[e].kids) = 0
      /\ \A j \in (n + 1)..(n + k) : Len(ast'[j].kids) = 0
  <2>1. Len(ast'[e].kids) = k BY DEF Grew
  <2> QED BY <2>1, <1>2, NoKids
<1>5. \A j \in 1..n : Len(ast[j].kids) \in Nat
  BY <1>1, ParentsFound DEF ParentsOK
<1>6. ASSUME NEW p \in 1..(n + k), NEW i \in 1..Len(ast'[p].kids)
      PROVE  \/ p = e /\ i \in 1..k /\ ast'[p].kids[i] = n + i
             \/ /\ p \in 1..n /\ p # e /\ i \in 1..Len(ast[p].kids)
                /\ ast'[p].kids[i] = ast[p].kids[i] /\ ast[p].kids[i] \in (p + 1)..n
  <2>1. CASE p = e BY <2>1, <1>2, <1>4, <1>6
  <2>2. CASE p \in 1..n /\ p # e
    <3>1. ast'[p] = ast[p] /\ i \in 1..Len(ast[p].kids) BY <2>2, <1>2, <1>4
    <3>2. ast[p].kids[i] \in (p + 1)..n BY <3>1, <2>2, <1>1 DEF TreeOK
    <3> QED BY <2>2, <3>1, <3>2
  <2>3. CASE p \notin 1..n
    <3>1. p \in (n + 1)..(n + k) BY <2>3
    <3> QED BY <3>1, <1>4
  <2> QED BY <2>1, <2>2, <2>3
<1>7. IsSequence(ast') /\ Len(ast') >= 1 /\ ast'[Root].k = "module"
  <2>1. Root \in 1..n /\ Root # e BY <1>3 DEF Root
  <2>2. ast'[Root] = ast[Root] BY <2>1, <1>2
  <2> QED BY <2>2, <1>2, <1>3 DEF TreeOK, Grew
<1>8. ASSUME NEW p \in 1..(n + k)
      PROVE  IsSequence(ast'[p].kids) /\ IsSequence(ast'[p].binds)
  <2>1. CASE p = e BY <2>1 DEF Grew
  <2>2. CASE p \in 1..n /\ p # e BY <2>2, <1>1, <1>2 DEF TreeOK
  <2>3. CASE p \notin 1..n
    <3>1. p \in (n + 1)..(n + k) BY <2>3
    <3> QED BY <3>1, <1>2, NoKids
  <2> QED BY <2>1, <2>2, <2>3
<1>9. ASSUME NEW p \in 1..(n + k), NEW i \in 1..Len(ast'[p].kids)
      PROVE  ast'[p].kids[i] \in (p + 1)..(n + k)
  <2>1. CASE p = e /\ i \in 1..k /\ ast'[p].kids[i] = n + i
    BY <2>1, <1>3
  <2>2. CASE p \in 1..n /\ ast'[p].kids[i] \in (p + 1)..n BY <2>2
  <2> QED BY <2>1, <2>2, <1>6
<1>10. ASSUME NEW p \in 1..(n + k), NEW q \in 1..(n + k),
              NEW i \in 1..Len(ast'[p].kids), NEW j \in 1..Len(ast'[q].kids),
              ast'[p].kids[i] = ast'[q].kids[j]
       PROVE  p = q /\ i = j
  <2>1. \/ p = e /\ i \in 1..k /\ ast'[p].kids[i] = n + i
        \/ /\ p \in 1..n /\ p # e /\ i \in 1..Len(ast[p].kids)
           /\ ast'[p].kids[i] = ast[p].kids[i] /\ ast[p].kids[i] \in (p + 1)..n
    BY <1>6
  <2>2. \/ q = e /\ j \in 1..k /\ ast'[q].kids[j] = n + j
        \/ /\ q \in 1..n /\ q # e /\ j \in 1..Len(ast[q].kids)
           /\ ast'[q].kids[j] = ast[q].kids[j] /\ ast[q].kids[j] \in (q + 1)..n
    BY <1>6
  <2>3. CASE p = e BY <2>1, <2>2, <2>3, <1>10
  <2>4. CASE q = e
    <3>1. j \in 1..k /\ ast'[q].kids[j] = n + j BY <2>2, <2>4
    <3>2. n + j \notin (p + 1)..n BY <3>1
    <3>3. p = e /\ i \in 1..k /\ n + i = n + j BY <2>1, <3>1, <3>2, <1>10
    <3>4. i = j BY <3>1, <3>3
    <3> QED BY <2>4, <3>3, <3>4
  <2>5. CASE p # e /\ q # e
    <3>1. /\ p \in 1..n /\ q \in 1..n /\ i \in 1..Len(ast[p].kids)
          /\ j \in 1..Len(ast[q].kids) /\ ast[p].kids[i] = ast[q].kids[j]
      BY <2>1, <2>2, <2>5, <1>10
    <3> QED BY <3>1, <1>1 DEF TreeOK
  <2> QED BY <2>3, <2>4, <2>5
<1>11. ASSUME NEW d \in 2..(n + k)
       PROVE  \E p \in 1..(n + k) : \E i \in 1..Len(ast'[p].kids) : ast'[p].kids[i] = d
  <2>1. CASE d \in 2..n
    <3>1. PICK p \in 1..n : \E i \in 1..Len(ast[p].kids) : ast[p].kids[i] = d
      BY <2>1, <1>1 DEF TreeOK
    <3>2. p # e BY <3>1, <1>4
    <3>3. ast'[p] = ast[p] /\ p \in 1..(n + k) BY <3>2, <1>2
    <3> QED BY <3>1, <3>3
  <2>2. CASE d \notin 2..n
    <3>1. d - n \in 1..k /\ n + (d - n) = d BY <2>2, <1>3
    <3>2. e \in 1..(n + k) /\ ast'[e].kids[d - n] = d BY <3>1, <1>2, <1>3
    <3> QED BY <3>1, <3>2, <1>4
  <2> QED BY <2>1, <2>2
<1> QED BY <1>2, <1>7, <1>8, <1>9, <1>10, <1>11 DEF TreeOK

\* What a node binds, from the node alone.
AfterIn(node, e, x) ==
    CASE node.k \in {"let", "declare"} -> LatestIn(node.binds, e, x, 1, Len(node.binds))
      [] node.k = "fn"                 -> LatestIn(node.binds, e, x, 1, 1)
      [] OTHER                         -> Undefined

ForIn(node, p, i, x, top) ==
    LET after(k) == LatestIn(node.binds, p, x, k, Len(node.binds))
    IN CASE node.k \in {"if_let", "match", "loop", "fork"} ->
                                      IF i = 2 THEN after(1) ELSE Undefined
         [] node.k \in {"closure", "method"} -> after(1)
         [] node.k = "fn"           -> after(IF top THEN 2 ELSE 1)
         [] OTHER                   -> Undefined

LEMMA BoundIn ==
    ASSUME NEW e, NEW i, NEW x
    PROVE  /\ BoundAfter(e, x) = AfterIn(ast[e], e, x)
           /\ BoundAfter(e, x)' = AfterIn(ast'[e], e, x)
           /\ BoundFor(e, i, x) = ForIn(ast[e], e, i, x, Parent(e) = Root)
           /\ BoundFor(e, i, x)' = ForIn(ast'[e], e, i, x, Parent(e)' = Root)
<1>1. /\ BoundAfter(e, x) = AfterIn(ast[e], e, x)
      /\ BoundAfter(e, x)' = AfterIn(ast'[e], e, x)
  BY DEF BoundAfter, AfterIn, Latest, LatestIn
<1>2. /\ BoundFor(e, i, x) = ForIn(ast[e], e, i, x, Parent(e) = Root)
      /\ BoundFor(e, i, x)' = ForIn(ast'[e], e, i, x, Parent(e)' = Root)
  BY DEF BoundFor, ForIn, Latest, LatestIn
<1> QED BY <1>1, <1>2

LEMMA BindsNothing ==
    ASSUME NEW node, node.k \notin {"let", "declare", "fn"}, NEW e, NEW x
    PROVE  AfterIn(node, e, x) = Undefined
BY DEF AfterIn

LEMMA GrewParent ==
    ASSUME TreeOK, NEW e \in 2..Len(ast), ast[e].kids = <<>>, NEW k \in Nat, Grew(e, k),
           NEW p \in 2..Len(ast)
    PROVE  Parent(p)' = Parent(p)
<1>1. TreeOK' BY GrewTree
<1>2. ParentsOK /\ ParentsOK' BY <1>1, ParentsFound, TreeNext
<1>3. PICK n \in Nat : n = Len(ast) BY <1>2 DEF ParentsOK
<1>4. PICK r \in 1..n : \E h \in 1..Len(ast[r].kids) : ast[r].kids[h] = p
  BY <1>3 DEF TreeOK
<1>5. PICK h \in 1..Len(ast[r].kids) : ast[r].kids[h] = p BY <1>4
<1>6. r # e BY <1>5, NoKids
<1>7. ast'[r] = ast[r] /\ r \in 1..Len(ast') BY <1>3, <1>6 DEF Grew
<1>8. Parent(p) = r BY <1>5, <1>2, <1>3 DEF ParentsOK
<1>9. Parent(p)' = r
  <2>1. h \in 1..Len(ast'[r].kids) /\ ast'[r].kids[h] = p BY <1>5, <1>7
  <2>2. Parent(ast[r].kids[h])' = r BY <2>1, <1>2, <1>7 DEF ParentsOK
  <2> QED BY <2>1, <2>2
<1> QED BY <1>8, <1>9

\* The nodes there were keep their meanings, but for those, L, that stand after a
\* statement that now binds.
LEMMA GrewMeans ==
    ASSUME TreeOK, NEW e \in 2..Len(ast), ast[e].kids = <<>>, ast[e].k = "unread",
           NEW k \in Nat, Grew(e, k),
           \A x \in Names : ModuleItem(x)' = ModuleItem(x),
           NEW L, \A q \in L : ast[q].kids = <<>>,
           \A p \in 2..Len(ast) : \A i, j \in 1..Len(ast[p].kids) :
              i < j /\ ast[p].kids[i] = e =>
                 ast[p].kids[j] \in L \/ \A x \in Names : BoundAfter(e, x)' = Undefined
    PROVE  \A q \in 2..Len(ast) : q \notin L => \A x \in Names : Meaning'[q][x] = Meaning[q][x]
<1>1. TreeOK' BY GrewTree
<1>2. ParentsOK /\ MeaningOK /\ ParentsOK' /\ MeaningOK'
  BY <1>1, ParentsFound, MeaningFound, TreeNext
<1>3. PICK n \in Nat : n = Len(ast) BY <1>2 DEF ParentsOK
<1>4. e \in 2..n /\ Len(ast') = n + k /\ \A j \in 1..n : j # e => ast'[j] = ast[j]
  BY <1>3 DEF Grew
<1>5. ASSUME NEW p \in 1..n, NEW i \in 1..Len(ast[p].kids)
      PROVE  p # e /\ ast'[p] = ast[p] /\ p \in 1..(n + k)
  <2>1. p # e BY <1>5, NoKids
  <2> QED BY <2>1, <1>4
<1>6. ASSUME NEW p \in 2..n, NEW i \in 1..Len(ast[p].kids), ast[p].kids[i] \notin L,
             NEW x \in Names
      PROVE  NextTo(p, i, x)' = NextTo(p, i, x)
  <2>1. p \in 1..n /\ p \in 2..n /\ Len(ast[p].kids) \in Nat BY <1>2, <1>3 DEF ParentsOK
  <2>2. p # e /\ ast'[p] = ast[p] BY <2>1, <1>5
  <2>3. ASSUME NEW j \in 1..(i - 1)
        PROVE  BoundAfter(ast[p].kids[j], x)' = BoundAfter(ast[p].kids[j], x)
    <3>1. PICK q : q = ast[p].kids[j] OBVIOUS
    <3>2. j \in 1..Len(ast[p].kids) /\ j < i BY <2>1
    <3>3. q \in (p + 1)..n BY <2>1, <3>1, <3>2, <1>3 DEF TreeOK
    <3>4. BoundAfter(q, x)' = BoundAfter(q, x)
      <4>1. CASE q # e
        <5>1. ast'[q] = ast[q] BY <4>1, <3>3, <1>4
        <5>2. BoundAfter(q, x) = AfterIn(ast[q], q, x) /\ BoundAfter(q, x)' = AfterIn(ast'[q], q, x)
          BY BoundIn
        <5> QED BY <5>1, <5>2
      <4>2. CASE q = e
        <5>1. BoundAfter(e, x)' = Undefined BY <4>2, <3>1, <3>2, <1>3, <1>6
        <5>2. AfterIn(ast[e], e, x) = Undefined BY DEF AfterIn
        <5>3. BoundAfter(e, x) = Undefined BY <5>2, BoundIn
        <5> QED BY <4>2, <5>1, <5>3
      <4> QED BY <4>1, <4>2
    <3>5. ast'[p].kids[j] = q BY <2>2, <3>1
    <3> QED BY <3>1, <3>4, <3>5
  <2>4. Before(p, i, x)' = Before(p, i, x) BY <2>3 DEF Before
  <2>5. BoundFor(p, i, x)' = BoundFor(p, i, x)
    <3>1. Parent(p)' = Parent(p) BY <1>3, GrewParent
    <3>2. /\ BoundFor(p, i, x) = ForIn(ast[p], p, i, x, Parent(p) = Root)
          /\ BoundFor(p, i, x)' = ForIn(ast'[p], p, i, x, Parent(p)' = Root)
      BY BoundIn
    <3> QED BY <3>1, <3>2, <2>2
  <2>6. CASE Before(p, i, x) = {} BY <2>4, <2>5, <2>6 DEF NextTo
  <2>7. CASE Before(p, i, x) # {}
    <3>1. PICK j : j = Max(Before(p, i, x)) OBVIOUS
    <3>2. j \in Before(p, i, x)
      <4> DEFINE T == Before(p, i, x)
      <4>1. T \subseteq 1..(i - 1) /\ i - 1 \in Nat BY <2>1 DEF Before
      <4> HIDE DEF T
      <4>2. T # {} /\ j = Max(T) BY <2>7, <3>1 DEF T
      <4>3. j \in T BY <4>1, <4>2, MaxOf
      <4> QED BY <4>3 DEF T
    <3>3. j \in 1..(i - 1) BY <3>2 DEF Before
    <3>4. NextTo(p, i, x) = BoundAfter(ast[p].kids[j], x) BY <2>7, <3>1 DEF NextTo
    <3>5. NextTo(p, i, x)' = BoundAfter(ast[p].kids[j], x)' BY <2>7, <3>1, <2>4 DEF NextTo
    <3> QED BY <3>3, <3>4, <3>5, <2>3
  <2> QED BY <2>6, <2>7
<1> DEFINE T == {q \in 2..n : q \notin L /\ \E x \in Names : Meaning'[q][x] # Meaning[q][x]}
<1>7. ASSUME T # {} PROVE FALSE
  <2>1. T \subseteq Nat OBVIOUS
  <2>2. PICK q \in T : \A y \in T : q <= y
    <3> HIDE DEF T
    <3> QED BY <1>7, <2>1, Smallest
  <2>3. PICK x \in Names : Meaning'[q][x] # Meaning[q][x] BY <2>2
  <2>4. q \in 2..n /\ q \notin L BY <2>2
  <2>5. PICK p \in 1..n : \E i \in 1..Len(ast[p].kids) : ast[p].kids[i] = q
    BY <2>4, <1>3 DEF TreeOK
  <2>6. PICK i \in 1..Len(ast[p].kids) : ast[p].kids[i] = q BY <2>5
  <2>7. /\ p # e /\ ast'[p] = ast[p] /\ p \in 1..Len(ast') /\ p < q
    <3>1. q \in (p + 1)..n BY <2>6, <1>3 DEF TreeOK
    <3> QED BY <3>1, <2>6, <1>4, <1>5
  <2>8. Meaning[q][x] = IF p = Root THEN ModuleItem(x)
                        ELSE IF NextTo(p, i, x) # Undefined THEN NextTo(p, i, x)
                        ELSE Meaning[p][x]
    BY <2>6, <1>2, <1>3 DEF MeaningOK
  <2>9. Meaning'[q][x] = IF p = Root THEN ModuleItem(x)'
                         ELSE IF NextTo(p, i, x)' # Undefined THEN NextTo(p, i, x)'
                         ELSE Meaning'[p][x]
    <3>1. i \in 1..Len(ast'[p].kids) /\ ast'[p].kids[i] = q BY <2>6, <2>7
    <3>2. /\ Meaning'[ast'[p].kids[i]][x] =
                IF p = Root THEN ModuleItem(x)'
                ELSE IF NextTo(p, i, x)' # Undefined THEN NextTo(p, i, x)'
                ELSE Meaning'[p][x]
      BY <2>7, <3>1, <1>2 DEF MeaningOK
    <3> QED BY <3>1, <3>2
  <2>10. CASE p = Root BY <2>3, <2>8, <2>9, <2>10
  <2>11. CASE p # Root
    <3>1. p \in 2..n BY <2>11 DEF Root
    <3>2. NextTo(p, i, x)' = NextTo(p, i, x) BY <3>1, <2>4, <2>6, <1>6
    <3>3. p \notin L
      <4>1. Len(ast[p].kids) # 0 BY <2>6
      <4> QED BY <4>1, NoKids
    <3>4. p \notin T BY <2>2, <2>4, <2>7
    <3>5. Meaning'[p][x] = Meaning[p][x] BY <3>1, <3>3, <3>4
    <3> QED BY <3>2, <3>5, <2>3, <2>8, <2>9, <2>11
  <2> QED BY <2>10, <2>11
<1> QED BY <1>3, <1>7
\* The children mean what the node does, but for what it binds for them.
LEMMA GrewKids ==
    ASSUME TreeOK, NEW e \in 2..Len(ast), ast[e].kids = <<>>, NEW k \in Nat, Grew(e, k),
           NEW i \in 1..k, NEW x \in Names, NEW f,
           f = ForIn(ast'[e], e, i, x, Parent(e) = Root)
    PROVE  Meaning'[Len(ast) + i][x] = IF f # Undefined THEN f ELSE Meaning'[e][x]
<1>1. TreeOK' BY GrewTree
<1>2. ParentsOK /\ MeaningOK' BY <1>1, ParentsFound, TreeNext
<1>3. PICK n \in Nat : n = Len(ast) BY <1>2 DEF ParentsOK
<1>4. /\ e \in 2..n /\ Len(ast') = n + k /\ Len(ast'[e].kids) = k
      /\ \A j \in 1..k : ast'[e].kids[j] = n + j /\ ast'[n + j].k \in {"unread", "use"}
  <2>1. \A j \in 1..k : n + j \in (n + 1)..(n + k) OBVIOUS
  <2> QED BY <2>1, <1>3 DEF Grew
<1>5. BoundFor(e, i, x)' = f
  <2>1. Parent(e)' = Parent(e) BY GrewParent
  <2>2. BoundFor(e, i, x)' = ForIn(ast'[e], e, i, x, Parent(e)' = Root) BY BoundIn
  <2> QED BY <2>1, <2>2
<1>6. Before(e, i, x)' = {}
  <2>1. ASSUME NEW j \in 1..(i - 1) PROVE BoundAfter(ast[e].kids[j], x)' = Undefined
    <3>1. PICK q : q = ast'[e].kids[j] OBVIOUS
    <3>2. j \in 1..k BY <1>3
    <3>3. ast'[q].k \in {"unread", "use"} BY <3>1, <3>2, <1>4
    <3>4. AfterIn(ast'[q], q, x) = Undefined BY <3>3 DEF AfterIn
    <3>5. BoundAfter(q, x)' = Undefined BY <3>4, BoundIn
    <3> QED BY <3>1, <3>5
  <2> QED BY <2>1 DEF Before
<1>7. NextTo(e, i, x)' = f BY <1>5, <1>6 DEF NextTo
<1>8. e \in 1..Len(ast') /\ i \in 1..Len(ast'[e].kids) /\ e # Root BY <1>4 DEF Root
<1>9. Meaning'[ast'[e].kids[i]][x] =
            IF e = Root THEN ModuleItem(x)'
            ELSE IF NextTo(e, i, x)' # Undefined THEN NextTo(e, i, x)'
            ELSE Meaning'[e][x]
  BY <1>8, <1>2 DEF MeaningOK
<1> QED BY <1>3, <1>4, <1>7, <1>8, <1>9

\* In the body of a block or a function a name means what it did for the statement
\* before, but for what that binds.
SiblingsOK ==
    \A p \in 2..Len(ast) : \A i \in 1..Len(ast[p].kids) :
        ast[p].k \in Bodies /\ i + 1 \in 1..Len(ast[p].kids) =>
           \A x \in Names :
              Meaning[ast[p].kids[i + 1]][x] =
                 IF BoundAfter(ast[p].kids[i], x) # Undefined
                 THEN BoundAfter(ast[p].kids[i], x)
                 ELSE Meaning[ast[p].kids[i]][x]

LEMMA Siblings == TreeOK => SiblingsOK
<1> SUFFICES ASSUME TreeOK, NEW p \in 2..Len(ast), NEW i \in 1..Len(ast[p].kids),
                    ast[p].k \in Bodies, i + 1 \in 1..Len(ast[p].kids), NEW x \in Names
             PROVE  Meaning[ast[p].kids[i + 1]][x] =
                       IF BoundAfter(ast[p].kids[i], x) # Undefined
                       THEN BoundAfter(ast[p].kids[i], x)
                       ELSE Meaning[ast[p].kids[i]][x]
  BY DEF SiblingsOK
<1>1. ParentsOK /\ MeaningOK BY ParentsFound, MeaningFound
<1>2. p \in 1..Len(ast) /\ Len(ast[p].kids) \in Nat /\ p # Root BY <1>1 DEF ParentsOK, Root
<1> DEFINE S(j) == Before(p, j, x)
           d == BoundAfter(ast[p].kids[i], x)
<1>3. /\ Meaning[ast[p].kids[i]][x] =
            IF NextTo(p, i, x) # Undefined THEN NextTo(p, i, x) ELSE Meaning[p][x]
      /\ Meaning[ast[p].kids[i + 1]][x] =
            IF NextTo(p, i + 1, x) # Undefined THEN NextTo(p, i + 1, x) ELSE Meaning[p][x]
  BY <1>1, <1>2 DEF MeaningOK
<1>4. BoundFor(p, i + 1, x) = BoundFor(p, i, x)
  <2>1. /\ BoundFor(p, i + 1, x) = ForIn(ast[p], p, i + 1, x, Parent(p) = Root)
        /\ BoundFor(p, i, x) = ForIn(ast[p], p, i, x, Parent(p) = Root)
    BY BoundIn
  <2>2. ForIn(ast[p], p, i + 1, x, Parent(p) = Root) = ForIn(ast[p], p, i, x, Parent(p) = Root)
    BY DEF ForIn, Bodies
  <2> QED BY <2>1, <2>2
<1>5. S(i + 1) = S(i) \cup IF d # Undefined THEN {i} ELSE {}
  <2>1. 1..((i + 1) - 1) = (1..(i - 1)) \cup {i} BY <1>2
  <2> QED BY <2>1 DEF Before
<1>6. CASE d = Undefined
  <2>1. S(i + 1) = S(i) BY <1>5, <1>6
  <2>2. NextTo(p, i + 1, x) = NextTo(p, i, x) BY <2>1, <1>4 DEF NextTo
  <2> QED BY <2>2, <1>3, <1>6
<1>7. CASE d # Undefined
  <2>1. i \in S(i + 1) /\ S(i + 1) \subseteq 1..i
    <3>1. S(i + 1) \subseteq 1..((i + 1) - 1) /\ (i + 1) - 1 = i BY <1>2 DEF Before
    <3> QED BY <3>1, <1>5, <1>7
  <2>2. Max(S(i + 1)) = i
    <3> DEFINE T == S(i + 1)
    <3>1. i \in T /\ T \subseteq 1..i /\ i \in Nat BY <2>1, <1>2
    <3> HIDE DEF T
    <3>2. Max(T) \in T /\ \A y \in T : y <= Max(T) BY <3>1, MaxOf
    <3>3. Max(T) \in 1..i /\ i <= Max(T) BY <3>1, <3>2
    <3>4. Max(T) = i BY <3>1, <3>3
    <3> QED BY <3>4 DEF T
  <2>3. NextTo(p, i + 1, x) = d BY <2>1, <2>2 DEF NextTo
  <2> QED BY <2>3, <1>3, <1>7
<1> QED BY <1>6, <1>7

LEMMA SiblingsNext == TreeOK' => SiblingsOK'
BY Siblings, PTL

\* An item is known by the same name when it is read.
Items(x) ==
    {i \in DOMAIN ast[Root].kids :
        LET binds == ast[ast[Root].kids[i]].binds
        IN /\ ast[ast[Root].kids[i]].k \in {"unread", "fn", "const"}
           /\ binds # <<>> /\ binds[1].name = x}

NamedAlike(a, b) ==
    \/ /\ a.binds # <<>> /\ b.k \in {"fn", "const"}
       /\ b.binds # <<>> /\ b.binds[1].name = a.binds[1].name
    \/ a.binds = <<>> /\ b.k \notin {"unread", "fn", "const"}

LEMMA ItemsKept ==
    ASSUME TreeOK, NEW e \in 2..Len(ast), ast[e].kids = <<>>, ast[e].k = "unread",
           NEW k \in Nat, Grew(e, k),
           (\E i \in 1..Len(ast[Root].kids) : ast[Root].kids[i] = e) =>
               NamedAlike(ast[e], ast'[e])
    PROVE  \A x \in Names : ModuleItem(x)' = ModuleItem(x)
<1> SUFFICES ASSUME NEW x \in Names PROVE ModuleItem(x)' = ModuleItem(x)
  OBVIOUS
<1>1. ParentsOK BY ParentsFound
<1>2. PICK n \in Nat : n = Len(ast) BY <1>1 DEF ParentsOK
<1>3. Root \in 1..n /\ Root # e BY <1>2 DEF Root, TreeOK
<1>4. ast'[Root] = ast[Root] BY <1>2, <1>3 DEF Grew
<1>5. DOMAIN ast[Root].kids = 1..Len(ast[Root].kids)
  BY <1>2, <1>3, LenProperties DEF TreeOK, IsSequence
<1>6. ASSUME NEW i \in DOMAIN ast[Root].kids
      PROVE  i \in Items(x)' <=> i \in Items(x)
  <2>1. PICK q : q = ast[Root].kids[i] OBVIOUS
  <2>2. q \in 2..n BY <2>1, <1>2, <1>3, <1>5 DEF TreeOK, Root
  <2>3. i \in Items(x) <=> /\ ast[q].k \in {"unread", "fn", "const"}
                           /\ ast[q].binds # <<>> /\ ast[q].binds[1].name = x
    BY <2>1 DEF Items
  <2>4. i \in Items(x)' <=> /\ ast'[q].k \in {"unread", "fn", "const"}
                            /\ ast'[q].binds # <<>> /\ ast'[q].binds[1].name = x
    BY <2>1, <1>4 DEF Items
  <2>5. CASE q # e
    <3>1. ast'[q] = ast[q] BY <2>2, <2>5, <1>2 DEF Grew
    <3> QED BY <3>1, <2>3, <2>4
  <2>6. CASE q = e
    <3>1. NamedAlike(ast[q], ast'[q]) BY <2>1, <2>6, <1>5
    <3> QED BY <3>1, <2>3, <2>4, <2>6 DEF NamedAlike
  <2> QED BY <2>5, <2>6
<1>7. Items(x)' = Items(x)
  <2>1. Items(x) \subseteq DOMAIN ast[Root].kids /\ Items(x)' \subseteq DOMAIN ast[Root].kids
    BY <1>4 DEF Items
  <2> QED BY <2>1, <1>6
<1>8. /\ ModuleItem(x) = IF Items(x) # {} THEN <<ast[Root].kids[Max(Items(x))], 1>>
                         ELSE IF x \in Prelude THEN PreludeSpan ELSE Undefined
      /\ ModuleItem(x)' = IF Items(x)' # {} THEN <<ast'[Root].kids[Max(Items(x)')], 1>>
                          ELSE IF x \in Prelude THEN PreludeSpan ELSE Undefined
  BY DEF ModuleItem, Items
<1> QED BY <1>4, <1>7, <1>8
-----------------------------------------------------------------------------
(* The rest of the agenda, when the node at its head is read               *)

\* Every statement after e, in the list e stands in, is in L; none of L is read,
\* and each is visited right after another statement.
StillAhead(L, e) ==
    /\ \A q \in L : ast[q].kids = <<>> /\ ast[q].k = "unread" /\ q # e
    /\ \A p \in 2..Len(ast) : \A i, j \in 1..Len(ast[p].kids) :
          i < j /\ ast[p].kids[i] = e => ast[p].kids[j] \in L
    /\ \A j \in 2..Len(agenda) :
          Looking(agenda[j]) /\ agenda[j].e \in L => agenda[j - 1].op = "stmt"

\* The statements after one that is about to be read are still ahead.
LEMMA LaterOnes ==
    ASSUME TreeOK, NEW s, NEW u, Runs(ast, Meaning, agenda, s, u),
           1 \in 1..Len(agenda), agenda[1].op = "stmt", NEW e, e = agenda[1].e
    PROVE  \E L : StillAhead(L, e)
<1>1. ParentsOK BY ParentsFound
<1>2. PICK n \in Nat : n = Len(agenda) BY LenProperties DEF Runs, IsSequence
<1>3. /\ \A i \in 1..n : FrameOK(ast, agenda[i])
      /\ \A i, j \in 1..n : i < j /\ Looking(agenda[i]) => agenda[j].e # agenda[i].e
      /\ Continues(ast, agenda, 1)
  BY <1>2 DEF Runs
<1>4. PICK r \in 2..Len(ast) : \E k \in 1..Len(ast[r].kids) : Followed(ast, agenda, 1, r, k)
  BY <1>3 DEF Continues
<1>5. PICK k \in 1..Len(ast[r].kids) : Followed(ast, agenda, 1, r, k) BY <1>4
<1>6. PICK m \in Nat : m = Len(ast[r].kids) /\ r \in 1..Len(ast) BY <1>1 DEF ParentsOK
<1>7. PICK d \in Nat : d = m - k BY <1>6
<1>8. /\ ast[r].kids[k] = e /\ 1 + d + 1 <= n
      /\ \A j \in 1..d : agenda[1 + j].op = "stmt" /\ agenda[1 + j].e = ast[r].kids[k + j]
  BY <1>2, <1>5, <1>6, <1>7 DEF Followed
<1>9. PICK L : L = {agenda[1 + j].e : j \in 1..d} OBVIOUS
<1>10. ASSUME NEW q \in L PROVE ast[q].kids = <<>> /\ ast[q].k = "unread" /\ q # e
  <2>1. PICK j \in 1..d : q = agenda[1 + j].e BY <1>9
  <2>2. 1 + j \in 1..n /\ 1 \in 1..n /\ 1 < 1 + j BY <1>8
  <2>3. FrameOK(ast, agenda[1 + j]) /\ agenda[1 + j].op = "stmt" BY <2>2, <1>3, <1>8
  <2>4. Looking(agenda[1]) BY DEF Looking
  <2> QED BY <2>1, <2>2, <2>3, <2>4, <1>3 DEF FrameOK, Looking
<1>11. ASSUME NEW p \in 2..Len(ast), NEW i \in 1..Len(ast[p].kids),
              NEW j \in 1..Len(ast[p].kids), i < j, ast[p].kids[i] = e
       PROVE  ast[p].kids[j] \in L
  <2>1. p = r /\ i = k BY <1>6, <1>8, <1>11 DEF TreeOK
  <2>2. j - k \in 1..d /\ k + (j - k) = j BY <2>1, <1>6, <1>7, <1>11
  <2>3. agenda[1 + (j - k)].e = ast[p].kids[j] BY <2>1, <2>2, <1>8
  <2> QED BY <2>2, <2>3, <1>9
<1>12. ASSUME NEW j \in 2..n, Looking(agenda[j]), agenda[j].e \in L
       PROVE  agenda[j - 1].op = "stmt"
  <2>1. PICK i \in 1..d : agenda[j].e = agenda[1 + i].e BY <1>9, <1>12
  <2>2. 1 + i \in 1..n /\ j \in 1..n BY <1>8
  <2>3. Looking(agenda[1 + i]) BY <1>8 DEF Looking
  <2>4. ~(j < 1 + i) /\ ~(1 + i < j) BY <2>1, <2>2, <2>3, <1>3, <1>12
  <2>5. j = 1 + i BY <2>4
  <2>6. CASE i = 1 BY <2>5, <2>6
  <2>7. CASE i # 1
    <3>1. i - 1 \in 1..d /\ j - 1 = 1 + (i - 1) BY <2>5, <2>7
    <3> QED BY <3>1, <1>8
  <2> QED BY <2>6, <2>7
<1>13. StillAhead(L, e) BY <1>2, <1>10, <1>11, <1>12 DEF StillAhead
<1> QED BY <1>13
\* What the node at the head leaves behind: a statement what it binds.
Leaves(e, s, v) ==
    /\ v[2] = s[2]
    /\ agenda[1].op = "stmt" =>
          \A x \in Names :
             v[1][x] = IF BoundAfter(e, x)' # Undefined THEN BoundAfter(e, x)' ELSE s[1][x]
    /\ agenda[1].op # "stmt" => v = s

\* The node at the head is read: an item keeps its name, and what binds names for
\* those after it is a statement.
Reads(e, k) ==
    /\ agenda[1].e = e /\ Looking(agenda[1]) /\ Grew(e, k)
    /\ agenda[1].op = "item" => NamedAlike(ast[e], ast'[e])
    /\ agenda[1].op = "expr" => ast'[e].k \notin {"let", "declare", "fn"}

Kept(L) ==
    /\ \A q \in L : ast[q].k = "unread"
    /\ \A j \in 2..Len(agenda) :
          Looking(agenda[j]) /\ agenda[j].e \in L => agenda[j - 1].op = "stmt"
    /\ \A q \in 2..Len(ast) : q \notin L => \A x \in Names : Meaning'[q][x] = Meaning[q][x]

LEMMA MeaningsKept ==
    ASSUME TreeOK, NEW s, NEW u, Runs(ast, Meaning, agenda, s, u), 1 \in 1..Len(agenda),
           NEW e, NEW k \in Nat, Reads(e, k)
    PROVE  \E L : e \notin L /\ Kept(L)
<1>1. FrameOK(ast, agenda[1]) BY DEF Runs
<1>2. /\ e \in 2..Len(ast) /\ ast[e].k = "unread" /\ ast[e].kids = <<>>
      /\ agenda[1].op = "item" <=> \E i \in 1..Len(ast[Root].kids) : ast[Root].kids[i] = e
  BY <1>1 DEF FrameOK, Reads, Looking
<1>3. Grew(e, k) /\ agenda[1].op \in {"expr", "stmt", "item"} BY DEF Reads, Looking
<1>4. \A x \in Names : ModuleItem(x)' = ModuleItem(x)
  BY <1>2, <1>3, ItemsKept DEF Reads
<1>5. CASE agenda[1].op = "stmt"
  <2>1. PICK L : StillAhead(L, e)
    <3>1. e = agenda[1].e BY DEF Reads
    <3> QED BY <1>5, <3>1, LaterOnes
  <2>2. /\ \A q \in L : ast[q].kids = <<>>
        /\ \A p \in 2..Len(ast) : \A i, j \in 1..Len(ast[p].kids) :
              i < j /\ ast[p].kids[i] = e =>
                 ast[p].kids[j] \in L \/ \A x \in Names : BoundAfter(e, x)' = Undefined
    BY <2>1 DEF StillAhead
  <2>3. \A q \in 2..Len(ast) : q \notin L => \A x \in Names : Meaning'[q][x] = Meaning[q][x]
    BY <2>2, <1>2, <1>3, <1>4, GrewMeans
  <2> QED BY <2>1, <2>3 DEF StillAhead, Kept
<1>6. CASE agenda[1].op # "stmt"
  <2>1. PICK L : L = {} OBVIOUS
  <2>2. ASSUME NEW p \in 2..Len(ast), NEW i \in 1..Len(ast[p].kids),
               NEW j \in 1..Len(ast[p].kids), i < j, ast[p].kids[i] = e
        PROVE  \A x \in Names : BoundAfter(e, x)' = Undefined
    <3>1. CASE agenda[1].op = "expr"
      <4>1. \A x \in Names : AfterIn(ast'[e], e, x) = Undefined
        BY <3>1, BindsNothing DEF Reads
      <4> QED BY <4>1, BoundIn
    <3>2. CASE agenda[1].op = "item"
      <4>1. PICK h \in 1..Len(ast[Root].kids) : ast[Root].kids[h] = e BY <3>2, <1>2
      <4>2. Root \in 1..Len(ast) /\ p \in 1..Len(ast) /\ p # Root
        BY ParentsFound DEF ParentsOK, TreeOK, Root
      <4>3. ast[Root].kids[h] = ast[p].kids[i] BY <4>1, <2>2
      <4>4. Root = p BY <4>2, <4>3 DEF TreeOK
      <4> QED BY <4>2, <4>4
    <3> QED BY <3>1, <3>2, <1>3, <1>6
  <2>3. /\ \A q \in L : ast[q].kids = <<>>
        /\ \A p \in 2..Len(ast) : \A i, j \in 1..Len(ast[p].kids) :
              i < j /\ ast[p].kids[i] = e =>
                 ast[p].kids[j] \in L \/ \A x \in Names : BoundAfter(e, x)' = Undefined
    BY <2>1, <2>2
  <2>4. \A q \in 2..Len(ast) : q \notin L => \A x \in Names : Meaning'[q][x] = Meaning[q][x]
    BY <2>3, <1>2, <1>3, <1>4, GrewMeans
  <2>5. \A q : q \notin L BY <2>1
  <2>6. Kept(L) BY <2>4, <2>5 DEF Kept
  <2> QED BY <2>5, <2>6
<1> QED BY <1>5, <1>6

\* The other frames lead on as before from there.
LEMMA RestRuns ==
    ASSUME TreeOK, NEW s, NEW u, Runs(ast, Meaning, agenda, s, u), 1 \in 1..Len(agenda),
           NEW e, NEW k \in Nat, Reads(e, k), NEW v, Leaves(e, s, v)
    PROVE  /\ Runs(ast', Meaning', Tail(agenda), v, u)
           /\ \A i \in 1..Len(Tail(agenda)) : Tail(agenda)[i].e \in 0..Len(ast)
           /\ \A q \in 2..Len(ast) : q = e \/ ast[q].k # "unread" =>
                 \A x \in Names : Meaning'[q][x] = Meaning[q][x]
<1>1. PICK L : e \notin L /\ Kept(L) BY MeaningsKept
<1>2. PICK n \in Nat \ {0} : n = Len(agenda) BY LenProperties DEF Runs, IsSequence
<1>3. PICK m \in Nat : m = Len(ast) BY ParentsFound DEF ParentsOK
<1>4. PICK B : B = Tail(agenda) OBVIOUS
<1>5. IsSequence(B) /\ Len(B) = n - 1 /\ \A i \in 1..(n - 1) : B[i] = agenda[i + 1]
  <2>1. PICK S : agenda \in Seq(S) BY DEF Runs, IsSequence
  <2>2. agenda # <<>> BY <1>2, NoKids
  <2>3. B \in Seq(S) /\ Len(B) = n - 1 /\ \A i \in 1..(n - 1) : B[i] = agenda[i + 1]
    BY <2>1, <2>2, <1>2, <1>4, HeadTailProperties
  <2> QED BY <2>3 DEF IsSequence
<1>6. PICK W : W[1] = s /\ W[n + 1] = u /\ Flows(ast, Meaning, agenda, W)
  BY <1>2 DEF Runs
<1>7. /\ \A i \in 1..n : FrameOK(ast, agenda[i])
      /\ \A i, j \in 1..n : i < j /\ Looking(agenda[i]) => agenda[j].e # agenda[i].e
      /\ \A i \in 1..n : agenda[i].op = "stmt" => Continues(ast, agenda, i)
  BY <1>2 DEF Runs
<1>8. /\ e \in 2..m /\ Looking(agenda[1]) /\ agenda[1].e = e
      /\ \A j \in 1..m : j # e => ast'[j] = ast[j]
      /\ Len(ast') = m + k /\ ast[e].kids = <<>>
  <2>1. FrameOK(ast, agenda[1]) BY <1>2, <1>7
  <2> QED BY <2>1, <1>3 DEF Reads, Grew, FrameOK, Looking
<1>9. ast'[Root] = ast[Root] BY <1>8 DEF Root
<1>10. ASSUME NEW i \in 1..(n - 1)
       PROVE  /\ i + 1 \in 1..n /\ i + 1 \in 2..n /\ B[i] = agenda[i + 1]
              /\ B[i].e # e /\ B[i].e \in 0..m /\ FrameOK(ast', B[i])
              /\ B[i].e \in 1..m => ast'[B[i].e] = ast[B[i].e]
  <2>1. i + 1 \in 1..n /\ i + 1 \in 2..n /\ B[i] = agenda[i + 1] /\ 1 < i + 1 /\ 1 \in 1..n
    BY <1>2, <1>5
  <2>2. B[i].e # e BY <2>1, <1>7, <1>8
  <2>3. FrameOK(ast, B[i]) BY <2>1, <1>7
  <2>4. B[i].e \in 0..m BY <2>3, <1>3 DEF FrameOK
  <2>5. B[i].e \in 1..m => ast'[B[i].e] = ast[B[i].e] BY <2>2, <1>8
  <2>6. FrameOK(ast', B[i])
    <3>1. CASE B[i].op \in {"enter", "exit"} /\ B[i].e = 0 BY <3>1 DEF FrameOK
    <3>2. CASE B[i].op = "define" /\ B[i].e \in 2..m /\ B[i].i \in 1..Len(ast[B[i].e].binds)
      <4>1. B[i].e \in 2..(m + k) /\ ast'[B[i].e] = ast[B[i].e] BY <3>2, <2>5
      <4> QED BY <4>1, <3>2, <1>8 DEF FrameOK
    <3>3. CASE /\ Looking(B[i]) /\ B[i].e \in 2..m
               /\ ast[B[i].e].k = "unread" /\ ast[B[i].e].kids = <<>>
               /\ B[i].op = "item" <=> \E h \in 1..Len(ast[Root].kids) : ast[Root].kids[h] = B[i].e
      <4>1. B[i].e \in 2..(m + k) /\ ast'[B[i].e] = ast[B[i].e] BY <3>3, <2>5
      <4> QED BY <4>1, <3>3, <1>8, <1>9 DEF FrameOK
    <3> QED BY <3>1, <3>2, <3>3, <2>3, <1>3 DEF FrameOK
  <2> QED BY <2>1, <2>2, <2>4, <2>5, <2>6
<1>11. ASSUME NEW i \in 1..(n - 1), B[i].op = "stmt" PROVE Continues(ast', B, i)
  <2>1. Continues(ast, agenda, i + 1) BY <1>7, <1>10, <1>11
  <2>2. PICK p \in 2..m : \E h \in 1..Len(ast[p].kids) : Followed(ast, agenda, i + 1, p, h)
    BY <2>1, <1>3 DEF Continues
  <2>3. PICK h \in 1..Len(ast[p].kids) : Followed(ast, agenda, i + 1, p, h) BY <2>2
  <2>4. p # e BY <2>3, <1>8, NoKids
  <2>5. ast'[p] = ast[p] /\ p \in 2..(m + k) BY <2>4, <1>8
  <2>6. PICK d : d = Len(ast[p].kids) - h OBVIOUS
  <2>7. d \in Nat
    <3>1. p \in 1..Len(ast) BY <1>3
    <3>2. Len(ast[p].kids) \in Nat BY <3>1, ParentsFound DEF ParentsOK
    <3> QED BY <3>2, <2>6
  <2>8. /\ ast[p].k \in Bodies /\ ast[p].kids[h] = agenda[i + 1].e
        /\ (i + 1) + d + 1 <= n
        /\ \A j \in 1..d : agenda[(i + 1) + j].op = "stmt" /\ agenda[(i + 1) + j].e = ast[p].kids[h + j]
        /\ agenda[(i + 1) + d + 1].op = "exit"
    BY <2>3, <2>6, <1>2 DEF Followed
  <2>9. i + d + 1 <= n - 1 /\ B[i + d + 1] = agenda[(i + 1) + d + 1]
    <3>1. i + d + 1 \in 1..(n - 1) /\ (i + d + 1) + 1 = (i + 1) + d + 1 BY <2>7, <2>8
    <3> QED BY <3>1, <1>10
  <2>10. ASSUME NEW j \in 1..d PROVE B[i + j].op = "stmt" /\ B[i + j].e = ast[p].kids[h + j]
    <3>1. i + j \in 1..(n - 1) /\ (i + j) + 1 = (i + 1) + j BY <2>7, <2>8
    <3>2. B[i + j] = agenda[(i + 1) + j] BY <3>1, <1>10
    <3>3. /\ agenda[(i + 1) + j].op = "stmt"
          /\ agenda[(i + 1) + j].e = ast[p].kids[h + j]
      BY <2>8
    <3> QED BY <3>2, <3>3
  <2>11. Followed(ast', B, i, p, h)
    <3>1. B[i] = agenda[i + 1] BY <1>10
    <3>2. ast'[p].kids[h] = B[i].e /\ B[i + d + 1].op = "exit" BY <3>1, <2>5, <2>8, <2>9
    <3>3. ast'[p].k \in Bodies /\ d = Len(ast'[p].kids) - h BY <2>5, <2>6, <2>8
    <3>4. \A j \in 1..d : B[i + j].op = "stmt" /\ B[i + j].e = ast'[p].kids[h + j]
      BY <2>5, <2>10
    <3>5. i + d + 1 <= Len(B) BY <2>9, <1>5
    <3> QED BY <3>2, <3>3, <3>4, <3>5 DEF Followed
  <2> QED BY <2>3, <2>5, <2>11, <1>8 DEF Continues
<1>12. PICK X : X = [i \in 1..n |-> IF i = 1 THEN v ELSE W[i + 1]] OBVIOUS
<1>13. X[1] = v /\ \A i \in 2..n : X[i] = W[i + 1] BY <1>2, <1>12
<1>14. X[n] = u
  <2>1. CASE n = 1
    <3>1. agenda[1].op # "stmt"
      <4>1. ASSUME agenda[1].op = "stmt" PROVE FALSE
        <5>1. Continues(ast, agenda, 1) BY <4>1, <1>2, <1>7
        <5>2. PICK p \in 2..m : \E h \in 1..Len(ast[p].kids) : Followed(ast, agenda, 1, p, h)
          BY <5>1, <1>3 DEF Continues
        <5>3. PICK h \in 1..Len(ast[p].kids) : Followed(ast, agenda, 1, p, h) BY <5>2
        <5>4. p \in 1..Len(ast) BY <1>3
        <5>5. Len(ast[p].kids) \in Nat BY <5>4, ParentsFound DEF ParentsOK
        <5>6. 1 + (Len(ast[p].kids) - h) + 1 <= n BY <5>3, <1>2 DEF Followed
        <5> QED BY <5>3, <5>5, <5>6, <2>1
      <4> QED BY <4>1
    <3>2. v = s BY <3>1 DEF Leaves
    <3>3. Step(ast, agenda[1], W[1], W[1 + 1]) BY <1>2, <1>6 DEF Flows
    <3>4. W[1 + 1] = W[1] BY <3>1, <3>3, <1>8 DEF Step, Looking
    <3> QED BY <3>2, <3>4, <2>1, <1>6, <1>13
  <2>2. CASE n # 1
    <3>1. n \in 2..n BY <2>2
    <3> QED BY <3>1, <1>6, <1>13
  <2> QED BY <2>1, <2>2
<1>15. \A q \in 2..m : q \notin L => \A x \in Names : Meaning'[q][x] = Meaning[q][x]
  BY <1>1, <1>3 DEF Kept
<1>16. ASSUME agenda[1].op = "stmt"
       PROVE  /\ n >= 2 /\ B[1].op \in {"stmt", "exit"}
              /\ B[1].op = "stmt" => Sees(Meaning', v, B[1].e)
  <2>1. Continues(ast, agenda, 1) BY <1>2, <1>7, <1>16
  <2>2. PICK p \in 2..m : \E h \in 1..Len(ast[p].kids) : Followed(ast, agenda, 1, p, h)
    BY <2>1, <1>3 DEF Continues
  <2>3. PICK h \in 1..Len(ast[p].kids) : Followed(ast, agenda, 1, p, h) BY <2>2
  <2>4. p # e BY <2>3, <1>8, NoKids
  <2>5. ast'[p] = ast[p] /\ p \in 2..(m + k) /\ p \in 1..Len(ast) BY <2>4, <1>3, <1>8
  <2>6. PICK l \in Nat : l = Len(ast[p].kids) BY <2>5, ParentsFound DEF ParentsOK
  <2>7. PICK d \in Nat : d = l - h BY <2>6
  <2>8. /\ ast[p].k \in Bodies /\ ast[p].kids[h] = agenda[1].e /\ 1 + d + 1 <= n
        /\ \A j \in 1..d : agenda[1 + j].op = "stmt" /\ agenda[1 + j].e = ast[p].kids[h + j]
        /\ agenda[1 + d + 1].op = "exit"
    BY <2>3, <2>6, <2>7, <1>2 DEF Followed
  <2>9. n >= 2 /\ 1 \in 1..(n - 1) /\ B[1] = agenda[1 + 1]
    <3>1. n >= 2 /\ 1 \in 1..(n - 1) BY <2>8
    <3> QED BY <3>1, <1>5
  <2>10. CASE d = 0
    <3>1. 1 + d + 1 = 1 + 1 BY <2>10
    <3>2. B[1].op = "exit" BY <3>1, <2>8, <2>9
    <3> QED BY <3>2, <2>9
  <2>11. CASE d # 0
    <3>1. 1 \in 1..d /\ h + 1 \in 1..l BY <2>6, <2>7, <2>11
    <3>2. B[1].op = "stmt" /\ B[1].e = ast[p].kids[h + 1] BY <3>1, <2>8, <2>9
    <3>3. ASSUME NEW x \in Names PROVE v[1][x] = Meaning'[B[1].e][x]
      <4>1. SiblingsOK'
        <5>1. TreeOK' BY <1>2, <1>3, <1>7, <1>8, GrewTree DEF Reads
        <5> QED BY <5>1, SiblingsNext
      <4>2. /\ p \in 2..Len(ast') /\ h \in 1..Len(ast'[p].kids)
            /\ ast'[p].k \in Bodies /\ h + 1 \in 1..Len(ast'[p].kids)
            /\ ast'[p].kids[h] = e /\ ast'[p].kids[h + 1] = B[1].e
        BY <2>5, <2>6, <2>8, <3>1, <3>2, <1>8
      <4>3. Meaning'[ast'[p].kids[h + 1]][x] =
               IF BoundAfter(ast[p].kids[h], x)' # Undefined
               THEN BoundAfter(ast[p].kids[h], x)'
               ELSE Meaning'[ast'[p].kids[h]][x]
        BY <4>1, <4>2 DEF SiblingsOK
      <4>4. Meaning'[B[1].e][x] =
               IF BoundAfter(e, x)' # Undefined THEN BoundAfter(e, x)' ELSE Meaning'[e][x]
        BY <4>2, <4>3
      <4>5. Meaning'[e][x] = Meaning[e][x] BY <1>1, <1>8, <1>15
      <4>6. Sees(Meaning, W[1], agenda[1].e) BY <1>2, <1>6, <1>8 DEF Flows
      <4>7. s[1][x] = Meaning[e][x] BY <4>6, <1>6, <1>8 DEF Sees
      <4> QED BY <4>4, <4>5, <4>7, <1>16 DEF Leaves
    <3>4. Sees(Meaning', v, B[1].e) BY <3>3 DEF Sees
    <3> QED BY <3>2, <3>4, <2>9
  <2> QED BY <2>10, <2>11
<1>17. ASSUME agenda[1].op # "stmt" PROVE v = W[1 + 1]
  <2>1. Step(ast, agenda[1], W[1], W[1 + 1]) BY <1>2, <1>6 DEF Flows
  <2>2. W[1 + 1] = W[1] BY <2>1, <1>8, <1>17 DEF Step, Looking
  <2> QED BY <2>2, <1>6, <1>17 DEF Leaves
<1>18. ASSUME NEW i \in 1..(n - 1), Looking(B[i]), i = 1 \/ B[i - 1].op # "stmt"
       PROVE  Sees(Meaning', X[i], B[i].e)
  <2>1. CASE agenda[i].op # "stmt"
    <3>1. X[i] = W[i + 1]
      <4>1. CASE i = 1 BY <4>1, <2>1, <1>13, <1>17
      <4>2. CASE i # 1
        <5>1. i \in 2..n BY <4>2
        <5> QED BY <5>1, <1>13
      <4> QED BY <4>1, <4>2
    <3>2. i + 1 \in 1..n /\ i + 1 \in 2..Len(agenda) /\ (i + 1) - 1 = i /\ i + 1 # 1
      BY <1>2
    <3>3. B[i] = agenda[i + 1] BY <1>10
    <3>4. agenda[(i + 1) - 1].op # "stmt" BY <2>1, <3>2
    <3>5. Sees(Meaning, W[i + 1], B[i].e)
      BY <3>2, <3>3, <3>4, <1>2, <1>6, <1>18 DEF Flows
    <3>6. B[i].e \notin L BY <3>2, <3>3, <3>4, <1>1, <1>18 DEF Kept
    <3>7. B[i].e \in 2..m BY <3>2, <3>3, <1>3, <1>7, <1>18 DEF FrameOK, Looking
    <3> QED BY <3>1, <3>5, <3>6, <3>7, <1>15 DEF Sees
  <2>2. CASE agenda[i].op = "stmt"
    <3>1. i = 1
      <4>1. ASSUME i # 1 PROVE FALSE
        <5>1. i - 1 \in 1..(n - 1) /\ (i - 1) + 1 = i BY <4>1
        <5>2. B[i - 1] = agenda[i] BY <5>1, <1>10
        <5> QED BY <4>1, <5>2, <2>2, <1>18
      <4> QED BY <4>1
    <3>2. B[1].op = "stmt" BY <3>1, <2>2, <1>16, <1>18 DEF Looking
    <3> QED BY <3>1, <3>2, <2>2, <1>13, <1>16
  <2> QED BY <2>1, <2>2
<1>19. ASSUME NEW i \in 1..(n - 1) PROVE Step(ast', B[i], X[i], X[i + 1])
  <2>1. i + 1 \in 2..n /\ i + 1 \in 1..n /\ B[i] = agenda[i + 1] BY <1>10
  <2>2. X[i + 1] = W[(i + 1) + 1] BY <2>1, <1>13
  <2>3. Step(ast, B[i], W[i + 1], X[i + 1]) BY <2>1, <2>2, <1>2, <1>6 DEF Flows
  <2>4. B[i].op = "define" => ast'[B[i].e] = ast[B[i].e]
    <3>1. FrameOK(ast, B[i]) BY <2>1, <1>7
    <3>2. B[i].op = "define" => B[i].e \in 1..m BY <3>1, <1>3 DEF FrameOK, Looking
    <3> QED BY <3>2, <1>10
  <2>5. Step(ast', B[i], W[i + 1], X[i + 1]) BY <2>3, <2>4 DEF Step
  <2>6. CASE X[i] = W[i + 1] BY <2>5, <2>6
  <2>7. CASE X[i] # W[i + 1]
    <3>1. i = 1
      <4>1. ASSUME i # 1 PROVE FALSE
        <5>1. i \in 2..n BY <4>1
        <5> QED BY <5>1, <2>7, <1>13
      <4> QED BY <4>1
    <3>2. agenda[1].op = "stmt" BY <3>1, <2>7, <1>13, <1>17
    <3>3. B[i].op \in {"stmt", "exit"} BY <3>1, <3>2, <1>16
    <3>4. Step(ast, agenda[1], W[1], W[1 + 1]) BY <1>2, <1>6 DEF Flows
    <3>5. W[1 + 1][2] = s[2] BY <3>2, <3>4, <1>6 DEF Step
    <3>6. X[i][2] = W[i + 1][2] BY <3>1, <3>5, <1>13 DEF Leaves
    <3>7. CASE B[i].op = "stmt" BY <3>6, <3>7, <2>5 DEF Step
    <3>8. CASE B[i].op = "exit" BY <3>6, <3>8, <2>5 DEF Step
    <3> QED BY <3>3, <3>7, <3>8
  <2> QED BY <2>6, <2>7
<1>20. Flows(ast', Meaning', B, X) BY <1>5, <1>18, <1>19 DEF Flows
<1>21. ASSUME NEW i \in 1..(n - 1), NEW j \in 1..(n - 1), i < j, Looking(B[i])
       PROVE  B[j].e # B[i].e
  <2>1. i + 1 < j + 1 /\ i + 1 \in 1..n /\ j + 1 \in 1..n BY <1>2, <1>21
  <2>2. B[i] = agenda[i + 1] /\ B[j] = agenda[j + 1] BY <1>10
  <2>3. Looking(agenda[i + 1]) BY <2>2, <1>21
  <2>4. agenda[j + 1].e # agenda[i + 1].e BY <2>1, <2>3, <1>7
  <2> QED BY <2>2, <2>4
<1>22. Runs(ast', Meaning', B, v, u)
  <2>1. X[1] = v /\ X[Len(B) + 1] = u BY <1>2, <1>5, <1>13, <1>14
  <2>2. \A i \in 1..Len(B) :
          /\ FrameOK(ast', B[i])
          /\ \A j \in 1..Len(B) : i < j /\ Looking(B[i]) => B[j].e # B[i].e
          /\ B[i].op = "stmt" => Continues(ast', B, i)
    BY <1>5, <1>10, <1>11, <1>21
  <2> QED BY <2>1, <2>2, <1>5, <1>20 DEF Runs
<1>23. \A q \in 2..m : q = e \/ ast[q].k # "unread" => q \notin L BY <1>1 DEF Kept
<1> QED BY <1>3, <1>4, <1>5, <1>10, <1>15, <1>22, <1>23
-----------------------------------------------------------------------------
(* The invariant                                                           *)

\* What a name means with the outer d of the open scopes.
SeenAt(d, x) ==
    LET holders == {i \in 1..d : x \in DOMAIN scopes[active[i]].bindings}
    IN IF holders = {} THEN Undefined
       ELSE symbols[scopes[active[Max(holders)]].bindings[x]]

\* K is the open scopes as a stack, and those stacks that are around it.
Stack(K) ==
    \A d \in 1..Len(active) :
        K[d][2] = K[d - 1] /\ \A x \in Names : K[d][1][x] = SeenAt(d, x)

\* The rest of the walk, run from the open scopes, sees what the tree says.
FlowOK == \E K, t : Stack(K) /\ Runs(ast, Meaning, agenda, K[Len(active)], t)

\* What is recorded at the place of a node is about a name that stands there, and
\* what is declared of an item that is not read is a name.
LeavesOK ==
    \A e \in 1..Len(ast) :
        /\ <<e, 0>> \in DOMAIN resolutions => ast[e].k \in {"use", "type"}
        /\ <<e, 0>> \in errors => ast[e].k = "use"
        /\ ast[e].k \in {"use", "type"} => ast[e].name \in Names
        /\ ast[e].k = "unread" =>
              \A i \in 1..Len(ast[e].binds) : "name" \in DOMAIN ast[e].binds[i]

\* The names that were looked up so far were found as they should.
SettledAt(e) ==
    ast[e].k \in {"use", "type"} /\ ast[Parent(e)].k # "jump" =>
        LET means == Meaning[e][ast[e].name]
        IN /\ <<e, 0>> \in DOMAIN resolutions <=> means # Undefined
           /\ means # Undefined => symbols[resolutions[<<e, 0>>]] = means
           /\ <<e, 0>> \in errors <=> ast[e].k = "use" /\ means = Undefined
Settled == \A e \in 2..Len(ast) : SettledAt(e)

\* Every symbol has a place.
PlacesOK == \A id \in 1..Len(symbols) : symbols[id] # Undefined

LexInv == ResInv /\ TreeOK /\ FlowOK /\ LeavesOK /\ PlacesOK /\ Settled

\* The frames visit nodes of V, from what e means, and leave behind what e binds.
Works(e, V, ops) ==
    \A s : Sees(Meaning', s, e) =>
        \E v : Leaves(e, s, v) /\ Makes(ast', Meaning', e, V, ops, s, v)

LEMMA AgendaHead ==
    ASSUME ResInv, agenda # <<>>
    PROVE  /\ 1 \in 1..Len(agenda) /\ Top = agenda[1] /\ E = agenda[1].e
           /\ IsSequence(agenda)
<1>1. PICK S : agenda \in Seq(S) BY DEF ResInv, WorkOK, Legal, IsSequence
<1>2. Len(agenda) \in Nat \ {0} /\ Head(agenda) = agenda[1]
  BY <1>1, LenProperties, EmptySeq, HeadTailProperties
<1>3. 1 \in 1..Len(agenda) BY <1>2
<1> QED BY <1>1, <1>2, <1>3 DEF Top, E, IsSequence

\* What was settled stays so when a node is read.
LEMMA SettledStays ==
    ASSUME TreeOK, LeavesOK, Settled, NEW e, NEW k \in Nat, e \in 2..Len(ast),
           ast[e].kids = <<>>, ast[e].k = "unread", Grew(e, k),
           NEW L, e \notin L, Kept(L),
           \A d \in 2..Len(ast) : d # e =>
              /\ <<d, 0>> \in DOMAIN resolutions' <=> <<d, 0>> \in DOMAIN resolutions
              /\ <<d, 0>> \in DOMAIN resolutions =>
                    resolutions'[<<d, 0>>] = resolutions[<<d, 0>>]
              /\ <<d, 0>> \in errors' <=> <<d, 0>> \in errors,
           UNCHANGED symbols,
           NEW d \in 2..Len(ast), d # e
    PROVE  SettledAt(d)'
<1>1. ParentsOK BY ParentsFound
<1>2. PICK n \in Nat : n = Len(ast) BY <1>1 DEF ParentsOK
<1>3. ast'[d] = ast[d] BY <1>2 DEF Grew
<1>4. CASE ast[d].k \in {"use", "type"} /\ ast[Parent(d)].k # "jump"
  <2>1. d \notin L BY <1>4 DEF Kept
  <2>2. PICK x \in Names : x = ast[d].name
    <3>1. d \in 1..Len(ast) BY <1>2
    <3> QED BY <3>1, <1>4 DEF LeavesOK
  <2>3. Meaning'[d][x] = Meaning[d][x] BY <2>1 DEF Kept
  <2>4. PICK means : means = Meaning[d][x] OBVIOUS
  <2>5. /\ <<d, 0>> \in DOMAIN resolutions <=> means # Undefined
        /\ means # Undefined => symbols[resolutions[<<d, 0>>]] = means
        /\ <<d, 0>> \in errors <=> ast[d].k = "use" /\ means = Undefined
    BY <1>4, <2>2, <2>4 DEF Settled, SettledAt
  <2>6. /\ <<d, 0>> \in DOMAIN resolutions' <=> means # Undefined
        /\ means # Undefined => symbols'[resolutions'[<<d, 0>>]] = means
        /\ <<d, 0>> \in errors' <=> ast'[d].k = "use" /\ means = Undefined
    BY <2>5, <1>3
  <2> QED BY <2>2, <2>3, <2>4, <2>6, <1>3 DEF SettledAt
<1>5. CASE ~(ast[d].k \in {"use", "type"} /\ ast[Parent(d)].k # "jump")
  <2>1. Parent(d)' = Parent(d) BY GrewParent
  <2>2. PICK p : p = Parent(d) OBVIOUS
  <2>3. /\ p \in 1..(d - 1) /\ Place(d) \in 1..Len(ast[p].kids)
    BY <1>1, <2>2 DEF ParentsOK
  <2>4. p # e BY <2>3, NoKids
  <2>5. p \in 1..n BY <2>3, <1>2
  <2>6. ast'[p] = ast[p] BY <2>4, <2>5, <1>2 DEF Grew
  <2>7. ~(ast'[d].k \in {"use", "type"} /\ ast'[Parent(d)'].k # "jump")
    BY <2>1, <2>2, <2>6, <1>3, <1>5
  <2> QED BY <2>7 DEF SettledAt
<1> QED BY <1>4, <1>5

LEMMA FlowStep ==
    ASSUME ResInv, TreeOK, agenda # <<>>, NEW K, NEW u, Stack(K)', 
           Runs(ast, Meaning, agenda, K[Len(active')], u),
           NEW e, NEW k \in Nat, Reads(e, k),
           NEW V, V \subseteq (Len(ast) + 1)..(Len(ast) + k),
           NEW ops, Do(ops), Works(e, V, ops)
    PROVE  FlowOK'
<1>1. 1 \in 1..Len(agenda) /\ IsSequence(agenda) BY AgendaHead
<1>2. PICK n \in Nat : n = Len(ast) BY ParentsFound DEF ParentsOK
<1>3. PICK s : s = K[Len(active')] OBVIOUS
<1>4. Runs(ast, Meaning, agenda, s, u) BY <1>3
<1>5. PICK L : e \notin L /\ Kept(L) BY <1>1, <1>4, MeaningsKept
<1>6. FrameOK(ast, agenda[1]) BY <1>1, <1>4 DEF Runs
<1>7. /\ e \in 2..n /\ ast[e].kids = <<>> /\ Grew(e, k)
      /\ Looking(agenda[1]) /\ agenda[1].e = e
  BY <1>2, <1>6 DEF Reads, FrameOK, Looking
<1>8. Sees(Meaning', s, e)
  <2>1. PICK W : W[1] = s /\ Flows(ast, Meaning, agenda, W) BY <1>4 DEF Runs
  <2>2. Sees(Meaning, W[1], agenda[1].e) BY <2>1, <1>1, <1>7 DEF Flows
  <2>3. \A x \in Names : Meaning'[e][x] = Meaning[e][x] BY <1>2, <1>5, <1>7 DEF Kept
  <2> QED BY <2>1, <2>2, <2>3, <1>7 DEF Sees
<1>9. PICK v : Leaves(e, s, v) /\ Makes(ast', Meaning', e, V, ops, s, v)
  BY <1>8 DEF Works
<1>10. /\ Runs(ast', Meaning', Tail(agenda), v, u)
       /\ \A i \in 1..Len(Tail(agenda)) : Tail(agenda)[i].e \in 0..n
  BY <1>1, <1>2, <1>4, <1>9, RestRuns
<1>11. TreeOK' BY <1>2, <1>7, GrewTree
<1>12. \A p \in 1..Len(ast') : Len(ast'[p].kids) \in Nat BY <1>11, TreeNext DEF ParentsOK
<1>13. Distinct(ops, Tail(agenda))
  <2>1. \A i \in 1..Len(ops) : Looking(ops[i]) => ops[i].e \in (n + 1)..(n + k)
    BY <1>2, <1>9 DEF Makes
  <2>2. \A a \in (n + 1)..(n + k), b \in 0..n : b # a OBVIOUS
  <2> QED BY <2>1, <2>2, <1>10 DEF Distinct
<1>14. Runs(ast', Meaning', ops, s, v) BY <1>9 DEF Makes
<1>15. Runs(ast', Meaning', ops \o Tail(agenda), s, u)
  BY <1>10, <1>12, <1>13, <1>14, RunsConcat
<1>16. agenda' = ops \o Tail(agenda) BY DEF Do
<1>17. Runs(ast', Meaning', agenda', K[Len(active')], u) BY <1>3, <1>15, <1>16
<1> QED BY <1>17 DEF FlowOK

\* A node is read, and the walk goes on with what it is made of.
LEMMA ReadLex ==
    ASSUME LexInv, ResInv', agenda # <<>>, UNCHANGED env,
           NEW e, NEW k \in Nat, Reads(e, k), ast'[e].k \notin {"use", "type", "unread"},
           \A j \in (Len(ast) + 1)..(Len(ast) + k) :
              ast'[j].k = "use" => ast'[e].k = "jump" /\ ast'[j].name \in Names,
           NEW V, V \subseteq (Len(ast) + 1)..(Len(ast) + k),
           NEW ops, Do(ops), Works(e, V, ops)
    PROVE  LexInv'
<1>1. ResInv /\ TreeOK /\ FlowOK /\ LeavesOK /\ Settled BY DEF LexInv
<1>2. PICK K, u : Stack(K) /\ Runs(ast, Meaning, agenda, K[Len(active)], u)
  BY <1>1 DEF FlowOK
<1>3. /\ scopes' = scopes /\ active' = active /\ symbols' = symbols
      /\ resolutions' = resolutions /\ errors' = errors
  BY DEF env
<1>4. Stack(K)'
  <2>1. \A d, x : SeenAt(d, x)' = SeenAt(d, x) BY <1>3 DEF SeenAt
  <2> QED BY <2>1, <1>2, <1>3 DEF Stack
<1>5. Runs(ast, Meaning, agenda, K[Len(active')], u) BY <1>2, <1>3
<1>6. FlowOK' BY <1>1, <1>4, <1>5, FlowStep
<1>7. 1 \in 1..Len(agenda) BY <1>1, AgendaHead
<1>8. PICK n \in Nat : n = Len(ast) BY <1>1, ParentsFound DEF ParentsOK
<1>9. FrameOK(ast, agenda[1]) BY <1>2, <1>7 DEF Runs
<1>10. /\ e \in 2..n /\ ast[e].kids = <<>> /\ ast[e].k = "unread" /\ Grew(e, k)
  BY <1>8, <1>9 DEF Reads, FrameOK, Looking
<1>11. TreeOK' BY <1>1, <1>8, <1>10, GrewTree
<1>12. PICK L : e \notin L /\ Kept(L) BY <1>1, <1>2, <1>7, MeaningsKept
<1>13. /\ Len(ast') = n + k /\ \A j \in 1..n : j # e => ast'[j] = ast[j]
       /\ \A j \in (n + 1)..(n + k) : ast'[j].k \in {"unread", "use"}
       /\ \A j \in 1..k : ast'[e].kids[j] = n + j
       /\ Len(ast'[e].kids) = k
  BY <1>8, <1>10 DEF Grew
<1>14. \A span : span \in DOMAIN resolutions \/ span \in errors => span[1] \in 1..n
  BY <1>1, <1>8, ParentsFound DEF ResInv, TypeOK, ParentsOK
<1>15. LeavesOK'
  <2>1. ASSUME NEW d \in 1..(n + k)
        PROVE  /\ <<d, 0>> \in DOMAIN resolutions => ast'[d].k \in {"use", "type"}
               /\ <<d, 0>> \in errors => ast'[d].k = "use"
               /\ ast'[d].k \in {"use", "type"} => ast'[d].name \in Names
               /\ ast'[d].k = "unread" =>
                     \A i \in 1..Len(ast'[d].binds) : "name" \in DOMAIN ast'[d].binds[i]
    <3>1. <<d, 0>>[1] = d OBVIOUS
    <3>2. CASE d \in 1..n /\ d # e BY <3>2, <1>1, <1>8, <1>13 DEF LeavesOK
    <3>3. CASE d = e
      <4>1. <<d, 0>> \notin DOMAIN resolutions /\ <<d, 0>> \notin errors
        BY <3>3, <1>1, <1>8, <1>10 DEF LeavesOK
      <4> QED BY <3>3, <4>1
    <3>4. CASE d \notin 1..n
      <4>1. <<d, 0>> \notin DOMAIN resolutions /\ <<d, 0>> \notin errors
        BY <3>1, <3>4, <1>14
      <4>2. d \in (n + 1)..(n + k) BY <3>4
      <4>3. Len(ast'[d].binds) = 0 BY <4>2, <1>8, <1>10, NoKids DEF Grew
      <4> QED BY <4>1, <4>2, <4>3, <1>8, <1>13
    <3> QED BY <3>2, <3>3, <3>4
  <2> QED BY <2>1, <1>3, <1>13 DEF LeavesOK
<1>16. ASSUME NEW d \in 2..(n + k) PROVE SettledAt(d)'
  <2>1. CASE d \in 2..n /\ d # e
    BY <2>1, <1>1, <1>3, <1>8, <1>10, <1>12, SettledStays
  <2>2. CASE d = e BY <2>2 DEF SettledAt
  <2>3. CASE d \notin 2..n
    <3>1. d \in (n + 1)..(n + k) /\ d - n \in 1..k /\ n + (d - n) = d
      BY <2>3
    <3>2. Parent(d)' = e
      <4>1. ParentsOK' BY <1>11, TreeNext
      <4>2. e \in 1..Len(ast') /\ d - n \in 1..Len(ast'[e].kids) BY <3>1, <1>10, <1>13
      <4>3. Parent(ast[e].kids[d - n])' = e BY <4>1, <4>2 DEF ParentsOK
      <4>4. ast'[e].kids[d - n] = d BY <3>1, <1>13
      <4> QED BY <4>3, <4>4
    <3>3. ast'[d].k # "use" \/ ast'[Parent(d)'].k = "jump" BY <3>1, <3>2, <1>8
    <3>4. ast'[d].k # "type" BY <3>1, <1>13
    <3> QED BY <3>3, <3>4 DEF SettledAt
  <2> QED BY <2>1, <2>2, <2>3
<1>17. Settled' BY <1>13, <1>16 DEF Settled
<1>18. PlacesOK' BY <1>3 DEF LexInv, PlacesOK
<1> QED BY <1>6, <1>11, <1>15, <1>17, <1>18 DEF LexInv
-----------------------------------------------------------------------------
(* What the visits put on the agenda, again: what their frames make        *)

\* Node e was read just now, and none of its k children is.
Born(e, k) ==
    /\ TreeOK /\ Len(ast) \in Nat /\ e \in 2..Len(ast) /\ k \in Nat
    /\ ast[e].kids = <<>> /\ Grew(e, k) /\ agenda # <<>> /\ agenda[1].e = e
    /\ \A j \in 1..k : ast'[Len(ast) + j].k = "unread"

LEMMA BornIn ==
    ASSUME LexInv, agenda # <<>>, Looking(Top), NEW k \in Nat,
           NEW node, node.kids = NewKids(k), IsSequence(node.binds),
           ast' = [ast EXCEPT ![E] = node] \o [i \in 1..k |-> Unread]
    PROVE  Born(E, k) /\ ast'[E] = node
<1>1. ResInv /\ TreeOK BY DEF LexInv
<1>2. 1 \in 1..Len(agenda) /\ Top = agenda[1] /\ E = agenda[1].e BY <1>1, AgendaHead
<1>3. PICK n \in Nat : n = Len(ast) BY <1>1, ParentsFound DEF ParentsOK
<1>4. PICK e : e = E OBVIOUS
<1>5. e \in 2..n /\ ast[e].kids = <<>>
  <2>1. FrameOK(ast, agenda[1]) BY <1>2 DEF LexInv, FlowOK, Runs
  <2> QED BY <2>1, <1>2, <1>3, <1>4 DEF FrameOK, Looking
<1>6. PICK b : b = [ast EXCEPT ![e] = node] OBVIOUS
<1>7. PICK c : c = [i \in 1..k |-> Unread] OBVIOUS
<1>8. /\ IsSequence(b) /\ Len(b) = n /\ b[e] = node
      /\ \A j \in 1..n : j # e => b[j] = ast[j]
  <2>1. PICK S : ast \in Seq(S) BY <1>1 DEF TreeOK, IsSequence
  <2>2. ast \in [1..n -> S] BY <2>1, <1>3, LenProperties
  <2>3. PICK T : T = S \cup {node} OBVIOUS
  <2>4. /\ b \in [1..n -> T] /\ b[e] = node
        /\ \A j \in 1..n : j # e => b[j] = ast[j]
    BY <2>2, <2>3, <1>5, <1>6
  <2> QED BY <2>4, OfLength
<1>9. /\ IsSequence(c) /\ Len(c) = k /\ \A j \in 1..k : c[j] = Unread
  <2>1. c \in [1..k -> {Unread}] /\ \A j \in 1..k : c[j] = Unread BY <1>7
  <2> QED BY <2>1, OfLength
<1>10. /\ IsSequence(b \o c) /\ Len(b \o c) = Len(b) + Len(c)
       /\ \A j \in 1..Len(b) : (b \o c)[j] = b[j]
       /\ \A j \in 1..Len(c) : (b \o c)[j + Len(b)] = c[j]
  <2>1. IsSequence(b) /\ IsSequence(c) BY <1>8, <1>9
  <2> QED BY <2>1, Concats
<1>11. ast' = b \o c BY <1>4, <1>6, <1>7
<1>12. /\ IsSequence(ast') /\ Len(ast') = n + k
       /\ \A j \in 1..n : ast'[j] = b[j]
       /\ \A j \in 1..k : ast'[j + n] = Unread
  BY <1>8, <1>9, <1>10, <1>11
<1>13. /\ Unread.kids = <<>> /\ Unread.binds = <<>> /\ Unread.k = "unread"
  BY DEF Unread, Node
<1>14. \A j \in (n + 1)..(n + k) : ast'[j] = Unread
  <2> SUFFICES ASSUME NEW j \in (n + 1)..(n + k) PROVE ast'[j] = Unread
    OBVIOUS
  <2>1. j - n \in 1..k /\ (j - n) + n = j OBVIOUS
  <2>2. ast'[(j - n) + n] = Unread BY <2>1, <1>12
  <2> QED BY <2>1, <2>2
<1>15. ast'[e] = node BY <1>5, <1>8, <1>12
<1>16. /\ IsSequence(node.kids) /\ Len(node.kids) = k
       /\ \A j \in 1..k : node.kids[j] = n + j
  <2>1. \A j \in 1..k : NewKids(k)[j] = n + j BY <1>3 DEF NewKids
  <2>2. Len(NewKids(k)) = k /\ NewKids(k) \in Seq(1..(n + k)) BY <1>3, Kids
  <2> QED BY <2>1, <2>2 DEF IsSequence
<1>17. Grew(e, k)
  <2>1. \A j \in (n + 1)..(n + k) :
          ast'[j].kids = <<>> /\ ast'[j].binds = <<>> /\ ast'[j].k \in {"unread", "use"}
    BY <1>13, <1>14
  <2> QED BY <2>1, <1>3, <1>8, <1>12, <1>15, <1>16 DEF Grew
<1>18. \A j \in 1..k : ast'[n + j].k = "unread"
  <2>1. \A j \in 1..k : n + j \in (n + 1)..(n + k) OBVIOUS
  <2> QED BY <2>1, <1>13, <1>14
<1>19. Born(e, k) BY <1>1, <1>2, <1>3, <1>4, <1>5, <1>17, <1>18 DEF Born
<1> QED BY <1>4, <1>15, <1>19

LEMMA BornRead ==
    ASSUME LexInv, agenda # <<>>, Looking(Top), NEW kind, NEW k \in Nat,
           NEW binds, IsSequence(binds), Read(kind, k, binds)
    PROVE  /\ Born(E, k) /\ ast'[E].k = kind /\ ast'[E].binds = binds
           /\ E = agenda[1].e /\ Top = agenda[1]
<1>1. PICK node : node = Node(kind, ast[E].name, NewKids(k), binds) OBVIOUS
<1>2. node.kids = NewKids(k) /\ node.binds = binds /\ node.k = kind BY <1>1 DEF Node
<1>3. ast' = [ast EXCEPT ![E] = node] \o [i \in 1..k |-> Unread] BY <1>1 DEF Read
<1>4. Born(E, k) /\ ast'[E] = node BY <1>2, <1>3, BornIn
<1>5. ResInv BY DEF LexInv
<1> QED BY <1>2, <1>4, <1>5, AgendaHead

\* A child is a node to visit.
LEMMA BornFrames ==
    ASSUME NEW e, NEW k, Born(e, k), NEW n, n = Len(ast), NEW i \in 1..k
    PROVE  /\ FrameOK(ast', Visit(n + i)) /\ FrameOK(ast', VisitStmt(n + i))
           /\ n \in Nat /\ n + i \in (n + 1)..(n + k)
<1>1. n \in Nat /\ k \in Nat /\ e \in 2..n /\ Grew(e, k) /\ TreeOK BY DEF Born
<1>2. n + i \in (n + 1)..(n + k) /\ n + i \in 2..(n + k) BY <1>1
<1>3. Len(ast') = n + k /\ ast'[n + i].kids = <<>> /\ ast'[n + i].k = "unread"
  BY <1>2 DEF Born, Grew
<1>4. ASSUME NEW j \in 1..Len(ast'[Root].kids) PROVE ast'[Root].kids[j] # n + i
  <2>1. Root \in 1..n /\ Root # e BY <1>1 DEF Root
  <2>2. ast'[Root] = ast[Root] BY <2>1 DEF Born, Grew
  <2>3. ast[Root].kids[j] \in (Root + 1)..n BY <2>1, <2>2, <1>1 DEF TreeOK
  <2> QED BY <2>2, <2>3, <1>1
<1>5. /\ Visit(n + i).op = "expr" /\ Visit(n + i).e = n + i
      /\ VisitStmt(n + i).op = "stmt" /\ VisitStmt(n + i).e = n + i
  BY OpFields
<1> QED BY <1>1, <1>2, <1>3, <1>4, <1>5 DEF FrameOK, Looking

\* What e binds for child i, from place f of its binders on: all of them.
Inner(e, i, f) ==
    \A x \in Names :
        ForIn(ast'[e], e, i, x, Parent(e) = Root) =
            LatestIn(ast'[e].binds, e, x, f, Len(ast'[e].binds))
Outer(e, i) == \A x \in Names : ForIn(ast'[e], e, i, x, Parent(e) = Root) = Undefined

LEMMA BornSees ==
    ASSUME NEW e, NEW k, Born(e, k), NEW n, n = Len(ast), NEW i \in 1..k,
           NEW s, Sees(Meaning', s, e), NEW w, w[1] = s[1]
    PROVE  /\ Outer(e, i) => Sees(Meaning', w, n + i)
           /\ \A f, m, t : Inner(e, i, f) /\ f - 1 + m = Len(ast'[e].binds)
                              /\ Bind(ast'[e].binds, e, f, m, w, t) => Sees(Meaning', t, n + i)
<1>1. TreeOK /\ e \in 2..Len(ast) /\ ast[e].kids = <<>> /\ k \in Nat /\ Grew(e, k)
  BY DEF Born
<1>2. ASSUME NEW x \in Names, NEW f, f = ForIn(ast'[e], e, i, x, Parent(e) = Root)
      PROVE  Meaning'[n + i][x] = IF f # Undefined THEN f ELSE Meaning'[e][x]
  BY <1>1, <1>2, GrewKids
<1>3. \A x \in Names : w[1][x] = Meaning'[e][x] BY DEF Sees
<1>4. ASSUME Outer(e, i) PROVE Sees(Meaning', w, n + i)
  <2>1. \A x \in Names : Meaning'[n + i][x] = Meaning'[e][x] BY <1>2, <1>4 DEF Outer
  <2> QED BY <2>1, <1>3 DEF Sees
<1>5. ASSUME NEW f, NEW m, NEW t, Inner(e, i, f), f - 1 + m = Len(ast'[e].binds),
             Bind(ast'[e].binds, e, f, m, w, t)
      PROVE  Sees(Meaning', t, n + i)
  <2>1. ASSUME NEW x \in Names PROVE t[1][x] = Meaning'[n + i][x]
    <3>1. PICK b : b = LatestIn(ast'[e].binds, e, x, f, Len(ast'[e].binds)) OBVIOUS
    <3>2. b = ForIn(ast'[e], e, i, x, Parent(e) = Root) BY <3>1, <1>5 DEF Inner
    <3>3. Meaning'[n + i][x] = IF b # Undefined THEN b ELSE Meaning'[e][x] BY <3>2, <1>2
    <3>4. t[1][x] = IF b # Undefined THEN b ELSE w[1][x] BY <3>1, <1>5 DEF Bind, Over
    <3> QED BY <3>3, <3>4, <1>3
  <2> QED BY <2>1 DEF Sees
<1> QED BY <1>4, <1>5

\* What the node leaves behind.
LEMMA LeavesNothing ==
    ASSUME NEW e, NEW s, ast'[e].k \notin {"let", "declare", "fn"} \/ agenda[1].op # "stmt"
    PROVE  Leaves(e, s, s)
<1>1. CASE ast'[e].k \notin {"let", "declare", "fn"}
  <2>1. \A x \in Names : AfterIn(ast'[e], e, x) = Undefined BY <1>1, BindsNothing
  <2>2. \A x \in Names : BoundAfter(e, x)' = Undefined BY <2>1, BoundIn
  <2> QED BY <2>2 DEF Leaves
<1>2. CASE agenda[1].op # "stmt" BY <1>2 DEF Leaves
<1> QED BY <1>1, <1>2

LEMMA LeavesBinds ==
    ASSUME NEW e, NEW s, NEW t, NEW m, agenda[1].op = "stmt",
           Bind(ast'[e].binds, e, 1, m, s, t), 1 - 1 + m \in Nat, m \in Nat,
           \/ ast'[e].k \in {"let", "declare"} /\ m = Len(ast'[e].binds)
           \/ ast'[e].k = "fn" /\ m = 1
    PROVE  Leaves(e, s, t)
<1>1. 1 - 1 + m = m OBVIOUS
<1>2. \A x \in Names : AfterIn(ast'[e], e, x) = LatestIn(ast'[e].binds, e, x, 1, m)
  BY DEF AfterIn
<1>3. ASSUME NEW x \in Names
      PROVE  t[1][x] = IF BoundAfter(e, x)' # Undefined THEN BoundAfter(e, x)' ELSE s[1][x]
  <2>1. BoundAfter(e, x)' = LatestIn(ast'[e].binds, e, x, 1, m) BY <1>2, BoundIn
  <2> QED BY <2>1, <1>1 DEF Bind, Over
<1> QED BY <1>3 DEF Leaves, Bind
\* Children f to k of e, in order.
From(es, n, f, k) ==
    IsSequence(es) /\ Len(es) = k + 1 - f /\ \A i \in 1..Len(es) : es[i] = n + (f - 1 + i)

LEMMA BornVisits ==
    ASSUME NEW e, NEW k, Born(e, k), NEW n, n = Len(ast), NEW f \in 1..(k + 1),
           NEW es, From(es, n, f, k), NEW s,
           \A i \in f..k : Sees(Meaning', s, n + i)
    PROVE  Makes(ast', Meaning', e, (n + f)..(n + k), VisitAll(es), s, s)
<1>1. n \in Nat /\ k \in Nat BY DEF Born
<1>2. Len(es) = k + 1 - f /\ \A i \in 1..Len(es) : es[i] = n + (f - 1 + i) BY DEF From
<1>3. ASSUME NEW i \in 1..Len(es)
      PROVE  /\ es[i] \in (n + f)..(n + k) /\ FrameOK(ast', Visit(es[i]))
             /\ Sees(Meaning', s, es[i])
  <2>1. PICK j \in f..k : j = f - 1 + i /\ n + j \in (n + f)..(n + k) /\ j \in 1..k
    <3>1. f - 1 + i \in f..k BY <1>1, <1>2
    <3>2. \A j \in f..k : n + j \in (n + f)..(n + k) /\ j \in 1..k BY <1>1
    <3> QED BY <3>1, <3>2
  <2>2. es[i] = n + j BY <1>2, <2>1
  <2> QED BY <2>1, <2>2, BornFrames
<1>4. \A i, j \in 1..Len(es) : es[i] = es[j] => i = j
  <2> SUFFICES ASSUME NEW i \in 1..Len(es), NEW j \in 1..Len(es), es[i] = es[j] PROVE i = j
    OBVIOUS
  <2>1. n + (f - 1 + i) = n + (f - 1 + j) BY <1>2
  <2>2. i \in Int /\ j \in Int BY <1>1, <1>2
  <2> QED BY <2>1, <2>2, <1>1
<1>5. PICK V : V = (n + f)..(n + k) OBVIOUS
<1>6. Makes(ast', Meaning', e, V, VisitAll(es), s, s)
  <2>1. /\ IsSequence(es)
        /\ \A i \in 1..Len(es) :
              es[i] \in V /\ FrameOK(ast', Visit(es[i])) /\ Sees(Meaning', s, es[i])
    BY <1>3, <1>5 DEF From
  <2> QED BY <2>1, <1>4, MakesVisits
<1> QED BY <1>5, <1>6

\* The statements of the body of e, of which the first one sees s.
LEMMA BornBody ==
    ASSUME NEW e, NEW k, Born(e, k), NEW n, n = Len(ast), NEW f \in 1..(k + 1),
           NEW es, From(es, n, f, k), NEW s, ast'[e].k \in Bodies,
           f \in 1..k => Sees(Meaning', s, n + f)
    PROVE  Makes(ast', Meaning', e, (n + f)..(n + k), Scoped(VisitStmts(es)), s, s)
<1>1. n \in Nat /\ k \in Nat /\ e \in 2..n /\ Grew(e, k) /\ TreeOK /\ ast[e].kids = <<>>
  BY DEF Born
<1>2. Len(es) = k + 1 - f /\ \A i \in 1..Len(es) : es[i] = n + (f - 1 + i) BY DEF From
<1>3. TreeOK' BY <1>1, GrewTree
<1>4. /\ \A p \in 1..Len(ast') : Len(ast'[p].kids) \in Nat
      /\ Len(ast') = n + k /\ Len(ast'[e].kids) = k
      /\ \A i \in 1..k : ast'[e].kids[i] = n + i
  BY <1>1, <1>3, TreeNext DEF ParentsOK, Grew
<1>5. ASSUME NEW i \in 1..Len(es)
      PROVE  /\ es[i] \in (n + f)..(n + k) /\ FrameOK(ast', VisitStmt(es[i]))
             /\ es[i] = ast'[e].kids[f - 1 + i]
  <2>1. PICK j \in f..k : j = f - 1 + i /\ n + j \in (n + f)..(n + k) /\ j \in 1..k
    <3>1. f - 1 + i \in f..k BY <1>1, <1>2
    <3>2. \A j \in f..k : n + j \in (n + f)..(n + k) /\ j \in 1..k BY <1>1
    <3> QED BY <3>1, <3>2
  <2>2. es[i] = n + j BY <1>2, <2>1
  <2>3. FrameOK(ast', VisitStmt(n + j)) BY <2>1, BornFrames
  <2>4. ast'[e].kids[j] = n + j BY <2>1, <1>4
  <2> QED BY <2>1, <2>2, <2>3, <2>4
<1>6. \A i, j \in 1..Len(es) : es[i] = es[j] => i = j
  <2> SUFFICES ASSUME NEW i \in 1..Len(es), NEW j \in 1..Len(es), es[i] = es[j] PROVE i = j
    OBVIOUS
  <2>1. n + (f - 1 + i) = n + (f - 1 + j) BY <1>2
  <2>2. i \in Int /\ j \in Int BY <1>1, <1>2
  <2> QED BY <2>1, <2>2, <1>1
<1>7. Len(es) # 0 => Sees(Meaning', s, es[1])
  <2> SUFFICES ASSUME Len(es) # 0 PROVE Sees(Meaning', s, es[1])
    OBVIOUS
  <2>1. f \in 1..k /\ 1 \in 1..Len(es) /\ f - 1 + 1 = f BY <1>1, <1>2
  <2>2. es[1] = n + f BY <2>1, <1>2
  <2> QED BY <2>1, <2>2
<1>8. PICK V : V = (n + f)..(n + k) OBVIOUS
<1>9. PICK a : a = ast' OBVIOUS
<1>10. Makes(a, Meaning', e, V, Scoped(VisitStmts(es)), s, s)
  <2>1. /\ \A p \in 1..Len(a) : Len(a[p].kids) \in Nat
        /\ Len(a) = n + k /\ Len(a[e].kids) = k /\ a[e].k \in Bodies /\ IsSequence(es)
    BY <1>4, <1>9 DEF From
  <2>3. /\ e \in 2..Len(a) /\ Len(a) \in Nat /\ f \in Nat \ {0}
        /\ Len(es) = Len(a[e].kids) + 1 - f
    BY <2>1, <1>1, <1>2
  <2>2. \A i \in 1..Len(es) :
          es[i] = a[e].kids[f - 1 + i] /\ es[i] \in V /\ FrameOK(a, VisitStmt(es[i]))
    BY <1>5, <1>8, <1>9
  <2> QED BY <2>1, <2>2, <2>3, <1>6, <1>7, MakesBody
<1> QED BY <1>8, <1>9, <1>10

\* The binders of e from place f on, m of them.
LEMMA BornBinds ==
    ASSUME NEW e, NEW k, Born(e, k), NEW f \in Nat \ {0}, NEW m \in Nat,
           Len(ast'[e].binds) \in Nat, f - 1 + m <= Len(ast'[e].binds), NEW s
    PROVE  \E t : /\ Makes(ast', Meaning', e, {}, Binds(e, f, m), s, t)
                  /\ Bind(ast'[e].binds, e, f, m, s, t)
<1>1. /\ Len(ast) \in Nat /\ k \in Nat /\ e \in 2..Len(ast) /\ Len(ast') = Len(ast) + k
  BY DEF Born, Grew
<1>2. e \in 2..Len(ast') /\ Len(ast') \in Nat BY <1>1
<1>3. \A i \in f..(f - 1 + m) : i \in 1..Len(ast'[e].binds) OBVIOUS
<1> QED BY <1>2, <1>3, MakesBinds

\* Child i of e.
LEMMA BornVisit ==
    ASSUME NEW e, NEW k, Born(e, k), NEW n, n = Len(ast), NEW i \in 1..k,
           NEW s, Sees(Meaning', s, n + i)
    PROVE  Makes(ast', Meaning', e, {n + i}, <<Visit(n + i)>>, s, s)
<1>1. FrameOK(ast', Visit(n + i)) BY BornFrames
<1> QED BY <1>1, MakesVisit

\* One after the other.
LEMMA BornThen ==
    ASSUME NEW e, NEW k, Born(e, k), NEW A, NEW B, NEW s, NEW t, NEW u, NEW V, NEW W,
           Makes(ast', Meaning', e, V, A, s, t), Makes(ast', Meaning', e, W, B, t, u),
           V \cap W = {}, V \subseteq (Len(ast) + 1)..(Len(ast) + k)
    PROVE  Makes(ast', Meaning', e, V \cup W, A \o B, s, u)
<1>1. TreeOK' BY GrewTree DEF Born
<1>2. \A p \in 1..Len(ast') : Len(ast'[p].kids) \in Nat
  BY <1>1, TreeNext DEF ParentsOK
<1>3. 0 \notin V /\ e \notin V BY DEF Born
<1> QED BY <1>2, <1>3, MakesConcat

LEMMA BornScoped ==
    ASSUME NEW e, NEW k, Born(e, k), NEW ops, NEW s, NEW t, NEW V,
           Makes(ast', Meaning', e, V, ops, <<s[1], s>>, t), t[2] = s
    PROVE  Makes(ast', Meaning', e, V, Scoped(ops), s, s)
<1>1. TreeOK' BY GrewTree DEF Born
<1>2. \A p \in 1..Len(ast') : Len(ast'[p].kids) \in Nat
  BY <1>1, TreeNext DEF ParentsOK
<1> QED BY <1>2, MakesScoped

\* A node that is not an item is read, and binds nothing for those after it
\* unless it is a statement.
LEMMA LexRead ==
    ASSUME LexInv, ResInv', UNCHANGED env, NEW kind, NEW k \in Nat, NEW binds,
           Read(kind, k, binds), Born(E, k), ast'[E].k = kind,
           \/ Reading /\ kind \notin {"use", "type", "let", "declare", "fn"}
           \/ ReadingStmt /\ kind \notin {"use", "type"},
           NEW V, V \subseteq (Len(ast) + 1)..(Len(ast) + k),
           NEW ops, Do(ops), Works(E, V, ops)
    PROVE  LexInv'
<1>1. agenda # <<>> /\ Top.op \in {"expr", "stmt"}
  BY DEF Reading, ReadingStmt, Running
<1>2. Top = agenda[1] /\ E = agenda[1].e BY <1>1, AgendaHead DEF LexInv
<1>3. Reads(E, k)
  <2>1. Top.op = "expr" => kind \notin {"let", "declare", "fn"}
    BY DEF Reading, ReadingStmt, Running
  <2> QED BY <2>1, <1>1, <1>2 DEF Reads, Looking, Born
<1>4. \A j \in (Len(ast) + 1)..(Len(ast) + k) : ast'[j].k # "use"
  <2> SUFFICES ASSUME NEW j \in (Len(ast) + 1)..(Len(ast) + k) PROVE ast'[j].k # "use"
    OBVIOUS
  <2>1. Len(ast) \in Nat BY DEF Born
  <2>2. PICK i \in 1..k : Len(ast) + i = j
    <3>1. j - Len(ast) \in 1..k /\ Len(ast) + (j - Len(ast)) = j BY <2>1
    <3> QED BY <3>1
  <2> QED BY <2>2 DEF Born
<1>5. PICK e : e = E OBVIOUS
<1>6. Reads(e, k) /\ ast'[e].k \notin {"use", "type", "unread"} /\ Works(e, V, ops)
  <2>1. kind # "unread" BY ConstantsAssumption DEF Read, Kinds
  <2> QED BY <2>1, <1>3, <1>5
<1> QED BY <1>1, <1>4, <1>6, ReadLex
-----------------------------------------------------------------------------
(* Expressions                                                             *)

LEMMA KidsFrom ==
    ASSUME Len(ast) \in Nat, NEW k \in Nat
    PROVE  /\ From(NewKids(k), Len(ast), 1, k)
           /\ \A i \in 1..k : NewKids(k)[i] = Len(ast) + i
<1>1. NewKids(k) \in Seq(1..(Len(ast) + k)) /\ Len(NewKids(k)) = k BY Kids
<1>2. \A i \in 1..k : NewKids(k)[i] = Len(ast) + i /\ i = 1 - 1 + i BY DEF NewKids
<1>3. k = k + 1 - 1 OBVIOUS
<1> QED BY <1>1, <1>2, <1>3 DEF From, IsSequence

LEMMA ReadingLooks ==
    /\ Reading => agenda # <<>> /\ Looking(Top)
    /\ ReadingStmt => agenda # <<>> /\ Looking(Top) /\ Top.op = "stmt"
    /\ Running("item") => agenda # <<>> /\ Looking(Top) /\ Top.op = "item"
BY DEF Reading, ReadingStmt, Running, Looking

LEMMA OuterOf ==
    ASSUME NEW e, NEW i,
           \/ ast'[e].k \notin {"if_let", "match", "loop", "fork", "closure", "method", "fn"}
           \/ ast'[e].k \in {"if_let", "match", "loop", "fork"} /\ i # 2
    PROVE  Outer(e, i)
BY DEF Outer, ForIn

LEMMA InnerOf ==
    ASSUME NEW e, NEW i
    PROVE  /\ ast'[e].k \in {"if_let", "match", "loop", "fork"} /\ i = 2 => Inner(e, i, 1)
           /\ ast'[e].k \in {"closure", "method"} => Inner(e, i, 1)
           /\ ast'[e].k = "fn" /\ Parent(e) = Root => Inner(e, i, 2)
           /\ ast'[e].k = "fn" /\ Parent(e) # Root => Inner(e, i, 1)
BY DEF Inner, ForIn

LEMMA DefinesAre ==
    ASSUME NEW binds, Len(binds) \in Nat
    PROVE  DefineAll(binds) = Binds(E, 1, Len(binds))
<1>1. \A i \in 1..Len(binds) : i = 1 - 1 + i OBVIOUS
<1> QED BY <1>1 DEF DefineAll, Binds, Define

\* Frames that leave the scope they start in as it was.
LEMMA WorksPlain ==
    ASSUME NEW e, NEW V, NEW ops,
           ast'[e].k \notin {"let", "declare", "fn"} \/ agenda[1].op # "stmt",
           \A s : Sees(Meaning', s, e) => Makes(ast', Meaning', e, V, ops, s, s)
    PROVE  Works(e, V, ops)
BY LeavesNothing DEF Works

LEMMA OperandsLex == LexInv /\ VisitOperands => LexInv'
<1> SUFFICES ASSUME LexInv, VisitOperands PROVE LexInv'
  OBVIOUS
<1>1. ResInv' BY OperandsStep DEF LexInv
<1>2. PICK k \in 0..MaxOperands : /\ Reading /\ Read("operands", k, <<>>)
                                  /\ Do(VisitAll(NewKids(k))) /\ UNCHANGED env
  BY DEF VisitOperands
<1>3. k \in Nat BY ConstantsAssumption
<1>4. Born(E, k) /\ ast'[E].k = "operands"
  BY <1>2, <1>3, ReadingLooks, BornRead, NoKids
<1>5. PICK e : e = E OBVIOUS
<1>6. PICK n \in Nat : n = Len(ast) BY <1>4 DEF Born
<1>7. PICK ops : ops = VisitAll(NewKids(k)) OBVIOUS
<1>8. ASSUME NEW s, Sees(Meaning', s, e)
      PROVE  Makes(ast', Meaning', e, (n + 1)..(n + k), ops, s, s)
  <2>1. \A i \in 1..k : Sees(Meaning', s, n + i)
    BY <1>4, <1>5, <1>6, <1>8, OuterOf, BornSees
  <2>2. From(NewKids(k), n, 1, k) /\ 1 \in 1..(k + 1) BY <1>3, <1>6, KidsFrom
  <2> QED BY <2>1, <2>2, <1>4, <1>5, <1>6, <1>7, BornVisits
<1>9. Works(E, (n + 1)..(n + k), ops) BY <1>4, <1>5, <1>8, WorksPlain
<1>10. Do(ops) BY <1>2, <1>7
<1> QED BY <1>1, <1>2, <1>3, <1>4, <1>6, <1>9, <1>10, LexRead

LEMMA BlockLex == LexInv /\ VisitBlock => LexInv'
<1> SUFFICES ASSUME LexInv, VisitBlock PROVE LexInv'
  OBVIOUS
<1>1. ResInv' BY BlockStep DEF LexInv
<1>2. PICK k \in 0..MaxOperands : /\ Reading /\ Read("block", k, <<>>)
                                  /\ Do(Scoped(VisitStmts(NewKids(k)))) /\ UNCHANGED env
  BY DEF VisitBlock
<1>3. k \in Nat BY ConstantsAssumption
<1>4. Born(E, k) /\ ast'[E].k = "block"
  BY <1>2, <1>3, ReadingLooks, BornRead, NoKids
<1>5. PICK e : e = E OBVIOUS
<1>6. PICK n \in Nat : n = Len(ast) BY <1>4 DEF Born
<1>7. PICK ops : ops = Scoped(VisitStmts(NewKids(k))) OBVIOUS
<1>8. ASSUME NEW s, Sees(Meaning', s, e)
      PROVE  Makes(ast', Meaning', e, (n + 1)..(n + k), ops, s, s)
  <2>1. 1 \in 1..k => Sees(Meaning', s, n + 1)
    BY <1>4, <1>5, <1>6, <1>8, OuterOf, BornSees
  <2>2. From(NewKids(k), n, 1, k) /\ 1 \in 1..(k + 1) BY <1>3, <1>6, KidsFrom
  <2>3. ast'[e].k \in Bodies BY <1>4, <1>5 DEF Bodies
  <2> QED BY <2>1, <2>2, <2>3, <1>4, <1>5, <1>6, <1>7, BornBody
<1>9. Works(E, (n + 1)..(n + k), ops) BY <1>4, <1>5, <1>8, WorksPlain
<1>10. Do(ops) BY <1>2, <1>7
<1> QED BY <1>1, <1>2, <1>3, <1>4, <1>6, <1>9, <1>10, LexRead

\* A scope for the binders of e and the child that sees them.
LEMMA BornArm ==
    ASSUME NEW e, NEW k, Born(e, k), NEW n, n = Len(ast), NEW i \in 1..k,
           NEW binds, ast'[e].binds = binds, Len(binds) \in Nat, Inner(e, i, 1),
           NEW s, Sees(Meaning', s, e), NEW ops, ops = <<Visit(n + i)>>
    PROVE  Makes(ast', Meaning', e, {n + i}, Scoped(Binds(e, 1, Len(binds)) \o ops), s, s)
<1>1. PICK w : w = <<s[1], s>> OBVIOUS
<1>2. w[1] = s[1] /\ w[2] = s BY <1>1
<1>3. PICK m \in Nat : m = Len(binds) OBVIOUS
<1>4. 1 \in Nat \ {0} /\ 1 - 1 + m <= Len(ast'[e].binds) /\ 1 - 1 + m = Len(ast'[e].binds)
      /\ Len(ast'[e].binds) \in Nat
  BY <1>3
<1>5. PICK t : /\ Makes(ast', Meaning', e, {}, Binds(e, 1, m), w, t)
               /\ Bind(ast'[e].binds, e, 1, m, w, t)
  BY <1>4, BornBinds
<1>6. Sees(Meaning', t, n + i) BY <1>2, <1>4, <1>5, BornSees
<1>7. Makes(ast', Meaning', e, {n + i}, ops, t, t) BY <1>6, BornVisit
<1>8. PICK A : A = Binds(e, 1, m) OBVIOUS
<1>9. Makes(ast', Meaning', e, {} \cup {n + i}, A \o ops, w, t)
  <2>1. Makes(ast', Meaning', e, {}, A, w, t) BY <1>5, <1>8
  <2> QED BY <2>1, <1>7, BornThen
<1>10. t[2] = s BY <1>2, <1>5 DEF Bind
<1>11. {} \cup {n + i} = {n + i} OBVIOUS
<1>12. Makes(ast', Meaning', e, {n + i}, A \o ops, <<s[1], s>>, t) BY <1>1, <1>9, <1>11
<1>13. Makes(ast', Meaning', e, {n + i}, Scoped(A \o ops), s, s) BY <1>10, <1>12, BornScoped
<1> QED BY <1>3, <1>8, <1>13
LEMMA ArmIs ==
    ASSUME NEW binds, Len(binds) \in Nat, NEW x
    PROVE  Append(DefineAll(binds), Visit(x)) = Binds(E, 1, Len(binds)) \o <<Visit(x)>>
<1>1. PICK m \in Nat : m = Len(binds) OBVIOUS
<1>2. PICK a : a = Binds(E, 1, m) OBVIOUS
<1>3. a \in [1..m -> {Op("define", E, 1 - 1 + i) : i \in 1..m}] BY <1>2 DEF Binds
<1>4. PICK S : S = {Op("define", E, 1 - 1 + i) : i \in 1..m} OBVIOUS
<1>5. a \in Seq(S) BY <1>3, <1>4, OfLength
<1>6. PICK o : o = Visit(x) OBVIOUS
<1>7. PICK T : T = S \cup {o} OBVIOUS
<1>8. a \in Seq(T) /\ o \in T BY <1>5, <1>7
<1>9. Append(a, o) = a \o <<o>> BY <1>8, AppendIsConcat
<1>10. DefineAll(binds) = a BY <1>1, <1>2, DefinesAre
<1> QED BY <1>1, <1>2, <1>6, <1>9, <1>10

LEMMA ElseFrom ==
    ASSUME Len(ast) \in Nat, NEW k \in {2, 3}
    PROVE  From(SubSeq(NewKids(k), 3, Len(NewKids(k))), Len(ast), 3, k)
<1>1. k \in Nat OBVIOUS
<1>2. PICK n \in Nat : n = Len(ast) OBVIOUS
<1>3. PICK kids : kids = NewKids(k) OBVIOUS
<1>4. /\ kids \in Seq(1..(n + k)) /\ Len(kids) = k
      /\ \A i \in 1..k : kids[i] \in 1..(n + k) /\ kids[i] = n + i
  BY <1>1, <1>2, <1>3, Kids, KidsFrom
<1>5. 3 \in Int /\ k \in Int /\ \A i \in 3..k : kids[i] \in 1..(n + k)
  <2>1. \A i \in 3..k : i \in 1..k BY <1>1
  <2> QED BY <2>1, <1>1, <1>4
<1>6. PICK t : t = SubSeq(kids, 3, k) OBVIOUS
<1>7. /\ t \in Seq(1..(n + k)) /\ Len(t) = IF 3 <= k THEN k - 3 + 1 ELSE 0
      /\ \A i \in 1..(k - 3 + 1) : t[i] = kids[3 + i - 1]
  BY <1>5, <1>6, SubSeqProperties
<1>8. Len(t) = k + 1 - 3 /\ k - 3 + 1 = k + 1 - 3 BY <1>7
<1>9. \A i \in 1..Len(t) : t[i] = n + (3 - 1 + i)
  <2> SUFFICES ASSUME NEW i \in 1..Len(t) PROVE t[i] = n + (3 - 1 + i)
    OBVIOUS
  <2>1. 3 + i - 1 \in 1..k /\ 3 + i - 1 = 3 - 1 + i /\ i \in 1..(k - 3 + 1) BY <1>8
  <2> QED BY <2>1, <1>4, <1>7
<1>10. From(t, n, 3, k) BY <1>7, <1>8, <1>9 DEF From, IsSequence
<1> QED BY <1>2, <1>3, <1>4, <1>6, <1>10

\* The child behind the scope, if there is one.
LEMMA BornElse ==
    ASSUME NEW e, NEW k \in {2, 3}, Born(e, k), NEW n, n = Len(ast), Outer(e, 3),
           NEW s, Sees(Meaning', s, e), NEW ops,
           ops = VisitAll(SubSeq(NewKids(k), 3, Len(NewKids(k))))
    PROVE  Makes(ast', Meaning', e, (n + 3)..(n + k), ops, s, s)
<1>1. PICK es : es = SubSeq(NewKids(k), 3, Len(NewKids(k))) OBVIOUS
<1>2. n \in Nat /\ From(es, n, 3, k) BY <1>1, ElseFrom DEF Born
<1>3. \A i \in 3..k : i \in 1..k /\ i = 3 OBVIOUS
<1>4. \A i \in 3..k : Sees(Meaning', s, n + i) BY <1>3, BornSees
<1>5. 3 \in 1..(k + 1) OBVIOUS
<1> QED BY <1>1, <1>2, <1>4, <1>5, BornVisits

LEMMA MatchLex == LexInv /\ VisitMatch => LexInv'
<1> SUFFICES ASSUME LexInv, VisitMatch PROVE LexInv'
  OBVIOUS
<1>1. ResInv' BY MatchStep DEF LexInv
<1>2. PICK binds \in PatternLists :
        /\ Reading /\ Read("match", 2, binds)
        /\ Do(<<Visit(NewKids(2)[1])>> \o Scoped(Append(DefineAll(binds), Visit(NewKids(2)[2]))))
        /\ UNCHANGED env
  BY DEF VisitMatch
<1>3. 2 \in Nat /\ 1 \in 1..2 /\ 2 \in 1..2 OBVIOUS
<1>4. IsSequence(binds) /\ Len(binds) \in Nat BY SmallSequences, LenProperties DEF IsSequence
<1>5. PICK e : e = E OBVIOUS
<1>6. Born(e, 2) /\ ast'[e].k = "match" /\ ast'[e].binds = binds
  BY <1>2, <1>3, <1>4, <1>5, ReadingLooks, BornRead
<1>7. PICK n \in Nat : n = Len(ast) BY <1>6 DEF Born
<1>8. NewKids(2)[1] = n + 1 /\ NewKids(2)[2] = n + 2 BY <1>3, <1>7, KidsFrom
<1>9. PICK a : a = <<Visit(n + 1)>> OBVIOUS
<1>10. PICK c : c = <<Visit(n + 2)>> OBVIOUS
<1>11. PICK b : b = Scoped(Binds(e, 1, Len(binds)) \o c) OBVIOUS
<1>12. Do(a \o b) BY <1>2, <1>4, <1>5, <1>8, <1>9, <1>10, <1>11, ArmIs
<1>13. ASSUME NEW s, Sees(Meaning', s, e)
       PROVE  Makes(ast', Meaning', e, {n + 1} \cup {n + 2}, a \o b, s, s)
  <2>1. Outer(e, 1) BY <1>6, OuterOf
  <2>2. Sees(Meaning', s, n + 1) BY <2>1, <1>3, <1>6, <1>7, <1>13, BornSees
  <2>3. Makes(ast', Meaning', e, {n + 1}, a, s, s)
    BY <2>2, <1>3, <1>6, <1>7, <1>9, BornVisit
  <2>4. Inner(e, 2, 1) BY <1>6, InnerOf
  <2>5. Makes(ast', Meaning', e, {n + 2}, b, s, s)
    BY <2>4, <1>3, <1>4, <1>6, <1>7, <1>10, <1>11, <1>13, BornArm
  <2>6. {n + 1} \cap {n + 2} = {} /\ {n + 1} \subseteq (Len(ast) + 1)..(Len(ast) + 2)
    BY <1>7
  <2> QED BY <2>3, <2>5, <2>6, <1>6, BornThen
<1>14. Works(E, {n + 1} \cup {n + 2}, a \o b) BY <1>5, <1>6, <1>13, WorksPlain
<1>15. {n + 1} \cup {n + 2} \subseteq (Len(ast) + 1)..(Len(ast) + 2) BY <1>7
<1> QED BY <1>1, <1>2, <1>3, <1>5, <1>6, <1>12, <1>14, <1>15, LexRead

LEMMA IfLetLex == LexInv /\ VisitIfLet => LexInv'
<1> SUFFICES ASSUME LexInv, VisitIfLet PROVE LexInv'
  OBVIOUS
<1>1. ResInv' BY IfLetStep DEF LexInv
<1>2. PICK binds \in PatternLists : \E k \in {2, 3} :
        /\ Reading /\ Read("if_let", Len(NewKids(k)), binds)
        /\ Do(<<Visit(NewKids(k)[1])>>
                \o Scoped(Append(DefineAll(binds), Visit(NewKids(k)[2])))
                \o VisitAll(SubSeq(NewKids(k), 3, Len(NewKids(k)))))
        /\ UNCHANGED env
  BY DEF VisitIfLet
<1>3. PICK k \in {2, 3} :
        /\ Reading /\ Read("if_let", Len(NewKids(k)), binds)
        /\ Do(<<Visit(NewKids(k)[1])>>
                \o Scoped(Append(DefineAll(binds), Visit(NewKids(k)[2])))
                \o VisitAll(SubSeq(NewKids(k), 3, Len(NewKids(k)))))
        /\ UNCHANGED env
  BY <1>2
<1>4. k \in Nat /\ 1 \in 1..k /\ 2 \in 1..k OBVIOUS
<1>5. IsSequence(binds) /\ Len(binds) \in Nat BY SmallSequences, LenProperties DEF IsSequence
<1>6. PICK e : e = E OBVIOUS
<1>7. Read("if_let", k, binds)
  <2>1. Len(ast) \in Nat BY ParentsFound DEF LexInv, ParentsOK
  <2>2. Len(NewKids(k)) = k BY <2>1, <1>4, Kids
  <2> QED BY <2>2, <1>3
<1>8. Born(e, k) /\ ast'[e].k = "if_let" /\ ast'[e].binds = binds
  BY <1>3, <1>4, <1>5, <1>6, <1>7, ReadingLooks, BornRead
<1>9. PICK n \in Nat : n = Len(ast) BY <1>8 DEF Born
<1>10. NewKids(k)[1] = n + 1 /\ NewKids(k)[2] = n + 2 BY <1>4, <1>9, KidsFrom
<1>11. PICK a : a = <<Visit(n + 1)>> OBVIOUS
<1>12. PICK c : c = <<Visit(n + 2)>> OBVIOUS
<1>13. PICK b : b = Scoped(Binds(e, 1, Len(binds)) \o c) OBVIOUS
<1>14. PICK d : d = VisitAll(SubSeq(NewKids(k), 3, Len(NewKids(k)))) OBVIOUS
<1>15. Do((a \o b) \o d)
  BY <1>3, <1>5, <1>6, <1>10, <1>11, <1>12, <1>13, <1>14, ArmIs
<1>16. PICK V : V = ({n + 1} \cup {n + 2}) \cup ((n + 3)..(n + k)) OBVIOUS
<1>17. ASSUME NEW s, Sees(Meaning', s, e)
       PROVE  Makes(ast', Meaning', e, V, (a \o b) \o d, s, s)
  <2>1. Outer(e, 1) /\ Outer(e, 3) /\ Inner(e, 2, 1) BY <1>8, OuterOf, InnerOf
  <2>2. Sees(Meaning', s, n + 1) BY <2>1, <1>4, <1>8, <1>9, <1>17, BornSees
  <2>3. Makes(ast', Meaning', e, {n + 1}, a, s, s)
    BY <2>2, <1>4, <1>8, <1>9, <1>11, BornVisit
  <2>4. Makes(ast', Meaning', e, {n + 2}, b, s, s)
    BY <2>1, <1>4, <1>5, <1>8, <1>9, <1>12, <1>13, <1>17, BornArm
  <2>5. {n + 1} \cap {n + 2} = {} /\ {n + 1} \subseteq (Len(ast) + 1)..(Len(ast) + k)
    BY <1>9
  <2>6. Makes(ast', Meaning', e, {n + 1} \cup {n + 2}, a \o b, s, s)
    BY <2>3, <2>4, <2>5, <1>8, BornThen
  <2>7. Makes(ast', Meaning', e, (n + 3)..(n + k), d, s, s)
    BY <2>1, <1>8, <1>9, <1>14, <1>17, BornElse
  <2>8. PICK U : U = {n + 1} \cup {n + 2} OBVIOUS
  <2>9. U \cap (n + 3)..(n + k) = {} /\ U \subseteq (Len(ast) + 1)..(Len(ast) + k)
    BY <2>8, <1>9
  <2>10. Makes(ast', Meaning', e, U, a \o b, s, s) BY <2>6, <2>8
  <2>11. PICK X : X = (n + 3)..(n + k) OBVIOUS
  <2>12. Makes(ast', Meaning', e, U \cup X, (a \o b) \o d, s, s)
    BY <2>7, <2>9, <2>10, <2>11, <1>8, BornThen
  <2> QED BY <2>8, <2>11, <2>12, <1>16
<1>18. Works(E, V, (a \o b) \o d) BY <1>6, <1>8, <1>17, WorksPlain
<1>19. V \subseteq (Len(ast) + 1)..(Len(ast) + k) BY <1>9, <1>16
<1> QED BY <1>1, <1>3, <1>4, <1>6, <1>7, <1>8, <1>15, <1>18, <1>19, LexRead
\* The same scope for a loop: what is looped over is visited in it first.
LEMMA BornLoop ==
    ASSUME NEW e, NEW k, Born(e, k), NEW n, n = Len(ast), 1 \in 1..k, 2 \in 1..k,
           NEW binds, ast'[e].binds = binds, Len(binds) \in Nat, Outer(e, 1), Inner(e, 2, 1),
           NEW s, Sees(Meaning', s, e), NEW a, a = <<Visit(n + 1)>>, NEW c, c = <<Visit(n + 2)>>
    PROVE  Makes(ast', Meaning', e, {n + 1} \cup {n + 2},
                 Scoped((a \o Binds(e, 1, Len(binds))) \o c), s, s)
<1>1. PICK w : w = <<s[1], s>> OBVIOUS
<1>2. w[1] = s[1] /\ w[2] = s BY <1>1
<1>3. PICK m \in Nat : m = Len(binds) OBVIOUS
<1>4. 1 \in Nat \ {0} /\ 1 - 1 + m <= Len(ast'[e].binds) /\ 1 - 1 + m = Len(ast'[e].binds)
      /\ Len(ast'[e].binds) \in Nat /\ n \in Nat /\ k \in Nat
  BY <1>3 DEF Born
<1>5. PICK t : /\ Makes(ast', Meaning', e, {}, Binds(e, 1, m), w, t)
               /\ Bind(ast'[e].binds, e, 1, m, w, t)
  BY <1>4, BornBinds
<1>6. Sees(Meaning', w, n + 1) /\ Sees(Meaning', t, n + 2) BY <1>2, <1>4, <1>5, BornSees
<1>7. /\ Makes(ast', Meaning', e, {n + 1}, a, w, w)
      /\ Makes(ast', Meaning', e, {n + 2}, c, t, t)
  BY <1>6, BornVisit
<1>8. PICK b : b = Binds(e, 1, m) OBVIOUS
<1>9. PICK V : V = {n + 1} OBVIOUS
<1>10. V \subseteq (Len(ast) + 1)..(Len(ast) + k) /\ V \cap {} = {} /\ V \cap {n + 2} = {}
       /\ V \cup {} = V
  BY <1>4, <1>9
<1>11. Makes(ast', Meaning', e, V \cup {}, a \o b, w, t)
  <2>1. Makes(ast', Meaning', e, {}, b, w, t) BY <1>5, <1>8
  <2>2. Makes(ast', Meaning', e, V, a, w, w) BY <1>7, <1>9
  <2> QED BY <2>1, <2>2, <1>10, BornThen
<1>12. Makes(ast', Meaning', e, V, a \o b, w, t) BY <1>10, <1>11
<1>13. Makes(ast', Meaning', e, V \cup {n + 2}, (a \o b) \o c, w, t)
  <2>1. PICK X : X = {n + 2} OBVIOUS
  <2>2. V \cap X = {} /\ Makes(ast', Meaning', e, X, c, t, t) BY <2>1, <1>7, <1>10
  <2>3. Makes(ast', Meaning', e, V \cup X, (a \o b) \o c, w, t)
    BY <2>2, <1>10, <1>12, BornThen
  <2> QED BY <2>1, <2>3
<1>14. t[2] = s BY <1>2, <1>5 DEF Bind
<1>15. Makes(ast', Meaning', e, V \cup {n + 2}, (a \o b) \o c, <<s[1], s>>, t) BY <1>1, <1>13
<1>16. Makes(ast', Meaning', e, V \cup {n + 2}, Scoped((a \o b) \o c), s, s)
  BY <1>14, <1>15, BornScoped
<1> QED BY <1>3, <1>8, <1>9, <1>16

LEMMA LoopLex == LexInv /\ VisitLoop => LexInv'
<1> SUFFICES ASSUME LexInv, VisitLoop PROVE LexInv'
  OBVIOUS
<1>1. ResInv' BY LoopStep DEF LexInv
<1>2. PICK binds \in PatternLists : \E k \in {2, 3} :
        /\ Reading /\ Read("loop", Len(NewKids(k)), binds)
        /\ Do(Scoped(<<Visit(NewKids(k)[1])>> \o DefineAll(binds) \o <<Visit(NewKids(k)[2])>>)
                \o VisitAll(SubSeq(NewKids(k), 3, Len(NewKids(k)))))
        /\ UNCHANGED env
  BY DEF VisitLoop
<1>3. PICK k \in {2, 3} :
        /\ Reading /\ Read("loop", Len(NewKids(k)), binds)
        /\ Do(Scoped(<<Visit(NewKids(k)[1])>> \o DefineAll(binds) \o <<Visit(NewKids(k)[2])>>)
                \o VisitAll(SubSeq(NewKids(k), 3, Len(NewKids(k)))))
        /\ UNCHANGED env
  BY <1>2
<1>4. k \in Nat /\ 1 \in 1..k /\ 2 \in 1..k OBVIOUS
<1>5. IsSequence(binds) /\ Len(binds) \in Nat BY SmallSequences, LenProperties DEF IsSequence
<1>6. PICK e : e = E OBVIOUS
<1>7. Read("loop", k, binds)
  <2>1. Len(ast) \in Nat BY ParentsFound DEF LexInv, ParentsOK
  <2>2. Len(NewKids(k)) = k BY <2>1, <1>4, Kids
  <2> QED BY <2>2, <1>3
<1>8. Born(e, k) /\ ast'[e].k = "loop" /\ ast'[e].binds = binds
  BY <1>3, <1>4, <1>5, <1>6, <1>7, ReadingLooks, BornRead
<1>9. PICK n \in Nat : n = Len(ast) BY <1>8 DEF Born
<1>10. NewKids(k)[1] = n + 1 /\ NewKids(k)[2] = n + 2 BY <1>4, <1>9, KidsFrom
<1>11. PICK a : a = <<Visit(n + 1)>> OBVIOUS
<1>12. PICK c : c = <<Visit(n + 2)>> OBVIOUS
<1>13. PICK b : b = Scoped((a \o Binds(e, 1, Len(binds))) \o c) OBVIOUS
<1>14. PICK d : d = VisitAll(SubSeq(NewKids(k), 3, Len(NewKids(k)))) OBVIOUS
<1>15. Do(b \o d) BY <1>3, <1>5, <1>6, <1>10, <1>11, <1>12, <1>13, <1>14, DefinesAre
<1>16. PICK U : U = {n + 1} \cup {n + 2} OBVIOUS
<1>17. PICK X : X = (n + 3)..(n + k) OBVIOUS
<1>18. ASSUME NEW s, Sees(Meaning', s, e)
       PROVE  Makes(ast', Meaning', e, U \cup X, b \o d, s, s)
  <2>1. Outer(e, 1) /\ Outer(e, 3) /\ Inner(e, 2, 1) BY <1>8, OuterOf, InnerOf
  <2>2. Makes(ast', Meaning', e, U, b, s, s)
    BY <2>1, <1>4, <1>5, <1>8, <1>9, <1>11, <1>12, <1>13, <1>16, <1>18, BornLoop
  <2>3. Makes(ast', Meaning', e, X, d, s, s)
    BY <2>1, <1>8, <1>9, <1>14, <1>17, <1>18, BornElse
  <2>4. U \cap X = {} /\ U \subseteq (Len(ast) + 1)..(Len(ast) + k) BY <1>9, <1>16, <1>17
  <2> QED BY <2>2, <2>3, <2>4, <1>8, BornThen
<1>19. Works(E, U \cup X, b \o d) BY <1>6, <1>8, <1>18, WorksPlain
<1>20. U \cup X \subseteq (Len(ast) + 1)..(Len(ast) + k) BY <1>9, <1>16, <1>17
<1> QED BY <1>1, <1>3, <1>4, <1>6, <1>7, <1>8, <1>15, <1>19, <1>20, LexRead

\* Agendas of one frame.
LEMMA OneFrame ==
    /\ Len(ast) \in Nat => VisitAll(NewKids(1)) = <<Visit(Len(ast) + 1)>>
    /\ Binds(E, 1, 1) = <<Define(1)>>
<1>1. ASSUME Len(ast) \in Nat PROVE VisitAll(NewKids(1)) = <<Visit(Len(ast) + 1)>>
  <2>0. 1 \in Nat /\ 1 \in 1..1 OBVIOUS
  <2>1. Len(NewKids(1)) = 1 /\ NewKids(1)[1] = Len(ast) + 1
    <3>1. Len(NewKids(1)) = 1 BY <2>0, <1>1, Kids
    <3>2. \A i \in 1..1 : NewKids(1)[i] = Len(ast) + i BY <2>0, <1>1, KidsFrom
    <3> QED BY <3>1, <3>2
  <2>2. PICK o : o = Visit(Len(ast) + 1) OBVIOUS
  <2>3. VisitAll(NewKids(1)) = [i \in 1..1 |-> o]
    <3>1. PICK es : es = NewKids(1) OBVIOUS
    <3>2. Len(es) = 1 /\ \A i \in 1..1 : Visit(es[i]) = o
      <4>1. \A i \in 1..1 : i = 1 OBVIOUS
      <4> QED BY <4>1, <3>1, <2>1, <2>2
    <3>3. VisitAll(es) = [i \in 1..1 |-> o] BY <3>2 DEF VisitAll
    <3> QED BY <3>1, <3>3
  <2> QED BY <2>2, <2>3
<1>2. Binds(E, 1, 1) = <<Define(1)>>
  <2>1. PICK o : o = Define(1) OBVIOUS
  <2>2. \A i \in 1..1 : Op("define", E, 1 - 1 + i) = o BY <2>1 DEF Define
  <2>3. Binds(E, 1, 1) = [i \in 1..1 |-> o] BY <2>2 DEF Binds
  <2> QED BY <2>1, <2>3
<1> QED BY <1>1, <1>2

LEMMA ClosureLex == LexInv /\ VisitClosure => LexInv'
<1> SUFFICES ASSUME LexInv, VisitClosure PROVE LexInv'
  OBVIOUS
<1>1. ResInv' BY ClosureStep DEF LexInv
<1>2. PICK x \in Bound :
        /\ Reading /\ Read("closure", 1, <<Binder(x, FALSE, FALSE)>>)
        /\ Do(Scoped(DefineAll(<<Binder(x, FALSE, FALSE)>>) \o VisitAll(NewKids(1))))
        /\ UNCHANGED env
  BY DEF VisitClosure
<1>3. PICK binds : binds = <<Binder(x, FALSE, FALSE)>> OBVIOUS
<1>4. IsSequence(binds) /\ Len(binds) \in Nat /\ 1 \in Nat /\ 1 \in 1..1
  BY <1>3, SmallSequences
<1>5. PICK e : e = E OBVIOUS
<1>6. Read("closure", 1, binds) BY <1>2, <1>3
<1>7. Born(e, 1) /\ ast'[e].k = "closure" /\ ast'[e].binds = binds
  BY <1>2, <1>4, <1>5, <1>6, ReadingLooks, BornRead
<1>8. PICK n \in Nat : n = Len(ast) BY <1>7 DEF Born
<1>9. PICK c : c = <<Visit(n + 1)>> OBVIOUS
<1>10. PICK ops : ops = Scoped(Binds(e, 1, Len(binds)) \o c) OBVIOUS
<1>11. Do(ops) BY <1>2, <1>3, <1>4, <1>5, <1>8, <1>9, <1>10, DefinesAre, OneFrame
<1>12. ASSUME NEW s, Sees(Meaning', s, e)
       PROVE  Makes(ast', Meaning', e, {n + 1}, ops, s, s)
  <2>1. Inner(e, 1, 1) BY <1>7, InnerOf
  <2> QED BY <2>1, <1>4, <1>7, <1>8, <1>9, <1>10, <1>12, BornArm
<1>13. Works(E, {n + 1}, ops) BY <1>5, <1>7, <1>12, WorksPlain
<1>14. {n + 1} \subseteq (Len(ast) + 1)..(Len(ast) + 1) BY <1>8
<1> QED BY <1>1, <1>2, <1>4, <1>5, <1>6, <1>7, <1>11, <1>13, <1>14, LexRead

LEMMA Triple ==
    ASSUME NEW p, NEW q, NEW r
    PROVE  <<p, q, r>> = (<< p >> \o << q >>) \o << r >>
<1>1. PICK a : a = << p >> OBVIOUS
<1>2. PICK b : b = << q >> OBVIOUS
<1>3. PICK c : c = << r >> OBVIOUS
<1>4. /\ IsSequence(a) /\ Len(a) = 1 /\ a[1] = p
      /\ IsSequence(b) /\ Len(b) = 1 /\ b[1] = q
      /\ IsSequence(c) /\ Len(c) = 1 /\ c[1] = r
  BY <1>1, <1>2, <1>3, SmallSequences
<1>5. PICK d : d = a \o b OBVIOUS
<1>6. IsSequence(d) /\ Len(d) = 2 /\ d[1] = p /\ d[2] = q
  <2>1. IsSequence(a) /\ IsSequence(b) BY <1>4
  <2>2. /\ IsSequence(a \o b) /\ Len(a \o b) = Len(a) + Len(b)
        /\ \A j \in 1..Len(a) : (a \o b)[j] = a[j]
        /\ \A j \in 1..Len(b) : (a \o b)[j + Len(a)] = b[j]
    BY <2>1, Concats
  <2>3. 1 \in 1..1 /\ 1 + 1 = 2 OBVIOUS
  <2> QED BY <2>2, <2>3, <1>4, <1>5
<1>7. PICK g : g = d \o c OBVIOUS
<1>8. IsSequence(g) /\ Len(g) = 3 /\ g[1] = p /\ g[2] = q /\ g[3] = r
  <2>1. IsSequence(d) /\ IsSequence(c) BY <1>4, <1>6
  <2>2. /\ IsSequence(d \o c) /\ Len(d \o c) = Len(d) + Len(c)
        /\ \A j \in 1..Len(d) : (d \o c)[j] = d[j]
        /\ \A j \in 1..Len(c) : (d \o c)[j + Len(d)] = c[j]
    BY <2>1, Concats
  <2>3. 1 \in 1..1 /\ 1 \in 1..2 /\ 2 \in 1..2 /\ 1 + 2 = 3 /\ 2 + 1 = 3 OBVIOUS
  <2> QED BY <2>2, <2>3, <1>4, <1>6, <1>7
<1>9. PICK S : g \in Seq(S) BY <1>8 DEF IsSequence
<1>10. g \in [1..3 -> S] BY <1>8, <1>9, LenProperties
<1>11. PICK h : h = <<p, q, r>> OBVIOUS
<1>12. PICK U : U = {p, q, r} OBVIOUS
<1>13. h \in [1..3 -> U] /\ h[1] = p /\ h[2] = q /\ h[3] = r BY <1>11, <1>12
<1>14. \A i \in 1..3 : g[i] = h[i]
  <2>1. \A i \in 1..3 : i = 1 \/ i = 2 \/ i = 3 OBVIOUS
  <2> QED BY <2>1, <1>8, <1>13
<1>15. g = h BY <1>10, <1>13, <1>14
<1> QED BY <1>1, <1>2, <1>3, <1>5, <1>7, <1>11, <1>15

LEMMA ForkLex == LexInv /\ VisitFork => LexInv'
<1> SUFFICES ASSUME LexInv, VisitFork PROVE LexInv'
  OBVIOUS
<1>1. ResInv' BY ForkStep DEF LexInv
<1>2. PICK x \in Bound :
        /\ Reading /\ Read("fork", 2, <<Binder(x, FALSE, FALSE)>>)
        /\ Do(Scoped(<<Visit(NewKids(2)[1]), Define(1), Visit(NewKids(2)[2])>>))
        /\ UNCHANGED env
  BY DEF VisitFork
<1>3. PICK binds : binds = <<Binder(x, FALSE, FALSE)>> OBVIOUS
<1>4. IsSequence(binds) /\ Len(binds) = 1 /\ 2 \in Nat /\ 1 \in 1..2 /\ 2 \in 1..2
  BY <1>3, SmallSequences
<1>5. PICK e : e = E OBVIOUS
<1>6. Read("fork", 2, binds) BY <1>2, <1>3
<1>7. Born(e, 2) /\ ast'[e].k = "fork" /\ ast'[e].binds = binds
  BY <1>2, <1>4, <1>5, <1>6, ReadingLooks, BornRead
<1>8. PICK n \in Nat : n = Len(ast) BY <1>7 DEF Born
<1>9. NewKids(2)[1] = n + 1 /\ NewKids(2)[2] = n + 2 BY <1>4, <1>8, KidsFrom
<1>10. PICK a : a = <<Visit(n + 1)>> OBVIOUS
<1>11. PICK c : c = <<Visit(n + 2)>> OBVIOUS
<1>12. PICK ops : ops = Scoped((a \o Binds(e, 1, 1)) \o c) OBVIOUS
<1>14. ops = Scoped(<<Visit(n + 1), Define(1), Visit(n + 2)>>)
  <2>1. (a \o Binds(e, 1, 1)) \o c = <<Visit(n + 1), Define(1), Visit(n + 2)>>
    <3>1. PICK p : p = Visit(n + 1) OBVIOUS
    <3>2. PICK r : r = Visit(n + 2) OBVIOUS
    <3>3. PICK q : q = Define(1) OBVIOUS
    <3>4. Binds(e, 1, 1) = << q >> BY <3>3, <1>5, OneFrame
    <3>5. <<p, q, r>> = (<< p >> \o << q >>) \o << r >> BY Triple
    <3> QED BY <3>1, <3>2, <3>3, <3>4, <3>5, <1>10, <1>11
  <2> QED BY <2>1, <1>12
<1>15. Do(ops) BY <1>2, <1>9, <1>14
<1>16. ASSUME NEW s, Sees(Meaning', s, e)
       PROVE  Makes(ast', Meaning', e, {n + 1} \cup {n + 2}, ops, s, s)
  <2>1. Outer(e, 1) /\ Inner(e, 2, 1) BY <1>7, OuterOf, InnerOf
  <2>2. Len(binds) \in Nat BY <1>4
  <2> QED BY <2>1, <2>2, <1>4, <1>7, <1>8, <1>10, <1>11, <1>12, <1>16, BornLoop
<1>17. Works(E, {n + 1} \cup {n + 2}, ops) BY <1>5, <1>7, <1>16, WorksPlain
<1>18. {n + 1} \cup {n + 2} \subseteq (Len(ast) + 1)..(Len(ast) + 2) BY <1>8
<1> QED BY <1>1, <1>2, <1>4, <1>5, <1>6, <1>7, <1>15, <1>17, <1>18, LexRead
-----------------------------------------------------------------------------
(* Statements                                                              *)

\* The value, and then the names that are bound to it.
LEMMA BornLet ==
    ASSUME NEW e, Born(e, 1), NEW n, n = Len(ast), agenda[1].op = "stmt",
           NEW binds, ast'[e].binds = binds, NEW m \in Nat, m = Len(binds),
           ast'[e].k \in {"let", "declare"}, NEW c, c = <<Visit(n + 1)>>
    PROVE  Works(e, {n + 1}, c \o Binds(e, 1, m))
<1>1. 1 \in 1..1 /\ n \in Nat BY DEF Born
<1>2. Outer(e, 1) BY OuterOf
<1>3. PICK b : b = Binds(e, 1, m) OBVIOUS
<1>4. PICK V : V = {n + 1} OBVIOUS
<1>5. 1 \in Nat \ {0} /\ 1 - 1 + m <= Len(ast'[e].binds) /\ Len(ast'[e].binds) \in Nat
      /\ 1 - 1 + m \in Nat
  OBVIOUS
<1>6. ASSUME NEW s, Sees(Meaning', s, e)
      PROVE  \E v : Leaves(e, s, v) /\ Makes(ast', Meaning', e, V, c \o b, s, v)
  <2>1. Sees(Meaning', s, n + 1) BY <1>1, <1>2, <1>6, BornSees
  <2>2. Makes(ast', Meaning', e, V, c, s, s)
    <3>1. Makes(ast', Meaning', e, {n + 1}, <<Visit(n + 1)>>, s, s)
      BY <1>1, <2>1, BornVisit
    <3> QED BY <3>1, <1>4
  <2>3. PICK t : /\ Makes(ast', Meaning', e, {}, Binds(e, 1, m), s, t)
                 /\ Bind(ast'[e].binds, e, 1, m, s, t)
    BY <1>5, BornBinds
  <2>4. Makes(ast', Meaning', e, {}, b, s, t) BY <2>3, <1>3
  <2>5. V \cap {} = {} /\ V \subseteq (Len(ast) + 1)..(Len(ast) + 1) /\ V \cup {} = V
    BY <1>1, <1>4
  <2>6. Makes(ast', Meaning', e, V \cup {}, c \o b, s, t)
    BY <2>2, <2>4, <2>5, BornThen
  <2>7. Leaves(e, s, t) BY <2>3, <1>5, LeavesBinds
  <2> QED BY <2>5, <2>6, <2>7
<1>7. Works(e, V, c \o b) BY <1>6 DEF Works
<1> QED BY <1>3, <1>4, <1>7

LEMMA LetLex == LexInv /\ VisitLet => LexInv'
<1> SUFFICES ASSUME LexInv, VisitLet PROVE LexInv'
  OBVIOUS
<1>1. ResInv' BY LetStep DEF LexInv
<1>2. PICK binds \in PatternLists :
        /\ ReadingStmt /\ Read("let", 1, binds)
        /\ Do(VisitAll(NewKids(1)) \o DefineAll(binds)) /\ UNCHANGED env
  BY DEF VisitLet
<1>3. IsSequence(binds) /\ Len(binds) \in Nat /\ 1 \in Nat
  BY SmallSequences, LenProperties DEF IsSequence
<1>4. PICK m \in Nat : m = Len(binds) BY <1>3
<1>5. PICK e : e = E OBVIOUS
<1>6. Born(e, 1) /\ ast'[e].k = "let" /\ ast'[e].binds = binds /\ Top = agenda[1]
  BY <1>2, <1>3, <1>5, ReadingLooks, BornRead
<1>7. PICK n \in Nat : n = Len(ast) BY <1>6 DEF Born
<1>8. agenda[1].op = "stmt" BY <1>2, <1>6, ReadingLooks
<1>9. PICK c : c = <<Visit(n + 1)>> OBVIOUS
<1>10. Do(c \o Binds(e, 1, m)) BY <1>2, <1>4, <1>5, <1>7, <1>9, DefinesAre, OneFrame
<1>11. Works(E, {n + 1}, c \o Binds(e, 1, m))
  BY <1>4, <1>5, <1>6, <1>7, <1>8, <1>9, BornLet
<1>12. {n + 1} \subseteq (Len(ast) + 1)..(Len(ast) + 1) BY <1>7
<1>13. Born(E, 1) /\ ast'[E].k = "let" BY <1>5, <1>6
<1> QED BY <1>1, <1>2, <1>3, <1>10, <1>11, <1>12, <1>13, LexRead

LEMMA DeclareLex == LexInv /\ VisitDeclare => LexInv'
<1> SUFFICES ASSUME LexInv, VisitDeclare PROVE LexInv'
  OBVIOUS
<1>1. ResInv' BY DeclareStep DEF LexInv
<1>2. PICK x \in Bound, mutable \in BOOLEAN :
        /\ ReadingStmt /\ Read("declare", 1, <<Binder(x, TRUE, mutable)>>)
        /\ Do(VisitAll(NewKids(1)) \o <<Define(1)>>) /\ UNCHANGED env
  BY DEF VisitDeclare
<1>3. PICK binds : binds = <<Binder(x, TRUE, mutable)>> OBVIOUS
<1>4. IsSequence(binds) /\ Len(binds) = 1 /\ 1 \in Nat BY <1>3, SmallSequences
<1>5. PICK e : e = E OBVIOUS
<1>6. Read("declare", 1, binds) BY <1>2, <1>3
<1>7. Born(e, 1) /\ ast'[e].k = "declare" /\ ast'[e].binds = binds /\ Top = agenda[1]
  BY <1>2, <1>4, <1>5, <1>6, ReadingLooks, BornRead
<1>8. PICK n \in Nat : n = Len(ast) BY <1>7 DEF Born
<1>9. agenda[1].op = "stmt" BY <1>2, <1>7, ReadingLooks
<1>10. PICK c : c = <<Visit(n + 1)>> OBVIOUS
<1>11. Do(c \o Binds(e, 1, 1)) BY <1>2, <1>5, <1>8, <1>10, OneFrame
<1>12. Works(E, {n + 1}, c \o Binds(e, 1, 1))
  BY <1>4, <1>5, <1>7, <1>8, <1>9, <1>10, BornLet
<1>13. {n + 1} \subseteq (Len(ast) + 1)..(Len(ast) + 1) BY <1>8
<1>14. Born(E, 1) /\ ast'[E].k = "declare" BY <1>5, <1>7
<1> QED BY <1>1, <1>2, <1>4, <1>6, <1>11, <1>12, <1>13, <1>14, LexRead

LEMMA GuardLex == LexInv /\ VisitGuard => LexInv'
<1> SUFFICES ASSUME LexInv, VisitGuard PROVE LexInv'
  OBVIOUS
<1>1. ResInv' BY GuardStep DEF LexInv
<1>2. PICK l \in 0..MaxOperands :
        /\ ReadingStmt /\ Read("guard", 1 + l, <<>>)
        /\ Do(<<Visit(NewKids(1 + l)[1])>> \o Scoped(VisitStmts(Tail(NewKids(1 + l)))))
        /\ UNCHANGED env
  BY DEF VisitGuard
<1>3. PICK k \in Nat : k = 1 + l
  <2>1. l \in Nat BY ConstantsAssumption
  <2>2. 1 + l \in Nat BY <2>1
  <2> QED BY <2>2
<1>4. 1 \in 1..k /\ 2 \in 1..(k + 1) /\ k >= 1
  <2>1. l \in Nat BY ConstantsAssumption
  <2> QED BY <2>1, <1>3
<1>5. PICK e : e = E OBVIOUS
<1>6. Read("guard", k, <<>>) BY <1>2, <1>3
<1>7. Born(e, k) /\ ast'[e].k = "guard" BY <1>2, <1>5, <1>6, ReadingLooks, BornRead, NoKids
<1>8. PICK n \in Nat : n = Len(ast) BY <1>7 DEF Born
<1>9. PICK kids : kids = NewKids(k) OBVIOUS
<1>10. /\ kids \in Seq(1..(n + k)) /\ Len(kids) = k /\ \A i \in 1..k : kids[i] = n + i
  BY <1>8, <1>9, Kids, KidsFrom
<1>11. PICK es : es = Tail(kids) OBVIOUS
<1>12. From(es, n, 2, k)
  <2>1. kids # <<>> BY <1>4, <1>10, NoKids
  <2>2. /\ es \in Seq(1..(n + k)) /\ Len(es) = k - 1
        /\ \A i \in 1..(k - 1) : es[i] = kids[i + 1]
    BY <2>1, <1>10, <1>11, HeadTailProperties
  <2>3. Len(es) = k + 1 - 2 BY <2>2
  <2>4. \A i \in 1..Len(es) : i \in 1..(k - 1) /\ i + 1 \in 1..k /\ i + 1 = 2 - 1 + i BY <2>2
  <2> QED BY <2>2, <2>3, <2>4, <1>10 DEF From, IsSequence
<1>13. PICK a : a = <<Visit(n + 1)>> OBVIOUS
<1>14. PICK b : b = Scoped(VisitStmts(es)) OBVIOUS
<1>15. Do(a \o b) BY <1>2, <1>3, <1>4, <1>9, <1>10, <1>11, <1>13, <1>14
<1>16. PICK U : U = {n + 1} OBVIOUS
<1>17. PICK X : X = (n + 2)..(n + k) OBVIOUS
<1>18. ASSUME NEW s, Sees(Meaning', s, e)
       PROVE  Makes(ast', Meaning', e, U \cup X, a \o b, s, s)
  <2>1. Outer(e, 1) /\ Outer(e, 2) /\ ast'[e].k \in Bodies BY <1>7, OuterOf DEF Bodies
  <2>2. Sees(Meaning', s, n + 1) /\ (2 \in 1..k => Sees(Meaning', s, n + 2))
    BY <2>1, <1>4, <1>7, <1>8, <1>18, BornSees
  <2>3. Makes(ast', Meaning', e, U, a, s, s)
    BY <2>2, <1>4, <1>7, <1>8, <1>13, <1>16, BornVisit
  <2>4. Makes(ast', Meaning', e, X, b, s, s)
    BY <2>1, <2>2, <1>4, <1>7, <1>8, <1>12, <1>14, <1>17, BornBody
  <2>5. U \cap X = {} /\ U \subseteq (Len(ast) + 1)..(Len(ast) + k)
    BY <1>4, <1>8, <1>16, <1>17
  <2> QED BY <2>3, <2>4, <2>5, <1>7, BornThen
<1>19. Works(E, U \cup X, a \o b) BY <1>5, <1>7, <1>18, WorksPlain
<1>20. U \cup X \subseteq (Len(ast) + 1)..(Len(ast) + k) BY <1>4, <1>8, <1>16, <1>17
<1>21. Born(E, k) /\ ast'[E].k = "guard" BY <1>5, <1>7
<1> QED BY <1>1, <1>2, <1>6, <1>15, <1>19, <1>20, <1>21, LexRead
-----------------------------------------------------------------------------
(* Functions and items                                                     *)

\* A name first, and then the others, are the same as all of them.
LEMMA BindTwice ==
    ASSUME NEW b, NEW e \in Nat, NEW x, NEW c, NEW g \in Nat, g >= 1
    PROVE  Over(Over(c, b, e, x, 1, 1), b, e, x, 2, g) = Over(c, b, e, x, 1, g)
<1> DEFINE own(f, h) == {i \in f..h : b[i].name = x}
<1>1. /\ LatestIn(b, e, x, 2, g) = IF own(2, g) = {} THEN Undefined ELSE <<e, Max(own(2, g))>>
      /\ LatestIn(b, e, x, 1, g) = IF own(1, g) = {} THEN Undefined ELSE <<e, Max(own(1, g))>>
      /\ LatestIn(b, e, x, 1, 1) = IF own(1, 1) = {} THEN Undefined ELSE <<e, Max(own(1, 1))>>
  BY DEF LatestIn
<1>2. own(1, g) = own(1, 1) \cup own(2, g)
  <2>1. 1..g = (1..1) \cup (2..g) OBVIOUS
  <2> QED BY <2>1
<1>3. CASE own(2, g) = {}
  <2>1. own(1, g) = own(1, 1) BY <1>2, <1>3
  <2>2. LatestIn(b, e, x, 1, g) = LatestIn(b, e, x, 1, 1) BY <2>1, <1>1
  <2>3. LatestIn(b, e, x, 2, g) = Undefined BY <1>1, <1>3
  <2> QED BY <2>2, <2>3 DEF Over
<1>4. CASE own(2, g) # {}
  <2>1. PICK S : S = own(2, g) OBVIOUS
  <2>2. PICK T : T = own(1, g) OBVIOUS
  <2>3. S \subseteq T /\ S \subseteq 2..g /\ S # {} BY <2>1, <2>2, <1>2, <1>4
  <2>4. T \subseteq 1..g /\ T # {} BY <2>2, <2>3
  <2>5. T \subseteq S \cup {1} BY <2>1, <2>2, <1>2
  <2>6. S \subseteq 1..g BY <2>3, <2>4
  <2>7. Max(S) \in S /\ \A y \in S : y <= Max(S) BY <2>3, <2>6, MaxOf
  <2>8. Max(T) \in T /\ \A y \in T : y <= Max(T) BY <2>4, MaxOf
  <2>9. Max(S) = Max(T)
    <3>1. PICK p \in 2..g : p = Max(S) BY <2>3, <2>7
    <3>2. PICK q \in 1..g : q = Max(T) BY <2>4, <2>8
    <3>3. p <= q BY <2>3, <2>7, <2>8, <3>1, <3>2
    <3>4. q \in S \/ q = 1 BY <2>5, <2>8, <3>2
    <3>5. q <= p BY <2>7, <3>1, <3>3, <3>4
    <3>6. p = q BY <3>3, <3>5
    <3> QED BY <3>1, <3>2, <3>6
  <2>10. LatestIn(b, e, x, 2, g) = LatestIn(b, e, x, 1, g)
    BY <2>1, <2>2, <2>3, <2>4, <2>9, <1>1
  <2>11. LatestIn(b, e, x, 2, g) # Undefined
    <3>1. LatestIn(b, e, x, 2, g) = <<e, Max(own(2, g))>> BY <1>1, <1>4
    <3>2. \A y : <<e, y>> # Undefined BY DEF Undefined
    <3> QED BY <3>1, <3>2
  <2> QED BY <2>10, <2>11 DEF Over
<1> QED BY <1>3, <1>4

\* A scope for the parameters, and in it one for the body.
LEMMA BornFn ==
    ASSUME NEW e, NEW k, Born(e, k), NEW n, n = Len(ast), ast'[e].k \in Bodies,
           NEW f \in Nat \ {0}, NEW m \in Nat, Len(ast'[e].binds) \in Nat,
           f - 1 + m = Len(ast'[e].binds), NEW s,
           \A t : Bind(ast'[e].binds, e, f, m, <<s[1], s>>, t) /\ 1 \in 1..k =>
                     Sees(Meaning', t, n + 1),
           NEW b, b = Scoped(VisitStmts(NewKids(k)))
    PROVE  Makes(ast', Meaning', e, (n + 1)..(n + k), Scoped(Binds(e, f, m) \o b), s, s)
<1>1. PICK w : w = <<s[1], s>> OBVIOUS
<1>2. w[1] = s[1] /\ w[2] = s BY <1>1
<1>3. f - 1 + m <= Len(ast'[e].binds) /\ n \in Nat /\ k \in Nat BY DEF Born
<1>4. PICK t : /\ Makes(ast', Meaning', e, {}, Binds(e, f, m), w, t)
               /\ Bind(ast'[e].binds, e, f, m, w, t)
  BY <1>3, BornBinds
<1>5. 1 \in 1..k => Sees(Meaning', t, n + 1) BY <1>1, <1>4
<1>6. PICK V : V = (n + 1)..(n + k) OBVIOUS
<1>7. Makes(ast', Meaning', e, V, b, t, t)
  <2>1. From(NewKids(k), n, 1, k) /\ 1 \in 1..(k + 1) BY <1>3, KidsFrom
  <2> QED BY <2>1, <1>5, <1>6, BornBody
<1>8. PICK a : a = Binds(e, f, m) OBVIOUS
<1>9. Makes(ast', Meaning', e, {} \cup V, a \o b, w, t)
  <2>1. Makes(ast', Meaning', e, {}, a, w, t) BY <1>4, <1>8
  <2> QED BY <2>1, <1>7, BornThen
<1>10. t[2] = s /\ {} \cup V = V BY <1>2, <1>4 DEF Bind
<1>11. Makes(ast', Meaning', e, V, a \o b, <<s[1], s>>, t) BY <1>1, <1>9, <1>10
<1>12. Makes(ast', Meaning', e, V, Scoped(a \o b), s, s) BY <1>10, <1>11, BornScoped
<1> QED BY <1>6, <1>8, <1>12

LEMMA FnIs ==
    ASSUME NEW binds, NEW f, NEW k, NEW m, m = Len(binds) + 1 - f,
           NEW b, b = Scoped(VisitStmts(NewKids(k)))
    PROVE  FnBody(binds, f, k) = Scoped(Binds(E, f, m) \o b)
BY DEF FnBody, Binds, Define

LEMMA ItemFrame ==
    ASSUME LexInv, agenda # <<>>, Looking(Top)
    PROVE  Top.op = "item" <=> Parent(E) = Root
<1>1. ResInv /\ TreeOK /\ ParentsOK BY ParentsFound DEF LexInv
<1>2. 1 \in 1..Len(agenda) /\ Top = agenda[1] /\ E = agenda[1].e BY <1>1, AgendaHead
<1>3. FrameOK(ast, agenda[1]) BY <1>2 DEF LexInv, FlowOK, Runs
<1>4. PICK e : e = E OBVIOUS
<1>5. /\ e \in 2..Len(ast)
      /\ Top.op = "item" <=> \E i \in 1..Len(ast[Root].kids) : ast[Root].kids[i] = e
  BY <1>2, <1>3, <1>4 DEF FrameOK, Looking
<1>6. Root \in 1..Len(ast) BY <1>1 DEF TreeOK, ParentsOK, Root
<1>7. (\E i \in 1..Len(ast[Root].kids) : ast[Root].kids[i] = e) <=> Parent(e) = Root
  <2>1. ASSUME NEW i \in 1..Len(ast[Root].kids), ast[Root].kids[i] = e
        PROVE  Parent(e) = Root
    <3>1. Parent(ast[Root].kids[i]) = Root BY <1>1, <1>6 DEF ParentsOK
    <3> QED BY <2>1, <3>1
  <2>2. ASSUME Parent(e) = Root
        PROVE  \E i \in 1..Len(ast[Root].kids) : ast[Root].kids[i] = e
    BY <2>2, <1>1, <1>5 DEF ParentsOK
  <2> QED BY <2>1, <2>2
<1> QED BY <1>4, <1>5, <1>7

LEMMA LexItem ==
    ASSUME LexInv, ResInv', UNCHANGED env, Running("item"), NEW k \in Nat, Born(E, k),
           ast'[E].k \in {"fn", "const", "method"}, NamedAlike(ast[E], ast'[E]),
           NEW V, V \subseteq (Len(ast) + 1)..(Len(ast) + k),
           NEW ops, Do(ops), Works(E, V, ops)
    PROVE  LexInv'
<1>1. agenda # <<>> /\ Top.op = "item" BY DEF Running
<1>2. Top = agenda[1] /\ E = agenda[1].e BY <1>1, AgendaHead DEF LexInv
<1>3. Reads(E, k) BY <1>1, <1>2 DEF Reads, Looking, Born
<1>4. \A j \in (Len(ast) + 1)..(Len(ast) + k) : ast'[j].k # "use"
  <2> SUFFICES ASSUME NEW j \in (Len(ast) + 1)..(Len(ast) + k) PROVE ast'[j].k # "use"
    OBVIOUS
  <2>1. Len(ast) \in Nat BY DEF Born
  <2>2. PICK i \in 1..k : Len(ast) + i = j
    <3>1. j - Len(ast) \in 1..k /\ Len(ast) + (j - Len(ast)) = j BY <2>1
    <3> QED BY <3>1
  <2> QED BY <2>2 DEF Born
<1>5. PICK e : e = E OBVIOUS
<1>6. Reads(e, k) /\ ast'[e].k \notin {"use", "type", "unread"} /\ Works(e, V, ops)
  BY <1>3, <1>5
<1> QED BY <1>1, <1>4, <1>6, ReadLex
\* A function binds its own name, and then parameters.
LEMMA OwnFirst ==
    ASSUME NEW own, IsSequence(own), Len(own) = 1, NEW params, IsSequence(params)
    PROVE  /\ IsSequence(own \o params) /\ Len(own \o params) \in Nat \ {0}
           /\ Len(own \o params) = 1 + Len(params) /\ (own \o params)[1] = own[1]
<1>1. /\ IsSequence(own \o params) /\ Len(own) \in Nat /\ Len(params) \in Nat
      /\ Len(own \o params) = Len(own) + Len(params)
      /\ \A j \in 1..Len(own) : (own \o params)[j] = own[j]
  BY Concats
<1>2. 1 \in 1..Len(own) OBVIOUS
<1> QED BY <1>1, <1>2

LEMMA FnLex == LexInv /\ VisitFn => LexInv'
<1> SUFFICES ASSUME LexInv, VisitFn PROVE LexInv'
  OBVIOUS
<1>0. ResInv /\ ResInv' BY FnStep DEF LexInv
<1>1. PICK params \in PatternLists, k \in 0..MaxOperands :
        /\ Running("item") /\ ast[E].binds # <<>>
        /\ Read("fn", k, ast[E].binds \o params)
        /\ Do(FnBody(ast[E].binds \o params, 2, k)) /\ UNCHANGED env
  BY DEF VisitFn
<1>2. k \in Nat BY ConstantsAssumption
<1>3. PICK own : own = ast[E].binds OBVIOUS
<1>4. IsSequence(own) /\ Len(own) \in Nat \ {0} /\ IsSequence(params)
  BY <1>0, <1>1, <1>3, ItemBinds, SmallSequences
<1>5. PICK binds : binds = own \o params OBVIOUS
<1>6. /\ IsSequence(binds) /\ Len(binds) \in Nat \ {0} /\ binds[1] = own[1] /\ binds # <<>>
  <2>1. /\ IsSequence(own \o params) /\ Len(params) \in Nat
        /\ Len(own \o params) = Len(own) + Len(params)
        /\ \A j \in 1..Len(own) : (own \o params)[j] = own[j]
    BY <1>4, Concats
  <2>2. 1 \in 1..Len(own) /\ Len(own) + Len(params) \in Nat \ {0} BY <2>1, <1>4
  <2> QED BY <2>1, <2>2, <1>5, NoKids
<1>7. Read("fn", k, binds) /\ Do(FnBody(binds, 2, k)) BY <1>1, <1>3, <1>5
<1>8. PICK e : e = E OBVIOUS
<1>9. Born(e, k) /\ ast'[e].k = "fn" /\ ast'[e].binds = binds /\ Top = agenda[1]
  BY <1>1, <1>2, <1>6, <1>7, <1>8, ReadingLooks, BornRead
<1>10. agenda # <<>> /\ Looking(Top) /\ agenda[1].op = "item" BY <1>1, <1>9, ReadingLooks
<1>11. Parent(e) = Root BY <1>8, <1>9, <1>10, ItemFrame
<1>12. NamedAlike(ast[e], ast'[e]) BY <1>1, <1>3, <1>6, <1>8, <1>9 DEF NamedAlike
<1>13. PICK n \in Nat : n = Len(ast) BY <1>9 DEF Born
<1>14. PICK m \in Nat : m = Len(binds) + 1 - 2 /\ 2 - 1 + m = Len(binds)
  <2>1. Len(binds) + 1 - 2 \in Nat /\ 2 - 1 + (Len(binds) + 1 - 2) = Len(binds) BY <1>6
  <2> QED BY <2>1
<1>15. PICK b : b = Scoped(VisitStmts(NewKids(k))) OBVIOUS
<1>16. PICK ops : ops = Scoped(Binds(e, 2, m) \o b) OBVIOUS
<1>17. Do(ops) BY <1>7, <1>8, <1>14, <1>15, <1>16, FnIs
<1>18. PICK V : V = (n + 1)..(n + k) OBVIOUS
<1>19. ASSUME NEW s, Sees(Meaning', s, e) PROVE Makes(ast', Meaning', e, V, ops, s, s)
  <2>1. Inner(e, 1, 2) BY <1>9, <1>11, InnerOf
  <2>2. PICK w : w = <<s[1], s>> OBVIOUS
  <2>3. w[1] = s[1] BY <2>2
  <2>4. ASSUME NEW t, Bind(ast'[e].binds, e, 2, m, w, t), 1 \in 1..k
        PROVE  Sees(Meaning', t, n + 1)
    BY <2>1, <2>3, <2>4, <1>9, <1>13, <1>14, <1>19, BornSees
  <2>5. 2 \in Nat \ {0} /\ ast'[e].k \in Bodies BY <1>9 DEF Bodies
  <2> QED BY <2>2, <2>4, <2>5, <1>6, <1>9, <1>13, <1>14, <1>15, <1>16, <1>18, BornFn
<1>20. Works(e, V, ops) BY <1>10, <1>19, WorksPlain
<1>21. V \subseteq (Len(ast) + 1)..(Len(ast) + k) BY <1>13, <1>18
<1>22. /\ Born(E, k) /\ ast'[E].k \in {"fn", "const", "method"}
       /\ NamedAlike(ast[E], ast'[E]) /\ Works(E, V, ops)
  BY <1>8, <1>9, <1>12, <1>20
<1> QED BY <1>0, <1>1, <1>2, <1>17, <1>21, <1>22, LexItem

LEMMA ConstLex == LexInv /\ VisitConst => LexInv'
<1> SUFFICES ASSUME LexInv, VisitConst PROVE LexInv'
  OBVIOUS
<1>0. ResInv /\ ResInv' BY ConstStep DEF LexInv
<1>1. PICK mutable \in BOOLEAN :
        /\ Running("item") /\ ast[E].binds # <<>>
        /\ Read("const", 1, <<[ast[E].binds[1] EXCEPT !.mutable = mutable]>>)
        /\ Do(VisitAll(NewKids(1))) /\ UNCHANGED env
  BY DEF VisitConst
<1>2. PICK own : own = ast[E].binds[1] OBVIOUS
<1>3. PICK now : now = [own EXCEPT !.mutable = mutable] OBVIOUS
<1>4. PICK binds : binds = << now >> OBVIOUS
<1>5. IsSequence(binds) /\ binds # <<>> /\ binds[1] = now /\ 1 \in Nat /\ 1 \in 1..1
  <2>1. Len(binds) = 1 /\ IsSequence(binds) /\ binds[1] = now BY <1>4, SmallSequences
  <2> QED BY <2>1, NoKids
<1>6. Read("const", 1, binds) BY <1>1, <1>2, <1>3, <1>4
<1>7. PICK e : e = E OBVIOUS
<1>8. Born(e, 1) /\ ast'[e].k = "const" /\ ast'[e].binds = binds /\ Top = agenda[1]
  BY <1>1, <1>5, <1>6, <1>7, ReadingLooks, BornRead
<1>9. agenda # <<>> /\ Looking(Top) /\ agenda[1].op = "item" BY <1>1, <1>8, ReadingLooks
<1>10. NamedAlike(ast[e], ast'[e])
  <2>1. FrameOK(ast, agenda[1]) /\ agenda[1].e = e
    <3>1. 1 \in 1..Len(agenda) /\ agenda[1].e = E BY <1>0, <1>9, AgendaHead
    <3> QED BY <3>1, <1>7 DEF LexInv, FlowOK, Runs
  <2>2. ast[e].k = "unread" /\ e \in 1..Len(ast)
    <3>1. ast[e].k = "unread" BY <2>1, <1>9 DEF FrameOK, Looking
    <3>2. e \in 1..Len(ast) BY <1>8 DEF Born
    <3> QED BY <3>1, <3>2
  <2>3. 1 \in 1..Len(ast[e].binds)
    <3>1. Len(ast[e].binds) \in Nat \ {0} BY <1>0, <1>1, <1>7, ItemBinds
    <3> QED BY <3>1
  <2>4. "name" \in DOMAIN own BY <2>2, <2>3, <1>2, <1>7 DEF LexInv, LeavesOK
  <2>5. now.name = own.name BY <2>4, <1>3
  <2> QED BY <2>5, <1>1, <1>2, <1>5, <1>7, <1>8 DEF NamedAlike
<1>11. PICK n \in Nat : n = Len(ast) BY <1>8 DEF Born
<1>12. PICK c : c = <<Visit(n + 1)>> OBVIOUS
<1>13. Do(c) BY <1>1, <1>11, <1>12, OneFrame
<1>14. ASSUME NEW s, Sees(Meaning', s, e) PROVE Makes(ast', Meaning', e, {n + 1}, c, s, s)
  <2>1. Outer(e, 1) BY <1>8, OuterOf
  <2>2. Sees(Meaning', s, n + 1) BY <2>1, <1>5, <1>8, <1>11, <1>14, BornSees
  <2> QED BY <2>2, <1>5, <1>8, <1>11, <1>12, BornVisit
<1>15. Works(e, {n + 1}, c) BY <1>9, <1>14, WorksPlain
<1>16. {n + 1} \subseteq (Len(ast) + 1)..(Len(ast) + 1) BY <1>11
<1>17. /\ Born(E, 1) /\ ast'[E].k \in {"fn", "const", "method"}
       /\ NamedAlike(ast[E], ast'[E]) /\ Works(E, {n + 1}, c)
  BY <1>7, <1>8, <1>10, <1>15
<1> QED BY <1>0, <1>1, <1>5, <1>13, <1>16, <1>17, LexItem

LEMMA MethodLex == LexInv /\ VisitMethod => LexInv'
<1> SUFFICES ASSUME LexInv, VisitMethod PROVE LexInv'
  OBVIOUS
<1>0. ResInv /\ ResInv' BY MethodStep DEF LexInv
<1>1. PICK x \in Bound, params \in PatternLists, k \in 0..MaxOperands :
        /\ Running("item") /\ ast[E].binds = <<>>
        /\ ast' = [ast EXCEPT ![E] = Node("method", x, NewKids(k),
                       [i \in DOMAIN params |-> [params[i] EXCEPT !.mutable = TRUE]])]
                    \o [i \in 1..k |-> Unread]
        /\ Do(FnBody(params, 1, k)) /\ UNCHANGED env
  BY DEF VisitMethod
<1>2. k \in Nat BY ConstantsAssumption
<1>3. IsSequence(params) /\ Len(params) \in Nat /\ DOMAIN params = 1..Len(params)
  <2>1. params \in Seq(BinderSet) BY ConstantsAssumption
  <2> QED BY <2>1, LenProperties DEF IsSequence
<1>4. PICK m \in Nat : m = Len(params) BY <1>3
<1>5. PICK muts : muts = [i \in DOMAIN params |-> [params[i] EXCEPT !.mutable = TRUE]] OBVIOUS
<1>6. IsSequence(muts) /\ Len(muts) = m
  <2>1. muts \in [1..m -> {[params[i] EXCEPT !.mutable = TRUE] : i \in 1..m}]
    BY <1>3, <1>4, <1>5
  <2> QED BY <2>1, OfLength
<1>7. PICK node : node = Node("method", x, NewKids(k), muts) OBVIOUS
<1>8. node.kids = NewKids(k) /\ node.binds = muts /\ node.k = "method" BY <1>7 DEF Node
<1>9. ast' = [ast EXCEPT ![E] = node] \o [i \in 1..k |-> Unread] BY <1>1, <1>5, <1>7
<1>10. PICK e : e = E OBVIOUS
<1>11. Born(e, k) /\ ast'[e] = node BY <1>1, <1>2, <1>6, <1>8, <1>9, <1>10, ReadingLooks, BornIn
<1>12. ast'[e].k = "method" /\ ast'[e].binds = muts BY <1>8, <1>11
<1>13. agenda # <<>> /\ Looking(Top) /\ agenda[1].op = "item"
  <2>1. agenda # <<>> /\ Looking(Top) /\ Top.op = "item" BY <1>1, ReadingLooks
  <2> QED BY <2>1, <1>0, AgendaHead
<1>14. NamedAlike(ast[e], ast'[e]) BY <1>1, <1>10, <1>12 DEF NamedAlike
<1>15. PICK n \in Nat : n = Len(ast) BY <1>11 DEF Born
<1>16. PICK b : b = Scoped(VisitStmts(NewKids(k))) OBVIOUS
<1>17. PICK ops : ops = Scoped(Binds(e, 1, m) \o b) OBVIOUS
<1>18. m = Len(params) + 1 - 1 /\ 1 - 1 + m = Len(ast'[e].binds) /\ 1 \in Nat \ {0}
       /\ Len(ast'[e].binds) \in Nat
  BY <1>4, <1>6, <1>12
<1>19. Do(ops) BY <1>1, <1>10, <1>16, <1>17, <1>18, FnIs
<1>20. PICK V : V = (n + 1)..(n + k) OBVIOUS
<1>21. ASSUME NEW s, Sees(Meaning', s, e) PROVE Makes(ast', Meaning', e, V, ops, s, s)
  <2>1. Inner(e, 1, 1) BY <1>12, InnerOf
  <2>2. PICK w : w = <<s[1], s>> OBVIOUS
  <2>3. w[1] = s[1] BY <2>2
  <2>4. ASSUME NEW t, Bind(ast'[e].binds, e, 1, m, w, t), 1 \in 1..k
        PROVE  Sees(Meaning', t, n + 1)
    BY <2>1, <2>3, <2>4, <1>11, <1>15, <1>18, <1>21, BornSees
  <2>5. ast'[e].k \in Bodies BY <1>12 DEF Bodies
  <2> QED BY <2>2, <2>4, <2>5, <1>11, <1>15, <1>16, <1>17, <1>18, <1>20, BornFn
<1>22. Works(e, V, ops) BY <1>13, <1>21, WorksPlain
<1>23. V \subseteq (Len(ast) + 1)..(Len(ast) + k) BY <1>15, <1>20
<1>24. /\ Born(E, k) /\ ast'[E].k \in {"fn", "const", "method"}
       /\ NamedAlike(ast[E], ast'[E]) /\ Works(E, V, ops)
  BY <1>10, <1>11, <1>12, <1>14, <1>22
<1> QED BY <1>0, <1>1, <1>2, <1>19, <1>23, <1>24, LexItem

LEMMA LocalFnLex == LexInv /\ VisitLocalFn => LexInv'
<1> SUFFICES ASSUME LexInv, VisitLocalFn PROVE LexInv'
  OBVIOUS
<1>0. ResInv /\ ResInv' BY LocalFnStep DEF LexInv
<1>1. PICK x \in Bound, params \in PatternLists, k \in 0..MaxOperands :
        /\ ReadingStmt
        /\ Read("fn", k, <<Binder(x, FALSE, FALSE)>> \o params)
        /\ Do(<<Define(1)>> \o FnBody(<<Binder(x, FALSE, FALSE)>> \o params, 2, k))
        /\ UNCHANGED env
  BY DEF VisitLocalFn
<1>2. k \in Nat BY ConstantsAssumption
<1>3. PICK own : own = <<Binder(x, FALSE, FALSE)>> OBVIOUS
<1>4. IsSequence(own) /\ Len(own) = 1 /\ IsSequence(params) BY <1>3, SmallSequences
<1>5. PICK binds : binds = own \o params OBVIOUS
<1>6. IsSequence(binds) /\ Len(binds) \in Nat \ {0} BY <1>4, <1>5, OwnFirst
<1>7. Read("fn", k, binds) /\ Do(<<Define(1)>> \o FnBody(binds, 2, k)) BY <1>1, <1>3, <1>5
<1>8. PICK e : e = E OBVIOUS
<1>9. Born(e, k) /\ ast'[e].k = "fn" /\ ast'[e].binds = binds /\ Top = agenda[1]
  BY <1>1, <1>2, <1>6, <1>7, <1>8, ReadingLooks, BornRead
<1>10. agenda # <<>> /\ Looking(Top) /\ agenda[1].op = "stmt" BY <1>1, <1>9, ReadingLooks
<1>11. Parent(e) # Root BY <1>8, <1>9, <1>10, ItemFrame
<1>12. PICK n \in Nat : n = Len(ast) BY <1>9 DEF Born
<1>13. PICK l \in Nat : l = Len(binds) /\ l >= 1 BY <1>6
<1>14. PICK m \in Nat : m = l - 1 BY <1>13
<1>15. m = Len(binds) + 1 - 2 /\ 2 - 1 + m = l BY <1>13, <1>14
<1>16. PICK b : b = Scoped(VisitStmts(NewKids(k))) OBVIOUS
<1>17. PICK c : c = Scoped(Binds(e, 2, m) \o b) OBVIOUS
<1>18. PICK a : a = Binds(e, 1, 1) OBVIOUS
<1>19. Do(a \o c) BY <1>7, <1>8, <1>15, <1>16, <1>17, <1>18, FnIs, OneFrame
<1>20. PICK V : V = (n + 1)..(n + k) OBVIOUS
<1>21. /\ 1 \in Nat \ {0} /\ 1 \in Nat /\ 1 - 1 + 1 <= Len(ast'[e].binds)
       /\ Len(ast'[e].binds) \in Nat /\ 1 - 1 + 1 \in Nat /\ 1 - 1 + l = Len(ast'[e].binds)
       /\ 1 - 1 + 1 = 1 /\ 1 - 1 + l = l /\ e \in Nat
  <2>1. e \in Nat BY <1>9 DEF Born
  <2> QED BY <2>1, <1>9, <1>13
<1>22. ASSUME NEW s, Sees(Meaning', s, e)
       PROVE  \E v : Leaves(e, s, v) /\ Makes(ast', Meaning', e, V, a \o c, s, v)
  <2>1. PICK v : /\ Makes(ast', Meaning', e, {}, Binds(e, 1, 1), s, v)
                 /\ Bind(ast'[e].binds, e, 1, 1, s, v)
    BY <1>9, <1>21, BornBinds
  <2>2. Leaves(e, s, v) BY <2>1, <1>9, <1>10, <1>21, LeavesBinds
  <2>3. PICK w : w = <<s[1], v>> OBVIOUS
  <2>4. w[1] = s[1] /\ w[2] = v BY <2>3
  <2>5. PICK u : u = <<v[1], v>> OBVIOUS
  <2>6. u[1] = v[1] /\ u[2] = v BY <2>5
  <2>7. Inner(e, 1, 1) BY <1>9, <1>11, InnerOf
  <2>8. ASSUME NEW t, Bind(ast'[e].binds, e, 2, m, u, t), 1 \in 1..k
        PROVE  Sees(Meaning', t, n + 1)
    <3>1. ASSUME NEW y \in Names PROVE t[1][y] = Over(w[1][y], binds, e, y, 1, l)
      <4>1. t[1][y] = Over(u[1][y], binds, e, y, 2, l) BY <2>8, <1>9, <1>15 DEF Bind
      <4>2. u[1][y] = Over(s[1][y], binds, e, y, 1, 1) BY <2>1, <2>6, <1>9, <1>21 DEF Bind
      <4>3. Over(Over(s[1][y], binds, e, y, 1, 1), binds, e, y, 2, l)
               = Over(s[1][y], binds, e, y, 1, l)
        BY <1>13, <1>21, BindTwice
      <4> QED BY <4>1, <4>2, <4>3, <2>4
    <3>2. t[2] = w[2] BY <2>4, <2>6, <2>8 DEF Bind
    <3>3. Bind(ast'[e].binds, e, 1, l, w, t) BY <3>1, <3>2, <1>9, <1>21 DEF Bind
    <3> QED BY <3>3, <2>4, <2>7, <2>8, <1>9, <1>12, <1>21, <1>22, BornSees
  <2>9. Makes(ast', Meaning', e, V, c, v, v)
    <3>1. 2 \in Nat \ {0} /\ ast'[e].k \in Bodies BY <1>9 DEF Bodies
    <3>2. 2 - 1 + m = Len(ast'[e].binds) BY <1>9, <1>13, <1>15
    <3> QED BY <3>1, <3>2, <2>5, <2>8, <1>9, <1>12, <1>16, <1>17, <1>20, <1>21, BornFn
  <2>10. Makes(ast', Meaning', e, {}, a, s, v) BY <2>1, <1>18
  <2>11. Makes(ast', Meaning', e, {} \cup V, a \o c, s, v)
    BY <2>9, <2>10, <1>9, BornThen
  <2>12. {} \cup V = V OBVIOUS
  <2> QED BY <2>2, <2>11, <2>12
<1>23. Works(e, V, a \o c) BY <1>22 DEF Works
<1>24. V \subseteq (Len(ast) + 1)..(Len(ast) + k) BY <1>12, <1>20
<1>25. Born(E, k) /\ ast'[E].k = "fn" /\ Works(E, V, a \o c) BY <1>8, <1>9, <1>23
<1>26. PICK kind : kind = "fn" OBVIOUS
<1>27. ReadingStmt /\ kind \notin {"use", "type"} /\ Read(kind, k, binds) /\ ast'[E].k = kind
  BY <1>1, <1>7, <1>25, <1>26
<1> QED BY <1>0, <1>1, <1>2, <1>19, <1>24, <1>25, <1>27, LexRead
-----------------------------------------------------------------------------
(* Leaves                                                                  *)

Put(a, e, node) == [a EXCEPT ![e] = node]

LEMMA Replaced ==
    ASSUME NEW a, IsSequence(a), NEW n \in Nat, n = Len(a), NEW e \in 1..n, NEW node
    PROVE  /\ IsSequence(Put(a, e, node)) /\ Len(Put(a, e, node)) = n
           /\ Put(a, e, node)[e] = node
           /\ \A j \in 1..n : j # e => Put(a, e, node)[j] = a[j]
<1>0. PICK b : b = [a EXCEPT ![e] = node] OBVIOUS
<1>1. PICK S : a \in Seq(S) BY DEF IsSequence
<1>2. a \in [1..n -> S] BY <1>1, LenProperties
<1>3. PICK T : T = S \cup {node} OBVIOUS
<1>4. b \in [1..n -> T] /\ b[e] = node /\ \A j \in 1..n : j # e => b[j] = a[j]
  BY <1>0, <1>2, <1>3
<1>5. IsSequence(b) /\ Len(b) = n BY <1>4, OfLength
<1> QED BY <1>0, <1>4, <1>5 DEF Put

\* Nothing more to do.
LEMMA WorksNothing ==
    ASSUME NEW e, ast'[e].k \notin {"let", "declare", "fn"}
    PROVE  Works(e, {}, <<>>)
<1>1. PICK ops : ops = <<>> OBVIOUS
<1>2. IsSequence(ops) /\ Len(ops) = 0 BY <1>1, NoKids
<1>3. ASSUME NEW s PROVE Makes(ast', Meaning', e, {}, ops, s, s)
  <2>1. PICK W : W = [i \in 1..1 |-> s] OBVIOUS
  <2>2. W[1] = s /\ 0 + 1 = 1 BY <2>1
  <2>3. Flows(ast', Meaning', ops, W) BY <1>2 DEF Flows
  <2>4. Runs(ast', Meaning', ops, s, s) BY <2>2, <2>3, <1>2 DEF Runs
  <2> QED BY <2>4, <1>2 DEF Makes
<1>4. Works(e, {}, ops) BY <1>3, WorksPlain
<1> QED BY <1>1, <1>4

LEMMA JumpLex == LexInv /\ VisitJump => LexInv'
<1> SUFFICES ASSUME LexInv, VisitJump PROVE LexInv'
  OBVIOUS
<1>0. ResInv /\ TreeOK /\ ResInv' BY JumpStep DEF LexInv
<1>1. PICK x \in Names :
        /\ Running("expr")
        /\ ast' = Append([ast EXCEPT ![E] = Node("jump", @.name, NewKids(1), <<>>)],
                         Node("use", x, <<>>, <<>>))
        /\ Do(<<>>) /\ UNCHANGED env
  BY DEF VisitJump
<1>2. agenda # <<>> /\ Top.op = "expr" BY <1>1 DEF Running
<1>3. 1 \in 1..Len(agenda) /\ Top = agenda[1] /\ E = agenda[1].e BY <1>0, <1>2, AgendaHead
<1>4. PICK e : e = E OBVIOUS
<1>5. PICK n \in Nat : n = Len(ast) BY <1>0, ParentsFound DEF ParentsOK
<1>6. FrameOK(ast, agenda[1]) BY <1>3 DEF LexInv, FlowOK, Runs
<1>7. e \in 2..n /\ e \in 1..n
  <2>1. e \in 2..n BY <1>2, <1>3, <1>4, <1>5, <1>6 DEF FrameOK, Looking
  <2> QED BY <2>1
<1>8. PICK node : node = Node("jump", ast[e].name, NewKids(1), <<>>) OBVIOUS
<1>9. node.kids = NewKids(1) /\ node.k = "jump" /\ node.binds = <<>> BY <1>8 DEF Node
<1>10. PICK use : use = Node("use", x, <<>>, <<>>) OBVIOUS
<1>11. use.k = "use" /\ use.name = x /\ use.kids = <<>> /\ use.binds = <<>>
  BY <1>10 DEF Node
<1>12. PICK b : b = [ast EXCEPT ![e] = node] OBVIOUS
<1>13. /\ IsSequence(b) /\ Len(b) = n /\ b[e] = node
       /\ \A j \in 1..n : j # e => b[j] = ast[j]
  <2>1. IsSequence(ast) BY <1>0 DEF TreeOK
  <2>2. /\ IsSequence(Put(ast, e, node)) /\ Len(Put(ast, e, node)) = n
        /\ Put(ast, e, node)[e] = node
        /\ \A j \in 1..n : j # e => Put(ast, e, node)[j] = ast[j]
    BY <2>1, <1>5, <1>7, Replaced
  <2> QED BY <2>2, <1>12 DEF Put
<1>14. ast' = Append(b, use) BY <1>1, <1>4, <1>8, <1>10, <1>12
<1>15. /\ IsSequence(ast') /\ Len(ast') = n + 1 /\ ast'[n + 1] = use
       /\ \A j \in 1..n : ast'[j] = b[j]
  <2>1. /\ IsSequence(Append(b, use)) /\ Len(Append(b, use)) = Len(b) + 1
        /\ \A i \in 1..Len(b) : Append(b, use)[i] = b[i]
        /\ Append(b, use)[Len(b) + 1] = use
    BY <1>13, Appended
  <2> QED BY <2>1, <1>13, <1>14
<1>16. ast'[e] = node BY <1>7, <1>13, <1>15
<1>17. \A j \in (n + 1)..(n + 1) : ast'[j] = use
  <2>1. \A j \in (n + 1)..(n + 1) : j = n + 1 OBVIOUS
  <2> QED BY <2>1, <1>15
<1>18. Grew(e, 1)
  <2>1. 1 \in Nat OBVIOUS
  <2>2. NewKids(1) \in Seq(1..(n + 1)) /\ Len(NewKids(1)) = 1
        /\ \A i \in 1..1 : NewKids(1)[i] = n + i
    BY <2>1, <1>5, Kids, KidsFrom
  <2>3. IsSequence(NewKids(1)) BY <2>2 DEF IsSequence
  <2> QED BY <2>2, <2>3, <1>5, <1>9, <1>11, <1>13, <1>15, <1>16, <1>17, NoKids DEF Grew
<1>19. Reads(e, 1) BY <1>2, <1>3, <1>4, <1>9, <1>16, <1>18 DEF Reads, Looking
<1>20. Works(e, {}, <<>>) BY <1>9, <1>16, WorksNothing
<1>21. \A j \in (Len(ast) + 1)..(Len(ast) + 1) : ast'[j].name \in Names
  BY <1>5, <1>11, <1>17
<1>22. 1 \in Nat /\ {} \subseteq (Len(ast) + 1)..(Len(ast) + 1) OBVIOUS
<1>23. ast'[e].k = "jump" BY <1>9, <1>16
<1> QED BY <1>0, <1>1, <1>2, <1>19, <1>20, <1>21, <1>22, <1>23, ReadLex

\* What a name is resolved to is what it means with all the open scopes.
LEMMA SeenIs ==
    ASSUME ResInv, PlacesOK, NEW x
    PROVE  /\ Defined(x) => /\ SeenAt(Len(active), x) = symbols[Resolve(x)]
                            /\ symbols[Resolve(x)] # Undefined
           /\ ~Defined(x) => SeenAt(Len(active), x) = Undefined
<1>1. DOMAIN active = 1..Len(active) /\ Len(active) \in Nat BY Shape
<1>2. PICK T : T = Holders(x) OBVIOUS
<1>3. T = {i \in 1..Len(active) : x \in DOMAIN scopes[active[i]].bindings}
  BY <1>1, <1>2 DEF Holders
<1>4. SeenAt(Len(active), x) = IF T = {} THEN Undefined
                               ELSE symbols[scopes[active[Max(T)]].bindings[x]]
  BY <1>3 DEF SeenAt
<1>5. ASSUME Defined(x)
      PROVE  /\ SeenAt(Len(active), x) = symbols[Resolve(x)]
             /\ symbols[Resolve(x)] # Undefined
  <2>1. T # {} /\ T \subseteq 1..Len(active) BY <1>2, <1>3, <1>5 DEF Defined
  <2>2. Max(T) \in T /\ \A y \in T : y <= Max(T) BY <2>1, <1>1, MaxOf
  <2>3. PICK i : i = CHOOSE h \in T : \A j \in T : j <= h OBVIOUS
  <2>4. i \in T /\ \A j \in T : j <= i BY <2>2, <2>3
  <2>5. i = Max(T)
    <3>1. PICK m \in 1..Len(active) : m = Max(T) BY <2>1, <2>2
    <3>2. i \in 1..Len(active) /\ i <= m /\ m <= i BY <2>1, <2>2, <2>4, <3>1
    <3>3. i = m BY <3>2
    <3> QED BY <3>1, <3>3
  <2>6. Resolve(x) = scopes[active[i]].bindings[x] BY <2>3, <1>2 DEF Resolve
  <2>7. Resolve(x) \in 1..Len(symbols) BY <1>5, ResolveIn DEF DefIds
  <2> QED BY <2>1, <2>5, <2>6, <2>7, <1>4 DEF PlacesOK
<1>6. ASSUME ~Defined(x) PROVE SeenAt(Len(active), x) = Undefined
  BY <1>2, <1>4, <1>6 DEF Defined
<1> QED BY <1>5, <1>6

\* A name is looked up.
LEMMA LeafLex ==
    ASSUME LexInv, ResInv', Reading, NEW kind \in {"use", "type"}, NEW x \in Names,
           ast' = [ast EXCEPT ![E] = Node(kind, x, <<>>, <<>>)], Do(<<>>),
           UNCHANGED <<scopes, active, symbols>>,
           resolutions' = IF Defined(x) THEN Insert(resolutions, <<E, 0>>, Resolve(x))
                          ELSE resolutions,
           errors' = IF ~Defined(x) /\ kind = "use" THEN errors \cup {<<E, 0>>} ELSE errors
    PROVE  LexInv'
<1>0. ResInv /\ TreeOK /\ FlowOK /\ LeavesOK /\ PlacesOK /\ Settled BY DEF LexInv
<1>1. agenda # <<>> /\ Looking(Top) /\ Top.op \in {"expr", "stmt"}
  BY DEF Reading, Running, Looking
<1>2. 1 \in 1..Len(agenda) /\ Top = agenda[1] /\ E = agenda[1].e BY <1>0, <1>1, AgendaHead
<1>3. PICK e : e = E OBVIOUS
<1>4. PICK n \in Nat : n = Len(ast) BY <1>0, ParentsFound DEF ParentsOK
<1>5. PICK K, u : Stack(K) /\ Runs(ast, Meaning, agenda, K[Len(active)], u)
  BY <1>0 DEF FlowOK
<1>6. FrameOK(ast, agenda[1]) BY <1>2, <1>5 DEF Runs
<1>7. e \in 2..n /\ e \in 1..n /\ ast[e].kids = <<>> /\ ast[e].k = "unread"
  <2>1. e \in 2..n /\ ast[e].kids = <<>> /\ ast[e].k = "unread"
    BY <1>1, <1>2, <1>3, <1>4, <1>6 DEF FrameOK, Looking
  <2> QED BY <2>1
<1>8. PICK node : node = Node(kind, x, <<>>, <<>>) OBVIOUS
<1>9. node.kids = <<>> /\ node.k = kind /\ node.binds = <<>> /\ node.name = x
  BY <1>8 DEF Node
<1>10. ast' = [ast EXCEPT ![e] = node] BY <1>3, <1>8
<1>11. /\ IsSequence(ast') /\ Len(ast') = n /\ ast'[e] = node
       /\ \A j \in 1..n : j # e => ast'[j] = ast[j]
  <2>1. IsSequence(ast) BY <1>0 DEF TreeOK
  <2>2. /\ IsSequence(Put(ast, e, node)) /\ Len(Put(ast, e, node)) = n
        /\ Put(ast, e, node)[e] = node
        /\ \A j \in 1..n : j # e => Put(ast, e, node)[j] = ast[j]
    BY <2>1, <1>4, <1>7, Replaced
  <2> QED BY <2>2, <1>10 DEF Put
<1>12. Grew(e, 0) /\ 0 \in Nat
  <2>1. \A j \in (n + 1)..(n + 0) : FALSE OBVIOUS
  <2>2. n + 0 = n OBVIOUS
  <2> QED BY <2>1, <2>2, <1>4, <1>9, <1>11, NoKids DEF Grew
<1>13. Reads(e, 0) BY <1>1, <1>2, <1>3, <1>9, <1>11, <1>12 DEF Reads, Looking
<1>14. TreeOK' BY <1>0, <1>4, <1>7, <1>12, GrewTree
<1>15. PICK L : e \notin L /\ Kept(L) BY <1>0, <1>2, <1>5, <1>12, <1>13, MeaningsKept
<1>16. Stack(K)'
  <2>1. \A d, y : SeenAt(d, y)' = SeenAt(d, y) BY DEF SeenAt
  <2> QED BY <2>1, <1>5 DEF Stack
<1>17. FlowOK'
  <2>1. Works(e, {}, <<>>) BY <1>9, <1>11, WorksNothing
  <2>2. {} \subseteq (Len(ast) + 1)..(Len(ast) + 0) OBVIOUS
  <2>3. Runs(ast, Meaning, agenda, K[Len(active')], u) BY <1>5
  <2> QED BY <2>1, <2>2, <2>3, <1>0, <1>1, <1>12, <1>13, <1>16, FlowStep
<1>18. PICK means : means = Meaning[e][x] OBVIOUS
<1>19. SeenAt(Len(active), x) = means
  <2>1. PICK s : s = K[Len(active)] OBVIOUS
  <2>2. PICK W : W[1] = s /\ Flows(ast, Meaning, agenda, W) BY <2>1, <1>5 DEF Runs
  <2>3. Sees(Meaning, W[1], agenda[1].e) BY <2>2, <1>1, <1>2 DEF Flows
  <2>4. s[1][x] = means BY <2>2, <2>3, <1>2, <1>3, <1>18 DEF Sees
  <2>5. Len(active) \in 1..Len(active)
    <3>1. Len(active) \in Nat \ {0} BY <1>0, Shape
    <3> QED BY <3>1
  <2> QED BY <2>1, <2>4, <2>5, <1>5 DEF Stack
<1>20. Meaning'[e][x] = means
  <2>1. e \in 2..Len(ast) BY <1>4, <1>7
  <2> QED BY <2>1, <1>15, <1>18 DEF Kept
<1>21. /\ Defined(x) => means = symbols[Resolve(x)] /\ means # Undefined
       /\ ~Defined(x) => means = Undefined
  BY <1>0, <1>19, SeenIs
<1>22. <<e, 0>> \notin DOMAIN resolutions /\ <<e, 0>> \notin errors
  BY <1>0, <1>4, <1>7 DEF LeavesOK
<1>23. /\ DOMAIN resolutions' = IF Defined(x) THEN DOMAIN resolutions \cup {<<e, 0>>}
                               ELSE DOMAIN resolutions
       /\ Defined(x) => resolutions'[<<e, 0>>] = Resolve(x)
       /\ \A y \in DOMAIN resolutions : resolutions'[y] = resolutions[y]
  <2>1. CASE Defined(x)
    <3>1. PICK r : r = Insert(resolutions, <<e, 0>>, Resolve(x)) OBVIOUS
    <3>2. /\ DOMAIN r = DOMAIN resolutions \cup {<<e, 0>>} /\ r[<<e, 0>>] = Resolve(x)
          /\ \A y \in DOMAIN resolutions : y # <<e, 0>> => r[y] = resolutions[y]
      BY <3>1 DEF Insert
    <3> QED BY <2>1, <3>1, <3>2, <1>3, <1>22
  <2>2. CASE ~Defined(x) BY <2>2
  <2> QED BY <2>1, <2>2
<1>24. errors' = IF ~Defined(x) /\ kind = "use" THEN errors \cup {<<e, 0>>} ELSE errors
  BY <1>3
<1>25. \A d : d # e => <<d, 0>> # <<e, 0>> OBVIOUS
<1>26. \A d : d # e =>
          /\ <<d, 0>> \in DOMAIN resolutions' <=> <<d, 0>> \in DOMAIN resolutions
          /\ <<d, 0>> \in DOMAIN resolutions => resolutions'[<<d, 0>>] = resolutions[<<d, 0>>]
          /\ <<d, 0>> \in errors' <=> <<d, 0>> \in errors
  BY <1>23, <1>24, <1>25
<1>27. LeavesOK'
  <2>1. ASSUME NEW d \in 1..n
        PROVE  /\ <<d, 0>> \in DOMAIN resolutions' => ast'[d].k \in {"use", "type"}
               /\ <<d, 0>> \in errors' => ast'[d].k = "use"
               /\ ast'[d].k \in {"use", "type"} => ast'[d].name \in Names
               /\ ast'[d].k = "unread" =>
                     \A i \in 1..Len(ast'[d].binds) : "name" \in DOMAIN ast'[d].binds[i]
    <3>1. CASE d = e BY <3>1, <1>9, <1>11, <1>22, <1>24
    <3>2. CASE d # e BY <3>2, <1>0, <1>4, <1>11, <1>26 DEF LeavesOK
    <3> QED BY <3>1, <3>2
  <2> QED BY <2>1, <1>11 DEF LeavesOK
<1>28. ASSUME NEW d \in 2..n PROVE SettledAt(d)'
  <2>1. CASE d # e
    <3>1. UNCHANGED symbols /\ \A c \in 2..Len(ast) : c # e =>
             /\ <<c, 0>> \in DOMAIN resolutions' <=> <<c, 0>> \in DOMAIN resolutions
             /\ <<c, 0>> \in DOMAIN resolutions =>
                   resolutions'[<<c, 0>>] = resolutions[<<c, 0>>]
             /\ <<c, 0>> \in errors' <=> <<c, 0>> \in errors
      BY <1>26
    <3> QED BY <2>1, <3>1, <1>0, <1>4, <1>7, <1>12, <1>15, SettledStays
  <2>2. CASE d = e
    <3>1. /\ <<e, 0>> \in DOMAIN resolutions' <=> means # Undefined
          /\ means # Undefined => symbols'[resolutions'[<<e, 0>>]] = means
          /\ <<e, 0>> \in errors' <=> kind = "use" /\ means = Undefined
      BY <1>21, <1>22, <1>23, <1>24
    <3>2. ast'[e].name = x /\ ast'[e].k = kind BY <1>9, <1>11
    <3> QED BY <2>2, <3>1, <3>2, <1>20 DEF SettledAt
  <2> QED BY <2>1, <2>2
<1>29. Settled' BY <1>11, <1>28 DEF Settled
<1>30. PlacesOK' BY <1>0 DEF PlacesOK
<1> QED BY <1>14, <1>17, <1>27, <1>29, <1>30 DEF LexInv

LEMMA UseLex == LexInv /\ VisitUse => LexInv'
<1> SUFFICES ASSUME LexInv, VisitUse PROVE LexInv'
  OBVIOUS
<1>1. ResInv' BY UseStep DEF LexInv
<1>2. PICK x \in Names :
        /\ Reading
        /\ ast' = [ast EXCEPT ![E] = Node("use", x, <<>>, <<>>)]
        /\ IF Defined(x)
           THEN resolutions' = Insert(resolutions, <<E, 0>>, Resolve(x)) /\ UNCHANGED errors
           ELSE errors' = errors \cup {<<E, 0>>} /\ UNCHANGED resolutions
        /\ Do(<<>>)
        /\ UNCHANGED <<scopes, active, symbols>>
  BY DEF VisitUse
<1>3. PICK kind : kind = "use" OBVIOUS
<1>4. /\ resolutions' = IF Defined(x) THEN Insert(resolutions, <<E, 0>>, Resolve(x))
                        ELSE resolutions
      /\ errors' = IF ~Defined(x) /\ kind = "use" THEN errors \cup {<<E, 0>>} ELSE errors
  BY <1>2, <1>3
<1>5. kind \in {"use", "type"} /\ ast' = [ast EXCEPT ![E] = Node(kind, x, <<>>, <<>>)]
  BY <1>2, <1>3
<1> QED BY <1>1, <1>2, <1>4, <1>5, LeafLex

LEMMA TypeLex == LexInv /\ VisitType => LexInv'
<1> SUFFICES ASSUME LexInv, VisitType PROVE LexInv'
  OBVIOUS
<1>1. ResInv' BY TypeStep DEF LexInv
<1>2. PICK x \in Names :
        /\ Reading
        /\ ast' = [ast EXCEPT ![E] = Node("type", x, <<>>, <<>>)]
        /\ resolutions' = IF Defined(x) THEN Insert(resolutions, <<E, 0>>, Resolve(x))
                          ELSE resolutions
        /\ Do(<<>>)
        /\ UNCHANGED <<scopes, active, symbols, errors>>
  BY DEF VisitType
<1>3. PICK kind : kind = "type" OBVIOUS
<1>4. errors' = IF ~Defined(x) /\ kind = "use" THEN errors \cup {<<E, 0>>} ELSE errors
  BY <1>2, <1>3
<1>5. kind \in {"use", "type"} /\ ast' = [ast EXCEPT ![E] = Node(kind, x, <<>>, <<>>)]
  BY <1>2, <1>3
<1> QED BY <1>1, <1>2, <1>4, <1>5, LeafLex
-----------------------------------------------------------------------------
(* Steps that change the scopes                                            *)

\* A frame that visits nothing is done, and the others lead on from there.
LEMMA Popped ==
    ASSUME NEW a, \A p \in 1..Len(a) : Len(a[p].kids) \in Nat, NEW M, NEW ag,
           NEW s, NEW u, Runs(a, M, ag, s, u), 1 \in 1..Len(ag), ~Looking(ag[1])
    PROVE  \E v : Step(a, ag[1], s, v) /\ Runs(a, M, Tail(ag), v, u)
<1> DEFINE B == Tail(ag)
<1>1. PICK S : ag \in Seq(S) BY DEF Runs, IsSequence
<1>2. /\ B \in Seq(S) /\ Len(ag) \in Nat \ {0} /\ Len(B) \in Nat /\ Len(ag) = Len(B) + 1
      /\ \A i \in 1..Len(B) : B[i] = ag[i + 1]
  BY <1>1, HeadTailProperties, EmptySeq, LenProperties
<1> HIDE DEF B
<1>3. PICK n \in Nat : n = Len(B) BY <1>2
<1>4. Len(ag) = n + 1 /\ \A i \in 1..n : i + 1 \in 1..(n + 1) /\ B[i] = ag[i + 1]
  BY <1>2, <1>3
<1>5. PICK W : W[1] = s /\ W[Len(ag) + 1] = u /\ Flows(a, M, ag, W) BY DEF Runs
<1>6. Step(a, ag[1], s, W[2])
  <2>1. Step(a, ag[1], W[1], W[1 + 1]) BY <1>5 DEF Flows
  <2>2. 1 + 1 = 2 OBVIOUS
  <2> QED BY <2>1, <2>2, <1>5
<1>7. PICK X : X = [i \in 1..(n + 1) |-> W[i + 1]] OBVIOUS
<1>8. \A i \in 1..(n + 1) : X[i] = W[i + 1] BY <1>7
<1>9. X[1] = W[2] /\ X[Len(B) + 1] = u
  <2>1. 1 \in 1..(n + 1) /\ n + 1 \in 1..(n + 1) /\ 1 + 1 = 2 OBVIOUS
  <2> QED BY <2>1, <1>3, <1>4, <1>5, <1>8
<1>10. ASSUME NEW i \in 1..n
       PROVE  /\ Step(a, B[i], X[i], X[i + 1])
              /\ Looking(B[i]) /\ (i = 1 \/ B[i - 1].op # "stmt") => Sees(M, X[i], B[i].e)
  <2>1. i \in 1..(n + 1) /\ i + 1 \in 1..(n + 1) OBVIOUS
  <2>2. X[i] = W[i + 1] /\ X[i + 1] = W[(i + 1) + 1] BY <2>1, <1>8
  <2>3. /\ Step(a, ag[i + 1], W[i + 1], W[(i + 1) + 1])
        /\ Looking(ag[i + 1]) /\ (i + 1 = 1 \/ ag[(i + 1) - 1].op # "stmt") =>
              Sees(M, W[i + 1], ag[i + 1].e)
    BY <2>1, <1>4, <1>5 DEF Flows
  <2>4. (i + 1) - 1 = i OBVIOUS
  <2>5. i = 1 \/ B[i - 1].op # "stmt" => ag[i].op # "stmt"
    <3>1. CASE i = 1 BY <3>1 DEF Looking
    <3>2. CASE i # 1
      <4>1. i - 1 \in 1..n /\ (i - 1) + 1 = i BY <3>2
      <4> QED BY <3>2, <4>1, <1>4
    <3> QED BY <3>1, <3>2
  <2> QED BY <2>2, <2>3, <2>4, <2>5, <1>4
<1>11. Flows(a, M, B, X) BY <1>3, <1>10 DEF Flows
<1>12. ASSUME NEW i \in 1..n
       PROVE  /\ FrameOK(a, B[i])
              /\ \A j \in 1..n : i < j /\ Looking(B[i]) => B[j].e # B[i].e
              /\ B[i].op = "stmt" => Continues(a, B, i)
  <2>1. i + 1 \in 1..Len(ag) BY <1>4
  <2>2. FrameOK(a, B[i]) BY <2>1, <1>4 DEF Runs
  <2>3. ASSUME NEW j \in 1..n, i < j, Looking(B[i]) PROVE B[j].e # B[i].e
    <3>1. j + 1 \in 1..Len(ag) /\ i + 1 < j + 1 BY <2>3, <1>4
    <3> QED BY <2>1, <2>3, <3>1, <1>4 DEF Runs
  <2>4. ASSUME B[i].op = "stmt" PROVE Continues(a, B, i)
    <3>1. Continues(a, ag, i + 1) BY <2>1, <2>4, <1>4 DEF Runs
    <3>2. PICK p \in 2..Len(a) : \E k \in 1..Len(a[p].kids) : Followed(a, ag, i + 1, p, k)
      BY <3>1 DEF Continues
    <3>3. PICK k \in 1..Len(a[p].kids) : Followed(a, ag, i + 1, p, k) BY <3>2
    <3>4. PICK d \in Nat : d = Len(a[p].kids) - k
      <4>1. p \in 1..Len(a) OBVIOUS
      <4>2. Len(a[p].kids) - k \in Nat BY <4>1
      <4> QED BY <4>2
    <3>5. /\ a[p].k \in Bodies /\ a[p].kids[k] = ag[i + 1].e
          /\ (i + 1) + d + 1 <= n + 1
          /\ \A j \in 1..d : ag[(i + 1) + j].op = "stmt"
                             /\ ag[(i + 1) + j].e = a[p].kids[k + j]
          /\ ag[(i + 1) + d + 1].op = "exit"
      BY <3>3, <3>4, <1>4 DEF Followed
    <3>6. i + d + 1 <= n BY <3>5
    <3>7. \A j \in 1..d : i + j \in 1..n /\ (i + j) + 1 = (i + 1) + j BY <3>6
    <3>8. i + d + 1 \in 1..n /\ (i + d + 1) + 1 = (i + 1) + d + 1 BY <3>6
    <3>9. \A j \in 1..d : B[i + j].op = "stmt" /\ B[i + j].e = a[p].kids[k + j]
      <4> SUFFICES ASSUME NEW j \in 1..d
                   PROVE  B[i + j].op = "stmt" /\ B[i + j].e = a[p].kids[k + j]
        OBVIOUS
      <4>1. i + j \in 1..n /\ (i + j) + 1 = (i + 1) + j BY <3>7
      <4>2. B[i + j] = ag[(i + 1) + j] BY <4>1, <1>4
      <4>3. ag[(i + 1) + j].op = "stmt" /\ ag[(i + 1) + j].e = a[p].kids[k + j] BY <3>5
      <4> QED BY <4>2, <4>3
    <3>10. B[i + d + 1].op = "exit" BY <3>5, <3>8, <1>4
    <3>11. Followed(a, B, i, p, k)
      BY <3>4, <3>5, <3>6, <3>9, <3>10, <1>3, <1>4 DEF Followed
    <3> QED BY <3>11 DEF Continues
  <2> QED BY <2>2, <2>3, <2>4
<1>13. IsSequence(B) BY <1>2 DEF IsSequence
<1>14. Runs(a, M, B, W[2], u) BY <1>3, <1>9, <1>11, <1>12, <1>13 DEF Runs
<1> QED BY <1>6, <1>14 DEF B

\* The same tree says the same.
LEMMA SameTree ==
    ASSUME UNCHANGED ast
    PROVE  Meaning' = Meaning /\ \A e : Parent(e)' = Parent(e)
<1>1. \A e : Parent(e)' = Parent(e) BY DEF Parent
<1>2. Meaning' = Meaning
  BY DEF Meaning, BoundNextTo, BoundAfter, BoundFor, ModuleItem, Parent, Place, Latest, Root
<1> QED BY <1>1, <1>2

LEMMA FrameDone ==
    ASSUME ResInv, TreeOK, agenda # <<>>, ~Looking(Top), Do(<<>>), UNCHANGED ast,
           NEW s, NEW u, Runs(ast, Meaning, agenda, s, u)
    PROVE  \E v : Step(ast, Top, s, v) /\ Runs(ast', Meaning', agenda', v, u)
<1>1. 1 \in 1..Len(agenda) /\ Top = agenda[1] BY AgendaHead
<1>2. \A p \in 1..Len(ast) : Len(ast[p].kids) \in Nat BY ParentsFound DEF ParentsOK
<1>3. PICK v : Step(ast, agenda[1], s, v) /\ Runs(ast, Meaning, Tail(agenda), v, u)
  BY <1>1, <1>2, Popped
<1>4. agenda' = Tail(agenda)
  <2>1. PICK t : t = Tail(agenda) OBVIOUS
  <2>2. IsSequence(t) BY <1>3, <2>1 DEF Runs
  <2>3. PICK S : t \in Seq(S) BY <2>2 DEF IsSequence
  <2>4. agenda' = <<>> \o t BY <2>1 DEF Do
  <2> QED BY <2>1, <2>3, <2>4, ConcatEmptySeq
<1>5. ast' = ast /\ Meaning' = Meaning BY SameTree
<1> QED BY <1>1, <1>3, <1>4, <1>5

\* A name that no scope binds anew means what it meant.
LEMMA SeenStays ==
    ASSUME ResInv, NEW x, NEW d \in 1..Len(active), NEW c \in Nat, d <= c,
           \A i \in 1..d :
              /\ active'[i] = active[i]
              /\ x \in DOMAIN scopes'[active[i]].bindings <=>
                    x \in DOMAIN scopes[active[i]].bindings
              /\ x \in DOMAIN scopes[active[i]].bindings =>
                    scopes'[active[i]].bindings[x] = scopes[active[i]].bindings[x],
           \A i \in (d + 1)..c : x \notin DOMAIN scopes'[active'[i]].bindings,
           \A id \in 1..Len(symbols) : symbols'[id] = symbols[id]
    PROVE  SeenAt(c, x)' = SeenAt(d, x)
<1>1. PICK T : T = {i \in 1..d : x \in DOMAIN scopes[active[i]].bindings} OBVIOUS
<1>2. SeenAt(d, x) = IF T = {} THEN Undefined ELSE symbols[scopes[active[Max(T)]].bindings[x]]
  BY <1>1 DEF SeenAt
<1>3. PICK U : U = {i \in 1..c : x \in DOMAIN scopes'[active'[i]].bindings} OBVIOUS
<1>4. SeenAt(c, x)' = IF U = {} THEN Undefined
                      ELSE symbols'[scopes'[active'[Max(U)]].bindings[x]]
  BY <1>3 DEF SeenAt
<1>5. Len(active) \in Nat BY Shape
<1>6. U = T
  <2>1. \A i \in 1..c : i \in 1..d \/ i \in (d + 1)..c BY <1>5
  <2>2. \A i \in 1..d : i \in 1..c BY <1>5
  <2> QED BY <2>1, <2>2, <1>1, <1>3
<1>7. CASE T # {}
  <2>1. T \subseteq 1..d /\ d \in Nat BY <1>1, <1>5
  <2>2. Max(T) \in T BY <2>1, <1>7, MaxOf
  <2>3. PICK m \in T : m = Max(T) BY <2>2
  <2>4. m \in 1..d /\ x \in DOMAIN scopes[active[m]].bindings BY <2>3, <1>1
  <2>5. active[m] \in DOMAIN scopes
    <3>1. m \in 1..Len(active) BY <2>4, <1>5
    <3> QED BY <3>1, Shape
  <2>6. scopes[active[m]].bindings[x] \in 1..Len(symbols)
    BY <2>4, <2>5 DEF ResInv, TypeOK, DefIds
  <2>7. SeenAt(d, x) = symbols[scopes[active[m]].bindings[x]] BY <2>3, <1>2, <1>7
  <2>8. SeenAt(c, x)' = symbols'[scopes'[active'[m]].bindings[x]] BY <2>3, <1>4, <1>6, <1>7
  <2>9. scopes'[active'[m]].bindings[x] = scopes[active[m]].bindings[x] BY <2>4
  <2> QED BY <2>6, <2>7, <2>8, <2>9
<1>8. CASE T = {} BY <1>2, <1>4, <1>6, <1>8
<1> QED BY <1>7, <1>8
\* What was looked up stays so when nothing is.
LEMMA LookupsStay ==
    ASSUME LexInv, UNCHANGED <<ast, errors>>,
           \A e : /\ <<e, 0>> \in DOMAIN resolutions' <=> <<e, 0>> \in DOMAIN resolutions
                  /\ <<e, 0>> \in DOMAIN resolutions =>
                        resolutions'[<<e, 0>>] = resolutions[<<e, 0>>],
           \A id \in 1..Len(symbols) : symbols'[id] = symbols[id]
    PROVE  TreeOK' /\ LeavesOK' /\ Settled'
<1>1. TreeOK' BY DEF LexInv, TreeOK
<1>2. ast' = ast /\ errors' = errors OBVIOUS
<1>3. LeavesOK' BY <1>2 DEF LexInv, LeavesOK
<1>4. ASSUME NEW e \in 2..Len(ast) PROVE SettledAt(e)'
  <2>1. SettledAt(e) BY DEF LexInv, Settled
  <2>2. Meaning' = Meaning /\ Parent(e)' = Parent(e) BY SameTree
  <2>3. CASE ast[e].k \in {"use", "type"} /\ ast[Parent(e)].k # "jump"
    <3>1. PICK means : means = Meaning[e][ast[e].name] OBVIOUS
    <3>2. /\ <<e, 0>> \in DOMAIN resolutions <=> means # Undefined
          /\ means # Undefined => symbols[resolutions[<<e, 0>>]] = means
          /\ <<e, 0>> \in errors <=> ast[e].k = "use" /\ means = Undefined
      BY <2>1, <2>3, <3>1 DEF SettledAt
    <3>3. \A span \in DOMAIN resolutions : resolutions[span] \in 1..Len(symbols)
      BY DEF LexInv, ResInv, TypeOK, DefIds
    <3>4. means # Undefined => symbols'[resolutions'[<<e, 0>>]] = means BY <3>2, <3>3
    <3>5. means = Meaning'[e][ast'[e].name] BY <3>1, <2>2, <1>2
    <3>6. /\ <<e, 0>> \in DOMAIN resolutions' <=> means # Undefined
          /\ <<e, 0>> \in errors' <=> ast'[e].k = "use" /\ means = Undefined
      BY <3>2, <1>2
    <3> QED BY <3>4, <3>5, <3>6 DEF SettledAt
  <2>4. CASE ~(ast[e].k \in {"use", "type"} /\ ast[Parent(e)].k # "jump")
    <3>1. ~(ast'[e].k \in {"use", "type"} /\ ast'[Parent(e)'].k # "jump")
      BY <2>2, <2>4, <1>2
    <3> QED BY <3>1 DEF SettledAt
  <2> QED BY <2>3, <2>4
<1>5. Settled' BY <1>2, <1>4 DEF Settled
<1> QED BY <1>1, <1>3, <1>5

LEMMA EnterLex == LexInv /\ EnterScope => LexInv'
<1> SUFFICES ASSUME LexInv, EnterScope PROVE LexInv'
  OBVIOUS
<1>0. ResInv /\ TreeOK /\ FlowOK /\ PlacesOK /\ ResInv' BY EnterStep DEF LexInv
<1>1. PICK new : new = [parent |-> active[Len(active)], bindings |-> <<>>] OBVIOUS
<1>2. /\ agenda # <<>> /\ Top.op = "enter" /\ ~Looking(Top)
      /\ scopes' = Append(scopes, new) /\ active' = Append(active, Len(scopes) + 1)
      /\ Do(<<>>) /\ UNCHANGED <<ast, symbols, resolutions, errors>>
  BY <1>1 DEF EnterScope, Running, Looking
<1>3. PICK n \in Nat \ {0} : n = Len(active) BY <1>0, Shape
<1>4. PICK m \in Nat : m = Len(scopes) BY <1>0, Shape
<1>5. \A x : x \notin DOMAIN new.bindings BY <1>1
<1>6. IsSequence(scopes) /\ IsSequence(active) /\ \A i \in 1..n : active[i] \in 1..m
  BY <1>0, <1>3, <1>4, Shape DEF IsSequence
<1>7. (\A i \in 1..m : scopes'[i] = scopes[i]) /\ scopes'[m + 1] = new
  BY <1>2, <1>4, <1>6, Appended
<1>8. Len(active') = n + 1 /\ (\A i \in 1..n : active'[i] = active[i]) /\ active'[n + 1] = m + 1
  BY <1>2, <1>3, <1>4, <1>6, Appended
<1>9. PICK K, u : Stack(K) /\ Runs(ast, Meaning, agenda, K[Len(active)], u)
  BY <1>0 DEF FlowOK
<1>10. PICK s : s = K[n] OBVIOUS
<1>11. PICK v : Step(ast, Top, s, v) /\ Runs(ast', Meaning', agenda', v, u)
  BY <1>0, <1>2, <1>3, <1>9, <1>10, FrameDone
<1>12. v = <<s[1], s>> BY <1>2, <1>11 DEF Step
<1>13. PICK J : J = [d \in 0..(n + 1) |-> IF d = n + 1 THEN v ELSE K[d]] OBVIOUS
<1>14. J[n + 1] = v /\ \A d \in 0..n : J[d] = K[d]
  <2>1. \A d \in 0..n : d \in 0..(n + 1) /\ d # n + 1 OBVIOUS
  <2>2. n + 1 \in 0..(n + 1) OBVIOUS
  <2> QED BY <2>1, <2>2, <1>13
<1>15. \A i \in 1..n : scopes'[active[i]] = scopes[active[i]] BY <1>6, <1>7
<1>16. ASSUME NEW d \in 1..n, NEW x PROVE SeenAt(d, x)' = SeenAt(d, x)
  <2>1. \A i \in 1..d : i \in 1..n OBVIOUS
  <2>2. \A i \in (d + 1)..d : FALSE OBVIOUS
  <2>3. d \in Nat /\ d <= d OBVIOUS
  <2> QED BY <2>1, <2>2, <2>3, <1>0, <1>2, <1>3, <1>8, <1>15, SeenStays
<1>17. ASSUME NEW x PROVE SeenAt(n + 1, x)' = SeenAt(n, x)
  <2>1. \A i \in (n + 1)..(n + 1) : i = n + 1 OBVIOUS
  <2>2. \A i \in (n + 1)..(n + 1) : x \notin DOMAIN scopes'[active'[i]].bindings
    BY <2>1, <1>5, <1>7, <1>8
  <2>3. n \in 1..Len(active) /\ n + 1 \in Nat /\ n <= n + 1 BY <1>3
  <2> QED BY <2>2, <2>3, <1>0, <1>2, <1>8, <1>15, SeenStays
<1>18. Stack(J)'
  <2>1. ASSUME NEW d \in 1..(n + 1)
        PROVE  J[d][2] = J[d - 1] /\ \A x \in Names : J[d][1][x] = SeenAt(d, x)'
    <3>1. CASE d \in 1..n
      <4>1. d \in 0..n /\ d - 1 \in 0..n BY <3>1
      <4>2. K[d][2] = K[d - 1] /\ \A x \in Names : K[d][1][x] = SeenAt(d, x)
        BY <3>1, <1>3, <1>9 DEF Stack
      <4> QED BY <3>1, <4>1, <4>2, <1>14, <1>16
    <3>2. CASE d = n + 1
      <4>1. d - 1 = n /\ n \in 0..n /\ n \in 1..n BY <3>2
      <4>2. J[d][2] = J[d - 1] BY <3>2, <4>1, <1>10, <1>12, <1>14
      <4>3. \A x \in Names : K[n][1][x] = SeenAt(n, x) BY <4>1, <1>3, <1>9 DEF Stack
      <4>4. J[d][1] = K[n][1] BY <3>2, <1>10, <1>12, <1>14
      <4> QED BY <3>2, <4>2, <4>3, <4>4, <1>17
    <3> QED BY <3>1, <3>2
  <2> QED BY <2>1, <1>8 DEF Stack
<1>19. FlowOK' BY <1>8, <1>11, <1>14, <1>18 DEF FlowOK
<1>20. TreeOK' /\ LeavesOK' /\ Settled' BY <1>2, LookupsStay
<1>21. PlacesOK' BY <1>0, <1>2 DEF PlacesOK
<1> QED BY <1>0, <1>19, <1>20, <1>21 DEF LexInv

LEMMA ExitLex == LexInv /\ ExitScope => LexInv'
<1> SUFFICES ASSUME LexInv, ExitScope PROVE LexInv'
  OBVIOUS
<1>0. ResInv /\ TreeOK /\ FlowOK /\ PlacesOK /\ ResInv' BY ExitStep DEF LexInv
<1>1. /\ agenda # <<>> /\ Top.op = "exit" /\ ~Looking(Top)
      /\ active' = SubSeq(active, 1, Len(active) - 1)
      /\ Do(<<>>) /\ UNCHANGED <<ast, scopes, symbols, resolutions, errors>>
  BY DEF ExitScope, Running, Looking
<1>2. PICK n \in Nat \ {0} : n = Len(active) BY <1>0, Shape
<1>3. Len(active') = n - 1 /\ n - 1 \in Nat /\ \A i \in 1..(n - 1) : active'[i] = active[i]
  <2>1. 1 \in Int /\ n - 1 \in Int /\ \A i \in 1..(n - 1) : active[i] \in Nat
    <3>1. active \in Seq(Nat) BY <1>0, Shape
    <3>2. \A i \in 1..(n - 1) : i \in 1..n OBVIOUS
    <3> QED BY <3>1, <3>2, <1>2, ElementOfSeq
  <2>2. /\ Len(active') = IF 1 <= n - 1 THEN n - 1 - 1 + 1 ELSE 0
        /\ \A i \in 1..(n - 1 - 1 + 1) : active'[i] = active[1 + i - 1]
    BY <2>1, <1>1, <1>2, SubSeqProperties
  <2> QED BY <2>2
<1>4. PICK K, u : Stack(K) /\ Runs(ast, Meaning, agenda, K[Len(active)], u)
  BY <1>0 DEF FlowOK
<1>5. PICK s : s = K[n] OBVIOUS
<1>6. PICK v : Step(ast, Top, s, v) /\ Runs(ast', Meaning', agenda', v, u)
  BY <1>0, <1>1, <1>2, <1>4, <1>5, FrameDone
<1>7. v = K[n - 1]
  <2>1. v = s[2] BY <1>1, <1>6 DEF Step
  <2>2. n \in 1..n OBVIOUS
  <2>3. K[n][2] = K[n - 1] BY <2>2, <1>2, <1>4 DEF Stack
  <2> QED BY <2>1, <2>3, <1>5
<1>8. Stack(K)'
  <2>1. ASSUME NEW d \in 1..(n - 1)
        PROVE  K[d][2] = K[d - 1] /\ \A x \in Names : K[d][1][x] = SeenAt(d, x)'
    <3>1. d \in 1..n /\ d \in Nat /\ d <= d /\ \A i \in 1..d : i \in 1..(n - 1) OBVIOUS
    <3>2. \A i \in (d + 1)..d : FALSE OBVIOUS
    <3>3. \A x : SeenAt(d, x)' = SeenAt(d, x)
      BY <3>1, <3>2, <1>0, <1>1, <1>2, <1>3, SeenStays
    <3>4. K[d][2] = K[d - 1] /\ \A x \in Names : K[d][1][x] = SeenAt(d, x)
      BY <3>1, <1>2, <1>4 DEF Stack
    <3> QED BY <3>3, <3>4
  <2> QED BY <2>1, <1>3 DEF Stack
<1>9. FlowOK' BY <1>3, <1>6, <1>7, <1>8 DEF FlowOK
<1>10. TreeOK' /\ LeavesOK' /\ Settled' BY <1>1, LookupsStay
<1>11. PlacesOK' BY <1>0, <1>1 DEF PlacesOK
<1> QED BY <1>0, <1>9, <1>10, <1>11 DEF LexInv
LEMMA DefineLex == LexInv /\ DefineName => LexInv'
<1> SUFFICES ASSUME LexInv, DefineName PROVE LexInv'
  OBVIOUS
<1>0. ResInv /\ TreeOK /\ FlowOK /\ PlacesOK /\ ResInv' BY DefineStep DEF LexInv
<1>1. PICK n \in Nat \ {0} : n = Len(active) BY <1>0, Shape
<1>2. PICK m \in Nat : m = Len(scopes) BY <1>0, Shape
<1>3. PICK k \in Nat : k = Len(symbols) BY <1>0, Shape
<1>4. PICK name, e, h : name = ast[E].binds[Top.i].name /\ e = E /\ h = Top.i OBVIOUS
<1>5. PICK inner : inner = active[n] OBVIOUS
<1>6. PICK bound : bound = Insert(scopes[inner].bindings, name, k + 1) OBVIOUS
<1>7. PICK span : span = <<e, h>> OBVIOUS
<1>8. /\ agenda # <<>> /\ Top.op = "define" /\ ~Looking(Top) /\ Do(<<>>)
      /\ symbols' = Append(symbols, span)
      /\ scopes' = [scopes EXCEPT ![inner].bindings = bound]
      /\ \/ resolutions' = Insert(resolutions, span, k + 1)
         \/ resolutions' = resolutions
      /\ UNCHANGED <<ast, active, errors>>
  BY <1>1, <1>3, <1>4, <1>5, <1>6, <1>7 DEF DefineName, Running, NextId, Looking
<1>9. IsSequence(symbols) /\ (\A i \in 1..n : active[i] \in 1..m) /\ inner \in 1..m
  <2>1. IsSequence(symbols) /\ \A i \in 1..n : active[i] \in 1..m BY <1>0, <1>1, <1>2, Shape
  <2>2. n \in 1..n OBVIOUS
  <2> QED BY <2>1, <2>2, <1>5
<1>10. /\ Len(symbols') = k + 1 /\ symbols'[k + 1] = span
       /\ \A id \in 1..k : symbols'[id] = symbols[id]
  BY <1>3, <1>8, <1>9, Appended
<1>11. scopes'[inner].bindings = bound /\ \A s \in 1..m : s # inner => scopes'[s] = scopes[s]
  <2>1. \A s \in 1..m :
          scopes[s] = [parent |-> scopes[s].parent, bindings |-> scopes[s].bindings]
    BY <1>0, <1>2 DEF ResInv, StackOK
  <2>2. IsSequence(scopes) /\ DOMAIN scopes = 1..m BY <1>0, <1>2, Shape
  <2>3. PICK old : old = scopes[inner] OBVIOUS
  <2>4. PICK p, b : old = [parent |-> p, bindings |-> b] BY <2>1, <2>3, <1>9
  <2>5. PICK new : new = [old EXCEPT !.bindings = bound] OBVIOUS
  <2>6. new.bindings = bound BY <2>4, <2>5
  <2>7. scopes' = [scopes EXCEPT ![inner] = new] BY <2>3, <2>5, <1>8
  <2>8. scopes'[inner] = new /\ \A s \in 1..m : s # inner => scopes'[s] = scopes[s]
    BY <2>2, <2>7, <1>9
  <2> QED BY <2>6, <2>8
<1>12. /\ DOMAIN bound = DOMAIN scopes[inner].bindings \cup {name} /\ bound[name] = k + 1
       /\ \A x \in DOMAIN scopes[inner].bindings :
             x # name => bound[x] = scopes[inner].bindings[x]
  <2>1. PICK f : f = scopes[inner].bindings OBVIOUS
  <2>2. bound = Insert(f, name, k + 1) BY <2>1, <1>6
  <2>3. /\ DOMAIN bound = DOMAIN f \cup {name} /\ bound[name] = k + 1
        /\ \A x \in DOMAIN f : x # name => bound[x] = f[x]
    BY <2>2 DEF Insert
  <2> QED BY <2>1, <2>3
<1>13. PICK K, u : Stack(K) /\ Runs(ast, Meaning, agenda, K[Len(active)], u)
  BY <1>0 DEF FlowOK
<1>14. PICK s : s = K[n] OBVIOUS
<1>15. PICK v : Step(ast, Top, s, v) /\ Runs(ast', Meaning', agenda', v, u)
  BY <1>0, <1>1, <1>8, <1>13, <1>14, FrameDone
<1>16. /\ v[2] = s[2]
       /\ \A x \in Names : v[1][x] = IF x = name THEN span ELSE s[1][x]
  <2>1. /\ v[2] = s[2]
        /\ \A x \in Names :
              v[1][x] = IF x = ast[Top.e].binds[Top.i].name THEN <<Top.e, Top.i>> ELSE s[1][x]
    BY <1>8, <1>15 DEF Step
  <2> QED BY <2>1, <1>4, <1>7 DEF E
<1>17. e \in 2..Len(ast) /\ h \in 1..Len(ast[e].binds)
  <2>1. 1 \in 1..Len(agenda) /\ Top = agenda[1] BY <1>0, <1>8, AgendaHead
  <2>2. FrameOK(ast, Top) BY <2>1, <1>13 DEF Runs
  <2> QED BY <2>2, <1>4, <1>8 DEF FrameOK, Looking, E
<1>18. h # 0 /\ span # Undefined
  <2>1. h # 0 BY <1>17
  <2>2. e # -1 BY <1>17
  <2> QED BY <2>1, <2>2, <1>7 DEF Undefined
<1>19. \A i \in 1..(n - 1) : active[i] \in 1..m /\ active[i] # inner
  <2>1. /\ \A i \in 1..n : active[i] \in Nat
        /\ \A i \in 1..(n - 1) : active[i] < active[i + 1]
    BY <1>0, <1>1, <1>9 DEF ResInv, StackOK
  <2> DEFINE P(i) == active[i] < active[n]
             T == {i \in 1..(n - 1) : ~P(i)}
  <2>2. ASSUME T # {} PROVE FALSE
    <3>1. PICK w \in Nat : w = n - 1 BY <1>1
    <3>2. PICK X : X = T OBVIOUS
    <3>3. X \subseteq 1..w /\ X # {} BY <2>2, <3>1, <3>2
    <3>4. PICK i \in X : \A y \in X : y <= i BY <3>1, <3>3, Greatest
    <3>5. i \in 1..(n - 1) /\ ~P(i) BY <3>2, <3>4
    <3>6. active[i] < active[i + 1] /\ active[i] \in Nat /\ active[i + 1] \in Nat
          /\ active[n] \in Nat
      <4>1. i \in 1..n /\ i + 1 \in 1..n /\ n \in 1..n BY <3>5
      <4> QED BY <4>1, <3>5, <2>1
    <3>7. CASE i + 1 = n BY <3>5, <3>6, <3>7
    <3>8. CASE i + 1 # n
      <4>1. i + 1 \in 1..(n - 1) BY <3>5, <3>8
      <4>2. i + 1 \notin X BY <3>4, <3>5
      <4>3. P(i + 1) BY <4>1, <4>2, <3>2
      <4> QED BY <4>3, <3>5, <3>6
    <3> QED BY <3>7, <3>8
  <2>3. ASSUME NEW i \in 1..(n - 1) PROVE active[i] \in 1..m /\ active[i] # inner
    <3>1. P(i) BY <2>2
    <3>2. i \in 1..n /\ n \in 1..n OBVIOUS
    <3>3. active[i] \in Nat /\ active[n] \in Nat BY <3>2, <2>1
    <3>4. active[i] # active[n] BY <3>1, <3>3
    <3> QED BY <3>2, <3>4, <1>5, <1>9
  <2> QED BY <2>3
<1>20. \A i \in 1..(n - 1) : scopes'[active[i]] = scopes[active[i]] BY <1>11, <1>19
<1>21. ASSUME NEW d \in 1..(n - 1), NEW x PROVE SeenAt(d, x)' = SeenAt(d, x)
  <2>1. d \in 1..Len(active) /\ d \in Nat /\ d <= d BY <1>1
  <2>2. \A i \in 1..d : i \in 1..(n - 1) OBVIOUS
  <2>3. \A i \in (d + 1)..d : FALSE OBVIOUS
  <2> QED BY <2>1, <2>2, <2>3, <1>0, <1>3, <1>8, <1>10, <1>20, SeenStays
<1>22. ASSUME NEW x, x # name PROVE SeenAt(n, x)' = SeenAt(n, x)
  <2>1. n \in 1..Len(active) /\ n \in Nat /\ n <= n BY <1>1
  <2>2. \A i \in (n + 1)..n : FALSE OBVIOUS
  <2>3. ASSUME NEW i \in 1..n
        PROVE  /\ active'[i] = active[i]
               /\ x \in DOMAIN scopes'[active[i]].bindings <=>
                     x \in DOMAIN scopes[active[i]].bindings
               /\ x \in DOMAIN scopes[active[i]].bindings =>
                     scopes'[active[i]].bindings[x] = scopes[active[i]].bindings[x]
    <3>1. CASE i = n BY <3>1, <1>5, <1>8, <1>11, <1>12, <1>22
    <3>2. CASE i \in 1..(n - 1) BY <3>2, <1>8, <1>20
    <3> QED BY <3>1, <3>2
  <2> QED BY <2>1, <2>2, <2>3, <1>0, <1>3, <1>10, SeenStays
<1>23. SeenAt(n, name)' = span
  <2>1. PICK T : T = {i \in 1..n : name \in DOMAIN scopes'[active[i]].bindings} OBVIOUS
  <2>2. n \in T
    <3>1. n \in 1..n OBVIOUS
    <3>2. name \in DOMAIN scopes'[active[n]].bindings BY <1>5, <1>11, <1>12
    <3> QED BY <3>1, <3>2, <2>1
  <2>3. T \subseteq 1..n /\ T # {} BY <2>1, <2>2
  <2>4. Max(T) \in T /\ \A y \in T : y <= Max(T) BY <2>3, MaxOf
  <2>5. PICK w \in 1..n : w = Max(T) BY <2>3, <2>4
  <2>6. n <= w BY <2>2, <2>4, <2>5
  <2>7. w = n BY <2>6
  <2>8. SeenAt(n, name)' = symbols'[scopes'[active[Max(T)]].bindings[name]]
    BY <2>1, <2>2, <1>8 DEF SeenAt
  <2>9. scopes'[active[Max(T)]].bindings[name] = k + 1 BY <2>5, <2>7, <1>5, <1>11, <1>12
  <2> QED BY <2>8, <2>9, <1>10
<1>24. PICK J : J = [d \in 0..n |-> IF d = n THEN v ELSE K[d]] OBVIOUS
<1>25. J[n] = v /\ \A d \in 0..(n - 1) : J[d] = K[d]
  <2>1. \A d \in 0..(n - 1) : d \in 0..n /\ d # n OBVIOUS
  <2>2. n \in 0..n OBVIOUS
  <2> QED BY <2>1, <2>2, <1>24
<1>26. Stack(J)'
  <2>1. ASSUME NEW d \in 1..n
        PROVE  J[d][2] = J[d - 1] /\ \A x \in Names : J[d][1][x] = SeenAt(d, x)'
    <3>1. d - 1 \in 0..(n - 1) BY <1>1
    <3>2. K[d][2] = K[d - 1] /\ \A x \in Names : K[d][1][x] = SeenAt(d, x)
      BY <1>1, <1>13 DEF Stack
    <3>3. CASE d \in 1..(n - 1)
      <4>1. d \in 0..(n - 1) BY <3>3
      <4> QED BY <3>1, <3>2, <3>3, <4>1, <1>21, <1>25
    <3>4. CASE d = n
      <4>1. J[d][2] = J[d - 1] BY <3>1, <3>2, <3>4, <1>14, <1>16, <1>25
      <4>2. ASSUME NEW x \in Names PROVE J[d][1][x] = SeenAt(d, x)'
        <5>1. J[d][1][x] = IF x = name THEN span ELSE s[1][x] BY <3>4, <1>16, <1>25
        <5>2. s[1][x] = SeenAt(n, x) BY <3>2, <3>4, <1>14
        <5>3. CASE x = name BY <5>1, <5>3, <3>4, <1>23
        <5>4. CASE x # name BY <5>1, <5>2, <5>4, <3>4, <1>22
        <5> QED BY <5>3, <5>4
      <4> QED BY <4>1, <4>2
    <3> QED BY <3>3, <3>4
  <2>2. Len(active') = n BY <1>1, <1>8
  <2> QED BY <2>1, <2>2 DEF Stack
<1>27. FlowOK'
  <2>1. Len(active') = n BY <1>1, <1>8
  <2> QED BY <2>1, <1>15, <1>25, <1>26 DEF FlowOK
<1>28. ASSUME NEW d
       PROVE  /\ <<d, 0>> \in DOMAIN resolutions' <=> <<d, 0>> \in DOMAIN resolutions
              /\ <<d, 0>> \in DOMAIN resolutions =>
                    resolutions'[<<d, 0>>] = resolutions[<<d, 0>>]
  <2>1. PICK place : place = <<d, 0>> OBVIOUS
  <2>2. place # span BY <2>1, <1>7, <1>18
  <2>3. CASE resolutions' = resolutions BY <2>3
  <2>4. CASE resolutions' = Insert(resolutions, span, k + 1)
    <3>1. /\ place \in DOMAIN resolutions' <=> place \in DOMAIN resolutions
          /\ place \in DOMAIN resolutions => resolutions'[place] = resolutions[place]
      BY <2>2, <2>4 DEF Insert
    <3> QED BY <3>1, <2>1
  <2> QED BY <2>3, <2>4, <1>8
<1>29. TreeOK' /\ LeavesOK' /\ Settled' BY <1>3, <1>8, <1>10, <1>28, LookupsStay
<1>30. PlacesOK'
  <2>1. ASSUME NEW id \in 1..(k + 1) PROVE symbols'[id] # Undefined
    <3>1. CASE id \in 1..k BY <3>1, <1>0, <1>3, <1>10 DEF PlacesOK
    <3>2. CASE id = k + 1 BY <3>2, <1>10, <1>18
    <3> QED BY <3>1, <3>2
  <2> QED BY <2>1, <1>10 DEF PlacesOK
<1> QED BY <1>0, <1>27, <1>29, <1>30 DEF LexInv
-----------------------------------------------------------------------------
(* The module: its items, those that are declared first, and the prelude   *)

Declared(n, binds, m, named) ==
    /\ named \in [1..m -> 1..n]
    /\ \A i \in 1..n : binds[i] # <<>> <=> \E l \in 1..m : named[l] = i
    /\ \A l, h \in 1..m : l < h => named[l] < named[h]

Begun(n, binds, m, named, A, B) ==
    /\ IsSequence(ast) /\ Len(ast) = n + 1
    /\ ast[1].k = "module" /\ ast[1].kids = [i \in 1..n |-> 1 + i] /\ ast[1].binds = <<>>
    /\ \A i \in 1..n : /\ ast[i + 1].k = "unread" /\ ast[i + 1].kids = <<>>
                       /\ ast[i + 1].binds = binds[i]
    /\ \A i \in 1..n :
          \/ binds[i] = <<>>
          \/ Len(binds[i]) = 1 /\ IsSequence(binds[i]) /\ "name" \in DOMAIN binds[i][1]
    /\ Declared(n, binds, m, named)
    /\ agenda = A \o B
    /\ IsSequence(A) /\ Len(A) = m /\ \A i \in 1..m : A[i] = Op("define", 1 + named[i], 1)
    /\ IsSequence(B) /\ Len(B) = n /\ \A i \in 1..n : B[i] = Op("item", 1 + i, 0)

Beginning(n, m) == \E binds, named, A, B : Begun(n, binds, m, named, A, B)

LEMMA Starts == Init => \E n \in Nat : \E m \in Nat : Beginning(n, m)
<1> SUFFICES ASSUME NEW n \in 1..MaxOperands,
                    NEW binds \in [1..n -> {<<>>} \cup {<<Binder(x, FALSE, FALSE)>> : x \in Bound}],
                    NEW named \in Listings(n, {i \in 1..n : binds[i] # <<>>}),
                    ast = <<Node("module", Unread.name, [i \in 1..n |-> 1 + i], <<>>)>>
                            \o [i \in 1..n |-> [Unread EXCEPT !.binds = binds[i]]],
                    agenda = [i \in 1..Len(named) |-> Op("define", 1 + named[i], 1)]
                               \o [i \in 1..n |-> Op("item", 1 + i, 0)]
             PROVE  \E k \in Nat : \E m \in Nat : Beginning(k, m)
  BY DEF Init
<1>1. n \in Nat BY ConstantsAssumption
<1>2. PICK root : root = Node("module", Unread.name, [i \in 1..n |-> 1 + i], <<>>) OBVIOUS
<1>3. PICK top : top = <<root>> OBVIOUS
<1>4. PICK items : items = [i \in 1..n |-> [Unread EXCEPT !.binds = binds[i]]] OBVIOUS
<1>5. PICK A : A = [i \in 1..Len(named) |-> Op("define", 1 + named[i], 1)] OBVIOUS
<1>6. PICK B : B = [i \in 1..n |-> Op("item", 1 + i, 0)] OBVIOUS
<1>7. ast = top \o items /\ agenda = A \o B BY <1>2, <1>3, <1>4, <1>5, <1>6
<1>8. IsSequence(top) /\ Len(top) = 1 /\ top[1] = root BY <1>3, SmallSequences
<1>9. root.k = "module" /\ root.kids = [i \in 1..n |-> 1 + i] /\ root.binds = <<>>
  BY <1>2 DEF Node
<1>10. /\ items \in [1..n -> {[Unread EXCEPT !.binds = binds[i]] : i \in 1..n}]
       /\ \A i \in 1..n : /\ items[i].k = "unread" /\ items[i].kids = <<>>
                          /\ items[i].binds = binds[i]
  BY <1>4 DEF Unread, Node
<1>11. IsSequence(items) /\ Len(items) = n
  <2>1. PICK S : items \in [1..n -> S] BY <1>10
  <2> QED BY <2>1, <1>1, OfLength
<1>12. PICK m \in 0..n : named \in [1..m -> {i \in 1..n : binds[i] # <<>>}]
  BY DEF Listings
<1>13. m \in Nat /\ Len(named) = m /\ DOMAIN named = 1..m
  <2>1. m \in Nat BY <1>12
  <2> QED BY <2>1, <1>12, OfLength
<1>14. Declared(n, binds, m, named)
  <2>1. named \in [1..m -> 1..n] BY <1>12
  <2>2. /\ {named[i] : i \in 1..m} = {i \in 1..n : binds[i] # <<>>}
        /\ \A l, h \in 1..m : l < h => named[l] < named[h]
    BY <1>13 DEF Listings
  <2>3. \A i \in 1..n : binds[i] # <<>> <=> \E l \in 1..m : named[l] = i BY <2>2
  <2> QED BY <2>1, <2>2, <2>3 DEF Declared
<1>15. /\ A \in [1..m -> {Op("define", 1 + named[i], 1) : i \in 1..m}]
       /\ \A i \in 1..m : A[i] = Op("define", 1 + named[i], 1)
       /\ B \in [1..n -> {Op("item", 1 + i, 0) : i \in 1..n}]
       /\ \A i \in 1..n : B[i] = Op("item", 1 + i, 0)
  BY <1>5, <1>6, <1>13
<1>16. IsSequence(A) /\ Len(A) = m
  <2>1. PICK S : A \in [1..m -> S] BY <1>15
  <2> QED BY <2>1, <1>13, OfLength
<1>17. IsSequence(B) /\ Len(B) = n
  <2>1. PICK S : B \in [1..n -> S] BY <1>15
  <2> QED BY <2>1, <1>1, OfLength
<1>18. /\ IsSequence(ast) /\ Len(ast) = n + 1 /\ ast[1] = root
       /\ \A i \in 1..n : ast[i + 1] = items[i]
  <2>1. IsSequence(top) /\ IsSequence(items) BY <1>8, <1>11
  <2>2. /\ IsSequence(top \o items) /\ Len(top \o items) = Len(top) + Len(items)
        /\ \A j \in 1..Len(top) : (top \o items)[j] = top[j]
        /\ \A j \in 1..Len(items) : (top \o items)[j + Len(top)] = items[j]
    BY <2>1, Concats
  <2>3. PICK c : c = top \o items OBVIOUS
  <2>4. PICK w : w = Len(top) OBVIOUS
  <2>5. w = 1 BY <2>4, <1>8
  <2>6. /\ IsSequence(c) /\ Len(c) = w + n
        /\ \A j \in 1..w : c[j] = top[j]
        /\ \A j \in 1..n : c[j + w] = items[j]
    BY <2>2, <2>3, <2>4, <1>11
  <2>7. 1 \in 1..w /\ w + n = n + 1 BY <2>5, <1>1
  <2>8. /\ IsSequence(c) /\ Len(c) = n + 1 /\ c[1] = root
        /\ \A i \in 1..n : c[i + 1] = items[i]
    BY <2>5, <2>6, <2>7, <1>8
  <2> QED BY <2>3, <2>8, <1>7
<1>19. ASSUME NEW i \in 1..n
       PROVE  \/ binds[i] = <<>>
              \/ Len(binds[i]) = 1 /\ IsSequence(binds[i]) /\ "name" \in DOMAIN binds[i][1]
  <2>1. CASE binds[i] # <<>>
    <3>1. PICK x \in Bound : binds[i] = <<Binder(x, FALSE, FALSE)>> BY <2>1
    <3>2. PICK b : b = Binder(x, FALSE, FALSE) OBVIOUS
    <3>3. "name" \in DOMAIN b BY <3>2 DEF Binder
    <3>4. binds[i] = <<b>> /\ <<b>>[1] = b BY <3>1, <3>2
    <3> QED BY <3>3, <3>4, SmallSequences
  <2> QED BY <2>1
<1>20. \A i \in 1..n : /\ ast[i + 1].k = "unread" /\ ast[i + 1].kids = <<>>
                       /\ ast[i + 1].binds = binds[i]
  BY <1>10, <1>18
<1>21. Begun(n, binds, m, named, A, B)
  BY <1>7, <1>9, <1>14, <1>15, <1>16, <1>17, <1>18, <1>19, <1>20 DEF Begun
<1>22. Beginning(n, m) BY <1>21 DEF Beginning
<1> QED BY <1>1, <1>13, <1>22

LEMMA TreeStarts ==
    ASSUME NEW n \in Nat, NEW m \in Nat, NEW binds, NEW named, NEW A, NEW B,
           Begun(n, binds, m, named, A, B)
    PROVE  /\ TreeOK
           /\ Len(ast[Root].kids) = n /\ DOMAIN ast[Root].kids = 1..n
           /\ \A i \in 1..n : ast[Root].kids[i] = 1 + i
<1>1. PICK kids : kids = [i \in 1..n |-> 1 + i] OBVIOUS
<1>2. kids \in [1..n -> Nat] /\ DOMAIN kids = 1..n /\ \A i \in 1..n : kids[i] = 1 + i
  BY <1>1
<1>3. IsSequence(kids) /\ Len(kids) = n BY <1>2, OfLength
<1>4. ast[1].kids = kids /\ ast[1].binds = <<>> /\ ast[1].k = "module"
  BY <1>1 DEF Begun
<1>5. IsSequence(ast) /\ Len(ast) = n + 1 BY DEF Begun
<1>6. ASSUME NEW p \in 1..(n + 1), p # 1
      PROVE  ast[p].kids = <<>> /\ IsSequence(ast[p].binds)
  <2>1. p - 1 \in 1..n /\ (p - 1) + 1 = p BY <1>6
  <2>2. ast[p].kids = <<>> /\ ast[p].binds = binds[p - 1] BY <2>1 DEF Begun
  <2>3. binds[p - 1] = <<>> \/ IsSequence(binds[p - 1]) BY <2>1 DEF Begun
  <2> QED BY <2>2, <2>3, NoKids
<1>7. ASSUME NEW p \in 1..(n + 1)
      PROVE  /\ IsSequence(ast[p].kids) /\ IsSequence(ast[p].binds)
             /\ \A i \in 1..Len(ast[p].kids) : p = 1 /\ i \in 1..n /\ ast[p].kids[i] = 1 + i
  <2>1. CASE p = 1 BY <2>1, <1>2, <1>3, <1>4, NoKids
  <2>2. CASE p # 1
    <3>1. Len(ast[p].kids) = 0 /\ IsSequence(ast[p].kids) BY <2>2, <1>6, NoKids
    <3> QED BY <2>2, <3>1, <1>6
  <2> QED BY <2>1, <2>2
<1>8. ASSUME NEW p \in 1..(n + 1), NEW i \in 1..Len(ast[p].kids)
      PROVE  ast[p].kids[i] \in (p + 1)..(n + 1)
  <2>1. p = 1 /\ i \in 1..n /\ ast[p].kids[i] = 1 + i BY <1>7
  <2> QED BY <2>1
<1>9. ASSUME NEW p \in 1..(n + 1), NEW q \in 1..(n + 1), NEW i \in 1..Len(ast[p].kids),
             NEW j \in 1..Len(ast[q].kids), ast[p].kids[i] = ast[q].kids[j]
      PROVE  p = q /\ i = j
  <2>1. /\ p = 1 /\ i \in 1..n /\ ast[p].kids[i] = 1 + i
        /\ q = 1 /\ j \in 1..n /\ ast[q].kids[j] = 1 + j
    BY <1>7
  <2>2. 1 + i = 1 + j BY <2>1, <1>9
  <2> QED BY <2>1, <2>2
<1>10. ASSUME NEW e \in 2..(n + 1)
       PROVE  \E p \in 1..(n + 1) : \E i \in 1..Len(ast[p].kids) : ast[p].kids[i] = e
  <2>1. 1 \in 1..(n + 1) /\ e - 1 \in 1..n /\ 1 + (e - 1) = e OBVIOUS
  <2>2. e - 1 \in 1..Len(ast[1].kids) /\ ast[1].kids[e - 1] = e BY <2>1, <1>2, <1>3, <1>4
  <2> QED BY <2>1, <2>2
<1>11. n + 1 >= 1 /\ Root = 1 BY DEF Root
<1>12. TreeOK BY <1>4, <1>5, <1>7, <1>8, <1>9, <1>10, <1>11 DEF TreeOK
<1> QED BY <1>2, <1>3, <1>4, <1>11, <1>12
\* The items are declared in their order: the last of a name stays.
DeclaredUpTo(j, binds, named, x) ==
    LET own == {l \in 1..j : binds[named[l]][1].name = x}
    IN IF own = {} THEN SeenAt(1, x) ELSE <<1 + named[Max(own)], 1>>

LEMMA DeclaredNext ==
    ASSUME NEW binds, NEW named, NEW x, NEW j \in Nat
    PROVE  DeclaredUpTo(j + 1, binds, named, x) =
              IF x = binds[named[j + 1]][1].name THEN <<1 + named[j + 1], 1>>
              ELSE DeclaredUpTo(j, binds, named, x)
<1> DEFINE own(h) == {l \in 1..h : binds[named[l]][1].name = x}
<1>1. CASE binds[named[j + 1]][1].name = x
  <2>1. PICK T : T = own(j + 1) OBVIOUS
  <2>2. j + 1 \in 1..(j + 1) /\ j + 1 \in Nat OBVIOUS
  <2>3. j + 1 \in T /\ T \subseteq 1..(j + 1) BY <2>1, <2>2, <1>1
  <2>4. T # {} BY <2>3
  <2>5. Max(T) \in T /\ \A y \in T : y <= Max(T) BY <2>2, <2>3, <2>4, MaxOf
  <2>6. PICK w \in 1..(j + 1) : w = Max(T) BY <2>3, <2>5
  <2>7. j + 1 <= w BY <2>3, <2>5, <2>6
  <2>8. w = j + 1 BY <2>7
  <2>9. DeclaredUpTo(j + 1, binds, named, x) = <<1 + named[Max(T)], 1>>
    BY <2>1, <2>4 DEF DeclaredUpTo
  <2> QED BY <2>6, <2>8, <2>9, <1>1
<1>2. CASE binds[named[j + 1]][1].name # x
  <2>1. own(j + 1) = own(j)
    <3>1. \A l \in 1..(j + 1) : l \in 1..j \/ l = j + 1 OBVIOUS
    <3>2. \A l \in 1..j : l \in 1..(j + 1) OBVIOUS
    <3> QED BY <3>1, <3>2, <1>2
  <2> QED BY <2>1, <1>2 DEF DeclaredUpTo
<1> QED BY <1>1, <1>2

LEMMA DeclaredAll ==
    ASSUME NEW n \in Nat, NEW m \in Nat, NEW binds, NEW named, NEW A, NEW B,
           Begun(n, binds, m, named, A, B), NEW x,
           SeenAt(1, x) = IF x \in Prelude THEN PreludeSpan ELSE Undefined
    PROVE  DeclaredUpTo(m, binds, named, x) = ModuleItem(x)
<1>1. Declared(n, binds, m, named) BY DEF Begun
<1>2. /\ DOMAIN ast[Root].kids = 1..n /\ \A i \in 1..n : ast[Root].kids[i] = 1 + i
  BY TreeStarts
<1>3. ASSUME NEW i \in 1..n
      PROVE  /\ ast[Root].kids[i] = 1 + i /\ ast[1 + i].k = "unread"
             /\ ast[1 + i].binds = binds[i]
  <2>1. 1 + i = i + 1 OBVIOUS
  <2> QED BY <2>1, <1>2 DEF Begun
<1>4. PICK U : U = Items(x) OBVIOUS
<1>5. U = {i \in 1..n : binds[i] # <<>> /\ binds[i][1].name = x}
  <2>1. \A i \in 1..n :
          (LET b == ast[ast[Root].kids[i]].binds
           IN /\ ast[ast[Root].kids[i]].k \in {"unread", "fn", "const"}
              /\ b # <<>> /\ b[1].name = x)
          <=> binds[i] # <<>> /\ binds[i][1].name = x
    BY <1>3
  <2> QED BY <2>1, <1>2, <1>4 DEF Items
<1>6. PICK T : T = {l \in 1..m : binds[named[l]][1].name = x} OBVIOUS
<1>7. \A l \in T : l \in 1..m /\ named[l] \in 1..n /\ named[l] \in U
  BY <1>1, <1>5, <1>6 DEF Declared
<1>8. \A i \in U : \E l \in T : named[l] = i BY <1>1, <1>5, <1>6 DEF Declared
<1>9. ModuleItem(x) = IF U # {} THEN <<ast[Root].kids[Max(U)], 1>>
                      ELSE IF x \in Prelude THEN PreludeSpan ELSE Undefined
  BY <1>4 DEF ModuleItem, Items
<1>10. DeclaredUpTo(m, binds, named, x) =
          IF T = {} THEN SeenAt(1, x) ELSE <<1 + named[Max(T)], 1>>
  BY <1>6 DEF DeclaredUpTo
<1>11. CASE T = {} BY <1>8, <1>9, <1>10, <1>11
<1>12. CASE T # {}
  <2>1. T \subseteq 1..m /\ U \subseteq 1..n BY <1>5, <1>6
  <2>2. U # {} BY <1>7, <1>12
  <2>3. Max(T) \in T /\ \A y \in T : y <= Max(T) BY <2>1, <1>12, MaxOf
  <2>4. Max(U) \in U /\ \A y \in U : y <= Max(U) BY <2>1, <2>2, MaxOf
  <2>5. PICK w \in T : w = Max(T) BY <2>3
  <2>6. PICK i \in U : i = Max(U) BY <2>4
  <2>7. PICK l \in T : named[l] = i BY <1>8
  <2>8. w \in 1..m /\ l \in 1..m /\ l <= w BY <2>1, <2>3, <2>5
  <2>9. named[w] \in 1..n /\ named[w] <= i BY <1>7, <2>4, <2>5, <2>6
  <2>10. l = w \/ l < w BY <2>8
  <2>11. l = w \/ named[l] < named[w] BY <2>8, <2>10, <1>1 DEF Declared
  <2>12. i \in 1..n BY <2>1
  <2>13. named[w] = i
    <3>1. CASE l = w BY <3>1, <2>7
    <3>2. CASE named[l] < named[w] BY <3>2, <2>7, <2>9, <2>12
    <3> QED BY <3>1, <3>2, <2>11
  <2>14. ast[Root].kids[Max(U)] = 1 + named[Max(T)] BY <2>5, <2>6, <2>12, <2>13, <1>3
  <2> QED BY <2>2, <2>14, <1>9, <1>10, <1>12
<1> QED BY <1>11, <1>12
\* The items are visited with the names of the module.
LEMMA ItemsRun ==
    ASSUME NEW n \in Nat, NEW m \in Nat, NEW binds, NEW named, NEW A, NEW B,
           Begun(n, binds, m, named, A, B), NEW t, \A x \in Names : t[1][x] = ModuleItem(x)
    PROVE  Runs(ast, Meaning, B, t, t)
<1>1. IsSequence(B) /\ Len(B) = n /\ \A i \in 1..n : B[i] = Op("item", 1 + i, 0)
  BY DEF Begun
<1>2. /\ TreeOK /\ Len(ast[Root].kids) = n
      /\ \A i \in 1..n : ast[Root].kids[i] = 1 + i
  BY TreeStarts
<1>3. \A i \in 1..n : B[i].op = "item" /\ B[i].e = 1 + i BY <1>1 DEF Op
<1>4. ASSUME NEW i \in 1..n PROVE FrameOK(ast, B[i]) /\ Sees(Meaning, t, B[i].e)
  <2>1. 1 + i = i + 1 /\ 1 + i \in 2..(n + 1) OBVIOUS
  <2>2. 1 + i \in 2..Len(ast) /\ ast[1 + i].k = "unread" /\ ast[1 + i].kids = <<>>
    BY <2>1 DEF Begun
  <2>3. FrameOK(ast, B[i]) BY <2>2, <1>2, <1>3 DEF FrameOK, Looking
  <2>4. MeaningOK BY <1>2, MeaningFound
  <2>5. Root \in 1..Len(ast) /\ i \in 1..Len(ast[Root].kids) BY <1>2 DEF Begun, Root
  <2>6. \A x \in Names : Meaning[ast[Root].kids[i]][x] = ModuleItem(x)
    BY <2>4, <2>5 DEF MeaningOK
  <2>7. Sees(Meaning, t, B[i].e) BY <2>6, <1>2, <1>3 DEF Sees
  <2> QED BY <2>3, <2>7
<1>5. \A i \in 1..n : \A j \in 1..n : i < j => B[j].e # B[i].e BY <1>3
<1>6. PICK W : W = [i \in 1..(n + 1) |-> t] OBVIOUS
<1>7. W[1] = t /\ W[n + 1] = t /\ \A i \in 1..n : W[i] = t /\ W[i + 1] = t BY <1>6
<1>8. Flows(ast, Meaning, B, W) BY <1>1, <1>3, <1>4, <1>7 DEF Flows, Step
<1> QED BY <1>1, <1>3, <1>4, <1>5, <1>7, <1>8 DEF Runs

\* The declarations lead there from the scope of the prelude.
LEMMA DeclarationsRun ==
    ASSUME NEW n \in Nat, NEW m \in Nat, NEW binds, NEW named, NEW A, NEW B,
           Begun(n, binds, m, named, A, B), NEW s, NEW t, t[2] = s[2],
           t = <<[x \in Names |-> ModuleItem(x)], s[2]>>,
           s = <<[x \in Names |-> SeenAt(1, x)], s[2]>>,
           \A x \in Names :
              SeenAt(1, x) = IF x \in Prelude THEN PreludeSpan ELSE Undefined
    PROVE  Runs(ast, Meaning, A, s, t) /\ \A i \in 1..Len(A) : ~Looking(A[i])
<1>1. IsSequence(A) /\ Len(A) = m /\ \A i \in 1..m : A[i] = Op("define", 1 + named[i], 1)
  BY DEF Begun
<1>2. \A i \in 1..m : A[i].op = "define" /\ A[i].e = 1 + named[i] /\ A[i].i = 1
  BY <1>1 DEF Op
<1>3. \A i \in 1..m : named[i] \in 1..n /\ binds[named[i]] # <<>> BY DEF Begun, Declared
<1>4. ASSUME NEW i \in 1..m
      PROVE  FrameOK(ast, A[i]) /\ ast[A[i].e].binds = binds[named[i]]
  <2>1. PICK q \in 1..n : q = named[i] BY <1>3
  <2>2. 1 + q = q + 1 /\ 1 + q \in 2..(n + 1) OBVIOUS
  <2>3. 1 + q \in 2..Len(ast) /\ ast[1 + q].binds = binds[q] BY <2>2 DEF Begun
  <2>4. Len(binds[q]) = 1 BY <2>1, <1>3 DEF Begun
  <2>5. 1 \in 1..Len(ast[1 + q].binds) BY <2>3, <2>4
  <2>6. A[i].op = "define" /\ A[i].e = 1 + q /\ A[i].i = 1 BY <2>1, <1>2
  <2> QED BY <2>1, <2>3, <2>5, <2>6 DEF FrameOK
<1>5. PICK W : W = [i \in 1..(m + 1) |->
                      <<[x \in Names |-> DeclaredUpTo(i - 1, binds, named, x)], s[2]>>]
  OBVIOUS
<1>6. \A i \in 1..(m + 1) :
        W[i] = <<[x \in Names |-> DeclaredUpTo(i - 1, binds, named, x)], s[2]>>
  BY <1>5
<1>7. W[1] = s
  <2>1. 1 \in 1..(m + 1) /\ 1 - 1 = 0 OBVIOUS
  <2>2. ASSUME NEW x PROVE DeclaredUpTo(0, binds, named, x) = SeenAt(1, x)
    <3>1. {l \in 1..0 : binds[named[l]][1].name = x} = {} OBVIOUS
    <3> QED BY <3>1 DEF DeclaredUpTo
  <2>3. W[1] = <<[x \in Names |-> DeclaredUpTo(0, binds, named, x)], s[2]>> BY <2>1, <1>6
  <2>4. [x \in Names |-> DeclaredUpTo(0, binds, named, x)] = [x \in Names |-> SeenAt(1, x)]
    BY <2>2
  <2> QED BY <2>3, <2>4
<1>8. W[m + 1] = t
  <2>1. m + 1 \in 1..(m + 1) /\ (m + 1) - 1 = m OBVIOUS
  <2>2. \A x \in Names : DeclaredUpTo(m, binds, named, x) = ModuleItem(x) BY DeclaredAll
  <2>3. W[m + 1] = <<[x \in Names |-> DeclaredUpTo(m, binds, named, x)], s[2]>>
    BY <2>1, <1>6
  <2>4. [x \in Names |-> DeclaredUpTo(m, binds, named, x)] = [x \in Names |-> ModuleItem(x)]
    BY <2>2
  <2> QED BY <2>3, <2>4
<1>9. ASSUME NEW i \in 1..m PROVE Step(ast, A[i], W[i], W[i + 1])
  <2>1. i \in 1..(m + 1) /\ i + 1 \in 1..(m + 1) /\ (i + 1) - 1 = i OBVIOUS
  <2>2. PICK j \in Nat : j = i - 1 OBVIOUS
  <2>3. j + 1 = i BY <2>2
  <2>4. PICK f, g : /\ f = [x \in Names |-> DeclaredUpTo(j, binds, named, x)]
                    /\ g = [x \in Names |-> DeclaredUpTo(j + 1, binds, named, x)]
    OBVIOUS
  <2>5. W[i] = <<f, s[2]>> /\ W[i + 1] = <<g, s[2]>> BY <2>1, <2>2, <2>3, <2>4, <1>6
  <2>6. ASSUME NEW x \in Names
        PROVE  g[x] = IF x = binds[named[i]][1].name THEN <<1 + named[i], 1>> ELSE f[x]
    <3>1. DeclaredUpTo(j + 1, binds, named, x) =
             IF x = binds[named[j + 1]][1].name THEN <<1 + named[j + 1], 1>>
             ELSE DeclaredUpTo(j, binds, named, x)
      BY DeclaredNext
    <3> QED BY <3>1, <2>3, <2>4
  <2>7. /\ W[i + 1][2] = W[i][2]
        /\ \A x \in Names : W[i + 1][1][x] =
              IF x = ast[A[i].e].binds[A[i].i].name THEN <<A[i].e, A[i].i>> ELSE W[i][1][x]
    BY <2>5, <2>6, <1>2, <1>4
  <2> QED BY <2>7, <1>2 DEF Step
<1>10. \A i \in 1..m : ~Looking(A[i]) BY <1>2 DEF Looking
<1>11. Flows(ast, Meaning, A, W) BY <1>1, <1>9, <1>10 DEF Flows
<1>12. \A i \in 1..m : A[i].op # "stmt" BY <1>2
<1>13. Runs(ast, Meaning, A, s, t)
  BY <1>1, <1>4, <1>7, <1>8, <1>10, <1>11, <1>12 DEF Runs
<1> QED BY <1>1, <1>10, <1>13

LEMMA InitLex == Init => LexInv
<1> SUFFICES ASSUME Init PROVE LexInv
  OBVIOUS
<1>1. ResInv BY InitInv
<1>0. PICK n \in Nat : \E m \in Nat : Beginning(n, m) BY Starts
<1>01. PICK m \in Nat : Beginning(n, m) BY <1>0
<1>2. PICK binds, named, A, B : Begun(n, binds, m, named, A, B) BY <1>01 DEF Beginning
<1>3. TreeOK BY <1>2, TreeStarts
<1>4. /\ scopes = <<[parent |-> 0, bindings |-> PreludeIds]>> /\ active = << 1 >>
      /\ symbols = [i \in 1..Cardinality(Prelude) |-> PreludeSpan]
      /\ DOMAIN resolutions = {} /\ errors = {}
  BY DEF Init
<1>5. ASSUME NEW e \in 1..Len(ast)
      PROVE  /\ ast[e].k \in {"module", "unread"}
             /\ ast[e].k = "unread" =>
                  \A i \in 1..Len(ast[e].binds) : "name" \in DOMAIN ast[e].binds[i]
  <2>1. Len(ast) = n + 1 BY <1>2 DEF Begun
  <2>2. CASE e = 1 BY <2>2, <1>2 DEF Begun
  <2>3. CASE e # 1
    <3>1. PICK i \in 1..n : i = e - 1 BY <2>1, <2>3
    <3>2. i + 1 = e BY <3>1, <2>1
    <3>3. ast[e].k = "unread" /\ ast[e].binds = binds[i] BY <3>2, <1>2 DEF Begun
    <3>4. \/ binds[i] = <<>>
          \/ Len(binds[i]) = 1 /\ IsSequence(binds[i]) /\ "name" \in DOMAIN binds[i][1]
      BY <1>2 DEF Begun
    <3>5. ASSUME NEW j \in 1..Len(binds[i]) PROVE "name" \in DOMAIN binds[i][j]
      <4>1. CASE binds[i] = <<>>
        <5>1. Len(binds[i]) = 0 BY <4>1, NoKids
        <5> QED BY <5>1
      <4>2. CASE Len(binds[i]) = 1 /\ "name" \in DOMAIN binds[i][1]
        <5>1. j = 1 BY <4>2
        <5> QED BY <4>2, <5>1
      <4> QED BY <3>4, <4>1, <4>2
    <3> QED BY <3>3, <3>5
  <2> QED BY <2>2, <2>3
<1>6. LeavesOK BY <1>4, <1>5 DEF LeavesOK
<1>7. Settled
  <2>1. ASSUME NEW e \in 2..Len(ast) PROVE SettledAt(e)
    <3>1. Len(ast) \in Nat BY <1>3, ParentsFound DEF ParentsOK
    <3>2. e \in 1..Len(ast) BY <3>1
    <3>3. ast[e].k \notin {"use", "type"} BY <3>2, <1>5
    <3> QED BY <3>3 DEF SettledAt
  <2> QED BY <2>1 DEF Settled
<1>8. Cardinality(Prelude) \in Nat BY ConstantsAssumption, FS_CardinalityType
<1>9. PlacesOK
  <2>1. PICK c \in Nat : c = Cardinality(Prelude) BY <1>8
  <2>2. symbols \in [1..c -> {PreludeSpan}] BY <2>1, <1>4
  <2>3. Len(symbols) = c BY <2>2, OfLength
  <2>4. \A id \in 1..c : symbols[id] = PreludeSpan BY <2>2
  <2>5. PreludeSpan # Undefined BY DEF PreludeSpan, Undefined
  <2> QED BY <2>3, <2>4, <2>5 DEF PlacesOK
<1>10. ASSUME NEW x
       PROVE  SeenAt(1, x) = IF x \in Prelude THEN PreludeSpan ELSE Undefined
  <2>1. scopes[active[1]].bindings = PreludeIds BY <1>4
  <2>2. PICK ids : ids = PreludeIds OBVIOUS
  <2>3. DOMAIN ids = Prelude /\ \A y \in Prelude : ids[y] \in 1..Cardinality(Prelude)
    BY <2>2, PreludeNumbered
  <2>4. PICK T : T = {i \in 1..1 : x \in DOMAIN scopes[active[i]].bindings} OBVIOUS
  <2>5. \A i \in 1..1 : i = 1 OBVIOUS
  <2>6. 1 \in 1..1 OBVIOUS
  <2>7. SeenAt(1, x) = IF T = {} THEN Undefined
                       ELSE symbols[scopes[active[Max(T)]].bindings[x]]
    BY <2>4 DEF SeenAt
  <2>8. CASE x \in Prelude
    <3>1. 1 \in T BY <2>1, <2>2, <2>3, <2>4, <2>6, <2>8
    <3>2. T \subseteq 1..1 /\ T # {} BY <2>4, <3>1
    <3>3. 1 \in Nat OBVIOUS
    <3>4. Max(T) \in T BY <3>2, <3>3, MaxOf
    <3>5. Max(T) = 1 BY <3>2, <3>4, <2>5
    <3>6. SeenAt(1, x) = symbols[ids[x]] BY <3>1, <3>5, <2>1, <2>2, <2>7
    <3> QED BY <3>6, <2>3, <2>8, <1>4
  <2>9. CASE x \notin Prelude
    <3>1. T = {} BY <2>1, <2>2, <2>3, <2>4, <2>5, <2>9
    <3> QED BY <3>1, <2>7, <2>9
  <2> QED BY <2>8, <2>9
<1>11. PICK out : out = <<>> OBVIOUS
<1>12. PICK s : s = <<[x \in Names |-> SeenAt(1, x)], out>> OBVIOUS
<1>13. PICK t : t = <<[x \in Names |-> ModuleItem(x)], out>> OBVIOUS
<1>14. s[2] = out /\ t[2] = out BY <1>12, <1>13
<1>15. (\A x \in Names : s[1][x] = SeenAt(1, x)) /\ \A x \in Names : t[1][x] = ModuleItem(x)
  BY <1>12, <1>13
<1>16. Runs(ast, Meaning, B, t, t) BY <1>2, <1>15, ItemsRun
<1>17. Runs(ast, Meaning, A, s, t) /\ \A i \in 1..Len(A) : ~Looking(A[i])
  BY <1>2, <1>10, <1>12, <1>13, <1>14, DeclarationsRun
<1>18. Distinct(A, B) BY <1>17 DEF Distinct
<1>19. \A p \in 1..Len(ast) : Len(ast[p].kids) \in Nat BY <1>3, ParentsFound DEF ParentsOK
<1>20. Runs(ast, Meaning, agenda, s, t)
  <2>1. Runs(ast, Meaning, A \o B, s, t) BY <1>16, <1>17, <1>18, <1>19, RunsConcat
  <2>2. agenda = A \o B BY <1>2 DEF Begun
  <2> QED BY <2>1, <2>2
<1>21. PICK K : K = [d \in 0..1 |-> IF d = 1 THEN s ELSE out] OBVIOUS
<1>22. K[1] = s /\ K[0] = out
  <2>1. 0 \in 0..1 /\ 1 \in 0..1 OBVIOUS
  <2> QED BY <2>1, <1>21
<1>23. Len(active) = 1 BY <1>4
<1>24. Stack(K)
  <2>1. \A d \in 1..1 : d = 1 /\ d - 1 = 0 OBVIOUS
  <2> QED BY <2>1, <1>14, <1>15, <1>22, <1>23 DEF Stack
<1>25. FlowOK BY <1>20, <1>22, <1>23, <1>24 DEF FlowOK
<1> QED BY <1>1, <1>3, <1>6, <1>7, <1>9, <1>25 DEF LexInv

LEMMA StepLex == LexInv /\ [Next]_vars => LexInv'
<1> SUFFICES ASSUME LexInv, [Next]_vars PROVE LexInv'
  OBVIOUS
<1>1. CASE EnterScope BY <1>1, EnterLex
<1>2. CASE ExitScope BY <1>2, ExitLex
<1>3. CASE DefineName BY <1>3, DefineLex
<1>4. CASE VisitUse BY <1>4, UseLex
<1>5. CASE VisitType BY <1>5, TypeLex
<1>6. CASE VisitOperands BY <1>6, OperandsLex
<1>7. CASE VisitJump BY <1>7, JumpLex
<1>8. CASE VisitBlock BY <1>8, BlockLex
<1>9. CASE VisitIfLet BY <1>9, IfLetLex
<1>10. CASE VisitMatch BY <1>10, MatchLex
<1>11. CASE VisitLoop BY <1>11, LoopLex
<1>12. CASE VisitClosure BY <1>12, ClosureLex
<1>13. CASE VisitFork BY <1>13, ForkLex
<1>14. CASE VisitLet BY <1>14, LetLex
<1>15. CASE VisitDeclare BY <1>15, DeclareLex
<1>16. CASE VisitGuard BY <1>16, GuardLex
<1>17. CASE VisitLocalFn BY <1>17, LocalFnLex
<1>18. CASE VisitFn BY <1>18, FnLex
<1>19. CASE VisitConst BY <1>19, ConstLex
<1>20. CASE VisitMethod BY <1>20, MethodLex
<1>21. CASE UNCHANGED vars
  <2>1. /\ UNCHANGED ast /\ agenda' = agenda /\ scopes' = scopes /\ active' = active
        /\ symbols' = symbols /\ resolutions' = resolutions /\ errors' = errors
    BY <1>21 DEF vars
  <2>2. TreeOK' /\ LeavesOK' /\ Settled' BY <2>1, LookupsStay
  <2>3. ResInv' BY <1>21, StepInv DEF LexInv
  <2>4. PlacesOK' BY <2>1 DEF LexInv, PlacesOK
  <2>5. \A d, x : SeenAt(d, x)' = SeenAt(d, x) BY <2>1 DEF SeenAt
  <2>6. PICK K, t : Stack(K) /\ Runs(ast, Meaning, agenda, K[Len(active)], t)
    BY DEF LexInv, FlowOK
  <2>7. Stack(K)' BY <2>1, <2>5, <2>6 DEF Stack
  <2>8. ast' = ast /\ Meaning' = Meaning BY <2>1, SameTree
  <2>9. Runs(ast', Meaning', agenda', K[Len(active')], t) BY <2>1, <2>6, <2>8
  <2>10. FlowOK' BY <2>7, <2>9 DEF FlowOK
  <2> QED BY <2>2, <2>3, <2>4, <2>10 DEF LexInv
<1> QED
  BY <1>1, <1>2, <1>3, <1>4, <1>5, <1>6, <1>7, <1>8, <1>9, <1>10, <1>11, <1>12, <1>13,
     <1>14, <1>15, <1>16, <1>17, <1>18, <1>19, <1>20, <1>21 DEF Next, Walk, Returned

\* The walk is always where the tree says: what it has still to visit it will visit
\* with the names that stand for something there, and what it looked up was right.
THEOREM WalkFollowsTree == Spec => []LexInv
<1>1. Init => LexInv BY InitLex
<1>2. LexInv /\ [Next]_vars => LexInv' BY StepLex
<1> QED BY <1>1, <1>2, PTL DEF Spec

\* Resolver::resolve_module gives every name the definition that it means by its
\* place in the tree: no name of a scope that is over is seen, the nearest of
\* several wins, a value does not see the name it initialises, an item is seen from
\* everywhere; and an undefined identifier is reported for the uses that mean
\* nothing and no others.  Apart are only the uses of the results of a fork that is
\* over, which the language has and the code does not.
THEOREM NamesMeanTheirDefinitions == Spec => []LexicalScoping
<1>1. LexInv => LexicalScoping
  <2> SUFFICES ASSUME LexInv, agenda = <<>>, NEW e \in DOMAIN ast,
                      ast[e].k \in {"use", "type"}, ast[Parent(e)].k # "jump",
                      ~AfterFork(e)
               PROVE  LET means == Meaning[e][ast[e].name]
                      IN /\ <<e, 0>> \in DOMAIN resolutions <=> means # Undefined
                         /\ means # Undefined => symbols[resolutions[<<e, 0>>]] = means
                         /\ <<e, 0>> \in errors <=> ast[e].k = "use" /\ means = Undefined
    BY DEF LexicalScoping
  <2>1. TreeOK /\ Settled BY DEF LexInv
  <2>2. PICK n \in Nat : n = Len(ast) BY <2>1, ParentsFound DEF ParentsOK
  <2>3. DOMAIN ast = 1..n BY <2>1, <2>2, ParentsFound DEF ParentsOK
  <2>4. e # 1 BY <2>1 DEF TreeOK, Root
  <2>5. e \in 2..Len(ast) BY <2>2, <2>3, <2>4
  <2>6. SettledAt(e) BY <2>1, <2>5 DEF Settled
  <2> QED BY <2>6 DEF SettledAt
<1> QED BY <1>1, WalkFollowsTree, PTL
=============================================================================
