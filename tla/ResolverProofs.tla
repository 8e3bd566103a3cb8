--------------------------- MODULE ResolverProofs ---------------------------
(***************************************************************************)
(* Theorems about the walk of name resolution: the scope chain, the symbol *)
(* table and the resolutions only refer to what there is, and the open     *)
(* scopes are the enclosing ones.                                          *)
(*                                                                         *)
(* What a visit puts on the agenda is balanced: it leaves every scope that *)
(* it enters, and no part of the agenda enters a scope that it does not    *)
(* leave.  So a scope that is left is never that of the module.            *)
(***************************************************************************)
EXTENDS Resolver, CountingProofs, FunctionTheorems

\* The scopes that are left from place i of an agenda on, less those entered.
Level(ag, i) == Count(ag, i, "exit") - Count(ag, i, "enter")

\* A visit of one of the n nodes there are.
Visits(o, n) == o.op \notin {"enter", "exit"} => o.e \in 1..n

\* Behind every place, the scopes that are entered are left.
Legal(ag, n) ==
    /\ IsSequence(ag)
    /\ \A i \in 1..Len(ag) : Visits(ag[i], n) /\ Level(ag, i) >= 0

Balanced(ag, n) == Legal(ag, n) /\ Level(ag, 1) = 0

AstOK(a) == IsSequence(a) /\ \A e \in 1..Len(a) : IsSequence(a[e].binds)

StackOK ==
    /\ IsSequence(scopes)
    /\ \A s \in 1..Len(scopes) :
        scopes[s] = [parent |-> scopes[s].parent, bindings |-> scopes[s].bindings]
    /\ IsSequence(symbols)
    /\ active \in Seq(Nat) /\ Len(active) \in Nat \ {0} /\ active[1] = 1
    /\ \A i \in 2..Len(active) : scopes[active[i]].parent = active[i - 1]
    /\ \A i \in 1..(Len(active) - 1) : active[i] < active[i + 1]

WorkOK == Legal(agenda, Len(ast)) /\ Len(active) = 1 + Level(agenda, 1)

ResInv == TypeOK /\ AstOK(ast) /\ StackOK /\ WorkOK

-----------------------------------------------------------------------------
(* Agendas                                                                 *)

LEMMA LevelType ==
    ASSUME NEW s, IsSequence(s), NEW i \in Nat
    PROVE  Len(s) \in Nat /\ Level(s, i) \in Int
<1>1. Len(s) \in Nat BY LenProperties DEF IsSequence
<1>2. Count(s, i, "exit") \in Nat /\ Count(s, i, "enter") \in Nat BY <1>1, CountType
<1> QED BY <1>1, <1>2 DEF Level

LEMMA LevelConcat ==
    ASSUME NEW a, IsSequence(a), NEW b, IsSequence(b)
    PROVE  /\ \A i \in 1..(Len(a) + 1) : Level(a \o b, i) = Level(a, i) + Level(b, 1)
           /\ \A i \in 1..Len(b) : Level(a \o b, i + Len(a)) = Level(b, i)
<1>1. /\ IsSequence(a \o b)
      /\ Len(a) \in Nat /\ Len(b) \in Nat /\ Len(a \o b) = Len(a) + Len(b)
      /\ \A j \in 1..Len(b) : (a \o b)[j + Len(a)] = b[j]
  BY Concats
<1>2. ASSUME NEW i \in 1..(Len(a) + 1) PROVE Level(a \o b, i) = Level(a, i) + Level(b, 1)
  <2>1. /\ Count(a \o b, i, "exit") = Count(a, i, "exit") + Count(b, 1, "exit")
        /\ Count(a \o b, i, "enter") = Count(a, i, "enter") + Count(b, 1, "enter")
    BY CountConcat
  <2>2. i \in Nat BY <1>1
  <2>3. /\ Count(a, i, "exit") \in Nat /\ Count(a, i, "enter") \in Nat
        /\ Count(b, 1, "exit") \in Nat /\ Count(b, 1, "enter") \in Nat
    BY <1>1, <2>2, CountType
  <2> QED BY <2>1, <2>3 DEF Level
<1>3. ASSUME NEW i \in 1..Len(b) PROVE Level(a \o b, i + Len(a)) = Level(b, i)
  <2> DEFINE s == a \o b
             k == Len(a)
  <2>1. /\ k \in Nat /\ Len(s) = Len(b) + k /\ i \in Nat \ {0} /\ Len(b) \in Nat
        /\ \A j \in i..Len(b) : s[j + k] = b[j]
    BY <1>1
  <2> HIDE DEF s, k
  <2>2. \A op : Count(s, i + k, op) = Count(b, i, op) BY <2>1, CountShifts
  <2> QED BY <2>2 DEF Level, s, k
<1> QED BY <1>2, <1>3

LEMMA LegalConcat ==
    ASSUME NEW a, NEW b, NEW n, Legal(a, n), Legal(b, n)
    PROVE  Legal(a \o b, n) /\ Level(a \o b, 1) = Level(a, 1) + Level(b, 1)
<1>1. /\ IsSequence(a \o b)
      /\ Len(a) \in Nat /\ Len(b) \in Nat /\ Len(a \o b) = Len(a) + Len(b)
      /\ \A j \in 1..Len(a) : (a \o b)[j] = a[j]
      /\ \A j \in 1..Len(b) : (a \o b)[j + Len(a)] = b[j]
  BY Concats DEF Legal
<1>2. /\ \A i \in 1..(Len(a) + 1) : Level(a \o b, i) = Level(a, i) + Level(b, 1)
      /\ \A i \in 1..Len(b) : Level(a \o b, i + Len(a)) = Level(b, i)
  BY LevelConcat DEF Legal
<1>3. Level(b, 1) \in Nat
  <2>1. CASE Len(b) = 0
    <3>1. Count(b, 1, "exit") = 0 /\ Count(b, 1, "enter") = 0 BY <2>1, CountNone
    <3> QED BY <3>1 DEF Level
  <2>2. CASE Len(b) # 0
    <3>1. 1 \in 1..Len(b) BY <2>2, <1>1
    <3>2. Level(b, 1) \in Int BY LevelType DEF Legal
    <3> QED BY <3>1, <3>2 DEF Legal
  <2> QED BY <2>1, <2>2
<1>4. ASSUME NEW i \in 1..Len(a \o b)
      PROVE  Visits((a \o b)[i], n) /\ Level(a \o b, i) >= 0
  <2>1. CASE i \in 1..Len(a)
    <3>1. i \in 1..(Len(a) + 1) /\ i \in Nat BY <2>1, <1>1
    <3>2. Level(a, i) \in Int BY <3>1, LevelType DEF Legal
    <3>3. Level(a \o b, i) = Level(a, i) + Level(b, 1) BY <3>1, <1>2
    <3>4. (a \o b)[i] = a[i] /\ Visits(a[i], n) /\ Level(a, i) >= 0 BY <2>1, <1>1 DEF Legal
    <3> QED BY <3>2, <3>3, <3>4, <1>3
  <2>2. CASE i \notin 1..Len(a)
    <3>1. PICK j \in 1..Len(b) : i = j + Len(a)
      <4>1. i - Len(a) \in 1..Len(b) /\ i = (i - Len(a)) + Len(a) BY <2>2, <1>1
      <4> QED BY <4>1
    <3> QED BY <3>1, <1>1, <1>2 DEF Legal
  <2> QED BY <2>1, <2>2
<1>5. Level(a \o b, 1) = Level(a, 1) + Level(b, 1) BY <1>1, <1>2
<1> QED BY <1>1, <1>4, <1>5 DEF Legal

LEMMA LegalTail ==
    ASSUME NEW ag, NEW n, Legal(ag, n), ag # <<>>
    PROVE  /\ Legal(Tail(ag), n) /\ Head(ag) = ag[1] /\ Visits(ag[1], n)
           /\ Level(ag, 1) \in Nat /\ Level(Tail(ag), 1) \in Int
           /\ Level(ag, 1) = Level(Tail(ag), 1)
                + IF ag[1].op = "exit" THEN 1 ELSE IF ag[1].op = "enter" THEN -1 ELSE 0
<1> DEFINE t == Tail(ag)
<1>1. PICK S : ag \in Seq(S) BY DEF Legal, IsSequence
<1>2. /\ t \in Seq(S) /\ Head(ag) = ag[1] /\ Len(ag) \in Nat \ {0}
      /\ Len(t) \in Nat /\ Len(ag) = Len(t) + 1
      /\ \A i \in 1..Len(t) : ag[i + 1] = t[i]
  BY <1>1, HeadTailProperties, EmptySeq
<1> HIDE DEF t
<1>3. IsSequence(t) BY <1>2 DEF IsSequence
<1>4. ASSUME NEW i \in Nat \ {0} PROVE Level(ag, i + 1) = Level(t, i)
  <2>1. /\ \A j \in i..Len(t) : ag[j + 1] = t[j]
        /\ Len(t) \in Nat /\ Len(ag) = Len(t) + 1 /\ 1 \in Nat
    BY <1>2
  <2>2. \A op : Count(ag, i + 1, op) = Count(t, i, op) BY <2>1, CountShifts
  <2> QED BY <2>2 DEF Level
<1>5. ASSUME NEW i \in 1..Len(t) PROVE Visits(t[i], n) /\ Level(t, i) >= 0
  <2>1. i + 1 \in 1..Len(ag) /\ ag[i + 1] = t[i] /\ Level(ag, i + 1) = Level(t, i)
    BY <1>2, <1>4
  <2>2. Visits(ag[i + 1], n) /\ Level(ag, i + 1) >= 0 BY <2>1 DEF Legal
  <2> QED BY <2>1, <2>2
<1>6. Legal(t, n) BY <1>3, <1>5 DEF Legal
<1>7. Level(ag, 1) \in Nat /\ Visits(ag[1], n)
  <2>1. 1 \in 1..Len(ag) BY <1>2
  <2>2. Level(ag, 1) \in Int BY LevelType DEF Legal
  <2> QED BY <2>1, <2>2 DEF Legal
<1>8. Level(ag, 1) = Level(t, 1)
        + IF ag[1].op = "exit" THEN 1 ELSE IF ag[1].op = "enter" THEN -1 ELSE 0
  <2>1. 1 \in 1..Len(ag) /\ Len(ag) \in Nat BY <1>2
  <2>2. /\ Count(ag, 1, "exit") = Count(ag, 1 + 1, "exit")
                                    + IF ag[1].op = "exit" THEN 1 ELSE 0
        /\ Count(ag, 1, "enter") = Count(ag, 1 + 1, "enter")
                                    + IF ag[1].op = "enter" THEN 1 ELSE 0
    BY <2>1, CountBehind
  <2>3. Count(ag, 1 + 1, "exit") \in Nat /\ Count(ag, 1 + 1, "enter") \in Nat
    BY <2>1, CountType
  <2>4. Level(ag, 1 + 1) = Level(t, 1) BY <1>4
  <2> QED BY <2>2, <2>3, <2>4 DEF Level
<1>9. Level(t, 1) \in Int BY <1>3, LevelType
<1> QED BY <1>2, <1>6, <1>7, <1>8, <1>9 DEF t

LEMMA LegalLater ==
    ASSUME NEW ag, NEW n \in Nat, Legal(ag, n), NEW m \in Nat, n <= m
    PROVE  Legal(ag, m)
BY DEF Legal, Visits

\* Visits and definitions alone.
LEMMA BalancedFlat ==
    ASSUME NEW s, IsSequence(s), NEW n,
           \A i \in 1..Len(s) : s[i].op \notin {"enter", "exit"} /\ s[i].e \in 1..n
    PROVE  Balanced(s, n)
<1>1. Len(s) \in Nat BY LevelType
<1>2. ASSUME NEW i \in Nat \ {0} PROVE Level(s, i) = 0
  <2>1. \A j \in i..Len(s) : s[j].op # "exit" /\ s[j].op # "enter" BY <1>1
  <2>2. Count(s, i, "exit") = 0 /\ Count(s, i, "enter") = 0 BY <2>1, CountNone
  <2> QED BY <2>2 DEF Level
<1> QED BY <1>1, <1>2 DEF Balanced, Legal, Visits

LEMMA BalancedConcat ==
    ASSUME NEW a, NEW b, NEW n, Balanced(a, n), Balanced(b, n)
    PROVE  Balanced(a \o b, n)
BY LegalConcat DEF Balanced

LEMMA BalancedScoped ==
    ASSUME NEW ops, NEW n, Balanced(ops, n)
    PROVE  Balanced(Scoped(ops), n)
<1> DEFINE a == <<Enter>> \o ops
<1>1. /\ IsSequence(<<Enter>>) /\ Len(<<Enter>>) = 1 /\ <<Enter>>[1] = Enter
      /\ IsSequence(<<Exit>>) /\ Len(<<Exit>>) = 1 /\ <<Exit>>[1] = Exit
  <2>1. <<Enter>> \in Seq({Enter}) /\ <<Exit>> \in Seq({Exit}) OBVIOUS
  <2> QED BY <2>1 DEF IsSequence
<1>2. Enter.op = "enter" /\ Exit.op = "exit" BY DEF Enter, Exit, Op
<1>3. Level(<<Enter>>, 1) = -1 /\ Level(<<Exit>>, 1) = 1
  <2>1. \A j \in (1 + 1)..1 : FALSE OBVIOUS
  <2>2. \A op : Count(<<Enter>>, 1 + 1, op) = 0 /\ Count(<<Exit>>, 1 + 1, op) = 0
    BY <2>1, <1>1, CountNone
  <2>3. 1 \in 1..1 /\ 1 \in Nat OBVIOUS
  <2>4. ASSUME NEW op
        PROVE  /\ Count(<<Enter>>, 1, op) = IF Enter.op = op THEN 1 ELSE 0
               /\ Count(<<Exit>>, 1, op) = IF Exit.op = op THEN 1 ELSE 0
    <3>1. /\ Count(<<Enter>>, 1, op) = Count(<<Enter>>, 1 + 1, op)
                                         + IF <<Enter>>[1].op = op THEN 1 ELSE 0
          /\ Count(<<Exit>>, 1, op) = Count(<<Exit>>, 1 + 1, op)
                                        + IF <<Exit>>[1].op = op THEN 1 ELSE 0
      BY <2>3, <1>1, CountBehind
    <3> QED BY <3>1, <2>2, <1>1
  <2>5. Count(<<Enter>>, 1, "exit") = 0 /\ Count(<<Enter>>, 1, "enter") = 1
    BY <2>4, <1>2
  <2>6. Count(<<Exit>>, 1, "exit") = 1 /\ Count(<<Exit>>, 1, "enter") = 0
    BY <2>4, <1>2
  <2> QED BY <2>5, <2>6 DEF Level
<1>4. IsSequence(ops) /\ Len(ops) \in Nat /\ Level(ops, 1) = 0
      /\ \A i \in 1..Len(ops) : Visits(ops[i], n) /\ Level(ops, i) >= 0 /\ Level(ops, i) \in Int
  <2>1. IsSequence(ops) BY DEF Balanced, Legal
  <2>2. Len(ops) \in Nat /\ \A i \in Nat : Level(ops, i) \in Int BY <2>1, LevelType
  <2> QED BY <2>1, <2>2 DEF Balanced, Legal
<1>5. /\ IsSequence(a) /\ Len(a) = 1 + Len(ops) /\ a[1] = Enter
      /\ \A j \in 1..Len(ops) : a[j + 1] = ops[j]
  <2> DEFINE e == <<Enter>>
  <2>1. IsSequence(e) /\ Len(e) = 1 /\ e[1] = Enter BY <1>1
  <2> HIDE DEF e
  <2>4. IsSequence(e) /\ IsSequence(ops) BY <2>1, <1>4
  <2>2. /\ IsSequence(e \o ops) /\ Len(e \o ops) = Len(e) + Len(ops)
        /\ \A j \in 1..Len(e) : (e \o ops)[j] = e[j]
        /\ \A j \in 1..Len(ops) : (e \o ops)[j + Len(e)] = ops[j]
    BY <2>4, Concats
  <2>3. a = e \o ops BY DEF e
  <2> HIDE DEF a
  <2> QED BY <2>1, <2>2, <2>3
<1>6. /\ Level(a, 1) = -1
      /\ \A j \in 1..Len(ops) : Level(a, j + 1) = Level(ops, j)
  <2> DEFINE e == <<Enter>>
  <2>1. IsSequence(e) /\ Len(e) = 1 /\ Level(e, 1) = -1 BY <1>1, <1>3
  <2> HIDE DEF e
  <2>2. /\ \A i \in 1..(Len(e) + 1) : Level(e \o ops, i) = Level(e, i) + Level(ops, 1)
        /\ \A i \in 1..Len(ops) : Level(e \o ops, i + Len(e)) = Level(ops, i)
    BY <2>1, <1>4, LevelConcat
  <2>3. a = e \o ops BY DEF e
  <2> HIDE DEF a
  <2> QED BY <2>1, <2>2, <2>3, <1>4
<1> HIDE DEF a
<1> DEFINE x == <<Exit>>
<1>7. IsSequence(x) /\ Len(x) = 1 /\ x[1] = Exit /\ Level(x, 1) = 1 BY <1>1, <1>3
<1> HIDE DEF x
<1>8. /\ IsSequence(a \o x) /\ Len(a) \in Nat /\ Len(a \o x) = Len(a) + 1
      /\ \A j \in 1..Len(a) : (a \o x)[j] = a[j]
      /\ (a \o x)[1 + Len(a)] = x[1]
  <2>1. IsSequence(a) /\ IsSequence(x) BY <1>5, <1>7
  <2>2. /\ IsSequence(a \o x) /\ Len(a) \in Nat /\ Len(a \o x) = Len(a) + Len(x)
        /\ \A j \in 1..Len(a) : (a \o x)[j] = a[j]
        /\ \A j \in 1..Len(x) : (a \o x)[j + Len(a)] = x[j]
    BY <2>1, Concats
  <2> QED BY <2>2, <1>7
<1>9. /\ \A i \in 1..(Len(a) + 1) : Level(a \o x, i) = Level(a, i) + 1
      /\ Level(a \o x, 1 + Len(a)) = 1
  <2>1. IsSequence(a) /\ IsSequence(x) BY <1>5, <1>7
  <2>2. /\ \A i \in 1..(Len(a) + 1) : Level(a \o x, i) = Level(a, i) + Level(x, 1)
        /\ \A i \in 1..Len(x) : Level(a \o x, i + Len(a)) = Level(x, i)
    BY <2>1, LevelConcat
  <2> QED BY <2>2, <1>7
<1>10. Level(a \o x, 1) = 0 BY <1>6, <1>8, <1>9
<1>11. ASSUME NEW i \in 1..Len(a \o x)
       PROVE  Visits((a \o x)[i], n) /\ Level(a \o x, i) >= 0
  <2>1. CASE i = 1
    <3>1. (a \o x)[i] = Enter BY <2>1, <1>4, <1>5, <1>8
    <3> QED BY <2>1, <3>1, <1>2, <1>10 DEF Visits
  <2>2. CASE i \in 2..Len(a)
    <3>1. PICK j \in 1..Len(ops) : i = j + 1
      <4>1. i - 1 \in 1..Len(ops) /\ i = (i - 1) + 1 BY <2>2, <1>4, <1>5
      <4> QED BY <4>1
    <3>2. (a \o x)[i] = ops[j] BY <2>2, <3>1, <1>5, <1>8
    <3>3. i \in 1..(Len(a) + 1) BY <2>2, <1>8
    <3>4. Level(a \o x, i) = Level(ops, j) + 1 BY <3>1, <3>3, <1>6, <1>9
    <3> QED BY <3>2, <3>4, <1>4
  <2>3. CASE i = 1 + Len(a)
    <3>1. (a \o x)[i] = Exit /\ Level(a \o x, i) = 1 BY <2>3, <1>7, <1>8, <1>9
    <3> QED BY <3>1, <1>2 DEF Visits
  <2> QED BY <2>1, <2>2, <2>3, <1>8
<1> QED BY <1>8, <1>10, <1>11 DEF Balanced, Legal, Scoped, a, x

-----------------------------------------------------------------------------
(* What the visits put on the agenda                                       *)

LEMMA OpFields ==
    ASSUME NEW e, NEW i
    PROVE  /\ Visit(e).op = "expr" /\ Visit(e).e = e
           /\ VisitStmt(e).op = "stmt" /\ VisitStmt(e).e = e
           /\ Define(i).op = "define" /\ Define(i).e = E
BY DEF Visit, VisitStmt, Define, Op

LEMMA OfLength ==
    ASSUME NEW S, NEW k \in Nat, NEW f \in [1..k -> S]
    PROVE  f \in Seq(S) /\ IsSequence(f) /\ Len(f) = k
<1>1. f \in Seq(S) /\ Len(f) = k OBVIOUS
<1> QED BY <1>1 DEF IsSequence

LEMMA BalancedVisits ==
    ASSUME NEW n, NEW es \in Seq(1..n)
    PROVE  Balanced(VisitAll(es), n) /\ Balanced(VisitStmts(es), n)
<1>1. Len(es) \in Nat /\ \A i \in 1..Len(es) : es[i] \in 1..n
  BY LenProperties, ElementOfSeq
<1> DEFINE a == VisitAll(es)
           b == VisitStmts(es)
           k == Len(es)
<1>2. /\ a \in [1..k -> {Visit(es[i]) : i \in 1..k}] /\ \A i \in 1..k : a[i] = Visit(es[i])
      /\ b \in [1..k -> {VisitStmt(es[i]) : i \in 1..k}]
      /\ \A i \in 1..k : b[i] = VisitStmt(es[i])
  BY DEF VisitAll, VisitStmts
<1> HIDE DEF a, b
<1>3. IsSequence(a) /\ Len(a) = k /\ IsSequence(b) /\ Len(b) = k
  BY <1>1, <1>2, OfLength
<1>4. ASSUME NEW i \in 1..k
      PROVE  /\ a[i].op \notin {"enter", "exit"} /\ a[i].e \in 1..n
             /\ b[i].op \notin {"enter", "exit"} /\ b[i].e \in 1..n
  <2>1. a[i] = Visit(es[i]) /\ b[i] = VisitStmt(es[i]) /\ es[i] \in 1..n BY <1>1, <1>2
  <2> QED BY <2>1, OpFields
<1>5. Balanced(a, n) BY <1>3, <1>4, BalancedFlat
<1>6. Balanced(b, n) BY <1>3, <1>4, BalancedFlat
<1> QED BY <1>5, <1>6 DEF a, b

LEMMA BalancedVisit ==
    ASSUME NEW n, NEW e \in 1..n
    PROVE  Balanced(<<Visit(e)>>, n)
<1> DEFINE s == <<Visit(e)>>
<1>1. s \in Seq({Visit(e)}) /\ Len(s) = 1 /\ s[1] = Visit(e) OBVIOUS
<1> HIDE DEF s
<1>2. IsSequence(s) BY <1>1 DEF IsSequence
<1>3. \A i \in 1..Len(s) : s[i].op \notin {"enter", "exit"} /\ s[i].e \in 1..n
  BY <1>1, OpFields
<1>4. Balanced(s, n) BY <1>2, <1>3, BalancedFlat
<1> QED BY <1>4 DEF s

LEMMA BalancedNone ==
    ASSUME NEW n
    PROVE  Balanced(<<>>, n)
<1> DEFINE s == <<>>
<1>1. s \in Seq({}) /\ Len(s) = 0 OBVIOUS
<1> HIDE DEF s
<1>2. IsSequence(s) BY <1>1 DEF IsSequence
<1>3. \A i \in 1..Len(s) : s[i].op \notin {"enter", "exit"} /\ s[i].e \in 1..n
  BY <1>1
<1>4. Balanced(s, n) BY <1>2, <1>3, BalancedFlat
<1> QED BY <1>4 DEF s

LEMMA BalancedDefine ==
    ASSUME NEW n, E \in 1..n, NEW i
    PROVE  Balanced(<<Define(i)>>, n)
<1> DEFINE s == <<Define(i)>>
<1>1. s \in Seq({Define(i)}) /\ Len(s) = 1 /\ s[1] = Define(i) OBVIOUS
<1> HIDE DEF s
<1>2. IsSequence(s) BY <1>1 DEF IsSequence
<1>3. \A j \in 1..Len(s) : s[j].op \notin {"enter", "exit"} /\ s[j].e \in 1..n
  BY <1>1, OpFields
<1>4. Balanced(s, n) BY <1>2, <1>3, BalancedFlat
<1> QED BY <1>4 DEF s

LEMMA BalancedDefines ==
    ASSUME NEW n, E \in 1..n, NEW k \in Nat, NEW d \in Int
    PROVE  Balanced([i \in 1..k |-> Define(d + i)], n)
<1> DEFINE s == [i \in 1..k |-> Define(d + i)]
<1>1. s \in [1..k -> {Define(d + i) : i \in 1..k}] /\ \A i \in 1..k : s[i] = Define(d + i)
  OBVIOUS
<1> HIDE DEF s
<1>2. IsSequence(s) /\ Len(s) = k BY <1>1, OfLength
<1>3. ASSUME NEW i \in 1..Len(s) PROVE s[i].op \notin {"enter", "exit"} /\ s[i].e \in 1..n
  <2>1. s[i] = Define(d + i) BY <1>1, <1>2
  <2>2. Define(d + i).op = "define" /\ Define(d + i).e = E BY OpFields
  <2> QED BY <2>1, <2>2
<1>4. Balanced(s, n) BY <1>2, <1>3, BalancedFlat
<1> QED BY <1>4 DEF s

LEMMA BalancedDefineAll ==
    ASSUME NEW n, E \in 1..n, NEW binds, IsSequence(binds)
    PROVE  Balanced(DefineAll(binds), n)
<1>1. Len(binds) \in Nat BY LevelType
<1>2. DefineAll(binds) = [i \in 1..Len(binds) |-> Define(0 + i)]
  BY <1>1 DEF DefineAll
<1>3. 0 \in Int OBVIOUS
<1> QED BY <1>1, <1>2, <1>3, BalancedDefines

LEMMA BalancedFn ==
    ASSUME NEW n, E \in 1..n, NEW binds, IsSequence(binds),
           NEW first \in 1..(Len(binds) + 1), NEW k, NewKids(k) \in Seq(1..n)
    PROVE  Balanced(FnBody(binds, first, k), n)
<1> DEFINE m == Len(binds) + 1 - first
           d == first - 1
           params == [i \in 1..m |-> Define(d + i)]
           body == Scoped(VisitStmts(NewKids(k)))
<1>1. Len(binds) \in Nat BY LevelType
<1>2. m \in Nat /\ d \in Int BY <1>1
<1>3. Balanced(VisitStmts(NewKids(k)), n) BY BalancedVisits
<1>4. Balanced(body, n) BY <1>3, BalancedScoped
<1>5. FnBody(binds, first, k) = Scoped(params \o body) BY DEF FnBody
<1> HIDE DEF m, d, body
<1>6. Balanced(params, n) BY <1>2, BalancedDefines
<1> HIDE DEF params
<1>7. Balanced(params \o body, n) BY <1>4, <1>6, BalancedConcat
<1> QED BY <1>5, <1>7, BalancedScoped

-----------------------------------------------------------------------------
(* The tree                                                                *)

LEMMA Kids ==
    ASSUME Len(ast) \in Nat, NEW k \in Nat
    PROVE  /\ NewKids(k) \in Seq(1..(Len(ast) + k)) /\ Len(NewKids(k)) = k
           /\ \A i \in 1..k : NewKids(k)[i] \in 1..(Len(ast) + k)
<1>1. \A i \in 1..k : NewKids(k)[i] = Len(ast) + i /\ Len(ast) + i \in 1..(Len(ast) + k)
  BY DEF NewKids
<1>2. NewKids(k) \in [1..k -> 1..(Len(ast) + k)] BY DEF NewKids
<1>3. NewKids(k) \in Seq(1..(Len(ast) + k)) /\ Len(NewKids(k)) = k BY <1>2, OfLength
<1> QED BY <1>1, <1>3

LEMMA TreeGrows ==
    ASSUME NEW a, AstOK(a), NEW e \in 1..Len(a), NEW k \in Nat,
           NEW node, IsSequence(node.binds)
    PROVE  /\ AstOK([a EXCEPT ![e] = node] \o [i \in 1..k |-> Unread])
           /\ Len([a EXCEPT ![e] = node] \o [i \in 1..k |-> Unread]) = Len(a) + k
           /\ AstOK([a EXCEPT ![e] = node]) /\ Len([a EXCEPT ![e] = node]) = Len(a)
<1> DEFINE b == [a EXCEPT ![e] = node]
           c == [i \in 1..k |-> Unread]
<1>1. PICK S : a \in Seq(S) BY DEF AstOK, IsSequence
<1>2. Len(a) \in Nat /\ a \in [1..Len(a) -> S] BY <1>1, LenProperties
<1>3. b \in [1..Len(a) -> S \cup {node}] /\ b[e] = node
      /\ \A j \in 1..Len(a) : j # e => b[j] = a[j]
  BY <1>2
<1>4. c \in [1..k -> {Unread}] /\ \A j \in 1..k : c[j] = Unread OBVIOUS
<1> HIDE DEF b, c
<1>5. IsSequence(b) /\ Len(b) = Len(a) BY <1>2, <1>3, OfLength
<1>6. IsSequence(c) /\ Len(c) = k BY <1>4, OfLength
<1>7. IsSequence(Unread.binds)
  <2>1. Unread.binds = <<>> BY DEF Unread, Node
  <2>2. Unread.binds \in Seq({}) BY <2>1
  <2> QED BY <2>2 DEF IsSequence
<1>8. /\ IsSequence(b \o c)
      /\ Len(b) \in Nat /\ Len(c) \in Nat /\ Len(b \o c) = Len(b) + Len(c)
      /\ \A j \in 1..Len(b) : (b \o c)[j] = b[j]
      /\ \A j \in 1..Len(c) : (b \o c)[j + Len(b)] = c[j]
  <2>1. IsSequence(b) /\ IsSequence(c) BY <1>5, <1>6
  <2> QED BY ONLY <2>1, Concats
<1>9. \A j \in 1..Len(a) : IsSequence(b[j].binds) BY <1>3 DEF AstOK
<1>10. ASSUME NEW j \in 1..Len(b \o c) PROVE IsSequence((b \o c)[j].binds)
  <2>1. CASE j \in 1..Len(b) BY <2>1, <1>5, <1>8, <1>9
  <2>2. CASE j \notin 1..Len(b)
    <3>1. j - Len(b) \in 1..Len(c) /\ j = (j - Len(b)) + Len(b)
      BY <2>2, <1>2, <1>5, <1>6, <1>8
    <3>2. (b \o c)[j] = c[j - Len(b)] /\ j - Len(b) \in 1..k BY <3>1, <1>6, <1>8
    <3> QED BY <3>2, <1>4, <1>7
  <2> QED BY <2>1, <2>2
<1>11. AstOK(b \o c) /\ Len(b \o c) = Len(a) + k BY <1>5, <1>6, <1>8, <1>10 DEF AstOK
<1>12. AstOK(b) BY <1>5, <1>9 DEF AstOK
<1> QED BY <1>5, <1>11, <1>12 DEF b, c

-----------------------------------------------------------------------------
(* Steps that leave the scopes alone                                       *)

Visiting == agenda # <<>> /\ Top.op \notin {"enter", "exit"}

LEMMA RunningVisits ==
    /\ \A op : Running(op) /\ op \notin {"enter", "exit"} => Visiting
    /\ Reading => Visiting
    /\ ReadingStmt => Visiting
BY DEF Running, Visiting, Reading, ReadingStmt

LEMMA HeadIn ==
    ASSUME ResInv, Visiting
    PROVE  Len(ast) \in Nat /\ E \in 1..Len(ast)
<1>1. Len(ast) \in Nat BY LevelType DEF ResInv, AstOK
<1>2. Head(agenda) = agenda[1] /\ Visits(agenda[1], Len(ast))
  BY LegalTail DEF ResInv, WorkOK, Visiting
<1> QED BY <1>1, <1>2 DEF Visits, Visiting, Top, E

\* An agenda without its head is Legal, and open scopes are what it leaves.
LEMMA WorkStep ==
    ASSUME ResInv, Visiting, NEW ops, Do(ops),
           NEW n \in Nat, Len(ast) <= n, Len(ast') = n, Balanced(ops, n),
           UNCHANGED active
    PROVE  WorkOK'
<1> DEFINE t == Tail(agenda)
<1>1. Len(ast) \in Nat BY HeadIn
<1>2. Legal(agenda, n) BY <1>1, LegalLater DEF ResInv, WorkOK
<1>3. agenda # <<>> BY DEF Visiting
<1>4. /\ Legal(t, n) /\ Head(agenda) = agenda[1] /\ Level(t, 1) \in Int
      /\ Level(agenda, 1) = Level(t, 1)
            + IF agenda[1].op = "exit" THEN 1 ELSE IF agenda[1].op = "enter" THEN -1 ELSE 0
  BY <1>2, <1>3, LegalTail
<1>5. Level(agenda, 1) = Level(t, 1) BY <1>4 DEF Visiting, Top
<1>6. Legal(ops, n) /\ Level(ops, 1) = 0 BY DEF Balanced
<1>7. Legal(ops \o t, n) /\ Level(ops \o t, 1) = Level(ops, 1) + Level(t, 1)
  BY <1>4, <1>6, LegalConcat
<1>8. agenda' = ops \o t BY DEF Do
<1>9. Legal(agenda', Len(ast')) BY <1>7, <1>8
<1>10. Level(agenda', 1) = Level(agenda, 1) BY <1>4, <1>5, <1>6, <1>7, <1>8
<1>11. Len(active') = 1 + Level(agenda, 1) BY DEF ResInv, WorkOK
<1> QED BY <1>9, <1>10, <1>11 DEF WorkOK

LEMMA TreeStep ==
    ASSUME ResInv, Visiting, NEW ops, Do(ops),
           NEW n \in Nat, Len(ast) <= n, Len(ast') = n, AstOK(ast'), Balanced(ops, n),
           UNCHANGED <<scopes, active, symbols>>,
           \A span \in DOMAIN resolutions' :
              resolutions'[span] \in DefIds /\ span[1] \in 1..n,
           \A span \in errors' : span[1] \in 1..n
    PROVE  ResInv'
<1>1. WorkOK' BY WorkStep
<1>2. StackOK' BY DEF ResInv, StackOK
<1>3. AstOK(ast)' OBVIOUS
<1>4. TypeOK'
  <2>1. DefIds' = DefIds BY DEF DefIds
  <2>2. DOMAIN ast' = 1..n
    <3>1. PICK S : ast' \in Seq(S) BY DEF AstOK, IsSequence
    <3> QED BY <3>1, LenProperties
  <2>3. /\ \A s \in DOMAIN scopes' :
              /\ scopes'[s].parent \in 0..(s - 1)
              /\ \A x \in DOMAIN scopes'[s].bindings : scopes'[s].bindings[x] \in DefIds'
        /\ \A i \in DOMAIN active' : active'[i] \in DOMAIN scopes'
    BY <2>1 DEF ResInv, TypeOK
  <2> QED BY <2>1, <2>2, <2>3 DEF TypeOK
<1> QED BY <1>1, <1>2, <1>3, <1>4 DEF ResInv

LEMMA ReadStep ==
    ASSUME ResInv, Visiting, NEW ops, Do(ops),
           NEW n \in Nat, Len(ast) <= n, Len(ast') = n, AstOK(ast'), Balanced(ops, n),
           UNCHANGED env
    PROVE  ResInv'
<1>1. DOMAIN ast = 1..Len(ast) /\ Len(ast) \in Nat
  <2>1. PICK S : ast \in Seq(S) BY DEF ResInv, AstOK, IsSequence
  <2> QED BY <2>1, LenProperties
<1>2. /\ \A span \in DOMAIN resolutions' :
            resolutions'[span] \in DefIds /\ span[1] \in 1..n
      /\ \A span \in errors' : span[1] \in 1..n
  BY <1>1 DEF env, ResInv, TypeOK
<1>3. UNCHANGED <<scopes, active, symbols>> BY DEF env
<1> QED BY <1>2, <1>3, TreeStep

\* The children of a node that is read, and the tree with them.
LEMMA ReadTree ==
    ASSUME ResInv, Visiting, NEW kind, NEW k \in Nat, NEW binds, IsSequence(binds),
           Read(kind, k, binds)
    PROVE  /\ AstOK(ast') /\ Len(ast) \in Nat /\ Len(ast') = Len(ast) + k
           /\ E \in 1..(Len(ast) + k)
           /\ NewKids(k) \in Seq(1..(Len(ast) + k)) /\ Len(NewKids(k)) = k
           /\ \A i \in 1..k : NewKids(k)[i] \in 1..(Len(ast) + k)
<1>1. Len(ast) \in Nat /\ E \in 1..Len(ast) BY HeadIn
<1> DEFINE node == Node(kind, ast[E].name, NewKids(k), binds)
<1>2. node.binds = binds BY DEF Node
<1>3. ast' = [ast EXCEPT ![E] = node] \o [i \in 1..k |-> Unread] BY DEF Read
<1> HIDE DEF node
<1>4. AstOK(ast) BY DEF ResInv
<1>5. AstOK(ast') /\ Len(ast') = Len(ast) + k BY <1>1, <1>2, <1>3, <1>4, TreeGrows, SMTT(30)
<1>6. /\ NewKids(k) \in Seq(1..(Len(ast) + k)) /\ Len(NewKids(k)) = k
      /\ \A i \in 1..k : NewKids(k)[i] \in 1..(Len(ast) + k)
  BY <1>1, Kids
<1>7. E \in 1..(Len(ast) + k) BY <1>1
<1> QED BY <1>1, <1>5, <1>6, <1>7

\* A node is read and the walk goes on with what it is made of.
LEMMA ReadThen ==
    ASSUME ResInv, Visiting, NEW kind, NEW k \in Nat, NEW binds, IsSequence(binds),
           Read(kind, k, binds), NEW ops, Balanced(ops, Len(ast) + k), Do(ops),
           UNCHANGED env
    PROVE  ResInv'
<1>1. AstOK(ast') /\ Len(ast) \in Nat /\ Len(ast') = Len(ast) + k BY ReadTree
<1>2. Len(ast) + k \in Nat /\ Len(ast) <= Len(ast) + k BY <1>1
<1> QED BY <1>1, <1>2, ReadStep

LEMMA SmallSequences ==
    /\ IsSequence(<<>>)
    /\ \A x : IsSequence(<<x>>) /\ Len(<<x>>) = 1
    /\ \A binds \in PatternLists : IsSequence(binds)
<1>1. IsSequence(<<>>)
  <2>1. <<>> \in Seq({}) OBVIOUS
  <2> QED BY <2>1 DEF IsSequence
<1>2. ASSUME NEW x PROVE IsSequence(<<x>>) /\ Len(<<x>>) = 1
  <2>1. <<x>> \in Seq({x}) OBVIOUS
  <2> QED BY <2>1 DEF IsSequence
<1>3. ASSUME NEW binds \in PatternLists PROVE IsSequence(binds)
  <2>1. binds \in Seq(BinderSet) BY ConstantsAssumption
  <2> QED BY <2>1 DEF IsSequence
<1> QED BY <1>1, <1>2, <1>3

-----------------------------------------------------------------------------
(* Expressions                                                             *)

LEMMA OperandsStep == ResInv /\ VisitOperands => ResInv'
<1> SUFFICES ASSUME ResInv, NEW n \in 0..MaxOperands, Reading, Read("operands", n, <<>>),
                    Do(VisitAll(NewKids(n))), UNCHANGED env
             PROVE  ResInv'
  BY DEF VisitOperands
<1>1. Visiting BY RunningVisits
<1>2. n \in Nat BY ConstantsAssumption
<1>3. NewKids(n) \in Seq(1..(Len(ast) + n)) BY <1>1, <1>2, ReadTree, SmallSequences
<1>4. Balanced(VisitAll(NewKids(n)), Len(ast) + n) BY <1>3, BalancedVisits
<1> QED BY <1>1, <1>2, <1>4, ReadThen, SmallSequences

LEMMA BlockStep == ResInv /\ VisitBlock => ResInv'
<1> SUFFICES ASSUME ResInv, NEW n \in 0..MaxOperands, Reading, Read("block", n, <<>>),
                    Do(Scoped(VisitStmts(NewKids(n)))), UNCHANGED env
             PROVE  ResInv'
  BY DEF VisitBlock
<1>1. Visiting BY RunningVisits
<1>2. n \in Nat BY ConstantsAssumption
<1>3. NewKids(n) \in Seq(1..(Len(ast) + n)) BY <1>1, <1>2, ReadTree, SmallSequences
<1>4. Balanced(Scoped(VisitStmts(NewKids(n))), Len(ast) + n)
  BY <1>3, BalancedVisits, BalancedScoped
<1> QED BY <1>1, <1>2, <1>4, ReadThen, SmallSequences

LEMMA JumpStep == ResInv /\ VisitJump => ResInv'
<1> SUFFICES ASSUME ResInv, NEW x \in Names, Running("expr"),
                    ast' = Append([ast EXCEPT ![E] = Node("jump", @.name, NewKids(1), <<>>)],
                                  Node("use", x, <<>>, <<>>)),
                    Do(<<>>), UNCHANGED env
             PROVE  ResInv'
  BY DEF VisitJump
<1>1. Visiting BY RunningVisits
<1>2. Len(ast) \in Nat /\ E \in 1..Len(ast) BY <1>1, HeadIn
<1> DEFINE node == Node("jump", ast[E].name, NewKids(1), <<>>)
           use  == Node("use", x, <<>>, <<>>)
           b    == [ast EXCEPT ![E] = node]
<1>3. IsSequence(node.binds) /\ IsSequence(use.binds)
  <2>1. node.binds = <<>> /\ use.binds = <<>> BY DEF Node
  <2> QED BY <2>1, SmallSequences
<1>4. ast' = Append(b, use) OBVIOUS
<1> HIDE DEF node, use
<1>5. AstOK(b) /\ Len(b) = Len(ast)
  <2>1. AstOK(ast) /\ 0 \in Nat BY DEF ResInv
  <2> QED BY <2>1, <1>2, <1>3, TreeGrows
<1> HIDE DEF b
<1>6. PICK S : b \in Seq(S) BY <1>5 DEF AstOK, IsSequence
<1>7. Append(b, use) \in Seq(S \cup {use}) /\ Len(Append(b, use)) = Len(b) + 1
      /\ \A j \in 1..(Len(b) + 1) : Append(b, use)[j] = IF j = Len(b) + 1 THEN use ELSE b[j]
  <2>1. b \in Seq(S \cup {use}) /\ use \in S \cup {use} BY <1>6
  <2> QED BY <2>1, AppendProperties
<1>8. AstOK(ast') /\ Len(ast') = Len(ast) + 1
  <2>1. IsSequence(Append(b, use)) BY <1>7 DEF IsSequence
  <2>2. \A j \in 1..(Len(b) + 1) : IsSequence(Append(b, use)[j].binds)
    BY <1>2, <1>3, <1>5, <1>7 DEF AstOK
  <2> QED BY <2>1, <2>2, <1>4, <1>5, <1>7 DEF AstOK
<1>9. Len(ast) + 1 \in Nat /\ Len(ast) <= Len(ast) + 1 BY <1>2
<1>10. Balanced(<<>>, Len(ast) + 1) BY BalancedNone
<1> QED BY <1>1, <1>8, <1>9, <1>10, ReadStep

-----------------------------------------------------------------------------
(* Names that are looked up                                                *)

LEMMA Inserted ==
    ASSUME NEW f, NEW k, NEW v
    PROVE  /\ DOMAIN Insert(f, k, v) = DOMAIN f \cup {k}
           /\ \A x \in DOMAIN Insert(f, k, v) :
                \/ x = k /\ Insert(f, k, v)[x] = v
                \/ x \in DOMAIN f /\ Insert(f, k, v)[x] = f[x]
BY DEF Insert

LEMMA ResolveIn ==
    ASSUME ResInv, NEW x, Defined(x)
    PROVE  Resolve(x) \in DefIds
<1>1. active \in Seq(Nat) /\ Len(active) \in Nat /\ DOMAIN active = 1..Len(active)
  BY LenProperties DEF ResInv, StackOK
<1>2. Holders(x) \subseteq 1..Len(active) /\ Holders(x) # {}
  BY <1>1 DEF Holders, Defined
<1>3. \E i \in Holders(x) : \A j \in Holders(x) : j <= i BY <1>1, <1>2, Greatest
<1> DEFINE i == CHOOSE i \in Holders(x) : \A j \in Holders(x) : j <= i
<1>4. i \in Holders(x) BY <1>3
<1>5. Resolve(x) = scopes[active[i]].bindings[x] BY DEF Resolve
<1> HIDE DEF i
<1>6. i \in DOMAIN active /\ x \in DOMAIN scopes[active[i]].bindings BY <1>4 DEF Holders
<1>7. active[i] \in DOMAIN scopes BY <1>6 DEF ResInv, TypeOK
<1> QED BY <1>5, <1>6, <1>7 DEF ResInv, TypeOK

\* A leaf of the tree that looks a name up.
LEMMA LeafStep ==
    ASSUME ResInv, Visiting, NEW kind, NEW x,
           ast' = [ast EXCEPT ![E] = Node(kind, x, <<>>, <<>>)], Do(<<>>),
           UNCHANGED <<scopes, active, symbols>>,
           \/ resolutions' = resolutions
           \/ Defined(x) /\ resolutions' = Insert(resolutions, <<E, 0>>, Resolve(x)),
           errors' \subseteq errors \cup {<<E, 0>>}
    PROVE  ResInv'
<1>1. Len(ast) \in Nat /\ E \in 1..Len(ast) BY HeadIn
<1> DEFINE node == Node(kind, x, <<>>, <<>>)
<1>2. IsSequence(node.binds)
  <2>1. node.binds = <<>> BY DEF Node
  <2> QED BY <2>1, SmallSequences
<1>3. ast' = [ast EXCEPT ![E] = node] OBVIOUS
<1> HIDE DEF node
<1>4. AstOK(ast') /\ Len(ast') = Len(ast)
  <2>1. AstOK(ast) /\ 0 \in Nat BY DEF ResInv
  <2>2. AstOK([ast EXCEPT ![E] = node]) /\ Len([ast EXCEPT ![E] = node]) = Len(ast)
    BY <2>1, <1>1, <1>2, TreeGrows
  <2> QED BY <2>2, <1>3
<1>5. DOMAIN ast = 1..Len(ast)
  <2>1. PICK S : ast \in Seq(S) BY DEF ResInv, AstOK, IsSequence
  <2> QED BY <2>1, LenProperties
<1>6. /\ \A span \in DOMAIN resolutions :
            resolutions[span] \in DefIds /\ span[1] \in 1..Len(ast)
      /\ \A span \in errors : span[1] \in 1..Len(ast)
  BY <1>5 DEF ResInv, TypeOK
<1>7. <<E, 0>>[1] \in 1..Len(ast) BY <1>1
<1>8. ASSUME NEW span \in DOMAIN resolutions'
      PROVE  resolutions'[span] \in DefIds /\ span[1] \in 1..Len(ast)
  <2>1. CASE resolutions' = resolutions BY <2>1, <1>6
  <2>2. CASE Defined(x) /\ resolutions' = Insert(resolutions, <<E, 0>>, Resolve(x))
    <3>1. Resolve(x) \in DefIds BY <2>2, ResolveIn
    <3> DEFINE r == Insert(resolutions, <<E, 0>>, Resolve(x))
    <3>2. \A y \in DOMAIN r : \/ y = <<E, 0>> /\ r[y] = Resolve(x)
                              \/ y \in DOMAIN resolutions /\ r[y] = resolutions[y]
      BY DEF Insert
    <3> HIDE DEF r
    <3>3. \/ span = <<E, 0>> /\ resolutions'[span] = Resolve(x)
          \/ span \in DOMAIN resolutions /\ resolutions'[span] = resolutions[span]
      BY <2>2, <3>2 DEF r
    <3> QED BY <3>1, <3>3, <1>6, <1>7
  <2> QED BY <2>1, <2>2
<1>9. \A span \in errors' : span[1] \in 1..Len(ast) BY <1>6, <1>7
<1>10. Balanced(<<>>, Len(ast)) BY BalancedNone
<1>11. Len(ast) <= Len(ast) BY <1>1
<1> QED BY <1>1, <1>4, <1>8, <1>9, <1>10, <1>11, TreeStep

LEMMA UseStep == ResInv /\ VisitUse => ResInv'
<1> SUFFICES ASSUME ResInv, NEW x \in Names, Reading,
                    ast' = [ast EXCEPT ![E] = Node("use", x, <<>>, <<>>)], Do(<<>>),
                    IF Defined(x)
                    THEN resolutions' = Insert(resolutions, <<E, 0>>, Resolve(x))
                            /\ UNCHANGED errors
                    ELSE errors' = errors \cup {<<E, 0>>} /\ UNCHANGED resolutions,
                    UNCHANGED <<scopes, active, symbols>>
             PROVE  ResInv'
  BY DEF VisitUse
<1>1. Visiting BY RunningVisits
<1>2. \/ resolutions' = resolutions
      \/ Defined(x) /\ resolutions' = Insert(resolutions, <<E, 0>>, Resolve(x))
  OBVIOUS
<1>3. errors' \subseteq errors \cup {<<E, 0>>} OBVIOUS
<1> QED BY <1>1, <1>2, <1>3, LeafStep

LEMMA TypeStep == ResInv /\ VisitType => ResInv'
<1> SUFFICES ASSUME ResInv, NEW x \in Names, Reading,
                    ast' = [ast EXCEPT ![E] = Node("type", x, <<>>, <<>>)], Do(<<>>),
                    resolutions' = IF Defined(x)
                                   THEN Insert(resolutions, <<E, 0>>, Resolve(x))
                                   ELSE resolutions,
                    UNCHANGED <<scopes, active, symbols, errors>>
             PROVE  ResInv'
  BY DEF VisitType
<1>1. Visiting BY RunningVisits
<1>2. \/ resolutions' = resolutions
      \/ Defined(x) /\ resolutions' = Insert(resolutions, <<E, 0>>, Resolve(x))
  OBVIOUS
<1>3. errors' \subseteq errors \cup {<<E, 0>>} OBVIOUS
<1> QED BY <1>1, <1>2, <1>3, LeafStep

-----------------------------------------------------------------------------
(* Expressions that bind                                                   *)

\* A pattern and what its names are visible in: a scope.
LEMMA BalancedArm ==
    ASSUME NEW n, E \in 1..n, NEW binds, IsSequence(binds), NEW e \in 1..n
    PROVE  Balanced(Scoped(Append(DefineAll(binds), Visit(e))), n)
<1>1. Balanced(DefineAll(binds), n) BY BalancedDefineAll
<1>2. Balanced(<<Visit(e)>>, n) BY BalancedVisit
<1>3. Append(DefineAll(binds), Visit(e)) = DefineAll(binds) \o <<Visit(e)>>
  <2>1. PICK S : DefineAll(binds) \in Seq(S) BY <1>1 DEF Balanced, Legal, IsSequence
  <2>2. PICK T : T = S \cup {Visit(e)} OBVIOUS
  <2>3. DefineAll(binds) \in Seq(T) /\ Visit(e) \in T BY <2>1, <2>2
  <2> HIDE DEF DefineAll, Visit
  <2> QED BY <2>3, AppendIsConcat
<1> QED BY <1>1, <1>2, <1>3, BalancedConcat, BalancedScoped

\* The third child, if there is one.
LEMMA BalancedElse ==
    ASSUME NEW n, NEW kids \in Seq(1..n), Len(kids) \in {2, 3}
    PROVE  Balanced(VisitAll(SubSeq(kids, 3, Len(kids))), n)
<1>1. Len(kids) \in Int /\ 3 \in Int /\ \A i \in 3..Len(kids) : kids[i] \in 1..n
  <2>1. Len(kids) \in Nat /\ kids \in [1..Len(kids) -> 1..n] BY LenProperties
  <2>2. \A i \in 3..Len(kids) : i \in 1..Len(kids) BY <2>1
  <2> QED BY <2>1, <2>2
<1>2. SubSeq(kids, 3, Len(kids)) \in Seq(1..n) BY <1>1, SubSeqProperties
<1> QED BY <1>2, BalancedVisits

LEMMA IfLetStep == ResInv /\ VisitIfLet => ResInv'
<1> SUFFICES ASSUME ResInv, NEW binds \in PatternLists, NEW k \in {2, 3}, Reading,
                    Read("if_let", Len(NewKids(k)), binds),
                    Do(<<Visit(NewKids(k)[1])>>
                        \o Scoped(Append(DefineAll(binds), Visit(NewKids(k)[2])))
                        \o VisitAll(SubSeq(NewKids(k), 3, Len(NewKids(k))))),
                    UNCHANGED env
             PROVE  ResInv'
  BY DEF VisitIfLet
<1>1. Visiting BY RunningVisits
<1>2. k \in Nat /\ 1 \in 1..k /\ 2 \in 1..k OBVIOUS
<1>3. IsSequence(binds) BY SmallSequences
<1>4. Len(NewKids(k)) = k
  <2>1. Len(ast) \in Nat BY <1>1, HeadIn
  <2> QED BY <2>1, <1>2, Kids
<1>5. Read("if_let", k, binds) BY <1>4
<1> DEFINE n == Len(ast) + k
           kids == NewKids(k)
<1>6. /\ E \in 1..n /\ kids \in Seq(1..n) /\ Len(kids) = k
      /\ \A i \in 1..k : kids[i] \in 1..n
  BY <1>1, <1>2, <1>3, <1>5, ReadTree
<1> DEFINE a == <<Visit(kids[1])>>
           b == Scoped(Append(DefineAll(binds), Visit(kids[2])))
           c == VisitAll(SubSeq(kids, 3, Len(kids)))
<1>7. Do(a \o b \o c) OBVIOUS
<1> HIDE DEF kids
<1>8. Balanced(a, n) BY <1>2, <1>6, BalancedVisit
<1>9. Balanced(b, n) BY <1>2, <1>3, <1>6, BalancedArm
<1>10. Balanced(c, n) BY <1>6, BalancedElse
<1> HIDE DEF a, b, c
<1>11. Balanced(a \o b, n) BY <1>8, <1>9, BalancedConcat
<1>12. Balanced(a \o b \o c, n) BY <1>10, <1>11, BalancedConcat
<1> HIDE DEF kids
<1> QED BY <1>1, <1>2, <1>3, <1>5, <1>7, <1>12, ReadThen

LEMMA MatchStep == ResInv /\ VisitMatch => ResInv'
<1> SUFFICES ASSUME ResInv, NEW binds \in PatternLists, Reading, Read("match", 2, binds),
                    Do(<<Visit(NewKids(2)[1])>>
                        \o Scoped(Append(DefineAll(binds), Visit(NewKids(2)[2])))),
                    UNCHANGED env
             PROVE  ResInv'
  BY DEF VisitMatch
<1>1. Visiting BY RunningVisits
<1>2. 2 \in Nat /\ 1 \in 1..2 /\ 2 \in 1..2 OBVIOUS
<1>3. IsSequence(binds) BY SmallSequences
<1> DEFINE n == Len(ast) + 2
           kids == NewKids(2)
<1>4. E \in 1..n /\ \A i \in 1..2 : kids[i] \in 1..n
  BY <1>1, <1>2, <1>3, ReadTree
<1> DEFINE a == <<Visit(kids[1])>>
           b == Scoped(Append(DefineAll(binds), Visit(kids[2])))
<1>5. Do(a \o b) OBVIOUS
<1> HIDE DEF kids
<1>6. Balanced(a, n) BY <1>2, <1>4, BalancedVisit
<1>7. Balanced(b, n) BY <1>2, <1>3, <1>4, BalancedArm
<1> HIDE DEF a, b
<1>8. Balanced(a \o b, n) BY <1>6, <1>7, BalancedConcat
<1> QED BY <1>1, <1>2, <1>3, <1>5, <1>8, ReadThen

LEMMA LoopStep == ResInv /\ VisitLoop => ResInv'
<1> SUFFICES ASSUME ResInv, NEW binds \in PatternLists, NEW k \in {2, 3}, Reading,
                    Read("loop", Len(NewKids(k)), binds),
                    Do(Scoped(<<Visit(NewKids(k)[1])>> \o DefineAll(binds)
                                \o <<Visit(NewKids(k)[2])>>)
                        \o VisitAll(SubSeq(NewKids(k), 3, Len(NewKids(k))))),
                    UNCHANGED env
             PROVE  ResInv'
  BY DEF VisitLoop
<1>1. Visiting BY RunningVisits
<1>2. k \in Nat /\ 1 \in 1..k /\ 2 \in 1..k OBVIOUS
<1>3. IsSequence(binds) BY SmallSequences
<1>4. Len(NewKids(k)) = k
  <2>1. Len(ast) \in Nat BY <1>1, HeadIn
  <2> QED BY <2>1, <1>2, Kids
<1>5. Read("loop", k, binds) BY <1>4
<1> DEFINE n == Len(ast) + k
           kids == NewKids(k)
<1>6. /\ E \in 1..n /\ kids \in Seq(1..n) /\ Len(kids) = k
      /\ \A i \in 1..k : kids[i] \in 1..n
  BY <1>1, <1>2, <1>3, <1>5, ReadTree
<1> DEFINE a == <<Visit(kids[1])>>
           b == DefineAll(binds)
           c == <<Visit(kids[2])>>
           d == VisitAll(SubSeq(kids, 3, Len(kids)))
<1>7. Do(Scoped(a \o b \o c) \o d) OBVIOUS
<1> HIDE DEF kids
<1>8. Balanced(a, n) BY <1>2, <1>6, BalancedVisit
<1>9. Balanced(b, n) BY <1>3, <1>6, BalancedDefineAll
<1>10. Balanced(c, n) BY <1>2, <1>6, BalancedVisit
<1>11. Balanced(d, n) BY <1>6, BalancedElse
<1> HIDE DEF a, b, c, d
<1>12. Balanced(a \o b, n) BY <1>8, <1>9, BalancedConcat
<1>13. Balanced(a \o b \o c, n) BY <1>10, <1>12, BalancedConcat
<1>14. Balanced(Scoped(a \o b \o c), n) BY <1>13, BalancedScoped
<1>15. Balanced(Scoped(a \o b \o c) \o d, n) BY <1>11, <1>14, BalancedConcat
<1> QED BY <1>1, <1>2, <1>3, <1>5, <1>7, <1>15, ReadThen

LEMMA ClosureStep == ResInv /\ VisitClosure => ResInv'
<1> SUFFICES ASSUME ResInv, NEW x \in Bound, Reading,
                    Read("closure", 1, <<Binder(x, FALSE, FALSE)>>),
                    Do(Scoped(DefineAll(<<Binder(x, FALSE, FALSE)>>) \o VisitAll(NewKids(1)))),
                    UNCHANGED env
             PROVE  ResInv'
  BY DEF VisitClosure
<1>1. Visiting BY RunningVisits
<1>2. PICK binds : binds = <<Binder(x, FALSE, FALSE)>> OBVIOUS
<1>3. IsSequence(binds) /\ Read("closure", 1, binds) BY <1>2, SmallSequences
<1> DEFINE n == Len(ast) + 1
           a == DefineAll(binds)
           b == VisitAll(NewKids(1))
<1>4. Do(Scoped(a \o b)) BY <1>2
<1>5. 1 \in Nat OBVIOUS
<1>6. E \in 1..n /\ NewKids(1) \in Seq(1..n) BY <1>1, <1>3, <1>5, ReadTree
<1>7. Balanced(a, n) BY <1>3, <1>6, BalancedDefineAll
<1>8. Balanced(b, n) BY <1>6, BalancedVisits
<1> HIDE DEF a, b
<1>9. Balanced(Scoped(a \o b), n) BY <1>7, <1>8, BalancedConcat, BalancedScoped
<1> QED BY <1>1, <1>3, <1>4, <1>5, <1>9, ReadThen

LEMMA ForkStep == ResInv /\ VisitFork => ResInv'
<1> SUFFICES ASSUME ResInv, NEW x \in Bound, Reading,
                    Read("fork", 2, <<Binder(x, FALSE, FALSE)>>),
                    Do(Scoped(<<Visit(NewKids(2)[1]), Define(1), Visit(NewKids(2)[2])>>)),
                    UNCHANGED env
             PROVE  ResInv'
  BY DEF VisitFork
<1>1. Visiting BY RunningVisits
<1>2. PICK binds : binds = <<Binder(x, FALSE, FALSE)>> OBVIOUS
<1>3. IsSequence(binds) /\ Read("fork", 2, binds) BY <1>2, SmallSequences
<1>4. 2 \in Nat /\ 1 \in 1..2 /\ 2 \in 1..2 OBVIOUS
<1> DEFINE n == Len(ast) + 2
           a == Visit(NewKids(2)[1])
           b == Define(1)
           c == Visit(NewKids(2)[2])
           s == <<a, b, c>>
<1>5. Do(Scoped(s)) OBVIOUS
<1>6. E \in 1..n /\ \A i \in 1..2 : NewKids(2)[i] \in 1..n
  BY <1>1, <1>3, <1>4, ReadTree
<1>7. /\ a.op \notin {"enter", "exit"} /\ a.e \in 1..n
      /\ b.op \notin {"enter", "exit"} /\ b.e \in 1..n
      /\ c.op \notin {"enter", "exit"} /\ c.e \in 1..n
  BY <1>4, <1>6 DEF Visit, Define, Op
<1> HIDE DEF a, b, c
<1>8. s \in Seq({a, b, c}) /\ Len(s) = 3 /\ s[1] = a /\ s[2] = b /\ s[3] = c OBVIOUS
<1> HIDE DEF s
<1>9. \A i \in 1..Len(s) : s[i].op \notin {"enter", "exit"} /\ s[i].e \in 1..n
  <2>1. \A i \in 1..3 : i = 1 \/ i = 2 \/ i = 3 OBVIOUS
  <2> QED BY <2>1, <1>7, <1>8
<1>10. IsSequence(s) BY <1>8 DEF IsSequence
<1>11. Balanced(Scoped(s), n) BY <1>9, <1>10, BalancedFlat, BalancedScoped
<1> QED BY <1>1, <1>3, <1>4, <1>5, <1>11, ReadThen

-----------------------------------------------------------------------------
(* Statements                                                              *)

LEMMA LetStep == ResInv /\ VisitLet => ResInv'
<1> SUFFICES ASSUME ResInv, NEW binds \in PatternLists, ReadingStmt, Read("let", 1, binds),
                    Do(VisitAll(NewKids(1)) \o DefineAll(binds)), UNCHANGED env
             PROVE  ResInv'
  BY DEF VisitLet
<1>1. Visiting BY RunningVisits
<1>2. IsSequence(binds) /\ 1 \in Nat BY SmallSequences
<1> DEFINE n == Len(ast) + 1
           a == VisitAll(NewKids(1))
           b == DefineAll(binds)
<1>3. Do(a \o b) OBVIOUS
<1>4. E \in 1..n /\ NewKids(1) \in Seq(1..n) BY <1>1, <1>2, ReadTree
<1>5. Balanced(a, n) BY <1>4, BalancedVisits
<1>6. Balanced(b, n) BY <1>2, <1>4, BalancedDefineAll
<1> HIDE DEF a, b
<1>7. Balanced(a \o b, n) BY <1>5, <1>6, BalancedConcat
<1> QED BY <1>1, <1>2, <1>3, <1>7, ReadThen

LEMMA DeclareStep == ResInv /\ VisitDeclare => ResInv'
<1> SUFFICES ASSUME ResInv, NEW x \in Bound, NEW mutable \in BOOLEAN, ReadingStmt,
                    Read("declare", 1, <<Binder(x, TRUE, mutable)>>),
                    Do(VisitAll(NewKids(1)) \o <<Define(1)>>), UNCHANGED env
             PROVE  ResInv'
  BY DEF VisitDeclare
<1>1. Visiting BY RunningVisits
<1>2. PICK binds : binds = <<Binder(x, TRUE, mutable)>> OBVIOUS
<1>3. IsSequence(binds) /\ Read("declare", 1, binds) /\ 1 \in Nat BY <1>2, SmallSequences
<1> DEFINE n == Len(ast) + 1
           a == VisitAll(NewKids(1))
           b == <<Define(1)>>
<1>4. Do(a \o b) OBVIOUS
<1>5. E \in 1..n /\ NewKids(1) \in Seq(1..n) BY <1>1, <1>3, ReadTree
<1>6. Balanced(a, n) BY <1>5, BalancedVisits
<1>7. Balanced(b, n) BY <1>5, BalancedDefine
<1> HIDE DEF a, b
<1>8. Balanced(a \o b, n) BY <1>6, <1>7, BalancedConcat
<1> QED BY <1>1, <1>3, <1>4, <1>8, ReadThen

LEMMA GuardStep == ResInv /\ VisitGuard => ResInv'
<1> SUFFICES ASSUME ResInv, NEW m \in 0..MaxOperands, ReadingStmt,
                    Read("guard", 1 + m, <<>>),
                    Do(<<Visit(NewKids(1 + m)[1])>>
                        \o Scoped(VisitStmts(Tail(NewKids(1 + m))))),
                    UNCHANGED env
             PROVE  ResInv'
  BY DEF VisitGuard
<1>1. Visiting BY RunningVisits
<1>2. PICK k \in Nat : k = 1 + m
  <2>1. 1 + m \in Nat BY ConstantsAssumption
  <2> QED BY <2>1
<1>3. 1 \in 1..k BY <1>2, ConstantsAssumption
<1>4. IsSequence(<<>>) /\ Read("guard", k, <<>>) BY <1>2, SmallSequences
<1> DEFINE n == Len(ast) + k
           kids == NewKids(k)
<1>5. /\ kids \in Seq(1..n) /\ Len(kids) = k
      /\ \A i \in 1..k : kids[i] \in 1..n
  BY <1>1, <1>4, ReadTree
<1> DEFINE a == <<Visit(kids[1])>>
           b == Scoped(VisitStmts(Tail(kids)))
<1>6. Do(a \o b) BY <1>2
<1> HIDE DEF kids
<1>7. Balanced(a, n) BY <1>3, <1>5, BalancedVisit
<1>8. Tail(kids) \in Seq(1..n)
  <2>1. kids # <<>> BY <1>3, <1>5
  <2> QED BY <2>1, <1>5, HeadTailProperties
<1>9. Balanced(b, n) BY <1>8, BalancedVisits, BalancedScoped
<1> HIDE DEF a, b
<1>10. Balanced(a \o b, n) BY <1>7, <1>9, BalancedConcat
<1> QED BY <1>1, <1>4, <1>6, <1>10, ReadThen

LEMMA LocalFnStep == ResInv /\ VisitLocalFn => ResInv'
<1> SUFFICES ASSUME ResInv, NEW x \in Bound, NEW params \in PatternLists,
                    NEW k \in 0..MaxOperands, ReadingStmt,
                    Read("fn", k, <<Binder(x, FALSE, FALSE)>> \o params),
                    Do(<<Define(1)>> \o FnBody(<<Binder(x, FALSE, FALSE)>> \o params, 2, k)),
                    UNCHANGED env
             PROVE  ResInv'
  BY DEF VisitLocalFn
<1>1. Visiting BY RunningVisits
<1>2. k \in Nat BY ConstantsAssumption
<1>3. PICK own : own = <<Binder(x, FALSE, FALSE)>> OBVIOUS
<1>4. IsSequence(own) /\ Len(own) = 1 /\ IsSequence(params) BY <1>3, SmallSequences
<1>5. PICK binds : binds = own \o params OBVIOUS
<1>6. IsSequence(binds) /\ Len(binds) \in Nat \ {0}
  <2>1. IsSequence(own) /\ IsSequence(params) BY <1>4
  <2>2. IsSequence(own \o params) /\ Len(params) \in Nat
        /\ Len(own \o params) = Len(own) + Len(params)
    BY <2>1, Concats
  <2> QED BY <2>2, <1>4, <1>5
<1>7. Read("fn", k, binds) /\ Do(<<Define(1)>> \o FnBody(binds, 2, k)) BY <1>3, <1>5
<1> DEFINE n == Len(ast) + k
           a == <<Define(1)>>
           b == FnBody(binds, 2, k)
<1>8. E \in 1..n /\ NewKids(k) \in Seq(1..n) BY <1>1, <1>2, <1>6, <1>7, ReadTree
<1>9. Balanced(a, n) BY <1>8, BalancedDefine
<1>10. Balanced(b, n)
  <2>1. 2 \in 1..(Len(binds) + 1) BY <1>6
  <2> QED BY <2>1, <1>6, <1>8, BalancedFn
<1> HIDE DEF a, b
<1>11. Balanced(a \o b, n) BY <1>9, <1>10, BalancedConcat
<1>12. Do(a \o b) BY <1>7 DEF a, b
<1> QED BY <1>1, <1>2, <1>6, <1>7, <1>11, <1>12, ReadThen

-----------------------------------------------------------------------------
(* Items                                                                   *)

LEMMA ItemBinds ==
    ASSUME ResInv, Running("item"), ast[E].binds # <<>>
    PROVE  IsSequence(ast[E].binds) /\ Len(ast[E].binds) \in Nat \ {0}
<1>1. E \in 1..Len(ast) BY RunningVisits, HeadIn
<1>2. PICK S : ast[E].binds \in Seq(S) BY <1>1 DEF ResInv, AstOK, IsSequence
<1> QED BY <1>2, EmptySeq, LenProperties DEF IsSequence

LEMMA FnStep == ResInv /\ VisitFn => ResInv'
<1> SUFFICES ASSUME ResInv, NEW params \in PatternLists, NEW k \in 0..MaxOperands,
                    Running("item"), ast[E].binds # <<>>,
                    Read("fn", k, ast[E].binds \o params),
                    Do(FnBody(ast[E].binds \o params, 2, k)), UNCHANGED env
             PROVE  ResInv'
  BY DEF VisitFn
<1>1. Visiting BY RunningVisits
<1>2. k \in Nat BY ConstantsAssumption
<1>3. PICK own : own = ast[E].binds OBVIOUS
<1>4. IsSequence(own) /\ Len(own) \in Nat \ {0} /\ IsSequence(params)
  BY <1>3, ItemBinds, SmallSequences
<1>5. PICK binds : binds = own \o params OBVIOUS
<1>6. IsSequence(binds) /\ Len(binds) \in Nat \ {0}
  <2>1. IsSequence(own) /\ IsSequence(params) BY <1>4
  <2>2. IsSequence(own \o params) /\ Len(params) \in Nat
        /\ Len(own \o params) = Len(own) + Len(params)
    BY <2>1, Concats
  <2> QED BY <2>2, <1>4, <1>5
<1>7. Read("fn", k, binds) /\ Do(FnBody(binds, 2, k)) BY <1>3, <1>5
<1> DEFINE n == Len(ast) + k
<1>8. E \in 1..n /\ NewKids(k) \in Seq(1..n) BY <1>1, <1>2, <1>6, <1>7, ReadTree
<1>9. Balanced(FnBody(binds, 2, k), n)
  <2>1. 2 \in 1..(Len(binds) + 1) BY <1>6
  <2> QED BY <2>1, <1>6, <1>8, BalancedFn
<1> QED BY <1>1, <1>2, <1>6, <1>7, <1>9, ReadThen

LEMMA ConstStep == ResInv /\ VisitConst => ResInv'
<1> SUFFICES ASSUME ResInv, NEW mutable \in BOOLEAN, Running("item"),
                    Read("const", 1, <<[ast[E].binds[1] EXCEPT !.mutable = mutable]>>),
                    Do(VisitAll(NewKids(1))), UNCHANGED env
             PROVE  ResInv'
  BY DEF VisitConst
<1>1. Visiting BY RunningVisits
<1>2. PICK binds : binds = <<[ast[E].binds[1] EXCEPT !.mutable = mutable]>> OBVIOUS
<1>3. IsSequence(binds) /\ Read("const", 1, binds) /\ 1 \in Nat BY <1>2, SmallSequences
<1>4. NewKids(1) \in Seq(1..(Len(ast) + 1)) BY <1>1, <1>3, ReadTree
<1>5. Balanced(VisitAll(NewKids(1)), Len(ast) + 1) BY <1>4, BalancedVisits
<1> QED BY <1>1, <1>3, <1>5, ReadThen

LEMMA MethodStep == ResInv /\ VisitMethod => ResInv'
<1> SUFFICES ASSUME ResInv, NEW x \in Bound, NEW params \in PatternLists,
                    NEW k \in 0..MaxOperands, Running("item"),
                    ast' = [ast EXCEPT ![E] = Node("method", x, NewKids(k),
                                [i \in DOMAIN params |-> [params[i] EXCEPT !.mutable = TRUE]])]
                            \o [i \in 1..k |-> Unread],
                    Do(FnBody(params, 1, k)), UNCHANGED env
             PROVE  ResInv'
  BY DEF VisitMethod
<1>1. Visiting BY RunningVisits
<1>2. k \in Nat BY ConstantsAssumption
<1>3. Len(ast) \in Nat /\ E \in 1..Len(ast) BY <1>1, HeadIn
<1>4. IsSequence(params) /\ Len(params) \in Nat /\ DOMAIN params = 1..Len(params)
  <2>1. params \in Seq(BinderSet) BY ConstantsAssumption
  <2> QED BY <2>1, LenProperties DEF IsSequence
<1> DEFINE muts == [i \in DOMAIN params |-> [params[i] EXCEPT !.mutable = TRUE]]
           node == Node("method", x, NewKids(k), muts)
           n == Len(ast) + k
<1>5. IsSequence(muts)
  <2>1. muts \in [1..Len(params) -> {[params[i] EXCEPT !.mutable = TRUE] : i \in 1..Len(params)}]
    BY <1>4
  <2> HIDE DEF muts
  <2> QED BY <2>1, <1>4, OfLength
<1>6. node.binds = muts BY DEF Node
<1>7. ast' = [ast EXCEPT ![E] = node] \o [i \in 1..k |-> Unread] OBVIOUS
<1> HIDE DEF node, muts
<1>8. AstOK(ast') /\ Len(ast') = n
  <2>1. AstOK(ast) /\ IsSequence(node.binds) BY <1>5, <1>6 DEF ResInv
  <2>2. /\ AstOK([ast EXCEPT ![E] = node] \o [i \in 1..k |-> Unread])
        /\ Len([ast EXCEPT ![E] = node] \o [i \in 1..k |-> Unread]) = n
    BY <2>1, <1>2, <1>3, TreeGrows
  <2> QED BY <2>2, <1>7
<1>9. E \in 1..n /\ NewKids(k) \in Seq(1..n) /\ n \in Nat /\ Len(ast) <= n
  <2>1. NewKids(k) \in Seq(1..(Len(ast) + k)) BY <1>2, <1>3, Kids
  <2> QED BY <2>1, <1>2, <1>3
<1>10. Balanced(FnBody(params, 1, k), n)
  <2>1. 1 \in 1..(Len(params) + 1) BY <1>4
  <2> QED BY <2>1, <1>4, <1>9, BalancedFn
<1> QED BY <1>1, <1>8, <1>9, <1>10, ReadStep

-----------------------------------------------------------------------------
(* Steps that change the scopes                                            *)

\* The open scopes and what there is, read from the invariant.
LEMMA Shape ==
    ASSUME ResInv
    PROVE  /\ active \in Seq(Nat) /\ Len(active) \in Nat \ {0}
           /\ DOMAIN active = 1..Len(active)
           /\ IsSequence(scopes) /\ Len(scopes) \in Nat /\ DOMAIN scopes = 1..Len(scopes)
           /\ IsSequence(symbols) /\ Len(symbols) \in Nat
           /\ IsSequence(ast) /\ Len(ast) \in Nat /\ DOMAIN ast = 1..Len(ast)
           /\ \A i \in 1..Len(active) : active[i] \in 1..Len(scopes)
<1>1. /\ active \in Seq(Nat) /\ Len(active) \in Nat \ {0}
      /\ DOMAIN active = 1..Len(active)
  BY LenProperties DEF ResInv, StackOK
<1>2. IsSequence(scopes) /\ Len(scopes) \in Nat /\ DOMAIN scopes = 1..Len(scopes)
  BY LenProperties DEF ResInv, StackOK, IsSequence
<1>3. IsSequence(symbols) /\ Len(symbols) \in Nat
  BY LenProperties DEF ResInv, StackOK, IsSequence
<1>4. IsSequence(ast) /\ Len(ast) \in Nat /\ DOMAIN ast = 1..Len(ast)
  BY LenProperties DEF ResInv, AstOK, IsSequence
<1>5. \A i \in 1..Len(active) : active[i] \in 1..Len(scopes)
  BY <1>1, <1>2 DEF ResInv, TypeOK
<1> QED BY <1>1, <1>2, <1>3, <1>4, <1>5

LEMMA Taken ==
    ASSUME ResInv, agenda # <<>>, Do(<<>>)
    PROVE  /\ Legal(agenda', Len(ast)) /\ Level(agenda', 1) \in Int
           /\ Level(agenda, 1) \in Nat
           /\ Level(agenda, 1) = Level(agenda', 1)
                + IF Top.op = "exit" THEN 1 ELSE IF Top.op = "enter" THEN -1 ELSE 0
           /\ Visits(Top, Len(ast))
<1> DEFINE t == Tail(agenda)
<1>1. /\ Legal(t, Len(ast)) /\ Head(agenda) = agenda[1] /\ Visits(agenda[1], Len(ast))
      /\ Level(agenda, 1) \in Nat /\ Level(t, 1) \in Int
      /\ Level(agenda, 1) = Level(t, 1)
            + IF agenda[1].op = "exit" THEN 1 ELSE IF agenda[1].op = "enter" THEN -1 ELSE 0
  BY LegalTail DEF ResInv, WorkOK
<1>2. agenda' = t
  <2>1. PICK S : t \in Seq(S) BY <1>1 DEF Legal, IsSequence
  <2>2. agenda' = <<>> \o t BY DEF Do
  <2> HIDE DEF t
  <2> QED BY <2>1, <2>2, ConcatEmptySeq
<1> QED BY <1>1, <1>2 DEF Top

LEMMA Appended ==
    ASSUME NEW s, IsSequence(s), NEW x
    PROVE  /\ IsSequence(Append(s, x)) /\ Len(s) \in Nat /\ Len(Append(s, x)) = Len(s) + 1
           /\ DOMAIN Append(s, x) = 1..(Len(s) + 1)
           /\ \A i \in 1..Len(s) : Append(s, x)[i] = s[i]
           /\ Append(s, x)[Len(s) + 1] = x
<1>1. PICK S : s \in Seq(S) BY DEF IsSequence
<1>2. PICK T : T = S \cup {x} OBVIOUS
<1>3. s \in Seq(T) /\ x \in T BY <1>1, <1>2
<1>4. /\ Append(s, x) \in Seq(T) /\ Len(s) \in Nat /\ Len(Append(s, x)) = Len(s) + 1
      /\ \A i \in 1..Len(s) : Append(s, x)[i] = s[i]
      /\ Append(s, x)[Len(s) + 1] = x
  BY <1>3, AppendProperties, LenProperties
<1>5. DOMAIN Append(s, x) = 1..(Len(s) + 1) BY <1>4, LenProperties
<1> QED BY <1>4, <1>5 DEF IsSequence

LEMMA EnterStep == ResInv /\ EnterScope => ResInv'
<1> SUFFICES ASSUME ResInv, EnterScope PROVE ResInv'
  OBVIOUS
<1> DEFINE n == Len(active)
           m == Len(scopes)
           new == [parent |-> active[n], bindings |-> <<>>]
<1>1. /\ agenda # <<>> /\ Top.op = "enter"
      /\ scopes' = Append(scopes, new) /\ active' = Append(active, m + 1) /\ Do(<<>>)
      /\ UNCHANGED <<ast, symbols, resolutions, errors>>
  BY DEF EnterScope, Running
<1>2. /\ active \in Seq(Nat) /\ n \in Nat \ {0} /\ DOMAIN active = 1..n
      /\ IsSequence(scopes) /\ m \in Nat /\ DOMAIN scopes = 1..m
      /\ \A i \in 1..n : active[i] \in 1..m
  BY Shape
<1>3. new = [parent |-> new.parent, bindings |-> new.bindings] /\ new.parent = active[n]
      /\ DOMAIN new.bindings = {}
  OBVIOUS
<1> HIDE DEF n, m, new
<1>4. /\ IsSequence(scopes') /\ Len(scopes') = m + 1 /\ DOMAIN scopes' = 1..(m + 1)
      /\ \A i \in 1..m : scopes'[i] = scopes[i]
      /\ scopes'[m + 1] = new
  BY <1>1, <1>2, Appended DEF m
<1>5. /\ active' \in Seq(Nat) /\ Len(active') = n + 1 /\ DOMAIN active' = 1..(n + 1)
      /\ \A i \in 1..n : active'[i] = active[i]
      /\ active'[n + 1] = m + 1
  <2>1. m + 1 \in Nat BY <1>2
  <2>2. active' \in Seq(Nat) BY <1>1, <1>2, <2>1, AppendProperties
  <2>3. IsSequence(active) BY <1>2 DEF IsSequence
  <2>4. /\ Len(active') = n + 1 /\ DOMAIN active' = 1..(n + 1)
        /\ \A i \in 1..n : active'[i] = active[i]
        /\ active'[n + 1] = m + 1
    BY <1>1, <2>3, Appended DEF n
  <2> QED BY <2>2, <2>4
<1>6. TypeOK'
  <2>1. ASSUME NEW s \in DOMAIN scopes'
        PROVE  /\ scopes'[s].parent \in 0..(s - 1)
               /\ \A x \in DOMAIN scopes'[s].bindings : scopes'[s].bindings[x] \in DefIds'
    <3>1. DefIds' = DefIds BY <1>1 DEF DefIds
    <3>2. CASE s \in 1..m BY <3>1, <3>2, <1>2, <1>4 DEF ResInv, TypeOK
    <3>3. CASE s = m + 1
      <4>1. active[n] \in 1..m BY <1>2
      <4> QED BY <4>1, <3>3, <1>2, <1>3, <1>4
    <3> QED BY <3>2, <3>3, <1>2, <1>4
  <2>2. \A i \in DOMAIN active' : active'[i] \in DOMAIN scopes'
    <3>1. \A i \in 1..n : active'[i] \in 1..(m + 1) BY <1>2, <1>5
    <3> QED BY <3>1, <1>2, <1>4, <1>5
  <2>3. /\ \A span \in DOMAIN resolutions' :
              resolutions'[span] \in DefIds' /\ span[1] \in DOMAIN ast'
        /\ \A span \in errors' : span[1] \in DOMAIN ast'
    BY <1>1 DEF ResInv, TypeOK, DefIds
  <2> QED BY <2>1, <2>2, <2>3 DEF TypeOK
<1>7. StackOK'
  <2>1. \A s \in 1..Len(scopes') :
          scopes'[s] = [parent |-> scopes'[s].parent, bindings |-> scopes'[s].bindings]
    <3>1. \A s \in 1..m :
            scopes[s] = [parent |-> scopes[s].parent, bindings |-> scopes[s].bindings]
      BY DEF ResInv, StackOK, m
    <3>2. \A s \in 1..(m + 1) : s \in 1..m \/ s = m + 1 BY <1>2
    <3> QED BY <3>1, <3>2, <1>3, <1>4
  <2>2. IsSequence(symbols') BY <1>1 DEF ResInv, StackOK
  <2>3. active'[1] = 1 BY <1>2, <1>5 DEF ResInv, StackOK
  <2>4. ASSUME NEW i \in 2..Len(active') PROVE scopes'[active'[i]].parent = active'[i - 1]
    <3>1. CASE i \in 2..n
      <4>1. active'[i] = active[i] /\ active'[i - 1] = active[i - 1] /\ active[i] \in 1..m
        BY <3>1, <1>2, <1>5
      <4>2. scopes[active[i]].parent = active[i - 1] BY <3>1 DEF ResInv, StackOK, n
      <4> QED BY <4>1, <4>2, <1>4
    <3>2. CASE i = n + 1
      <4>1. i - 1 = n /\ n \in 1..n BY <3>2, <1>2
      <4> QED BY <4>1, <3>2, <1>3, <1>4, <1>5
    <3> QED BY <3>1, <3>2, <1>2, <1>5
  <2>5. ASSUME NEW i \in 1..(Len(active') - 1) PROVE active'[i] < active'[i + 1]
    <3>1. CASE i \in 1..(n - 1)
      <4>1. active'[i] = active[i] /\ active'[i + 1] = active[i + 1] BY <3>1, <1>2, <1>5
      <4> QED BY <4>1, <3>1 DEF ResInv, StackOK, n
    <3>2. CASE i = n
      <4>1. active'[i] = active[n] /\ active[n] \in 1..m /\ active'[i + 1] = m + 1
        BY <3>2, <1>2, <1>5
      <4> QED BY <4>1, <1>2
    <3> QED BY <3>1, <3>2, <1>2, <1>5
  <2>6. Len(active') \in Nat \ {0} BY <1>2, <1>5
  <2> QED BY <2>1, <2>2, <2>3, <2>4, <2>5, <2>6, <1>4, <1>5 DEF StackOK
<1>8. WorkOK'
  <2>1. /\ Legal(agenda', Len(ast)) /\ Level(agenda', 1) \in Int
        /\ Level(agenda, 1) = Level(agenda', 1) - 1
    BY <1>1, Taken
  <2>2. n = 1 + Level(agenda, 1) BY DEF ResInv, WorkOK, n
  <2> QED BY <2>1, <2>2, <1>1, <1>2, <1>5 DEF WorkOK
<1>9. AstOK(ast') BY <1>1 DEF ResInv
<1> QED BY <1>6, <1>7, <1>8, <1>9 DEF ResInv

LEMMA ExitStep == ResInv /\ ExitScope => ResInv'
<1> SUFFICES ASSUME ResInv, ExitScope PROVE ResInv'
  OBVIOUS
<1> DEFINE n == Len(active)
<1>1. /\ agenda # <<>> /\ Top.op = "exit"
      /\ active' = SubSeq(active, 1, n - 1) /\ Do(<<>>)
      /\ UNCHANGED <<ast, scopes, symbols, resolutions, errors>>
  BY DEF ExitScope, Running
<1>2. /\ active \in Seq(Nat) /\ n \in Nat \ {0} /\ DOMAIN active = 1..n
      /\ \A i \in 1..n : active[i] \in Nat
  BY Shape, ElementOfSeq
<1>3. /\ Legal(agenda', Len(ast)) /\ Level(agenda', 1) \in Int
      /\ Level(agenda, 1) = Level(agenda', 1) + 1
  BY <1>1, Taken
<1>4. n = 1 + Level(agenda, 1) BY DEF ResInv, WorkOK
<1>5. Level(agenda', 1) \in Nat
  <2>1. CASE Len(agenda') = 0
    <3>1. Count(agenda', 1, "exit") = 0 /\ Count(agenda', 1, "enter") = 0
      BY <2>1, CountNone
    <3> QED BY <3>1 DEF Level
  <2>2. CASE Len(agenda') # 0
    <3>1. Len(agenda') \in Nat BY <1>3, LevelType DEF Legal
    <3>2. 1 \in 1..Len(agenda') BY <2>2, <3>1
    <3> QED BY <3>2, <1>3 DEF Legal
  <2> QED BY <2>1, <2>2
<1> HIDE DEF n
<1>6. n - 1 \in Nat \ {0} BY <1>3, <1>4, <1>5
<1>7. /\ active' \in Seq(Nat) /\ Len(active') = n - 1 /\ DOMAIN active' = 1..(n - 1)
      /\ \A i \in 1..(n - 1) : active'[i] = active[i]
  <2>1. 1 \in Int /\ n - 1 \in Int /\ \A i \in 1..(n - 1) : active[i] \in Nat BY <1>2, <1>6
  <2>2. /\ active' \in Seq(Nat)
        /\ Len(active') = IF 1 <= n - 1 THEN n - 1 - 1 + 1 ELSE 0
        /\ \A i \in 1..(n - 1 - 1 + 1) : active'[i] = active[1 + i - 1]
    BY <2>1, <1>1, SubSeqProperties
  <2>3. Len(active') = n - 1 /\ \A i \in 1..(n - 1) : active'[i] = active[i]
    BY <2>2, <1>6
  <2> QED BY <2>2, <2>3, LenProperties
<1>8. TypeOK'
  <2>1. \A i \in DOMAIN active' : active'[i] \in DOMAIN scopes
    <3>1. \A i \in 1..(n - 1) : i \in 1..n BY <1>2
    <3>2. \A i \in 1..n : active[i] \in DOMAIN scopes BY <1>2 DEF ResInv, TypeOK
    <3> QED BY <3>1, <3>2, <1>7
  <2>2. DefIds' = DefIds BY <1>1 DEF DefIds
  <2> QED BY <2>1, <2>2, <1>1 DEF ResInv, TypeOK
<1>9. StackOK'
  <2>1. /\ active[1] = 1
        /\ \A i \in 2..n : scopes[active[i]].parent = active[i - 1]
        /\ \A i \in 1..(n - 1) : active[i] < active[i + 1]
    BY DEF ResInv, StackOK, n
  <2>2. active'[1] = 1
    <3>1. 1 \in 1..(n - 1) BY <1>2, <1>6
    <3> QED BY <3>1, <2>1, <1>7
  <2>3. \A i \in 2..(n - 1) : scopes'[active'[i]].parent = active'[i - 1]
    <3>1. \A i \in 2..(n - 1) : i \in 2..n /\ i \in 1..(n - 1) /\ i - 1 \in 1..(n - 1)
      BY <1>2
    <3> QED BY <3>1, <2>1, <1>1, <1>7
  <2>4. \A i \in 1..((n - 1) - 1) : active'[i] < active'[i + 1]
    <3>1. \A i \in 1..((n - 1) - 1) : i \in 1..(n - 1) /\ i + 1 \in 1..(n - 1) BY <1>2
    <3> QED BY <3>1, <2>1, <1>7
  <2>5. /\ IsSequence(scopes') /\ IsSequence(symbols')
        /\ \A s \in 1..Len(scopes') :
             scopes'[s] = [parent |-> scopes'[s].parent, bindings |-> scopes'[s].bindings]
    BY <1>1 DEF ResInv, StackOK
  <2> QED BY <2>2, <2>3, <2>4, <2>5, <1>6, <1>7 DEF StackOK
<1>10. WorkOK' BY <1>1, <1>2, <1>3, <1>4, <1>5, <1>7 DEF WorkOK
<1>11. AstOK(ast') BY <1>1 DEF ResInv
<1> QED BY <1>8, <1>9, <1>10, <1>11 DEF ResInv

LEMMA DefineStep == ResInv /\ DefineName => ResInv'
<1> SUFFICES ASSUME ResInv, DefineName PROVE ResInv'
  OBVIOUS
<1> DEFINE n == Len(active)
           m == Len(scopes)
           k == Len(symbols)
           inner == active[n]
           name == ast[E].binds[Top.i].name
           span == <<E, Top.i>>
           bound == Insert(scopes[inner].bindings, name, k + 1)
<1>1. /\ Running("define") /\ agenda # <<>> /\ Top.op = "define" /\ Do(<<>>)
      /\ symbols' = Append(symbols, span)
      /\ scopes' = [scopes EXCEPT ![inner].bindings = bound]
      /\ \/ resolutions' = Insert(resolutions, span, k + 1)
         \/ resolutions' = resolutions
      /\ UNCHANGED <<ast, active, errors>>
  BY DEF DefineName, Running, NextId
<1>2. /\ active \in Seq(Nat) /\ n \in Nat \ {0} /\ DOMAIN active = 1..n
      /\ IsSequence(scopes) /\ m \in Nat /\ DOMAIN scopes = 1..m
      /\ \A i \in 1..n : active[i] \in 1..m
      /\ IsSequence(symbols) /\ k \in Nat
      /\ DOMAIN ast = 1..Len(ast)
  BY Shape
<1>3. E \in 1..Len(ast)
  <2>1. Visiting BY <1>1, RunningVisits
  <2> QED BY <2>1, HeadIn
<1>4. inner \in 1..m BY <1>2
<1>5. /\ DOMAIN bound = DOMAIN scopes[inner].bindings \cup {name}
      /\ \A x \in DOMAIN bound : \/ bound[x] = k + 1
                                 \/ x \in DOMAIN scopes[inner].bindings
                                    /\ bound[x] = scopes[inner].bindings[x]
  BY DEF Insert
<1>6. span[1] = E OBVIOUS
<1> HIDE DEF n, m, k, inner, name, span, bound
<1>7. IsSequence(symbols') /\ Len(symbols') = k + 1
  BY <1>1, <1>2, Appended DEF k
<1>8. \A s \in 1..m :
        scopes[s] = [parent |-> scopes[s].parent, bindings |-> scopes[s].bindings]
  BY DEF ResInv, StackOK, m
<1>9. /\ IsSequence(scopes') /\ Len(scopes') = m /\ DOMAIN scopes' = 1..m
      /\ \A s \in 1..m : s # inner => scopes'[s] = scopes[s]
      /\ scopes'[inner] = [parent |-> scopes[inner].parent, bindings |-> bound]
  <2> DEFINE new == [parent |-> scopes[inner].parent, bindings |-> bound]
  <2>1. [scopes[inner] EXCEPT !.bindings = bound] = new
    <3>1. PICK old : old = scopes[inner] OBVIOUS
    <3>2. PICK p, b : old = [parent |-> p, bindings |-> b] BY <3>1, <1>4, <1>8
    <3>3. [old EXCEPT !.bindings = bound] = [parent |-> p, bindings |-> bound] BY <3>2
    <3>4. old.parent = p BY <3>2
    <3> QED BY <3>1, <3>3, <3>4
  <2>2. scopes' = [scopes EXCEPT ![inner] = new] BY <1>1, <2>1
  <2>3. PICK S : scopes \in Seq(S) BY <1>2 DEF IsSequence
  <2>4. scopes \in [1..m -> S] BY <2>3, LenProperties DEF m
  <2>5. PICK T : T = S \cup {new} OBVIOUS
  <2> HIDE DEF new
  <2>6. /\ scopes' \in [1..m -> T] /\ scopes'[inner] = new
        /\ \A s \in 1..m : s # inner => scopes'[s] = scopes[s]
    BY <2>2, <2>4, <2>5, <1>4
  <2>7. IsSequence(scopes') /\ Len(scopes') = m BY <2>6, <1>2, OfLength
  <2> QED BY <2>6, <2>7 DEF new
<1>10. \A s \in 1..m : scopes'[s].parent = scopes[s].parent BY <1>9
<1>11. DefIds = 1..k /\ DefIds' = 1..(k + 1)
  <2>1. Len(symbols)' = k + 1 BY <1>7
  <2> QED BY <2>1 DEF DefIds, k
<1>12. TypeOK'
  <2>1. ASSUME NEW s \in 1..m
        PROVE  /\ scopes'[s].parent \in 0..(s - 1)
               /\ \A x \in DOMAIN scopes'[s].bindings : scopes'[s].bindings[x] \in 1..(k + 1)
    <3>1. /\ scopes[s].parent \in 0..(s - 1)
          /\ \A x \in DOMAIN scopes[s].bindings : scopes[s].bindings[x] \in 1..k
      BY <1>2, <1>11 DEF ResInv, TypeOK
    <3>2. 1..k \subseteq 1..(k + 1) /\ k + 1 \in 1..(k + 1) BY <1>2
    <3>3. CASE s # inner BY <3>1, <3>2, <3>3, <1>9
    <3>4. CASE s = inner BY <3>1, <3>2, <3>4, <1>5, <1>9
    <3> QED BY <3>3, <3>4
  <2>2. \A i \in DOMAIN active' : active'[i] \in DOMAIN scopes' BY <1>1, <1>2, <1>9
  <2>3. ASSUME NEW sp \in DOMAIN resolutions'
        PROVE  resolutions'[sp] \in 1..(k + 1) /\ sp[1] \in DOMAIN ast
    <3>1. \A y \in DOMAIN resolutions : resolutions[y] \in 1..(k + 1) /\ y[1] \in DOMAIN ast
      BY <1>2, <1>11 DEF ResInv, TypeOK
    <3>2. CASE resolutions' = resolutions BY <3>1, <3>2
    <3>3. CASE resolutions' = Insert(resolutions, span, k + 1)
      <4>1. \/ sp = span /\ resolutions'[sp] = k + 1
            \/ sp \in DOMAIN resolutions /\ resolutions'[sp] = resolutions[sp]
        BY <3>3 DEF Insert
      <4>2. k + 1 \in 1..(k + 1) BY <1>2
      <4> QED BY <4>1, <4>2, <3>1, <1>2, <1>3, <1>6
    <3> QED BY <3>2, <3>3, <1>1
  <2>4. \A sp \in errors' : sp[1] \in DOMAIN ast' BY <1>1 DEF ResInv, TypeOK
  <2> QED BY <2>1, <2>2, <2>3, <2>4, <1>1, <1>9, <1>11 DEF TypeOK
<1>13. StackOK'
  <2>1. \A s \in 1..m :
          scopes'[s] = [parent |-> scopes'[s].parent, bindings |-> scopes'[s].bindings]
    <3> SUFFICES ASSUME NEW s \in 1..m
                 PROVE  scopes'[s] = [parent |-> scopes'[s].parent,
                                      bindings |-> scopes'[s].bindings]
      OBVIOUS
    <3>1. CASE s # inner BY <3>1, <1>8, <1>9
    <3>2. CASE s = inner BY <3>2, <1>9
    <3> QED BY <3>1, <3>2
  <2>2. \A i \in 2..n : scopes'[active[i]].parent = active[i - 1]
    <3>1. \A i \in 2..n : i \in 1..n BY <1>2
    <3>2. \A i \in 2..n : scopes[active[i]].parent = active[i - 1]
      BY DEF ResInv, StackOK, n
    <3> QED BY <3>1, <3>2, <1>2, <1>10
  <2>3. /\ active[1] = 1 /\ \A i \in 1..(n - 1) : active[i] < active[i + 1]
    BY DEF ResInv, StackOK, n
  <2> QED BY <2>1, <2>2, <2>3, <1>1, <1>2, <1>7, <1>9 DEF StackOK, n
<1>14. WorkOK'
  <2>1. /\ Legal(agenda', Len(ast)) /\ Level(agenda', 1) \in Int
        /\ Level(agenda, 1) = Level(agenda', 1)
    BY <1>1, Taken
  <2> QED BY <2>1, <1>1 DEF ResInv, WorkOK
<1>15. AstOK(ast') BY <1>1 DEF ResInv
<1> QED BY <1>12, <1>13, <1>14, <1>15 DEF ResInv

-----------------------------------------------------------------------------
(* The module                                                              *)

\* The names of the prelude can be numbered.
LEMMA PreludeNumbered ==
    PreludeIds \in [Prelude -> 1..Cardinality(Prelude)]
<1> DEFINE n == Cardinality(Prelude)
<1>1. ExistsBijection(1..n, Prelude) BY ConstantsAssumption, FS_CardinalityType
<1>2. ExistsBijection(Prelude, 1..n) BY <1>1, Fun_ExistsBijSymmetric
<1>3. PICK f \in Bijection(Prelude, 1..n) : TRUE BY <1>2 DEF ExistsBijection
<1>4. f \in [Prelude -> 1..n] /\ \A x, y \in Prelude : f[x] = f[y] => x = y
  BY <1>3 DEF Bijection, Injection, IsInjective
<1> QED BY <1>4 DEF PreludeIds

LEMMA InitInv == Init => ResInv
<1> SUFFICES ASSUME NEW n \in 1..MaxOperands,
                    NEW binds \in [1..n -> {<<>>} \cup {<<Binder(x, FALSE, FALSE)>> : x \in Bound}],
                    NEW named \in Listings(n, {i \in 1..n : binds[i] # <<>>}),
                    ast = <<Node("module", Unread.name, [i \in 1..n |-> 1 + i], <<>>)>>
                            \o [i \in 1..n |-> [Unread EXCEPT !.binds = binds[i]]],
                    agenda = [i \in 1..Len(named) |-> Op("define", 1 + named[i], 1)]
                               \o [i \in 1..n |-> Op("item", 1 + i, 0)],
                    scopes = <<[parent |-> 0, bindings |-> PreludeIds]>>,
                    active = << 1 >>,
                    symbols = [i \in 1..Cardinality(Prelude) |-> PreludeSpan],
                    resolutions = <<>>,
                    errors = {}
             PROVE  ResInv
  BY DEF Init
<1>1. n \in Nat BY ConstantsAssumption
<1> DEFINE root == Node("module", Unread.name, [i \in 1..n |-> 1 + i], <<>>)
           top == <<root>>
           items == [i \in 1..n |-> [Unread EXCEPT !.binds = binds[i]]]
           first == [i \in 1..Len(named) |-> Op("define", 1 + named[i], 1)]
           rest == [i \in 1..n |-> Op("item", 1 + i, 0)]
           count == Cardinality(Prelude)
<1>2. ast = top \o items /\ agenda = first \o rest OBVIOUS
<1>3. IsSequence(top) /\ Len(top) = 1 /\ top[1] = root /\ root.binds = <<>>
  BY SmallSequences DEF Node
<1>4. /\ items \in [1..n -> {[Unread EXCEPT !.binds = binds[i]] : i \in 1..n}]
      /\ \A i \in 1..n : items[i].binds = binds[i]
  BY DEF Unread, Node
<1>5. \A i \in 1..n : IsSequence(binds[i]) BY SmallSequences
<1>6. PICK m \in Nat : named \in [1..m -> 1..n]
  <2>1. PICK m \in 0..n : named \in [1..m -> {i \in 1..n : binds[i] # <<>>}]
    BY DEF Listings
  <2>2. named \in [1..m -> 1..n] /\ m \in Nat BY <2>1
  <2> QED BY <2>2
<1>7. Len(named) = m BY <1>6, OfLength
<1>8. /\ first \in [1..m -> {Op("define", 1 + named[i], 1) : i \in 1..m}]
      /\ \A i \in 1..m : first[i] = Op("define", 1 + named[i], 1)
      /\ rest \in [1..n -> {Op("item", 1 + i, 0) : i \in 1..n}]
      /\ \A i \in 1..n : rest[i] = Op("item", 1 + i, 0)
  BY <1>7
<1> HIDE DEF root, top, items, first, rest, count
<1>9. IsSequence(items) /\ Len(items) = n
  <2>1. PICK S : items \in [1..n -> S] BY <1>4
  <2> QED BY ONLY <2>1, <1>1, OfLength
<1>10. IsSequence(first) /\ Len(first) = m
  <2>1. PICK S : first \in [1..m -> S] BY <1>8
  <2> QED BY ONLY <2>1, m \in Nat, OfLength
<1>11. IsSequence(rest) /\ Len(rest) = n
  <2>1. PICK S : rest \in [1..n -> S] BY <1>8
  <2> QED BY ONLY <2>1, <1>1, OfLength
<1>12. AstOK(ast) /\ Len(ast) = n + 1
  <2>1. IsSequence(items) /\ Len(items) = n BY <1>9
  <2>2. IsSequence(top) /\ IsSequence(items) BY <2>1, <1>3
  <2>3. /\ IsSequence(top \o items)
        /\ Len(top) \in Nat /\ Len(items) \in Nat /\ Len(top \o items) = Len(top) + Len(items)
        /\ \A j \in 1..Len(top) : (top \o items)[j] = top[j]
        /\ \A j \in 1..Len(items) : (top \o items)[j + Len(top)] = items[j]
    BY <2>2, Concats
  <2>4. ASSUME NEW j \in 1..(n + 1) PROVE IsSequence(ast[j].binds)
    <3>1. CASE j = 1
      <4>1. 1 \in 1..Len(top) BY ONLY <1>3
      <4>2. (top \o items)[1] = top[1] BY ONLY <4>1, <2>3
      <4>3. ast[j] = root BY ONLY <3>1, <4>2, <1>2, <1>3
      <4> QED BY <4>3, <1>3, SmallSequences
    <3>2. CASE j # 1
      <4>1. j - 1 \in 1..n /\ (j - 1) + 1 = j BY <3>2, <1>1
      <4>2. ast[j] = items[j - 1] BY <4>1, <2>1, <2>3, <1>2, <1>3
      <4> QED BY <4>1, <4>2, <1>4, <1>5
    <3> QED BY <3>1, <3>2
  <2>5. Len(ast) = n + 1 BY <2>1, <2>3, <1>1, <1>2, <1>3
  <2> QED BY <2>3, <2>4, <2>5, <1>2 DEF AstOK
<1>13. Balanced(agenda, n + 1)
  <2>1. IsSequence(first) /\ Len(first) = m BY <1>10
  <2>2. IsSequence(rest) /\ Len(rest) = n BY <1>11
  <2>3. ASSUME NEW i \in 1..Len(first)
        PROVE  first[i].op \notin {"enter", "exit"} /\ first[i].e \in 1..(n + 1)
    <3>1. first[i] = Op("define", 1 + named[i], 1) /\ named[i] \in 1..n
      BY <2>1, <1>6, <1>8
    <3> QED BY <3>1, <1>1 DEF Op
  <2>4. ASSUME NEW i \in 1..Len(rest)
        PROVE  rest[i].op \notin {"enter", "exit"} /\ rest[i].e \in 1..(n + 1)
    <3>1. rest[i] = Op("item", 1 + i, 0) /\ i \in 1..n BY <2>2, <1>8
    <3> QED BY <3>1, <1>1 DEF Op
  <2>5. Balanced(first, n + 1) BY <2>1, <2>3, BalancedFlat
  <2>6. Balanced(rest, n + 1) BY <2>2, <2>4, BalancedFlat
  <2>7. Balanced(first \o rest, n + 1) BY <2>5, <2>6, BalancedConcat
  <2> QED BY <2>7, <1>2
<1>14. count \in Nat BY ConstantsAssumption, FS_CardinalityType DEF count
<1>15. IsSequence(symbols) /\ Len(symbols) = count
  <2>1. symbols \in [1..count -> {PreludeSpan}] BY DEF count
  <2> QED BY ONLY <2>1, <1>14, OfLength
<1>16. TypeOK
  <2>1. \A x \in DOMAIN PreludeIds : PreludeIds[x] \in DefIds
    BY <1>15, PreludeNumbered DEF DefIds, count
  <2>2. DOMAIN scopes = {1} /\ scopes[1].parent = 0 /\ scopes[1].bindings = PreludeIds
    OBVIOUS
  <2>3. DOMAIN active = {1} /\ active[1] = 1 OBVIOUS
  <2>4. DOMAIN resolutions = {} /\ errors = {} OBVIOUS
  <2> QED BY <2>1, <2>2, <2>3, <2>4 DEF TypeOK
<1>17. StackOK
  <2>1. IsSequence(scopes) BY SmallSequences
  <2>2. Len(scopes) = 1
        /\ scopes[1] = [parent |-> scopes[1].parent, bindings |-> scopes[1].bindings]
    OBVIOUS
  <2>3. active \in Seq(Nat) /\ Len(active) = 1 /\ active[1] = 1 OBVIOUS
  <2> QED BY <2>1, <2>2, <2>3, <1>15 DEF StackOK
<1>18. WorkOK
  <2>1. Len(active) = 1 OBVIOUS
  <2> QED BY <2>1, <1>12, <1>13 DEF WorkOK, Balanced
<1> QED BY <1>12, <1>16, <1>17, <1>18 DEF ResInv

LEMMA StepInv == ResInv /\ [Next]_vars => ResInv'
<1> SUFFICES ASSUME ResInv, [Next]_vars PROVE ResInv'
  OBVIOUS
<1>1. CASE EnterScope BY <1>1, EnterStep
<1>2. CASE ExitScope BY <1>2, ExitStep
<1>3. CASE DefineName BY <1>3, DefineStep
<1>4. CASE VisitUse BY <1>4, UseStep
<1>5. CASE VisitType BY <1>5, TypeStep
<1>6. CASE VisitOperands BY <1>6, OperandsStep
<1>7. CASE VisitJump BY <1>7, JumpStep
<1>8. CASE VisitBlock BY <1>8, BlockStep
<1>9. CASE VisitIfLet BY <1>9, IfLetStep
<1>10. CASE VisitMatch BY <1>10, MatchStep
<1>11. CASE VisitLoop BY <1>11, LoopStep
<1>12. CASE VisitClosure BY <1>12, ClosureStep
<1>13. CASE VisitFork BY <1>13, ForkStep
<1>14. CASE VisitLet BY <1>14, LetStep
<1>15. CASE VisitDeclare BY <1>15, DeclareStep
<1>16. CASE VisitGuard BY <1>16, GuardStep
<1>17. CASE VisitLocalFn BY <1>17, LocalFnStep
<1>18. CASE VisitFn BY <1>18, FnStep
<1>19. CASE VisitConst BY <1>19, ConstStep
<1>20. CASE VisitMethod BY <1>20, MethodStep
<1>21. CASE UNCHANGED vars
  BY <1>21 DEF vars, ResInv, TypeOK, DefIds, StackOK, WorkOK
<1> QED
  BY <1>1, <1>2, <1>3, <1>4, <1>5, <1>6, <1>7, <1>8, <1>9, <1>10, <1>11, <1>12, <1>13,
     <1>14, <1>15, <1>16, <1>17, <1>18, <1>19, <1>20, <1>21 DEF Next, Walk, Returned

\* The inductive invariant: the scopes are those of the calls in progress, and
\* what the agenda will still enter it will leave.
THEOREM Invariant == Spec => []ResInv
<1>1. Init => ResInv BY InitInv
<1>2. ResInv /\ [Next]_vars => ResInv' BY StepInv
<1> QED BY <1>1, <1>2, PTL DEF Spec

\* Scopes, the symbol table, the resolutions and the errors only ever refer to
\* scopes, symbols and nodes that there are.
THEOREM TypeCorrect == Spec => []TypeOK
<1>1. ResInv => TypeOK BY DEF ResInv
<1> QED BY <1>1, Invariant, PTL

\* enter_scope and exit_scope keep the scope chain that of the program text: the
\* open scopes are the enclosing ones, there is one for each that is still to be
\* left, and when the walk is over that of the module alone is open.
THEOREM OpenScopesNest == Spec => []ScopesNest
<1>1. ResInv => ScopesNest
  <2> SUFFICES ASSUME ResInv PROVE ScopesNest
    OBVIOUS
  <2>1. DOMAIN agenda = 1..Len(agenda)
    BY LenProperties DEF ResInv, WorkOK, Legal, IsSequence
  <2>2. Pending("exit") = Count(agenda, 1, "exit") /\ Pending("enter") = Count(agenda, 1, "enter")
    BY <2>1 DEF Pending, Count, Places
  <2>3. Len(agenda) \in Nat BY LevelType DEF ResInv, WorkOK, Legal
  <2>4. Count(agenda, 1, "exit") \in Nat /\ Count(agenda, 1, "enter") \in Nat
    BY <2>3, CountType
  <2>5. Len(active) = 1 + Pending("exit") - Pending("enter")
    BY <2>2, <2>4 DEF ResInv, WorkOK, Level
  <2> QED BY <2>5 DEF ResInv, StackOK, ScopesNest
<1> QED BY <1>1, Invariant, PTL
=============================================================================
