--------------------------- MODULE CountingProofs ---------------------------
(***************************************************************************)
(* Facts about sets of numbers and about the places of a sequence of       *)
(* frames that run an operation: what the proofs about the agendas of the  *)
(* lowering and of the walk of name resolution count with.                 *)
(***************************************************************************)
EXTENDS Integers, Sequences, FiniteSets, TLAPS, FiniteSetTheorems,
        SequenceTheorems, WellFoundedInduction

\* The places from i on where s runs op, and how many there are.
Places(s, i, op) == {j \in i..Len(s) : s[j].op = op}
Count(s, i, op) == Cardinality(Places(s, i, op))

IsSequence(s) == \E S : s \in Seq(S)

-----------------------------------------------------------------------------
(* The smallest and the greatest of a set of numbers                       *)

LEMMA Smallest ==
    ASSUME NEW T, T \subseteq Nat, T # {}
    PROVE  \E x \in T : \A y \in T : x <= y
<1> DEFINE C == {1..n : n \in T}
<1>1. C \subseteq FiniteSubsetsOf(Nat)
  <2>1. \A n \in T : n \in Nat /\ IsFiniteSet(1..n) /\ 1..n \subseteq Nat BY FS_Interval
  <2> QED BY <2>1 DEF FiniteSubsetsOf
<1>2. C # {} OBVIOUS
<1> HIDE DEF C
<1>3. PICK X \in C : \A Y \in C : ~(<<Y, X>> \in StrictSubsetOrdering(Nat))
  BY <1>1, <1>2, FS_StrictSubsetOrderingWellFounded, WFMin
<1>4. PICK x \in T : X = 1..x BY DEF C
<1>5. ASSUME NEW y \in T, ~(x <= y) PROVE FALSE
  <2>1. 1..y \in C /\ y \in Nat /\ x \in Nat BY DEF C
  <2>2. 1..y \subseteq 1..x /\ x \in 1..x /\ x \notin 1..y BY <1>5, <2>1
  <2>3. 1..y \in SUBSET Nat /\ 1..x \in SUBSET Nat OBVIOUS
  <2>4. <<1..y, X>> \in StrictSubsetOrdering(Nat)
    BY <1>4, <2>2, <2>3 DEF StrictSubsetOrdering
  <2> QED BY <1>3, <2>1, <2>4
<1> QED BY <1>5

LEMMA Greatest ==
    ASSUME NEW n \in Nat, NEW T, T \subseteq 1..n, T # {}
    PROVE  \E x \in T : \A y \in T : y <= x
<1> DEFINE D == {n - x : x \in T}
<1>1. D \subseteq Nat /\ D # {}
  <2>1. \A x \in T : n - x \in Nat OBVIOUS
  <2>2. PICK x \in T : TRUE OBVIOUS
  <2>3. n - x \in D OBVIOUS
  <2> QED BY <2>1, <2>3
<1> HIDE DEF D
<1>2. PICK d \in D : \A e \in D : d <= e BY <1>1, Smallest
<1>3. PICK x \in T : d = n - x BY DEF D
<1>4. ASSUME NEW y \in T PROVE y <= x
  <2>1. n - y \in D BY DEF D
  <2>2. n - x <= n - y BY <1>2, <1>3, <2>1
  <2> QED BY <2>2
<1> QED BY <1>4

-----------------------------------------------------------------------------
(* Places                                                                  *)

LEMMA CountType ==
    ASSUME NEW s, Len(s) \in Nat, NEW i \in Nat, NEW op
    PROVE  IsFiniteSet(Places(s, i, op)) /\ Count(s, i, op) \in Nat
<1>1. IsFiniteSet(i..Len(s)) BY FS_Interval
<1>2. Places(s, i, op) \in SUBSET (i..Len(s)) BY DEF Places
<1> QED BY <1>1, <1>2, FS_Subset, FS_CardinalityType DEF Count

LEMMA CountNone ==
    ASSUME NEW s, NEW i, NEW op, \A j \in i..Len(s) : s[j].op # op
    PROVE  Count(s, i, op) = 0
<1>1. Places(s, i, op) = {} BY DEF Places
<1> QED BY <1>1, FS_EmptySet DEF Count

LEMMA CountBehind ==
    ASSUME NEW s, Len(s) \in Nat, NEW i \in 1..Len(s), NEW op
    PROVE  Count(s, i, op) = Count(s, i + 1, op) + IF s[i].op = op THEN 1 ELSE 0
<1>1. IsFiniteSet(Places(s, i + 1, op)) /\ Count(s, i + 1, op) \in Nat
  BY CountType
<1>2. i \notin Places(s, i + 1, op) BY DEF Places
<1>3. CASE s[i].op = op
  <2>1. Places(s, i, op) = Places(s, i + 1, op) \cup {i} BY <1>3 DEF Places
  <2> QED BY <2>1, <1>1, <1>2, <1>3, FS_AddElement DEF Count
<1>4. CASE s[i].op # op
  <2>1. Places(s, i, op) = Places(s, i + 1, op) BY <1>4 DEF Places
  <2> QED BY <2>1, <1>1, <1>4 DEF Count
<1> QED BY <1>3, <1>4

\* From one place on, a sequence is another one k places further down.
LEMMA CountShifts ==
    ASSUME NEW s, NEW t, Len(t) \in Nat, NEW k \in Nat, Len(s) = Len(t) + k,
           NEW i \in Nat \ {0}, \A j \in i..Len(t) : s[j + k] = t[j], NEW op
    PROVE  Count(s, i + k, op) = Count(t, i, op)
<1> DEFINE S == Places(t, i, op)
           T == Places(s, i + k, op)
           f == [j \in S |-> j + k]
<1>1. IsFiniteSet(S) BY CountType
<1>2. \A j \in S : j \in Nat /\ j + k \in T BY DEF Places
<1>3. \A j \in T : j - k \in S /\ (j - k) + k = j
  <2> SUFFICES ASSUME NEW j \in T PROVE j - k \in S /\ (j - k) + k = j
    OBVIOUS
  <2>1. j - k \in i..Len(t) /\ (j - k) + k = j BY DEF Places
  <2>2. s[j] = t[j - k] BY <2>1
  <2> QED BY <2>1, <2>2 DEF Places
<1> HIDE DEF S, T
<1>4. f \in Bijection(S, T)
  <2>1. f \in [S -> T] BY <1>2
  <2>2. \A a, b \in S : f[a] = f[b] => a = b BY <1>2
  <2>3. \A b \in T : \E a \in S : f[a] = b BY <1>3
  <2> QED BY <2>1, <2>2, <2>3 DEF Bijection, Injection, Surjection, IsInjective
<1>5. ExistsBijection(S, T) BY <1>4 DEF ExistsBijection
<1> QED BY <1>1, <1>5, FS_Bijection DEF Count, S, T

\* What two sequences are made of, one behind the other.
LEMMA Parts ==
    ASSUME NEW S, NEW fs \in Seq(S), NEW ag \in Seq(S)
    PROVE  /\ Len(fs) \in Nat /\ Len(ag) \in Nat /\ Len(fs \o ag) = Len(ag) + Len(fs)
           /\ \A j \in 1..Len(fs) : (fs \o ag)[j] = fs[j]
           /\ \A j \in 1..Len(ag) : (fs \o ag)[j + Len(fs)] = ag[j]
<1>1. Len(fs) \in Nat /\ Len(ag) \in Nat BY LenProperties
<1>2. /\ Len(fs \o ag) = Len(fs) + Len(ag)
      /\ \A j \in 1..(Len(fs) + Len(ag)) :
            (fs \o ag)[j] = IF j <= Len(fs) THEN fs[j] ELSE ag[j - Len(fs)]
  BY ConcatProperties
<1>3. \A j \in 1..Len(fs) : (fs \o ag)[j] = fs[j] BY <1>1, <1>2
<1>4. ASSUME NEW j \in 1..Len(ag) PROVE (fs \o ag)[j + Len(fs)] = ag[j]
  <2>1. /\ j + Len(fs) \in 1..(Len(fs) + Len(ag)) /\ ~(j + Len(fs) <= Len(fs))
        /\ (j + Len(fs)) - Len(fs) = j
    BY <1>1
  <2> QED BY <2>1, <1>2
<1> QED BY <1>1, <1>2, <1>3, <1>4

\* Sequences of any kind of elements have a kind in common.
LEMMA Together ==
    ASSUME NEW a, IsSequence(a), NEW b, IsSequence(b)
    PROVE  \E S : a \in Seq(S) /\ b \in Seq(S)
<1>1. PICK A : a \in Seq(A) BY DEF IsSequence
<1>2. PICK B : b \in Seq(B) BY DEF IsSequence
<1>3. PICK S : S = A \cup B OBVIOUS
<1>4. A \subseteq S /\ B \subseteq S BY <1>3
<1>5. a \in Seq(S) /\ b \in Seq(S) BY <1>1, <1>2, <1>4
<1> QED BY <1>5

LEMMA Concats ==
    ASSUME NEW a, IsSequence(a), NEW b, IsSequence(b)
    PROVE  /\ IsSequence(a \o b)
           /\ Len(a) \in Nat /\ Len(b) \in Nat /\ Len(a \o b) = Len(a) + Len(b)
           /\ \A j \in 1..Len(a) : (a \o b)[j] = a[j]
           /\ \A j \in 1..Len(b) : (a \o b)[j + Len(a)] = b[j]
<1>1. PICK S : a \in Seq(S) /\ b \in Seq(S) BY Together
<1>2. a \o b \in Seq(S) BY <1>1, ConcatProperties
<1>3. /\ Len(a) \in Nat /\ Len(b) \in Nat /\ Len(a \o b) = Len(b) + Len(a)
      /\ \A j \in 1..Len(a) : (a \o b)[j] = a[j]
      /\ \A j \in 1..Len(b) : (a \o b)[j + Len(a)] = b[j]
  BY <1>1, Parts
<1> QED BY <1>2, <1>3 DEF IsSequence

\* Places in the first of two sequences are in it or in the second.
LEMMA CountConcat ==
    ASSUME NEW a, IsSequence(a), NEW b, IsSequence(b), NEW i \in 1..(Len(a) + 1), NEW op
    PROVE  Count(a \o b, i, op) = Count(a, i, op) + Count(b, 1, op)
<1> DEFINE s == a \o b
           n == Len(a)
           A == Places(a, i, op)
           B == Places(s, n + 1, op)
<1>1. /\ n \in Nat /\ Len(b) \in Nat /\ Len(s) = n + Len(b) /\ i \in Nat \ {0} /\ i <= n + 1
      /\ \A j \in 1..n : s[j] = a[j]
      /\ \A j \in 1..Len(b) : s[j + n] = b[j]
  <2>1. /\ n \in Nat /\ Len(b) \in Nat /\ Len(s) = n + Len(b)
        /\ \A j \in 1..n : s[j] = a[j]
        /\ \A j \in 1..Len(b) : s[j + n] = b[j]
    BY Concats
  <2> QED BY <2>1
<1> HIDE DEF s, n
<1>2. IsFiniteSet(A) /\ IsFiniteSet(B) BY <1>1, CountType DEF n
<1>3. Places(s, i, op) = A \cup B
  <2>1. \A j \in i..Len(s) : j \in i..n \/ j \in (n + 1)..Len(s) BY <1>1
  <2>2. \A j \in i..n : j \in i..Len(s) /\ s[j] = a[j] BY <1>1
  <2>3. \A j \in (n + 1)..Len(s) : j \in i..Len(s) BY <1>1
  <2>4. A = {j \in i..n : a[j].op = op} BY DEF Places, n
  <2> HIDE DEF A
  <2> QED BY <2>1, <2>2, <2>3, <2>4 DEF Places
<1>4. A \cap B = {} BY <1>1 DEF Places, n
<1>5. Cardinality(A \cup B) = Cardinality(A) + Cardinality(B)
  <2> HIDE DEF A, B
  <2>1. Cardinality(A \cap B) = 0 BY <1>4, FS_EmptySet
  <2>2. Cardinality(A) \in Nat /\ Cardinality(B) \in Nat BY <1>2, FS_CardinalityType
  <2>3. Cardinality(A \cup B) = Cardinality(A) + Cardinality(B) - Cardinality(A \cap B)
    BY <1>2, FS_Union
  <2> QED BY <2>1, <2>2, <2>3
<1>6. Count(s, n + 1, op) = Count(b, 1, op)
  <2>1. Count(s, 1 + n, op) = Count(b, 1, op) BY <1>1, CountShifts
  <2>2. 1 + n = n + 1 BY <1>1
  <2> QED BY <2>1, <2>2
<1> QED BY <1>3, <1>5, <1>6 DEF Count, s
=============================================================================
