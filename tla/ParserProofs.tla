---------------------------- MODULE ParserProofs ----------------------------
(***************************************************************************)
(* Theorems about the parser: on every input, whatever its tokens are, the *)
(* end of the input is not consumed, and every item and every error take a *)
(* token of their own.                                                     *)
(*                                                                         *)
(* What a frame waits for is part of it, and of the frames nested in it:   *)
(* none waits for the end of the input.  The frames of the item that is    *)
(* parsed lie above those of the module, which every error leaves in place *)
(***************************************************************************)
EXTENDS ParseTree, CountingProofs

Control == {"item_end", "module", "recover"}
Nesting == {"token", "opt", "more", "list", "until", "payload", "fields"}

\* A frame that waits for no end of the input and whose parts are in F.
Plain(f, F) ==
    /\ f.is \notin Control \cup {"commit"}
    /\ f.is \in {"token", "opt", "more"} => f.token # "eof"
    /\ f.is \in {"list", "until", "more"} => f.item \in Seq(F)
    /\ f.is = "opt" => f.then \in Seq(F)
    /\ f.is = "payload" => f.visible \in Seq(F)
    /\ f.is = "fields" => f.value \in {"rename", "field_value"}

Closed(F) == \A f \in F : Plain(f, F)
Good(f) == \E F : f \in F /\ Closed(F)
Work(s) == IsSequence(s) /\ \A i \in 1..Len(s) : Good(s[i])

Attempt(f) == f.is = "commit" /\ f.token # "eof" /\ Work(f.then) /\ Work(f.otherwise)

\* The frames of a module, and above them those of the item that is parsed.
Shape(c) ==
    /\ IsSequence(c)
    /\ \A i \in 1..Len(c) :
          \/ Good(c[i])
          \/ Attempt(c[i])
          \/ c[i].is \in Control /\ i >= Len(c) - 1
    /\ Len(c) >= 1 => c[Len(c)].is = "module"
    /\ Len(c) >= 2 => c[Len(c) - 1].is = "item_end" \/ (Len(c) = 2 /\ c[1].is = "recover")

InItem(c) == Len(c) >= 2 /\ c[Len(c) - 1].is = "item_end"
Since(c) == c[Len(c) - 1].since

Cursor ==
    /\ slots \in Seq(DOMAIN Strings)
    /\ IsSequence(tokens)
    /\ pos \in Nat \ {0}
    /\ IF tokens = <<>> THEN pos = 1 ELSE pos <= Len(tokens)

\* What is left to do before the item has consumed a token.
Early ==
    /\ tokens # <<>> /\ tokens[pos] # "eof"
    /\ \/ Len(calls) = 3 /\ calls[1].is = "item"
       \/ /\ Len(calls) = 5
          /\ calls[1].is = "attributes" /\ calls[2].is = "visibility"
          /\ calls[3].is = "definition"
       \/ /\ Len(calls) = 4 /\ tokens[pos] # "@"
          /\ calls[1].is = "visibility" /\ calls[2].is = "definition"
       \/ Len(calls) = 3 /\ calls[1].is = "definition" /\ tokens[pos] \notin {"@", "pub"}
       \/ Len(calls) = 3 /\ calls[1].is = "fn" /\ tokens[pos] = "act"
       \/ calls[1] = Token("act") /\ tokens[pos] = "act"

\* The items and the errors before the item that is parsed are fewer than the tokens,
\* and no attempt of its goes back to where it began.
InItemOK ==
    InItem(calls) =>
        /\ Since(calls) \in 1..pos
        /\ items + errors < Since(calls)
        /\ pos > Since(calls) \/ Early
        /\ \A i \in 1..Len(calls) :
              calls[i].is = "commit" => calls[i].pos \in Since(calls) + 1..Len(tokens)

\* Recovery begins behind the error, or it takes the token that is wrong.
RecoverOK ==
    Len(calls) = 2 /\ calls[1].is = "recover" =>
        /\ items + errors <= pos
        /\ items + errors < pos \/ (tokens # <<>> /\ tokens[pos] \notin Recovered)

Counted ==
    /\ items \in Nat /\ errors \in Nat
    /\ Len(calls) = 0 => items + errors <= pos
    /\ Len(calls) = 1 => items + errors < pos
    /\ InItemOK
    /\ RecoverOK

ParseInv == Cursor /\ Shape(calls) /\ Counted

-----------------------------------------------------------------------------
(* Frames                                                                  *)

LEMMA Parted ==
    ASSUME NEW F, NEW s \in Seq(F), NEW G, F \subseteq G
    PROVE  s \in Seq(G)
OBVIOUS

LEMMA PlainIn ==
    ASSUME NEW F, NEW G, F \subseteq G, NEW f, Plain(f, F)
    PROVE  Plain(f, G)
BY Parted DEF Plain

\* Frames that are good each by itself are good together.
LEMMA WorkIn ==
    ASSUME NEW s, Work(s)
    PROVE  \E F : Closed(F) /\ s \in Seq(F)
<1> DEFINE Of(f) == CHOOSE F : f \in F /\ Closed(F)
           U == UNION {Of(s[i]) : i \in 1..Len(s)}
<1>1. PICK S : s \in Seq(S) BY DEF Work, IsSequence
<1>2. \A i \in 1..Len(s) : s[i] \in Of(s[i]) /\ Closed(Of(s[i])) BY DEF Work, Good
<1>3. \A i \in 1..Len(s) : Of(s[i]) \subseteq U OBVIOUS
<1>4. \A f \in U : \E i \in 1..Len(s) : f \in Of(s[i]) OBVIOUS
<1> HIDE DEF Of, U
<1>5. ASSUME NEW f \in U PROVE Plain(f, U)
  <2>1. PICK i \in 1..Len(s) : f \in Of(s[i]) BY <1>4
  <2>2. Plain(f, Of(s[i])) BY <2>1, <1>2 DEF Closed
  <2> QED BY <2>2, <1>3, PlainIn
<1>6. s \in Seq(U)
  <2>1. \A i \in 1..Len(s) : s[i] \in U BY <1>2, <1>3
  <2>2. Len(s) \in Nat /\ s = [i \in 1..Len(s) |-> s[i]] BY <1>1
  <2> QED BY <2>1, <2>2, SeqDef
<1>7. Closed(U) BY <1>5 DEF Closed
<1> QED BY <1>6, <1>7

LEMMA WorkOf ==
    ASSUME NEW F, Closed(F), NEW s \in Seq(F)
    PROVE  Work(s)
<1>1. \A i \in 1..Len(s) : s[i] \in F OBVIOUS
<1> QED BY <1>1 DEF Work, Good, IsSequence

\* A frame is good if it waits for a token that there is and its parts are good.
LEMMA GoodOf ==
    ASSUME NEW f, NEW F, Closed(F), Plain(f, F)
    PROVE  Good(f)
<1>1. PICK G : G = F \cup {f} OBVIOUS
<1>2. F \subseteq G /\ f \in G BY <1>1
<1>3. \A g \in G : Plain(g, G) BY <1>1, <1>2, PlainIn DEF Closed
<1> QED BY <1>2, <1>3 DEF Good, Closed

LEMMA PartsOf ==
    ASSUME NEW f, Good(f)
    PROVE  /\ f.is \notin Control \cup {"commit"}
           /\ f.is \in {"token", "opt", "more"} => f.token # "eof"
           /\ f.is \in {"list", "until", "more"} => Work(f.item)
           /\ f.is = "opt" => Work(f.then)
           /\ f.is = "payload" => Work(f.visible)
           /\ f.is = "fields" => f.value \in {"rename", "field_value"}
<1>1. PICK F : f \in F /\ Closed(F) BY DEF Good
<1>2. Plain(f, F) BY <1>1 DEF Closed
<1> QED BY <1>1, <1>2, WorkOf DEF Plain

-----------------------------------------------------------------------------
(* What there is to do                                                     *)

LEMMA WorkNone == Work(<<>>)
<1>1. <<>> \in Seq({}) OBVIOUS
<1> QED BY <1>1 DEF Work, IsSequence

LEMMA WorkConcat ==
    ASSUME NEW a, Work(a), NEW b, Work(b)
    PROVE  Work(a \o b)
<1>1. /\ IsSequence(a \o b)
      /\ Len(a) \in Nat /\ Len(b) \in Nat /\ Len(a \o b) = Len(a) + Len(b)
      /\ \A j \in 1..Len(a) : (a \o b)[j] = a[j]
      /\ \A j \in 1..Len(b) : (a \o b)[j + Len(a)] = b[j]
  BY Concats DEF Work
<1>2. ASSUME NEW i \in 1..Len(a \o b) PROVE Good((a \o b)[i])
  <2>1. CASE i \in 1..Len(a) BY <2>1, <1>1 DEF Work
  <2>2. CASE i \notin 1..Len(a)
    <3>1. i - Len(a) \in 1..Len(b) /\ i = (i - Len(a)) + Len(a) BY <2>2, <1>1
    <3> QED BY <3>1, <1>1 DEF Work
  <2> QED BY <2>1, <2>2
<1> QED BY <1>1, <1>2 DEF Work

LEMMA Work1 ==
    ASSUME NEW a, Good(a)
    PROVE  Work(<<a>>)
<1>1. <<a>> \in Seq({a}) /\ Len(<<a>>) = 1 /\ <<a>>[1] = a OBVIOUS
<1>2. IsSequence(<<a>>) BY <1>1 DEF IsSequence
<1> QED BY <1>1, <1>2 DEF Work

LEMMA Work2 ==
    ASSUME NEW a, Good(a), NEW b, Good(b)
    PROVE  Work(<<a, b>>)
<1>1. <<a, b>> = <<a>> \o <<b>> OBVIOUS
<1> QED BY <1>1, Work1, WorkConcat

LEMMA Work3 ==
    ASSUME NEW a, Good(a), NEW b, Good(b), NEW c, Good(c)
    PROVE  Work(<<a, b, c>>)
<1>1. <<a, b, c>> = <<a, b>> \o <<c>> OBVIOUS
<1> QED BY <1>1, Work1, Work2, WorkConcat

LEMMA Work4 ==
    ASSUME NEW a, Good(a), NEW b, Good(b), NEW c, Good(c), NEW d, Good(d)
    PROVE  Work(<<a, b, c, d>>)
<1>1. <<a, b, c, d>> = <<a, b, c>> \o <<d>> OBVIOUS
<1> QED BY <1>1, Work1, Work3, WorkConcat

LEMMA Work5 ==
    ASSUME NEW a, Good(a), NEW b, Good(b), NEW c, Good(c), NEW d, Good(d), NEW e, Good(e)
    PROVE  Work(<<a, b, c, d, e>>)
<1>1. <<a, b, c, d, e>> = <<a, b, c, d>> \o <<e>> OBVIOUS
<1> QED BY <1>1, Work1, Work4, WorkConcat

LEMMA WorkAppend ==
    ASSUME NEW s, Work(s), NEW a, Good(a)
    PROVE  Work(Append(s, a))
<1>1. PICK S : s \in Seq(S) /\ <<a>> \in Seq(S)
  BY Work1, Together DEF Work
<1>2. Append(s, a) = s \o <<a>> BY <1>1
<1> QED BY <1>2, Work1, WorkConcat

\* Frames without parts.
LEMMA Simple ==
    ASSUME NEW f, f.is \notin Control \cup Nesting \cup {"commit"}
    PROVE  Good(f)
<1>1. Closed({}) BY DEF Closed
<1>2. Plain(f, {}) BY DEF Plain, Nesting
<1> QED BY <1>1, <1>2, GoodOf

LEMMA Frames ==
    /\ \A k : k \notin Control \cup Nesting \cup {"commit"} => Good(Parse(k))
    /\ \A bp : Good(Expr(bp)) /\ Good(Infix(bp))
    /\ \A t : t # "eof" => Good(Token(t))
    /\ \A k, at : Good(Span(k, at)) /\ Good(SpanFromLeft(k, at))
    /\ \A k : Good(Join(k))
    /\ Good(Group)
<1>1. ASSUME NEW k, k \notin Control \cup Nesting \cup {"commit"} PROVE Good(Parse(k))
  <2>1. Parse(k).is = k BY DEF Parse
  <2> QED BY ONLY <1>1, <2>1, Simple
<1>2. ASSUME NEW bp PROVE Good(Expr(bp)) /\ Good(Infix(bp))
  <2>1. Expr(bp).is = "expr" /\ Infix(bp).is = "infix" BY DEF Expr, Infix
  <2>2. {"expr", "infix"} \cap (Control \cup Nesting \cup {"commit"}) = {} BY DEF Control, Nesting
  <2> QED BY <2>1, <2>2, Simple
<1>3. ASSUME NEW t, t # "eof" PROVE Good(Token(t))
  <2>1. Token(t).is = "token" /\ Token(t).token = t BY DEF Token
  <2>2. Closed({}) BY DEF Closed
  <2>3. Plain(Token(t), {}) BY <1>3, <2>1 DEF Plain, Control
  <2> QED BY <2>2, <2>3, GoodOf
<1>4. ASSUME NEW k, NEW at PROVE Good(Span(k, at)) /\ Good(SpanFromLeft(k, at)) /\ Good(Join(k))
  <2>1. Span(k, at).is = "span" /\ SpanFromLeft(k, at).is = "span" /\ Join(k).is = "join"
    BY DEF Span, SpanFromLeft, Join
  <2>2. {"span", "join"} \cap (Control \cup Nesting \cup {"commit"}) = {} BY DEF Control, Nesting
  <2> QED BY <2>1, <2>2, Simple
<1>5. Good(Group)
  <2>1. Group.is = "group" BY DEF Group
  <2>2. "group" \notin Control \cup Nesting \cup {"commit"} BY DEF Control, Nesting
  <2> QED BY <2>1, <2>2, Simple
<1> QED BY <1>1, <1>2, <1>3, <1>4, <1>5

\* Frames made of good ones.
LEMMA Nested ==
    ASSUME NEW s, Work(s)
    PROVE  /\ \A ends : Good(List(ends, s))
           /\ \A end : Good(Until(end, s))
           /\ \A t : t # "eof" => Good(Opt(t, s)) /\ Good(More(t, s))
           /\ Good(Payload(s))
<1>1. PICK F : Closed(F) /\ s \in Seq(F) BY WorkIn
<1>2. ASSUME NEW ends PROVE Good(List(ends, s)) /\ Good(Until(ends, s)) /\ Good(Payload(s))
  <2>1. /\ List(ends, s).is = "list" /\ List(ends, s).item = s
        /\ Until(ends, s).is = "until" /\ Until(ends, s).item = s
        /\ Payload(s).is = "payload" /\ Payload(s).visible = s
    BY DEF List, Until, Payload
  <2>2. Plain(List(ends, s), F) BY <1>1, <2>1 DEF Plain, Control
  <2>3. Plain(Until(ends, s), F) BY <1>1, <2>1 DEF Plain, Control
  <2>4. Plain(Payload(s), F) BY <1>1, <2>1 DEF Plain, Control
  <2> QED BY <1>1, <2>2, <2>3, <2>4, GoodOf
<1>3. ASSUME NEW t, t # "eof" PROVE Good(Opt(t, s)) /\ Good(More(t, s))
  <2>1. /\ Opt(t, s).is = "opt" /\ Opt(t, s).token = t /\ Opt(t, s).then = s
        /\ More(t, s).is = "more" /\ More(t, s).token = t /\ More(t, s).item = s
    BY DEF Opt, More
  <2>2. Plain(Opt(t, s), F) BY <1>1, <1>3, <2>1 DEF Plain, Control
  <2>3. Plain(More(t, s), F) BY <1>1, <1>3, <2>1 DEF Plain, Control
  <2> QED BY <1>1, <2>2, <2>3, GoodOf
<1> QED BY <1>2, <1>3

LEMMA DelimitedWork ==
    ASSUME NEW s, Work(s), NEW end, end # "eof"
    PROVE  Work(Delimited(end, s))
<1>1. Good(List({end}, s)) BY Nested
<1>2. Good(Token(end)) BY Frames
<1> QED BY <1>1, <1>2, Work2 DEF Delimited
-----------------------------------------------------------------------------
(* The frames of the item                                                  *)

\* The frames of c behind the first k, and `then` in the place of these.
Instead(then, c, k) == then \o SubSeq(c, k + 1, Len(c))

\* What is put in the place of frames of the item leaves those of the module.
LEMMA Replaced ==
    ASSUME NEW c, Shape(c), InItem(c), NEW k \in 1..(Len(c) - 2),
           NEW then, IsSequence(then),
           \A i \in 1..Len(then) : Good(then[i]) \/ Attempt(then[i])
    PROVE  /\ Shape(Instead(then, c, k)) /\ InItem(Instead(then, c, k))
           /\ Since(Instead(then, c, k)) = Since(c)
           /\ Len(then) \in Nat /\ Len(c) \in Nat
           /\ Len(Instead(then, c, k)) = Len(then) + Len(c) - k
           /\ \A i \in 1..Len(then) : Instead(then, c, k)[i] = then[i]
           /\ \A i \in 1..Len(Instead(then, c, k)) :
                 \/ \E j \in 1..Len(then) : Instead(then, c, k)[i] = then[j]
                 \/ \E j \in 1..Len(c) : Instead(then, c, k)[i] = c[j]
<1> DEFINE r == SubSeq(c, k + 1, Len(c))
           d == Instead(then, c, k)
           n == Len(c)
           m == Len(then)
<1>1. n \in Nat /\ m \in Nat /\ n >= 3 /\ k \in 1..(n - 2)
  BY LenProperties DEF Shape, IsSequence
<1>2. /\ IsSequence(r) /\ Len(r) = n - k
      /\ \A i \in 1..(n - k) : r[i] = c[k + i]
  <2>1. PICK S : c \in Seq(S) BY DEF Shape, IsSequence
  <2>2. \A i \in (k + 1)..n : c[i] \in S BY <2>1, <1>1
  <2>3. /\ r \in Seq(S)
        /\ Len(r) = IF k + 1 <= n THEN n - (k + 1) + 1 ELSE 0
        /\ \A i \in 1..(n - (k + 1) + 1) : r[i] = c[(k + 1) + i - 1]
    BY <2>2, <1>1, SubSeqProperties
  <2> QED BY <2>3, <1>1 DEF IsSequence
<1> HIDE DEF r
<1>3. /\ IsSequence(d) /\ Len(d) = m + Len(r)
      /\ \A j \in 1..m : d[j] = then[j]
      /\ \A j \in 1..Len(r) : d[j + m] = r[j]
  BY <1>2, Concats DEF Instead, r
<1> HIDE DEF d, n, m
<1>4. \A j \in (k + 1)..n : d[m + j - k] = c[j]
  <2> TAKE j \in (k + 1)..n
  <2>1. j - k \in 1..(n - k) /\ (j - k) + m = m + j - k /\ k + (j - k) = j BY <1>1
  <2>2. d[(j - k) + m] = r[j - k] /\ r[j - k] = c[k + (j - k)] BY <2>1, <1>2, <1>3
  <2> QED BY <2>1, <2>2
<1>5. \A i \in 1..Len(d) : i \in 1..m \/ \E j \in (k + 1)..n : i = m + j - k
  <2> TAKE i \in 1..Len(d)
  <2>1. CASE i \notin 1..m
    <3>1. i - m + k \in (k + 1)..n /\ i = m + (i - m + k) - k BY <2>1, <1>1, <1>2, <1>3
    <3> QED BY <3>1
  <2> QED BY <2>1
<1>6. /\ Len(d) = m + n - k /\ Len(d) \in Nat /\ Len(d) >= 2
      /\ d[Len(d)] = c[n] /\ d[Len(d) - 1] = c[n - 1]
  <2>1. Len(d) = m + n - k /\ Len(d) >= 2 /\ Len(d) \in Nat BY <1>1, <1>2, <1>3
  <2>2. n \in (k + 1)..n /\ n - 1 \in (k + 1)..n BY <1>1
  <2>3. d[m + n - k] = c[n] /\ d[m + (n - 1) - k] = c[n - 1] BY <2>2, <1>4
  <2>4. m + (n - 1) - k = Len(d) - 1 BY <2>1, <1>1
  <2> QED BY <2>1, <2>3, <2>4
<1>7. ASSUME NEW i \in 1..Len(d)
      PROVE  /\ Good(d[i]) \/ Attempt(d[i]) \/ (d[i].is \in Control /\ i >= Len(d) - 1)
             /\ (\E j \in 1..m : d[i] = then[j]) \/ \E j \in 1..n : d[i] = c[j]
  <2>1. CASE i \in 1..m BY <2>1, <1>3 DEF m
  <2>2. CASE i \notin 1..m
    <3>1. PICK j \in (k + 1)..n : i = m + j - k BY <2>2, <1>5
    <3>2. j \in 1..n /\ d[i] = c[j] BY <3>1, <1>1, <1>4
    <3>3. Good(c[j]) \/ Attempt(c[j]) \/ (c[j].is \in Control /\ j >= n - 1)
      BY <3>2 DEF Shape, n
    <3>4. j >= n - 1 => i >= Len(d) - 1 BY <3>1, <1>1, <1>6
    <3> QED BY <3>2, <3>3, <3>4
  <2> QED BY <2>1, <2>2
<1>8. c[n].is = "module" /\ c[n - 1].is = "item_end" BY <1>1 DEF Shape, InItem, n
<1>9. InItem(d) /\ Since(d) = Since(c) BY <1>6, <1>8 DEF InItem, Since, n
<1>10. Shape(d) BY <1>3, <1>6, <1>7, <1>8 DEF Shape
<1> QED BY <1>1, <1>3, <1>6, <1>7, <1>9, <1>10 DEF d, n, m

\* What is not of the module is of an item.
LEMMA OfItem ==
    ASSUME NEW c, Shape(c), c # <<>>, Head(c).is \notin Control
    PROVE  /\ InItem(c) /\ Len(c) \in Nat /\ Len(c) >= 3
           /\ Head(c) = c[1] /\ Tail(c) = SubSeq(c, 2, Len(c))
           /\ Good(c[1]) \/ Attempt(c[1])
<1>1. PICK S : c \in Seq(S) BY DEF Shape, IsSequence
<1>2. /\ Head(c) = c[1] /\ Tail(c) = SubSeq(c, 2, Len(c)) /\ Len(c) \in Nat /\ Len(c) >= 1
  BY <1>1, EmptySeq, TailIsSubSeq
<1>3. Len(c) # 1 /\ Len(c) # 2 BY <1>2 DEF Shape, Control
<1>4. 1 \in 1..Len(c) /\ Len(c) >= 3
  <2>1. PICK n \in Nat : n = Len(c) BY <1>2
  <2>2. n >= 1 /\ n # 1 /\ n # 2 BY <2>1, <1>2, <1>3
  <2> QED BY <2>1, <2>2
<1>5. InItem(c) BY <1>4 DEF Shape, InItem
<1>6. Good(c[1]) \/ Attempt(c[1]) BY <1>2, <1>4 DEF Shape
<1> QED BY <1>2, <1>4, <1>5, <1>6

-----------------------------------------------------------------------------
(* The cursor                                                              *)

\* Of a token that is not the end of the input, there is one behind it.
LEMMA Behind ==
    ASSUME Cursor, Lexed, NEW k \in 0..2, Peek(k) # "eof"
    PROVE  /\ pos + k + 1 <= Len(tokens) /\ Len(tokens) \in Nat
           /\ Advanced(k + 1) = pos + k + 1
<1>1. Len(tokens) \in Nat /\ pos \in Nat BY LenProperties DEF Cursor, IsSequence
<1>2. CASE Ended
  <2>1. tokens # <<>> /\ tokens[Len(tokens)] = "eof" BY <1>2 DEF Ended, Last
  <2>2. pos + k < Len(tokens) BY <2>1, <1>1 DEF Peek
  <2> QED BY <2>2, <1>1 DEF Advanced
<1>3. CASE ~Ended
  <2>1. Len(tokens) >= pos + 3 BY <1>3 DEF Lexed, MaxPeek
  <2> QED BY <2>1, <1>1 DEF Advanced
<1> QED BY <1>2, <1>3

LEMMA Here ==
    ASSUME Cursor, Lexed
    PROVE  /\ tokens # <<>> /\ pos <= Len(tokens) /\ Len(tokens) \in Nat
           /\ Tok = tokens[pos] /\ Advanced(0) = pos
<1>1. Len(tokens) \in Nat /\ pos \in Nat \ {0} BY LenProperties DEF Cursor, IsSequence
<1>2. tokens # <<>>
  <2>1. CASE Ended BY <2>1 DEF Ended
  <2>2. CASE ~Ended
    <3>1. Len(tokens) >= pos + 3 BY <2>2 DEF Lexed, MaxPeek
    <3> QED BY <3>1, <1>1
  <2> QED BY <2>1, <2>2
<1>3. pos <= Len(tokens) BY <1>2 DEF Cursor
<1>4. Tok = tokens[pos] BY <1>1, <1>3 DEF Tok, Peek
<1> QED BY <1>1, <1>2, <1>3, <1>4 DEF Advanced
-----------------------------------------------------------------------------
(* The steps the functions are made of                                     *)

\* The frames that may run before their item has consumed a token.
Firsts == {"item", "attributes", "visibility", "definition", "fn", "token"}

LEMMA FirstsRun ==
    ASSUME Early, Shape(calls), InItem(calls)
    PROVE  calls[1].is \in Firsts
<1>1. Token("act").is = "token" BY DEF Token
<1> QED BY <1>1 DEF Early, Firsts

Moves(n, then) ==
    /\ pos' = Advanced(n)
    /\ calls' = then \o Tail(calls)
    /\ UNCHANGED <<slots, tokens, items, errors>>

\* The item goes on, behind where it began.
LEMMA StillInItem ==
    ASSUME Cursor, items \in Nat, errors \in Nat, UNCHANGED <<slots, tokens, items, errors>>,
           Shape(calls'), InItem(calls'), pos' \in Nat, pos' <= Len(tokens), tokens # <<>>,
           Since(calls') \in Nat \ {0}, Since(calls') <= pos', items + errors < Since(calls'),
           pos' > Since(calls') \/ Early',
           \A i \in 1..Len(calls') :
              calls'[i].is = "commit" => calls'[i].pos \in (Since(calls') + 1)..Len(tokens)
    PROVE  ParseInv'
<1>1. PICK d : d = calls' OBVIOUS
<1>2. Cursor' BY DEF Cursor
<1>3. InItemOK' BY DEF InItemOK
<1>4. RecoverOK' /\ Len(calls') # 0 /\ Len(calls') # 1
  <2>1. Len(d) \in Nat BY <1>1, LenProperties DEF Shape, IsSequence
  <2>2. PICK m \in Nat : m = Len(d) BY <2>1
  <2>3. m >= 2 /\ d[m - 1].is = "item_end" BY <1>1, <2>2 DEF InItem
  <2>4. m # 0 /\ m # 1 BY <2>3
  <2>5. m = 2 => d[1].is = "item_end"
    <3>1. m = 2 => m - 1 = 1 OBVIOUS
    <3> QED BY <3>1, <2>3
  <2>6. RecoverOK' BY <1>1, <2>2, <2>5 DEF RecoverOK
  <2> QED BY <1>1, <2>2, <2>4, <2>6
<1>5. Counted' BY <1>3, <1>4 DEF Counted
<1> QED BY <1>2, <1>5 DEF ParseInv

LEMMA StillRecovers ==
    ASSUME Cursor, IsSequence(calls'), Len(calls') = 2, UNCHANGED <<slots, tokens>>,
           calls'[1].is = "recover", calls'[2].is = "module",
           pos' \in Nat \ {0}, pos' <= Len(tokens), items' \in Nat, errors' \in Nat, RecoverOK'
    PROVE  ParseInv'
<1>1. PICK d : d = calls' OBVIOUS
<1>2. IsSequence(d) /\ Len(d) = 2 /\ d[1].is = "recover" /\ d[2].is = "module" BY <1>1
<1>3. Shape(d)
  <2>1. \A i \in 1..Len(d) : d[i].is \in Control /\ i >= Len(d) - 1
    <3>1. \A i \in 1..Len(d) : i = 1 \/ i = 2 BY <1>2
    <3> QED BY <3>1, <1>2 DEF Control
  <2>2. Len(d) >= 1 => d[Len(d)].is = "module" BY <1>2
  <2>3. Len(d) >= 2 => Len(d) = 2 /\ d[1].is = "recover" BY <1>2
  <2> QED BY <2>1, <2>2, <2>3, <1>2 DEF Shape
<1>4. ~InItem(d)
  <2>1. Len(d) - 1 = 1 BY <1>2
  <2> QED BY <2>1, <1>2 DEF InItem
<1>5. Cursor' BY DEF Cursor
<1>6. InItemOK' BY <1>1, <1>4 DEF InItemOK
<1>7. Counted' BY <1>1, <1>2, <1>6 DEF Counted
<1> QED BY <1>1, <1>3, <1>5, <1>7 DEF ParseInv

LEMMA Pushed ==
    ASSUME ParseInv, NEW is, Runs(is), is \notin Control,
           NEW n \in 0..3, n # 0 => Peek(n - 1) # "eof",
           n = 0 /\ is \in Firsts /\ Early => Early',
           NEW then, IsSequence(then),
           \A i \in 1..Len(then) :
              Good(then[i])
              \/ (Attempt(then[i]) /\ then[i].pos = pos' /\ (n = 0 => is \notin Firsts)),
           Moves(n, then)
    PROVE  ParseInv'
<1>1. calls # <<>> /\ Lexed /\ Head(calls).is = is BY DEF Runs, Top
<1>2. Cursor /\ Shape(calls) /\ Counted BY DEF ParseInv
<1>3. /\ InItem(calls) /\ Len(calls) \in Nat /\ Len(calls) >= 3
      /\ calls[1].is = is /\ Tail(calls) = SubSeq(calls, 2, Len(calls))
  <2>1. /\ InItem(calls) /\ Len(calls) \in Nat /\ Len(calls) >= 3
        /\ Head(calls) = calls[1] /\ Tail(calls) = SubSeq(calls, 2, Len(calls))
    BY <1>1, <1>2, OfItem
  <2> QED BY <2>1, <1>1
<1>4. /\ pos \in Nat /\ Len(tokens) \in Nat /\ tokens # <<>>
      /\ pos' = pos + n /\ pos' <= Len(tokens)
  <2>1. tokens # <<>> /\ pos <= Len(tokens) /\ Len(tokens) \in Nat /\ Advanced(0) = pos
    BY <1>1, <1>2, Here
  <2>2. pos \in Nat BY <1>2 DEF Cursor
  <2>3. CASE n = 0 BY <2>1, <2>2, <2>3 DEF Moves
  <2>4. CASE n # 0
    <3>1. n - 1 \in 0..2 /\ Peek(n - 1) # "eof" /\ (n - 1) + 1 = n BY <2>4
    <3>2. pos + (n - 1) + 1 <= Len(tokens) /\ Advanced((n - 1) + 1) = pos + (n - 1) + 1
      BY <1>1, <1>2, <3>1, Behind
    <3> QED BY <2>1, <2>2, <3>1, <3>2 DEF Moves
  <2> QED BY <2>3, <2>4
<1>5. /\ pos' > Since(calls) \/ Early'
      /\ (n = 0 => is \notin Firsts) => pos' > Since(calls)
      /\ Since(calls) \in 1..pos /\ items + errors < Since(calls)
  <2>1. Since(calls) \in 1..pos /\ items + errors < Since(calls)
        /\ (pos > Since(calls) \/ Early)
    BY <1>2, <1>3 DEF Counted, InItemOK
  <2>2. CASE n = 0 /\ Early
    <3>1. is \in Firsts BY <1>2, <1>3, <2>2, FirstsRun
    <3> QED BY <3>1, <2>1, <2>2
  <2>3. CASE n # 0 \/ ~Early BY <2>1, <2>3, <1>4
  <2> QED BY <2>2, <2>3
<1> DEFINE d == Instead(then, calls, 1)
<1>6. calls' = d
  <2>1. 1 + 1 = 2 OBVIOUS
  <2> QED BY <2>1, <1>3 DEF Moves, Instead
<1>7. /\ Shape(d) /\ InItem(d) /\ Since(d) = Since(calls)
      /\ \A i \in 1..Len(d) : \/ \E j \in 1..Len(then) : d[i] = then[j]
                             \/ \E j \in 1..Len(calls) : d[i] = calls[j]
  <2>1. 1 \in 1..(Len(calls) - 2) BY <1>3
  <2>2. \A i \in 1..Len(then) : Good(then[i]) \/ Attempt(then[i]) OBVIOUS
  <2>3. Shape(calls) /\ InItem(calls) /\ IsSequence(then) BY <1>2, <1>3
  <2>4. /\ Shape(Instead(then, calls, 1)) /\ InItem(Instead(then, calls, 1))
        /\ Since(Instead(then, calls, 1)) = Since(calls)
        /\ \A i \in 1..Len(Instead(then, calls, 1)) :
               \/ \E j \in 1..Len(then) : Instead(then, calls, 1)[i] = then[j]
               \/ \E j \in 1..Len(calls) : Instead(then, calls, 1)[i] = calls[j]
    BY ONLY <2>1, <2>2, <2>3, Replaced
  <2> QED BY <2>4
<1> HIDE DEF d
<1>8. ASSUME NEW i \in 1..Len(d), d[i].is = "commit"
      PROVE  d[i].pos \in (Since(calls) + 1)..Len(tokens)
  <2>1. CASE \E j \in 1..Len(then) : d[i] = then[j]
    <3>1. PICK j \in 1..Len(then) : d[i] = then[j] BY <2>1
    <3>2. ~Good(then[j]) BY <3>1, <1>8, PartsOf
    <3>3. d[i].pos = pos' /\ (n = 0 => is \notin Firsts) BY <3>1, <3>2
    <3>4. pos' > Since(calls) BY <3>3, <1>5
    <3> QED BY <3>3, <3>4, <1>4, <1>5
  <2>2. CASE \E j \in 1..Len(calls) : d[i] = calls[j]
    BY <2>2, <1>8, <1>2, <1>3 DEF Counted, InItemOK
  <2> QED BY <2>1, <2>2, <1>7
<1>9. /\ items \in Nat /\ errors \in Nat /\ UNCHANGED <<slots, tokens, items, errors>>
      /\ Shape(calls') /\ InItem(calls') /\ pos' \in Nat /\ pos' <= Len(tokens)
      /\ tokens # <<>>
      /\ Since(calls') \in Nat \ {0} /\ Since(calls') <= pos' /\ items + errors < Since(calls')
      /\ pos' > Since(calls') \/ Early'
      /\ \A i \in 1..Len(calls') :
            calls'[i].is = "commit" => calls'[i].pos \in (Since(calls') + 1)..Len(tokens)
  <2>1. items \in Nat /\ errors \in Nat /\ UNCHANGED <<slots, tokens, items, errors>>
    BY <1>2 DEF Moves, Counted
  <2>2. Shape(calls') /\ InItem(calls') /\ Since(calls') = Since(calls) BY <1>6, <1>7
  <2>3. /\ pos' \in Nat /\ pos' <= Len(tokens)
        /\ Since(calls) \in Nat \ {0} /\ Since(calls) <= pos'
    BY <1>4, <1>5
  <2> QED BY <2>1, <2>2, <2>3, <1>4, <1>5, <1>6, <1>8
<1> QED BY ONLY <1>2, <1>9, StillInItem

LEMMA Consumed ==
    ASSUME ParseInv, NEW is, Runs(is), is \notin Control,
           NEW n \in 1..3, Peek(n - 1) # "eof", NEW then, Work(then),
           Take(n, then) \/ \E kind : Leaf(kind, n, then)
    PROVE  ParseInv'
<1>1. Moves(n, then) BY DEF Moves, Take, Leaf
<1>2. n \in 0..3 /\ n # 0 OBVIOUS
<1>3. IsSequence(then) /\ \A i \in 1..Len(then) : Good(then[i]) BY DEF Work
<1> QED BY <1>1, <1>2, <1>3, Pushed

LEMMA Read ==
    ASSUME ParseInv, NEW is, Runs(is), is \notin Control, Tok # "eof", NEW then, Work(then),
           Take(1, then) \/ \E kind : Leaf(kind, 1, then)
    PROVE  ParseInv'
<1>1. 1 \in 1..3 /\ Peek(1 - 1) # "eof" BY DEF Tok
<1> QED BY <1>1, Consumed

LEMMA Called ==
    ASSUME ParseInv, NEW is, Runs(is), is \notin Control \cup Firsts, NEW then, Work(then),
           Then(then)
    PROVE  ParseInv'
<1>1. Moves(0, then) BY DEF Moves, Then, Take
<1>2. 0 \in 0..3 OBVIOUS
<1>3. IsSequence(then) /\ \A i \in 1..Len(then) : Good(then[i]) BY DEF Work
<1> QED BY <1>1, <1>2, <1>3, Pushed

LEMMA Returned ==
    ASSUME ParseInv, NEW is, Runs(is), is \notin Control \cup Firsts, Return
    PROVE  ParseInv'
BY WorkNone, Called DEF Return

\* A step that only changes the nodes and ends the function.
LEMMA Popped ==
    ASSUME ParseInv, NEW is, Runs(is), is \notin Control \cup Firsts,
           calls' = Tail(calls), UNCHANGED <<slots, tokens, pos, items, errors>>
    PROVE  ParseInv'
<1>1. calls # <<>> /\ Lexed BY DEF Runs
<1>2. Cursor /\ Shape(calls) BY DEF ParseInv
<1>3. Advanced(0) = pos BY <1>1, <1>2, Here
<1>4. PICK S : calls \in Seq(S) BY <1>2 DEF Shape, IsSequence
<1>5. <<>> \o Tail(calls) = Tail(calls) BY <1>1, <1>4, HeadTailProperties, ConcatEmptySeq
<1>6. Moves(0, <<>>) BY <1>3, <1>5 DEF Moves
<1>7. 0 \in 0..3 OBVIOUS
<1>8. IsSequence(<<>>) /\ \A i \in 1..Len(<<>>) : Good(<<>>[i]) BY WorkNone DEF Work
<1> QED BY <1>6, <1>7, <1>8, Pushed

\* An attempt that is undone goes on from where it began, behind the start of its item.
LEMMA Undone ==
    ASSUME ParseInv, Lexed, InItem(calls), NEW k, k \in 1..(Len(calls) - 1), calls[k].is = "commit",
           pos' = calls[k].pos, UNCHANGED <<slots, tokens, items, errors>>,
           calls' = calls[k].otherwise \o SubSeq(calls, k + 1, Len(calls))
    PROVE  ParseInv'
<1>1. Cursor /\ Shape(calls) /\ Counted BY DEF ParseInv
<1>2. InItem(calls) /\ Len(calls) \in Nat /\ k \in 1..Len(calls)
  <2>1. Len(calls) \in Nat BY <1>1, LenProperties DEF Shape, IsSequence
  <2> QED BY <2>1
<1>3. Since(calls) \in 1..pos /\ items + errors < Since(calls)
  BY <1>1, <1>2 DEF Counted, InItemOK
<1>4. /\ pos \in Nat \ {0} /\ tokens # <<>> /\ pos <= Len(tokens) /\ Len(tokens) \in Nat
  <2>1. tokens # <<>> /\ pos <= Len(tokens) /\ Len(tokens) \in Nat BY <1>1, Here
  <2> QED BY <2>1, <1>1 DEF Cursor
<1>5. PICK then : then = calls[k].otherwise OBVIOUS
<1> DEFINE d == Instead(then, calls, k)
<1>6. Work(then)
  <2>1. Good(calls[k]) \/ Attempt(calls[k]) \/ calls[k].is \in Control
    BY <1>1, <1>2 DEF Shape
  <2>2. ~Good(calls[k]) BY PartsOf
  <2> QED BY <1>5, <2>1, <2>2 DEF Attempt, Control
<1>7. k \in 1..(Len(calls) - 2)
  <2>1. k # Len(calls) - 1 BY <1>2 DEF InItem
  <2> QED BY <2>1, <1>2
<1>8. pos' \in (Since(calls) + 1)..Len(tokens)
  BY <1>1, <1>2 DEF Counted, InItemOK
<1>9. calls' = d BY <1>5 DEF Instead
<1>10. IsSequence(then) /\ \A i \in 1..Len(then) : Good(then[i]) BY <1>6 DEF Work
<1>11. /\ Shape(d) /\ InItem(d) /\ Since(d) = Since(calls)
      /\ \A i \in 1..Len(d) : \/ \E j \in 1..Len(then) : d[i] = then[j]
                             \/ \E j \in 1..Len(calls) : d[i] = calls[j]
  <2>1. \A i \in 1..Len(then) : Good(then[i]) \/ Attempt(then[i]) BY <1>10
  <2>2. IsSequence(then) BY <1>10
  <2>3. InItem(calls) /\ Shape(calls) BY <1>1, <1>2
  <2>4. /\ Shape(Instead(then, calls, k)) /\ InItem(Instead(then, calls, k))
        /\ Since(Instead(then, calls, k)) = Since(calls)
        /\ \A i \in 1..Len(Instead(then, calls, k)) :
               \/ \E j \in 1..Len(then) : Instead(then, calls, k)[i] = then[j]
               \/ \E j \in 1..Len(calls) : Instead(then, calls, k)[i] = calls[j]
    BY ONLY <2>3, <1>7, <2>1, <2>2, Replaced, SMTT(30)
  <2> QED BY <2>4
<1> HIDE DEF d
<1>12. ASSUME NEW i \in 1..Len(d), d[i].is = "commit"
      PROVE  d[i].pos \in (Since(calls) + 1)..Len(tokens)
  <2>1. CASE \E j \in 1..Len(then) : d[i] = then[j]
    BY <2>1, <1>10, <1>12, PartsOf
  <2>2. CASE \E j \in 1..Len(calls) : d[i] = calls[j]
    BY <2>2, <1>12, <1>1, <1>2 DEF Counted, InItemOK
  <2> QED BY <2>1, <2>2, <1>11
<1>13. /\ items \in Nat /\ errors \in Nat /\ UNCHANGED <<slots, tokens, items, errors>>
      /\ Shape(calls') /\ InItem(calls') /\ pos' \in Nat /\ pos' <= Len(tokens)
      /\ tokens # <<>>
      /\ Since(calls') \in Nat \ {0} /\ Since(calls') <= pos'
      /\ items + errors < Since(calls') /\ (pos' > Since(calls') \/ Early')
      /\ \A i \in 1..Len(calls') :
            calls'[i].is = "commit" => calls'[i].pos \in (Since(calls') + 1)..Len(tokens)
  <2>1. items \in Nat /\ errors \in Nat /\ UNCHANGED <<slots, tokens, items, errors>>
    BY <1>1 DEF Counted
  <2>2. Shape(calls') /\ InItem(calls') /\ Since(calls') = Since(calls) BY <1>9, <1>11
  <2>3. /\ pos' \in Nat /\ pos' <= Len(tokens) /\ pos' > Since(calls)
        /\ Since(calls) \in Nat \ {0}
    BY <1>3, <1>4, <1>8
  <2>4. /\ tokens # <<>>
        /\ Since(calls') \in Nat \ {0} /\ Since(calls') <= pos'
        /\ items + errors < Since(calls') /\ pos' > Since(calls')
    BY <2>1, <2>2, <2>3, <1>3, <1>4
  <2>5. \A i \in 1..Len(calls') :
            calls'[i].is = "commit" => calls'[i].pos \in (Since(calls') + 1)..Len(tokens)
    BY <2>2, <1>9, <1>12
  <2> QED BY ONLY <2>1, <2>2, <2>3, <2>4, <2>5
<1> QED BY ONLY <1>13, <1>1, StillInItem

\* An error: the attempt that catches it goes on behind the start of the item;
\* without one the module recovers.
LEMMA Raised ==
    ASSUME ParseInv, NEW is, Runs(is), is \notin Control,
           is \in Firsts /\ Early => tokens[pos] \notin Recovered,
           Raise
    PROVE  ParseInv'
<1> DEFINE I == {i \in 1..Len(calls) : calls[i].is \in {"commit", "item_end"}}
<1>1. calls # <<>> /\ Lexed /\ Head(calls).is = is BY DEF Runs, Top
<1>2. Cursor /\ Shape(calls) /\ Counted BY DEF ParseInv
<1>3. /\ InItem(calls) /\ Len(calls) \in Nat /\ Len(calls) >= 3 /\ calls[1].is = is
  <2>1. /\ InItem(calls) /\ Len(calls) \in Nat /\ Len(calls) >= 3 /\ Head(calls) = calls[1]
    BY <1>1, <1>2, OfItem
  <2> QED BY <2>1, <1>1
<1>4. PICK k : k = SelectInSeq(calls, LAMBDA f : f.is \in {"commit", "item_end"}) OBVIOUS
<1>5. k \in I /\ \A i \in I : k <= i
  <2>1. Len(calls) - 1 \in I BY <1>3 DEF InItem
  <2>2. k = Min(I) BY <1>4, <2>1 DEF SelectInSeq
  <2>3. I \subseteq Nat BY <1>3
  <2> HIDE DEF I
  <2>4. \E x \in I : \A y \in I : x <= y BY <2>1, <2>3, Smallest
  <2> QED BY <2>2, <2>4 DEF Min
<1>6. /\ Since(calls) \in 1..pos /\ items + errors < Since(calls)
      /\ pos > Since(calls) \/ Early
  BY <1>2, <1>3 DEF Counted, InItemOK
<1>7. /\ pos \in Nat \ {0} /\ tokens # <<>> /\ pos <= Len(tokens) /\ Len(tokens) \in Nat
  <2>1. tokens # <<>> /\ pos <= Len(tokens) /\ Len(tokens) \in Nat BY <1>1, <1>2, Here
  <2> QED BY <2>1, <1>2 DEF Cursor
<1>8. k \in 1..(Len(calls) - 1)
  <2>1. Len(calls) - 1 \in I BY <1>3 DEF InItem
  <2>2. k \in 1..Len(calls) /\ k <= Len(calls) - 1 BY <1>5, <2>1
  <2> QED BY <2>2, <1>3
<1>9. UNCHANGED <<slots, tokens, items>> BY DEF Raise
<1>10. CASE /\ calls[k].is = "commit" /\ pos' = calls[k].pos /\ errors' = errors
            /\ calls' = calls[k].otherwise \o SubSeq(calls, k + 1, Len(calls))
  BY <1>1, <1>3, <1>8, <1>9, <1>10, Undone
<1>11. CASE /\ calls[k].is = "item_end" /\ pos' = pos /\ errors' = errors + 1
            /\ calls' = <<Parse("recover")>> \o SubSeq(calls, k + 1, Len(calls))
  <2>1. k = Len(calls) - 1
    <3>1. Good(calls[k]) \/ Attempt(calls[k]) \/ k >= Len(calls) - 1
      BY <1>2, <1>3, <1>8 DEF Shape
    <3>2. ~Good(calls[k]) /\ ~Attempt(calls[k]) BY <1>11, PartsOf DEF Control, Attempt
    <3> QED BY <3>1, <3>2, <1>3, <1>8
  <2>2. calls[Len(calls)].is = "module" BY <1>2, <1>3 DEF Shape
  <2>3. IsSequence(calls') /\ Len(calls') = 2
        /\ calls'[1].is = "recover" /\ calls'[2].is = "module"
    <3>1. PICK n : n = Len(calls) OBVIOUS
    <3>2. PICK r : r = SubSeq(calls, n, n) OBVIOUS
    <3>3. PICK p : p = <<Parse("recover")>> OBVIOUS
    <3>4. PICK S : calls \in Seq(S) BY <1>2 DEF Shape, IsSequence
    <3>5. n \in Nat /\ \A i \in n..n : calls[i] \in S BY <3>4, <3>1, <1>3
    <3>6. IsSequence(r) /\ Len(r) = 1 /\ r[1].is = "module"
      <4>1. /\ r \in Seq(S)
            /\ Len(r) = IF n <= n THEN n - n + 1 ELSE 0
            /\ \A i \in 1..(n - n + 1) : r[i] = calls[n + i - 1]
        BY <3>5, <3>2, SubSeqProperties
      <4>2. 1 \in 1..(n - n + 1) /\ n + 1 - 1 = n BY <3>5
      <4> QED BY <4>1, <4>2, <3>5, <3>1, <2>2 DEF IsSequence
    <3>7. IsSequence(p) /\ Len(p) = 1 /\ p[1].is = "recover"
      <4>1. p \in Seq({Parse("recover")}) BY <3>3
      <4>2. Len(p) = 1 /\ p[1] = Parse("recover") BY <3>3
      <4> QED BY <4>1, <4>2 DEF IsSequence, Parse
    <3>8. k + 1 = n BY <2>1, <3>1, <1>3
    <3>9. calls' = p \o r BY <1>11, <3>1, <3>2, <3>3, <3>8
    <3>10. /\ IsSequence(p \o r)
           /\ Len(p) \in Nat /\ Len(r) \in Nat /\ Len(p \o r) = Len(p) + Len(r)
           /\ \A j \in 1..Len(p) : (p \o r)[j] = p[j]
           /\ \A j \in 1..Len(r) : (p \o r)[j + Len(p)] = r[j]
      <4>1. IsSequence(p) BY <3>7
      <4>2. IsSequence(r) BY <3>6
      <4> QED BY ONLY <4>1, <4>2, Concats
    <3> QED BY <3>6, <3>7, <3>9, <3>10
  <2>5. RecoverOK'
    <3>1. items + errors + 1 <= pos BY <1>2, <1>6, <1>7 DEF Counted
    <3>2. items + errors + 1 < pos \/ tokens[pos] \notin Recovered
      <4>1. CASE pos > Since(calls) BY <4>1, <1>2, <1>6, <1>7 DEF Counted
      <4>2. CASE Early
        <5>1. is \in Firsts BY <4>2, <1>2, <1>3, FirstsRun
        <5> QED BY <5>1, <4>2
      <4> QED BY <4>1, <4>2, <1>6
    <3>3. items' + errors' = items + errors + 1 /\ tokens' = tokens /\ pos' = pos
      BY <1>2, <1>9, <1>11 DEF Counted
    <3> QED BY <3>1, <3>2, <3>3, <1>7 DEF RecoverOK
  <2>6. items' \in Nat /\ errors' \in Nat BY <1>2, <1>9, <1>11 DEF Counted
  <2> QED BY ONLY <2>3, <2>5, <2>6, <1>2, <1>7, <1>9, <1>11, StillRecovers
<1> QED BY <1>4, <1>10, <1>11 DEF Raise
-----------------------------------------------------------------------------
(* The frames of the functions                                             *)

LEMMA NamedFrames ==
    /\ Good(Name) /\ Good(Type) /\ Good(OptType) /\ Work(<<Type>>)
    /\ Good(Pattern) /\ Good(Single) /\ Good(PatternSpan)
    /\ Good(Value) /\ Work(<<Value>>) /\ Work(Args) /\ Good(Block) /\ Work(<<Block>>)
    /\ Good(LastComma) /\ \A kind : Good(Whole(kind))
<1>1. Good(Name) BY Frames DEF Name
<1>2. /\ Good(Type) /\ Good(Pattern) /\ Good(Single) /\ Good(Block)
  <2>1. {"type", "pattern", "single", "block"} \cap (Control \cup Nesting \cup {"commit"}) = {}
    BY DEF Control, Nesting
  <2> QED BY <2>1, Frames DEF Type, Pattern, Single, Block
<1>3. Work(<<Type>>) /\ Work(<<Block>>) BY <1>2, Work1
<1>4. Good(OptType) BY <1>3, Nested DEF OptType
<1>5. Good(PatternSpan) /\ \A kind : Good(Whole(kind)) BY Frames DEF PatternSpan, Whole
<1>6. Good(Value) BY Frames DEF Value
<1>7. Work(<<Value>>) BY <1>6, Work1
<1>8. Work(Args) BY <1>7, DelimitedWork DEF Args
<1>9. Good(LastComma) BY WorkNone, Nested DEF LastComma
<1> QED BY <1>1, <1>2, <1>3, <1>4, <1>5, <1>6, <1>7, <1>8, <1>9

LEMMA Fails ==
    ASSUME ParseInv, NEW is, Runs(is), is \notin Control \cup Firsts, Raise
    PROVE  ParseInv'
BY Raised

LEMMA TopGood ==
    ASSUME ParseInv, NEW is, Runs(is), is \notin Control \cup {"commit"}
    PROVE  Good(Top) /\ Top.is = is
<1>1. calls # <<>> /\ Head(calls).is = is BY DEF Runs, Top
<1>2. Shape(calls) BY DEF ParseInv
<1>3. Head(calls) = calls[1] /\ (Good(calls[1]) \/ Attempt(calls[1])) BY <1>1, <1>2, OfItem
<1> QED BY <1>1, <1>3 DEF Top, Attempt

LEMMA FieldsWork ==
    ASSUME NEW value \in {"rename", "field_value"}
    PROVE  Work(Fields(value))
<1>1. PICK f : f = [is |-> "fields", value |-> value] OBVIOUS
<1>2. Closed({}) BY DEF Closed
<1>3. Plain(f, {}) BY <1>1 DEF Plain, Control
<1>4. Good(f) BY <1>2, <1>3, GoodOf
<1>5. Good(Token("}")) BY Frames
<1> QED BY <1>1, <1>4, <1>5, Work2 DEF Fields

LEMMA Ident ==
    ASSUME NEW t, IsIdent(t) \/ t \in Literals
    PROVE  t # "eof"
BY DEF IsIdent, Idents, Words, Literals

-----------------------------------------------------------------------------
(* Types and patterns                                                      *)

LEMMA StepEndGroup ==
    ASSUME ParseInv, EndGroup
    PROVE  ParseInv'
<1>1. Runs("group") /\ "group" \notin Control \cup Firsts BY DEF EndGroup, Control, Firsts
<1> QED BY <1>1, Popped DEF EndGroup

LEMMA StepType ==
    ASSUME ParseInv, ParseType
    PROVE  ParseInv'
<1>1. Runs("type") /\ "type" \notin Control \cup Firsts BY DEF ParseType, Control, Firsts
<1>2. Work(Delimited("|", <<Type>>) \o <<Token("->"), Type, Span("type", 0)>>)
  BY NamedFrames, DelimitedWork, Frames, Work3, WorkConcat
<1>3. Work(Delimited(")", <<Type>>) \o <<Group>>)
  BY NamedFrames, DelimitedWork, Frames, Work1, WorkConcat
<1>4. Work(<<Type, Token(";"), Expr(0), Token("]"), Span("type", 0)>>)
  BY NamedFrames, Frames, Work5
<1>5. Work(Delimited("]", <<Type>>) \o <<Span("type", 0)>>)
  BY NamedFrames, DelimitedWork, Frames, Work1, WorkConcat
<1>6. Work(<<Type, Span("type", 0)>>) BY NamedFrames, Frames, Work2
<1>7. Peek(1) = "[" => 2 \in 1..3 /\ Peek(2 - 1) # "eof" OBVIOUS
<1> QED BY <1>1, <1>2, <1>3, <1>4, <1>5, <1>6, <1>7, WorkNone, Ident, Read, Consumed, Fails
        DEF ParseType

LEMMA StepPattern ==
    ASSUME ParseInv, ParsePattern
    PROVE  ParseInv'
<1>1. Runs("pattern") /\ "pattern" \notin Control \cup Firsts
  BY DEF ParsePattern, Control, Firsts
<1>2. Good([is |-> "alternatives", from |-> pos]) BY Simple DEF Control, Nesting
<1>3. Work(<<Single, [is |-> "alternatives", from |-> pos]>>) BY <1>2, NamedFrames, Work2
<1> QED BY <1>1, <1>3, Called DEF ParsePattern

LEMMA StepAlternatives ==
    ASSUME ParseInv, ParseAlternatives
    PROVE  ParseInv'
<1>1. Runs("alternatives") /\ "alternatives" \notin Control \cup Firsts
  BY DEF ParseAlternatives, Control, Firsts
<1>2. Good([PatternSpan EXCEPT !.from = Top.from])
  BY Simple DEF PatternSpan, Span, Control, Nesting
<1>3. Good(More("|", <<Single>>)) BY NamedFrames, Work1, Nested
<1>4. Work(<<More("|", <<Single>>), [PatternSpan EXCEPT !.from = Top.from]>>)
  BY <1>2, <1>3, Work2
<1> QED BY <1>1, <1>4, Called, Returned DEF ParseAlternatives

LEMMA StepFields ==
    ASSUME ParseInv, ParseFields
    PROVE  ParseInv'
<1>1. Runs("fields") /\ "fields" \notin Control \cup Firsts \cup {"commit"}
  BY DEF ParseFields, Control, Firsts
<1>2. Good(Top) /\ Top.is = "fields" BY <1>1, TopGood
<1>3. Good(Opt(":", <<Parse(Top.value)>>))
  <2>1. Top.value \in {"rename", "field_value"} BY <1>2, PartsOf
  <2>2. Top.value \notin Control \cup Nesting \cup {"commit"} BY <2>1 DEF Control, Nesting
  <2>3. Good(Parse(Top.value)) BY <2>2, Frames
  <2> QED BY <2>3, Work1, Nested
<1>4. Good(Comma(Top)) BY <1>2, Work1, Nested DEF Comma
<1>5. Work(<<Name, Opt(":", <<Parse(Top.value)>>), Comma(Top)>>)
  BY <1>3, <1>4, NamedFrames, Work3
<1>6. Work(<<LastComma>>) BY NamedFrames, Work1
<1> QED BY <1>1, <1>5, <1>6, Called, Returned, Read DEF ParseFields

LEMMA StepRename ==
    ASSUME ParseInv, ParseRename
    PROVE  ParseInv'
<1>1. Runs("rename") /\ "rename" \notin Control \cup Firsts BY DEF ParseRename, Control, Firsts
<1> QED BY <1>1, WorkNone, Ident, Read, Returned DEF ParseRename

LEMMA StepFieldValue ==
    ASSUME ParseInv, ParseFieldValue
    PROVE  ParseInv'
<1>1. Runs("field_value") /\ "field_value" \notin Control \cup Firsts
  BY DEF ParseFieldValue, Control, Firsts
<1>2. Work(<<Single>>) BY NamedFrames, Work1
<1> QED BY <1>1, <1>2, WorkNone, Ident, Read, Called DEF ParseFieldValue

LEMMA StepLiteralPattern ==
    ASSUME ParseInv, ParseLiteralPattern
    PROVE  ParseInv'
<1>1. Runs("single") /\ "single" \notin Control \cup Firsts
  BY DEF ParseLiteralPattern, Control, Firsts
<1>2. Good([is |-> "range", from |-> pos]) BY Simple DEF Control, Nesting
<1>3. Work(<<[is |-> "range", from |-> pos]>>) BY <1>2, Work1
<1> QED BY <1>1, <1>3, WorkNone, Ident, Read DEF ParseLiteralPattern

LEMMA StepRange ==
    ASSUME ParseInv, ParseRange
    PROVE  ParseInv'
<1>1. Runs("range") /\ "range" \notin Control \cup Firsts BY DEF ParseRange, Control, Firsts
<1>2. Good([PatternSpan EXCEPT !.from = Top.from])
  BY Simple DEF PatternSpan, Span, Control, Nesting
<1>3. Good(Parse("primary")) BY Frames DEF Control, Nesting
<1>4. Work(<<Parse("primary"), [PatternSpan EXCEPT !.from = Top.from]>>) BY <1>2, <1>3, Work2
<1> QED BY <1>1, <1>4, Read, Returned DEF ParseRange

LEMMA StepSingle ==
    ASSUME ParseInv, ParseSingle
    PROVE  ParseInv'
<1>1. Runs("single") /\ "single" \notin Control \cup Firsts BY DEF ParseSingle, Control, Firsts
<1>2. Work(Delimited(")", <<Pattern>>) \o <<PatternSpan>>)
  BY NamedFrames, DelimitedWork, Work1, WorkConcat
<1>3. Work(Fields("rename") \o <<PatternSpan>>)
  BY NamedFrames, FieldsWork, Work1, WorkConcat
<1>4. Work(<<Token("("), Pattern, Token(")"), PatternSpan>>) BY NamedFrames, Frames, Work4
<1>5. Work(<<More(".", <<Name>>), Parse("variant"), PatternSpan>>)
  <2>1. Good(Parse("variant")) BY Frames DEF Control, Nesting
  <2>2. Good(More(".", <<Name>>)) BY NamedFrames, Work1, Nested
  <2> QED BY <2>1, <2>2, NamedFrames, Work3
<1>6. Peek(1) = "(" => 2 \in 1..3 /\ Peek(2 - 1) # "eof" OBVIOUS
<1> QED BY <1>1, <1>2, <1>3, <1>4, <1>5, <1>6, WorkNone, Ident, Read, Consumed, Fails
        DEF ParseSingle

LEMMA StepVariant ==
    ASSUME ParseInv, ParseVariant
    PROVE  ParseInv'
<1>1. Runs("variant") /\ "variant" \notin Control \cup Firsts
  BY DEF ParseVariant, Control, Firsts
<1>2. Work(Fields("field_value")) BY FieldsWork
<1>3. Work(Delimited(")", <<Pattern>>)) BY NamedFrames, DelimitedWork, Work1
<1> QED BY <1>1, <1>2, <1>3, Read, Returned DEF ParseVariant

-----------------------------------------------------------------------------
(* Expressions                                                             *)

LEMMA StepExprBp ==
    ASSUME ParseInv, ParseExprBp
    PROVE  ParseInv'
<1>1. Runs("expr") /\ "expr" \notin Control \cup Firsts BY DEF ParseExprBp, Control, Firsts
<1>2. Good(Parse("unary")) BY Frames DEF Control, Nesting
<1>3. Work(<<Parse("unary"), Infix(Top.min)>>) BY <1>2, Frames, Work2
<1> QED BY <1>1, <1>3, Called DEF ParseExprBp

LEMMA StepJoinOperands ==
    ASSUME ParseInv, JoinOperands
    PROVE  ParseInv'
<1>1. Runs("join") /\ "join" \notin Control \cup Firsts BY DEF JoinOperands, Control, Firsts
<1> QED BY <1>1, Popped DEF JoinOperands

LEMMA StepInfix ==
    ASSUME ParseInv, ParseInfix
    PROVE  ParseInv'
<1>1. Runs("infix") /\ "infix" \notin Control \cup Firsts \cup {"commit"}
  BY DEF ParseInfix, Control, Firsts
<1>2. Good(Top) BY <1>1, TopGood
<1>3. Work(<<Value, Join("assign"), Top>>) BY <1>2, NamedFrames, Frames, Work3
<1>4. Work(<<Type, Join("cast"), Top>>) BY <1>2, NamedFrames, Frames, Work3
<1>5. \A bp : Work(<<Expr(bp), Join("binary"), Top>>) BY <1>2, Frames, Work3
<1>6. Tok \in AssignOps \cup BinOps \cup {"as", "is"} => Tok # "eof" BY DEF AssignOps, BinOps
<1> QED BY <1>1, <1>3, <1>4, <1>5, <1>6, Read DEF ParseInfix

LEMMA StepEndInfix ==
    ASSUME ParseInv, EndInfix
    PROVE  ParseInv'
<1>1. Runs("infix") /\ "infix" \notin Control \cup Firsts BY DEF EndInfix, Control, Firsts
<1> QED BY <1>1, Returned DEF EndInfix

LEMMA StepPostfix ==
    ASSUME ParseInv, ParsePostfix
    PROVE  ParseInv'
<1>1. Runs("infix") /\ "infix" \notin Control \cup Firsts \cup {"commit"}
  BY DEF ParsePostfix, Control, Firsts
<1>2. Good(Top) BY <1>1, TopGood
<1>3. \A at : Work(<<SpanFromLeft("postfix", at), Top>>) BY <1>2, Frames, Work2
<1>4. \A at : Work(Args \o <<SpanFromLeft("postfix", at), Top>>)
  BY <1>3, NamedFrames, WorkConcat
<1>5. Work(<<Value, Token("]"), SpanFromLeft("postfix", pos), Top>>)
  BY <1>2, NamedFrames, Frames, Work4
<1>6. Peek(1) = "await" \/ IsIdent(Peek(1)) => 2 \in 1..3 /\ Peek(2 - 1) # "eof" BY Ident
<1>7. Peek(2) = "(" => 3 \in 1..3 /\ Peek(3 - 1) # "eof" OBVIOUS
<1> QED BY <1>1, <1>3, <1>4, <1>5, <1>6, <1>7, Read, Consumed, Fails DEF ParsePostfix

LEMMA StepUnary ==
    ASSUME ParseInv, ParseUnary
    PROVE  ParseInv'
<1>1. Runs("unary") /\ "unary" \notin Control \cup Firsts BY DEF ParseUnary, Control, Firsts
<1>2. Good(Parse("primary")) BY Frames DEF Control, Nesting
<1>3. Work(<<Parse("primary")>>) BY <1>2, Work1
<1>4. Work(<<Expr(PrefixPower), Span("unary", pos)>>) BY Frames, Work2
<1>5. Tok \in Prefix => Tok # "eof" BY DEF Prefix
<1> QED BY <1>1, <1>3, <1>4, <1>5, Read, Called DEF ParseUnary

LEMMA StepAtom ==
    ASSUME ParseInv, ParseAtom
    PROVE  ParseInv'
<1>1. Runs("primary") /\ "primary" \notin Control \cup Firsts BY DEF ParseAtom, Control, Firsts
<1>2. Tok \in Atoms => Tok # "eof" BY DEF Atoms, Literals
<1> QED BY <1>1, <1>2, WorkNone, Read, Fails DEF ParseAtom

LEMMA StepParens ==
    ASSUME ParseInv, ParseParens
    PROVE  ParseInv'
<1>1. Runs("primary") /\ "primary" \notin Control \cup Firsts
  BY DEF ParseParens, Control, Firsts
<1>2. Good([is |-> "parens", from |-> pos]) BY Simple DEF Control, Nesting
<1>3. Work(<<Value, [is |-> "parens", from |-> pos]>>) BY <1>2, NamedFrames, Work2
<1>4. Peek(1) = ")" => 2 \in 1..3 /\ Peek(2 - 1) # "eof" OBVIOUS
<1> QED BY <1>1, <1>3, <1>4, WorkNone, Read, Consumed DEF ParseParens

LEMMA StepEndParens ==
    ASSUME ParseInv, EndParens
    PROVE  ParseInv'
<1>1. Runs("parens") /\ "parens" \notin Control \cup Firsts BY DEF EndParens, Control, Firsts
<1>2. Good([Whole("parens") EXCEPT !.from = Top.from])
  BY Simple DEF Whole, Span, Control, Nesting
<1>3. Work(Args \o <<[Whole("parens") EXCEPT !.from = Top.from]>>)
  BY <1>2, NamedFrames, Work1, WorkConcat
<1>4. Work(<<Token(")"), [Whole("parens") EXCEPT !.from = Top.from]>>)
  BY <1>2, Frames, Work2
<1> QED BY <1>1, <1>3, <1>4, Read, Called DEF EndParens

LEMMA StepArray ==
    ASSUME ParseInv, ParseArray
    PROVE  ParseInv'
<1>1. Runs("primary") /\ "primary" \notin Control \cup Firsts BY DEF ParseArray, Control, Firsts
<1>2. Work(Delimited("]", <<Value>>) \o <<Whole("array")>>)
  BY NamedFrames, DelimitedWork, Work1, WorkConcat
<1> QED BY <1>1, <1>2, Read DEF ParseArray

LEMMA StepIdent ==
    ASSUME ParseInv, ParseIdent
    PROVE  ParseInv'
<1>1. Runs("primary") /\ "primary" \notin Control \cup Firsts BY DEF ParseIdent, Control, Firsts
<1>2. Work(Delimited("]", Entries(Tok)) \o <<Whole("array")>>)
  <2>1. Work(<<Value, Token(":"), Value>>) BY NamedFrames, Frames, Work3
  <2>2. Work(Entries(Tok)) BY <2>1, NamedFrames DEF Entries
  <2> QED BY <2>2, NamedFrames, DelimitedWork, Work1, WorkConcat
<1>3. Work(<<Token("{"), Parse("field_inits"), Token("}"), Whole("struct_literal")>>)
  <2>1. Good(Parse("field_inits")) BY Frames DEF Control, Nesting
  <2> QED BY <2>1, NamedFrames, Frames, Work4
<1>4. Peek(1) = "[" => 2 \in 1..3 /\ Peek(2 - 1) # "eof" OBVIOUS
<1> QED BY <1>1, <1>2, <1>3, <1>4, WorkNone, Ident, Read, Consumed DEF ParseIdent

LEMMA StepFieldInits ==
    ASSUME ParseInv, ParseFieldInits
    PROVE  ParseInv'
<1>1. Runs("field_inits") /\ "field_inits" \notin Control \cup Firsts \cup {"commit"}
  BY DEF ParseFieldInits, Control, Firsts
<1>2. Good(Comma(Top)) BY <1>1, TopGood, Work1, Nested DEF Comma
<1>3. Work(<<Value, LastComma>>) BY NamedFrames, Work2
<1>4. Work(<<Name, Token(":"), Value, Comma(Top)>>) BY <1>2, NamedFrames, Frames, Work4
<1> QED BY <1>1, <1>3, <1>4, Read, Called, Returned DEF ParseFieldInits

LEMMA StepBlock ==
    ASSUME ParseInv, ParseBlock
    PROVE  ParseInv'
<1>1. {"block", "primary"} \cap (Control \cup Firsts) = {} BY DEF Control, Firsts
<1>2. Good(Until("}", <<Parse("stmt")>>))
  <2>1. Good(Parse("stmt")) BY Frames DEF Control, Nesting
  <2> QED BY <2>1, Work1, Nested
<1>3. Work(<<Token("{"), Until("}", <<Parse("stmt")>>), Token("}"), Whole("block")>>)
  BY <1>2, NamedFrames, Frames, Work4
<1> QED BY <1>1, <1>3, Called DEF ParseBlock

LEMMA StepJump ==
    ASSUME ParseInv, ParseJump
    PROVE  ParseInv'
<1>1. Runs("primary") /\ "primary" \notin Control \cup Firsts BY DEF ParseJump, Control, Firsts
<1>2. Good(Parse("ret_value")) /\ Good(Parse("break_value")) BY Frames DEF Control, Nesting
<1>3. Work(<<Parse("ret_value"), Whole("jump")>>) BY <1>2, NamedFrames, Work2
<1>4. Work(<<Parse("break_value"), Whole("jump")>>) BY <1>2, NamedFrames, Work2
<1>5. Peek(1) = "label" => 2 \in 1..3 /\ Peek(2 - 1) # "eof" OBVIOUS
<1>6. CASE Peek(1) = "label"
  BY <1>1, <1>3, <1>4, <1>5, <1>6, WorkNone, Read, Consumed DEF ParseJump
<1>7. CASE Peek(1) # "label"
  BY <1>1, <1>3, <1>4, <1>7, WorkNone, Read DEF ParseJump
<1> QED BY <1>6, <1>7

LEMMA StepValue ==
    ASSUME ParseInv, ParseValue
    PROVE  ParseInv'
<1>1. {"ret_value", "break_value"} \cap (Control \cup Firsts) = {} BY DEF Control, Firsts
<1>2. Work(<<Value>>) BY NamedFrames
<1>3. Return \/ Then(<<Value>>) BY DEF ParseValue
<1>4. Runs("ret_value") \/ Runs("break_value") BY DEF ParseValue
<1> QED BY <1>1, <1>2, <1>3, <1>4, Called, Returned

LEMMA StepUnsafe ==
    ASSUME ParseInv, ParseUnsafe
    PROVE  ParseInv'
<1>1. Runs("primary") /\ "primary" \notin Control \cup Firsts
  BY DEF ParseUnsafe, Control, Firsts
<1>2. Work(<<Block, Whole("unsafe")>>) BY NamedFrames, Work2
<1> QED BY <1>1, <1>2, Read DEF ParseUnsafe

LEMMA StepLabel ==
    ASSUME ParseInv, ParseLabel
    PROVE  ParseInv'
<1>1. {"primary", "labelled"} \cap (Control \cup Firsts) = {} BY DEF Control, Firsts
<1>2. Good(Parse("labelled")) /\ Good(Parse("primary")) BY Frames DEF Control, Nesting
<1>3. Work(<<Token(":"), Parse("labelled")>>) BY <1>2, Frames, Work2
<1>4. Work(<<Parse("primary")>>) BY <1>2, Work1
<1> QED BY <1>1, <1>3, <1>4, Read, Called, Fails DEF ParseLabel

LEMMA StepIf ==
    ASSUME ParseInv, ParseIf
    PROVE  ParseInv'
<1> DEFINE rest == <<Block, Else(Parse("else")), Whole("if")>>
<1>1. Runs("primary") /\ "primary" \notin Control \cup Firsts BY DEF ParseIf, Control, Firsts
<1>2. Work(rest)
  <2>1. Good(Parse("else")) BY Frames DEF Control, Nesting
  <2>2. Good(Else(Parse("else"))) BY <2>1, Work1, Nested DEF Else
  <2> QED BY <2>2, NamedFrames, Work3
<1>3. Work(<<Pattern, Token("="), Value>> \o rest)
  BY <1>2, NamedFrames, Frames, Work3, WorkConcat
<1>4. Work(<<Value>> \o rest) BY <1>2, NamedFrames, WorkConcat
<1>5. Peek(1) = "let" => 2 \in 1..3 /\ Peek(2 - 1) # "eof" OBVIOUS
<1> QED BY <1>1, <1>3, <1>4, <1>5, Read, Consumed DEF ParseIf

LEMMA StepElse ==
    ASSUME ParseInv, ParseElse
    PROVE  ParseInv'
<1>1. Runs("else") /\ "else" \notin Control \cup Firsts BY DEF ParseElse, Control, Firsts
<1>2. Good(Parse("primary")) BY Frames DEF Control, Nesting
<1>3. Work(<<Parse("primary")>>) BY <1>2, Work1
<1> QED BY <1>1, <1>3, NamedFrames, Called DEF ParseElse

LEMMA StepMatch ==
    ASSUME ParseInv, ParseMatch
    PROVE  ParseInv'
<1> DEFINE arm == <<Pattern, Opt("if", <<Value>>), Token("->"), Value>>
<1>1. Runs("primary") /\ "primary" \notin Control \cup Firsts
  BY DEF ParseMatch, Control, Firsts
<1>2. Work(arm)
  <2>1. Good(Opt("if", <<Value>>)) BY NamedFrames, Nested
  <2> QED BY <2>1, NamedFrames, Frames, Work4
<1> HIDE DEF arm
<1>3. Work(Delimited("}", arm)) BY <1>2, DelimitedWork
<1>4. Work(<<Value, Token("{")>> \o Delimited("}", arm)) BY <1>3, NamedFrames, Frames, Work2, WorkConcat
<1>5. Work(<<Whole("match")>>) BY NamedFrames, Work1
<1>6. Work((<<Value, Token("{")>> \o Delimited("}", arm)) \o <<Whole("match")>>) BY <1>4, <1>5, WorkConcat
<1> QED BY <1>1, <1>6, Read DEF ParseMatch, arm

LEMMA StepLoop ==
    ASSUME ParseInv, ParseLoop
    PROVE  ParseInv'
<1> DEFINE rest == <<Value, Block, Else(Block)>>
           attempt == [Commit("in", rest, rest) EXCEPT !.pos = pos + 1]
           then == <<Pattern, attempt, Whole("loop")>>
<1>1. Runs("primary") /\ "primary" \notin Control \cup Firsts BY DEF ParseLoop, Control, Firsts
<1>2. Good(Else(Block)) BY NamedFrames, Nested DEF Else
<1>3. Work(<<Pattern, Token("="), Value, Block, Whole("loop")>>) BY NamedFrames, Frames, Work5
<1>4. Work(<<Block, Else(Block), Whole("loop")>>) BY <1>2, NamedFrames, Work3
<1>5. Peek(1) = "let" => 2 \in 1..3 /\ Peek(2 - 1) # "eof" OBVIOUS
<1>6. ASSUME Tok = "loop", Take(1, then) PROVE ParseInv'
  <2>1. Work(rest) BY <1>2, NamedFrames, Work3
  <2>2. pos' = pos + 1
    <3>1. Cursor /\ Lexed BY <1>1 DEF ParseInv, Runs
    <3>2. 0 \in 0..2 /\ Peek(0) # "eof" BY <1>6 DEF Tok
    <3>3. Advanced(0 + 1) = pos + 0 + 1 BY <3>1, <3>2, Behind
    <3>4. pos \in Nat BY <3>1 DEF Cursor
    <3> QED BY <1>6, <3>3, <3>4 DEF Take
  <2> HIDE DEF rest
  <2>3. /\ attempt.is = "commit" /\ attempt.token = "in" /\ attempt.then = rest
        /\ attempt.otherwise = rest /\ attempt.pos = pos + 1
    BY DEF Commit
  <2>4. Attempt(attempt) BY <2>1, <2>3 DEF Attempt
  <2> HIDE DEF attempt
  <2>5. Good(Pattern) /\ Good(Whole("loop")) BY NamedFrames
  <2>6. /\ then \in Seq({Pattern, attempt, Whole("loop")}) /\ Len(then) = 3
        /\ then[1] = Pattern /\ then[2] = attempt /\ then[3] = Whole("loop")
    OBVIOUS
  <2> HIDE DEF then
  <2>7. \A i \in 1..Len(then) : i = 1 \/ i = 2 \/ i = 3 BY <2>6
  <2>8. IsSequence(then) BY <2>6 DEF IsSequence
  <2>9. \A i \in 1..Len(then) :
          Good(then[i]) \/ (Attempt(then[i]) /\ then[i].pos = pos')
    BY <2>2, <2>3, <2>4, <2>5, <2>6, <2>7
  <2>10. Moves(1, then) BY <1>6 DEF Moves, Take
  <2>11. 1 \in 0..3 /\ 1 # 0 /\ Peek(1 - 1) # "eof" BY <1>6 DEF Tok
  <2> QED BY <1>1, <2>8, <2>9, <2>10, <2>11, Pushed
<1> QED BY <1>1, <1>3, <1>4, <1>5, <1>6, Read, Consumed DEF ParseLoop

LEMMA StepClosure ==
    ASSUME ParseInv, ParseClosure
    PROVE  ParseInv'
<1>1. Runs("primary") /\ "primary" \notin Control \cup Firsts
  BY DEF ParseClosure, Control, Firsts
<1>2. Good(Parse("closure_body")) BY Frames DEF Control, Nesting
<1>3. Work(Delimited("|", <<Name, OptType>>)) BY NamedFrames, Work2, DelimitedWork
<1>4. Work(<<Parse("closure_body"), Whole("closure")>>) BY <1>2, NamedFrames, Work2
<1> QED BY <1>1, <1>3, <1>4, WorkConcat, Read DEF ParseClosure

LEMMA StepClosureBody ==
    ASSUME ParseInv, ParseClosureBody
    PROVE  ParseInv'
<1>1. Runs("closure_body") /\ "closure_body" \notin Control \cup Firsts
  BY DEF ParseClosureBody, Control, Firsts
<1> QED BY <1>1, NamedFrames, Called DEF ParseClosureBody

LEMMA StepFork ==
    ASSUME ParseInv, ParseFork
    PROVE  ParseInv'
<1>1. Runs("primary") /\ "primary" \notin Control \cup Firsts BY DEF ParseFork, Control, Firsts
<1>2. Work(<<Pattern, Token("in"), Value, Block, Whole("fork")>>) BY NamedFrames, Frames, Work5
<1>3. Work(Delimited("}", <<Parse("task")>>))
  <2>1. Good(Parse("task")) BY Frames DEF Control, Nesting
  <2> QED BY <2>1, Work1, DelimitedWork
<1>4. Work(<<Token("{")>>) /\ Work(<<Whole("fork")>>) BY NamedFrames, Frames, Work1
<1>5. Work(<<Token("{")>> \o Delimited("}", <<Parse("task")>>) \o <<Whole("fork")>>)
  BY <1>3, <1>4, WorkConcat
<1>6. Peek(1) = "loop" => 2 \in 1..3 /\ Peek(2 - 1) # "eof" OBVIOUS
<1> QED BY <1>1, <1>2, <1>5, <1>6, Read, Consumed DEF ParseFork

LEMMA StepTask ==
    ASSUME ParseInv, ParseTask
    PROVE  ParseInv'
<1>1. Runs("task") /\ "task" \notin Control \cup Firsts BY DEF ParseTask, Control, Firsts
<1>2. Peek(2) = "-" => 3 \in 1..3 /\ Peek(3 - 1) # "eof" OBVIOUS
<1> QED BY <1>1, <1>2, NamedFrames, Called, Consumed DEF ParseTask

-----------------------------------------------------------------------------
(* Statements                                                              *)

LEMMA StepDeclaration ==
    ASSUME ParseInv, ParseDeclaration
    PROVE  ParseInv'
<1>1. Runs("stmt") /\ "stmt" \notin Control \cup Firsts BY DEF ParseDeclaration, Control, Firsts
<1>2. Work(<<Name, Token(":"), Type, Token("="), Value>>) BY NamedFrames, Frames, Work5
<1>3. Work(<<Name, OptType, Token("="), Value>>) BY NamedFrames, Frames, Work4
<1> QED BY <1>1, <1>2, <1>3, Read DEF ParseDeclaration

LEMMA StepStmt ==
    ASSUME ParseInv, ParseStmt
    PROVE  ParseInv'
<1>1. Runs("stmt") /\ "stmt" \notin Control \cup Firsts BY DEF ParseStmt, Control, Firsts
<1>2. Work(IF Peek(1) \in {"eof", "}"} THEN <<>> ELSE <<Value>>) BY NamedFrames, WorkNone
<1>3. Work(<<Value, Token("else"), Block>>) BY NamedFrames, Frames, Work3
<1>4. Work(<<Parse("item")>>)
  <2>1. Good(Parse("item")) BY Frames DEF Control, Nesting
  <2> QED BY <2>1, Work1
<1> QED BY <1>1, <1>2, <1>3, <1>4, NamedFrames, Read, Called DEF ParseStmt

LEMMA StepExprOrLet ==
    ASSUME ParseInv, ParseExprOrLet
    PROVE  ParseInv'
<1> DEFINE let == [is |-> "let", keep |-> Len(nodes)]
           otherwise == <<Value, let>>
           attempt == Commit(":=", <<Value>>, otherwise)
           then == <<Pattern, attempt>>
<1>1. Runs("stmt") /\ "stmt" \notin Control \cup Firsts BY DEF ParseExprOrLet, Control, Firsts
<1>2. Work(otherwise)
  <2>1. Good(let) BY Simple DEF Control, Nesting
  <2> HIDE DEF let
  <2> QED BY <2>1, NamedFrames, Work2
<1>3. ASSUME Then(then) PROVE ParseInv'
  <2>1. pos' = pos
    <3>1. Cursor /\ Lexed BY <1>1 DEF ParseInv, Runs
    <3>2. Advanced(0) = pos BY <3>1, Here
    <3> QED BY <1>3, <3>2 DEF Then, Take
  <2> HIDE DEF otherwise
  <2>2. /\ attempt.is = "commit" /\ attempt.token = ":=" /\ attempt.then = <<Value>>
        /\ attempt.otherwise = otherwise /\ attempt.pos = pos
    BY DEF Commit
  <2>3. Attempt(attempt) BY <1>2, <2>2, NamedFrames DEF Attempt
  <2> HIDE DEF attempt
  <2>4. /\ then \in Seq({Pattern, attempt}) /\ Len(then) = 2
        /\ then[1] = Pattern /\ then[2] = attempt
    OBVIOUS
  <2> HIDE DEF then
  <2>5. \A i \in 1..Len(then) : i = 1 \/ i = 2 BY <2>4
  <2>6. IsSequence(then) BY <2>4 DEF IsSequence
  <2>7. Good(Pattern) BY NamedFrames
  <2>8. \A i \in 1..Len(then) :
          Good(then[i]) \/ (Attempt(then[i]) /\ then[i].pos = pos')
    BY <2>1, <2>2, <2>3, <2>4, <2>5, <2>7
  <2>9. Moves(0, then) BY <1>3 DEF Moves, Then, Take
  <2>10. 0 \in 0..3 OBVIOUS
  <2> QED BY <1>1, <2>6, <2>8, <2>9, <2>10, Pushed
<1> QED BY <1>1, <1>2, <1>3, Called DEF ParseExprOrLet

LEMMA StepEndExprOrLet ==
    ASSUME ParseInv, EndExprOrLet
    PROVE  ParseInv'
<1>1. Runs("let") /\ "let" \notin Control \cup Firsts BY DEF EndExprOrLet, Control, Firsts
<1>2. CASE Tok # ":=" BY <1>1, <1>2, Returned DEF EndExprOrLet
<1>3. CASE Tok = ":="
  <2>1. Moves(1, <<Value>>) BY <1>3 DEF EndExprOrLet, Moves
  <2>2. 1 \in 0..3 /\ 1 # 0 /\ Peek(1 - 1) # "eof" BY <1>3 DEF Tok
  <2>3. IsSequence(<<Value>>) /\ \A i \in 1..Len(<<Value>>) : Good(<<Value>>[i])
    BY NamedFrames DEF Work
  <2> QED BY <1>1, <2>1, <2>2, <2>3, Pushed
<1> QED BY <1>2, <1>3

-----------------------------------------------------------------------------
(* Items                                                                   *)

LEMMA ItemFrames ==
    /\ Good(Attributes) /\ Good(Visibility) /\ Good(Parse("definition")) /\ Good(Parse("fn"))
    /\ Good(Parse("return_type")) /\ Good(Parse("body")) /\ Good(Parse("param"))
    /\ Good(Parse("param_name")) /\ Good(Parse("attribute_arg")) /\ Good(Parse("use_kind"))
    /\ Good(Parse("item"))
    /\ Work(Bounds) /\ Good(Generics) /\ Good(Where) /\ Work(Methods)
    /\ Good(Payload(<<Visibility>>)) /\ Good(Payload(<<>>))
<1>1. /\ Good(Attributes) /\ Good(Visibility)
  BY Frames DEF Attributes, Visibility, Control, Nesting
<1>2. /\ Good(Parse("definition")) /\ Good(Parse("fn")) /\ Good(Parse("return_type"))
      /\ Good(Parse("body")) /\ Good(Parse("param"))
  BY Frames DEF Control, Nesting
<1>3. /\ Good(Parse("param_name")) /\ Good(Parse("attribute_arg")) /\ Good(Parse("use_kind"))
      /\ Good(Parse("item"))
  BY Frames DEF Control, Nesting
<1>4. Work(Bounds) BY NamedFrames, Nested, Work2 DEF Bounds
<1>5. Good(Generics)
  <2>1. Good(Opt(":", Bounds)) BY <1>4, Nested
  <2>2. Work(Delimited("]", <<Name, Opt(":", Bounds)>>))
    BY <2>1, NamedFrames, Work2, DelimitedWork
  <2> QED BY <2>2, Nested DEF Generics
<1>6. Good(Where)
  <2>1. Work(<<Name, Token(":")>>) BY NamedFrames, Frames, Work2
  <2>2. Work(<<Name, Token(":")>> \o Bounds) BY <2>1, <1>4, WorkConcat
  <2>3. Good(List({"{", "->"}, <<Name, Token(":")>> \o Bounds)) BY <2>2, Nested
  <2>4. Work(<<List({"{", "->"}, <<Name, Token(":")>> \o Bounds)>>) BY <2>3, Work1
  <2> QED BY <2>4, Nested DEF Where
<1>7. Work(Methods)
  <2>1. Good(Until("}", <<Attributes, Visibility, Parse("fn")>>))
    BY <1>1, <1>2, Work3, Nested
  <2> QED BY <2>1, Frames, Work3 DEF Methods
<1>8. Good(Payload(<<Visibility>>)) /\ Good(Payload(<<>>)) BY <1>1, Work1, WorkNone, Nested
<1> QED BY <1>1, <1>2, <1>3, <1>4, <1>5, <1>6, <1>7, <1>8

LEMMA CalledFirst ==
    ASSUME ParseInv, NEW is, Runs(is), is \notin Control, NEW then, Work(then), Then(then),
           Early => Early'
    PROVE  ParseInv'
<1>1. Moves(0, then) BY DEF Moves, Then, Take
<1>2. 0 \in 0..3 OBVIOUS
<1>3. IsSequence(then) /\ \A i \in 1..Len(then) : Good(then[i]) BY DEF Work
<1> QED BY <1>1, <1>2, <1>3, Pushed

\* What runs after a function that consumes nothing.
LEMMA After ==
    ASSUME ParseInv, NEW is, Runs(is), is \notin Control, NEW then, Work(then), Then(then)
    PROVE  /\ pos' = pos /\ tokens' = tokens /\ Tok = tokens[pos]
           /\ Len(calls) \in Nat /\ calls[1].is = is
           /\ Len(then) \in Nat /\ Len(calls') = Len(then) + Len(calls) - 1
           /\ \A i \in 1..Len(then) : calls'[i] = then[i]
<1>1. calls # <<>> /\ Lexed /\ Head(calls).is = is BY DEF Runs, Top
<1>2. Cursor /\ Shape(calls) BY DEF ParseInv
<1>3. Advanced(0) = pos /\ Tok = tokens[pos] BY <1>1, <1>2, Here
<1>4. /\ InItem(calls) /\ Len(calls) \in Nat /\ Len(calls) >= 3
      /\ Head(calls) = calls[1] /\ Tail(calls) = SubSeq(calls, 2, Len(calls))
  BY <1>1, <1>2, OfItem
<1>5. 1 \in 1..(Len(calls) - 2) BY <1>4
<1>6. IsSequence(then) /\ \A i \in 1..Len(then) : Good(then[i]) \/ Attempt(then[i]) BY DEF Work
<1>7. /\ Len(then) \in Nat
      /\ Len(Instead(then, calls, 1)) = Len(then) + Len(calls) - 1
      /\ \A i \in 1..Len(then) : Instead(then, calls, 1)[i] = then[i]
  BY ONLY <1>2, <1>4, <1>5, <1>6, Replaced
<1>8. calls' = Instead(then, calls, 1)
  <2>1. 1 + 1 = 2 OBVIOUS
  <2> QED BY <2>1, <1>4 DEF Instead, Then, Take
<1> QED BY <1>1, <1>3, <1>4, <1>7, <1>8 DEF Then, Take

LEMMA Tails ==
    ASSUME ParseInv, NEW is, Runs(is), is \notin Control, Return
    PROVE  \A i \in 2..Len(calls) : calls'[i - 1] = calls[i]
<1>1. PICK S : calls \in Seq(S) BY DEF ParseInv, Shape, IsSequence
<1>2. calls # <<>> BY DEF Runs
<1>3. /\ Tail(calls) \in Seq(S) /\ Len(Tail(calls)) = Len(calls) - 1
      /\ \A i \in 1..Len(Tail(calls)) : Tail(calls)[i] = calls[i + 1]
  BY <1>1, <1>2, HeadTailProperties
<1>4. calls' = Tail(calls)
  <2>1. <<>> \o Tail(calls) = Tail(calls) BY <1>3, ConcatEmptySeq
  <2> QED BY <2>1 DEF Return, Then, Take
<1>5. ASSUME NEW i \in 2..Len(calls) PROVE Tail(calls)[i - 1] = calls[i]
  <2>1. Len(calls) \in Nat BY <1>1
  <2>2. i - 1 \in 1..Len(Tail(calls)) /\ (i - 1) + 1 = i BY <1>3, <2>1
  <2> QED BY <2>2, <1>3
<1> QED BY <1>4, <1>5

LEMMA StepItem ==
    ASSUME ParseInv, ParseItem
    PROVE  ParseInv'
<1> DEFINE then == <<Attributes, Visibility, Parse("definition")>>
<1>1. Runs("item") /\ "item" \notin Control /\ Then(then) BY DEF ParseItem, Control
<1>2. Work(then) BY ItemFrames, Work3
<1>3. /\ Len(then) = 3 /\ then[1].is = "attributes" /\ then[2].is = "visibility"
      /\ then[3].is = "definition"
  BY DEF Attributes, Visibility, Parse
<1> HIDE DEF then
<1>4. ASSUME Early PROVE Early'
  <2>1. /\ pos' = pos /\ tokens' = tokens /\ Tok = tokens[pos]
        /\ Len(calls) \in Nat /\ calls[1].is = "item"
        /\ Len(then) \in Nat /\ Len(calls') = Len(then) + Len(calls) - 1
        /\ \A i \in 1..Len(then) : calls'[i] = then[i]
    BY <1>1, <1>2, After
  <2>2. Len(calls) = 3
    <3>1. Token("act").is = "token" BY DEF Token
    <3> QED BY <3>1, <2>1, <1>4 DEF Early
  <2>3. Len(calls') = 5 BY <2>1, <2>2, <1>3
  <2>4. calls'[1] = then[1] /\ calls'[2] = then[2] /\ calls'[3] = then[3] BY <2>1, <1>3
  <2> QED BY <2>1, <2>3, <2>4, <1>3, <1>4 DEF Early
<1> QED BY <1>1, <1>2, <1>4, CalledFirst

LEMMA StepAttributes ==
    ASSUME ParseInv, ParseAttributes
    PROVE  ParseInv'
<1> DEFINE args == Opt("[", Delimited("]", <<Parse("attribute_arg")>>))
<1>1. Runs("attributes") /\ "attributes" \notin Control BY DEF ParseAttributes, Control
<1>2. CASE Tok = "@" /\ Take(1, <<Name, args, Attributes>>)
  <2>1. Good(args) BY ItemFrames, Work1, DelimitedWork, Nested
  <2>2. Work(<<Name, args, Attributes>>) BY <2>1, ItemFrames, NamedFrames, Work3
  <2> QED BY <1>1, <1>2, <2>2, Read
<1>3. CASE Tok # "@" /\ Return
  <2>1. ASSUME Early PROVE Early'
    <3>1. /\ pos' = pos /\ tokens' = tokens /\ Tok = tokens[pos]
          /\ Len(calls) \in Nat /\ calls[1].is = "attributes"
          /\ Len(calls') = Len(calls) - 1
      BY <1>1, <1>3, WorkNone, After DEF Return
    <3>2. Token("act").is = "token" BY DEF Token
    <3>3. Len(calls) = 5 /\ calls[2].is = "visibility" /\ calls[3].is = "definition"
      BY <3>1, <3>2, <2>1 DEF Early
    <3>4. calls'[1] = calls[2] /\ calls'[2] = calls[3] BY <1>1, <1>3, <3>1, <3>3, Tails
    <3> QED BY <1>3, <2>1, <3>1, <3>3, <3>4 DEF Early
  <2> QED BY <1>1, <1>3, <2>1, WorkNone, CalledFirst DEF Return
<1> QED BY <1>2, <1>3 DEF ParseAttributes

LEMMA StepVisibility ==
    ASSUME ParseInv, ParseVisibility
    PROVE  ParseInv'
<1>1. Runs("visibility") /\ "visibility" \notin Control BY DEF ParseVisibility, Control
<1>2. Work(<<Opt("(", <<Name, Token(")")>>)>>)
  <2>1. Work(<<Name, Token(")")>>) BY NamedFrames, Frames, Work2
  <2> QED BY <2>1, Nested, Work1
<1>3. CASE Tok # "pub" /\ Return
  <2>1. ASSUME Early PROVE Early'
    <3>1. /\ pos' = pos /\ tokens' = tokens /\ Tok = tokens[pos]
          /\ Len(calls) \in Nat /\ calls[1].is = "visibility"
          /\ Len(calls') = Len(calls) - 1
      BY <1>1, <1>3, WorkNone, After DEF Return
    <3>2. Token("act").is = "token" BY DEF Token
    <3>3. Len(calls) = 4 /\ calls[2].is = "definition" /\ tokens[pos] # "@"
      BY <3>1, <3>2, <2>1 DEF Early
    <3>4. calls'[1] = calls[2] BY <1>1, <1>3, <3>1, <3>3, Tails
    <3> QED BY <1>3, <2>1, <3>1, <3>3, <3>4 DEF Early
  <2> QED BY <1>1, <1>3, <2>1, WorkNone, CalledFirst DEF Return
<1> QED BY <1>1, <1>2, <1>3, Read DEF ParseVisibility

LEMMA StepAttributeArg ==
    ASSUME ParseInv, ParseAttributeArg
    PROVE  ParseInv'
<1>1. Runs("attribute_arg") /\ "attribute_arg" \notin Control \cup Firsts
  BY DEF ParseAttributeArg, Control, Firsts
<1>2. Good(Opt(":", <<Value>>)) BY NamedFrames, Nested
<1>3. Work(<<Name, Opt(":", <<Value>>)>>) BY <1>2, NamedFrames, Work2
<1> QED BY <1>1, <1>3, WorkNone, Read, Called DEF ParseAttributeArg

LEMMA StepFn ==
    ASSUME ParseInv, ParseFn
    PROVE  ParseInv'
<1> DEFINE first == <<Token("act"), Name, Generics, Token("(")>>
           second == Delimited(")", <<Parse("param")>>)
           third == <<Parse("return_type"), Where, Parse("body")>>
           then == first \o second \o third
<1>1. Runs("fn") /\ "fn" \notin Control /\ Then(then) BY DEF ParseFn, Control
<1>2. Work(first) BY NamedFrames, ItemFrames, Frames, Work4
<1>3. Work(second) BY ItemFrames, Work1, DelimitedWork
<1>4. Work(third) BY ItemFrames, Work3
<1>5. first[1] = Token("act") /\ Len(first) = 4 OBVIOUS
<1> HIDE DEF first, second, third
<1>6. Work(first \o second) BY <1>2, <1>3, WorkConcat
<1>7. Work(then) BY <1>4, <1>6, WorkConcat
<1>8. then[1] = Token("act") /\ 1 \in 1..Len(then)
  <2> DEFINE both == first \o second
  <2>1. /\ IsSequence(both)
        /\ Len(first) \in Nat /\ Len(second) \in Nat /\ Len(both) = Len(first) + Len(second)
        /\ \A j \in 1..Len(first) : both[j] = first[j]
        /\ \A j \in 1..Len(second) : both[j + Len(first)] = second[j]
    BY <1>2, <1>3, Concats DEF Work
  <2> HIDE DEF both
  <2>2. /\ IsSequence(both \o third)
        /\ Len(both) \in Nat /\ Len(third) \in Nat
        /\ Len(both \o third) = Len(both) + Len(third)
        /\ \A j \in 1..Len(both) : (both \o third)[j] = both[j]
        /\ \A j \in 1..Len(third) : (both \o third)[j + Len(both)] = third[j]
    <3>1. IsSequence(both) BY <2>1
    <3>2. IsSequence(third) BY <1>4 DEF Work
    <3> QED BY ONLY <3>1, <3>2, Concats
  <2>3. then = both \o third BY DEF both
  <2> QED BY <2>1, <2>2, <2>3, <1>5
<1> HIDE DEF then
<1>9. ASSUME Early PROVE Early'
  <2>1. /\ pos' = pos /\ tokens' = tokens /\ Tok = tokens[pos]
        /\ Len(calls) \in Nat /\ calls[1].is = "fn"
        /\ Len(then) \in Nat /\ Len(calls') = Len(then) + Len(calls) - 1
        /\ \A i \in 1..Len(then) : calls'[i] = then[i]
    BY <1>1, <1>7, After
  <2>2. Token("act").is = "token" BY DEF Token
  <2>3. tokens[pos] = "act" BY <2>1, <2>2, <1>9 DEF Early
  <2>4. calls'[1] = Token("act") BY <2>1, <1>8
  <2> QED BY <2>1, <2>3, <2>4, <1>9 DEF Early
<1> QED BY <1>1, <1>7, <1>9, CalledFirst

LEMMA StepReturnType ==
    ASSUME ParseInv, ParseReturnType
    PROVE  ParseInv'
<1>1. Runs("return_type") /\ "return_type" \notin Control \cup Firsts
  BY DEF ParseReturnType, Control, Firsts
<1>2. Return \/ Then(<<Type>>) BY DEF ParseReturnType
<1> QED BY <1>1, <1>2, NamedFrames, Called, Returned

LEMMA StepBody ==
    ASSUME ParseInv, ParseBody
    PROVE  ParseInv'
<1>1. Runs("body") /\ "body" \notin Control \cup Firsts BY DEF ParseBody, Control, Firsts
<1>2. Good(Until("}", <<Parse("stmt")>>))
  <2>1. Good(Parse("stmt")) BY Frames DEF Control, Nesting
  <2> QED BY <2>1, Work1, Nested
<1>3. Work(<<Until("}", <<Parse("stmt")>>), Token("}"), Whole("body")>>)
  BY <1>2, NamedFrames, Frames, Work3
<1> QED BY <1>1, <1>3, NamedFrames, Read, Returned DEF ParseBody

LEMMA StepParam ==
    ASSUME ParseInv, ParseParam
    PROVE  ParseInv'
<1>1. Runs("param") /\ "param" \notin Control \cup Firsts BY DEF ParseParam, Control, Firsts
<1>2. Work(<<Parse("param_name")>>) BY ItemFrames, Work1
<1> QED BY <1>1, <1>2, Read, Called DEF ParseParam

LEMMA StepParamName ==
    ASSUME ParseInv, ParseParamName
    PROVE  ParseInv'
<1>1. Runs("param_name") /\ "param_name" \notin Control \cup Firsts
  BY DEF ParseParamName, Control, Firsts
<1>2. Work(<<OptType>>) BY NamedFrames, Work1
<1> QED BY <1>1, <1>2, WorkNone, Ident, Read, Fails DEF ParseParamName

LEMMA StepPayload ==
    ASSUME ParseInv, ParsePayload
    PROVE  ParseInv'
<1>1. Runs("payload") /\ "payload" \notin Control \cup Firsts \cup {"commit"}
  BY DEF ParsePayload, Control, Firsts
<1>2. Work(Delimited(")", <<Type>>)) BY NamedFrames, DelimitedWork
<1>3. Work(Top.visible) BY <1>1, TopGood, PartsOf
<1>4. Work(<<Name, Token(":"), Type>>) BY NamedFrames, Frames, Work3
<1>5. Work(Top.visible \o <<Name, Token(":"), Type>>) BY <1>3, <1>4, WorkConcat
<1>6. Work(Delimited("}", Top.visible \o <<Name, Token(":"), Type>>)) BY <1>5, DelimitedWork
<1> QED BY <1>1, <1>2, <1>6, Read, Returned DEF ParsePayload

\* Before the item has consumed anything, only a token that starts none is an error.
LEMMA StepDefinition ==
    ASSUME ParseInv, ParseDefinition
    PROVE  ParseInv'
<1>1. Runs("definition") /\ "definition" \notin Control
  BY DEF ParseDefinition, Definition, Control
<1>2. Work(<<Parse("fn")>>) BY ItemFrames, Work1
<1>3. Work(<<Name, Token(":"), Type, Token("="), Value>>) BY NamedFrames, Frames, Work5
<1>4. Work(<<Name, OptType, Token("="), Value>>) BY NamedFrames, Frames, Work4
<1>5. /\ Tok = tokens[pos] /\ Len(calls) \in Nat /\ calls[1].is = "definition"
  <2>1. calls # <<>> /\ Lexed /\ Head(calls).is = "definition" BY <1>1 DEF Runs, Top
  <2>2. Cursor /\ Shape(calls) BY DEF ParseInv
  <2>3. Tok = tokens[pos] BY <2>1, <2>2, Here
  <2>4. Len(calls) \in Nat /\ Head(calls) = calls[1] BY <1>1, <2>1, <2>2, OfItem
  <2> QED BY <2>1, <2>3, <2>4
<1>6. Early => Len(calls) = 3 /\ tokens[pos] \notin {"@", "pub", "eof"}
  <2>1. Token("act").is = "token" BY DEF Token
  <2> QED BY <2>1, <1>5 DEF Early
<1>7. CASE Tok = "act" /\ Then(<<Parse("fn")>>)
  <2>1. ASSUME Early PROVE Early'
    <3>1. PICK then : then = <<Parse("fn")>> OBVIOUS
    <3>2. /\ pos' = pos /\ tokens' = tokens /\ Tok = tokens[pos]
          /\ Len(calls) \in Nat /\ calls[1].is = "definition"
          /\ Len(then) \in Nat /\ Len(calls') = Len(then) + Len(calls) - 1
          /\ \A i \in 1..Len(then) : calls'[i] = then[i]
      BY <1>1, <1>2, <1>7, <3>1, After
    <3>3. Len(then) = 1 /\ then[1].is = "fn" BY <3>1 DEF Parse
    <3>4. Len(calls) = 3 BY <1>6, <2>1
    <3>5. Len(calls') = 3 BY <3>2, <3>3, <3>4
    <3>6. 1 \in 1..Len(then) BY <3>3
    <3>7. calls'[1].is = "fn" BY <3>2, <3>3, <3>6
    <3> QED BY <3>2, <3>5, <3>7, <1>7, <2>1 DEF Early
  <2> QED BY <1>1, <1>2, <1>7, <2>1, CalledFirst
<1>8. CASE Tok \notin (ItemStarts \ {"@", "pub"}) \cup {"const", "shared"} /\ Raise
  <2>1. Early => tokens[pos] \notin Recovered BY <1>5, <1>6, <1>8 DEF Recovered, ItemStarts
  <2> QED BY <1>1, <1>8, <2>1, Raised
<1> QED BY <1>1, <1>2, <1>3, <1>4, <1>7, <1>8, Read DEF ParseDefinition, Definition

LEMMA StepStructDef ==
    ASSUME ParseInv, ParseStructDef
    PROVE  ParseInv'
<1>1. Runs("definition") /\ "definition" \notin Control
  BY DEF ParseStructDef, Definition, Control
<1>2. Work(<<Name, Generics, Where, Payload(<<Visibility>>)>>) BY NamedFrames, ItemFrames, Work4
<1> QED BY <1>1, <1>2, Read DEF ParseStructDef, Definition

LEMMA StepEnumDef ==
    ASSUME ParseInv, ParseEnumDef
    PROVE  ParseInv'
<1>1. Runs("definition") /\ "definition" \notin Control BY DEF ParseEnumDef, Definition, Control
<1>2. Work(<<Name, Generics, Where, Token("{")>>) BY NamedFrames, ItemFrames, Frames, Work4
<1>3. Work(Delimited("}", <<Attributes, Name, Payload(<<>>)>>))
  BY NamedFrames, ItemFrames, Work3, DelimitedWork
<1> QED BY <1>1, <1>2, <1>3, WorkConcat, Read DEF ParseEnumDef, Definition

LEMMA StepTraitDef ==
    ASSUME ParseInv, ParseTraitDef
    PROVE  ParseInv'
<1>1. Runs("definition") /\ "definition" \notin Control
  BY DEF ParseTraitDef, Definition, Control
<1>2. Good(Opt(":", Bounds)) BY ItemFrames, Nested
<1>3. Work(<<Name, Generics, Opt(":", Bounds), Where>>) BY <1>2, NamedFrames, ItemFrames, Work4
<1>4. Work(<<Name, Generics, Opt(":", Bounds), Where>> \o Methods)
  BY <1>3, ItemFrames, WorkConcat
<1> QED BY <1>1, <1>4, Read DEF ParseTraitDef, Definition

LEMMA StepImplBlock ==
    ASSUME ParseInv, ParseImplBlock
    PROVE  ParseInv'
<1>1. Runs("definition") /\ "definition" \notin Control
  BY DEF ParseImplBlock, Definition, Control
<1>2. Good(Opt("for", <<Type>>)) BY NamedFrames, Nested
<1>3. Work(<<Generics, Type, Opt("for", <<Type>>), Where>>)
  BY <1>2, NamedFrames, ItemFrames, Work4
<1>4. Work(<<Generics, Type, Opt("for", <<Type>>), Where>> \o Methods)
  BY <1>3, ItemFrames, WorkConcat
<1> QED BY <1>1, <1>4, Read DEF ParseImplBlock, Definition

LEMMA StepTypeAlias ==
    ASSUME ParseInv, ParseTypeAlias
    PROVE  ParseInv'
<1>1. Runs("definition") /\ "definition" \notin Control
  BY DEF ParseTypeAlias, Definition, Control
<1>2. Work(<<Name, Generics, Token("="), Type>>) BY NamedFrames, ItemFrames, Frames, Work4
<1> QED BY <1>1, <1>2, Read DEF ParseTypeAlias, Definition

LEMMA StepUseDecl ==
    ASSUME ParseInv, ParseUseDecl
    PROVE  ParseInv'
<1>1. Runs("definition") /\ "definition" \notin Control
  BY DEF ParseUseDecl, Definition, Control
<1>2. Good(Opt("~", <<Token(".")>>)) BY Frames, Work1, Nested
<1>3. Good(More(".", <<Name>>)) BY NamedFrames, Work1, Nested
<1>4. Work(<<Opt("~", <<Token(".")>>), Name, More(".", <<Name>>), Parse("use_kind")>>)
  BY <1>2, <1>3, NamedFrames, ItemFrames, Work4
<1> QED BY <1>1, <1>4, Read DEF ParseUseDecl, Definition

LEMMA StepUseKind ==
    ASSUME ParseInv, ParseUseKind
    PROVE  ParseInv'
<1>1. Runs("use_kind") /\ "use_kind" \notin Control \cup Firsts
  BY DEF ParseUseKind, Control, Firsts
<1>2. Good(Opt("as", <<Name>>)) BY NamedFrames, Work1, Nested
<1>3. Work(Delimited("}", <<Name, Opt("as", <<Name>>)>>))
  BY <1>2, NamedFrames, Work2, DelimitedWork
<1>4. Work(<<Name>>) BY NamedFrames, Work1
<1> QED BY <1>1, <1>3, <1>4, Read, Returned DEF ParseUseKind

-----------------------------------------------------------------------------
(* The steps every function is made of                                     *)

LEMMA Appended ==
    ASSUME NEW s, IsSequence(s), NEW e
    PROVE  IsSequence(<<e>>) /\ Append(s, e) = s \o <<e>>
<1>1. PICK S : s \in Seq(S) BY DEF IsSequence
<1>2. PICK T : T = S \cup {e} OBVIOUS
<1>3. s \in Seq(T) /\ e \in T BY <1>1, <1>2
<1>4. <<e>> \in Seq(T) BY <1>3
<1> QED BY <1>3, <1>4 DEF IsSequence

LEMMA StepScan ==
    ASSUME InputsAssumption, ParseInv, Scan
    PROVE  ParseInv'
<1>1. Cursor /\ Shape(calls) /\ Counted BY DEF ParseInv
<1>2. UNCHANGED <<pos, calls, items, errors>> BY DEF Scan
<1>3. PICK more : IsSequence(more) /\ tokens' = tokens \o more
  <2>1. CASE slots # <<>> /\ \E string \in Strings[Head(slots)] : tokens' = tokens \o string
    <3>1. Head(slots) \in DOMAIN Strings BY <2>1, <1>1, HeadTailProperties DEF Cursor
    <3>2. Strings[Head(slots)] \subseteq Seq(STRING) BY <3>1 DEF InputsAssumption
    <3> QED BY <2>1, <3>2 DEF IsSequence
  <2>2. CASE tokens' = Append(tokens, "eof")
    <3>1. IsSequence(tokens) BY <1>1 DEF Cursor
    <3> QED BY <2>2, <3>1, Appended
  <2> QED BY <2>1, <2>2 DEF Scan
<1>4. slots' \in Seq(DOMAIN Strings)
  <2>1. CASE slots # <<>> /\ slots' = Tail(slots)
    BY <2>1, <1>1, HeadTailProperties DEF Cursor
  <2>2. CASE slots' = slots BY <2>2, <1>1 DEF Cursor
  <2> QED BY <2>1, <2>2 DEF Scan
<1>5. /\ IsSequence(tokens') /\ Len(tokens) \in Nat /\ Len(tokens') \in Nat
      /\ Len(tokens) <= Len(tokens')
      /\ \A i \in 1..Len(tokens) : tokens'[i] = tokens[i]
      /\ tokens # <<>> => tokens' # <<>>
  <2>1. IsSequence(tokens) BY <1>1 DEF Cursor
  <2>2. IsSequence(more) BY <1>3
  <2>3. /\ IsSequence(tokens \o more)
        /\ Len(tokens) \in Nat /\ Len(more) \in Nat
        /\ Len(tokens \o more) = Len(tokens) + Len(more)
        /\ \A i \in 1..Len(tokens) : (tokens \o more)[i] = tokens[i]
    BY ONLY <2>1, <2>2, Concats
  <2>4. tokens # <<>> => Len(tokens) # 0 BY <2>1, EmptySeq DEF IsSequence
  <2>5. Len(tokens) # 0 => tokens \o more # <<>> BY <2>3
  <2> QED BY <2>3, <2>4, <2>5, <1>3
<1>6. Cursor'
  <2>1. pos \in Nat \ {0} BY <1>1 DEF Cursor
  <2>2. tokens = <<>> => pos = 1 BY <1>1 DEF Cursor
  <2>3. tokens # <<>> => pos <= Len(tokens) BY <1>1 DEF Cursor
  <2>4. tokens' # <<>> => Len(tokens') >= 1 BY <1>5, EmptySeq DEF IsSequence
  <2>5. tokens' = <<>> => pos = 1 BY <2>2, <1>5
  <2>6. tokens' # <<>> => pos <= Len(tokens') BY <2>1, <2>2, <2>3, <2>4, <1>5
  <2> QED BY <2>1, <2>5, <2>6, <1>2, <1>4, <1>5 DEF Cursor
<1>7. tokens # <<>> => tokens' # <<>> /\ tokens'[pos] = tokens[pos]
  <2>1. pos \in Nat \ {0} BY <1>1 DEF Cursor
  <2>2. tokens # <<>> => pos <= Len(tokens) BY <1>1 DEF Cursor
  <2> QED BY <2>1, <2>2, <1>5
<1>8. Early => Early' BY <1>2, <1>7 DEF Early
<1>9. InItemOK'
  <2>1. Since(calls') = Since(calls) BY <1>2
  <2>2. ASSUME InItem(calls)
        PROVE  /\ Since(calls) \in 1..pos /\ items + errors < Since(calls)
               /\ pos > Since(calls) \/ Early
               /\ \A i \in 1..Len(calls) :
                     calls[i].is = "commit" => calls[i].pos \in (Since(calls) + 1)..Len(tokens')
    <3>1. /\ Since(calls) \in 1..pos /\ items + errors < Since(calls)
          /\ pos > Since(calls) \/ Early
          /\ \A i \in 1..Len(calls) :
                calls[i].is = "commit" => calls[i].pos \in (Since(calls) + 1)..Len(tokens)
      BY <2>2, <1>1 DEF Counted, InItemOK
    <3>2. pos \in Nat BY <1>1 DEF Cursor
    <3> QED BY <3>1, <3>2, <1>5
  <2> QED BY <2>2, <1>2, <1>8 DEF InItemOK
<1>10. RecoverOK' BY <1>1, <1>2, <1>7 DEF Counted, RecoverOK
<1>11. Counted' BY <1>1, <1>2, <1>9, <1>10 DEF Counted
<1>12. Shape(calls') BY <1>1, <1>2
<1> QED BY <1>6, <1>11, <1>12 DEF ParseInv

\* Before the item has consumed anything, only `act` is expected, and it is there.
LEMMA StepExpect ==
    ASSUME ParseInv, Expect
    PROVE  ParseInv'
<1>1. Runs("token") /\ "token" \notin Control \cup {"commit"} BY DEF Expect, Control
<1>2. Good(Top) /\ Top.is = "token" BY <1>1, TopGood
<1>3. Top.token # "eof" BY <1>2, PartsOf
<1>4. CASE Matches(Top.token) /\ Take(1, <<>>)
  <2>1. Tok # "eof" BY <1>3, <1>4, Ident DEF Matches
  <2> QED BY <2>1, <1>1, <1>4, WorkNone, Read
<1>5. CASE ~Matches(Top.token) /\ Raise
  <2>1. ~Early
    <3>1. calls # <<>> /\ Lexed /\ Head(calls).is = "token" BY <1>1 DEF Runs, Top
    <3>2. Cursor /\ Shape(calls) BY DEF ParseInv
    <3>3. Tok = tokens[pos] BY <3>1, <3>2, Here
    <3>4. Head(calls) = calls[1] BY <1>1, <3>1, <3>2, OfItem
    <3>5. SUFFICES ASSUME Early PROVE FALSE OBVIOUS
    <3>6. calls[1] = Token("act") /\ tokens[pos] = "act" BY <3>1, <3>4, <3>5 DEF Early
    <3>7. Top.token = "act" /\ Tok = "act" BY <3>3, <3>4, <3>6 DEF Top, Token
    <3> QED BY <3>7, <1>5 DEF Matches
  <2> QED BY <2>1, <1>1, <1>5, Raised
<1> QED BY <1>4, <1>5 DEF Expect

LEMMA StepList ==
    ASSUME ParseInv, ParseList
    PROVE  ParseInv'
<1>1. Runs("list") /\ "list" \notin Control \cup Firsts \cup {"commit"}
  BY DEF ParseList, Control, Firsts
<1>2. Good(Top) /\ Work(Top.item) BY <1>1, TopGood, PartsOf
<1>3. Good(Comma(Top)) BY <1>2, Work1, Nested DEF Comma
<1>4. Work(Append(Top.item, Comma(Top))) BY <1>2, <1>3, WorkAppend
<1> QED BY <1>1, <1>4, Called, Returned DEF ParseList

LEMMA StepUntil ==
    ASSUME ParseInv, ParseUntil
    PROVE  ParseInv'
<1>1. Runs("until") /\ "until" \notin Control \cup Firsts \cup {"commit"}
  BY DEF ParseUntil, Control, Firsts
<1>2. Good(Top) /\ Work(Top.item) BY <1>1, TopGood, PartsOf
<1>3. Work(Append(Top.item, Top)) BY <1>2, WorkAppend
<1> QED BY <1>1, <1>3, Called, Returned DEF ParseUntil

LEMMA StepOpt ==
    ASSUME ParseInv, ParseOpt
    PROVE  ParseInv'
<1>1. Runs("opt") /\ "opt" \notin Control \cup Firsts \cup {"commit"}
  BY DEF ParseOpt, Control, Firsts
<1>2. Good(Top) /\ Work(Top.then) /\ Top.token # "eof" BY <1>1, TopGood, PartsOf
<1> QED BY <1>1, <1>2, Read, Returned DEF ParseOpt

LEMMA StepMore ==
    ASSUME ParseInv, ParseMore
    PROVE  ParseInv'
<1>1. Runs("more") /\ "more" \notin Control \cup Firsts \cup {"commit"}
  BY DEF ParseMore, Control, Firsts
<1>2. Good(Top) /\ Work(Top.item) /\ Top.token # "eof" BY <1>1, TopGood, PartsOf
<1>3. Work(Append(Top.item, Top)) BY <1>2, WorkAppend
<1> QED BY <1>1, <1>2, <1>3, Read, Returned DEF ParseMore

LEMMA StepCommit ==
    ASSUME ParseInv, ParseCommit
    PROVE  ParseInv'
<1>1. Runs("commit") /\ "commit" \notin Control \cup Firsts BY DEF ParseCommit, Control, Firsts
<1>2. calls # <<>> /\ Lexed /\ Head(calls).is = "commit" BY <1>1 DEF Runs, Top
<1>3. Shape(calls) BY DEF ParseInv
<1>4. /\ InItem(calls) /\ Len(calls) \in Nat /\ Len(calls) >= 3
      /\ Head(calls) = calls[1] /\ Tail(calls) = SubSeq(calls, 2, Len(calls))
      /\ Good(calls[1]) \/ Attempt(calls[1])
  BY <1>1, <1>2, <1>3, OfItem
<1>5. Attempt(Top) BY <1>2, <1>4, PartsOf DEF Top
<1>6. CASE Tok = Top.token /\ Take(1, Top.then) BY <1>1, <1>5, <1>6, Read DEF Attempt
<1>7. CASE Restore(Top)
  <2>1. PICK k : k = 1 OBVIOUS
  <2>2. k \in 1..(Len(calls) - 1) /\ calls[k].is = "commit" BY <2>1, <1>2, <1>4
  <2>3. /\ pos' = calls[k].pos /\ UNCHANGED <<slots, tokens, items, errors>>
        /\ calls' = calls[k].otherwise \o SubSeq(calls, k + 1, Len(calls))
    <3>1. k + 1 = 2 BY <2>1
    <3> QED BY <3>1, <2>1, <1>4, <1>7 DEF Restore, Top
  <2> QED BY <2>2, <2>3, <1>2, <1>4, Undone
<1> QED BY <1>6, <1>7 DEF ParseCommit

LEMMA StepSpanFrom ==
    ASSUME ParseInv, SpanFrom
    PROVE  ParseInv'
<1>1. Runs("span") /\ "span" \notin Control \cup Firsts BY DEF SpanFrom, Control, Firsts
<1> QED BY <1>1, Popped DEF SpanFrom

-----------------------------------------------------------------------------
(* The module                                                              *)

\* The frames when one of the module is at the head.
LEMMA OfModule ==
    ASSUME NEW c, Shape(c), c # <<>>, Head(c).is \in Control
    PROVE  /\ Head(c) = c[1] /\ IsSequence(Tail(c)) /\ Len(Tail(c)) = Len(c) - 1
           /\ Len(c) \in {1, 2} /\ c[Len(c)].is = "module"
           /\ Len(c) = 1 => c[1].is = "module" /\ Tail(c) = <<>>
           /\ Len(c) = 2 => /\ c[1].is \in {"item_end", "recover"}
                            /\ Tail(c)[1] = c[2] /\ c[2].is = "module"
<1>1. PICK S : c \in Seq(S) BY DEF Shape, IsSequence
<1>2. /\ Head(c) = c[1] /\ Tail(c) \in Seq(S) /\ Len(Tail(c)) = Len(c) - 1
      /\ \A i \in 1..Len(Tail(c)) : Tail(c)[i] = c[i + 1]
  BY <1>1, HeadTailProperties
<1>3. PICK n : n = Len(c) OBVIOUS
<1>4. n \in Nat /\ n >= 1
  <2>1. n \in Nat /\ n # 0 BY <1>1, <1>3, EmptySeq
  <2> QED BY <2>1
<1>5. Good(c[1]) \/ Attempt(c[1]) \/ 1 >= n - 1
  <2>1. 1 \in 1..n BY <1>4
  <2> QED BY <2>1, <1>3 DEF Shape
<1>6. ~Good(c[1]) /\ ~Attempt(c[1]) BY <1>2, PartsOf DEF Attempt, Control
<1>7. n = 1 \/ n = 2 BY <1>4, <1>5, <1>6
<1>8. c[n].is = "module" BY <1>3, <1>4 DEF Shape
<1>9. n = 1 => Tail(c) = <<>>
  <2>1. n = 1 => Len(Tail(c)) = 0 BY <1>2, <1>3
  <2> QED BY <2>1, <1>2, EmptySeq
<1>10. n = 2 => c[1].is \in {"item_end", "recover"}
  <2>1. n = 2 => c[n - 1].is = "item_end" \/ c[1].is = "recover" BY <1>3 DEF Shape
  <2>2. n = 2 => n - 1 = 1 OBVIOUS
  <2> QED BY <2>1, <2>2
<1>11. n = 2 => Tail(c)[1] = c[2]
  <2>1. n = 2 => 1 \in 1..Len(Tail(c)) /\ 1 + 1 = 2 BY <1>2, <1>3
  <2> QED BY <2>1, <1>2
<1>12. IsSequence(Tail(c)) BY <1>2 DEF IsSequence
<1> QED BY <1>2, <1>3, <1>7, <1>8, <1>9, <1>10, <1>11, <1>12

\* Between two items there is more input than there were items and errors.
LEMMA StillInModule ==
    ASSUME NEW c, c = calls', IsSequence(c), Len(c) = 1, c[1].is = "module",
           Cursor', items' \in Nat, errors' \in Nat, items' + errors' < pos'
    PROVE  ParseInv'
<1>1. Shape(c)
  <2>1. \A i \in 1..Len(c) : c[i].is \in Control /\ i >= Len(c) - 1 BY DEF Control
  <2> QED BY <2>1 DEF Shape
<1>2. ~InItem(c) BY DEF InItem
<1>3. InItemOK' BY <1>2 DEF InItemOK
<1>4. RecoverOK' BY DEF RecoverOK
<1>5. Counted' BY <1>3, <1>4 DEF Counted
<1> QED BY <1>1, <1>5 DEF ParseInv

LEMMA StepEndItem ==
    ASSUME ParseInv, EndItem
    PROVE  ParseInv'
<1>1. calls # <<>> /\ Lexed /\ Head(calls).is = "item_end" BY DEF EndItem, Runs, Top
<1>2. Cursor /\ Shape(calls) /\ Counted BY DEF ParseInv
<1>3. /\ Len(calls) = 2 /\ calls[1].is = "item_end"
      /\ IsSequence(Tail(calls)) /\ Len(Tail(calls)) = 1 /\ Tail(calls)[1].is = "module"
  <2>1. "item_end" \in Control BY DEF Control
  <2>2. /\ Head(calls) = calls[1] /\ IsSequence(Tail(calls)) /\ Len(Tail(calls)) = Len(calls) - 1
        /\ Len(calls) \in {1, 2}
        /\ Len(calls) = 1 => calls[1].is = "module" /\ Tail(calls) = <<>>
        /\ Len(calls) = 2 => /\ calls[1].is \in {"item_end", "recover"}
                             /\ Tail(calls)[1] = calls[2] /\ calls[2].is = "module"
    BY <1>1, <1>2, <2>1, OfModule
  <2> QED BY <2>2, <1>1
<1>4. InItem(calls) BY <1>3 DEF InItem
<1>5. ~Early
  <2>1. Token("act").is = "token" BY DEF Token
  <2> QED BY <2>1, <1>3 DEF Early
<1>6. items + 1 + errors < pos /\ items \in Nat /\ errors \in Nat
  <2>1. Since(calls) \in 1..pos /\ items + errors < Since(calls) /\ pos > Since(calls)
    BY <1>2, <1>4, <1>5 DEF Counted, InItemOK
  <2>2. pos \in Nat /\ items \in Nat /\ errors \in Nat BY <1>2 DEF Cursor, Counted
  <2> QED BY <2>1, <2>2
<1>7. Cursor' BY <1>2 DEF EndItem, Cursor
<1>8. items' = items + 1 /\ errors' = errors /\ pos' = pos /\ calls' = Tail(calls)
  BY DEF EndItem
<1>9. items' \in Nat /\ errors' \in Nat /\ items' + errors' < pos' BY <1>6, <1>8
<1> QED BY <1>3, <1>7, <1>8, <1>9, StillInModule

LEMMA StepRecover ==
    ASSUME ParseInv, RecoverToNextItem
    PROVE  ParseInv'
<1>1. calls # <<>> /\ Lexed /\ Head(calls).is = "recover" BY DEF RecoverToNextItem, Runs, Top
<1>2. Cursor /\ Shape(calls) /\ Counted BY DEF ParseInv
<1>3. /\ Len(calls) = 2 /\ Head(calls) = calls[1] /\ calls[1].is = "recover"
      /\ calls[2].is = "module"
      /\ IsSequence(Tail(calls)) /\ Len(Tail(calls)) = 1 /\ Tail(calls)[1] = calls[2]
  <2>1. "recover" \in Control BY DEF Control
  <2>2. /\ Head(calls) = calls[1] /\ IsSequence(Tail(calls)) /\ Len(Tail(calls)) = Len(calls) - 1
        /\ Len(calls) \in {1, 2}
        /\ Len(calls) = 1 => calls[1].is = "module" /\ Tail(calls) = <<>>
        /\ Len(calls) = 2 => /\ calls[1].is \in {"item_end", "recover"}
                             /\ Tail(calls)[1] = calls[2] /\ calls[2].is = "module"
    BY <1>1, <1>2, <2>1, OfModule
  <2> QED BY <2>2, <1>1
<1>4. /\ pos \in Nat \ {0} /\ items \in Nat /\ errors \in Nat /\ items + errors <= pos
      /\ items + errors < pos \/ tokens[pos] \notin Recovered
  BY <1>2, <1>3 DEF Cursor, Counted, RecoverOK
<1>5. /\ tokens # <<>> /\ pos <= Len(tokens) /\ Len(tokens) \in Nat
      /\ Tok = tokens[pos] /\ Advanced(0) = pos
  BY <1>1, <1>2, Here
<1>6. CASE Tok \in Recovered /\ Return
  <2>1. UNCHANGED <<slots, tokens, pos, items, errors>> BY <1>5, <1>6 DEF Return, Then, Take
  <2>2. calls' = Tail(calls)
    <3>1. <<>> \o Tail(calls) = Tail(calls) BY <1>3, ConcatEmptySeq DEF IsSequence
    <3> QED BY <3>1, <1>6 DEF Return, Then, Take
  <2>3. Cursor' BY <2>1, <1>2 DEF Cursor
  <2>4. items' + errors' < pos' BY <2>1, <1>4, <1>5, <1>6
  <2> QED BY <2>1, <2>2, <2>3, <2>4, <1>3, <1>4, StillInModule
<1>7. CASE Tok \notin Recovered /\ Take(1, <<Top>>)
  <2>1. UNCHANGED <<slots, tokens, items, errors>> BY <1>7 DEF Take
  <2>2. pos' = pos + 1 /\ pos' <= Len(tokens)
    <3>1. 0 \in 0..2 /\ Peek(0) # "eof" BY <1>7 DEF Recovered, Tok
    <3>2. pos + 0 + 1 <= Len(tokens) /\ Advanced(0 + 1) = pos + 0 + 1
      BY <3>1, <1>1, <1>2, Behind
    <3> QED BY <3>2, <1>4, <1>7 DEF Take
  <2>3. /\ IsSequence(calls') /\ Len(calls') = 2 /\ calls'[1].is = "recover"
        /\ calls'[2].is = "module"
    <3>1. PICK a : a = <<Top>> OBVIOUS
    <3>2. a \in Seq({Top}) /\ Len(a) = 1 /\ a[1] = Top BY <3>1
    <3>3. IsSequence(a) BY <3>2 DEF IsSequence
    <3>4. PICK b : b = Tail(calls) OBVIOUS
    <3>5. IsSequence(b) /\ Len(b) = 1 /\ b[1].is = "module" BY <3>4, <1>3
    <3>6. /\ IsSequence(a \o b)
          /\ Len(a) \in Nat /\ Len(b) \in Nat /\ Len(a \o b) = Len(a) + Len(b)
          /\ \A j \in 1..Len(a) : (a \o b)[j] = a[j]
          /\ \A j \in 1..Len(b) : (a \o b)[j + Len(a)] = b[j]
      <4>1. IsSequence(b) BY <3>5
      <4> QED BY ONLY <3>3, <4>1, Concats
    <3>7. calls' = a \o b BY <3>1, <3>4, <1>7 DEF Take
    <3> QED BY <3>2, <3>5, <3>6, <3>7, <1>1 DEF Top
  <2>4. items' \in Nat /\ errors' \in Nat /\ pos' \in Nat \ {0} BY <2>1, <2>2, <1>4
  <2>5. RecoverOK' BY <2>1, <2>2, <1>4 DEF RecoverOK
  <2> QED BY <2>1, <2>2, <2>3, <2>4, <2>5, <1>2, StillRecovers
<1> QED BY <1>6, <1>7 DEF RecoverToNextItem

LEMMA StepModule ==
    ASSUME ParseInv, ParseModule
    PROVE  ParseInv'
<1> DEFINE end == [is |-> "item_end", since |-> pos, keep |-> Len(nodes)]
<1>1. calls # <<>> /\ Lexed /\ Head(calls).is = "module" BY DEF ParseModule, Runs, Top
<1>2. Cursor /\ Shape(calls) /\ Counted BY DEF ParseInv
<1>3. Len(calls) = 1 /\ Top = calls[1] /\ calls[1].is = "module" /\ Tail(calls) = <<>>
  <2>1. "module" \in Control BY DEF Control
  <2>2. /\ Head(calls) = calls[1] /\ Len(calls) \in {1, 2}
        /\ Len(calls) = 1 => calls[1].is = "module" /\ Tail(calls) = <<>>
        /\ Len(calls) = 2 => calls[1].is \in {"item_end", "recover"}
    BY <1>1, <1>2, <2>1, OfModule
  <2> QED BY <2>2, <1>1 DEF Top
<1>4. pos \in Nat \ {0} /\ items \in Nat /\ errors \in Nat /\ items + errors < pos
  BY <1>2, <1>3 DEF Cursor, Counted
<1>5. /\ tokens # <<>> /\ pos <= Len(tokens) /\ Len(tokens) \in Nat
      /\ Tok = tokens[pos] /\ Advanced(0) = pos
  BY <1>1, <1>2, Here
<1>6. UNCHANGED <<slots, tokens, items, errors>> BY DEF ParseModule, Return, Then, Take
<1>7. CASE Return
  <2>1. pos' = pos BY <1>5, <1>7 DEF Return, Then, Take
  <2>2. PICK c : c = calls' OBVIOUS
  <2>3. c = <<>>
    <3>1. <<>> \o <<>> = <<>> OBVIOUS
    <3> QED BY <3>1, <1>3, <1>7, <2>2 DEF Return, Then, Take
  <2>4. IsSequence(c) /\ Len(c) = 0 BY <2>3, WorkNone DEF Work
  <2>5. Shape(c) /\ ~InItem(c) BY <2>4 DEF Shape, InItem
  <2>6. Cursor' BY <2>1, <1>2, <1>6 DEF Cursor
  <2>7. InItemOK' /\ RecoverOK' BY <2>2, <2>4, <2>5 DEF InItemOK, RecoverOK
  <2>8. Counted' BY <2>1, <2>2, <2>4, <2>7, <1>4, <1>6 DEF Counted
  <2> QED BY <2>2, <2>5, <2>6, <2>8 DEF ParseInv
<1>8. CASE Tok = "doc" /\ Take(1, <<Top>>)
  <2>1. pos' = pos + 1 /\ pos' <= Len(tokens)
    <3>1. 0 \in 0..2 /\ Peek(0) # "eof" BY <1>8 DEF Tok
    <3>2. pos + 0 + 1 <= Len(tokens) /\ Advanced(0 + 1) = pos + 0 + 1
      BY <3>1, <1>1, <1>2, Behind
    <3> QED BY <3>2, <1>4, <1>8 DEF Take
  <2>2. PICK c : c = calls' OBVIOUS
  <2>3. IsSequence(c) /\ Len(c) = 1 /\ c[1].is = "module"
    <3>1. PICK top : top = Top OBVIOUS
    <3>2. <<top>> \in Seq({top}) /\ Len(<<top>>) = 1 /\ <<top>>[1] = top OBVIOUS
    <3>3. <<top>> \o <<>> = <<top>> BY <3>2
    <3>4. c = <<top>> BY <3>1, <3>3, <2>2, <1>3, <1>8 DEF Take
    <3>5. top.is = "module" BY <3>1, <1>3
    <3> QED BY <3>2, <3>4, <3>5 DEF IsSequence
  <2>4. Cursor' BY <2>1, <1>2, <1>4, <1>5, <1>6 DEF Cursor
  <2>5. items' \in Nat /\ errors' \in Nat /\ items' + errors' < pos' BY <2>1, <1>4, <1>6
  <2> QED BY <2>2, <2>3, <2>4, <2>5, StillInModule
<1>9. CASE ~IsEof /\ Then(<<Parse("item"), end, Top>>)
  <2>1. pos' = pos BY <1>5, <1>9 DEF Then, Take
  <2>2. PICK c : c = calls' OBVIOUS
  <2>3. /\ IsSequence(c) /\ Len(c) = 3 /\ c[1].is = "item"
        /\ c[2].is = "item_end" /\ c[2].since = pos /\ c[3].is = "module"
    <3>1. PICK a, b, top : a = Parse("item") /\ b = end /\ top = Top OBVIOUS
    <3>2. PICK s : s = <<a, b, top>> OBVIOUS
    <3>3. /\ s \in Seq({a, b, top}) /\ Len(s) = 3 /\ s[1] = a /\ s[2] = b /\ s[3] = top
      BY <3>2
    <3>4. s \o <<>> = s BY <3>3
    <3>5. c = s \o <<>>
      <4>1. <<Parse("item"), end, Top>> = s BY <3>1, <3>2
      <4> QED BY <4>1, <2>2, <1>3, <1>9 DEF Then, Take
    <3>6. a.is = "item" /\ b.is = "item_end" /\ b.since = pos /\ top.is = "module"
      BY <3>1, <1>3 DEF Parse
    <3>7. c = s BY <3>4, <3>5
    <3> QED BY <3>3, <3>6, <3>7 DEF IsSequence
  <2>4. InItem(c) /\ Since(c) = pos
    <3>1. Len(c) - 1 = 2 BY <2>3
    <3> QED BY <3>1, <2>3 DEF InItem, Since
  <2>5. Shape(c) /\ \A i \in 1..Len(c) : c[i].is # "commit"
    <3>1. \A i \in 1..Len(c) : i = 1 \/ i = 2 \/ i = 3 BY <2>3
    <3>2. Good(c[1])
      <4>1. c[1].is \notin Control \cup Nesting \cup {"commit"} BY <2>3 DEF Control, Nesting
      <4> QED BY <4>1, Simple
    <3>3. \A i \in 1..Len(c) : i # 1 => c[i].is \in Control /\ i >= Len(c) - 1
      BY <3>1, <2>3 DEF Control
    <3>4. c[Len(c)].is = "module" BY <2>3
    <3>5. c[Len(c) - 1].is = "item_end" BY <2>4 DEF InItem
    <3>6. Shape(c) BY <3>2, <3>3, <3>4, <3>5, <2>3 DEF Shape
    <3>7. \A i \in 1..Len(c) : c[i].is # "commit" BY <3>1, <2>3
    <3> QED BY <3>6, <3>7
  <2>6. Early'
    <3>1. tokens[pos] # "eof" BY <1>5, <1>9 DEF IsEof
    <3> QED BY <3>1, <2>1, <2>2, <2>3, <1>5, <1>6 DEF Early
  <2>7. /\ Shape(calls') /\ InItem(calls') /\ Since(calls') = pos
        /\ \A i \in 1..Len(calls') : calls'[i].is # "commit"
    BY <2>2, <2>4, <2>5
  <2> QED BY <2>1, <2>6, <2>7, <1>2, <1>4, <1>5, <1>6, StillInItem
<1> QED BY <1>7, <1>8, <1>9 DEF ParseModule

LEMMA StepNothing ==
    ASSUME ParseInv, UNCHANGED vars
    PROVE  ParseInv'
<1>1. UNCHANGED <<slots, tokens, pos, calls, items, errors>> BY DEF vars
<1>2. Cursor' BY <1>1 DEF ParseInv, Cursor
<1>3. Shape(calls') BY <1>1 DEF ParseInv
<1>4. Counted' BY <1>1 DEF ParseInv, Counted, InItemOK, RecoverOK, Early
<1> QED BY <1>2, <1>3, <1>4 DEF ParseInv

-----------------------------------------------------------------------------
(* The invariant                                                           *)

LEMMA Initially ==
    ASSUME InputsAssumption, Init
    PROVE  ParseInv
<1>1. PICK c : c = calls OBVIOUS
<1>2. IsSequence(c) /\ Len(c) = 1 /\ c[1].is = "module"
  <2>1. PICK m : m = Parse("module") OBVIOUS
  <2>2. <<m>> \in Seq({m}) /\ Len(<<m>>) = 1 /\ <<m>>[1] = m OBVIOUS
  <2>3. c = <<m>> /\ m.is = "module" BY <2>1, <1>1 DEF Init, Parse
  <2> QED BY <2>2, <2>3 DEF IsSequence
<1>3. Shape(c)
  <2>1. \A i \in 1..Len(c) : c[i].is \in Control /\ i >= Len(c) - 1 BY <1>2 DEF Control
  <2> QED BY <2>1, <1>2 DEF Shape
<1>4. ~InItem(c) BY <1>2 DEF InItem
<1>5. Cursor BY WorkNone DEF Init, InputsAssumption, Cursor, Work
<1>6. InItemOK /\ RecoverOK BY <1>1, <1>2, <1>4 DEF InItemOK, RecoverOK
<1>7. Counted BY <1>1, <1>2, <1>6 DEF Counted, Init
<1> QED BY <1>1, <1>3, <1>5, <1>7 DEF ParseInv

LEMMA Steps ==
    ASSUME InputsAssumption, ParseInv, [Next]_vars
    PROVE  ParseInv'
<1>1. CASE Machine
  BY <1>1, StepScan, StepExpect, StepList, StepUntil, StepOpt, StepMore, StepCommit,
     StepSpanFrom DEF Machine
<1>2. CASE TypesAndPatterns
  BY <1>2, StepEndGroup, StepType, StepPattern, StepAlternatives, StepFields, StepRename,
     StepFieldValue, StepLiteralPattern, StepRange, StepSingle, StepVariant
  DEF TypesAndPatterns
<1>3. CASE Expressions
  BY <1>3, StepExprBp, StepJoinOperands, StepInfix, StepEndInfix, StepPostfix, StepUnary,
     StepAtom, StepParens, StepEndParens, StepArray, StepIdent, StepFieldInits, StepBlock,
     StepJump, StepValue, StepUnsafe, StepLabel, StepIf, StepElse, StepMatch, StepLoop,
     StepClosure, StepClosureBody, StepFork, StepTask
  DEF Expressions
<1>4. CASE Items
  BY <1>4, StepDeclaration, StepStmt, StepExprOrLet, StepEndExprOrLet, StepItem,
     StepAttributes, StepAttributeArg, StepVisibility, StepFn, StepReturnType, StepBody,
     StepParam, StepParamName, StepPayload, StepDefinition, StepStructDef, StepEnumDef,
     StepTraitDef, StepImplBlock, StepTypeAlias, StepUseDecl, StepUseKind, StepModule,
     StepEndItem, StepRecover
  DEF Items
<1>5. CASE Done BY <1>5, StepNothing DEF Done
<1>6. CASE UNCHANGED vars BY <1>6, StepNothing
<1> QED BY <1>1, <1>2, <1>3, <1>4, <1>5, <1>6 DEF Next

\* No frame waits for the end of the input, and no more items and errors were
\* counted than tokens consumed.
THEOREM Invariant == Spec => []ParseInv
<1>1. Init => ParseInv BY InputsAssumption, Initially
<1>2. ParseInv /\ [Next]_vars => ParseInv' BY InputsAssumption, Steps
<1> QED BY <1>1, <1>2, PTL DEF Spec

\* The cursor does not move past the end of the input, whichever function meets it
\* (input.rs advance, is_eof).
THEOREM EofIsKept == Spec => []EofStays
<1>1. ParseInv => EofStays BY DEF ParseInv, Cursor, EofStays, Ended
<1> QED BY <1>1, Invariant, PTL

\* Every item and every error takes a token of its own: recovery stops only where
\* parse_item consumes a token (lib.rs recover_to_next_item).
THEOREM RecoveryAdvances == Spec => []ErrorsAdvance
<1>1. ASSUME ParseInv PROVE ErrorsAdvance
  <2> USE <1>1
  <2>1. PICK n : n = Len(calls) OBVIOUS
  <2>2. n \in Nat BY <2>1, LenProperties DEF ParseInv, Shape, IsSequence
  <2>3. pos \in Nat /\ items \in Nat /\ errors \in Nat BY DEF ParseInv, Cursor, Counted
  <2>4. CASE n = 0 BY <2>1, <2>4 DEF ParseInv, Counted, ErrorsAdvance
  <2>5. CASE n = 1 BY <2>1, <2>3, <2>5 DEF ParseInv, Counted, ErrorsAdvance
  <2>6. CASE InItem(calls) BY <2>3, <2>6 DEF ParseInv, Counted, InItemOK, ErrorsAdvance
  <2>7. CASE n = 2 /\ calls[1].is = "recover"
    BY <2>1, <2>7 DEF ParseInv, Counted, RecoverOK, ErrorsAdvance
  <2>8. n >= 2 => InItem(calls) \/ (n = 2 /\ calls[1].is = "recover")
    BY <2>1 DEF ParseInv, Shape, InItem
  <2> QED BY <2>2, <2>4, <2>5, <2>6, <2>7, <2>8
<1> QED BY <1>1, Invariant, PTL
=============================================================================
