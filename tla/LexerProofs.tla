---------------------------- MODULE LexerProofs ----------------------------
(***************************************************************************)
(* The lexer cuts every source into its longest lexemes.  While it is in   *)
(* the middle of a token or of a comment, what it has read of it has the   *)
(* shape that its loop asks for (the `Open` definitions), and between the  *)
(* last token and there it has skipped whitespace and comments only.       *)
(***************************************************************************)
EXTENDS Lexemes, SequenceTheorems, TLAPS

\* The operators of two and three bytes.
Pairs == {
    <<":", "=">>, <<"+", "=">>, <<"-", "=">>, <<"*", "=">>, <<"/", "=">>, <<"%", "=">>,
    <<"*", "*">>, <<"=", "=">>, <<"!", "=">>, <<"<", "=">>, <<">", "=">>, <<"&", "&">>,
    <<"|", "|">>, <<"<", "<">>, <<">", ">">>, <<"-", ">">>, <<"~", ">">>, <<".", ".">>}
Triples == {<<"*", "*", "=">>, <<".", ".", "=">>}

\* The number of backslashes in a row in front of place i, counted from `from`,
\* is odd (1) or even (0).
Backslashes(from, i, parity) ==
    \E k \in 0..(i - from - 2) :
        /\ k % 2 = parity
        /\ \A j \in (i - k)..(i - 1) : source[j] = "\\"
        /\ source[i - k - 1] # "\\"

LineOpen(from) ==
    /\ from + 2 <= pos /\ source[from + 1] = "/" /\ source[from + 2] = "/"
    /\ from + 2 < Len(source) => source[from + 3] # "/"
    /\ \A i \in (from + 1)..pos : source[i] # "\n"

BlockOpen(from) ==
    /\ from + 2 <= pos /\ source[from + 1] = "/" /\ source[from + 2] = "*"
    /\ \A i \in (from + 3)..pos : i < Len(source) => ~(source[i] = "*" /\ source[i + 1] = "/")

DocOpen ==
    /\ start + 3 <= pos
    /\ source[start + 1] = "/" /\ source[start + 2] = "/" /\ source[start + 3] = "/"
    /\ \A i \in (start + 1)..pos : source[i] # "\n"

WordOpen ==
    /\ start < pos /\ source[start + 1] \in Letters
    /\ source[start + 1] = "underscore" => start + 1 < Len(source) /\ InWord(source[start + 2])
    /\ \A i \in (start + 2)..pos : InWord(source[i])

NumberOpen ==
    /\ start < pos /\ source[start + 1] \in Digits
    /\ \A i \in (start + 2)..pos :
        \/ InWord(source[i])
        \/ source[i] = "." /\ i < Len(source) /\ source[i + 1] \in Digits

\* The cursor is not behind a backslash that takes a byte along.
StringOpen ==
    /\ start < pos /\ source[start + 1] = "quote"
    /\ \A i \in (start + 2)..pos : source[i] = "quote" => Backslashes(start, i, 1)
    /\ pos < Len(source) => Backslashes(start, pos + 1, 0)

LabelOpen ==
    /\ start < pos /\ source[start + 1] = "'"
    /\ start + 1 < Len(source) => source[start + 2] # "\\"
    /\ start + 2 < Len(source) => source[start + 3] # "'"
    /\ \A i \in (start + 2)..pos : InWord(source[i])

\* Where the last token ends.
LastEnd == IF tokens = <<>> THEN 0 ELSE tokens[Len(tokens)].to

InProgress ==
    /\ mode \in {"next", "skip"} => OnlySkipped(LastEnd, pos)
    /\ mode = "line" => \E from \in 0..pos : OnlySkipped(LastEnd, from) /\ LineOpen(from)
    /\ mode = "block" => \E from \in 0..pos : OnlySkipped(LastEnd, from) /\ BlockOpen(from)
    /\ mode \in {"doc", "word", "number", "string", "label"} => OnlySkipped(LastEnd, start)
    /\ mode = "doc" => DocOpen
    /\ mode = "word" => WordOpen
    /\ mode = "number" => NumberOpen
    /\ mode = "string" => StringOpen
    /\ mode = "label" => LabelOpen
    /\ mode = "done" => tokens # <<>>

\* LongestMatch without its exception: by the lexemes that the lexer knows, every
\* token is the longest, behind a literal that only the documents have as well.
LastJustified == tokens # <<>> => Justified(Last(tokens))

Inv ==
    /\ TypeOK /\ source \in Sources
    /\ InProgress
    /\ SlicesWhole /\ LastJustified /\ NothingLost

-----------------------------------------------------------------------------
(* Texts, byte by byte.                                                    *)

LEMMA SourceBytes ==
    ASSUME source \in Sources
    PROVE  /\ source \in Seq(Bytes) /\ Len(source) \in Nat
           /\ \A i \in 1..Len(source) : source[i] \in Bytes
           /\ \A i \in 1..Len(source) :
                source[i] \in Inner => i > 1 /\ source[i - 1] \in Lead \cup Inner
BY SourcesAssumption, LenProperties

LEMMA TextBytes ==
    ASSUME source \in Sources, NEW from \in Nat, NEW to \in Nat, from < to, to <= Len(source)
    PROVE  /\ Text(from, to) \in Seq(Bytes)
           /\ Len(Text(from, to)) = to - from
           /\ DOMAIN Text(from, to) = 1..(to - from)
           /\ \A i \in 1..(to - from) : Text(from, to)[i] = source[from + i]
BY SourceBytes, SubSeqProperties DEF Text

\* The other way round, in a lemma of its own: together they go round in circles.
LEMMA TextPlaces ==
    ASSUME source \in Sources, NEW from \in Nat, NEW to \in Nat, from < to, to <= Len(source)
    PROVE  \A i \in (from + 1)..to : i - from \in 1..(to - from) /\ Text(from, to)[i - from] = source[i]
<1>1. \A i \in (from + 1)..to : i - from \in 1..(to - from) /\ from + (i - from) = i
  OBVIOUS
<1> QED BY <1>1, TextBytes

\* What holds of every byte of a text from its n-th on.
LEMMA FromByte ==
    ASSUME source \in Sources, NEW from \in Nat, NEW to \in Nat, from < to, to <= Len(source),
           NEW n \in {1, 2}, NEW S
    PROVE  (\A i \in n..Len(Text(from, to)) : Text(from, to)[i] \in S)
              <=> \A i \in (from + n)..to : source[i] \in S
<1> DEFINE s == Text(from, to)
<1>1. ASSUME \A i \in n..Len(s) : s[i] \in S, NEW i \in (from + n)..to
      PROVE  source[i] \in S
  <2>1. Len(s) = to - from BY TextBytes
  <2>2. i - from \in n..Len(s) BY <2>1
  <2>3. s[i - from] = source[i] BY TextPlaces
  <2> QED BY <1>1, <2>2, <2>3
<1>2. ASSUME \A i \in (from + n)..to : source[i] \in S, NEW i \in n..Len(s)
      PROVE  s[i] \in S
  <2>1. Len(s) = to - from /\ s[i] = source[from + i] BY TextBytes, SMTT(30)
  <2> QED BY <2>1, <1>2
<1> QED BY <1>1, <1>2

LEMMA Singleton ==
    ASSUME NEW s \in Seq(Bytes), NEW c
    PROVE  s = <<c>> <=> Len(s) = 1 /\ s[1] = c
OBVIOUS

LEMMA IsPair == ASSUME NEW s \in Seq(Bytes), Len(s) = 2 PROVE s = <<s[1], s[2]>>
OBVIOUS

LEMMA IsTriple == ASSUME NEW s \in Seq(Bytes), Len(s) = 3 PROVE s = <<s[1], s[2], s[3]>>
OBVIOUS

LEMMA BeginsTwo ==
    ASSUME NEW s \in Seq(Bytes), NEW c, NEW d
    PROVE  Begins(s, <<c, d>>) <=> Len(s) >= 2 /\ s[1] = c /\ s[2] = d
BY DEF Begins

LEMMA BeginsThree ==
    ASSUME NEW s \in Seq(Bytes), NEW c, NEW d, NEW e
    PROVE  Begins(s, <<c, d, e>>) <=> Len(s) >= 3 /\ s[1] = c /\ s[2] = d /\ s[3] = e
BY DEF Begins

LEMMA InWordBytes == \A b : InWord(b) <=> b \in WordBytes
BY DEF WordBytes, InWord, Letters, Digits

LEMMA WordText ==
    ASSUME source \in Sources, NEW from \in Nat, NEW to \in Nat, from < to, to <= Len(source)
    PROVE  Lexeme("word", Text(from, to)) <=>
              /\ source[from + 1] \in Letters
              /\ \A i \in (from + 2)..to : InWord(source[i])
              /\ ~(to = from + 1 /\ source[from + 1] = "underscore")
<1> DEFINE s == Text(from, to)
<1>1. /\ s \in Seq(Bytes) /\ Len(s) = to - from
      /\ \A i \in 1..(to - from) : s[i] = source[from + i]
  BY TextBytes
<1>2. s = <<"underscore">> <=> to = from + 1 /\ source[from + 1] = "underscore"
  <2>1. s = <<"underscore">> <=> Len(s) = 1 /\ s[1] = "underscore"
    BY <1>1, Singleton, Zenon
  <2> QED BY <2>1, <1>1
<1>3. AllFrom(s, 2, WordBytes) <=> \A i \in (from + 2)..to : InWord(source[i])
  <2>1. AllFrom(s, 2, WordBytes) <=> \A i \in (from + 2)..to : source[i] \in WordBytes
    BY FromByte, Zenon DEF AllFrom
  <2> QED BY <2>1, InWordBytes
<1> QED BY <1>1, <1>2, <1>3 DEF Lexeme, Word, Letters

LEMMA UnderscoreText ==
    ASSUME source \in Sources, NEW from \in Nat, NEW to \in Nat, from < to, to <= Len(source)
    PROVE  Lexeme("underscore", Text(from, to)) <=> to = from + 1 /\ source[from + 1] = "underscore"
<1> DEFINE s == Text(from, to)
<1>1. /\ s \in Seq(Bytes) /\ Len(s) = to - from
      /\ \A i \in 1..(to - from) : s[i] = source[from + i]
  BY TextBytes
<1>2. s = <<"underscore">> <=> Len(s) = 1 /\ s[1] = "underscore"
  BY <1>1, Singleton, Zenon
<1>3. Lexeme("underscore", s) <=> s = <<"underscore">>
  BY DEF Lexeme
<1> QED BY <1>1, <1>2, <1>3

LEMMA NumberText ==
    ASSUME source \in Sources, NEW from \in Nat, NEW to \in Nat, from < to, to <= Len(source)
    PROVE  Lexeme("number", Text(from, to)) <=>
              /\ source[from + 1] \in Digits
              /\ \A i \in (from + 2)..to :
                    \/ InWord(source[i])
                    \/ source[i] = "." /\ i < to /\ source[i + 1] \in Digits
<1> DEFINE s == Text(from, to)
<1>1. /\ s \in Seq(Bytes) /\ Len(s) = to - from
      /\ \A i \in 1..(to - from) : s[i] = source[from + i]
  BY TextBytes
<1>2. ASSUME NEW i \in 2..Len(s)
      PROVE  /\ s[i] \in WordBytes <=> InWord(source[from + i])
             /\ s[i] = "." /\ i < Len(s) /\ s[i + 1] \in {"1", "2"}
                  <=> source[from + i] = "." /\ from + i < to /\ source[from + i + 1] \in Digits
  BY <1>1 DEF WordBytes, InWord, Letters, Digits
<1>3. \A i \in (from + 2)..to : i - from \in 2..Len(s) /\ from + (i - from) = i
  BY <1>1
<1>4. \A i \in 2..Len(s) : from + i \in (from + 2)..to
  BY <1>1
<1>5. Lexeme("number", s) <=> Number(s)
  BY DEF Lexeme
<1>6. s[1] = source[from + 1]
  BY <1>1
<1>7. ASSUME Number(s), NEW i \in (from + 2)..to
      PROVE  InWord(source[i]) \/ (source[i] = "." /\ i < to /\ source[i + 1] \in Digits)
  <2>1. \/ s[i - from] \in WordBytes
        \/ s[i - from] = "." /\ i - from < Len(s) /\ s[i - from + 1] \in {"1", "2"}
    BY <1>7, <1>3 DEF Number
  <2> QED BY <2>1, <1>2, <1>3
<1>8. ASSUME source[from + 1] \in Digits,
             \A i \in (from + 2)..to :
                InWord(source[i]) \/ (source[i] = "." /\ i < to /\ source[i + 1] \in Digits)
      PROVE  Number(s)
  BY <1>8, <1>2, <1>4, <1>6 DEF Number, Digits
<1> QED BY <1>5, <1>6, <1>7, <1>8 DEF Number, Digits

LEMMA LabelText ==
    ASSUME source \in Sources, NEW from \in Nat, NEW to \in Nat, from < to, to <= Len(source)
    PROVE  Lexeme("label", Text(from, to)) <=>
              /\ from + 1 < to /\ source[from + 1] = "'"
              /\ \A i \in (from + 2)..to : InWord(source[i])
<1> DEFINE s == Text(from, to)
<1>1. /\ s \in Seq(Bytes) /\ Len(s) = to - from
      /\ \A i \in 1..(to - from) : s[i] = source[from + i]
  BY TextBytes
<1>3. AllFrom(s, 2, WordBytes) <=> \A i \in (from + 2)..to : InWord(source[i])
  <2>1. AllFrom(s, 2, WordBytes) <=> \A i \in (from + 2)..to : source[i] \in WordBytes
    BY FromByte, Zenon DEF AllFrom
  <2> QED BY <2>1, InWordBytes
<1> QED BY <1>1, <1>3 DEF Lexeme, Label

LEMMA CharText ==
    ASSUME source \in Sources, NEW from \in Nat, NEW to \in Nat, from < to, to <= Len(source)
    PROVE  Lexeme("char", Text(from, to)) <=>
              /\ to \in {from + 3, from + 4} /\ source[from + 1] = "'" /\ source[to] = "'"
              /\ source[from + 2] = "\\" <=> to = from + 4
<1> DEFINE s == Text(from, to)
<1>1. /\ s \in Seq(Bytes) /\ Len(s) = to - from
      /\ \A i \in 1..(to - from) : s[i] = source[from + i]
  BY TextBytes
<1>2. Lexeme("char", s) <=> Character(s)
  BY DEF Lexeme
<1>3. Len(s) \in {3, 4} => s[1] = source[from + 1] /\ s[2] = source[from + 2] /\ s[Len(s)] = source[to]
  BY <1>1
<1> QED BY <1>1, <1>2, <1>3, SMTT(30) DEF Character

LEMMA WithoutText ==
    ASSUME source \in Sources, NEW from \in Nat, NEW to \in Nat, from < to, to <= Len(source),
           NEW b
    PROVE  Without(Text(from, to), b) <=> \A i \in (from + 1)..to : source[i] # b
<1> DEFINE s == Text(from, to)
<1>1. Len(s) = to - from /\ DOMAIN s = 1..(to - from)
  BY TextBytes
<1>2. (\A i \in 1..Len(s) : s[i] \in {c \in Bytes : c # b})
        <=> \A i \in (from + 1)..to : source[i] \in {c \in Bytes : c # b}
  BY FromByte, Zenon
<1>3. \A i \in 1..Len(s) : s[i] \in Bytes
  BY TextBytes
<1>4. \A i \in (from + 1)..to : source[i] \in Bytes
  BY SourceBytes
<1> QED BY <1>1, <1>2, <1>3, <1>4 DEF Without

LEMMA DocText ==
    ASSUME source \in Sources, NEW from \in Nat, NEW to \in Nat, from < to, to <= Len(source)
    PROVE  Lexeme("doc", Text(from, to)) <=>
              /\ from + 3 <= to
              /\ source[from + 1] = "/" /\ source[from + 2] = "/" /\ source[from + 3] = "/"
              /\ \A i \in (from + 1)..to : source[i] # "\n"
<1> DEFINE s == Text(from, to)
<1>1. /\ s \in Seq(Bytes) /\ Len(s) = to - from
      /\ \A i \in 1..(to - from) : s[i] = source[from + i]
  BY TextBytes
<1>2. Begins(s, <<"/", "/", "/">>) <=> Len(s) >= 3 /\ s[1] = "/" /\ s[2] = "/" /\ s[3] = "/"
  BY <1>1, BeginsThree
<1>3. Without(s, "\n") <=> \A i \in (from + 1)..to : source[i] # "\n"
  BY WithoutText
<1>4. Lexeme("doc", s) <=> DocComment(s)
  BY DEF Lexeme
<1> QED BY <1>1, <1>2, <1>3, <1>4 DEF DocComment

LEMMA LineText ==
    ASSUME source \in Sources, NEW from \in Nat, NEW to \in Nat, from < to, to <= Len(source)
    PROVE  Lexeme("line", Text(from, to)) <=>
              /\ from + 2 <= to
              /\ source[from + 1] = "/" /\ source[from + 2] = "/"
              /\ from + 3 <= to => source[from + 3] # "/"
              /\ \A i \in (from + 1)..to : source[i] # "\n"
<1> DEFINE s == Text(from, to)
<1>1. /\ s \in Seq(Bytes) /\ Len(s) = to - from
      /\ \A i \in 1..(to - from) : s[i] = source[from + i]
  BY TextBytes
<1>2. /\ Begins(s, <<"/", "/">>) <=> Len(s) >= 2 /\ s[1] = "/" /\ s[2] = "/"
      /\ Begins(s, <<"/", "/", "/">>) <=> Len(s) >= 3 /\ s[1] = "/" /\ s[2] = "/" /\ s[3] = "/"
  BY <1>1, BeginsTwo, BeginsThree
<1>3. Without(s, "\n") <=> \A i \in (from + 1)..to : source[i] # "\n"
  BY WithoutText
<1>4. Lexeme("line", s) <=> LineComment(s)
  BY DEF Lexeme
<1> QED BY <1>1, <1>2, <1>3, <1>4 DEF LineComment

LEMMA BlockText ==
    ASSUME source \in Sources, NEW from \in Nat, NEW to \in Nat, from < to, to <= Len(source)
    PROVE  Lexeme("block", Text(from, to)) <=>
              /\ from + 2 <= to
              /\ source[from + 1] = "/" /\ source[from + 2] = "*"
              /\ \A i \in (from + 3)..(to - 2) : ~(source[i] = "*" /\ source[i + 1] = "/")
<1> DEFINE s == Text(from, to)
<1>1. /\ s \in Seq(Bytes) /\ Len(s) = to - from
      /\ \A i \in 1..(to - from) : s[i] = source[from + i]
  BY TextBytes
<1>2. Begins(s, <<"/", "*">>) <=>
            from + 2 <= to /\ source[from + 1] = "/" /\ source[from + 2] = "*"
  <2>1. Begins(s, <<"/", "*">>) <=> Len(s) >= 2 /\ s[1] = "/" /\ s[2] = "*"
    BY <1>1, BeginsTwo
  <2> QED BY <2>1, <1>1
<1>3. ASSUME NEW i \in 3..(Len(s) - 2)
      PROVE  <<s[i], s[i + 1]>> # <<"*", "/">> <=> ~(source[from + i] = "*" /\ source[from + i + 1] = "/")
  BY <1>1
<1>4. \A i \in (from + 3)..(to - 2) : i - from \in 3..(Len(s) - 2) /\ from + (i - from) = i
  BY <1>1
<1>5. \A i \in 3..(Len(s) - 2) : from + i \in (from + 3)..(to - 2)
  BY <1>1
<1> QED BY <1>2, <1>3, <1>4, <1>5 DEF Lexeme, BlockComment

LEMMA SpaceText ==
    ASSUME source \in Sources, NEW from \in Nat, NEW to \in Nat, from < to, to <= Len(source)
    PROVE  Lexeme("space", Text(from, to)) <=> to = from + 1 /\ source[from + 1] \in Space
<1> DEFINE s == Text(from, to)
<1>1. /\ s \in Seq(Bytes) /\ Len(s) = to - from
      /\ \A i \in 1..(to - from) : s[i] = source[from + i]
  BY TextBytes
<1>2. s \in {<<"space">>, <<"\n">>} <=> Len(s) = 1 /\ s[1] \in Space
  <2>1. \A c : s = <<c>> <=> Len(s) = 1 /\ s[1] = c BY <1>1, Singleton, Zenon
  <2> QED BY <2>1, Zenon DEF Space
<1>3. Lexeme("space", s) <=> s \in {<<"space">>, <<"\n">>}
  BY DEF Lexeme
<1> QED BY <1>1, <1>2, <1>3

LEMMA StringText ==
    ASSUME source \in Sources, NEW from \in Nat, NEW to \in Nat, from < to, to <= Len(source)
    PROVE  Lexeme("string", Text(from, to)) <=>
              /\ from + 1 < to /\ source[from + 1] = "quote" /\ source[to] = "quote"
              /\ ~Backslashes(from, to, 1)
              /\ \A i \in (from + 2)..(to - 1) : source[i] = "quote" => Backslashes(from, i, 1)
<1> DEFINE s == Text(from, to)
<1>1. /\ s \in Seq(Bytes) /\ Len(s) = to - from /\ Len(s) \in Nat
      /\ \A i \in 1..(to - from) : s[i] = source[from + i]
  <2>1. s \in Seq(Bytes) /\ Len(s) = to - from BY TextBytes
  <2>2. \A i \in 1..(to - from) : s[i] = source[from + i] BY TextBytes
  <2>3. to - from \in Nat OBVIOUS
  <2> QED BY <2>1, <2>2, <2>3
<1>2. ASSUME NEW i \in 2..Len(s)
      PROVE  Escaped(s, i) <=> Backslashes(from, from + i, 1)
  <2>1. ASSUME NEW k \in 1..(i - 2), k % 2 = 1,
               \A j \in (i - k)..(i - 1) : s[j] = "\\", s[i - k - 1] # "\\"
        PROVE  Backslashes(from, from + i, 1)
    <3>1. ASSUME NEW j \in (from + i - k)..(from + i - 1) PROVE source[j] = "\\"
      <4>1. /\ j - from \in (i - k)..(i - 1) /\ from + (j - from) = j
            /\ j - from \in 1..(to - from)
        BY <1>1
      <4>2. s[j - from] = "\\" BY <4>1, <2>1
      <4> QED BY <4>1, <4>2, <1>1
    <3>2. source[from + i - k - 1] # "\\"
      BY <2>1, <1>1
    <3> QED BY <3>1, <3>2, <2>1 DEF Backslashes
  <2>2. ASSUME NEW k \in 0..(i - 2), k % 2 = 1,
               \A j \in (from + i - k)..(from + i - 1) : source[j] = "\\",
               source[from + i - k - 1] # "\\"
        PROVE  Escaped(s, i)
    <3>1. k \in 1..(i - 2) BY <2>2
    <3>2. ASSUME NEW j \in (i - k)..(i - 1) PROVE s[j] = "\\"
      BY <2>2, <1>1, SMTT(30)
    <3>3. s[i - k - 1] # "\\" BY <2>2, <1>1
    <3> QED BY <3>1, <3>2, <3>3, <2>2 DEF Escaped
  <2>3. from + i - from - 2 = i - 2 OBVIOUS
  <2>4. Escaped(s, i) => Backslashes(from, from + i, 1)
    BY <2>1 DEF Escaped
  <2>5. Backslashes(from, from + i, 1) => Escaped(s, i)
    BY <2>2, <2>3 DEF Backslashes
  <2> QED BY <2>4, <2>5
<1>3. String(s) <=>
        /\ from + 1 < to /\ source[from + 1] = "quote" /\ source[to] = "quote"
        /\ ~Backslashes(from, to, 1)
        /\ \A i \in 2..(Len(s) - 1) : source[from + i] = "quote" => Backslashes(from, from + i, 1)
  <2>1. Len(s) > 1 => /\ s[1] = source[from + 1] /\ s[Len(s)] = source[to]
                      /\ Escaped(s, Len(s)) <=> Backslashes(from, to, 1)
    <3>1. Len(s) > 1 => Len(s) \in 2..Len(s) /\ from + Len(s) = to BY <1>1
    <3> QED BY <3>1, <1>1, <1>2
  <2>2. \A i \in 2..(Len(s) - 1) : s[i] = source[from + i] /\ (Escaped(s, i) <=> Backslashes(from, from + i, 1))
    BY <1>1, <1>2
  <2>3. Len(s) > 1 <=> from + 1 < to BY <1>1
  <2> QED BY <2>1, <2>2, <2>3 DEF String
<1>4. \A i \in (from + 2)..(to - 1) : i - from \in 2..(Len(s) - 1) /\ from + (i - from) = i
  BY <1>1
<1>5. \A i \in 2..(Len(s) - 1) : from + i \in (from + 2)..(to - 1)
  BY <1>1
<1> QED BY <1>3, <1>4, <1>5 DEF Lexeme

LEMMA OpText ==
    ASSUME source \in Sources, NEW from \in Nat, NEW to \in Nat, from < to, to <= Len(source)
    PROVE  Lexeme("op", Text(from, to)) <=>
              \/ to = from + 1 /\ source[from + 1] \in OperatorStart
              \/ to = from + 2 /\ <<source[from + 1], source[from + 2]>> \in Pairs
              \/ to = from + 3 /\ <<source[from + 1], source[from + 2], source[from + 3]>> \in Triples
<1> DEFINE s == Text(from, to)
<1>1. /\ s \in Seq(Bytes) /\ Len(s) = to - from
      /\ \A i \in 1..(to - from) : s[i] = source[from + i]
  BY TextBytes
<1>2. Operators = {<<c>> : c \in OperatorStart} \cup Pairs \cup Triples
  BY DEF Operators, OperatorStart, Pairs, Triples
<1>3. s \in {<<c>> : c \in OperatorStart} <=> Len(s) = 1 /\ s[1] \in OperatorStart
  <2>1. \A c : s = <<c>> <=> Len(s) = 1 /\ s[1] = c BY <1>1, Singleton, Zenon
  <2> QED BY <2>1, Zenon
<1>4. s \in Pairs <=> Len(s) = 2 /\ <<s[1], s[2]>> \in Pairs
  <2>1. s \in Pairs => Len(s) = 2 BY DEF Pairs
  <2>2. Len(s) = 2 => s = <<s[1], s[2]>> BY <1>1, IsPair, Zenon
  <2> QED BY <2>1, <2>2, Zenon
<1>5. s \in Triples <=> Len(s) = 3 /\ <<s[1], s[2], s[3]>> \in Triples
  <2>1. s \in Triples => Len(s) = 3 BY DEF Triples
  <2>2. Len(s) = 3 => s = <<s[1], s[2], s[3]>> BY <1>1, IsTriple, Zenon
  <2> QED BY <2>1, <2>2, Zenon
<1>6. Lexeme("op", s) <=> s \in Operators
  BY DEF Lexeme
<1>7. /\ Len(s) = 1 <=> to = from + 1
      /\ Len(s) = 2 <=> to = from + 2
      /\ Len(s) = 3 <=> to = from + 3
      /\ s[1] = source[from + 1]
      /\ Len(s) >= 2 => s[2] = source[from + 2]
      /\ Len(s) >= 3 => s[3] = source[from + 3]
  BY <1>1, SMTT(30)
<1>8. Lexeme("op", s) <=>
        \/ Len(s) = 1 /\ s[1] \in OperatorStart
        \/ Len(s) = 2 /\ <<s[1], s[2]>> \in Pairs
        \/ Len(s) = 3 /\ <<s[1], s[2], s[3]>> \in Triples
  <2>1. s \in Operators <=> \/ s \in {<<c>> : c \in OperatorStart} \/ s \in Pairs \/ s \in Triples
    BY <1>2, Zenon
  <2> QED BY <2>1, <1>3, <1>4, <1>5, <1>6, Zenon
<1>9. /\ Len(s) = 2 => <<s[1], s[2]>> = <<source[from + 1], source[from + 2]>>
      /\ Len(s) = 3 => <<s[1], s[2], s[3]>> = <<source[from + 1], source[from + 2], source[from + 3]>>
  <2>1. CASE Len(s) = 2 BY <2>1, <1>7
  <2>2. CASE Len(s) = 3 BY <2>2, <1>7
  <2> QED BY <2>1, <2>2
<1> HIDE DEF s
<1> QED BY <1>7, <1>8, <1>9, Zenon DEF s

LEMMA SlashOp ==
    ASSUME source \in Sources, NEW from \in Nat, NEW to \in Nat, from < to, to <= Len(source),
           Lexeme("op", Text(from, to)), source[from + 1] = "/"
    PROVE  to <= from + 2 /\ (to = from + 2 => source[from + 2] = "=")
<1>1. CASE to = from + 1 BY <1>1
<1>2. CASE to = from + 2 /\ <<source[from + 1], source[from + 2]>> \in Pairs
  BY <1>2 DEF Pairs
<1>3. CASE to = from + 3 /\ <<source[from + 1], source[from + 2], source[from + 3]>> \in Triples
  BY <1>3 DEF Triples
<1> QED BY <1>1, <1>2, <1>3, OpText, Zenon

\* The first byte of a lexeme tells what it may be.
LEMMA FirstByte ==
    ASSUME source \in Sources, NEW from \in Nat, NEW to \in Nat, from < to, to <= Len(source),
           NEW kind \in Skipped \cup Meaningful, Lexeme(kind, Text(from, to))
    PROVE  /\ source[from + 1] \in Letters \cup Digits \cup Space \cup OperatorStart \cup {"quote", "'"}
           /\ source[from + 1] \in Letters => kind \in {"word", "underscore"}
           /\ source[from + 1] \in Digits => kind = "number"
           /\ source[from + 1] \in Space => kind = "space"
           /\ source[from + 1] = "quote" => kind = "string"
           /\ source[from + 1] = "'" => kind \in {"char", "label"}
           /\ source[from + 1] = "/" => kind \in {"doc", "line", "block", "op"}
           /\ source[from + 1] \in OperatorStart \ {"/"} => kind = "op"
<1> DEFINE c == source[from + 1]
<1>1. /\ kind = "word" => c \in Letters
      /\ kind = "underscore" => c \in Letters
      /\ kind = "number" => c \in Digits
      /\ kind = "string" => c = "quote"
      /\ kind = "char" => c = "'"
      /\ kind = "label" => c = "'"
      /\ kind = "doc" => c = "/"
      /\ kind = "line" => c = "/"
      /\ kind = "block" => c = "/"
      /\ kind = "space" => c \in Space
  BY WordText, UnderscoreText, NumberText, StringText, CharText, LabelText, DocText, LineText,
     BlockText, SpaceText DEF Letters
<1>2. kind = "op" => c \in OperatorStart
  BY OpText DEF Pairs, Triples, OperatorStart
<1> HIDE DEF c
<1>3. /\ c \in Letters => c \notin Digits \cup Space \cup OperatorStart \cup {"quote", "'", "/"}
      /\ c \in Digits => c \notin Space \cup OperatorStart \cup {"quote", "'", "/"}
      /\ c \in Space => c \notin OperatorStart \cup {"quote", "'", "/"}
      /\ c \in OperatorStart => c \notin {"quote", "'"}
      /\ "/" \in OperatorStart /\ "quote" # "'"
  BY DEF Letters, Digits, Space, OperatorStart
<1>4. kind \in {"word", "underscore", "number", "string", "char", "label", "doc", "op",
                "space", "line", "block"}
  BY DEF Skipped, Meaningful
<1>5. c \in Letters \cup Digits \cup Space \cup OperatorStart \cup {"quote", "'"} BY <1>1, <1>2, <1>3, <1>4
<1>6. c \in Letters => kind \in {"word", "underscore"} BY <1>1, <1>2, <1>3, <1>4
<1>7. c \in Digits => kind = "number" BY <1>1, <1>2, <1>3, <1>4
<1>8. c \in Space => kind = "space" BY <1>1, <1>2, <1>3, <1>4
<1>9. c = "quote" => kind = "string" BY <1>1, <1>2, <1>3, <1>4
<1>10. c = "'" => kind \in {"char", "label"} BY <1>1, <1>2, <1>3, <1>4
<1>11. c = "/" => kind \in {"doc", "line", "block", "op"} BY <1>1, <1>2, <1>3, <1>4
<1>12. c \in OperatorStart \ {"/"} => kind = "op" BY <1>1, <1>2, <1>3, <1>4
<1> QED BY <1>5, <1>6, <1>7, <1>8, <1>9, <1>10, <1>11, <1>12 DEF c

LEMMA PeekIs ==
    ASSUME source \in Sources, pos \in 0..Len(source), NEW n \in Nat
    PROVE  /\ pos + n < Len(source) => Peek(n) = source[pos + n + 1] /\ Peek(n) \in Bytes
           /\ pos + n >= Len(source) => Peek(n) = Eof
           /\ Eof \notin Bytes
<1>1. Eof \notin Bytes
  BY SourcesAssumption DEF Bytes, Ascii, Letters, Digits, Space, OperatorStart, Eof
<1> QED BY <1>1, SourceBytes DEF Peek

-----------------------------------------------------------------------------
(* Where the loops end, there is no longer lexeme.                         *)

\* The cursor is somewhere in the source.
Here == source \in Sources /\ pos \in 0..Len(source) /\ start \in 0..pos

LEMMA WordEnds ==
    ASSUME Here, WordOpen, ~InWord(Peek(0))
    PROVE  Longest("word", start, pos)
<1>1. /\ start \in Nat /\ pos \in Nat /\ start < pos /\ pos <= Len(source) /\ Len(source) \in Nat
      /\ pos < Len(source) => ~InWord(source[pos + 1])
  BY SourceBytes, PeekIs DEF Here, WordOpen
<1>2. Lexeme("word", Text(start, pos))
  <2>1. ~(pos = start + 1 /\ source[start + 1] = "underscore") BY <1>1 DEF WordOpen
  <2> QED BY <2>1, <1>1, WordText DEF WordOpen, Here
<1>3. ASSUME NEW other \in Skipped \cup Meaningful, NEW end \in (pos + 1)..Len(source),
             Lexeme(other, Text(start, end))
      PROVE  FALSE
  <2>1. end \in Nat /\ start < end /\ end <= Len(source) /\ pos + 1 \in (start + 2)..end BY <1>1
  <2>2. other \in {"word", "underscore"} BY <2>1, <1>1, <1>3, FirstByte DEF WordOpen, Here
  <2>3. other # "word" BY <2>1, <1>1, <1>3, WordText DEF Here
  <2>4. other # "underscore" BY <2>1, <1>1, <1>3, UnderscoreText DEF Here
  <2> QED BY <2>2, <2>3, <2>4
<1> QED BY <1>1, <1>2, <1>3 DEF Longest

LEMMA UnderscoreEnds ==
    ASSUME Here, Peek(0) = "underscore", ~InWord(Peek(1))
    PROVE  Longest("underscore", pos, pos + 1) /\ pos + 1 <= Len(source)
<1>1. /\ pos \in Nat /\ Len(source) \in Nat
      /\ pos < Len(source) /\ source[pos + 1] = "underscore"
      /\ pos + 1 < Len(source) => ~InWord(source[pos + 2])
  BY SourceBytes, PeekIs DEF Here, Eof
<1>2. Lexeme("underscore", Text(pos, pos + 1))
  BY <1>1, UnderscoreText DEF Here
<1>3. ASSUME NEW other \in Skipped \cup Meaningful, NEW end \in (pos + 2)..Len(source),
             Lexeme(other, Text(pos, end))
      PROVE  FALSE
  <2>1. end \in Nat /\ pos < end /\ end <= Len(source) /\ pos + 2 \in (pos + 2)..end BY <1>1
  <2>2. other \in {"word", "underscore"} BY <2>1, <1>1, <1>3, FirstByte DEF Here, Letters
  <2>3. other # "word" BY <2>1, <1>1, <1>3, WordText DEF Here
  <2>4. other # "underscore" BY <2>1, <1>1, <1>3, UnderscoreText DEF Here
  <2> QED BY <2>2, <2>3, <2>4
<1> QED BY <1>1, <1>2, <1>3 DEF Longest

LEMMA NumberEnds ==
    ASSUME Here, NumberOpen, ~InWord(Peek(0)), ~(Peek(0) = "." /\ Peek(1) \in Digits)
    PROVE  Longest("number", start, pos)
<1>1. /\ start \in Nat /\ pos \in Nat /\ start < pos /\ pos <= Len(source) /\ Len(source) \in Nat
      /\ pos < Len(source) => ~InWord(source[pos + 1])
      /\ pos + 1 < Len(source) => ~(source[pos + 1] = "." /\ source[pos + 2] \in Digits)
  BY SourceBytes, PeekIs DEF Here, NumberOpen
<1>2. Lexeme("number", Text(start, pos))
  <2>1. ASSUME NEW i \in (start + 2)..pos, ~InWord(source[i])
        PROVE  source[i] = "." /\ i < pos /\ source[i + 1] \in Digits
    <3>1. source[i] = "." /\ i < Len(source) /\ source[i + 1] \in Digits
      BY <2>1 DEF NumberOpen
    <3>2. i # pos BY <3>1, <1>1 DEF InWord
    <3> QED BY <3>1, <3>2, <1>1
  <2> QED BY <2>1, <1>1, NumberText DEF NumberOpen, Here
<1>3. ASSUME NEW other \in Skipped \cup Meaningful, NEW end \in (pos + 1)..Len(source),
             Lexeme(other, Text(start, end))
      PROVE  FALSE
  <2>1. end \in Nat /\ start < end /\ end <= Len(source) /\ pos + 1 \in (start + 2)..end BY <1>1
  <2>2. other = "number" BY <2>1, <1>1, <1>3, FirstByte DEF NumberOpen, Here
  <2>3. source[pos + 1] = "." /\ pos + 1 < end /\ source[pos + 2] \in Digits
    BY <2>1, <2>2, <1>1, <1>3, NumberText DEF Here
  <2> QED BY <2>1, <2>3, <1>1
<1> QED BY <1>1, <1>2, <1>3 DEF Longest

LEMMA LabelEnds ==
    ASSUME Here, LabelOpen, ~InWord(Peek(0)), pos # start + 1
    PROVE  Longest("label", start, pos)
<1>1. /\ start \in Nat /\ pos \in Nat /\ start + 1 < pos /\ pos <= Len(source) /\ Len(source) \in Nat
      /\ pos < Len(source) => ~InWord(source[pos + 1])
  BY SourceBytes, PeekIs DEF Here, LabelOpen
<1>2. Lexeme("label", Text(start, pos))
  BY <1>1, LabelText DEF LabelOpen, Here
<1>3. ASSUME NEW other \in Skipped \cup Meaningful, NEW end \in (pos + 1)..Len(source),
             Lexeme(other, Text(start, end))
      PROVE  FALSE
  <2>1. end \in Nat /\ start < end /\ end <= Len(source) /\ pos + 1 \in (start + 2)..end BY <1>1
  <2>2. other \in {"char", "label"} BY <2>1, <1>1, <1>3, FirstByte DEF LabelOpen, Here
  <2>3. other # "label" BY <2>1, <1>1, <1>3, LabelText DEF Here
  <2>4. other # "char" BY <2>1, <1>1, <1>3, CharText DEF LabelOpen, Here
  <2> QED BY <2>2, <2>3, <2>4
<1> QED BY <1>1, <1>2, <1>3 DEF Longest

LEMMA LabelEmpty ==
    ASSUME Here, LabelOpen, ~InWord(Peek(0)), pos = start + 1
    PROVE  \A kind \in Skipped \cup Meaningful : ~Starts(kind, start)
<1>1. /\ start \in Nat /\ pos \in Nat /\ pos <= Len(source) /\ Len(source) \in Nat
      /\ pos < Len(source) => ~InWord(source[pos + 1])
  BY SourceBytes, PeekIs DEF Here, LabelOpen
<1>2. ASSUME NEW other \in Skipped \cup Meaningful, NEW end \in (start + 1)..Len(source),
             Lexeme(other, Text(start, end))
      PROVE  FALSE
  <2>1. end \in Nat /\ start < end /\ end <= Len(source) BY <1>1
  <2>2. other \in {"char", "label"} BY <2>1, <1>1, <1>2, FirstByte DEF LabelOpen, Here
  <2>3. other # "label"
    <3>1. other = "label" => start + 1 < end /\ \A i \in (start + 2)..end : InWord(source[i])
      BY <2>1, <1>1, <1>2, LabelText DEF Here
    <3> QED BY <3>1, <2>1, <1>1
  <2>4. other # "char" BY <2>1, <1>1, <1>2, CharText DEF LabelOpen, Here
  <2> QED BY <2>2, <2>3, <2>4
<1> QED BY <1>2 DEF Starts

LEMMA SpaceEnds ==
    ASSUME Here, Peek(0) \in Space
    PROVE  Longest("space", pos, pos + 1) /\ pos + 1 <= Len(source)
<1>1. pos \in Nat /\ Len(source) \in Nat /\ pos < Len(source) /\ source[pos + 1] \in Space
  BY SourceBytes, PeekIs DEF Here, Eof, Space
<1>2. Lexeme("space", Text(pos, pos + 1))
  BY <1>1, SpaceText DEF Here
<1>3. ASSUME NEW other \in Skipped \cup Meaningful, NEW end \in (pos + 2)..Len(source),
             Lexeme(other, Text(pos, end))
      PROVE  FALSE
  <2>1. end \in Nat /\ pos < end /\ end <= Len(source) BY <1>1
  <2>2. other = "space" BY <2>1, <1>1, <1>3, FirstByte DEF Here
  <2> QED BY <2>1, <2>2, <1>1, <1>3, SpaceText DEF Here
<1> QED BY <1>1, <1>2, <1>3 DEF Longest

LEMMA DocEnds ==
    ASSUME Here, DocOpen, Peek(0) \in {Eof, "\n"}
    PROVE  Longest("doc", start, pos)
<1>1. /\ start \in Nat /\ pos \in Nat /\ start + 3 <= pos /\ pos <= Len(source) /\ Len(source) \in Nat
      /\ pos < Len(source) => source[pos + 1] = "\n"
  BY SourceBytes, PeekIs DEF Here, DocOpen
<1>2. Lexeme("doc", Text(start, pos))
  BY <1>1, DocText DEF DocOpen, Here
<1>3. ASSUME NEW other \in Skipped \cup Meaningful, NEW end \in (pos + 1)..Len(source),
             Lexeme(other, Text(start, end))
      PROVE  FALSE
  <2>1. end \in Nat /\ start < end /\ end <= Len(source) /\ pos + 1 \in (start + 1)..end BY <1>1
  <2>2. other \in {"doc", "line", "block", "op"} BY <2>1, <1>1, <1>3, FirstByte DEF DocOpen, Here
  <2>3. other # "doc" BY <2>1, <1>1, <1>3, DocText DEF Here
  <2>4. other # "line" BY <2>1, <1>1, <1>3, LineText DEF Here
  <2>5. other # "block" BY <2>1, <1>1, <1>3, BlockText DEF DocOpen, Here
  <2>6. other # "op" BY <2>1, <1>1, <1>3, SlashOp DEF DocOpen, Here
  <2> QED BY <2>2, <2>3, <2>4, <2>5, <2>6
<1> QED BY <1>1, <1>2, <1>3 DEF Longest

LEMMA LineEnds ==
    ASSUME Here, NEW from \in Nat, LineOpen(from), Peek(0) \in {Eof, "\n"}
    PROVE  Longest("line", from, pos)
<1>1. /\ pos \in Nat /\ from + 2 <= pos /\ pos <= Len(source) /\ Len(source) \in Nat
      /\ pos < Len(source) => source[pos + 1] = "\n"
  BY SourceBytes, PeekIs DEF Here, LineOpen
<1>2. Lexeme("line", Text(from, pos))
  BY <1>1, LineText DEF LineOpen, Here
<1>3. ASSUME NEW other \in Skipped \cup Meaningful, NEW end \in (pos + 1)..Len(source),
             Lexeme(other, Text(from, end))
      PROVE  FALSE
  <2>1. end \in Nat /\ from < end /\ end <= Len(source) /\ pos + 1 \in (from + 1)..end BY <1>1
  <2>2. other \in {"doc", "line", "block", "op"} BY <2>1, <1>1, <1>3, FirstByte DEF LineOpen, Here
  <2>3. other # "doc" BY <2>1, <1>1, <1>3, DocText DEF Here
  <2>4. other # "line" BY <2>1, <1>1, <1>3, LineText DEF Here
  <2>5. other # "block" BY <2>1, <1>1, <1>3, BlockText DEF LineOpen, Here
  <2>6. other # "op" BY <2>1, <1>1, <1>3, SlashOp DEF LineOpen, Here
  <2> QED BY <2>2, <2>3, <2>4, <2>5, <2>6
<1> QED BY <1>1, <1>2, <1>3 DEF Longest

\* At the end of the source (n = 0), or behind the next two bytes, which close it.
LEMMA BlockEnds ==
    ASSUME Here, NEW from \in Nat, BlockOpen(from), NEW n \in {0, 2},
           n = 0 => Peek(0) = Eof,
           n = 2 => Peek(0) = "*" /\ Peek(1) = "/"
    PROVE  Longest("block", from, pos + n) /\ pos + n <= Len(source)
<1>1. /\ pos \in Nat /\ from + 2 <= pos /\ pos + n <= Len(source) /\ Len(source) \in Nat
      /\ n = 0 => pos = Len(source)
      /\ n = 2 => source[pos + 1] = "*" /\ source[pos + 2] = "/"
  BY SourceBytes, PeekIs DEF Here, BlockOpen, Eof
<1>2. Lexeme("block", Text(from, pos + n))
  <2>1. ASSUME NEW i \in (from + 3)..(pos + n - 2)
        PROVE  ~(source[i] = "*" /\ source[i + 1] = "/")
    <3>1. i \in (from + 3)..pos /\ i < Len(source) BY <1>1
    <3> QED BY <3>1 DEF BlockOpen
  <2> QED BY <2>1, <1>1, BlockText DEF BlockOpen, Here
<1>3. ASSUME NEW other \in Skipped \cup Meaningful, NEW end \in (pos + n + 1)..Len(source),
             Lexeme(other, Text(from, end))
      PROVE  FALSE
  <2>1. end \in Nat /\ from < end /\ end <= Len(source) /\ n = 2 /\ pos + 1 \in (from + 3)..(end - 2)
    BY <1>1
  <2>2. other \in {"doc", "line", "block", "op"} BY <2>1, <1>1, <1>3, FirstByte DEF BlockOpen, Here
  <2>3. other # "doc" BY <2>1, <1>1, <1>3, DocText DEF BlockOpen, Here
  <2>4. other # "line" BY <2>1, <1>1, <1>3, LineText DEF BlockOpen, Here
  <2>5. other # "block"
    <3>1. other = "block" => ~(source[pos + 1] = "*" /\ source[pos + 1 + 1] = "/")
      BY <2>1, <1>1, <1>3, BlockText DEF Here
    <3> QED BY <3>1, <2>1, <1>1
  <2>6. other # "op" BY <2>1, <1>1, <1>3, SlashOp DEF BlockOpen, Here
  <2> QED BY <2>2, <2>3, <2>4, <2>5, <2>6
<1> QED BY <1>1, <1>2, <1>3 DEF Longest

\* A run of backslashes has one length.
LEMMA OneParity ==
    ASSUME NEW from \in Nat, NEW i \in Nat
    PROVE  ~(Backslashes(from, i, 0) /\ Backslashes(from, i, 1))
<1>1. SUFFICES ASSUME NEW k \in 0..(i - from - 2), k % 2 = 0,
                      \A j \in (i - k)..(i - 1) : source[j] = "\\", source[i - k - 1] # "\\",
                      NEW m \in 0..(i - from - 2), m % 2 = 1,
                      \A j \in (i - m)..(i - 1) : source[j] = "\\", source[i - m - 1] # "\\"
               PROVE  FALSE
  BY DEF Backslashes
<1>2. CASE k < m
  <2>1. i - k - 1 \in (i - m)..(i - 1) BY <1>2
  <2> QED BY <2>1, <1>1
<1>3. CASE m < k
  <2>1. i - m - 1 \in (i - k)..(i - 1) BY <1>3
  <2> QED BY <2>1, <1>1
<1>4. CASE m = k BY <1>1, <1>4
<1> QED BY <1>2, <1>3, <1>4

LEMMA StringEnds ==
    ASSUME Here, StringOpen, Peek(0) = "quote"
    PROVE  Longest("string", start, pos + 1) /\ pos + 1 <= Len(source)
<1>1. /\ start \in Nat /\ pos \in Nat /\ start < pos /\ pos < Len(source) /\ Len(source) \in Nat
      /\ source[pos + 1] = "quote"
  BY SourceBytes, PeekIs DEF Here, StringOpen, Eof
<1>2. ~Backslashes(start, pos + 1, 1)
  BY <1>1, OneParity DEF StringOpen
<1>3. Lexeme("string", Text(start, pos + 1))
  BY <1>1, <1>2, StringText DEF StringOpen, Here
<1>4. ASSUME NEW other \in Skipped \cup Meaningful, NEW end \in (pos + 2)..Len(source),
             Lexeme(other, Text(start, end))
      PROVE  FALSE
  <2>1. end \in Nat /\ start < end /\ end <= Len(source) /\ pos + 1 \in (start + 2)..(end - 1) BY <1>1
  <2>2. other = "string" BY <2>1, <1>1, <1>4, FirstByte DEF StringOpen, Here
  <2> QED BY <2>1, <2>2, <1>1, <1>2, <1>4, StringText DEF Here
<1> QED BY <1>1, <1>3, <1>4 DEF Longest

LEMMA StringUnclosed ==
    ASSUME Here, StringOpen, Peek(0) = Eof
    PROVE  \A kind \in Skipped \cup Meaningful : ~Starts(kind, start)
<1>1. start \in Nat /\ pos \in Nat /\ start < pos /\ pos = Len(source) /\ Len(source) \in Nat
  BY SourceBytes, PeekIs DEF Here, StringOpen
<1>2. ASSUME NEW other \in Skipped \cup Meaningful, NEW end \in (start + 1)..Len(source),
             Lexeme(other, Text(start, end))
      PROVE  FALSE
  <2>1. end \in Nat /\ start < end /\ end <= Len(source) BY <1>1
  <2>2. other = "string" BY <2>1, <1>1, <1>2, FirstByte DEF StringOpen, Here
  <2>3. start + 1 < end /\ source[end] = "quote" /\ ~Backslashes(start, end, 1)
    BY <2>1, <2>2, <1>1, <1>2, StringText DEF Here
  <2>4. end \in (start + 2)..pos BY <2>1, <2>3, <1>1
  <2> QED BY <2>3, <2>4 DEF StringOpen
<1> QED BY <1>2 DEF Starts

LEMMA CharEnds ==
    ASSUME Here, Peek(0) = "'",
           NEW n \in {2, 3}, Peek(n) = "'", Peek(1) = "\\" <=> n = 3
    PROVE  Longest("char", pos, pos + n + 1) /\ pos + n + 1 <= Len(source)
<1>1. /\ pos \in Nat /\ Len(source) \in Nat /\ pos + n < Len(source)
      /\ source[pos + 1] = "'" /\ source[pos + n + 1] = "'"
      /\ source[pos + 2] = "\\" <=> n = 3
  BY SourceBytes, PeekIs DEF Here, Eof
<1>2. Lexeme("char", Text(pos, pos + n + 1))
  BY <1>1, CharText DEF Here
<1>3. ASSUME NEW other \in Skipped \cup Meaningful, NEW end \in (pos + n + 2)..Len(source),
             Lexeme(other, Text(pos, end))
      PROVE  FALSE
  <2>1. end \in Nat /\ pos < end /\ end <= Len(source) BY <1>1
  <2>2. other \in {"char", "label"} BY <2>1, <1>1, <1>3, FirstByte DEF Here
  <2>3. other # "label"
    <3>1. other = "label" => \A i \in (pos + 2)..end : InWord(source[i])
      BY <2>1, <1>1, <1>3, LabelText DEF Here
    <3>2. pos + n + 1 \in (pos + 2)..end BY <1>1
    <3>3. ~InWord("'") BY DEF InWord, Letters, Digits
    <3> QED BY <3>1, <3>2, <3>3, <1>1
  <2>4. other # "char" BY <2>1, <1>1, <1>3, CharText DEF Here
  <2> QED BY <2>2, <2>3, <2>4
<1> QED BY <1>1, <1>2, <1>3 DEF Longest

\* A backslash behind the quote, and no quote two bytes behind that.
LEMMA CharBroken ==
    ASSUME Here, Peek(0) = "'", Peek(1) = "\\", Peek(3) # "'"
    PROVE  \A kind \in Skipped \cup Meaningful : ~Starts(kind, pos)
<1>1. /\ pos \in Nat /\ Len(source) \in Nat /\ pos + 1 < Len(source)
      /\ source[pos + 1] = "'" /\ source[pos + 2] = "\\"
      /\ pos + 3 < Len(source) => source[pos + 4] # "'"
  BY SourceBytes, PeekIs DEF Here, Eof
<1>2. ASSUME NEW other \in Skipped \cup Meaningful, NEW end \in (pos + 1)..Len(source),
             Lexeme(other, Text(pos, end))
      PROVE  FALSE
  <2>1. end \in Nat /\ pos < end /\ end <= Len(source) BY <1>1
  <2>2. other \in {"char", "label"} BY <2>1, <1>1, <1>2, FirstByte DEF Here
  <2>3. other # "label"
    <3>1. other = "label" => pos + 1 < end /\ \A i \in (pos + 2)..end : InWord(source[i])
      BY <2>1, <1>1, <1>2, LabelText DEF Here
    <3>2. ~InWord("\\") BY DEF InWord, Letters, Digits
    <3> QED BY <3>1, <3>2, <2>1, <1>1
  <2>4. other # "char" BY <2>1, <1>1, <1>2, CharText DEF Here
  <2> QED BY <2>2, <2>3, <2>4
<1> QED BY <1>2 DEF Starts

LEMMA NothingStarts ==
    ASSUME Here,
           Peek(0) \notin OperatorStart \cup Letters \cup Digits \cup Space \cup {"quote", "'", Eof}
    PROVE  (\A kind \in Skipped \cup Meaningful : ~Starts(kind, pos)) /\ pos + 1 <= Len(source)
<1>1. /\ pos \in Nat /\ Len(source) \in Nat /\ pos < Len(source)
      /\ source[pos + 1] \notin Letters \cup Digits \cup Space \cup OperatorStart \cup {"quote", "'"}
  BY SourceBytes, PeekIs DEF Here
<1>2. ASSUME NEW other \in Skipped \cup Meaningful, NEW end \in (pos + 1)..Len(source),
             Lexeme(other, Text(pos, end))
      PROVE  FALSE
  <2>1. end \in Nat /\ pos < end /\ end <= Len(source) BY <1>1
  <2> QED BY <2>1, <1>1, <1>2, FirstByte DEF Here
<1> QED BY <1>1, <1>2 DEF Starts

-----------------------------------------------------------------------------
(* The order in which longer operators are tried.                          *)

LEMMA MinIs ==
    ASSUME NEW S \in SUBSET Nat, NEW x \in S, \A y \in S : x <= y
    PROVE  Min(S) = x
<1> DEFINE P(y) == y \in S /\ \A z \in S : y <= z
<1>1. P(x) OBVIOUS
<1>2. Min(S) = CHOOSE y : P(y) BY DEF Min
<1>3. P(CHOOSE y : P(y)) BY <1>1, Zenon
<1>4. P(Min(S)) BY <1>2, <1>3
<1>5. Min(S) \in Nat /\ Min(S) <= x /\ x <= Min(S) BY <1>1, <1>4
<1> QED BY <1>5

\* SelectInSeq of what Follows.
Selected(seq) ==
    LET I == {i \in 1..Len(seq) : Follows(seq[i])}
    IN IF I # {} THEN Min(I) ELSE 0

LEMMA SelectNone == Selected(<<>>) = 0
BY DEF Selected

LEMMA SelectOfOne ==
    ASSUME NEW a
    PROVE  Selected(<<a>>) = IF Follows(a) THEN 1 ELSE 0
<1> DEFINE I == {i \in 1..Len(<<a>>) : Follows(<<a>>[i])}
<1>1. Selected(<<a>>) = IF I # {} THEN Min(I) ELSE 0
  BY DEF Selected
<1>2. I \in SUBSET {1} /\ (1 \in I <=> Follows(a))
  OBVIOUS
<1> HIDE DEF I
<1>3. CASE Follows(a)
  <2>1. Min(I) = 1 BY <1>2, <1>3, MinIs
  <2> QED BY <2>1, <1>1, <1>2, <1>3
<1>4. CASE ~Follows(a)
  <2>1. I = {} BY <1>2, <1>4
  <2> QED BY <2>1, <1>1, <1>4
<1> QED BY <1>3, <1>4

LEMMA SelectOfTwo ==
    ASSUME NEW a, NEW b
    PROVE  Selected(<<a, b>>) = IF Follows(a) THEN 1 ELSE IF Follows(b) THEN 2 ELSE 0
<1> DEFINE I == {i \in 1..Len(<<a, b>>) : Follows(<<a, b>>[i])}
<1>1. Selected(<<a, b>>) = IF I # {} THEN Min(I) ELSE 0
  BY DEF Selected
<1>2. I \in SUBSET (1..2) /\ (1 \in I <=> Follows(a)) /\ (2 \in I <=> Follows(b))
  OBVIOUS
<1> HIDE DEF I
<1>3. CASE Follows(a)
  <2>1. Min(I) = 1 BY <1>2, <1>3, MinIs
  <2> QED BY <2>1, <1>1, <1>2, <1>3
<1>4. CASE ~Follows(a) /\ Follows(b)
  <2>1. Min(I) = 2 BY <1>2, <1>4, MinIs
  <2> QED BY <2>1, <1>1, <1>2, <1>4
<1>5. CASE ~Follows(a) /\ ~Follows(b)
  <2>1. I = {} BY <1>2, <1>5
  <2> QED BY <2>1, <1>1, <1>5
<1> QED BY <1>3, <1>4, <1>5

LEMMA SelectOfThree ==
    ASSUME NEW a, NEW b, NEW c
    PROVE  Selected(<<a, b, c>>) =
              IF Follows(a) THEN 1 ELSE IF Follows(b) THEN 2 ELSE IF Follows(c) THEN 3 ELSE 0
<1> DEFINE I == {i \in 1..Len(<<a, b, c>>) : Follows(<<a, b, c>>[i])}
<1>1. Selected(<<a, b, c>>) = IF I # {} THEN Min(I) ELSE 0
  BY DEF Selected
<1>2. /\ I \in SUBSET (1..3)
      /\ (1 \in I <=> Follows(a)) /\ (2 \in I <=> Follows(b)) /\ (3 \in I <=> Follows(c))
  OBVIOUS
<1> HIDE DEF I
<1>3. CASE Follows(a)
  <2>1. Min(I) = 1 BY <1>2, <1>3, MinIs
  <2> QED BY <2>1, <1>1, <1>2, <1>3
<1>4. CASE ~Follows(a) /\ Follows(b)
  <2>1. Min(I) = 2 BY <1>2, <1>4, MinIs
  <2> QED BY <2>1, <1>1, <1>2, <1>4
<1>5. CASE ~Follows(a) /\ ~Follows(b) /\ Follows(c)
  <2>1. Min(I) = 3 BY <1>2, <1>5, MinIs
  <2> QED BY <2>1, <1>1, <1>2, <1>5
<1>6. CASE ~Follows(a) /\ ~Follows(b) /\ ~Follows(c)
  <2>1. I = {} BY <1>2, <1>6
  <2> QED BY <2>1, <1>1, <1>6
<1> QED BY <1>3, <1>4, <1>5, <1>6

LEMMA FollowsIs ==
    /\ \A c : Follows(<<c>>) <=> Peek(1) = c
    /\ \A c, d : Follows(<<c, d>>) <=> Peek(1) = c /\ Peek(2) = d
BY DEF Follows

\* How many bytes LexOperator takes.
Taken ==
    LET longer == Longer(Peek(0))
        i == Selected(longer)
    IN 1 + IF i = 0 THEN 0 ELSE Len(longer[i])

\* No operator of more bytes is ahead.
Foremost(n) ==
    /\ n = 3 => <<Peek(0), Peek(1), Peek(2)>> \in Triples
    /\ n = 2 => <<Peek(0), Peek(1)>> \in Pairs
    /\ n < 3 => <<Peek(0), Peek(1), Peek(2)>> \notin Triples
    /\ n < 2 => <<Peek(0), Peek(1)>> \notin Pairs

LEMMA TakenIs ==
    ASSUME Peek(0) \in OperatorStart
    PROVE  Taken \in 1..3 /\ Foremost(Taken)
<1> DEFINE c == Peek(0)
           longer == Longer(c)
<1>0. Taken = 1 + IF Selected(longer) = 0 THEN 0 ELSE Len(longer[Selected(longer)])
  BY DEF Taken
<1>1. CASE c = "*"
  <2>1. longer = <<<<"*", "=">>, <<"*">>, <<"=">>>> BY <1>1 DEF Longer
  <2>2. Taken = IF Peek(1) = "*" /\ Peek(2) = "=" THEN 3
                ELSE IF Peek(1) \in {"*", "="} THEN 2 ELSE 1
    <3>1. Selected(longer) = IF Peek(1) = "*" /\ Peek(2) = "=" THEN 1
                             ELSE IF Peek(1) = "*" THEN 2 ELSE IF Peek(1) = "=" THEN 3 ELSE 0
      BY <2>1, SelectOfThree, FollowsIs
    <3>2. Len(longer[1]) = 2 /\ Len(longer[2]) = 1 /\ Len(longer[3]) = 1
      BY <2>1
    <3>3. CASE Peek(1) = "*" /\ Peek(2) = "="
      <4>1. Selected(longer) = 1 BY <3>3, <3>1
      <4>2. longer[Selected(longer)] = longer[1] BY <4>1, Zenon
      <4>3. Taken = 1 + Len(longer[1]) BY <4>1, <4>2, <1>0
      <4> HIDE DEF longer, c
      <4> QED BY <4>3, <3>3, <3>2
    <3>4. CASE Peek(1) = "*" /\ Peek(2) # "="
      <4>1. Selected(longer) = 2 BY <3>4, <3>1
      <4>2. longer[Selected(longer)] = longer[2] BY <4>1, Zenon
      <4>3. Taken = 1 + Len(longer[2]) BY <4>1, <4>2, <1>0
      <4> HIDE DEF longer, c
      <4> QED BY <4>3, <3>4, <3>2
    <3>5. CASE Peek(1) = "="
      <4>1. Selected(longer) = 3 BY <3>5, <3>1
      <4>2. longer[Selected(longer)] = longer[3] BY <4>1, Zenon
      <4>3. Taken = 1 + Len(longer[3]) BY <4>1, <4>2, <1>0
      <4> HIDE DEF longer, c
      <4> QED BY <4>3, <3>5, <3>2
    <3>6. CASE Peek(1) \notin {"*", "="}
      <4>1. Selected(longer) = 0 BY <3>6, <3>1
      <4> QED BY <4>1, <3>6, <3>2, <1>0
    <3> QED BY <3>3, <3>4, <3>5, <3>6
  <2> QED BY <1>1, <2>2 DEF Foremost, Pairs, Triples
<1>2. CASE c = "."
  <2>1. longer = <<<<".", "=">>, <<".">>>> BY <1>2 DEF Longer
  <2>2. Taken = IF Peek(1) = "." /\ Peek(2) = "=" THEN 3 ELSE IF Peek(1) = "." THEN 2 ELSE 1
    <3>1. Selected(longer) = IF Peek(1) = "." /\ Peek(2) = "=" THEN 1 ELSE IF Peek(1) = "." THEN 2 ELSE 0
      BY <2>1, SelectOfTwo, FollowsIs
    <3>2. Len(longer[1]) = 2 /\ Len(longer[2]) = 1
      BY <2>1
    <3>3. CASE Peek(1) = "." /\ Peek(2) = "="
      <4>1. Selected(longer) = 1 BY <3>3, <3>1
      <4>2. longer[Selected(longer)] = longer[1] BY <4>1, Zenon
      <4>3. Taken = 1 + Len(longer[1]) BY <4>1, <4>2, <1>0
      <4> HIDE DEF longer, c
      <4> QED BY <4>3, <3>3, <3>2
    <3>4. CASE Peek(1) = "." /\ Peek(2) # "="
      <4>1. Selected(longer) = 2 BY <3>4, <3>1
      <4>2. longer[Selected(longer)] = longer[2] BY <4>1, Zenon
      <4>3. Taken = 1 + Len(longer[2]) BY <4>1, <4>2, <1>0
      <4> HIDE DEF longer, c
      <4> QED BY <4>3, <3>4, <3>2
    <3>5. CASE Peek(1) # "."
      <4>1. Selected(longer) = 0 BY <3>5, <3>1
      <4> QED BY <4>1, <3>5, <3>2, <1>0
    <3> QED BY <3>3, <3>4, <3>5
  <2> QED BY <1>2, <2>2 DEF Foremost, Pairs, Triples
<1>3. CASE c = "-"
  <2>1. longer = <<<<"=">>, <<">">>>> BY <1>3 DEF Longer
  <2>2. Taken = IF Peek(1) \in {"=", ">"} THEN 2 ELSE 1
    BY <2>1, SelectOfTwo, FollowsIs DEF Taken
  <2> QED BY <1>3, <2>2 DEF Foremost, Pairs, Triples
<1>4. CASE c \in {"<", ">"}
  <2>1. longer = <<<<"=">>, <<c>>>> BY <1>4 DEF Longer
  <2>2. Taken = IF Peek(1) \in {"=", c} THEN 2 ELSE 1
    BY <2>1, SelectOfTwo, FollowsIs, SMTT(30) DEF Taken
  <2> QED BY <1>4, <2>2 DEF Foremost, Pairs, Triples
<1>5. CASE c \in {"&", "|"}
  <2>1. longer = <<<<c>>>> BY <1>5 DEF Longer
  <2>2. Taken = IF Peek(1) = c THEN 2 ELSE 1
    BY <2>1, SelectOfOne, FollowsIs DEF Taken
  <2> QED BY <1>5, <2>2 DEF Foremost, Pairs, Triples
<1>6. CASE c = "~"
  <2>1. longer = <<<<">">>>> BY <1>6 DEF Longer
  <2>2. Taken = IF Peek(1) = ">" THEN 2 ELSE 1
    BY <2>1, SelectOfOne, FollowsIs, SMTT(30) DEF Taken
  <2> QED BY <1>6, <2>2 DEF Foremost, Pairs, Triples
<1>7. CASE c \in {":", "=", "+", "/", "%", "!"}
  <2>1. longer = <<<<"=">>>> BY <1>7 DEF Longer
  <2>2. Taken = IF Peek(1) = "=" THEN 2 ELSE 1
    <3>1. Selected(longer) = IF Peek(1) = "=" THEN 1 ELSE 0
      BY <2>1, SelectOfOne, FollowsIs
    <3>2. Len(longer[1]) = 1
      BY <2>1
    <3>3. CASE Peek(1) = "="
      <4>1. Selected(longer) = 1 BY <3>3, <3>1
      <4>2. longer[Selected(longer)] = longer[1] BY <4>1, Zenon
      <4>3. Taken = 1 + Len(longer[1]) BY <4>1, <4>2, <1>0
      <4> HIDE DEF longer, c
      <4> QED BY <4>3, <3>3, <3>2
    <3>4. CASE Peek(1) # "="
      <4>1. Selected(longer) = 0 BY <3>4, <3>1
      <4> QED BY <4>1, <3>4, <3>2, <1>0
    <3> QED BY <3>3, <3>4
  <2> QED BY <1>7, <2>2 DEF Foremost, Pairs, Triples
<1>8. CASE c \in {"?", "^", "lbrace", "rbrace", "[", "]", "(", ")", "comma", "semicolon", "@"}
  <2>1. longer = <<>> BY <1>8 DEF Longer
  <2>2. Taken = 1
    BY <2>1, SelectNone DEF Taken
  <2> QED BY <1>8, <2>2 DEF Foremost, Pairs, Triples
<1> QED BY <1>1, <1>2, <1>3, <1>4, <1>5, <1>6, <1>7, <1>8 DEF OperatorStart

LEMMA OpEnds ==
    ASSUME Here, Peek(0) \in OperatorStart, ~CommentAhead, ~DocAhead,
           NEW n \in 1..3, Foremost(n)
    PROVE  Longest("op", pos, pos + n) /\ pos + n <= Len(source)
<1>1. /\ pos \in Nat /\ Len(source) \in Nat /\ pos < Len(source)
      /\ source[pos + 1] = Peek(0) /\ source[pos + 1] \in OperatorStart
      /\ pos + 1 < Len(source) => Peek(1) = source[pos + 2]
      /\ pos + 1 >= Len(source) => Peek(1) = Eof
      /\ pos + 2 < Len(source) => Peek(2) = source[pos + 3]
      /\ pos + 2 >= Len(source) => Peek(2) = Eof
  <2>1. Eof \notin OperatorStart BY DEF Eof, OperatorStart
  <2> QED BY <2>1, SourceBytes, PeekIs DEF Here
<1>2. <<Peek(0), Peek(1)>> \in Pairs => Peek(1) # Eof
  BY DEF Pairs, Eof
<1>3. <<Peek(0), Peek(1), Peek(2)>> \in Triples => Peek(1) # Eof /\ Peek(2) # Eof
  BY DEF Triples, Eof
<1>4. pos + n <= Len(source) /\ Lexeme("op", Text(pos, pos + n))
  <2>1. CASE n = 1
    <3>1. pos + 1 \in Nat /\ pos < pos + 1 /\ pos + 1 <= Len(source) BY <1>1
    <3> QED BY <2>1, <3>1, <1>1, OpText DEF Here
  <2>2. CASE n = 2
    <3>1. pos + 2 \in Nat /\ pos < pos + 2 /\ pos + 2 <= Len(source) BY <2>2, <1>1, <1>2 DEF Foremost
    <3>2. <<source[pos + 1], source[pos + 2]>> \in Pairs BY <2>2, <3>1, <1>1 DEF Foremost
    <3> QED BY <2>2, <3>1, <3>2, <1>1, OpText DEF Here
  <2>3. CASE n = 3
    <3>1. pos + 3 \in Nat /\ pos < pos + 3 /\ pos + 3 <= Len(source) BY <2>3, <1>1, <1>3 DEF Foremost
    <3>2. <<source[pos + 1], source[pos + 2], source[pos + 3]>> \in Triples
      BY <2>3, <3>1, <1>1 DEF Foremost
    <3> QED BY <2>3, <3>1, <3>2, <1>1, OpText DEF Here
  <2> QED BY <2>1, <2>2, <2>3
<1>5. ASSUME NEW other \in Skipped \cup Meaningful, NEW end \in (pos + n + 1)..Len(source),
             Lexeme(other, Text(pos, end))
      PROVE  FALSE
  <2>1. end \in Nat /\ pos < end /\ end <= Len(source) BY <1>1
  <2>2. other = "op" \/ (source[pos + 1] = "/" /\ other \in {"doc", "line", "block"})
    BY <2>1, <1>1, <1>5, FirstByte DEF Here
  <2>3. other # "op"
    <3>1. SUFFICES ASSUME other = "op" PROVE FALSE OBVIOUS
    <3>2. \/ end = pos + 2 /\ <<source[pos + 1], source[pos + 2]>> \in Pairs
          \/ end = pos + 3 /\ <<source[pos + 1], source[pos + 2], source[pos + 3]>> \in Triples
      BY <3>1, <2>1, <1>5, OpText DEF Here
    <3> QED BY <3>2, <2>1, <1>1 DEF Foremost
  <2>4. source[pos + 1] = "/" => ~(Peek(1) = "/" \/ Peek(1) = "*")
    <3>1. See(<<"/", "/">>) <=> Peek(0) = "/" /\ Peek(1) = "/" BY DEF See
    <3>2. See(<<"/", "*">>) <=> Peek(0) = "/" /\ Peek(1) = "*" BY DEF See
    <3> QED BY <1>1, <3>1, <3>2 DEF CommentAhead
  <2>5. other \notin {"doc", "line", "block"}
    <3>1. other \in {"doc", "line", "block"} =>
            source[pos + 1] = "/" /\ pos + 1 < Len(source) /\ source[pos + 2] \in {"/", "*"}
      BY <2>1, <1>1, <1>5, DocText, LineText, BlockText DEF Here
    <3> QED BY <3>1, <2>4, <1>1
  <2> QED BY <2>2, <2>3, <2>5
<1> QED BY <1>1, <1>4, <1>5 DEF Longest

-----------------------------------------------------------------------------
(* What is skipped, and what a step does to the invariant.                 *)

LEMMA NothingSkipped ==
    ASSUME NEW at \in Nat
    PROVE  OnlySkipped(at, at)
<1> DEFINE cuts == {at}
<1>1. cuts \in SUBSET (at..at) /\ {at, at} \subseteq cuts OBVIOUS
<1>2. \A p \in cuts \ {at} : \E next \in cuts, kind \in Skipped : Longest(kind, p, next)
  OBVIOUS
<1> QED BY <1>1, <1>2 DEF OnlySkipped

LEMMA OneMoreSkipped ==
    ASSUME NEW from \in Nat, NEW to \in Nat, NEW next \in Nat, NEW kind \in Skipped,
           OnlySkipped(from, to), Longest(kind, to, next)
    PROVE  OnlySkipped(from, next)
<1>1. PICK cuts \in SUBSET (from..to) :
        /\ {from, to} \subseteq cuts
        /\ \A at \in cuts \ {to} : \E n \in cuts, k \in Skipped : Longest(k, at, n)
  BY DEF OnlySkipped
<1>2. to < next BY DEF Longest
<1> DEFINE more == cuts \cup {next}
<1>3. more \in SUBSET (from..next) /\ {from, next} \subseteq more
  BY <1>1, <1>2
<1>4. ASSUME NEW at \in more \ {next}
      PROVE  \E n \in more, k \in Skipped : Longest(k, at, n)
  <2>1. CASE at = to BY <2>1
  <2>2. CASE at # to BY <2>2, <1>1
  <2> QED BY <2>1, <2>2
<1> QED BY <1>3, <1>4 DEF OnlySkipped

LEMMA SkippedForward ==
    ASSUME NEW from, NEW to, OnlySkipped(from, to), from \in Nat, to \in Nat
    PROVE  from <= to
BY DEF OnlySkipped

\* What is said of places in the source alone stays true.
LEMMA SameSource ==
    ASSUME source' = source
    PROVE  /\ \A kind, from, to : Longest(kind, from, to)' <=> Longest(kind, from, to)
           /\ \A from, to : OnlySkipped(from, to)' <=> OnlySkipped(from, to)
           /\ \A kind, from : Starts(kind, from)' <=> Starts(kind, from)
           /\ \A from, i, parity : Backslashes(from, i, parity)' <=> Backslashes(from, i, parity)
<1>1. \A kind, from, to : Longest(kind, from, to)' <=> Longest(kind, from, to)
  BY DEF Longest, Text
<1>2. \A from, to : OnlySkipped(from, to)' <=> OnlySkipped(from, to)
  BY <1>1 DEF OnlySkipped
<1>3. \A kind, from : Starts(kind, from)' <=> Starts(kind, from)
  BY DEF Starts, Text
<1>4. \A from, i, parity : Backslashes(from, i, parity)' <=> Backslashes(from, i, parity)
  BY DEF Backslashes
<1> QED BY <1>1, <1>2, <1>3, <1>4

TokenSet(n) == [kind : Kinds, from : 0..n, to : 0..n]

LEMMA TokensBefore ==
    ASSUME NEW n \in Nat, NEW m \in Nat, n <= m, NEW ts \in Seq(TokenSet(n))
    PROVE  ts \in Seq(TokenSet(m))
<1>1. TokenSet(n) \subseteq TokenSet(m) BY DEF TokenSet
<1> QED BY <1>1

\* A step that leaves the tokens alone.
LEMMA Moves ==
    ASSUME Inv, UNCHANGED <<source, tokens>>, mode # "done", mode' \in Modes \ {"done"},
           pos' \in pos..Len(source), start' \in 0..pos', InProgress'
    PROVE  Inv'
<1>1. TypeOK'
  <2>1. pos \in Nat /\ pos' \in Nat /\ pos <= pos' /\ pos' \in 0..Len(source')
    BY SourceBytes DEF Inv, TypeOK
  <2>2. tokens' \in Seq(TokenSet(pos'))
    BY <2>1, TokensBefore DEF Inv, TypeOK, TokenSet
  <2> QED BY <2>1, <2>2 DEF Inv, TypeOK, TokenSet
<1>2. SlicesWhole' BY DEF Inv, SlicesWhole
<1>3. LastJustified' BY SameSource DEF Inv, LastJustified, Justified
<1>4. NothingLost' BY SameSource DEF Inv, NothingLost, Modes
<1> QED BY <1>1, <1>2, <1>3, <1>4 DEF Inv

CutsWhole(t) ==
    t.kind \in Slices =>
        \A cut \in {t.from, t.to} : cut < Len(source) => source[cut + 1] \notin Inner

\* A step that emits a token.
LEMMA Emits ==
    ASSUME Inv, mode # "done",
           NEW kind \in Kinds, NEW from \in 0..pos, NEW n \in Nat, pos + n <= Len(source),
           EmitFrom(kind, from, n),
           OnlySkipped(LastEnd, from),
           Justified(Token(kind, from, pos + n)), CutsWhole(Token(kind, from, pos + n))
    PROVE  Inv'
<1> DEFINE L == Len(tokens)
<1>0. PICK T : T = Token(kind, from, pos + n) OBVIOUS
<1>1. /\ tokens' = Append(tokens, T) /\ pos' = pos + n /\ start' = from /\ source' = source
      /\ mode' = IF kind = Eof THEN "done" ELSE "next"
  BY <1>0 DEF EmitFrom
<1>2. /\ pos \in Nat /\ pos' \in Nat /\ pos <= pos' /\ pos' \in 0..Len(source) /\ from \in Nat
      /\ from <= pos' /\ T \in TokenSet(pos')
      /\ T.kind = kind /\ T.from = from /\ T.to = pos'
  BY <1>0, <1>1, SourceBytes DEF Inv, TypeOK, TokenSet, Token
<1>3. tokens \in Seq(TokenSet(pos')) /\ tokens \in Seq(TokenSet(pos)) /\ L \in Nat
  <2>1. tokens \in Seq(TokenSet(pos)) BY DEF Inv, TypeOK, TokenSet
  <2>2. tokens \in Seq(TokenSet(pos')) BY <2>1, <1>2, TokensBefore
  <2> QED BY <2>1, <2>2
<1>4. /\ tokens' \in Seq(TokenSet(pos')) /\ Len(tokens') = L + 1 /\ tokens'[L + 1] = T
      /\ \A i \in 1..L : tokens'[i] = tokens[i]
  BY <1>1, <1>2, <1>3, AppendProperties
<1>5. Last(tokens') = T /\ LastEnd' = pos' /\ tokens' # <<>> /\ DOMAIN tokens' = 1..(L + 1)
      /\ DOMAIN tokens = 1..L
  BY <1>2, <1>3, <1>4 DEF Last, LastEnd
<1>6. LastEnd \in Nat /\ LastEnd <= from /\ (L > 0 => tokens[L].to = LastEnd)
      /\ (tokens = <<>> <=> L = 0)
  <2>1. L > 0 => tokens[L] \in TokenSet(pos) BY <1>3
  <2>2. tokens = <<>> <=> L = 0 BY <1>3, EmptySeq
  <2>3. LastEnd \in Nat BY <2>1, <2>2, <1>3 DEF LastEnd, TokenSet
  <2> QED BY <2>2, <2>3, <1>2, <1>3, SkippedForward DEF LastEnd
<1>7. TypeOK'
  <2>1. ASSUME NEW i \in 1..(L + 1)
        PROVE  tokens'[i].from <= tokens'[i].to /\ (i > 1 => tokens'[i - 1].to <= tokens'[i].from)
    <3>1. CASE i \in 1..L
      <4>1. i > 1 => i - 1 \in 1..L BY <3>1
      <4> QED BY <3>1, <4>1, <1>3, <1>4, <1>5 DEF Inv, TypeOK
    <3>2. CASE i = L + 1
      <4>1. i > 1 => L > 0 /\ i - 1 = L /\ L \in 1..L BY <3>2, <1>3
      <4> QED BY <3>2, <4>1, <1>2, <1>4, <1>6
    <3> QED BY <3>1, <3>2, <1>3
  <2> QED BY <2>1, <1>1, <1>2, <1>4, <1>5 DEF TypeOK, Inv, TokenSet, Modes
<1>8. InProgress'
  <2>1. OnlySkipped(pos', pos') BY <1>2, NothingSkipped
  <2>2. OnlySkipped(LastEnd, pos)' BY <2>1, <1>1, <1>5, SameSource
  <2> QED BY <2>2, <1>1, <1>5 DEF InProgress
<1>9. SlicesWhole'
  <2>1. CutsWhole(T) BY <1>0
  <2> QED BY <2>1, <1>1, <1>2, <1>4, <1>5 DEF Inv, SlicesWhole, CutsWhole
<1>10. LastJustified'
  <2>1. Justified(T) BY <1>0
  <2>2. Justified(T)' BY <2>1, <1>1, SameSource DEF Justified
  <2> QED BY <2>2, <1>5 DEF LastJustified
<1>11. NothingLost'
  <2>1. PICK e \in Nat : e = LastEnd BY <1>6
  <2>2. OnlySkipped(e, from)' BY <2>1, <1>1, SameSource
  <2>3. (IF Len(tokens) = 1 THEN 0 ELSE tokens[Len(tokens) - 1].to)' = e
    <3>1. CASE L = 0 BY <3>1, <2>1, <1>4, <1>6 DEF LastEnd
    <3>2. CASE L > 0
      <4>1. L \in 1..L /\ L + 1 # 1 /\ L + 1 - 1 = L BY <3>2, <1>3
      <4> QED BY <4>1, <3>2, <2>1, <1>4, <1>6
    <3> QED BY <3>1, <3>2, <1>3
  <2>4. (Last(tokens).kind = Eof)' <=> (mode = "done")'
    BY <1>1, <1>2, <1>5
  <2> QED BY <2>2, <2>3, <2>4, <1>2, <1>5 DEF NothingLost
<1> QED BY <1>1, <1>7, <1>8, <1>9, <1>10, <1>11 DEF Inv

-----------------------------------------------------------------------------
(* The actions.                                                            *)

LEMMA InvHere ==
    ASSUME Inv
    PROVE  Here /\ pos \in Nat /\ start \in Nat /\ Len(source) \in Nat /\ LastEnd \in Nat
<1>1. Here /\ pos \in Nat /\ start \in Nat /\ Len(source) \in Nat
  BY SourceBytes DEF Inv, TypeOK, Here
<1>2. LastEnd \in Nat
  <2>1. tokens \in Seq(TokenSet(pos)) BY DEF Inv, TypeOK, TokenSet
  <2>2. tokens # <<>> => Len(tokens) \in 1..Len(tokens) BY <2>1, EmptySeq
  <2>3. tokens # <<>> => tokens[Len(tokens)] \in TokenSet(pos) BY <2>1, <2>2
  <2> QED BY <2>3, <1>1 DEF LastEnd, TokenSet
<1> QED BY <1>1, <1>2

LEMMA SkippedStays ==
    ASSUME UNCHANGED <<source, tokens>>, NEW at, OnlySkipped(LastEnd, at)
    PROVE  /\ OnlySkipped(LastEnd, at)'
           /\ pos' = at => OnlySkipped(LastEnd, pos)'
           /\ start' = at => OnlySkipped(LastEnd, start)'
<1>1. LastEnd' = LastEnd BY DEF LastEnd
<1> QED BY <1>1, SameSource

\* In mode "next" or "skip" the cursor is behind what was skipped.
LEMMA SkipMoves ==
    ASSUME Inv, UNCHANGED <<source, tokens>>, mode # "done", mode' \in {"next", "skip"},
           pos' \in pos..Len(source), start' = start, OnlySkipped(LastEnd, pos')
    PROVE  Inv'
<1>1. PICK at : at = pos' OBVIOUS
<1>2. OnlySkipped(LastEnd, pos)' BY <1>1, SkippedStays
<1>3. InProgress' BY <1>2 DEF InProgress
<1> QED BY <1>3, Moves, InvHere DEF Here, Modes

LEMMA SkipWhitespaceStep ==
    ASSUME Inv, SkipWhitespace PROVE Inv'
<1>1. /\ mode = "next" /\ mode' = "next" /\ pos' = pos + 1 /\ UNCHANGED <<source, start, tokens>>
      /\ Peek(0) \in Space
  BY DEF SkipWhitespace, Stay, Goto
<1>2. Longest("space", pos, pos + 1) /\ pos + 1 <= Len(source)
  BY <1>1, SpaceEnds, InvHere
<1>3. OnlySkipped(LastEnd, pos + 1)
  BY <1>1, <1>2, OneMoreSkipped, InvHere DEF Inv, InProgress, Skipped
<1> QED BY <1>1, <1>2, <1>3, SkipMoves, InvHere

LEMMA StartSkipStep ==
    ASSUME Inv, StartSkip PROVE Inv'
BY SkipMoves, InvHere DEF StartSkip, Goto, Here, Inv, InProgress

LEMMA SkipCommentsStep ==
    ASSUME Inv, SkipComments PROVE Inv'
<1>1. mode = "skip" /\ UNCHANGED <<source, start, tokens>> /\ OnlySkipped(LastEnd, pos)
  BY DEF SkipComments, Goto, Inv, InProgress
<1>2. PICK at \in 0..pos : at = pos BY InvHere
<1>3. CASE See(<<"/", "/">>) /\ Peek(2) # "/" /\ Goto("line", 2)
  <2>1. mode' = "line" /\ pos' = pos + 2 BY <1>3 DEF Goto
  <2>2. Peek(0) = "/" /\ Peek(1) = "/" BY <1>3 DEF See
  <2>3. /\ pos + 2 <= Len(source) /\ source[pos + 1] = "/" /\ source[pos + 2] = "/"
        /\ pos + 2 < Len(source) => source[pos + 3] # "/"
    <3>1. pos + 2 <= Len(source) /\ source[pos + 1] = "/" /\ source[pos + 2] = "/"
      BY <2>2, PeekIs, InvHere DEF Here, Eof
    <3>2. pos + 2 < Len(source) => Peek(2) = source[pos + 3]
      BY PeekIs, InvHere DEF Here
    <3> QED BY <3>1, <3>2, <1>3
  <2>4. LineOpen(at)'
    BY <2>1, <2>3, <1>1, <1>2, InvHere DEF LineOpen
  <2>5. InProgress'
    BY <2>1, <2>4, <1>1, <1>2, SkippedStays, InvHere DEF InProgress
  <2> QED BY <2>1, <2>3, <2>5, <1>1, Moves, InvHere DEF Here, Modes
<1>4. CASE See(<<"/", "*">>) /\ Goto("block", 2)
  <2>1. mode' = "block" /\ pos' = pos + 2 BY <1>4 DEF Goto
  <2>2. Peek(0) = "/" /\ Peek(1) = "*" BY <1>4 DEF See
  <2>3. pos + 2 <= Len(source) /\ source[pos + 1] = "/" /\ source[pos + 2] = "*"
    BY <2>2, <1>4, PeekIs, InvHere, SMTT(30) DEF Here, Eof
  <2>4. BlockOpen(at)'
    BY <2>1, <2>3, <1>1, <1>2, InvHere DEF BlockOpen
  <2>5. InProgress'
    BY <2>1, <2>4, <1>1, <1>2, SkippedStays, InvHere DEF InProgress
  <2> QED BY <2>1, <2>3, <2>5, <1>1, Moves, InvHere DEF Here, Modes
<1>5. CASE Goto("next", 0)
  BY <1>5, <1>1, SkipMoves, InvHere DEF Goto, Here
<1> QED BY <1>3, <1>4, <1>5 DEF SkipComments

LEMMA SkipLineStep ==
    ASSUME Inv, SkipLine PROVE Inv'
<1>1. mode = "line" /\ UNCHANGED <<source, start, tokens>>
  BY DEF SkipLine, Goto, Stay
<1>2. PICK from \in 0..pos : OnlySkipped(LastEnd, from) /\ LineOpen(from)
  BY <1>1 DEF Inv, InProgress
<1>3. CASE Peek(0) \in {Eof, "\n"}
  <2>1. Longest("line", from, pos) BY <1>2, <1>3, LineEnds, InvHere
  <2>2. OnlySkipped(LastEnd, pos) BY <2>1, <1>2, OneMoreSkipped, InvHere DEF Skipped
  <2> QED BY <2>2, <1>1, <1>3, SkipMoves, InvHere DEF SkipLine, Goto, Here
<1>4. CASE Peek(0) \notin {Eof, "\n"}
  <2>1. mode' = "line" /\ pos' = pos + 1 BY <1>1, <1>4 DEF SkipLine, Goto, Stay
  <2>2. pos + 1 <= Len(source) /\ source[pos + 1] # "\n" BY <1>4, PeekIs, InvHere DEF Here
  <2>3. LineOpen(from)' BY <2>1, <2>2, <1>1, <1>2, InvHere DEF LineOpen
  <2>4. InProgress' BY <2>1, <2>3, <1>1, <1>2, SkippedStays, InvHere DEF InProgress
  <2> QED BY <2>1, <2>2, <2>4, <1>1, Moves, InvHere DEF Here, Modes
<1> QED BY <1>3, <1>4

LEMMA SkipBlockStep ==
    ASSUME Inv, SkipBlock PROVE Inv'
<1>1. mode = "block" /\ UNCHANGED <<source, start, tokens>>
  BY DEF SkipBlock, Goto, Stay
<1>2. PICK from \in 0..pos : OnlySkipped(LastEnd, from) /\ BlockOpen(from)
  BY <1>1 DEF Inv, InProgress
<1>3. CASE Peek(0) = Eof
  <2>1. Longest("block", from, pos + 0) BY <1>2, <1>3, BlockEnds, InvHere
  <2>2. OnlySkipped(LastEnd, pos) BY <2>1, <1>2, OneMoreSkipped, InvHere DEF Skipped
  <2> QED BY <2>2, <1>1, <1>3, SkipMoves, InvHere DEF SkipBlock, Goto, Here
<1>4. CASE Peek(0) # Eof /\ See(<<"*", "/">>)
  <2>1. mode' = "skip" /\ pos' = pos + 2 BY <1>1, <1>4 DEF SkipBlock, Goto
  <2>2. Peek(0) = "*" /\ Peek(1) = "/" BY <1>4 DEF See
  <2>3. Longest("block", from, pos + 2) /\ pos + 2 <= Len(source) BY <2>2, <1>2, BlockEnds, InvHere
  <2>4. OnlySkipped(LastEnd, pos + 2) BY <2>3, <1>2, OneMoreSkipped, InvHere DEF Skipped
  <2> QED BY <2>1, <2>3, <2>4, <1>1, SkipMoves, InvHere DEF Here
<1>5. CASE Peek(0) # Eof /\ ~See(<<"*", "/">>)
  <2>1. mode' = "block" /\ pos' = pos + 1 BY <1>1, <1>5 DEF SkipBlock, Goto, Stay
  <2>2. ~(Peek(0) = "*" /\ Peek(1) = "/") BY <1>5 DEF See
  <2>3. /\ pos + 1 <= Len(source)
        /\ pos + 1 < Len(source) => ~(source[pos + 1] = "*" /\ source[pos + 2] = "/")
    BY <2>2, <1>5, PeekIs, InvHere DEF Here
  <2>4. BlockOpen(from)' BY <2>1, <2>3, <1>1, <1>2, InvHere DEF BlockOpen
  <2>5. InProgress' BY <2>1, <2>4, <1>1, <1>2, SkippedStays, InvHere DEF InProgress
  <2> QED BY <2>1, <2>3, <2>5, <1>1, Moves, InvHere DEF Here, Modes
<1> QED BY <1>3, <1>4, <1>5

\* The kinds that FirstByte and Emits tell apart.
LEMMA KindsOfTokens ==
    /\ Meaningful \subseteq Kinds /\ {"error", Eof} \subseteq Kinds
    /\ Meaningful \cap {"error", Eof} = {} /\ Eof # "error"
    /\ Slices \subseteq Meaningful
BY DEF Meaningful, Kinds, Slices, Eof

\* A token that is the longest lexeme, and one that reports an error.
LEMMA EmitsLexeme ==
    ASSUME Inv, mode # "done",
           NEW kind \in Meaningful, NEW from \in 0..pos, NEW n \in Nat, pos + n <= Len(source),
           EmitFrom(kind, from, n), OnlySkipped(LastEnd, from),
           Longest(kind, from, pos + n), CutsWhole(Token(kind, from, pos + n))
    PROVE  Inv'
<1>1. Justified(Token(kind, from, pos + n))
  BY KindsOfTokens DEF Justified, Token
<1> QED BY <1>1, Emits, KindsOfTokens

LEMMA EmitsError ==
    ASSUME Inv, mode # "done",
           NEW from \in 0..pos, NEW n \in Nat, pos + n <= Len(source),
           EmitFrom("error", from, n), OnlySkipped(LastEnd, from),
           \A kind \in Skipped \cup Meaningful : ~Starts(kind, from)
    PROVE  Inv'
<1>1. Justified(Token("error", from, pos + n))
  BY KindsOfTokens DEF Justified, Token
<1>2. CutsWhole(Token("error", from, pos + n))
  BY DEF CutsWhole, Token, Slices
<1> QED BY <1>1, <1>2, Emits, KindsOfTokens

\* A byte in front of which a text is cut: the end, one behind an ASCII
\* character, or such a character itself.
LEMMA NotInner ==
    ASSUME source \in Sources, NEW cut \in Nat,
           \/ cut >= Len(source)
           \/ source[cut + 1] \in Ascii
           \/ cut > 0 /\ source[cut] \in Ascii
    PROVE  cut < Len(source) => source[cut + 1] \notin Inner
<1>1. Inner \cap Ascii = {} /\ Lead \cap Ascii = {} BY SourcesAssumption
<1>2. cut < Len(source) => cut + 1 \in 1..Len(source) /\ cut + 1 - 1 = cut BY SourceBytes
<1> QED BY <1>1, <1>2, SourceBytes

LEMMA StartDocStep ==
    ASSUME Inv, StartDoc PROVE Inv'
<1>1. /\ mode = "next" /\ mode' = "doc" /\ pos' = pos + 3 /\ start' = pos /\ UNCHANGED <<source, tokens>>
      /\ Peek(0) = "/" /\ Peek(1) = "/" /\ Peek(2) = "/"
  BY DEF StartDoc, Begin, DocAhead, See
<1>2. /\ pos + 3 <= Len(source)
      /\ source[pos + 1] = "/" /\ source[pos + 2] = "/" /\ source[pos + 3] = "/"
  <2>1. /\ source \in Sources /\ pos \in 0..Len(source) /\ pos \in Nat /\ Len(source) \in Nat
        /\ pos + 0 = pos /\ pos + 0 + 1 = pos + 1 /\ pos + 1 + 1 = pos + 2 /\ pos + 2 + 1 = pos + 3
    BY InvHere, SourceBytes DEF Here
  <2>2. Eof # "/" BY DEF Eof
  <2>3. ASSUME NEW n \in Nat, Peek(n) = "/"
        PROVE  pos + n < Len(source) /\ source[pos + n + 1] = "/"
    BY <2>1, <2>2, <2>3, PeekIs
  <2>4. source[pos + 1] = "/" BY <1>1, <2>1, <2>3
  <2>5. source[pos + 2] = "/" BY <1>1, <2>1, <2>3
  <2>6. pos + 2 < Len(source) /\ source[pos + 3] = "/" BY <1>1, <2>1, <2>3
  <2> QED BY <2>1, <2>4, <2>5, <2>6
<1>3. DocOpen' BY <1>1, <1>2, InvHere DEF DocOpen
<1>4. PICK at : at = pos OBVIOUS
<1>5. OnlySkipped(LastEnd, at) BY <1>1, <1>4 DEF Inv, InProgress
<1>6. InProgress' BY <1>1, <1>3, <1>4, <1>5, SkippedStays DEF InProgress
<1> QED BY <1>1, <1>2, <1>6, Moves, InvHere DEF Here, Modes

LEMMA LexDocStep ==
    ASSUME Inv, LexDoc PROVE Inv'
<1>1. mode = "doc" /\ OnlySkipped(LastEnd, start) /\ DocOpen /\ source \in Sources
  BY DEF LexDoc, Inv, InProgress
<1>2. CASE Peek(0) \in {Eof, "\n"}
  <2>1. EmitFrom("doc", start, 0) BY <1>2 DEF LexDoc, Emit
  <2>2. Longest("doc", start, pos + 0) BY <1>1, <1>2, DocEnds, InvHere
  <2>3. source[start + 1] \in Ascii BY <1>1 DEF DocOpen, Ascii, OperatorStart
  <2>4. pos >= Len(source) \/ source[pos + 1] \in Ascii
    BY <1>2, PeekIs, InvHere DEF Here, Ascii, Space
  <2>5. CutsWhole(Token("doc", start, pos + 0))
    BY <2>3, <2>4, <1>1, NotInner, InvHere DEF CutsWhole, Token
  <2> QED BY <2>1, <2>2, <2>5, <1>1, EmitsLexeme, InvHere DEF Here, Meaningful
<1>3. CASE Peek(0) \notin {Eof, "\n"}
  <2>1. mode' = "doc" /\ pos' = pos + 1 /\ UNCHANGED <<source, start, tokens>>
    BY <1>1, <1>3 DEF LexDoc, Goto, Stay
  <2>2. pos + 1 <= Len(source) /\ source[pos + 1] # "\n" BY <1>3, PeekIs, InvHere DEF Here
  <2>3. DocOpen' BY <2>1, <2>2, <1>1, InvHere DEF DocOpen
  <2>4. PICK at : at = start OBVIOUS
  <2>5. InProgress' BY <2>1, <2>3, <2>4, <1>1, SkippedStays DEF InProgress
  <2> QED BY <2>1, <2>2, <2>5, <1>1, Moves, InvHere DEF Here, Modes
<1> QED BY <1>2, <1>3

LEMMA LexEofStep ==
    ASSUME Inv, LexEof PROVE Inv'
<1>1. mode = "next" /\ Peek(0) = Eof /\ EmitFrom(Eof, pos, 0) /\ OnlySkipped(LastEnd, pos)
  BY DEF LexEof, EmitWhole, Inv, InProgress
<1>2. pos = Len(source) BY <1>1, PeekIs, InvHere DEF Here
<1>3. Justified(Token(Eof, pos, pos + 0))
  BY <1>2, KindsOfTokens, InvHere DEF Justified, Token
<1>4. CutsWhole(Token(Eof, pos, pos + 0))
  BY DEF CutsWhole, Token, Slices, Eof
<1> QED BY <1>1, <1>2, <1>3, <1>4, Emits, KindsOfTokens, InvHere

LEMMA LexOperatorStep ==
    ASSUME Inv, LexOperator PROVE Inv'
<1>1. /\ mode = "next" /\ Peek(0) \in OperatorStart /\ ~CommentAhead /\ ~DocAhead
      /\ OnlySkipped(LastEnd, pos)
  BY DEF LexOperator, Inv, InProgress
<1>2. EmitFrom("op", pos, Taken)
  BY DEF LexOperator, EmitWhole, Taken, Selected, SelectInSeq
<1>3. PICK n \in 1..3 : n = Taken /\ Foremost(n) BY <1>1, TakenIs
<1>4. Longest("op", pos, pos + n) /\ pos + n <= Len(source) BY <1>1, <1>3, OpEnds, InvHere
<1>5. CutsWhole(Token("op", pos, pos + n)) BY DEF CutsWhole, Token, Slices
<1> QED BY <1>1, <1>2, <1>3, <1>4, <1>5, EmitsLexeme, InvHere DEF Meaningful

LEMMA LexUnexpectedStep ==
    ASSUME Inv, LexUnexpected PROVE Inv'
<1>1. mode = "next" /\ EmitFrom("error", pos, 1) /\ OnlySkipped(LastEnd, pos)
  BY DEF LexUnexpected, EmitWhole, Inv, InProgress
<1>2. (\A kind \in Skipped \cup Meaningful : ~Starts(kind, pos)) /\ pos + 1 <= Len(source)
  BY NothingStarts, InvHere DEF LexUnexpected
<1> QED BY <1>1, <1>2, EmitsError, InvHere

LEMMA LexUnderscoreStep ==
    ASSUME Inv, LexUnderscore PROVE Inv'
<1>1. mode = "next" /\ EmitFrom("underscore", pos, 1) /\ OnlySkipped(LastEnd, pos)
  BY DEF LexUnderscore, EmitWhole, Inv, InProgress
<1>2. Longest("underscore", pos, pos + 1) /\ pos + 1 <= Len(source)
  BY UnderscoreEnds, InvHere DEF LexUnderscore
<1>3. CutsWhole(Token("underscore", pos, pos + 1)) BY DEF CutsWhole, Token, Slices
<1> QED BY <1>1, <1>2, <1>3, EmitsLexeme, InvHere DEF Meaningful

LEMMA StartIdentifierStep ==
    ASSUME Inv, StartIdentifier PROVE Inv'
<1>1. /\ mode = "next" /\ mode' = "word" /\ pos' = pos + 1 /\ start' = pos /\ UNCHANGED <<source, tokens>>
      /\ Peek(0) \in Letters /\ (Peek(0) = "underscore" => InWord(Peek(1)))
  BY DEF StartIdentifier, Begin
<1>2. /\ pos + 1 <= Len(source) /\ source[pos + 1] \in Letters
      /\ source[pos + 1] = "underscore" => pos + 1 < Len(source) /\ InWord(source[pos + 2])
  <2>1. Eof \notin Letters /\ ~InWord(Eof) BY DEF Eof, Letters, InWord, Digits
  <2>2. source \in Sources /\ pos \in 0..Len(source) /\ Len(source) \in Nat
    BY InvHere, SourceBytes DEF Here
  <2>3. pos + 1 <= Len(source) /\ source[pos + 1] = Peek(0) BY <2>1, <2>2, <1>1, PeekIs
  <2>4. InWord(Peek(1)) => pos + 1 < Len(source) /\ source[pos + 2] = Peek(1)
    BY <2>1, <2>2, PeekIs, SMTT(30)
  <2> QED BY <2>3, <2>4, <1>1
<1>3. WordOpen' BY <1>1, <1>2, InvHere DEF WordOpen
<1>4. PICK at : at = pos OBVIOUS
<1>5. OnlySkipped(LastEnd, at) BY <1>1, <1>4 DEF Inv, InProgress
<1>6. InProgress' BY <1>1, <1>3, <1>4, <1>5, SkippedStays DEF InProgress
<1> QED BY <1>1, <1>2, <1>6, Moves, InvHere DEF Here, Modes

\* The end of a token whose last byte is ASCII.
LEMMA WholeBehind ==
    ASSUME source \in Sources, NEW kind, NEW from \in Nat, NEW to \in Nat, from < to,
           source[from + 1] \in Ascii, source[to] \in Ascii
    PROVE  CutsWhole(Token(kind, from, to))
BY NotInner DEF CutsWhole, Token

LEMMA LexIdentifierStep ==
    ASSUME Inv, LexIdentifier PROVE Inv'
<1>1. mode = "word" /\ OnlySkipped(LastEnd, start) /\ WordOpen /\ source \in Sources
  BY DEF LexIdentifier, Inv, InProgress
<1>2. CASE ~InWord(Peek(0))
  <2>1. EmitFrom("word", start, 0) BY <1>2 DEF LexIdentifier, Emit
  <2>2. Longest("word", start, pos + 0) BY <1>1, <1>2, WordEnds, InvHere
  <2>3. source[start + 1] \in Ascii /\ source[pos] \in Ascii /\ start < pos
    BY <1>1, InvHere DEF WordOpen, Ascii, InWord
  <2>4. CutsWhole(Token("word", start, pos + 0)) BY <2>3, <1>1, WholeBehind, InvHere
  <2> QED BY <2>1, <2>2, <2>4, <1>1, EmitsLexeme, InvHere DEF Here, Meaningful
<1>3. CASE InWord(Peek(0))
  <2>1. mode' = "word" /\ pos' = pos + 1 /\ UNCHANGED <<source, start, tokens>>
    BY <1>1, <1>3 DEF LexIdentifier, Goto, Stay
  <2>2. ~InWord(Eof) BY DEF Eof, Letters, InWord, Digits
  <2>3. pos + 1 <= Len(source) /\ InWord(source[pos + 1]) BY <2>2, <1>3, PeekIs, InvHere DEF Here
  <2>4. WordOpen' BY <2>1, <2>3, <1>1, InvHere DEF WordOpen
  <2>5. PICK at : at = start OBVIOUS
  <2>6. InProgress' BY <2>1, <2>4, <2>5, <1>1, SkippedStays DEF InProgress
  <2> QED BY <2>1, <2>3, <2>6, <1>1, Moves, InvHere DEF Here, Modes
<1> QED BY <1>2, <1>3

LEMMA StartNumberStep ==
    ASSUME Inv, StartNumber PROVE Inv'
<1>1. /\ mode = "next" /\ mode' = "number" /\ pos' = pos + 1 /\ start' = pos /\ UNCHANGED <<source, tokens>>
      /\ Peek(0) \in Digits
  BY DEF StartNumber, Begin
<1>2. pos + 1 <= Len(source) /\ source[pos + 1] \in Digits
  <2>1. Eof \notin Digits BY DEF Eof, Digits
  <2> QED BY <2>1, <1>1, PeekIs, InvHere DEF Here
<1>3. NumberOpen' BY <1>1, <1>2, InvHere DEF NumberOpen
<1>4. PICK at : at = pos OBVIOUS
<1>5. OnlySkipped(LastEnd, at) BY <1>1, <1>4 DEF Inv, InProgress
<1>6. InProgress' BY <1>1, <1>3, <1>4, <1>5, SkippedStays DEF InProgress
<1> QED BY <1>1, <1>2, <1>6, Moves, InvHere DEF Here, Modes

LEMMA LexNumberStep ==
    ASSUME Inv, LexNumber PROVE Inv'
<1>1. mode = "number" /\ OnlySkipped(LastEnd, start) /\ NumberOpen /\ source \in Sources
  BY DEF LexNumber, Inv, InProgress
<1>2. CASE ~(InWord(Peek(0)) \/ (Peek(0) = "." /\ Peek(1) \in Digits))
  <2>1. EmitFrom("number", start, 0) BY <1>2 DEF LexNumber, Emit
  <2>2. Longest("number", start, pos + 0) BY <1>1, <1>2, NumberEnds, InvHere
  <2>3. source[start + 1] \in Ascii /\ source[pos] \in Ascii /\ start < pos
    BY <1>1, InvHere DEF NumberOpen, Ascii, InWord, OperatorStart
  <2>4. CutsWhole(Token("number", start, pos + 0)) BY <2>3, <1>1, WholeBehind, InvHere
  <2> QED BY <2>1, <2>2, <2>4, <1>1, EmitsLexeme, InvHere DEF Here, Meaningful
<1>3. CASE InWord(Peek(0)) \/ (Peek(0) = "." /\ Peek(1) \in Digits)
  <2>1. mode' = "number" /\ pos' = pos + 1 /\ UNCHANGED <<source, start, tokens>>
    BY <1>1, <1>3 DEF LexNumber, Goto, Stay
  <2>2. ~InWord(Eof) /\ Eof \notin Digits /\ Eof # "." BY DEF Eof, Letters, InWord, Digits
  <2>3. /\ pos + 1 <= Len(source)
        /\ \/ InWord(source[pos + 1])
           \/ source[pos + 1] = "." /\ pos + 1 < Len(source) /\ source[pos + 2] \in Digits
    BY <2>2, <1>3, PeekIs, InvHere DEF Here
  <2>4. NumberOpen' BY <2>1, <2>3, <1>1, InvHere DEF NumberOpen
  <2>5. PICK at : at = start OBVIOUS
  <2>6. InProgress' BY <2>1, <2>4, <2>5, <1>1, SkippedStays DEF InProgress
  <2> QED BY <2>1, <2>3, <2>6, <1>1, Moves, InvHere DEF Here, Modes
<1> QED BY <1>2, <1>3

LEMMA NoneBehind ==
    ASSUME NEW from \in Nat, NEW i \in Nat, from + 2 <= i, source[i - 1] # "\\"
    PROVE  Backslashes(from, i, 0)
<1>1. 0 \in 0..(i - from - 2) /\ 0 % 2 = 0 OBVIOUS
<1>2. \A j \in (i - 0)..(i - 1) : source[j] = "\\" OBVIOUS
<1>3. source[i - 0 - 1] # "\\"
  <2>1. i - 0 - 1 = i - 1 OBVIOUS
  <2> QED BY <2>1
<1> QED BY <1>1, <1>2, <1>3, Zenon DEF Backslashes

\* One more backslash, and two more.
LEMMA OneBehind ==
    ASSUME NEW from \in Nat, NEW i \in Nat, Backslashes(from, i, 0), source[i] = "\\"
    PROVE  Backslashes(from, i + 1, 1)
<1>1. PICK k \in 0..(i - from - 2) :
        k % 2 = 0 /\ (\A j \in (i - k)..(i - 1) : source[j] = "\\") /\ source[i - k - 1] # "\\"
  BY DEF Backslashes
<1>2. /\ k + 1 \in 0..(i + 1 - from - 2) /\ (k + 1) % 2 = 1
      /\ i + 1 - (k + 1) = i - k /\ i + 1 - (k + 1) - 1 = i - k - 1 /\ i + 1 - 1 = i
  BY <1>1
<1>3. \A j \in (i - k)..i : source[j] = "\\" BY <1>1
<1> QED BY <1>1, <1>2, <1>3 DEF Backslashes

LEMMA TwoBehind ==
    ASSUME NEW from \in Nat, NEW i \in Nat, Backslashes(from, i, 0),
           source[i] = "\\", source[i + 1] = "\\"
    PROVE  Backslashes(from, i + 2, 0)
<1>1. PICK k \in 0..(i - from - 2) :
        k % 2 = 0 /\ (\A j \in (i - k)..(i - 1) : source[j] = "\\") /\ source[i - k - 1] # "\\"
  BY DEF Backslashes
<1>2. PICK n : n = k + 2 OBVIOUS
<1>3. PICK p : p = i + 2 OBVIOUS
<1>4. /\ n \in 0..(p - from - 2) /\ n % 2 = 0 /\ p \in Nat
      /\ p - n = i - k /\ p - n - 1 = i - k - 1 /\ p - 1 = i + 1
  BY <1>1, <1>2, <1>3
<1>5. \A j \in (i - k)..(i + 1) : source[j] = "\\" BY <1>1
<1>6. (\A j \in (p - n)..(p - 1) : source[j] = "\\") /\ source[p - n - 1] # "\\"
  BY <1>1, <1>4, <1>5
<1>7. Backslashes(from, p, 0) BY <1>4, <1>6 DEF Backslashes
<1> QED BY <1>3, <1>7

LEMMA StartStringStep ==
    ASSUME Inv, StartString PROVE Inv'
<1>1. /\ mode = "next" /\ mode' = "string" /\ pos' = pos + 1 /\ start' = pos /\ UNCHANGED <<source, tokens>>
      /\ Peek(0) = "quote"
  BY DEF StartString, Begin
<1>2. pos + 1 <= Len(source) /\ source[pos + 1] = "quote"
  BY <1>1, PeekIs, InvHere DEF Here, Eof
<1>3. Backslashes(pos, pos + 2, 0)
  BY <1>2, NoneBehind, InvHere
<1>4. StringOpen' BY <1>1, <1>2, <1>3, SameSource, InvHere DEF StringOpen
<1>5. PICK at : at = pos OBVIOUS
<1>6. OnlySkipped(LastEnd, at) BY <1>1, <1>5 DEF Inv, InProgress
<1>7. InProgress' BY <1>1, <1>4, <1>5, <1>6, SkippedStays DEF InProgress
<1> QED BY <1>1, <1>2, <1>7, Moves, InvHere DEF Here, Modes

LEMMA LexStringStep ==
    ASSUME Inv, LexString PROVE Inv'
<1>1. mode = "string" /\ OnlySkipped(LastEnd, start) /\ StringOpen /\ source \in Sources
  BY DEF LexString, Inv, InProgress
<1>2. CASE Peek(0) = Eof
  <2>1. EmitFrom("error", start, 0) BY <1>2 DEF LexString, Emit
  <2> QED BY <2>1, <1>1, <1>2, StringUnclosed, EmitsError, InvHere DEF Here
<1>3. CASE Peek(0) = "quote"
  <2>1. EmitFrom("string", start, 1) BY <1>3 DEF LexString, Emit, Eof
  <2>2. Longest("string", start, pos + 1) /\ pos + 1 <= Len(source) BY <1>1, <1>3, StringEnds, InvHere
  <2>3. CutsWhole(Token("string", start, pos + 1)) BY DEF CutsWhole, Token, Slices
  <2> QED BY <2>1, <2>2, <2>3, <1>1, EmitsLexeme, InvHere DEF Here, Meaningful
<1>4. CASE Peek(0) \notin {Eof, "quote"}
  <2>1. /\ mode' = "string" /\ UNCHANGED <<source, start, tokens>>
        /\ pos' = pos + IF Peek(0) = "\\" /\ Peek(1) # Eof THEN 2 ELSE 1
    BY <1>1, <1>4 DEF LexString, Goto, Stay
  <2>2. /\ pos < Len(source) /\ source[pos + 1] = Peek(0)
        /\ Backslashes(start, pos + 1, 0) /\ start < pos
    BY <1>1, <1>4, PeekIs, InvHere DEF Here, StringOpen
  <2>3. Peek(1) # Eof <=> pos + 1 < Len(source)
    BY PeekIs, InvHere DEF Here
  <2>4. pos' \in pos..Len(source) BY <2>1, <2>2, <2>3, InvHere
  <2>5. ASSUME NEW i \in (start + 2)..pos', source[i] = "quote" PROVE Backslashes(start, i, 1)
    <3>1. CASE i <= pos BY <2>5, <3>1, <1>1, InvHere DEF StringOpen
    <3>2. CASE i = pos + 1 BY <2>2, <2>5, <3>2, <1>4
    <3>3. CASE i = pos + 2 /\ source[pos + 1] = "\\"
      BY <2>2, <2>5, <3>3, OneBehind, InvHere
    <3> QED BY <3>1, <3>2, <3>3, <2>1, <2>2, InvHere
  <2>6. ASSUME pos' < Len(source) PROVE Backslashes(start, pos' + 1, 0)
    <3>1. CASE source[pos + 1] # "\\"
      <4>1. pos' = pos + 1 /\ pos' + 1 - 1 = pos + 1 /\ pos' + 1 \in Nat /\ start + 2 <= pos' + 1
        BY <3>1, <2>1, <2>2, InvHere
      <4> QED BY <4>1, <3>1, NoneBehind, InvHere
    <3>2. CASE source[pos + 1] = "\\"
      <4>1. pos' = pos + 2 BY <3>2, <2>1, <2>2, <2>3, <2>6, InvHere
      <4>2. CASE source[pos + 2] = "\\"
        <5>1. Backslashes(start, (pos + 1) + 2, 0) BY <4>2, <3>2, <2>2, TwoBehind, InvHere
        <5> QED BY <5>1, <4>1, InvHere
      <4>3. CASE source[pos + 2] # "\\"
        <5>1. pos + 3 - 1 = pos + 2 /\ pos + 3 \in Nat /\ start + 2 <= pos + 3
          BY <2>2, InvHere
        <5>2. source[pos + 3 - 1] # "\\" BY <5>1, <4>3
        <5>3. Backslashes(start, pos + 3, 0) BY <5>1, <5>2, NoneBehind, InvHere
        <5>4. pos' + 1 = pos + 3 BY <4>1, InvHere
        <5> QED BY <5>3, <5>4
      <4> QED BY <4>2, <4>3
    <3> QED BY <3>1, <3>2
  <2>7. StringOpen'
    BY <2>1, <2>2, <2>4, <2>5, <2>6, <1>1, SameSource, InvHere DEF StringOpen
  <2>8. PICK at : at = start OBVIOUS
  <2>9. InProgress' BY <2>1, <2>7, <2>8, <1>1, SkippedStays DEF InProgress
  <2> QED BY <2>1, <2>4, <2>9, <1>1, Moves, InvHere DEF Here, Modes
<1> QED BY <1>2, <1>3, <1>4

LEMMA LexCharStep ==
    ASSUME Inv, LexChar PROVE Inv'
<1>1. mode = "next" /\ Peek(0) = "'" /\ CharAhead /\ OnlySkipped(LastEnd, pos)
  BY DEF LexChar, Inv, InProgress
<1>2. CASE Peek(1) = "\\"
  <2>1. pos + 2 <= Len(source) BY <1>2, PeekIs, InvHere DEF Here, Eof
  <2>2. CASE pos + 3 > Len(source)
    <3>1. Peek(3) # "'" BY <2>2, PeekIs, InvHere DEF Here, Eof
    <3>2. EmitFrom("error", pos, 2) BY <2>2, <1>2 DEF LexChar, EmitWhole
    <3> QED BY <3>1, <3>2, <2>1, <1>1, <1>2, CharBroken, EmitsError, InvHere
  <2>3. CASE ~(pos + 3 > Len(source)) /\ Peek(3) = "'"
    <3>1. EmitFrom("char", pos, 4) BY <2>3, <1>2 DEF LexChar, EmitWhole
    <3>2. Longest("char", pos, pos + 3 + 1) /\ pos + 3 + 1 <= Len(source)
      BY <2>3, <1>1, <1>2, CharEnds, InvHere
    <3>3. pos + 3 + 1 = pos + 4 BY InvHere
    <3>4. CutsWhole(Token("char", pos, pos + 4)) BY DEF CutsWhole, Token, Slices
    <3> QED BY <3>1, <3>2, <3>3, <3>4, <1>1, EmitsLexeme, InvHere DEF Meaningful
  <2>4. CASE ~(pos + 3 > Len(source)) /\ Peek(3) # "'"
    <3>1. EmitFrom("error", pos, 3) BY <2>4, <1>2 DEF LexChar, EmitWhole
    <3>2. pos + 3 <= Len(source) BY <2>4, InvHere
    <3> QED BY <3>1, <3>2, <2>4, <1>1, <1>2, CharBroken, EmitsError, InvHere
  <2> QED BY <2>2, <2>3, <2>4
<1>3. CASE Peek(1) # "\\"
  <2>1. Peek(2) = "'" BY <1>1, <1>3 DEF CharAhead
  <2>2. ~(pos + 2 > Len(source)) BY <2>1, PeekIs, InvHere DEF Here, Eof
  <2>3. EmitFrom("char", pos, 3) BY <2>1, <2>2, <1>3 DEF LexChar, EmitWhole
  <2>4. Longest("char", pos, pos + 2 + 1) /\ pos + 2 + 1 <= Len(source)
    BY <2>1, <1>1, <1>3, CharEnds, InvHere
  <2>5. pos + 2 + 1 = pos + 3 BY InvHere
  <2>6. CutsWhole(Token("char", pos, pos + 3)) BY DEF CutsWhole, Token, Slices
  <2> QED BY <2>3, <2>4, <2>5, <2>6, <1>1, EmitsLexeme, InvHere DEF Meaningful
<1> QED BY <1>2, <1>3

LEMMA StartLabelStep ==
    ASSUME Inv, StartLabel PROVE Inv'
<1>1. /\ mode = "next" /\ mode' = "label" /\ pos' = pos + 1 /\ start' = pos /\ UNCHANGED <<source, tokens>>
      /\ Peek(0) = "'" /\ Peek(1) # "\\" /\ (Peek(1) # Eof => Peek(2) # "'")
  BY DEF StartLabel, Begin, CharAhead
<1>2. pos + 1 <= Len(source) /\ source[pos + 1] = "'"
  BY <1>1, PeekIs, InvHere DEF Here, Eof
<1>3. /\ pos + 1 < Len(source) => source[pos + 2] # "\\"
      /\ pos + 2 < Len(source) => source[pos + 3] # "'"
  <2>1. pos + 1 < Len(source) => Peek(1) = source[pos + 2] /\ Peek(1) # Eof
    BY PeekIs, InvHere DEF Here
  <2>2. pos + 2 < Len(source) => Peek(2) = source[pos + 3]
    BY PeekIs, InvHere DEF Here
  <2> QED BY <2>1, <2>2, <1>1, InvHere
<1>4. LabelOpen' BY <1>1, <1>2, <1>3, InvHere DEF LabelOpen
<1>5. PICK at : at = pos OBVIOUS
<1>6. OnlySkipped(LastEnd, at) BY <1>1, <1>5 DEF Inv, InProgress
<1>7. InProgress' BY <1>1, <1>4, <1>5, <1>6, SkippedStays DEF InProgress
<1> QED BY <1>1, <1>2, <1>7, Moves, InvHere DEF Here, Modes

LEMMA LexLabelStep ==
    ASSUME Inv, LexLabel PROVE Inv'
<1>1. mode = "label" /\ OnlySkipped(LastEnd, start) /\ LabelOpen /\ source \in Sources
  BY DEF LexLabel, Inv, InProgress
<1>2. CASE ~InWord(Peek(0)) /\ pos = start + 1
  <2>1. EmitFrom("error", start, 0) BY <1>2 DEF LexLabel, Emit
  <2> QED BY <2>1, <1>1, <1>2, LabelEmpty, EmitsError, InvHere DEF Here
<1>3. CASE ~InWord(Peek(0)) /\ pos # start + 1
  <2>1. EmitFrom("label", start, 0) BY <1>3 DEF LexLabel, Emit
  <2>2. Longest("label", start, pos + 0) BY <1>1, <1>3, LabelEnds, InvHere
  <2>3. source[start + 1] \in Ascii /\ source[pos] \in Ascii /\ start < pos
    BY <1>1, <1>3, InvHere DEF LabelOpen, Ascii, InWord
  <2>4. CutsWhole(Token("label", start, pos + 0)) BY <2>3, <1>1, WholeBehind, InvHere
  <2> QED BY <2>1, <2>2, <2>4, <1>1, EmitsLexeme, InvHere DEF Here, Meaningful
<1>4. CASE InWord(Peek(0))
  <2>1. mode' = "label" /\ pos' = pos + 1 /\ UNCHANGED <<source, start, tokens>>
    BY <1>1, <1>4 DEF LexLabel, Goto, Stay
  <2>2. ~InWord(Eof) BY DEF Eof, Letters, InWord, Digits
  <2>3. pos + 1 <= Len(source) /\ InWord(source[pos + 1]) BY <2>2, <1>4, PeekIs, InvHere DEF Here
  <2>4. LabelOpen' BY <2>1, <2>3, <1>1, InvHere DEF LabelOpen
  <2>5. PICK at : at = start OBVIOUS
  <2>6. InProgress' BY <2>1, <2>4, <2>5, <1>1, SkippedStays DEF InProgress
  <2> QED BY <2>1, <2>3, <2>6, <1>1, Moves, InvHere DEF Here, Modes
<1> QED BY <1>2, <1>3, <1>4

LEMMA StutterStep ==
    ASSUME Inv, UNCHANGED vars PROVE Inv'
<1>1. UNCHANGED <<source, pos, mode, start, tokens>> BY DEF vars
<1>2. SlicesWhole' /\ TypeOK' BY <1>1 DEF Inv, SlicesWhole, TypeOK
<1>3. LastJustified' BY <1>1, SameSource DEF Inv, LastJustified, Justified
<1>4. NothingLost' BY <1>1, SameSource DEF Inv, NothingLost
<1>5. InProgress'
  <2>1. LastEnd' = LastEnd BY <1>1 DEF LastEnd
  <2> QED BY <2>1, <1>1, SameSource
        DEF Inv, InProgress, LineOpen, BlockOpen, DocOpen, WordOpen, NumberOpen, StringOpen,
            LabelOpen
<1> QED BY <1>1, <1>2, <1>3, <1>4, <1>5 DEF Inv

-----------------------------------------------------------------------------
(* Theorems                                                                *)

LEMMA InitInv == Init => Inv
<1> SUFFICES ASSUME Init PROVE Inv
  OBVIOUS
<1>1. source \in Sources /\ pos = 0 /\ start = 0 /\ mode = "next" /\ tokens = <<>>
  BY DEF Init
<1>2. TypeOK BY <1>1, SourceBytes DEF TypeOK, Modes
<1>3. InProgress
  <2>1. OnlySkipped(0, 0) BY NothingSkipped
  <2>2. LastEnd = 0 BY <1>1 DEF LastEnd
  <2> QED BY <2>1, <2>2, <1>1 DEF InProgress
<1>4. SlicesWhole /\ LastJustified /\ NothingLost
  BY <1>1 DEF SlicesWhole, LastJustified, NothingLost
<1> QED BY <1>1, <1>2, <1>3, <1>4 DEF Inv

LEMMA InvStep == Inv /\ [Next]_vars => Inv'
<1> SUFFICES ASSUME Inv, [Next]_vars PROVE Inv'
  OBVIOUS
<1>1. CASE SkipWhitespace BY <1>1, SkipWhitespaceStep
<1>2. CASE StartSkip BY <1>2, StartSkipStep
<1>3. CASE SkipComments BY <1>3, SkipCommentsStep
<1>4. CASE SkipLine BY <1>4, SkipLineStep
<1>5. CASE SkipBlock BY <1>5, SkipBlockStep
<1>6. CASE StartDoc BY <1>6, StartDocStep
<1>7. CASE LexDoc BY <1>7, LexDocStep
<1>8. CASE LexEof BY <1>8, LexEofStep
<1>9. CASE LexOperator BY <1>9, LexOperatorStep
<1>10. CASE LexUnexpected BY <1>10, LexUnexpectedStep
<1>11. CASE LexUnderscore BY <1>11, LexUnderscoreStep
<1>12. CASE StartIdentifier BY <1>12, StartIdentifierStep
<1>13. CASE LexIdentifier BY <1>13, LexIdentifierStep
<1>14. CASE StartNumber BY <1>14, StartNumberStep
<1>15. CASE LexNumber BY <1>15, LexNumberStep
<1>16. CASE StartString BY <1>16, StartStringStep
<1>17. CASE LexString BY <1>17, LexStringStep
<1>18. CASE LexChar BY <1>18, LexCharStep
<1>19. CASE StartLabel BY <1>19, StartLabelStep
<1>20. CASE LexLabel BY <1>20, LexLabelStep
<1>21. CASE Ended \/ UNCHANGED vars BY <1>21, StutterStep DEF Ended
<1> QED
  BY <1>1, <1>2, <1>3, <1>4, <1>5, <1>6, <1>7, <1>8, <1>9, <1>10, <1>11, <1>12, <1>13,
     <1>14, <1>15, <1>16, <1>17, <1>18, <1>19, <1>20, <1>21 DEF Next

\* The inductive invariant: what a loop of the lexer has read of the token or
\* comment it is in the middle of has the shape that makes its end the right one.
THEOREM Invariant == Spec => []Inv
BY InitInv, InvStep, PTL DEF Spec

\* Type correctness of the lexer: the cursor never leaves the source, and no
\* token begins in front of the end of the one before it.
THEOREM TypeCorrect == Spec => []TypeOK
<1>1. Inv => TypeOK BY DEF Inv
<1> QED BY <1>1, Invariant, PTL

\* No source makes the lexer cut the text of a token inside a character of
\* several bytes, which is where slicing a `&str` panics.
THEOREM SlicesAreWhole == Spec => []SlicesWhole
<1>1. Inv => SlicesWhole BY DEF Inv
<1> QED BY <1>1, Invariant, PTL

\* Whatever the source, each token is the longest lexeme where it begins, and
\* an error stands only where no lexeme begins, up to the first literal that only
\* the documents of the language have.
THEOREM TokensAreLongest == Spec => []LongestMatch
<1>1. Inv => LongestMatch BY DEF Inv, LastJustified, LongestMatch
<1> QED BY <1>1, Invariant, PTL

\* Whatever the source, whitespace and comments are all that `tokenize` leaves
\* out, and `Eof` is the last token and no other.
THEOREM OnlyBlanksLeftOut == Spec => []NothingLost
<1>1. Inv => NothingLost BY DEF Inv
<1> QED BY <1>1, Invariant, PTL
=============================================================================
