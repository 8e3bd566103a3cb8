-------------------------------- MODULE Lexer --------------------------------
(***************************************************************************)
(* The lexer (razen_lexer: lexer.rs, lib.rs): a cursor on the bytes of the *)
(* source, one step for one iteration of a loop.                           *)
(*                                                                         *)
(* A byte is the ASCII character it stands for, or a part of a longer      *)
(* character.  A token is its kind and the bytes it covers; which keyword  *)
(* a word is, and what the digits or letters of a literal say, is data.    *)
(***************************************************************************)
EXTENDS Naturals, SequencesExt

CONSTANTS
    Lead, Inner,  \* the bytes that begin a longer character, and those that go on with it
    Sources       \* sequences of bytes

VARIABLES
    source,  \* the bytes
    pos,     \* how many of them are consumed
    mode,    \* the loop the lexer is in
    start,   \* where the token in progress begins
    tokens   \* the tokens so far

vars == <<source, pos, mode, start, tokens>>

-----------------------------------------------------------------------------
(* Bytes.                                                                  *)

\* Slip: a byte is a letter if the character of its number is one, as 0xC3 is.
InWordLatin1(b) == b \in {"a", "r", "x", "1", "2", "underscore", "C3"}

\* "r" may begin a raw string, "x" stands for the letters of numeric escapes (x and u).
Letters == {"a", "r", "x", "underscore"}
Digits == {"1", "2"}
InWord(b) == b \in Letters \cup Digits
Space == {"space", "\n"}
OperatorStart ==
    {":", "=", "+", "-", "*", "/", "%", ".", "~", "<", ">", "!", "&", "|", "?", "^",
     "lbrace", "rbrace", "[", "]", "(", ")", "comma", "semicolon", "@"}
\* "#" stands for those that begin nothing.
Ascii == Letters \cup Digits \cup Space \cup OperatorStart \cup {"quote", "'", "\\", "#"}
Bytes == Ascii \cup Lead \cup Inner

Eof == "eof"

\* A source is a `&str`: its longer characters are whole.
ASSUME SourcesAssumption ==
    /\ (Lead \cup Inner) \cap (Ascii \cup {Eof}) = {}
    /\ \A s \in Sources :
        /\ s \in Seq(Bytes)
        /\ \A i \in DOMAIN s : s[i] \in Inner => i > 1 /\ s[i - 1] \in Lead \cup Inner

\* peek, peek_next and peek_nth(2).
Peek(n) == IF pos + n < Len(source) THEN source[pos + n + 1] ELSE Eof
See(s) == \A i \in 1..Len(s) : Peek(i - 1) = s[i]
Follows(s) == \A i \in 1..Len(s) : Peek(i) = s[i]

-----------------------------------------------------------------------------
(* One step of the cursor.                                                 *)

Goto(m, n) == mode' = m /\ pos' = pos + n /\ UNCHANGED <<source, start, tokens>>
Begin(m, n) == mode' = m /\ pos' = pos + n /\ start' = pos /\ UNCHANGED <<source, tokens>>
Stay(n) == Goto(mode, n)

Token(kind, from, to) == [kind |-> kind, from |-> from, to |-> to]
EmitFrom(kind, from, n) ==
    /\ tokens' = Append(tokens, Token(kind, from, pos + n))
    /\ pos' = pos + n
    /\ mode' = IF kind = Eof THEN "done" ELSE "next"
    /\ start' = from
    /\ UNCHANGED source
\* The token in progress ends behind the next n bytes.
Emit(kind, n) == EmitFrom(kind, start, n)
\* The next n bytes are a token.
EmitWhole(kind, n) == EmitFrom(kind, pos, n)

-----------------------------------------------------------------------------
(* next_token: whitespace and comments.                                    *)

\* Slip: any two slashes are sent to skip_comments, which takes no third.
CommentAnySlashes == See(<<"/", "/">>) \/ See(<<"/", "*">>)

DocAhead == See(<<"/", "/", "/">>)
CommentAhead == (See(<<"/", "/">>) /\ ~DocAhead) \/ See(<<"/", "*">>)

SkipWhitespace == mode = "next" /\ Peek(0) \in Space /\ Stay(1)

StartSkip == mode = "next" /\ CommentAhead /\ Goto("skip", 0)

\* skip_comments looks for itself what there is to skip.
SkipComments ==
    /\ mode = "skip"
    /\ \/ See(<<"/", "/">>) /\ Peek(2) # "/" /\ Goto("line", 2)
       \/ See(<<"/", "*">>) /\ Goto("block", 2)
       \/ /\ ~See(<<"/", "*">>) /\ (See(<<"/", "/">>) => DocAhead)
          /\ Goto("next", 0)

SkipLine ==
    /\ mode = "line"
    /\ IF Peek(0) \in {Eof, "\n"} THEN Goto("skip", 0) ELSE Stay(1)

\* Slip: the star that opens a comment may close it.
SkipBlockOpen ==
    /\ mode = "block"
    /\ IF Peek(0) = Eof THEN Goto("skip", 0)
       ELSE IF Peek(0) = "/" /\ source[pos] = "*" THEN Goto("skip", 1)
       ELSE Stay(1)

SkipBlock ==
    /\ mode = "block"
    /\ IF Peek(0) = Eof THEN Goto("skip", 0)
       ELSE IF See(<<"*", "/">>) THEN Goto("skip", 2)
       ELSE Stay(1)

StartDoc == mode = "next" /\ DocAhead /\ Begin("doc", 3)
LexDoc ==
    /\ mode = "doc"
    /\ IF Peek(0) \in {Eof, "\n"} THEN Emit("doc", 0) ELSE Stay(1)

LexEof == mode = "next" /\ Peek(0) = Eof /\ EmitWhole(Eof, 0)

-----------------------------------------------------------------------------
(* next_token: operators.                                                  *)

\* Slip: the power operator is tried before its assignment.
LongerShortFirst(c) ==
    CASE c = "*" -> <<<<"*">>, <<"*", "=">>, <<"=">>>>
      [] c = "." -> <<<<".", "=">>, <<".">>>>
      [] c = "-" -> <<<<"=">>, <<">">>>>
      [] c \in {"<", ">"} -> <<<<"=">>, <<c>>>>
      [] c \in {"&", "|"} -> <<<<c>>>>
      [] c = "~" -> <<<<">">>>>
      [] c \in {":", "=", "+", "/", "%", "!"} -> <<<<"=">>>>
      [] OTHER -> <<>>

\* What may follow the first byte of an operator, in the order it is tried.
Longer(c) ==
    CASE c = "*" -> <<<<"*", "=">>, <<"*">>, <<"=">>>>
      [] c = "." -> <<<<".", "=">>, <<".">>>>
      [] c = "-" -> <<<<"=">>, <<">">>>>
      [] c \in {"<", ">"} -> <<<<"=">>, <<c>>>>
      [] c \in {"&", "|"} -> <<<<c>>>>
      [] c = "~" -> <<<<">">>>>
      [] c \in {":", "=", "+", "/", "%", "!"} -> <<<<"=">>>>
      [] OTHER -> <<>>

LexOperator ==
    /\ mode = "next" /\ Peek(0) \in OperatorStart
    /\ ~CommentAhead /\ ~DocAhead
    /\ LET longer == Longer(Peek(0))
           i == SelectInSeq(longer, Follows)
       IN EmitWhole("op", 1 + IF i = 0 THEN 0 ELSE Len(longer[i]))

LexUnexpected ==
    /\ mode = "next"
    /\ Peek(0) \notin OperatorStart \cup Letters \cup Digits \cup Space \cup {"quote", "'", Eof}
    /\ EmitWhole("error", 1)

-----------------------------------------------------------------------------
(* lex_identifier, lex_number, lex_string.                                 *)

LexUnderscore ==
    /\ mode = "next" /\ Peek(0) = "underscore" /\ ~InWord(Peek(1))
    /\ EmitWhole("underscore", 1)

StartIdentifier ==
    /\ mode = "next" /\ Peek(0) \in Letters
    /\ Peek(0) = "underscore" => InWord(Peek(1))
    /\ Begin("word", 1)
LexIdentifier == mode = "word" /\ IF InWord(Peek(0)) THEN Stay(1) ELSE Emit("word", 0)

StartNumber == mode = "next" /\ Peek(0) \in Digits /\ Begin("number", 1)
\* A point belongs to the number if a digit follows, a second one too.
LexNumber ==
    /\ mode = "number"
    /\ IF InWord(Peek(0)) \/ (Peek(0) = "." /\ Peek(1) \in Digits)
       THEN Stay(1)
       ELSE Emit("number", 0)

StartString == mode = "next" /\ Peek(0) = "quote" /\ Begin("string", 1)

LexString ==
    /\ mode = "string"
    /\ IF Peek(0) = Eof THEN Emit("error", 0)
       ELSE IF Peek(0) = "quote" THEN Emit("string", 1)
       ELSE Stay(IF Peek(0) = "\\" /\ Peek(1) # Eof THEN 2 ELSE 1)

-----------------------------------------------------------------------------
(* lex_char_or_label.                                                      *)

CharAhead == Peek(1) = "\\" \/ (Peek(1) # Eof /\ Peek(2) = "'")

\* Slip: a backslash takes a byte along even where the source ends.
LexCharUnchecked ==
    /\ mode = "next" /\ Peek(0) = "'" /\ CharAhead
    /\ LET n == IF Peek(1) = "\\" THEN 3 ELSE 2
       IN IF Peek(n) = "'" THEN EmitWhole("char", n + 1) ELSE EmitWhole("error", n)

\* A backslash takes the byte behind it along.
LexChar ==
    /\ mode = "next" /\ Peek(0) = "'" /\ CharAhead
    /\ LET n == IF Peek(1) = "\\" THEN 3 ELSE 2
       IN IF pos + n > Len(source) THEN EmitWhole("error", n - 1)
          ELSE IF Peek(n) = "'" THEN EmitWhole("char", n + 1)
          ELSE EmitWhole("error", n)

StartLabel == mode = "next" /\ Peek(0) = "'" /\ ~CharAhead /\ Begin("label", 1)
LexLabel ==
    /\ mode = "label"
    /\ IF InWord(Peek(0)) THEN Stay(1)
       ELSE Emit(IF pos = start + 1 THEN "error" ELSE "label", 0)

-----------------------------------------------------------------------------
(* tokenize.                                                               *)

Init ==
    /\ source \in Sources
    /\ pos = 0 /\ start = 0
    /\ mode = "next"
    /\ tokens = <<>>

Ended == mode = "done" /\ UNCHANGED vars

Next ==
    \/ SkipWhitespace \/ StartSkip \/ SkipComments \/ SkipLine \/ SkipBlock
    \/ StartDoc \/ LexDoc \/ LexEof \/ LexOperator \/ LexUnexpected
    \/ LexUnderscore \/ StartIdentifier \/ LexIdentifier \/ StartNumber \/ LexNumber
    \/ StartString \/ LexString \/ LexChar \/ StartLabel \/ LexLabel \/ Ended

Spec == Init /\ [][Next]_vars /\ WF_vars(Next)

-----------------------------------------------------------------------------
(* Properties                                                              *)

Modes == {"next", "skip", "line", "block", "doc", "word", "number", "string", "label", "done"}
Kinds == {"doc", "word", "underscore", "number", "string", "char", "label", "op", "error", Eof}

\* The cursor stays in the source, and every token is behind the one before it.
TypeOK ==
    /\ source \in Seq(Bytes)
    /\ pos \in 0..Len(source) /\ start \in 0..pos
    /\ mode \in Modes
    /\ tokens \in Seq([kind : Kinds, from : 0..pos, to : 0..pos])
    /\ \A i \in DOMAIN tokens :
        /\ tokens[i].from <= tokens[i].to
        /\ i > 1 => tokens[i - 1].to <= tokens[i].from

(***************************************************************************)
(* The text of a token that keeps its text is cut out of the source        *)
(* between characters: cutting a longer character in two makes the process *)
(* panic.  The lexer looks at bytes and never at characters.               *)
(***************************************************************************)
Slices == {"doc", "word", "number", "label"}
SlicesWhole ==
    \A i \in DOMAIN tokens :
        tokens[i].kind \in Slices =>
            \A cut \in {tokens[i].from, tokens[i].to} :
                cut < Len(source) => source[cut + 1] \notin Inner

\* `tokenize` ends: every round of next_token that skips something moves on,
\* although what is a comment is decided in two places.
Terminates == <>(mode = "done")
=============================================================================
