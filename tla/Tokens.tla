------------------------------ MODULE Tokens ------------------------------
(***************************************************************************)
(* Scanner: the characters of a text become tokens, and strings become the *)
(* text that reads as the same string.                                     *)
(*                                                                         *)
(* A text is a sequence of bytes (UTF-8), a place in it the index of the   *)
(* next byte.  What parseToken reads ahead and puts back is left out of    *)
(* here, as are lines and indentation: that is module Indentation.  Strings*)
(* recur, so this module is for TLC only.                                  *)
(***************************************************************************)
EXTENDS Integers, SequencesExt

EOF == -1
charAt(s, i) == IF i <= Len(s) THEN s[i] ELSE EOF

Blanks == {32, 9}
Whitespace == Blanks \union {10, 13, 12}
Digits == 48 .. 57
Letters == (65 .. 90) \union (97 .. 122)
Exponents == {69, 101}
Signs == {43, 45}
Structural == {40, 41, 91, 93, 123, 125}
quote == 39
backslash == 92
doubleQuote == 34
hash == 35

(* The classes of symbol1_char_P, symbol_char_P and operatorCharP.  Bytes   *)
(* from 128 are letters, but the first one of mathematical operators.       *)
Symbol1Chars == Letters \union {hash} \union (128 .. 255 \ {226})
SymbolChars == Symbol1Chars \union Digits \union {63, 33}
OperatorChars == {33} \union (36 .. 47 \ {40, 41}) \union (58 .. 63) \union {94, 124, 126, 91, 93}

(* The first place from i on that has no character of the class.            *)
endOf(s, i, class) == CHOOSE j \in i .. Len(s) + 1 :
  charAt(s, j) \notin class /\ \A k \in i .. j - 1 : s[k] \in class

Token(kind, text, next) == [kind |-> kind, text |-> text, next |-> next]
(* raiseError, and an assertion that does not hold.                         *)
Error == Token("error", <<>>, 0)
Abort == Token("abort", <<>>, 0)

(* A mutant of dropBlank.                                                   *)
dropAny(s, j) == IF j <= Len(s) THEN j + 1 ELSE j

(* The character after a symbol, an operator or a numeral is put back       *)
(* unless it is a blank.                                                    *)
dropBlank(s, j) == IF charAt(s, j) \in Blanks THEN j + 1 ELSE j
symbolUpTo(s, i, j) == Token("symbol", SubSeq(s, i, j - 1), dropBlank(s, j))

-----------------------------------------------------------------------------
(* Numerals, symbols and operators                                          *)

(* The dot is part of the numeral, with or without digits behind it.        *)
fractionEnd(s, j) ==
  IF charAt(s, j) = 46 THEN endOf(s, j + 1, Digits) ELSE j
exponentEnd(s, j) ==
  IF charAt(s, j) \notin Exponents THEN j
  ELSE endOf(s, IF charAt(s, j + 1) \in Signs THEN j + 2 ELSE j + 1, Digits)
parseNumeral(s, i) == symbolUpTo(s, i, exponentEnd(s, fractionEnd(s, endOf(s, i, Digits))))

(* An EOF that is stored as a byte.                                         *)
byte(c) == IF c = EOF THEN 255 ELSE c

(* A symbol that begins at i, after a prefix that has been read.  A vector  *)
(* arrow (U+20D7, like all of U+20C0 to U+20FF) ends it.                    *)
parseSymbol(s, i, prefix) ==
  LET j == endOf(s, i, SymbolChars)
  IN  CASE charAt(s, i) \notin Symbol1Chars -> Error
        [] charAt(s, i) \in Symbol1Chars /\ charAt(s, j) = 226 /\ charAt(s, j + 1) = 131 ->
             Token("symbol", prefix \o SubSeq(s, i, j + 1) \o <<byte(charAt(s, j + 2))>>,
                   IF j + 2 <= Len(s) THEN j + 3 ELSE Len(s) + 1)
        [] OTHER -> Token("symbol", prefix \o SubSeq(s, i, j - 1), dropBlank(s, j))

(* An operator ends before a quote and before parentheses.                  *)
parseOperator(s, i) ==
  IF charAt(s, i) \in OperatorChars
  THEN symbolUpTo(s, i, endOf(s, i + 1, OperatorChars \ ({quote} \union Structural)))
  ELSE parseSymbol(s, i, <<>>)

(* Of U+2000 to U+2FFF all but the combining marks, the number forms and    *)
(* the letters of other alphabets stand on their own.                       *)
alone_P(b, c) ==
  CASE b \in {131, 133} -> c < 144
    [] b = 134 -> c > 143
    [] OTHER -> b \notin 176 .. 183
(* How many bytes a character has, by its first one.                        *)
UTF8_decode_first(c) ==
  CASE c \in 192 .. 223 -> 2
    [] c \in 224 .. 239 -> 3
    [] c \in 240 .. 247 -> 4
    [] c \in 248 .. 251 -> 5
    [] OTHER -> 1
parseUnicode(s, i) ==
  LET size == UTF8_decode_first(s[i])
      b == byte(charAt(s, i + 1))
      c == byte(charAt(s, i + 2))
  IN  CASE size = 2 /\ s[i] = 194 /\ b = 172 -> Token("symbol", <<s[i], b>>, i + 2)
        [] size = 2 /\ ~(s[i] = 194 /\ b = 172) -> parseSymbol(s, i + 1, <<s[i]>>)
        [] size = 3 /\ alone_P(b, c) -> Token("symbol", <<s[i], b, c>>, i + 3)
        [] size = 3 /\ ~alone_P(b, c) -> parseSymbol(s, i + 2, <<s[i], b>>)

parseKeyword(s, i) ==
  LET j == endOf(s, i + 1, SymbolChars)
  IN  IF charAt(s, i + 1) \in Symbol1Chars /\ charAt(s, j) = 58
      THEN Token("keyword", SubSeq(s, i + 1, j), j + 1)
      ELSE Error

-----------------------------------------------------------------------------
(* Special codings                                                          *)

digitOf(c) ==
  CASE c \in Digits -> c - 48
    [] c \in 65 .. 90 -> c - 55
    [] c \in 97 .. 122 -> c - 87
Alphanumerics == Digits \union Letters
valueOf(digits, base) == FoldLeft(LAMBDA value, c : value * base + digitOf(c), 0, digits)
RECURSIVE decimal(_)
decimal(n) == IF n < 10 THEN <<48 + n>> ELSE Append(decimal(n \div 10), 48 + (n % 10))

(* The numeral for the value; values beyond an int are left out.            *)
parseNumeralWithBase(s, i, base) ==
  LET j == endOf(s, i, Alphanumerics)
  IN  IF \A k \in i .. j - 1 : digitOf(s[k]) < base
      THEN Token("symbol", decimal(valueOf(SubSeq(s, i, j - 1), base)), dropBlank(s, j))
      ELSE Error

(* #* without bits is no symbol at all: input_value stays NULL.  But what   *)
(* follows is put back, which must not be done with a blank.                *)
parseBitvector(s, i) ==
  CASE charAt(s, i) \in {48, 49} -> parseNumeralWithBase(s, i, 2)
    [] charAt(s, i) \in Blanks -> Abort
    [] OTHER -> Token("NULL", <<>>, i)

(* The rest of the line, whose end is read too.                             *)
parseShebang(s, i) ==
  LET j == endOf(s, i, 0 .. 255 \ {10})
  IN  Token("shebang", SubSeq(s, i, j - 1), IF j <= Len(s) THEN j + 1 ELSE j)

(* Characters that have a name: tab, newline, return, space, backspace,     *)
(* escape, equal, linefeed.                                                 *)
CharacterNames == {
  [name |-> <<116, 97, 98>>, code |-> 9], [name |-> <<110, 101, 119, 108, 105, 110, 101>>, code |-> 10],
  [name |-> <<114, 101, 116, 117, 114, 110>>, code |-> 13], [name |-> <<115, 112, 97, 99, 101>>, code |-> 32],
  [name |-> <<98, 97, 99, 107, 115, 112, 97, 99, 101>>, code |-> 8],
  [name |-> <<101, 115, 99, 97, 112, 101>>, code |-> 27],
  [name |-> <<101, 113, 117, 97, 108>>, code |-> 61],
  [name |-> <<108, 105, 110, 101, 102, 101, 101, 100>>, code |-> 10]}
namedCharacter(token) ==
  LET codes == IF Len(token.text) = 1 THEN {token.text[1]}
               ELSE {n.code : n \in {m \in CharacterNames : m.name = token.text}}
  IN  IF codes = {} THEN Error ELSE Token("symbol", decimal(CHOOSE c \in codes : TRUE), token.next)

(* #\c stands for the code of the character.                                *)
parseCharacter(s, i) ==
  CASE charAt(s, i) = EOF -> Error
    [] charAt(s, i) \in Symbol1Chars -> namedCharacter(parseSymbol(s, i, <<>>))
    [] OTHER -> namedCharacter(Token("symbol", <<s[i]>>, i + 1))

parseBase(s, i) ==
  LET j == IF s[i] \in Digits THEN endOf(s, i, Digits) ELSE i
      base == CASE s[i] = 111 -> 8 [] s[i] = 120 -> 16 [] s[i] = 98 -> 2
                [] OTHER -> valueOf(SubSeq(s, i, j - 1), 10)
  IN  parseNumeralWithBase(s, IF charAt(s, j) \in {114, 111, 120, 98} THEN j + 1 ELSE j, base)

parseSpecialCoding(s, i) ==
  LET c == charAt(s, i + 1)
  IN  CASE c = backslash -> parseCharacter(s, i + 2)
        [] c \in {111, 120, 98} \union Digits -> parseBase(s, i + 1)
        [] c = 33 -> parseShebang(s, i + 1)
        [] c = 42 -> parseBitvector(s, i + 2)
        [] OTHER -> parseSymbol(s, i + 1, <<hash>>)

-----------------------------------------------------------------------------
(* Strings                                                                  *)

Escapes == [c \in {97, 98, 116, 110, 118, 102, 114, 101} |->
  CASE c = 97 -> 7 [] c = 98 -> 8 [] c = 116 -> 9 [] c = 110 -> 10
    [] c = 118 -> 11 [] c = 102 -> 12 [] c = 114 -> 13 [] c = 101 -> 27]
unescaped(c) == IF c \in DOMAIN Escapes THEN Escapes[c] ELSE c
(* What is no digit counts as 0.                                            *)
hexDigit(c) == IF c \in Digits \union (97 .. 102) \union (65 .. 70) THEN digitOf(c) ELSE 0
continued(c, token) == IF token.kind = "error" THEN Error ELSE [token EXCEPT !.text = <<c>> \o @]

(* (The parentheses for indented lines in a string come behind it: that is  *)
(* left to module Indentation too.)                                         *)
RECURSIVE parseString(_, _)
parseString(s, i) ==
  LET c == charAt(s, i)
      d == charAt(s, i + 1)
  IN  CASE c = EOF -> Error
        [] c = doubleQuote -> Token("string", <<>>, i + 1)
        [] c \notin {EOF, doubleQuote, backslash} -> continued(c, parseString(s, i + 1))
        [] c = backslash /\ d = EOF -> Error
        [] c = backslash /\ d = 120 ->
             continued(hexDigit(charAt(s, i + 2)) * 16 + hexDigit(charAt(s, i + 3)), parseString(s, i + 4))
        [] OTHER -> continued(unescaped(d), parseString(s, i + 2))

-----------------------------------------------------------------------------
(* A bracket of any kind stands for itself.  (That indentation does not     *)
(* count between brackets is in module Indentation.)                        *)
parseStructural(s, i) == Token("symbol", <<s[i]>>, i + 1)

(* parseOptionalWhitespace, and the token behind it.                        *)
beginning(s, i) == endOf(s, i, Whitespace)
parseToken(s, i) ==
  LET c == charAt(s, i)
  IN  CASE c = EOF -> Token("EOF", <<>>, i)
        [] c \in Digits -> parseNumeral(s, i)
        [] c \in {226, 194} -> parseUnicode(s, i)
        [] c \in {quote, backslash, 95} -> Token("symbol", <<c>>, i + 1)
        [] c \in Structural -> parseStructural(s, i)
        [] c = doubleQuote -> parseString(s, i + 1)
        [] c = 64 -> parseKeyword(s, i)
        [] c = hash -> parseSpecialCoding(s, i)
        [] OTHER -> parseOperator(s, i)

(* The tokens up to the end, an error or an abort, with their places.       *)
RECURSIVE tokensFrom(_, _)
tokensFrom(s, i) ==
  LET start == beginning(s, i)
      token == parseToken(s, start)
      placed == [kind |-> token.kind, text |-> token.text, start |-> start, next |-> token.next]
  IN  IF token.kind \in {"EOF", "error", "abort"} THEN <<placed>> ELSE <<placed>> \o tokensFrom(s, token.next)
tokensOf(s) == tokensFrom(s, 1)

-----------------------------------------------------------------------------
(* Printing strings                                                         *)

hexdigits(n) == IF n < 10 THEN 48 + n ELSE 87 + n

escaped == {doubleQuote, backslash}

(* Newlines are printed as they are.                                        *)
printStrChar(frontier, c) ==
  CASE c \in escaped -> <<backslash, c>>
    [] c = 10 -> <<c>>
    [] c \notin {10} \union escaped /\ (c < 32 \/ c = 127 \/ c >= frontier) ->
         IF \E e \in DOMAIN Escapes : Escapes[e] = c
         THEN <<backslash, CHOOSE e \in DOMAIN Escapes : Escapes[e] = c>>
         ELSE <<backslash, 120, hexdigits(c \div 16), hexdigits(c % 16)>>
    [] OTHER -> <<c>>

quoted(frontier, s) ==
  <<doubleQuote>> \o FlattenSeq([i \in DOMAIN s |-> printStrChar(frontier, s[i])]) \o <<doubleQuote>>

(* How many bytes a character has that begins with c; 0 for none.           *)
sizeOf(c) ==
  CASE c < 128 -> 1
    [] c \in 194 .. 223 -> 2
    [] c \in 224 .. 239 -> 3
    [] c \in 240 .. 244 -> 4
    [] OTHER -> 0

(* A character that is cut off at the end is not noticed.                   *)
RECURSIVE valid_P(_)
valid_P(s) ==
  s = <<>> \/ LET size == sizeOf(s[1])
                  rest == IF size <= Len(s) THEN size ELSE Len(s)
              IN  /\ size # 0
                  /\ \A i \in 2 .. rest : s[i] \in 128 .. 191
                  /\ valid_P(SubSeq(s, rest + 1, Len(s)))
strStr(s) == quoted(IF valid_P(s) THEN 255 ELSE 128, s)
=============================================================================
