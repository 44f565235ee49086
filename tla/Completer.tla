----------------------------- MODULE Completer ------------------------------
(***************************************************************************)
(* Tab in the entry of the two windows, GTK and WIN32: the word before the *)
(* cursor becomes the name that begins with it, or what all such names     *)
(* have in common.                                                         *)
(***************************************************************************)
EXTENDS Tokens

CONSTANT fEnvironmentNames \* what is completed to

Separators == {32, 40, 41, doubleQuote}
(* Of symbol_char_P on a char, which is negative from 128 on.               *)
entrySymbolChars == SymbolChars \ (128 .. 255)

(* The characters of a text.  Windows count in them.                        *)
characters(text) ==
  LET starts == SelectSeq([i \in DOMAIN text |-> i], LAMBDA i : text[i] \notin 128 .. 191)
  IN  [k \in DOMAIN starts |-> SubSeq(text, starts[k], IF k = Len(starts) THEN Len(text) ELSE starts[k + 1] - 1)]

(* The bytes before the word that ends at the cursor, and the word.         *)
fEntryNeedlePos(text, pos) == Max({i \in 1 .. pos : text[i] \in Separators} \union {0})
fEntryNeedle(text, pos) == SubSeq(text, fEntryNeedlePos(text, pos) + 1, pos)

(* A mutant of acceptMatch: the rest of the symbol stays.                   *)
acceptMatchBefore(text, needlePos, match, automaticSpace) ==
  LET head == SubSeq(text, 1, needlePos) \o match
  IN  [text |-> head \o SubSeq(text, needlePos + 1, Len(text)), position |-> Len(head)]

(* The symbol in which the word begins is replaced, behind the cursor too.  *)
acceptMatch(text, needlePos, match, automaticSpace) ==
  LET rest == endOf(text, needlePos + 1, entrySymbolChars)
      head == SubSeq(text, 1, needlePos) \o match \o IF automaticSpace /\ charAt(text, rest) # 32 THEN <<32>> ELSE <<>>
  IN  [text |-> head \o SubSeq(text, rest, Len(text)), position |-> Len(head)]

(* What the text and the cursor become, if there is a match.  (What names   *)
(* have in common is cut off after 99 bytes.)                               *)
completions(text, pos) ==
  LET fMatches == {name \in fEnvironmentNames : IsPrefix(fEntryNeedle(text, pos), name)}
      common == LongestCommonPrefix(fMatches)
  IN  IF Cardinality(fMatches) = 1
      THEN {acceptMatch(text, fEntryNeedlePos(text, pos), match, TRUE) : match \in fMatches}
      ELSE IF fMatches = {} \/ common = <<>> THEN {}
      ELSE {acceptMatch(text, fEntryNeedlePos(text, pos), common, FALSE)}
=============================================================================
