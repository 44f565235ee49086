----------------------------- MODULE Terminal ------------------------------
(***************************************************************************)
(* The line that readline edits in TUI/main.cc and in its successor        *)
(* TUI2/main.cc: the keys they bind, the parse on Enter whose result waits *)
(* in a global variable, and the loop that runs it; and the entry of the   *)
(* windows, in which Tab completes (Enter there is in module Workspace).   *)
(*                                                                         *)
(* The line is a sequence of the texts that keys insert, the point a place *)
(* between two of them; the code counts bytes.  Which texts the parser     *)
(* takes is module ShuntingYard, and what happens to the result Evaluator  *)
(* and Workspace: here the result is only known to be that of a text.      *)
(***************************************************************************)
EXTENDS Completer

CONSTANTS
    Programs,          \* a part of {"TUI", "TUI2", "windows"}
    Keyboards,         \* sets of texts that keys insert
    Verdict(_),        \* of the parser on a text: "parsed", "incomplete", "error" or "abort"
    MaxKeys,           \* bound: the length of the line that keys are added to
    NULL

ASSUME ProgramsAssumption == Programs \subseteq {"TUI", "TUI2", "windows"}

VARIABLES
    program,
    keyboard,
    status,    \* "editing", "accepted" or "ended"
    line,      \* rl_line_buffer
    point,     \* rl_point
    inputNode,
    asked,     \* history: whether Enter was pressed at the end of a line
    ran,       \* history: the text that ran last and what was evaluated
    flashed    \* history: a parenthesis that was typed and the one the cursor jumped to

vars == <<program, keyboard, status, line, point, inputNode, asked, ran, flashed>>

command == FlattenSeq(line)
(* The place in the command, counted from 0 like rl_point and getPosition.  *)
byteAt(p) == Len(FlattenSeq(SubSeq(line, 1, p)))

-----------------------------------------------------------------------------
(* lexForMatchingParen                                                      *)

Openers == {<<40>>, <<91>>, <<123>>}
Closers == {<<41>>, <<93>>, <<125>>}
opener_P(token) == token.kind = "symbol" /\ token.text \in Openers
closer_P(token) == token.kind = "symbol" /\ token.text \in Closers
positionOf(token) == token.start - 1

(* A mutant of closed.                                                      *)
closedNothing(openParens) == openParens
closed(openParens) == Front(openParens)

(* parseMatchingParens on the tokens that are still to come.  An error is   *)
(* caught; it means that there is no match either.                          *)
Aborted == -2
RECURSIVE matching(_, _, _, _)
matching(tokens, openParens, direction, position) ==
  LET token == Head(tokens)
      Go(parens) == matching(Tail(tokens), parens, direction, position)
  IN  CASE token.kind \in {"EOF", "error"} -> -1
        [] token.kind = "abort" -> Aborted
        [] opener_P(token) -> Go(Append(openParens, positionOf(token)))
        [] closer_P(token) /\ openParens = <<>> -> -1
        [] closer_P(token) /\ openParens # <<>> ->
             CASE direction = 1 /\ Last(openParens) = position -> positionOf(token)
               [] direction = -1 /\ positionOf(token) = position -> Last(openParens)
               [] OTHER -> Go(closed(openParens))
        [] OTHER -> Go(openParens)

directionOf(text, position) == IF <<text[position + 1]>> \in Openers THEN 1 ELSE -1

(* TUI looks for itself.                                                    *)
lexForMatchingParenTUI(text, position) ==
  {[sound |-> TRUE, other |-> matching(tokensOf(text), <<>>, directionOf(text, position), position)]}

(* TUI2 asks the builtin, whose parseParens begins to look without          *)
(* consume(): before the first token it sees what is in memory where its    *)
(* input_value is.  NULL, or any node that is no parenthesis, does no harm. *)
Garbage == {Token("NULL", <<>>, 1), Token("symbol", <<40>>, 1), Token("symbol", <<41>>, 1), Token("EOF", <<>>, 1)}
uninitialised(token) == [kind |-> token.kind, text |-> token.text, start |-> 1, next |-> 1]
parseParens(text, direction, position) ==
  {[sound |-> token.kind = "NULL",
    other |-> matching(<<uninitialised(token)>> \o tokensOf(text), <<>>, direction, position)] : token \in Garbage}
parseStrParensB(text, direction, position) == parseParens(text, direction, position)
lexForMatchingParen(text, position) ==
  IF program = "TUI" THEN lexForMatchingParenTUI(text, position)
  ELSE parseStrParensB(text, directionOf(text, position), position)

-----------------------------------------------------------------------------
(* Keys                                                                     *)

editing == status = "editing"
typed(text) == SubSeq(line, 1, point) \o <<text>> \o SubSeq(line, point + 1, Len(line))
Edit(text) ==
  /\ Len(line) < MaxKeys
  /\ line' = typed(text)
  /\ point' = point + 1

(* self-insert, and the other keys that the programs leave to readline.     *)
Insert(text) ==
  /\ editing /\ (text \in Openers \union Closers => program = "windows")
  /\ Edit(text)
  /\ flashed' = NULL /\ ran' = NULL
  /\ UNCHANGED <<program, keyboard, status, inputNode, asked>>
Move(p) ==
  /\ editing /\ p # point
  /\ point' = p
  /\ flashed' = NULL /\ ran' = NULL
  /\ UNCHANGED <<program, keyboard, status, line, inputNode, asked>>

(* handle_readline_paren: the cursor is at the other parenthesis for half a *)
(* second, and then where it was.  The scanner may end the program.         *)
InsertParen(paren) ==
  /\ editing /\ program # "windows" /\ paren \in Openers \union Closers
  /\ Edit(paren)
  /\ \E match \in lexForMatchingParen(FlattenSeq(typed(paren)), byteAt(point)) :
       IF match.other = Aborted
       THEN status' = "ended" /\ flashed' = NULL
       ELSE /\ flashed' = [position |-> byteAt(point), sound |-> match.sound, other |-> match.other]
            /\ UNCHANGED status
  /\ ran' = NULL
  /\ UNCHANGED <<program, keyboard, inputNode, asked>>

(* command_generator: the names that begin with the word before the point.  *)
wordBefore == LET i == CHOOSE i \in 0 .. byteAt(point) :
                     /\ \A k \in i + 1 .. byteAt(point) : command[k] \in SymbolChars
                     /\ i > 0 => command[i] \notin SymbolChars
              IN  SubSeq(command, i + 1, byteAt(point))
matches == {name \in fEnvironmentNames : IsPrefix(wordBefore, name)}
Complete ==
  /\ editing /\ program = "TUI" /\ Cardinality(matches) = 1
  /\ \E name \in matches : wordBefore # name /\ Edit(SubSeq(name, Len(wordBefore) + 1, Len(name)))
  /\ flashed' = NULL /\ ran' = NULL
  /\ UNCHANGED <<program, keyboard, status, inputNode, asked>>

(* The cursor's position is in characters, and is used as if it were in     *)
(* bytes, both before and after.                                            *)
cursorPosition == Len(characters(FlattenSeq(SubSeq(line, 1, point))))
Completer_complete == completions(command, cursorPosition)
Completer_accept_match_GUI(newText, pos) ==
  /\ line' = characters(newText)
  /\ point' = Min({pos, Len(line')})

(* The key Tab, which does not get into the text.                           *)
CompleteEntry ==
  /\ editing /\ program = "windows" /\ Len(line) <= MaxKeys
  /\ \E completed \in Completer_complete : Completer_accept_match_GUI(completed.text, completed.position)
  /\ flashed' = NULL /\ ran' = NULL
  /\ UNCHANGED <<program, keyboard, status, inputNode, asked>>

-----------------------------------------------------------------------------
(* handle_readline_crlf                                                     *)

Parsed(text) == [of |-> text]
parse(text) == IF Verdict(text) = "parsed" THEN Parsed(text) ELSE NULL

(* The builtin of TUI2, which answers NULL to all errors.                   *)
parseMath(text) == parse(text)
parseStrMathB(text) == parseMath(text)

atEndOfLine_P == LET i == endOf(command, byteAt(point) + 1, Blanks)
                 IN  charAt(command, i) \in {10, EOF}

Accept(node) ==
  /\ inputNode' = node
  /\ status' = "accepted" /\ asked' = atEndOfLine_P
  /\ point' = Len(line)
  /\ flashed' = NULL /\ ran' = NULL
  /\ UNCHANGED <<program, keyboard, line>>

(* TUI keeps the result of a parse, and goes on with the line where it can  *)
(* be made better.  Other errors are left to the loop.                      *)
EnterTUI ==
  /\ editing /\ program = "TUI"
  /\ \/ ~atEndOfLine_P /\ Accept(inputNode)
     \/ atEndOfLine_P /\ Verdict(command) = "parsed" /\ Accept(Parsed(command))
     \/ atEndOfLine_P /\ Verdict(command) = "error" /\ Accept(inputNode)
     \/ /\ atEndOfLine_P /\ Verdict(command) = "incomplete"
        /\ Edit(<<10>>)
        /\ flashed' = NULL /\ ran' = NULL
        /\ UNCHANGED <<program, keyboard, status, inputNode, asked>>

EnterTUI2 ==
  /\ editing /\ program = "TUI2"
  /\ \/ ~atEndOfLine_P /\ Accept(inputNode)
     \/ atEndOfLine_P /\ Verdict(command) # "abort" /\ Accept(IF command = <<>> THEN NULL ELSE parseStrMathB(command))

exit_P(text) == IsPrefix(<<35, 101, 120, 105, 116>>, text)

(* An assertion of the scanner ends the program, on Enter or when a line    *)
(* without a node is parsed again.                                          *)
AbortOnParse ==
  /\ Verdict(command) = "abort"
  /\ \/ editing /\ atEndOfLine_P /\ program # "windows"
     \/ status = "accepted" /\ program = "TUI" /\ inputNode = NULL /\ ~exit_P(command)
  /\ status' = "ended"
  /\ UNCHANGED <<program, keyboard, line, point, inputNode, asked, ran, flashed>>

-----------------------------------------------------------------------------
(* run                                                                      *)

(* A mutant of taken.                                                       *)
takenNotReset == /\ status' = "editing" /\ line' = <<>> /\ point' = 0
                 /\ UNCHANGED <<program, keyboard, inputNode, asked, flashed>>

(* The next call of readline, after the line was run.                       *)
taken == /\ status' = "editing" /\ line' = <<>> /\ point' = 0 /\ inputNode' = NULL
         /\ UNCHANGED <<program, keyboard, asked, flashed>>

SkipEmptyLine ==
  /\ status = "accepted" /\ command = <<>>
  /\ status' = "editing"
  /\ UNCHANGED <<program, keyboard, line, point, inputNode, asked, ran, flashed>>

(* A line without a node is parsed again, for its error.                    *)
RunTUI ==
  /\ status = "accepted" /\ program = "TUI" /\ command # <<>> /\ ~exit_P(command)
  /\ inputNode = NULL => Verdict(command) # "abort"
  /\ ran' = [text |-> command, node |-> IF inputNode = NULL THEN parse(command) ELSE inputNode]
  /\ taken
RunTUI2 ==
  /\ status = "accepted" /\ program = "TUI2" /\ command # <<>>
  /\ ran' = [text |-> command, node |-> inputNode]
  /\ taken

End ==
  /\ \/ status = "accepted" /\ program = "TUI" /\ exit_P(command)
     \/ editing /\ line = <<>> /\ program # "windows"
  /\ status' = "ended"
  /\ UNCHANGED <<program, keyboard, line, point, inputNode, asked, ran, flashed>>

-----------------------------------------------------------------------------
Init ==
  /\ program \in Programs /\ keyboard \in Keyboards
  /\ status = "editing" /\ line = <<>> /\ point = 0
  /\ inputNode = NULL /\ asked = FALSE /\ ran = NULL /\ flashed = NULL

Next ==
  \/ \E text \in keyboard : Insert(text) \/ InsertParen(text)
  \/ \E p \in 0 .. Len(line) : Move(p)
  \/ Complete \/ CompleteEntry
  \/ EnterTUI \/ EnterTUI2 \/ AbortOnParse
  \/ SkipEmptyLine \/ RunTUI \/ RunTUI2
  \/ End

Spec == Init /\ [][Next]_vars

-----------------------------------------------------------------------------
(* What is evaluated is what the user has just entered, whatever was parsed *)
(* for earlier lines and wherever Enter was pressed (inputNode outlives the *)
(* call that sets it).  TUI2 may have lost it: then NULL runs, which prints *)
(* as an empty list.                                                        *)
RunsWhatWasTyped ==
  ran # NULL =>
    \/ ran.node = parse(ran.text)
    \/ program = "TUI2" /\ ~asked /\ ran.node = NULL

(* The tokens that are parentheses, up to the first error.                  *)
parens(tokens) == SelectSeq(tokens, LAMBDA token : opener_P(token) \/ closer_P(token))
Sum(p, i, j) == Cardinality({k \in i .. j : opener_P(p[k])}) - Cardinality({k \in i .. j : closer_P(p[k])})
partners(p, i, j) ==
  /\ i < j /\ opener_P(p[i]) /\ Sum(p, i, j) = 0
  /\ \A k \in i .. j - 1 : Sum(p, i, k) > 0
(* Behind a closing parenthesis that has no partner nothing matches.        *)
reachable_P(p, j) == \A k \in 1 .. j : Sum(p, 1, k) >= 0

(* The cursor jumps to the parenthesis that belongs to the one just typed,  *)
(* and if there is none it stays.  Parentheses within strings, characters   *)
(* and behind an unreadable token do not count.                             *)
ParensMatch ==
  flashed # NULL /\ flashed.sound =>
    \E p \in {parens(tokensOf(command))} :
      LET at(i) == positionOf(p[i])
          pairs == {<<i, j>> \in (DOMAIN p) \X (DOMAIN p) : reachable_P(p, j) /\ partners(p, i, j)}
          others == {at(e[2]) : e \in {d \in pairs : at(d[1]) = flashed.position}}
                      \union {at(e[1]) : e \in {d \in pairs : at(d[2]) = flashed.position}}
      IN  IF others = {} THEN flashed.other = -1 ELSE others = {flashed.other}

(* Completion in the windows changes the word around the cursor into one of *)
(* the names that begin with what was before the cursor, as far as all of   *)
(* them agree, and nothing else; the cursor is behind it.  Texts beyond     *)
(* ASCII are left out (characters are taken for bytes), and operators,      *)
(* which are not replaced.                                                  *)
fits(before, word, after, newText, newPoint) ==
  LET names == {name \in fEnvironmentNames : IsPrefix(word, name)}
  IN  \E name \in names : \E k \in Len(word) .. Len(name) :
        LET inserted == SubSeq(name, 1, k)
        IN  /\ \E blank \in {<<>>, <<32>>} :
                 /\ newText = before \o inserted \o blank \o after
                 /\ newPoint = Len(before \o inserted \o blank)
                 /\ blank # <<>> => names = {name} /\ inserted = name
            /\ \A other \in names : IsPrefix(inserted, other)
            /\ \E other \in names : other = inserted \/ other[Len(inserted) + 1] # charAt(name, Len(inserted) + 1)
CompletionFits ==
  [][CompleteEntry /\ Range(command) \subseteq 0 .. 127 =>
       \E i \in 0 .. byteAt(point) :
         LET word == SubSeq(command, i + 1, byteAt(point))
             after == SubSeq(command, byteAt(point) + 1, Len(command))
             end == endOf(after, 1, SymbolChars)
         IN  /\ i > 0 => command[i] \in Separators
             /\ Range(word) \cap Separators = {}
             /\ Range(word) \subseteq SymbolChars =>
                  fits(SubSeq(command, 1, i), word, SubSeq(after, end, Len(after)), command', byteAt(point)')]_vars

source(text, token) == SubSeq(text, token.start, token.next - 1)
spaced(text, tokens) == FlattenSeq([i \in DOMAIN tokens |-> source(text, tokens[i]) \o <<32>>])
contents(tokens) == [i \in DOMAIN tokens |-> <<tokens[i].kind, tokens[i].text>>]
coded_P(token, text) == token.kind \in {"string", "keyword", "shebang", "NULL"} \/ text[token.start] = hash
\* A string that is printed, as UTF-8 or byte by byte.
readsBack_P(text) ==
  \A printed \in {strStr(text), quoted(128, text)} :
    contents(tokensOf(printed)) = <<<<"string", text>>, <<"EOF", <<>>>>>>
indented_P(text) == \E i \in DOMAIN text : text[i] = 10 /\ charAt(text, i + 1) \in Blanks
(* Tokens are made of all characters of the text but for white space, and a *)
(* token does not depend on what follows it: with a blank behind every      *)
(* token the text reads the same.  (A shebang takes the rest of the line.)  *)
(* Behind #* without bits there is none: a blank there ends the program.    *)
(* A string that is printed reads as the same string, whether its bytes are *)
(* characters, controls, quotes or no UTF-8 at all - unless a line of it is *)
(* indented, which adds parentheses behind it.                              *)
TokensStandAlone ==
  editing /\ point = Len(line) =>
    \E tokens \in {tokensOf(command)} :
      Last(tokens).kind = "EOF" =>
        /\ \A i \in DOMAIN tokens :
             \/ tokens[i].kind = "EOF"
             \/ coded_P(tokens[i], command)
             \/ source(command, tokens[i]) \in {tokens[i].text} \union {Append(tokens[i].text, b) : b \in Blanks}
        /\ \/ \E i \in DOMAIN tokens : tokens[i].kind \in {"shebang", "NULL"}
           \/ contents(tokensOf(spaced(command, tokens))) = contents(tokens)
        /\ \A token \in Range(tokens) :
             token.kind = "string" /\ ~indented_P(token.text) => readsBack_P(token.text)
=============================================================================
