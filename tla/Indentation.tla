---------------------------- MODULE Indentation -----------------------------
(***************************************************************************)
(* The characters of Scanner (Scanners/Scanner.cc): how tokens are read    *)
(* with one character of lookahead that is put back, and the parentheses   *)
(* that are injected where the indentation changes.                        *)
(*                                                                         *)
(* One step reads one character.  The kinds of token are three: symbols    *)
(* (ended by lookahead, like numerals and operators), explicit parentheses *)
(* (a character each) and strings (which may contain newlines).            *)
(***************************************************************************)
EXTENDS Integers, Sequences, FiniteSets

CONSTANT Inputs \* files: sequences of characters

space == "space"
newline == "newline"
EOF == "EOF"
quote == "quote"
symbolChar == "x"
leftparen == "("
Characters == {space, newline, quote, symbolChar, leftparen}
autoleftparen == "auto("
autorightparen == "auto)"
symbol == "symbol"
string == "string"

ASSUME InputsAssumption == Inputs \subseteq Seq(Characters)

VARIABLES
    input,                  \* the file
    position,               \* the character that fgetc gives next
    column_number,
    B_beginning_of_line,
    backtracking,           \* columns and beginnings of lines before newlines
    open_indentations,      \* columns of the open blocks, the innermost last
    injected_input_values,  \* tokens to deliver before anything is read, front first
    ctl,                    \* the loop that parseToken is in, "" before and after it
    from,                   \* history: where the token that is read begins
    delivered               \* history: the tokens so far, and where each began

scanned == <<column_number, B_beginning_of_line, backtracking, open_indentations>>
vars == <<input, position, scanned, injected_input_values, ctl, from, delivered>>

Init ==
    /\ input \in Inputs
    /\ position = 1
    /\ column_number = 0
    /\ B_beginning_of_line = TRUE
    /\ backtracking = [i \in 1 .. 4 |-> <<0, FALSE>>]
    /\ open_indentations = <<0>>
    /\ injected_input_values = <<>>
    /\ ctl = ""
    /\ from = 0
    /\ delivered = <<>>
-----------------------------------------------------------------------------
fgetc == IF position <= Len(input) THEN input[position] ELSE EOF
\* parseOptionalWhitespace. Of white space there are blanks and newlines here; a
\* tab is taken like a blank everywhere, a carriage return like one except behind
\* a symbol, and a form feed, which would begin a line in increment_position and
\* is skipped only then, is left out.
blank_P(char) == char \in {space, newline}

\* How many blocks stay open: the loop of update_indentation.
kept(open, column) ==
    CHOOSE i \in DOMAIN open :
        /\ open[i] <= column
        /\ \A j \in i + 1 .. Len(open) : open[j] > column

\* A mutant of opens_P: a line in the column of an open block opens another.
opensAgain_P(open, column) == column >= open[kept(open, column)]

opens_P(open, column) == column > open[kept(open, column)]

\* The blocks that are open when a line begins in this column.
indentations(open, column) ==
    LET outer == SubSeq(open, 1, kept(open, column))
    IN  IF opens_P(open, column) THEN Append(outer, column) ELSE outer

\* A mutant of injections: one parenthesis, however many blocks end.
oneInjection(open, column) ==
    IF opens_P(open, column) THEN <<autoleftparen>>
    ELSE IF kept(open, column) < Len(open) THEN <<autorightparen>> ELSE <<>>

\* What inject puts in front of the injected tokens: the closing parentheses
\* first, then the opening one in front of them.
injections(open, column) ==
    (IF opens_P(open, column) THEN <<autoleftparen>> ELSE <<>>)
        \o [i \in 1 .. Len(open) - kept(open, column) |-> autorightparen]

\* backtracking after SCROLL_LEFT with the current place, and SCROLL_RIGHT.
scrolledLeft == <<backtracking[2], backtracking[3], backtracking[4],
                  <<column_number, B_beginning_of_line>> >>
scrolledRight(b) == <<b[1], b[1], b[2], b[3]>>

\* A line that begins with this character changes the indentation.
beginsLine_P(char) == B_beginning_of_line /\ char \notin {space, newline, EOF}

\* The injected tokens after increment_position of the character.
injectedBy(char) ==
    IF beginsLine_P(char)
    THEN injections(open_indentations, column_number) \o injected_input_values
    ELSE injected_input_values

UpdateIndentation(char) ==
    /\ open_indentations' = IF beginsLine_P(char)
                            THEN indentations(open_indentations, column_number)
                            ELSE open_indentations
    /\ B_beginning_of_line' = (B_beginning_of_line /\ ~beginsLine_P(char))

\* increment_position of a character that stays read, except what it injects.
Increment(char) ==
    IF char = newline
    THEN /\ column_number' = 0 /\ B_beginning_of_line' = TRUE
         /\ backtracking' = scrolledLeft
         /\ UNCHANGED open_indentations
    ELSE /\ column_number' = column_number + 1
         /\ UpdateIndentation(char)
         /\ UNCHANGED backtracking

\* increment_position, then decrement_position and ungetc: what a newline
\* overwrote is scrolled back; what the first character of a line injected stays.
IncrementDecrement(char) ==
    IF char = newline
    THEN /\ column_number' = scrolledLeft[4][1]
         /\ B_beginning_of_line' = scrolledLeft[4][2]
         /\ backtracking' = scrolledRight(scrolledLeft)
         /\ UNCHANGED open_indentations
    ELSE /\ UpdateIndentation(char)
         /\ UNCHANGED <<column_number, backtracking>>

Read == position' = IF fgetc = EOF THEN position ELSE position + 1

Deliver(token, place) ==
    /\ delivered' = Append(delivered, [token |-> token, from |-> place])
    /\ ctl' = ""

DeliverInjected(injected) ==
    /\ Deliver(Head(injected), 0)
    /\ injected_input_values' = Tail(injected)

ended_P == delivered # <<>> /\ delivered[Len(delivered)].token \in {EOF, "error"}
-----------------------------------------------------------------------------
\* The parser consumes a token: an injected one, or parseToken begins to read.
Consume ==
    /\ ctl = "" /\ ~ended_P
    /\ IF injected_input_values # <<>> THEN DeliverInjected(injected_input_values)
       ELSE ctl' = "whitespace" /\ UNCHANGED <<delivered, injected_input_values>>
    /\ UNCHANGED <<input, position, scanned, from>>

\* parseOptionalWhitespace: the character after the blanks is put back.
SkipWhitespace ==
    /\ ctl = "whitespace"
    /\ IF blank_P(fgetc)
       THEN Read /\ Increment(fgetc) /\ UNCHANGED <<injected_input_values, ctl, delivered>>
       ELSE /\ IncrementDecrement(fgetc)
            /\ UNCHANGED position
            /\ IF injectedBy(fgetc) # <<>> THEN DeliverInjected(injectedBy(fgetc))
               ELSE ctl' = "token" /\ UNCHANGED <<delivered, injected_input_values>>
    /\ UNCHANGED <<input, from>>

\* The first character of a token decides what it is.
BeginToken ==
    /\ ctl = "token" /\ fgetc # EOF
    /\ Read /\ Increment(fgetc) /\ from' = position
    /\ injected_input_values' = injectedBy(fgetc)
    /\ CASE fgetc = leftparen -> Deliver(leftparen, position)
         [] fgetc = quote -> ctl' = string /\ UNCHANGED delivered
         [] fgetc = symbolChar -> ctl' = symbol /\ UNCHANGED delivered
    /\ UNCHANGED input

\* parseSymbol: a blank after the symbol is dropped, anything else is put back.
ReadSymbol ==
    /\ ctl = symbol
    /\ injected_input_values' = injectedBy(fgetc)
    /\ CASE fgetc = symbolChar -> Read /\ Increment(fgetc) /\ UNCHANGED <<ctl, delivered>>
         [] fgetc = space -> Read /\ Increment(fgetc) /\ Deliver(symbol, from)
         [] OTHER -> IncrementDecrement(fgetc) /\ Deliver(symbol, from) /\ UNCHANGED position
    /\ UNCHANGED <<input, from>>

\* parseString: whatever a line inside of the string injects waits for its end.
ReadString ==
    /\ ctl = string
    /\ Read /\ Increment(fgetc)
    /\ injected_input_values' = injectedBy(fgetc)
    /\ CASE fgetc = quote -> Deliver(string, from)
         [] fgetc = EOF -> Deliver("error", from)
         [] OTHER -> UNCHANGED <<ctl, delivered>>
    /\ UNCHANGED <<input, from>>

\* The end of the file counts as a line in column 0: deinject closes all blocks.
Deinject ==
    /\ ctl = "token" /\ fgetc = EOF
    /\ column_number' = 0 /\ B_beginning_of_line' = TRUE
    /\ backtracking' = <<backtracking[2], backtracking[3], backtracking[4],
                         <<column_number + 1, B_beginning_of_line>> >>
    /\ open_indentations' = indentations(open_indentations, 0)
    /\ IF injections(open_indentations, 0) # <<>>
       THEN DeliverInjected(injections(open_indentations, 0))
       ELSE Deliver(EOF, 0) /\ UNCHANGED injected_input_values
    /\ UNCHANGED <<input, position, from>>

Next == Consume \/ SkipWhitespace \/ BeginToken \/ ReadSymbol \/ ReadString \/ Deinject

Spec == Init /\ [][Next]_vars
-----------------------------------------------------------------------------
lineStart(p) == {q \in 1 .. p - 1 : input[q] = newline /\ \A r \in q + 1 .. p - 1 : input[r] # newline}
columnOf(p) == p - 1 - (IF lineStart(p) = {} THEN 0 ELSE CHOOSE q \in lineStart(p) : TRUE)

\* The characters that a line begins with, up to a place in the file.
beginnings(p) ==
    {q \in 1 .. p : /\ q <= Len(input) /\ ~blank_P(input[q])
                    /\ \A r \in q - columnOf(q) .. q - 1 : input[r] = space}

\* A line begins a block when no block of its column is open around it, and
\* ends the blocks that are further to the right.
Block(q) ==
    /\ columnOf(q) > 0
    /\ ~ \E p \in beginnings(q) \ {q} :
           /\ columnOf(p) = columnOf(q)
           /\ \A r \in beginnings(q) : r > p => columnOf(r) >= columnOf(q)
depthAt(p) ==
    Cardinality({q \in beginnings(p) : /\ Block(q)
                                       /\ \A r \in beginnings(p) : r > q => columnOf(r) >= columnOf(q)})

count(tokens, token) == Cardinality({i \in DOMAIN tokens : tokens[i].token = token})
depthOf(tokens) == count(tokens, autoleftparen) - count(tokens, autorightparen)

\* The open blocks are to the right of each other, and there is always the
\* outermost one in column 0: what update_indentation asserts and what its loop
\* stops at.
IndentationsAscend ==
    /\ open_indentations # <<>> /\ open_indentations[1] = 0
    /\ \A i, j \in DOMAIN open_indentations : i < j => open_indentations[i] < open_indentations[j]

\* The columns are those of the file, though characters and newlines are put
\* back after they have been counted.
ColumnsAreReal ==
    position <= Len(input) => column_number = columnOf(position)

\* Every token is as many injected parentheses deep as blocks are open where it
\* begins, wherever the lines before it begin and whatever was put back, and
\* none is open when the end of the file is delivered.
DepthAsIndented ==
    LET last == delivered[Len(delivered)]
    IN  /\ ColumnsAreReal
        /\ delivered # <<>> =>
            /\ last.from > 0 /\ last.token # "error" => depthOf(delivered) = depthAt(last.from)
            /\ last.token = EOF => depthOf(delivered) = 0 /\ injected_input_values = <<>>
=============================================================================
