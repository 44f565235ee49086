--------------------------- MODULE ShuntingYard ---------------------------
(***************************************************************************)
(* ShuntingYardParser: the tokens of a text become one tree.               *)
(*                                                                         *)
(* parseExpression keeps operators and operands on two stacks and, for     *)
(* each open parenthesis, how many operands there were before it.  Macros  *)
(* that stand before an operand are prepared as a stand-in on the stack of *)
(* operators and expanded when their operand is complete.  Lists, quotes   *)
(* in lists, and the parts of let and import are read by calls of          *)
(* parseExpression inside of parseExpression: calls is the C++ stack.      *)
(*                                                                         *)
(* A token is a string; parentheses that the scanner injects are "{" and   *)
(* "}".  After the text the scanner gives EOF for ever.                    *)
(***************************************************************************)
EXTENDS Nodes, Precedences, FiniteSets

CONSTANTS
    Texts,          \* the sequences of tokens to parse
    OperatorLists,  \* the operator lists to parse them with; <<>>: the defaults
    Numerals        \* the tokens that are numbers: all others are symbols

ASSUME TextsAssumption == \A t \in Texts : t \in Seq(STRING)

VARIABLES
    text,
    OPL,            \* the list in use
    position,       \* of the token that input_value is
    calls,          \* parseExpression and the macros that wait for it
    at,             \* where the innermost call is
    reducing,       \* FALSE: SCOPERANDS skips the while loop after it
    result          \* what a call that returns gives

vars == <<text, OPL, position, calls, at, reducing, result>>

EOF == "<EOF>"
openers == {"(", "{"}
closers == {")", "}"}
Tokens == (UNION {Range(t) : t \in Texts}) \cup {EOF, " "} \cup openers \cup closers

-----------------------------------------------------------------------------
(* Operators                                                               *)

\* The list of precedences as parseExpression looks tokens up in it.
Lookups ==
    [list \in OperatorLists |->
        LET levels == legacyOPLFrom5DOPL(list)
        IN  [token \in Tokens |-> get_operator_precedence_and_associativity(levels, token)]]

\* Nobody registers parentheses: they hold back all operators.
ASSUME ParensAssumption ==
    \A list \in OperatorLists : \A token \in openers : Lookups[list][token].precedence = -1

precedence(token) == Lookups[OPL][token].precedence
associativity(token) == Lookups[OPL][token].associativity

any_operator_P(token) == precedence(token) # -1
prefix_operator_P(token) == any_operator_P(token) /\ associativity(token) = "prefix"
any_operator_or_paren_P(token) == token \in openers \cup closers \/ any_operator_P(token)
simple_macro_P(token) == token \in {"[", "'", "#exports"}

\* What is on the stack of operators: an operator or a parenthesis itself, or
\* the stand-in of a macro with what it has read so far.
Plain(token) == [operator |-> token, standin |-> FALSE, arguments |-> <<>>]
Standin(token, arguments) == [operator |-> token, standin |-> TRUE, arguments |-> arguments]
paren_P(op1) == op1.operator \in openers

-----------------------------------------------------------------------------
(* Trees                                                                   *)

Apply(operator, operand) == makeApplication(<<>>, operator, operand)
quote(node) == Apply(CProcedure("quote", 1), node)
Quoted(node) == Apply(Symbol("'"), node)

makeOperation(operator, a, b) ==
    IF operator = " " THEN Apply(a, b) ELSE Apply(Apply(Symbol(operator), a), b)

makeOperationDot(operator, a, b) ==
    makeOperation(operator, a, IF operator = "." THEN quote(b) ELSE b)

close(parameter, argument, body) == Apply(makeAbstraction(parameter, body), argument)

\* The imported symbols one after another, the first outermost.
closeMany(symbols, dependency, suffix) ==
    FoldRight(LAMBDA a, body : close(a, Apply(dependency, quote(a)), body), symbols, suffix)

\* expand_macro: the operand of a macro has arrived.
expand_macro(op1, suffix) ==
    CASE op1.operator = "\\" -> makeAbstraction(op1.arguments[1], suffix)
      [] op1.operator = "'" -> Quoted(suffix)
      [] op1.operator = "let" -> close(op1.arguments[1], op1.arguments[2], suffix)
      [] op1.operator = "let!" ->
             makeOperation(";", op1.arguments[2], makeAbstraction(op1.arguments[1], suffix))
      [] op1.operator = "import" ->
             closeMany(Front(op1.arguments), Last(op1.arguments), suffix)
      [] op1.operator = "unary-" -> makeOperation("unary-", Symbol("0"), suffix)

\* The assertions in expand_macro and closeMany: what is bound is a symbol.
assertions_hold_P(op1) ==
    op1.operator \in {"let", "let!", "import"} =>
        \A i \in 1 .. Len(op1.arguments) - 1 : symbol1_P(op1.arguments[i])

\* The lists that [a b], #exports [a b] and import [a b] stand for.
listOf(elements) == FoldRight(LAMBDA a, rest : makeOperation(":", a, rest), elements, Symbol("nil"))
exportOf(a) == makeOperation(",", Quoted(a), a)
macroList(form, elements) ==
    IF form = "#exports" THEN listOf([i \in DOMAIN elements |-> exportOf(elements[i])])
    ELSE listOf(elements)

-----------------------------------------------------------------------------
(* The scanner                                                             *)

tokenAt(i) == IF i <= Len(text) THEN text[i] ELSE EOF
input_value == tokenAt(position)

\* A leaf of the tree.
leaf(token) == IF token \in Numerals THEN makeInt(token) ELSE Symbol(token)

\* The parameter of \ and let: a token, or one in parentheses.
bracketed_P == input_value = "("
parameterToken == tokenAt(IF bracketed_P THEN position + 1 ELSE position)
afterParameter == IF bracketed_P THEN position + 3 ELSE position + 1
parameter_ends_P == bracketed_P => tokenAt(position + 2) = ")"

-----------------------------------------------------------------------------
(* Calls                                                                   *)

\* A call of parseExpression.  value is the token that was handled last.
Expression(terminator) ==
    [call |-> "parseExpression", fOperators |-> <<>>, fOperands |-> <<>>,
     fOperandCounts |-> <<0>>, value |-> "(", terminator |-> terminator]

\* Calls that wait for a value: an element of a list, the operand of a quote,
\* what a symbol is bound to, a module.
ListMacro(form) == [call |-> "list", form |-> form, elements |-> <<>>]
QuoteMacro == [call |-> "quote"]
LetMacro(operator, parameter) == [call |-> "let", operator |-> operator, parameter |-> parameter]
ImportMacro(symbols) == [call |-> "import", symbols |-> symbols]

frame == Last(calls)
caller == Last(Front(calls))
replaced(f) == Append(Front(calls), f)
pushedOperator(f, op1) == [f EXCEPT !.fOperators = Append(@, op1)]
pushedOperand(f, node) == [f EXCEPT !.fOperands = Append(@, node)]

\* The parser goes on at label with this stack.
Goto(label, stack, next) ==
    /\ at' = label
    /\ calls' = stack
    /\ position' = next
    /\ UNCHANGED <<reducing, result>>

\* raiseError and a failed assertion: all calls are left.
Stop(label) == Goto(label, <<>>, position)

\* consume(expected) and the other checks: action, or the parse error.
Check(condition, action) == (condition /\ action) \/ (~condition /\ Stop("error"))

\* A call gives node to the call that waits for it.
Return(node, waiting, next) ==
    /\ at' = (IF waiting = <<>> THEN "done" ELSE "return")
    /\ calls' = waiting
    /\ result' = node
    /\ position' = next
    /\ UNCHANGED reducing

\* expand_simple_macro, with the token after it at position next.
ExpandSimpleMacro(token, waiting, next) ==
    \/ token = "[" /\ Goto("list", Append(waiting, ListMacro("[")), next)
    \/ /\ token = "#exports"
       /\ Check(tokenAt(next) = "[", Goto("list", Append(waiting, ListMacro("#exports")), next + 1))
    \/ /\ token = "'"
       /\ IF tokenAt(next) \in closers \cup {EOF} THEN Return(Symbol("'"), waiting, next)
          ELSE Goto("value", Append(waiting, QuoteMacro), next)

Init ==
    /\ text \in Texts
    /\ OPL \in OperatorLists
    /\ position = 1
    /\ calls = <<Expression(EOF)>>
    /\ at = "loop"
    /\ reducing = FALSE
    /\ result = nil

-----------------------------------------------------------------------------
(* The loop over tokens                                                    *)

\* Two operands in a row: between them is an application that nobody wrote.
juxtaposed_P ==
    /\ frame.value \notin openers \cup {" "}
    /\ ~any_operator_P(frame.value)
    /\ ~any_operator_P(input_value) \/ prefix_operator_P(input_value) \/ input_value = "\\"
    /\ input_value \notin closers

value == IF juxtaposed_P THEN " " ELSE input_value
taken == [frame EXCEPT !.value = value]
afterValue == IF juxtaposed_P THEN position ELSE position + 1

finished_P ==
    \/ input_value = EOF
    \/ Len(frame.fOperandCounts) <= 1 /\ frame.terminator \in {input_value, value}

prefix_P ==
    /\ prefix_operator_P(value)
    /\ any_operator_or_paren_P(frame.value)
    /\ frame.value \notin closers

\* A mutant of section_P.
sectionInEmptyTextOnly(f) ==
    /\ f.fOperators # <<>>
    /\ ~paren_P(Last(f.fOperators))
    /\ ~Last(f.fOperators).standin \/ Last(f.fOperators).operator = "unary-"
    /\ f.fOperands = <<>>

\* SCOPERANDS: the operator on top stands alone in its parentheses so far...
section_P(f) ==
    /\ f.fOperators # <<>>
    /\ ~paren_P(Last(f.fOperators))
    /\ ~Last(f.fOperators).standin \/ Last(f.fOperators).operator = "unary-"
    /\ Len(f.fOperands) <= Last(f.fOperandCounts)

\* ... and becomes an operand itself.
sectioned(f) ==
    [pushedOperand(f, Symbol(Last(f.fOperators).operator)) EXCEPT !.fOperators = Front(@)]

\* SCOPERANDS, then the while loop unless it was a section.
BeginReducing(loop, f, next) ==
    /\ at' = loop
    /\ reducing' = ~section_P(f)
    /\ calls' = replaced(IF section_P(f) THEN sectioned(f) ELSE f)
    /\ position' = next
    /\ UNCHANGED result

EndOfTokens ==
    /\ at = "loop" /\ finished_P
    /\ Check(input_value = EOF => frame.terminator = EOF, BeginReducing("end", frame, position))

Close ==
    /\ at = "loop" /\ ~finished_P
    /\ value \in closers
    /\ BeginReducing("close", taken, afterValue)

Prefix ==
    /\ at = "loop" /\ ~finished_P
    /\ value \notin closers /\ prefix_P
    /\ BeginReducing("prefix", taken, afterValue)

opened(f, token) ==
    [pushedOperator(f, Plain(token)) EXCEPT !.fOperandCounts = Append(@, Len(f.fOperands))]

Open ==
    /\ at = "loop" /\ ~finished_P
    /\ value \in openers
    /\ Goto("loop", replaced(opened(taken, value)), afterValue)

Operator ==
    /\ at = "loop" /\ ~finished_P
    /\ any_operator_P(value) /\ ~prefix_P
    /\ BeginReducing("operator", taken, afterValue)

Operand ==
    /\ at = "loop" /\ ~finished_P
    /\ ~any_operator_or_paren_P(value)
    /\ IF simple_macro_P(value) THEN ExpandSimpleMacro(value, replaced(taken), afterValue)
       ELSE Goto("loop", replaced(pushedOperand(taken, leaf(value))), afterValue)

-----------------------------------------------------------------------------
(* The while loops                                                         *)

\* get_operator_precedence: a stand-in has the precedence of its operator.
standsIn(op1) == precedence(op1.operator)

\* A mutant of yields_P.
yieldsToEquals_P(token, op1) == precedence(token) <= standsIn(op1)

\* The operator on top binds its operands before token does.  Operators that
\* associate to no side are treated like those that associate to the right.
yields_P(token, op1) ==
    /\ precedence(token) <= standsIn(op1)
    /\ associativity(token) # "left" => precedence(token) # standsIn(op1)

\* The condition of the loop.
continues_P ==
    /\ at \in {"close", "prefix", "operator", "end"}
    /\ reducing
    /\ frame.fOperators # <<>>
    /\ LET op1 == Last(frame.fOperators)
       IN  \/ at = "close" /\ ~paren_P(op1)
           \/ /\ at = "prefix"
              /\ ~op1.standin /\ prefix_operator_P(op1.operator)
              /\ precedence(frame.value) < precedence(op1.operator)
           \/ at = "operator" /\ yields_P(frame.value, op1)
           \/ at = "end"

\* A mutant of available.
availableAnywhere(f) == Len(f.fOperands)

\* The operands that belong to the innermost open parenthesis.
available(f) == Len(f.fOperands) - Last(f.fOperandCounts)

\* The operator on top has its operands; minus makes do with one.
reducible_P(f) ==
    LET op1 == Last(f.fOperators)
        needed == IF op1.standin \/ op1.operator = "-" THEN 1 ELSE 2
    IN  available(f) >= needed

\* CONSUME_OPERATION.
consumed(f) ==
    LET op1 == Last(f.fOperators)
        b == Last(f.fOperands)
        fewer == Front(f.fOperands)
        operands ==
            CASE op1.standin -> Append(fewer, expand_macro(op1, b))
              [] ~op1.standin /\ available(f) = 1 ->
                     Append(fewer, makeOperationDot(op1.operator, Symbol("0"), b))
              [] OTHER ->
                     Append(Front(fewer), makeOperationDot(op1.operator, Last(fewer), b))
    IN  [f EXCEPT !.fOperators = Front(@), !.fOperands = operands]

Reduce ==
    /\ continues_P
    /\ Check(reducible_P(frame),
             IF assertions_hold_P(Last(frame.fOperators))
             THEN Goto(at, replaced(consumed(frame)), position)
             ELSE Stop("abort"))

\* A mutant of closed.
closedCountKept(f) == [f EXCEPT !.fOperators = Front(@)]

closed(f) == [f EXCEPT !.fOperators = Front(@), !.fOperandCounts = Front(@)]

opener(closer) == IF closer = ")" THEN "(" ELSE "{"

EndClose ==
    /\ at = "close" /\ ~continues_P
    /\ Check(frame.fOperators # <<>> /\ Last(frame.fOperators) = Plain(opener(frame.value)),
             Goto("loop", replaced(closed(frame)), position))

EndOperator ==
    /\ at = "operator" /\ ~continues_P
    /\ Goto("loop", replaced(pushedOperator(frame, Plain(frame.value))), position)

\* A mutant of complete_P.
someOperand_P(f) == f.fOperands # <<>>

\* What is left must be one operand.
complete_P(f) == Len(f.fOperands) = 1

\* parse_value consumes the parenthesis that ended the expression.
EndExpression ==
    /\ at = "end" /\ ~continues_P
    /\ Check(complete_P(frame),
             Return(Last(frame.fOperands), Front(calls),
                    IF frame.terminator \in closers THEN position + 1 ELSE position))

-----------------------------------------------------------------------------
(* handle_unary_operator                                                   *)

\* The keyword of a macro in parentheses is the symbol, as is an operator that
\* is no macro.
bare_P(operator) ==
    \/ input_value = ")"
    \/ operator = "'" /\ input_value \in {"}", EOF}
    \/ operator \notin {"\\", "'", "let", "let!", "import", "unary-"}

PushPrefix(op1, next) == Goto("loop", replaced(pushedOperator(frame, op1)), next)

\* parse_abstraction_parameter.
PrefixAbstraction ==
    Check(/\ parameter_ends_P
          /\ parameterToken \notin Numerals
          /\ tokenAt(afterParameter) \notin closers \cup {"]", EOF},
          PushPrefix(Standin("\\", <<leaf(parameterToken)>>), afterParameter))

\* parse_let_macro, up to what the symbol is bound to.
PrefixLet ==
    Check(parameter_ends_P /\ tokenAt(afterParameter) \in {"=", ":="},
          Goto("loop",
               calls \o <<LetMacro(frame.value, leaf(parameterToken)), Expression("in")>>,
               afterParameter + 1))

\* parse_import_macro, up to the list.
PrefixImport ==
    Check(input_value = "[", Goto("list", Append(calls, ListMacro("import")), position + 1))

EndPrefix ==
    /\ at = "prefix" /\ ~continues_P
    /\ IF bare_P(frame.value) THEN PushPrefix(Plain(frame.value), position)
       ELSE \/ frame.value \in {"'", "unary-"} /\ PushPrefix(Standin(frame.value, <<>>), position)
            \/ frame.value = "\\" /\ PrefixAbstraction
            \/ frame.value \in {"let", "let!"} /\ PrefixLet
            \/ frame.value = "import" /\ PrefixImport

-----------------------------------------------------------------------------
(* Macros                                                                  *)

\* parse_value.
Value ==
    /\ at = "value"
    /\ \/ input_value = EOF /\ Stop("error")
       \/ input_value = "(" /\ Goto("loop", Append(calls, Expression(")")), position + 1)
       \/ input_value = "{" /\ Goto("loop", Append(calls, Expression("}")), position + 1)
       \/ simple_macro_P(input_value) /\ ExpandSimpleMacro(input_value, calls, position + 1)
       \/ /\ input_value \notin openers \cup {EOF} /\ ~simple_macro_P(input_value)
          /\ Goto("loop", Append(calls, Expression(" ")), position)

\* The bodies of list, exports and imports.
Element ==
    /\ at = "list" /\ input_value \notin {"]", EOF}
    /\ Goto("value", calls, position)

EndList ==
    /\ at = "list" /\ input_value \in {"]", EOF} /\ frame.form # "import"
    /\ Check(input_value = "]",
             Return(macroList(frame.form, frame.elements), Front(calls), position + 1))

EndImports ==
    /\ at = "list" /\ input_value \in {"]", EOF} /\ frame.form = "import"
    /\ Check(input_value = "]" /\ tokenAt(position + 1) = "from",
             Goto("loop", replaced(ImportMacro(frame.elements)) \o <<Expression("in")>>,
                  position + 2))

\* The stand-in of let and import when what they bind to has been read.
standinOf(waiting, node) ==
    IF waiting.call = "let" THEN Standin(waiting.operator, <<waiting.parameter, node>>)
    ELSE Standin("import", Append(waiting.symbols, node))

ReturnToExpression ==
    /\ at = "return" /\ frame.call = "parseExpression"
    /\ Goto("loop", replaced(pushedOperand(frame, result)), position)

ReturnToList ==
    /\ at = "return" /\ frame.call = "list"
    /\ Goto("list", replaced([frame EXCEPT !.elements = Append(@, result)]), position)

ReturnToQuote ==
    /\ at = "return" /\ frame.call = "quote"
    /\ Return(Quoted(result), Front(calls), position)

\* The expression has ended at its terminator, which consume(Sin) takes.
ReturnToBinder ==
    /\ at = "return" /\ frame.call \in {"let", "import"}
    /\ Goto("loop",
            Append(Front(Front(calls)), pushedOperator(caller, standinOf(frame, result))),
            position + 1)

-----------------------------------------------------------------------------
Parse ==
    \/ EndOfTokens \/ Close \/ Prefix \/ Open \/ Operator \/ Operand
    \/ Reduce \/ EndClose \/ EndOperator \/ EndPrefix \/ EndExpression
    \/ Value \/ Element \/ EndList \/ EndImports
    \/ ReturnToExpression \/ ReturnToList \/ ReturnToQuote \/ ReturnToBinder

Next == Parse /\ UNCHANGED <<text, OPL>>

Spec == Init /\ [][Next]_vars /\ WF_vars(Next)

-----------------------------------------------------------------------------
(* Properties                                                              *)

ParensIn(operators) == Cardinality({i \in DOMAIN operators : paren_P(operators[i])})

\* fOperandCounts has one count more than there are parentheses among the
\* operators, so its top() and pop() find one.  At the end of a text with an
\* open parenthesis, that parenthesis may go before its count.
ParensCounted(f, ending) ==
    IF ending THEN Len(f.fOperandCounts) >= ParensIn(f.fOperators) + 1
    ELSE Len(f.fOperandCounts) = ParensIn(f.fOperators) + 1

\* The counts ascend and there are that many operands: what is inside of a
\* parenthesis comes after what is before it.
OperandsNested(f) ==
    LET counts == f.fOperandCounts
    IN  /\ \A i, j \in DOMAIN counts : i <= j => counts[i] <= counts[j]
        /\ \A i \in DOMAIN counts : counts[i] \in 0 .. Len(f.fOperands)

\* The three stacks of each parseExpression stay in step (ShuntingYardParser.cc
\* only checks this where a parenthesis is closed).
StacksInStep ==
    \A i \in DOMAIN calls :
        calls[i].call = "parseExpression" =>
            /\ ParensCounted(calls[i], at = "end" /\ i = Len(calls))
            /\ OperandsNested(calls[i])

\* No step in an open parenthesis touches the operands before the parenthesis
\* (the comparisons with fOperandCounts.top() in CONSUME_OPERATION).
GroupsKeepApart ==
    [][calls # <<>> /\ Len(calls') = Len(calls) /\ frame.call = "parseExpression" =>
          \A k \in 1 .. Last(frame.fOperandCounts) :
              /\ k \in DOMAIN frame'.fOperands
              /\ frame'.fOperands[k] = frame.fOperands[k]]_vars
=============================================================================
