------------------------------ MODULE Printer ------------------------------
(***************************************************************************)
(* Formatters: trees become text again, as mathematics (Math, which the    *)
(* terminal prints), as LaTeX (which the windows draw) and as S            *)
(* expressions.  What is printed is parsed again, by the same parser.      *)
(*                                                                         *)
(* A text is a sequence of tokens as in module ShuntingYard; blanks        *)
(* between tokens are left out, as is how LaTeX writes a symbol.  The      *)
(* parser makes no lists and ratios, so they are not printed here.  Trees  *)
(* recur, so this module is for TLC only.                                  *)
(***************************************************************************)
EXTENDS Syntax

VARIABLE printed    \* the tree that was printed, if there is one

allVars == <<vars, printed>>

-----------------------------------------------------------------------------
(* GenericPrinter                                                          *)

\* A mutant of parend_P.
parendBelow_P(level, precedence_limit, B_paren_equal_levels) == level < precedence_limit

\* maybe_print_opening_paren and maybe_print_closing_paren.
parend_P(level, precedence_limit, B_paren_equal_levels) ==
    \/ level < precedence_limit
    \/ level = precedence_limit /\ B_paren_equal_levels
parend(tokens, level, precedence_limit, B_paren_equal_levels) ==
    IF parend_P(level, precedence_limit, B_paren_equal_levels) THEN <<"(">> \o tokens \o <<")">>
    ELSE tokens

infix_P(token) == any_operator_P(token) /\ ~prefix_operator_P(token)
print_text(token) == IF infix_P(token) THEN <<"(", token, ")">> ELSE <<token>>

quote_P(node) == node \in {Symbol("'"), CProcedure("quote", 1)}

\* The operator of a b when the tree is one, and there is such an operator.
binary_P(node) ==
    /\ application_P(node) /\ application_P(node.operator)
    /\ symbol1_P(node.operator.operator) /\ any_operator_P(node.operator.operator.name)
let_P(node) == application_P(node) /\ abstraction_P(node.operator)

\* The right operand of a dot is quoted by the parser, so it is unquoted here.
unquoted(operator, node) ==
    IF operator = "." /\ application_P(node) /\ quote_P(node.operator) THEN node.operand ELSE node

fraction(a, b) == <<"\\frac{">> \o a \o <<"}{">> \o b \o <<"}">>

\* The parameters of abstractions in a row, and the body of the last one.
RECURSIVE parametersOf(_), bodyOf(_)
parametersOf(node) ==
    IF abstraction_P(node) THEN <<"\\", node.parameter.name>> \o parametersOf(node.body) ELSE <<>>
bodyOf(node) == IF abstraction_P(node) THEN bodyOf(node.body) ELSE node

RECURSIVE print_CXX(_, _, _, _)

process_abstraction(form, node, limit, equal) ==
    parend(IF form = "LATEX" THEN fraction(parametersOf(node), print_CXX(form, bodyOf(node), 0, FALSE))
           ELSE <<"\\">> \o print_CXX(form, node.parameter, limit, FALSE)
                    \o print_CXX(form, node.body, 0, FALSE),
           0, limit, equal)

printLet(form, node, limit, equal) ==
    LET level == precedence("let")
    IN  parend(<<"let">> \o print_CXX(form, node.operator.parameter, level, FALSE)
                   \o <<":=">> \o print_CXX(form, node.operand, level, FALSE)
                   \o <<"in">> \o print_CXX(form, node.operator.body, level, FALSE),
               level, limit, equal)

printBinary(form, node, limit, equal) ==
    LET name == node.operator.operator.name
        a == print_CXX(form, node.operator.operand, precedence(name), associativity(name) # "left")
        b == print_CXX(form, unquoted(name, node.operand), precedence(name), associativity(name) # "right")
    IN  IF form = "LATEX" /\ name = "/" THEN fraction(a, b)
        ELSE parend(a \o <<name>> \o b, precedence(name), limit, equal)

\* An infix operator with one operand stands in parentheses.  In LaTeX these
\* are around the middle of a fraction when it is /.
operatorAlone(form, name) ==
    <<"(", IF form = "LATEX" /\ name = "/" THEN "}{" ELSE name, ")">>
printApplication(form, node, limit, equal) ==
    LET fn == node.operator
    IN  parend((IF symbol1_P(fn) /\ infix_P(fn.name) THEN operatorAlone(form, fn.name)
                ELSE print_CXX(form, fn, apply_level, FALSE))
                   \o print_CXX(form, node.operand, apply_level, TRUE),
               apply_level, limit, equal)

print_CXX(form, node, limit, equal) ==
    CASE symbol1_P(node) -> print_text(node.name)
      [] node.t = "int" -> <<node.value>>
      [] node.t = "proc" -> <<"'">>
      [] abstraction_P(node) -> process_abstraction(form, node, limit, equal)
      [] let_P(node) -> printLet(form, node, limit, equal)
      [] binary_P(node) -> printBinary(form, node, limit, equal)
      [] application_P(node) /\ ~let_P(node) /\ ~binary_P(node) -> printApplication(form, node, limit, equal)

print(form, node) == print_CXX(form, node, 0, FALSE)

-----------------------------------------------------------------------------
(* How a reader takes a drawn formula: a fraction is a division or, with    *)
(* parameters above the line, an abstraction.                               *)
asRead(tokens) ==
    LET Push(s, kind, out) == [open |-> Append(s.open, kind), out |-> s.out \o out]
        Step(s, i) ==
            CASE tokens[i] = "\\frac{" /\ tokens[i + 1] = "\\" -> Push(s, "fn", <<"(">>)
              [] tokens[i] = "\\frac{" /\ tokens[i + 1] # "\\" -> Push(s, "/", <<"(", "(">>)
              [] tokens[i] = "}{" -> [s EXCEPT !.out = @ \o IF Last(s.open) = "fn" THEN <<>> ELSE <<")", "/", "(">>]
              [] tokens[i] = "}" ->
                     [open |-> Front(s.open), out |-> s.out \o IF Last(s.open) = "fn" THEN <<")">> ELSE <<")", ")">>]
              [] OTHER -> [s EXCEPT !.out = Append(@, tokens[i])]
    IN  FoldLeft(Step, [open |-> <<>>, out |-> <<>>], [i \in DOMAIN tokens |-> i]).out

-----------------------------------------------------------------------------
(* S expressions                                                           *)

\* A builtin is printed by its name.  What is converted in applications and
\* abstractions is dropped there, and the node itself goes on.
repr(node) == IF node.t = "proc" THEN Symbol("'") ELSE node

\* The body of an abstraction begins a line, which is indented farther than
\* all lines before.
RECURSIVE print_S_Expression(_)
print_S_Expression(node) ==
    CASE application_P(node) ->
             <<"(">> \o print_S_Expression(node.operator) \o print_S_Expression(node.operand) \o <<")">>
      [] abstraction_P(node) ->
             <<"(", "\\">> \o print_S_Expression(node.parameter) \o <<"\n">>
                 \o print_S_Expression(node.body) \o <<")">>
      [] symbol1_P(node) -> <<node.name>>
      [] node.t = "int" -> <<node.value>>
      [] node.t = "proc" -> <<"'">>

\* The scanner injects a parenthesis there, which is a symbol of its own.
injected(tokens) == [i \in DOMAIN tokens |-> IF tokens[i] = "\n" THEN "auto(" ELSE tokens[i]]

Failed == [ok |-> FALSE, node |-> <<>>, rest |-> <<>>]
RECURSIVE parse_S_Expression(_), parse_S_list_body(_)
\* The elements up to a closing parenthesis, which is not taken.
parse_S_list_body(tokens) ==
    IF tokens = <<>> \/ Head(tokens) = ")" THEN [ok |-> TRUE, node |-> <<>>, rest |-> tokens]
    ELSE LET first == parse_S_Expression(tokens)
             others == parse_S_list_body(first.rest)
         IN  IF first.ok /\ others.ok
             THEN [ok |-> TRUE, node |-> <<first.node>> \o others.node, rest |-> others.rest]
             ELSE Failed
\* A list is a sequence here.  Numerals stay symbols.
parse_S_Expression(tokens) ==
    IF tokens = <<>> THEN Failed
    ELSE IF Head(tokens) # "(" THEN [ok |-> TRUE, node |-> <<"symbol", Head(tokens)>>, rest |-> Tail(tokens)]
    ELSE LET body == parse_S_list_body(Tail(tokens))
         IN  IF body.ok /\ body.rest # <<>>
             THEN [ok |-> TRUE, node |-> <<"list", body.node>>, rest |-> Tail(body.rest)]
             ELSE Failed

\* What it asserts of every list: an abstraction is one of three, an
\* application one of two.
backslash_P(items) == Head(items) = <<"symbol", "\\">>
RECURSIVE asserted_P(_)
asserted_P(root) ==
    root[1] = "list" =>
        /\ root[2] # <<>>
        /\ Len(root[2]) = IF backslash_P(root[2]) THEN 3 ELSE 2
        /\ \A i \in DOMAIN root[2] : asserted_P(root[2][i])

\* Where that holds; otherwise the program ends.
RECURSIVE programFromSExpression(_)
programFromSExpression(root) ==
    IF root[1] = "symbol" THEN Symbol(root[2])
    ELSE LET items == root[2]
         IN  IF backslash_P(items)
             THEN makeAbstraction(programFromSExpression(items[2]), programFromSExpression(items[3]))
             ELSE Apply(programFromSExpression(items[1]), programFromSExpression(items[2]))

-----------------------------------------------------------------------------
(* The division with one operand spoils the fractions.                      *)
RECURSIVE drawable_P(_)
drawable_P(node) ==
    CASE binary_P(node) -> drawable_P(node.operator.operand) /\ drawable_P(node.operand)
      [] application_P(node) /\ ~binary_P(node) ->
             node.operator # Symbol("/") /\ drawable_P(node.operator) /\ drawable_P(node.operand)
      [] abstraction_P(node) -> drawable_P(node.body)
      [] OTHER -> TRUE

\* The printed text, for the parser.
PrintAndParse ==
    /\ at = "done" /\ printed = <<>> /\ OPL = <<>>
    /\ text' \in {print("Math", result)}
                     \union (IF drawable_P(result) THEN {asRead(print("LATEX", result))} ELSE {})
    /\ printed' = <<result>>
    /\ position' = 1 /\ calls' = <<Expression(EOF)>>
    /\ at' = "loop" /\ reducing' = FALSE /\ result' = nil
    /\ UNCHANGED OPL

PrinterInit == Init /\ printed = <<>>
PrinterNext == (Next /\ UNCHANGED printed) \/ PrintAndParse
PrinterSpec == PrinterInit /\ [][PrinterNext]_allVars

-----------------------------------------------------------------------------
\* The same tree: quotes that the parser adds to dots and imports, and quotes
\* that are written, are printed alike; in S expressions, numerals are symbols.
RECURSIVE alike(_)
alike(node) ==
    CASE application_P(node) -> Apply(alike(node.operator), alike(node.operand))
      [] abstraction_P(node) -> makeAbstraction(node.parameter, alike(node.body))
      [] node.t = "int" -> Symbol(node.value)
      [] quote_P(node) -> Symbol("'")
      [] OTHER -> node

\* Prefix operators as values are printed without parentheses, those with two
\* operands (the unary minus has 0, a quoted function what it is applied to)
\* like infix ones.  That reads as something else, and so do brackets and
\* keywords, which the parser takes for symbols in odd texts.
RECURSIVE legible_P(_)
legible_P(node) ==
    CASE application_P(node) ->
             /\ binary_P(node) => infix_P(node.operator.operator.name)
             /\ quote_P(node.operator) \/ legible_P(node.operator)
             /\ legible_P(node.operand)
      [] abstraction_P(node) -> identifier_P(node.parameter.name) /\ legible_P(node.body)
      [] symbol1_P(node) -> identifier_P(node.name) \/ infix_P(node.name)
      [] OTHER -> TRUE

\* What has no abstraction is printed on one line.
RECURSIVE flat_P(_)
flat_P(node) ==
    /\ ~abstraction_P(node)
    /\ application_P(node) => flat_P(node.operator) /\ flat_P(node.operand)

saved(node) == injected(print_S_Expression(repr(node)))

\* What is printed with the default operators, as text or drawn, reads as the
\* same tree: there are parentheses where precedence or associativity need
\* them.  S expressions have all parentheses.  A line break among them makes
\* the program fail to read them (Evaluators.cc:359), but never as another tree.
PrintedReadsBack ==
    /\ printed # <<>> /\ legible_P(printed[1]) =>
         /\ at \notin {"error", "abort"}
         /\ at = "done" => alike(result) = alike(printed[1])
    /\ printed = <<>> /\ at = "done" /\ legible_P(result) =>
         LET read == parse_S_Expression(saved(result))
         IN  /\ flat_P(result) => read.ok /\ asserted_P(read.node)
             /\ read.ok /\ asserted_P(read.node) =>
                  read.rest = <<>> /\ programFromSExpression(read.node) = alike(result)
=============================================================================
