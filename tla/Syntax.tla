------------------------------ MODULE Syntax ------------------------------
(***************************************************************************)
(* The grammar of expressions, read by precedence climbing, and what the   *)
(* shunting yard parser does with texts of this grammar.                   *)
(*                                                                         *)
(* The grammar is recursive, so this module is for TLC only.               *)
(***************************************************************************)
EXTENDS ShuntingYard

\* What was registered last of each operator counts.
LastRegistrations ==
    [list \in OperatorLists |->
        LET all == registrations(list)
        IN  [token \in Tokens |->
                LET i == SelectLastInSeq(all, LAMBDA r : r.operator = token)
                IN  IF i = 0 THEN [level |-> -1, operator |-> token, associativity |-> NULL]
                    ELSE all[i]]]

registration(token) == LastRegistrations[OPL][token]
operator_P(token) == registration(token).level # -1
prefixed_P(token) == operator_P(token) /\ registration(token).associativity = "prefix"

\* The token before any operator: it leaves everything to its right operand.
start == "<start>"

\* The right operand of the operator m goes on with the operator o.
goesOn_P(o, m) ==
    m = start \/ LET left == registration(m)
                     right == registration(o)
                 IN  \/ right.level > left.level
                     \/ right.level = left.level /\ right.associativity # "left"

keywords == {"\\", "let", "let!", "import"}
identifier_P(token) ==
    /\ ~operator_P(token)
    /\ token \notin openers \cup closers \cup keywords
    /\ token \notin {"[", "]", "'", "in", ":=", "from", "#exports", EOF, " "}

operandBegins_P(token) ==
    identifier_P(token) \/ token \in openers \cup {"[", "#exports"} \/ prefixed_P(token)

\* What is read from a place in the text: a tree and the place after it.
Read(tree, next) == [ok |-> TRUE, tree |-> tree, next |-> next]
Unreadable == [ok |-> FALSE, tree |-> nil, next |-> 0]
andThen(r, Rest(_, _)) == IF r.ok THEN Rest(r.tree, r.next) ELSE Unreadable
provided(condition, r) == IF condition THEN r ELSE Unreadable

\* A parameter: x or (x).
parameterName(i, next) ==
    provided(identifier_P(tokenAt(i)) /\ tokenAt(i) \notin Numerals, Read(leaf(tokenAt(i)), next))
parameterAt(i) ==
    IF tokenAt(i) # "(" THEN parameterName(i, i + 1)
    ELSE provided(tokenAt(i + 2) = ")", parameterName(i + 1, i + 3))

\* expression(i, m, first, juxtapose) reads the right operand of m at i.  first
\* says that its parentheses have no operand before it, juxtapose that two
\* operands in a row are an application and not two elements of a list.
RECURSIVE expression(_, _, _, _), extended(_, _, _, _), operand(_, _, _)
RECURSIVE element(_), elements(_)

whole(i) == expression(i, start, TRUE, TRUE)

\* A minus at the beginning of its parentheses has 0 on its left.
expression(i, m, first, juxtapose) ==
    IF first /\ tokenAt(i) = "-" /\ operator_P("-")
    THEN provided(goesOn_P("-", m) /\ ~prefixed_P(tokenAt(i + 1)),
                  extended(Symbol("0"), i, m, juxtapose))
    ELSE andThen(operand(i, first, juxtapose),
                 LAMBDA left, next : extended(left, next, m, juxtapose))

\* left, and what operators of tighter precedence than m make of it.
extended(left, i, m, juxtapose) ==
    LET token == tokenAt(i)
        visible == operator_P(token) /\ ~prefixed_P(token)
        o == IF visible THEN token ELSE " "
    IN  IF goesOn_P(o, m) /\ (visible \/ (juxtapose /\ operandBegins_P(token)))
        THEN andThen(expression(IF visible THEN i + 1 ELSE i, o, FALSE, juxtapose),
                     LAMBDA b, next :
                         extended(makeOperationDot(o, left, b), next, m, juxtapose))
        ELSE Read(left, i)

\* A prefix operator and its operand.
macro(i, first, juxtapose) ==
    LET token == tokenAt(i)
        Around(place, Tree(_)) ==
            andThen(expression(place, token, first, juxtapose),
                    LAMBDA body, next : Read(Tree(body), next))
        Let(parameter, bound, place) ==
            Around(place, LAMBDA body :
                IF token = "let" THEN close(parameter, bound, body)
                ELSE makeOperation(";", bound, makeAbstraction(parameter, body)))
        Import(imports, module, place) ==
            Around(place, LAMBDA body : closeMany(imports, module, body))
    IN  CASE token = "'" -> Around(i + 1, Quoted)
          [] token = "unary-" ->
                 provided(~(first /\ prefixed_P(tokenAt(i + 1))),
                          Around(i + 1, LAMBDA body : makeOperation(token, Symbol("0"), body)))
          [] token = "\\" ->
                 andThen(parameterAt(i + 1), LAMBDA parameter, j :
                     Around(j, LAMBDA body : makeAbstraction(parameter, body)))
          [] token \in {"let", "let!"} ->
                 andThen(parameterAt(i + 1), LAMBDA parameter, j :
                     provided(tokenAt(j) \in {"=", ":="},
                         andThen(whole(j + 1), LAMBDA bound, k :
                             provided(tokenAt(k) = "in", Let(parameter, bound, k + 1)))))
          [] token = "import" /\ tokenAt(i + 1) = "[" ->
                 andThen(elements(i + 2), LAMBDA imports, j :
                     provided(/\ \A n \in DOMAIN imports : symbol1_P(imports[n])
                              /\ tokenAt(j) = "from",
                         andThen(whole(j + 1), LAMBDA module, k :
                             provided(tokenAt(k) = "in", Import(imports, module, k + 1)))))
          [] OTHER -> Unreadable

\* Parentheses, with an expression or with an operator alone.
group(i) ==
    LET closer == IF tokenAt(i) = "(" THEN ")" ELSE "}"
        alone == /\ operator_P(tokenAt(i + 1)) /\ tokenAt(i + 2) = closer
                 /\ closer = "}" => tokenAt(i + 1) \notin keywords
    IN  IF alone THEN Read(Symbol(tokenAt(i + 1)), i + 3)
        ELSE andThen(whole(i + 1), LAMBDA tree, next :
                 provided(tokenAt(next) = closer, Read(tree, next + 1)))

listAt(form, i) == andThen(elements(i), LAMBDA trees, next : Read(macroList(form, trees), next))

operand(i, first, juxtapose) ==
    LET token == tokenAt(i)
    IN  CASE identifier_P(token) -> Read(leaf(token), i + 1)
          [] token \in openers -> group(i)
          [] token = "[" -> listAt(token, i + 1)
          [] token = "#exports" -> provided(tokenAt(i + 1) = "[", listAt(token, i + 2))
          [] prefixed_P(token) -> macro(i, first, juxtapose)
          [] OTHER -> Unreadable

\* An element of a list: one operand, or operands and operators.
element(i) ==
    IF tokenAt(i) \in openers \cup {"[", "#exports"} THEN operand(i, TRUE, FALSE)
    ELSE IF tokenAt(i) = "'"
         THEN andThen(element(i + 1), LAMBDA body, next : Read(Quoted(body), next))
         ELSE expression(i, start, TRUE, FALSE)

\* The elements up to the end of the list: a sequence of trees.
elements(i) ==
    IF tokenAt(i) = "]" THEN Read(<<>>, i + 1)
    ELSE provided(tokenAt(i) # EOF,
             andThen(element(i), LAMBDA tree, j :
                 andThen(elements(j), LAMBDA trees, next : Read(<<tree>> \o trees, next))))

\* The whole text.
meaning ==
    andThen(whole(1), LAMBDA tree, next : provided(tokenAt(next) = EOF, Read(tree, next)))

-----------------------------------------------------------------------------
(* Properties                                                              *)

\* A text of the grammar is accepted, and its tree is the one that the
\* precedences and parentheses say (parseExpression with all its macros, on
\* tables that cons has built).
ParsedAsWritten ==
    /\ at = "done" /\ meaning.ok => result = meaning.tree
    /\ at \in {"error", "abort"} => ~meaning.ok

\* How often a name occurs in a tree.
RECURSIVE Occurrences(_, _)
Occurrences(name, node) ==
    CASE application_P(node) ->
             Occurrences(name, node.operator) + Occurrences(name, node.operand)
      [] abstraction_P(node) ->
             Occurrences(name, node.parameter) + Occurrences(name, node.body)
      [] node \in {Symbol(name), makeInt(name)} -> 1
      [] OTHER -> 0

\* Each name, and each operator that has no second meaning in a macro, is in
\* the result as often as in the text.  (import and #exports write names twice,
\* and 0 is added.)
CopiedNames == Range(text) \cap {"import", "#exports"} = {} =>
    \A token \in Range(text) :
        (identifier_P(token) /\ token # "0") \/ token \in {"+", "*", "-", "$", "."} =>
            Occurrences(token, result) = Cardinality({i \in DOMAIN text : text[i] = token})

\* Whatever is accepted, in the grammar or not: something is lost only if an
\* expression ends with an operator, but for parentheses.
LostBehindSectionsOnly ==
    at = "done" /\ ~CopiedNames =>
        \E i \in DOMAIN text : \E j \in i + 1 .. Len(text) + 1 :
            /\ operator_P(text[i])
            /\ \A k \in i + 1 .. j - 1 : text[k] \in openers \cup closers
            /\ tokenAt(j) \in {EOF, "in"}
=============================================================================
