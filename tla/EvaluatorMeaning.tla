-------------------------- MODULE EvaluatorMeaning --------------------------
(***************************************************************************)
(* What the evaluator's answers mean: the value of a program by plain      *)
(* call-by-name rewriting, without caches, levels, signals or exceptions,  *)
(* and the properties of Evaluator that compare with it.                   *)
(***************************************************************************)
EXTENDS Evaluator, Terms

divergence == [t |-> "divergence"]

intsOf(arguments) == \A i \in DOMAIN arguments : arguments[i].t = "int"

\* The value of a builtin on its reduced arguments.
builtinValue(name, arguments) ==
    CASE name = "inline" -> arguments[1]
      [] name = "+" -> IF intsOf(arguments) THEN makeInt(arguments[1].value + arguments[2].value)
                       ELSE makeApplication(<<>>, makeApplication(<<>>, Symbol("+"),
                                            arguments[1]), arguments[2])
      [] name = "/" -> LET g == gcd(arguments[1].value, arguments[2].value)
                       IN  ratioOf(arguments[1].value \div g, arguments[2].value \div g)

\* The value of a closed term within so many nested calls.
RECURSIVE valueOf(_, _)
valueOf(term, fuel) ==
    CASE fuel = 0 -> divergence
      [] fuel # 0 /\ ~application_P(term) -> term
      [] fuel # 0 /\ application_P(term) ->
             LET operator == valueOf(term.operator, fuel - 1)
             IN  CASE operator.t \in {"divergence", "rejection"} -> operator
                   [] abstraction_P(operator) ->
                          valueOf(shift(term.operand, 1, operator.body, 0), fuel - 1)
                   [] builtin_call_P(operator) ->
                          LET verdict == Dispatch(operator, term.operand)
                              given == Append(argumentsOf(operator), term.operand)
                              values == [i \in DOMAIN given |-> valueOf(given[i], fuel - 1)]
                          IN  CASE verdict = "reject" -> [t |-> "rejection"]
                                [] verdict = "curry" -> makeCurriedOperation(operator, term.operand)
                                [] verdict = "call" /\ procOf(operator).name = "quote" -> term.operand
                                [] OTHER ->
                                     IF \E i \in DOMAIN values : values[i].t = "divergence"
                                     THEN divergence
                                     ELSE builtinValue(procOf(operator).name, values)
                   [] OTHER -> makeApplication(<<>>, operator, term.operand)

\* Enough for whatever the recursion limit lets pass.
fuelEnough == 4 * (MaxRecursion + 4)

\* The same value: the same tree, or the same number when an interrupted
\* simplifyRatio has left a ratio unreduced.
number_P(node) == node.t \in {"int", "ratio"}
numeratorOf(n) == IF n.t = "ratio" THEN n.a.value ELSE n.value
denominatorOf(n) == IF n.t = "ratio" THEN n.b.value ELSE 1
sameValue(a, b) ==
    \/ number_P(a) /\ number_P(b)
         /\ numeratorOf(a) * denominatorOf(b) = numeratorOf(b) * denominatorOf(a)
    \/ shapeOf(a) = shapeOf(b)
-----------------------------------------------------------------------------
\* Whatever was interrupted, thrown or recomputed before: a result that an
\* application holds is its value, and so is the answer of a command, or it is
\* one of the exceptions; "could not reduce" answers exactly the programs
\* without a value.  (Results of generation 0 are exempt: in it a new
\* application already seems to have the result NULL.)
AnsweredRightly ==
    LET value == valueOf(program, fuelEnough)
    IN  \/ answer = error("interrupted") \/ answer = error("too_deep")
        \/ answer = error("rejected") /\ value.t = "rejection"
        \/ answer.t # "error" /\ sameValue(answer, value)

ResultsAreValues ==
    /\ \A id \in DOMAIN heap :
         heap[id].generation # 0 =>
             /\ heap[id].app.id = id
             /\ sameValue(heap[id].result, valueOf(heap[id].app, fuelEnough))
    /\ (fGeneration # 0 /\ ctl = "idle" /\ answer.t # "none") => AnsweredRightly
=============================================================================
