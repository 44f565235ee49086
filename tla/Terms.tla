------------------------------- MODULE Terms -------------------------------
(***************************************************************************)
(* The tree walk of Evaluators.cc that a beta step substitutes with: shift.*)
(*                                                                         *)
(* The walk is recursive over the tree, so this module is for TLC only.    *)
(***************************************************************************)
EXTENDS Nodes

\* The builtins that annotate treats specially.
Quoter == CProcedure("quote", 1)
Reducer == CProcedure("inline", 1)

quote_P(node) ==
    \/ node \in {Symbol("quote"), Quoter}
    \/ symbol_reference_P(node) /\ node.symbol = Symbol("quote")

\* A mutant of shiftReference: indices counted from 0.
referenceFromZero(argument, index, term) ==
    CASE term.index = index - 1 -> argument
      [] term.index > index - 1 -> SymbolReference(term.symbol, term.index - 1)
      [] OTHER -> term

\* shift of a bound variable: the argument when it is the variable of the
\* abstraction that goes away, one less when it belongs to one further out.
shiftReference(argument, index, term) ==
    CASE term.index = index -> argument
      [] term.index > index -> SymbolReference(term.symbol, term.index - 1)
      [] OTHER -> term

\* The index that the same variable has under one more abstraction.
indexUnderAbstraction(index) == index + 1

\* shift: argument in place of the references to index.  Only the part of the
\* tree that changes is copied, so what is not copied stays shared; a copied
\* application is a new object, here the old identity and the number of the
\* contraction that made it.
RECURSIVE shift(_, _, _, _)
shift(argument, index, term, contraction) ==
    CASE symbol_reference_P(term) -> shiftReference(argument, index, term)
      [] application_P(term) ->
             LET operator == shift(argument, index, term.operator, contraction)
                 operand == shift(argument, index, term.operand, contraction)
             IN  IF operator = term.operator /\ operand = term.operand THEN term
                 ELSE makeApplication(Append(term.id, contraction), operator, operand)
      [] abstraction_P(term) ->
             makeAbstraction(term.parameter,
                 shift(argument, indexUnderAbstraction(index), term.body, contraction))
      [] OTHER -> term

\* The tree without the identities of its applications.
RECURSIVE shapeOf(_)
shapeOf(node) ==
    CASE application_P(node) ->
             makeApplication(<<>>, shapeOf(node.operator), shapeOf(node.operand))
      [] abstraction_P(node) -> makeAbstraction(node.parameter, shapeOf(node.body))
      [] node.t = "curried" ->
             CurriedOperation(node.proc,
                              [i \in DOMAIN node.arguments |-> shapeOf(node.arguments[i])])
      [] OTHER -> node
=============================================================================
