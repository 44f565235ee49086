------------------------------- MODULE Nodes -------------------------------
(***************************************************************************)
(* The nodes of the 5D language (lib/Builtins/Values/Values, Evaluators,   *)
(* Operations): constructors and recognisers only.                         *)
(*                                                                         *)
(* A C++ node is a heap object; only an Application has state of its own   *)
(* (the cached result), so only an "app" node has an identity: id, a       *)
(* sequence of numbers.  All other nodes are values.                       *)
(***************************************************************************)
EXTENDS Naturals, Sequences

\* The NULL pointer, which is also the empty list.
nil == [t |-> "nil"]

\* Numbers::Int and Numbers::Ratio.
makeInt(value) == [t |-> "int", value |-> value]
makeRatio(a, b) == [t |-> "ratio", a |-> a, b |-> b]

\* A symbol, a keyword (@name:) and a bound variable: the symbol it was
\* written as and its de Bruijn index, from 1.
Symbol(name) == [t |-> "symbol", name |-> name]
Keyword(name) == [t |-> "keyword", name |-> name]
SymbolReference(symbol, index) == [t |-> "ref", symbol |-> symbol, index |-> index]

makeApplication(id, operator, operand) ==
    [t |-> "app", id |-> id, operator |-> operator, operand |-> operand]

makeAbstraction(parameter, body) ==
    [t |-> "fn", parameter |-> parameter, body |-> body]

\* A builtin: its fArgumentCount, negative when it takes keyword arguments.
CProcedure(name, argumentCount) ==
    [t |-> "proc", name |-> name, fArgumentCount |-> argumentCount]

\* The chain of CurriedOperation objects that ends in the CProcedure proc;
\* arguments[1] is the innermost (first given) argument.
CurriedOperation(proc, arguments) ==
    [t |-> "curried", proc |-> proc, arguments |-> arguments]

application_P(node) == node.t = "app"
abstraction_P(node) == node.t = "fn"
symbol_reference_P(node) == node.t = "ref"
symbol1_P(node) == node.t = "symbol"
keyword_P(node) == node.t = "keyword"
builtin_call_P(node) == node.t \in {"proc", "curried"}

\* The builtin at the bottom of a (curried) operation, and the arguments on
\* the way to it.
procOf(fn) == IF fn.t = "curried" THEN fn.proc ELSE fn
argumentsOf(fn) == IF fn.t = "curried" THEN fn.arguments ELSE <<>>
=============================================================================
