------------------------------ MODULE Binding ------------------------------
(***************************************************************************)
(* A program as it is written, prepared by annotate and then reduced by    *)
(* beta steps in head position (reduce1 never goes under an abstraction    *)
(* and never reduces an argument first).  Next to the program that the     *)
(* evaluator holds, named keeps the same program with its variable names,  *)
(* reduced by the textbook substitution.                                   *)
(***************************************************************************)
EXTENDS Terms, Integers, FiniteSets

CONSTANTS
    Sources,    \* the programs as written
    Hashes,     \* hash functions on the names of the programs
    MaxSteps,   \* bound: beta steps of one program
    reduce1_(_) \* what (inline x) reduces its operand to

VARIABLES
    hash,       \* of the names, chosen once
    phase,      \* "written", "annotated" or "threw"
    node,       \* the program the evaluator holds
    named,      \* the program with names
    steps       \* beta steps done

vars == <<hash, phase, node, named, steps>>

\* The exception "(x) is not bound", as a leaf of the tree that was to be
\* returned; annotate throws when there is one.
unboundLeaf == [t |-> "throw"]

\* A mutant of placeOf.
placeOfOutermost(name, bound) ==
    LET places == {i \in DOMAIN bound : bound[i] = name}
    IN  IF places = {} THEN 0 ELSE CHOOSE i \in places : \A j \in places : i >= j

\* The search for a name in bound: its first place, 0 when there is none.
placeOf(name, bound) ==
    LET places == {i \in DOMAIN bound : bound[i] = name}
    IN  IF places = {} THEN 0 ELSE CHOOSE i \in places : \A j \in places : i <= j

\* annotate_impl; bound[1] is the innermost parameter.  The operand of
\* (inline x) is reduced first: reduce1_ stands for that.
RECURSIVE annotate_impl(_, _)
annotate_impl(root, bound) ==
    CASE abstraction_P(root) ->
             makeAbstraction(root.parameter,
                             annotate_impl(root.body, <<root.parameter>> \o bound))
      [] application_P(root) /\ root.operator \in {Reducer, Symbol("inline")} ->
             annotate_impl(reduce1_(root.operand), bound)
      [] application_P(root) /\ root.operator \notin {Reducer, Symbol("inline")} ->
             LET operator == annotate_impl(root.operator, bound)
             IN  makeApplication(root.id, operator,
                     IF quote_P(operator) THEN root.operand
                     ELSE annotate_impl(root.operand, bound))
      [] symbol1_P(root) ->
             LET place == placeOf(root, bound)
             IN  IF place = 0 THEN unboundLeaf ELSE SymbolReference(root, place)
      [] OTHER -> root

annotate(root) == annotate_impl(root, <<>>)

RECURSIVE throws_P(_)
throws_P(root) ==
    CASE root = unboundLeaf -> TRUE
      [] abstraction_P(root) -> throws_P(root.body)
      [] application_P(root) -> throws_P(root.operator) \/ throws_P(root.operand)
      [] OTHER -> FALSE

\* The names bound around a place in the program, a Hashtable.
boundNames ==
    INSTANCE Hashtable WITH
        HashKeys <- UNION {DOMAIN h : h \in Hashes}, HashValues <- Nat,
        Elements <- {nil}, zero <- nil, absent <- nil, entries <- <<>>, count <- 0, answered <- nil, removals <- 0, MaxCount <- 0, MaxRemovals <- 0

containsKeyP(bound, name) == boundNames!findEntry(bound, name) # boundNames!NoEntry

\* getFreeVariablesImpl, which goes through quoted text too.  A parameter is
\* taken out of the table behind its body, where its entry may still be found.
RECURSIVE getFreeVariablesImpl(_, _)
getFreeVariablesImpl(root, state) ==
    LET under(name) ==
            LET inner == getFreeVariablesImpl(root.body,
                             [state EXCEPT !.bound = boundNames!actualPut(@, name, nil)])
            IN  [inner EXCEPT !.bound = boundNames!removed(@, name)]
        free(name) == IF containsKeyP(state.bound, name) THEN state
                      ELSE [state EXCEPT !.free = @ \cup {name}]
    IN  CASE abstraction_P(root) /\ ~containsKeyP(state.bound, root.parameter) -> under(root.parameter)
          [] abstraction_P(root) /\ containsKeyP(state.bound, root.parameter) ->
                 getFreeVariablesImpl(root.body, state)
          [] application_P(root) ->
                 getFreeVariablesImpl(root.operand, getFreeVariablesImpl(root.operator, state))
          [] symbol_reference_P(root) -> free(root.symbol)
          [] symbol1_P(root) -> free(root)
          [] OTHER -> state

getFreeVariables(root) ==
    getFreeVariablesImpl(root, [bound |-> [entries |-> <<>>, count |-> 0], free |-> {}]).free

Init ==
    /\ hash \in Hashes
    /\ phase = "written"
    /\ node \in Sources
    /\ named = node
    /\ steps = 0

\* prepareModule annotates the program, or throws.
Annotate ==
    /\ phase = "written"
    /\ LET result == annotate(node)
       IN  IF throws_P(result)
           THEN phase' = "threw" /\ UNCHANGED node
           ELSE phase' = "annotated" /\ node' = result
    /\ UNCHANGED <<hash, named, steps>>

\* The beta step of reduce1 on the application in head position.
RECURSIVE contractHead(_, _)
contractHead(term, contraction) ==
    IF abstraction_P(term.operator)
    THEN shift(term.operand, 1, term.operator.body, contraction)
    ELSE makeApplication(Append(term.id, contraction),
                         contractHead(term.operator, contraction), term.operand)

RECURSIVE head_redex_P(_)
head_redex_P(term) ==
    application_P(term) /\ (abstraction_P(term.operator) \/ head_redex_P(term.operator))

\* The same step on names.  The argument is closed, so no variable of it can
\* be captured; quoted text is not touched.
RECURSIVE substitute(_, _, _)
substitute(argument, name, term) ==
    CASE term = name -> argument
      [] application_P(term) /\ ~quote_P(term.operator) ->
             makeApplication(term.id, substitute(argument, name, term.operator),
                             substitute(argument, name, term.operand))
      [] application_P(term) /\ quote_P(term.operator) ->
             makeApplication(term.id, substitute(argument, name, term.operator), term.operand)
      [] abstraction_P(term) /\ term.parameter # name ->
             makeAbstraction(term.parameter, substitute(argument, name, term.body))
      [] OTHER -> term

RECURSIVE contractNamed(_)
contractNamed(term) ==
    IF abstraction_P(term.operator)
    THEN substitute(term.operand, term.operator.parameter, term.operator.body)
    ELSE makeApplication(term.id, contractNamed(term.operator), term.operand)

Contract ==
    /\ phase = "annotated" /\ steps < MaxSteps
    /\ head_redex_P(node) /\ head_redex_P(named)
    /\ node' = contractHead(node, steps)
    /\ named' = contractNamed(named)
    /\ steps' = steps + 1
    /\ UNCHANGED <<hash, phase>>

Next == Annotate \/ Contract

Spec == Init /\ [][Next]_vars
-----------------------------------------------------------------------------
\* Every reference of term points to one of the abstractions around it, and no
\* name is left outside of quoted text.
RECURSIVE closed_P(_, _)
closed_P(term, depth) ==
    CASE symbol_reference_P(term) -> term.index \in 1 .. depth
      [] symbol1_P(term) -> FALSE
      [] abstraction_P(term) -> closed_P(term.body, depth + 1)
      [] application_P(term) /\ quote_P(term.operator) -> closed_P(term.operator, depth)
      [] application_P(term) /\ ~quote_P(term.operator) ->
             closed_P(term.operator, depth) /\ closed_P(term.operand, depth)
      [] OTHER -> TRUE

\* The reduction by indices is the reduction by names: shift picks the right
\* occurrences under shadowing and leaves the other variables alone.  (inline
\* is expanded once by annotate, so the named program has no inline to compare
\* with after a step.)
SameAsNamed ==
    phase = "annotated" => shapeOf(node) = shapeOf(annotate(named))

RECURSIVE quotes_P(_)
quotes_P(term) ==
    \/ application_P(term) /\
         (quote_P(term.operator) \/ quotes_P(term.operator) \/ quotes_P(term.operand))
    \/ abstraction_P(term) /\ quotes_P(term.body)

\* No two names of the program meet in an array that getFreeVariables may use.
Separated ==
    \A m, n \in DOMAIN hash, wanted \in 1 .. Cardinality(DOMAIN hash) + 1 :
        m # n => hash[m] % boundNames!sizeFor(wanted) # hash[n] % boundNames!sizeFor(wanted)

\* annotate throws only for a program in which getFreeVariables finds free
\* variables, unless names collide so that it takes a removed one for bound.
\* Whatever collides, it finds none in a program that annotate lets pass, but
\* for quoted ones, so prepareModule closes nothing over it that the program
\* has bound itself.  What annotate accepts stays closed whatever is
\* substituted, so that shift may put an argument under binders without
\* adjusting it, and get_symbol_reference_index never meets a variable without
\* a binder.
StaysClosed ==
    /\ (phase = "threw" /\ Separated) => getFreeVariables(named) # {}
    /\ (phase = "annotated" /\ steps = 0 /\ ~quotes_P(named)) => getFreeVariables(named) = {}
    /\ phase = "annotated" => closed_P(node, 0)
=============================================================================
