------------------------------ MODULE Currying ------------------------------
(***************************************************************************)
(* One builtin of a fixed arity that the evaluator applies to one argument *)
(* after the other (Operation.cc, Builtins.cc).  Each step is one          *)
(* call_builtin: it rejects the argument, collects it in a                 *)
(* CurriedOperation, or runs the native code with the list that            *)
(* CXXfromArguments makes of all of them.                                  *)
(***************************************************************************)
EXTENDS Calls

CONSTANTS
    Arities,    \* the values of fArgumentCount in the REGISTER_BUILTIN lines
    Items,      \* the argument nodes a program may write
    MaxItems    \* bound: arguments given to one builtin

ASSUME ArityAssumption == Arities \subseteq Int \ {0}

VARIABLES
    fn,         \* the operation so far: the CProcedure or a CurriedOperation
    given,      \* all arguments the program wrote, in order
    status,     \* "curry", "call" or "reject": what the last step did
    delivered   \* the list the native code was given

vars == <<fn, given, status, delivered>>

Init ==
    /\ \E arity \in Arities : fn = CProcedure("p", arity)
    /\ given = <<>>
    /\ status = "curry"
    /\ delivered = <<>>

\* An argument quoted in the program is a keyword only after its reduction.
reduceArgument(argument) ==
    IF application_P(argument) THEN argument.operand ELSE argument

\* reduce1 applies fn to argument by call_builtin.
Apply(argument) ==
    /\ status = "curry" /\ Len(given) < MaxItems
    /\ given' = Append(given, argument)
    /\ status' = Dispatch(fn, argument)
    /\ fn' = IF status' = "curry" THEN makeCurriedOperation(fn, argument) ELSE fn
    /\ delivered' = IF status' = "call"
                    THEN LET arguments == Append(argumentsOf(fn), argument)
                         IN  CXXfromArguments([i \in DOMAIN arguments |-> reduceArgument(arguments[i])])
                    ELSE delivered

Next == \E argument \in Items : Apply(argument)

Spec == Init /\ [][Next]_vars
-----------------------------------------------------------------------------
\* How the program text reads: from left to right, a keyword takes the
\* argument that follows it as its value, the others are positional.
ReadArgument(state, argument) ==
    CASE state.key # nil ->
             [state EXCEPT !.key = nil, !.pairs = @ \cup {<<state.key, argument>>}]
      [] state.key = nil /\ keyword_P(argument) -> [state EXCEPT !.key = argument]
      [] OTHER -> [state EXCEPT !.positional = Append(@, argument)]

Reading(arguments) ==
    FoldLeft(ReadArgument, [positional |-> <<>>, pairs |-> {}, key |-> nil], arguments)

wanted == LET arity == procOf(fn).fArgumentCount IN IF arity < 0 THEN -arity ELSE arity
takesKeywords == procOf(fn).fArgumentCount < 0

\* No keyword is the value of a keyword (@a: @b: ...): the two readers
\* disagree about such a text, which no doc gives a meaning.
PlainText ==
    \A i \in 1 .. Len(given) - 1 : ~(keyword_P(given[i]) /\ keyword_P(given[i + 1]))

\* A builtin runs exactly when the positional arguments of the text are as
\* many as it was registered with and no keyword still waits for its value:
\* the count of call_builtin, which goes backwards and lets a keyword cancel
\* its value, agrees with the reading from left to right.  Only builtins that
\* take no keywords reject one, and they do not run with any collected one.  A
\* keyword at the end that would be the last argument itself, if it did not
\* wait for a value, is left open: the code waits, but
\* doc/lib/Reflection/index.html:35 has (keyword? @mode:) result in yes.
KeywordsOnlyWhereAllowed ==
    /\ (status = "call" /\ ~takesKeywords) =>
           \A i \in 1 .. Len(given) - 1 : ~keyword_P(given[i])
    /\ status = "reject" => ~takesKeywords
CalledWhenComplete ==
    /\ KeywordsOnlyWhereAllowed
    /\ (PlainText /\ status # "reject" /\ given # <<>>) =>
           LET text == Reading(given)
               complete == Len(text.positional) = wanted
           IN  IF text.key = nil THEN (status = "call") <=> complete
               ELSE Len(text.positional) + 1 # wanted => status # "call"

\* The native code gets the positional arguments in the order of the text,
\* before all keywords, and each keyword with the value written after it; of
\* two values for one keyword, CXXgetKeywordArgumentValue finds the later one.
LastKeywordWins ==
    \A i \in DOMAIN given :
        (keyword_P(given[i]) /\ \A j \in i + 1 .. Len(given) : given[j] # given[i]) =>
            CXXgetKeywordArgumentValue(delivered, given[i]) = reduceArgument(given[i + 1])
DeliveredAsWritten ==
    (PlainText /\ status = "call") =>
        LET text == Reading(given)
            n == Len(text.positional)
        IN  /\ Len(delivered) = n + Cardinality(
                   {i \in DOMAIN given : keyword_P(given[i])})
            /\ \A i \in 1 .. n : delivered[i] = <<nil, reduceArgument(text.positional[i])>>
            /\ {delivered[i] : i \in n + 1 .. Len(delivered)}
                 = {<<pair[1], reduceArgument(pair[2])>> : pair \in text.pairs}
            /\ LastKeywordWins
=============================================================================
