------------------------------- MODULE Calls -------------------------------
(***************************************************************************)
(* call_builtin (Operation.cc) and CXXfromArguments (Builtins.cc): when a  *)
(* builtin that is applied to one argument at a time has all of them, and  *)
(* how the collected arguments are handed to it.                           *)
(***************************************************************************)
EXTENDS Nodes, Integers, SequencesExt

\* A mutant of CountArgument: a keyword does not cancel its value.
CountEachArgument(argument, state) ==
    IF keyword_P(argument) THEN [state EXCEPT !.had = TRUE] ELSE [state EXCEPT !.count = @ + 1]

\* The loop of call_builtin over the arguments collected before this one,
\* from the last given to the first.
CountArgument(argument, state) ==
    IF ~state.inKV /\ keyword_P(argument)
    THEN [count |-> state.count - 1, inKV |-> TRUE, had |-> TRUE]
    ELSE [state EXCEPT !.count = @ + 1, !.inKV = FALSE]

CountArguments(fn, argument) ==
    FoldRight(CountArgument, argumentsOf(fn),
              [count |-> IF keyword_P(argument) THEN -1 ELSE 1,
               inKV |-> FALSE, had |-> FALSE])

\* What call_builtin does with fn applied to argument: "reject" throws,
\* "curry" makes a CurriedOperation, "call" runs the native code.
Dispatch(fn, argument) ==
    LET counted == CountArguments(fn, argument)
        count == IF counted.count < 0 THEN 0 ELSE counted.count
        wanted == procOf(fn).fArgumentCount
    IN  CASE counted.had /\ wanted >= 0 -> "reject"
          [] ~(counted.had /\ wanted >= 0) /\ count \notin {wanted, -wanted} -> "curry"
          [] OTHER -> "call"

makeCurriedOperation(fn, argument) ==
    CurriedOperation(procOf(fn), Append(argumentsOf(fn), argument))

\* A mutant of PairUp: positional arguments behind, too.
PairUpBehind(v, state) ==
    CASE state.pending /\ keyword_P(v) ->
             [list |-> Append(state.list, <<v, state.p>>), p |-> nil, pending |-> FALSE]
      [] state.pending /\ ~keyword_P(v) ->
             [list |-> Append(state.list, <<nil, state.p>>), p |-> v, pending |-> TRUE]
      [] OTHER -> [state EXCEPT !.p = v, !.pending = TRUE]

\* CXXfromArguments: a list of (keyword or NULL, value).  The walk goes from
\* the last argument to the first; a value whose predecessor is a keyword is
\* paired with it at the back, any other goes to the front.  The arguments
\* are tested after they were reduced.
PairUp(v, state) ==
    CASE state.pending /\ keyword_P(v) ->
             [list |-> Append(state.list, <<v, state.p>>), p |-> nil, pending |-> FALSE]
      [] state.pending /\ ~keyword_P(v) ->
             [list |-> <<<<nil, state.p>>>> \o state.list, p |-> v, pending |-> TRUE]
      [] OTHER -> [state EXCEPT !.p = v, !.pending = TRUE]

CXXfromArguments(arguments) ==
    LET walked == FoldRight(PairUp, Front(arguments),
                            [list |-> <<>>, p |-> Last(arguments), pending |-> TRUE])
    IN  IF walked.pending THEN <<<<nil, walked.p>>>> \o walked.list ELSE walked.list

\* CXXgetKeywordArgumentValue: the value of the first pair with that key.
CXXgetKeywordArgumentValue(list, key) ==
    LET hits == {i \in DOMAIN list : list[i][1] = key}
    IN  IF hits = {} THEN nil ELSE list[CHOOSE i \in hits : \A j \in hits : i <= j][2]
=============================================================================
