----------------------------- MODULE Evaluator -----------------------------
(***************************************************************************)
(* reduce1 (Evaluators.cc) as a machine with an explicit stack, one frame  *)
(* per C++ call that is in progress, with everything it shares with the    *)
(* outside: the result cache inside of the Application objects and its     *)
(* generation, the recursion counter, and the flag that the SIGINT handler *)
(* sets.  A command is one call of reduce from the read-eval-print loop on *)
(* a program that outlives the command (a definition of a module).         *)
(*                                                                         *)
(* Builtins: quote (unreduced argument), inline (reduced argument), + (two *)
(* reduced arguments in the order the compiler chose) and / (the same,     *)
(* then simplifyRatio).  + and / are modelled on integers.                 *)
(***************************************************************************)
EXTENDS Calls

CONSTANTS
    Programs,           \* annotated programs; their applications have identities <<n>>
    substitute(_, _, _, _),  \* shift of module Terms: argument, index, term, contraction
    MaxRecursion,       \* reduce1 throws above this level (10000)
    Generations,        \* fGeneration is unsigned: it counts modulo this
    MaxCommands,        \* bound: commands
    MaxCloses,          \* bound: environments closed
    MaxSignals          \* bound: SIGINTs delivered

ASSUME MaxRecursionAssumption == MaxRecursion \in Nat
ASSUME GenerationsAssumption == Generations \in Nat \ {0, 1}

VARIABLES
    ctl,                \* "idle", "poll", "polled", "return", "prepare", "test"
    focus,              \* the node being reduced, or returned
    frames,             \* the calls in progress, the innermost last
    heap,               \* result and resultGeneration of the applications that have one
    fGeneration,
    recursionLevel,
    B_SIGINT_happened,
    latched,            \* the o of interrupted_P: the flag as it was read
    program,            \* what the last command evaluates
    answer,             \* what it gave: a node, an error, or nothing yet
    contractions,       \* applications copied by shift so far, for new identities
    commands, closes, signals,  \* how often each happened
    throws              \* history: how many evaluations ended in an exception, by kind

evaluation == <<ctl, focus, frames, heap, recursionLevel, latched, answer, contractions, throws>>
session == <<program, fGeneration, commands, closes>>
vars == <<evaluation, session, B_SIGINT_happened, signals>>

\* booleanFromNode reduces ((root 1) 0): two calls of reduce1 inside another.
BooleanDepth == 2

noAnswer == [t |-> "none"]
error(what) == [t |-> "error", what |-> what]
thrown == {"interrupted", "too_deep", "rejected", "swallowed"}

Init ==
    /\ ctl = "idle" /\ focus = nil /\ frames = <<>>
    /\ heap = [id \in {} |-> nil]
    /\ fGeneration = 1 /\ recursionLevel = 0
    /\ B_SIGINT_happened = FALSE /\ latched = FALSE
    /\ program = nil /\ answer = noAnswer
    /\ contractions = 0
    /\ commands = 0 /\ closes = 0 /\ signals = 0
    /\ throws = [kind \in thrown |-> 0]
-----------------------------------------------------------------------------
\* makeApplication leaves resultGeneration 0 and the result NULL.
generationOf(app) == IF app.id \in DOMAIN heap THEN heap[app.id].generation ELSE 0
resultOf(app) == IF app.id \in DOMAIN heap THEN heap[app.id].result ELSE nil

\* A mutant of application_result_P.
neverCached_P(app) == FALSE

application_result_P(app) == generationOf(app) = fGeneration

\* reduce returns these without a call of reduce1.
reduced_P(node) == application_P(node) => application_result_P(node)
reducedOf(node) == IF application_P(node) THEN resultOf(node) ELSE node

top == Last(frames)
frame(at, term) ==
    [at |-> at, term |-> term, name |-> "", todo |-> {}, current |-> 0, values |-> <<>>]
ReplaceTop(f) == frames' = Append(Front(frames), f)

\* The calls that recursionLevel counts: operators and bodies, not the
\* arguments that a builtin reduces.
counted == {"operator", "body"}
CountedIn(stack) == Cardinality({i \in DOMAIN stack : stack[i].at \in counted})
Pending == CountedIn(frames)

\* An exception: nothing between here and the command restores recursionLevel.
Throw(what) ==
    /\ ctl' = "idle" /\ focus' = nil /\ frames' = <<>>
    /\ answer' = error(what)
    /\ throws' = [throws EXCEPT ![what] = @ + 1]
    /\ UNCHANGED <<heap, contractions>>

\* remember, and the return from reduce1 of the application in the top frame.
Finish(result) ==
    /\ heap' = (top.term.id :> [app |-> top.term, result |-> result,
                                generation |-> fGeneration]) @@ heap
    /\ frames' = Front(frames)
    /\ IF Front(frames) = <<>>
       THEN ctl' = "idle" /\ focus' = nil /\ answer' = result
       ELSE ctl' = "return" /\ focus' = result /\ UNCHANGED answer

Remember(result) == Finish(result) /\ UNCHANGED throws

\* The call reduce1(node).
CallReduce1(node) == ctl' = "poll" /\ focus' = node
-----------------------------------------------------------------------------
\* The read-eval-print loop evaluates a program.
Submit(root) ==
    /\ ctl = "idle" /\ commands < MaxCommands
    /\ program' = root
    /\ commands' = commands + 1
    /\ IF reduced_P(root)
       THEN answer' = reducedOf(root) /\ UNCHANGED <<ctl, focus>>
       ELSE answer' = noAnswer /\ CallReduce1(root)
    /\ UNCHANGED <<frames, heap, recursionLevel, latched, contractions, throws,
                   fGeneration, closes, B_SIGINT_happened, signals>>

\* REPL_close_environment: a new generation; when the counter has come around
\* the results inside of the definitions are dropped.
CloseEnvironment ==
    /\ ctl = "idle" /\ closes < MaxCloses
    /\ closes' = closes + 1
    /\ fGeneration' = (fGeneration + 1) % Generations
    /\ answer' = noAnswer   \* it was printed
    /\ heap' = [id \in DOMAIN heap |->
                   IF fGeneration' = 1 /\ Len(id) = 1
                   THEN [heap[id] EXCEPT !.generation = 0] ELSE heap[id]]
    /\ UNCHANGED <<ctl, focus, frames, recursionLevel, latched, contractions, throws,
                   program, commands, B_SIGINT_happened, signals>>

\* handle_SIGINT, at any moment.
Signal ==
    /\ signals < MaxSignals
    /\ signals' = signals + 1
    /\ B_SIGINT_happened' = TRUE
    /\ UNCHANGED <<evaluation, session>>
-----------------------------------------------------------------------------
\* reduce1 begins: interrupted_P reads the flag and then clears it.
ReadFlag ==
    /\ ctl = "poll"
    /\ ctl' = "polled" /\ latched' = B_SIGINT_happened
    /\ UNCHANGED <<focus, frames, heap, recursionLevel, answer, contractions, throws,
                   session, B_SIGINT_happened, signals>>

PollInterrupted ==
    /\ latched
    /\ Throw("interrupted")
    /\ UNCHANGED recursionLevel

PollTooDeep ==
    /\ ~latched /\ recursionLevel > MaxRecursion
    /\ recursionLevel' = 0
    /\ Throw("too_deep")

PollReturn ==
    /\ ~latched /\ recursionLevel <= MaxRecursion
    /\ reduced_P(focus)
    /\ ctl' = "return" /\ focus' = reducedOf(focus)
    /\ UNCHANGED <<frames, heap, recursionLevel, answer, contractions, throws>>

\* A mutant of PollDescend: the call is not counted.
PollDescendUncounted ==
    /\ ~latched /\ recursionLevel <= MaxRecursion
    /\ ~reduced_P(focus)
    /\ frames' = Append(frames, frame("operator", focus))
    /\ CallReduce1(focus.operator)
    /\ UNCHANGED <<heap, recursionLevel, answer, contractions, throws>>

PollDescend ==
    /\ ~latched /\ recursionLevel <= MaxRecursion
    /\ ~reduced_P(focus)
    /\ recursionLevel' = recursionLevel + 1
    /\ frames' = Append(frames, frame("operator", focus))
    /\ CallReduce1(focus.operator)
    /\ UNCHANGED <<heap, answer, contractions, throws>>

\* A mutant of Poll: interrupted_P leaves the flag set.
PollWithoutClearing ==
    /\ ctl = "polled"
    /\ latched' = FALSE
    /\ PollInterrupted \/ PollTooDeep \/ PollReturn \/ PollDescend
    /\ UNCHANGED <<session, B_SIGINT_happened, signals>>

\* The rest of the entry of reduce1, after the flag was read.
Poll ==
    /\ ctl = "polled"
    /\ B_SIGINT_happened' = FALSE /\ latched' = FALSE
    /\ PollInterrupted \/ PollTooDeep \/ PollReturn \/ PollDescend
    /\ UNCHANGED <<session, signals>>
-----------------------------------------------------------------------------
\* The operator is an abstraction: its call is over, the body's begins.
Beta ==
    /\ abstraction_P(focus)
    /\ ReplaceTop([top EXCEPT !.at = "body"])
    /\ CallReduce1(substitute(top.term.operand, 1, focus.body, contractions))
    /\ contractions' = contractions + 1
    /\ UNCHANGED <<heap, recursionLevel, answer, throws>>

CallBuiltin ==
    /\ builtin_call_P(focus)
    /\ recursionLevel' = recursionLevel - 1
    /\ LET operand == top.term.operand
           verdict == Dispatch(focus, operand)
           arguments == Append(argumentsOf(focus), operand)
       IN  \/ verdict = "reject" /\ Throw("rejected")
           \/ verdict = "curry" /\ Remember(makeCurriedOperation(focus, operand))
                             /\ UNCHANGED contractions
           \/ verdict = "call" /\ procOf(focus).name = "quote"
                            /\ Remember(operand) /\ UNCHANGED contractions
           \/ /\ verdict = "call" /\ procOf(focus).name # "quote"
              /\ ReplaceTop([top EXCEPT !.at = "builtin", !.name = procOf(focus).name,
                                        !.todo = DOMAIN arguments, !.values = arguments])
              /\ ctl' = "prepare" /\ focus' = nil
              /\ UNCHANGED <<heap, answer, contractions, throws>>

\* Neither: the application stays, with its operator reduced.
Stuck ==
    /\ ~abstraction_P(focus) /\ ~builtin_call_P(focus)
    /\ recursionLevel' = recursionLevel - 1
    /\ IF focus = top.term.operator
       THEN Remember(top.term) /\ UNCHANGED contractions
       ELSE /\ Remember(makeApplication(Append(top.term.id, contractions), focus, top.term.operand))
            /\ contractions' = contractions + 1

ReturnToOperator ==
    /\ ctl = "return" /\ top.at = "operator"
    /\ Beta \/ CallBuiltin \/ Stuck
    /\ UNCHANGED <<latched, session, B_SIGINT_happened, signals>>

\* A mutant of ReturnToBody: the decrement is missing.
ReturnToBodyCounted ==
    /\ ctl = "return" /\ top.at = "body"
    /\ Remember(focus)
    /\ UNCHANGED <<recursionLevel, latched, contractions, session, B_SIGINT_happened, signals>>

ReturnToBody ==
    /\ ctl = "return" /\ top.at = "body"
    /\ recursionLevel' = recursionLevel - 1
    /\ Remember(focus)
    /\ UNCHANGED <<latched, contractions, session, B_SIGINT_happened, signals>>
-----------------------------------------------------------------------------
\* A mutant of Prepare: a reduced argument stays to be prepared.
PrepareAgain(i) ==
    /\ ctl = "prepare" /\ i \in top.todo
    /\ IF reduced_P(top.values[i])
       THEN ReplaceTop([top EXCEPT !.values[i] = reducedOf(@)]) /\ UNCHANGED <<ctl, focus>>
       ELSE ReplaceTop([top EXCEPT !.current = i]) /\ CallReduce1(top.values[i])
    /\ UNCHANGED <<heap, recursionLevel, latched, answer, contractions, throws,
                   session, B_SIGINT_happened, signals>>

\* PREPARE of one argument of a builtin, in any order.
Prepare(i) ==
    /\ ctl = "prepare" /\ i \in top.todo
    /\ IF reduced_P(top.values[i])
       THEN /\ ReplaceTop([top EXCEPT !.todo = @ \ {i}, !.values[i] = reducedOf(@)])
            /\ UNCHANGED <<ctl, focus>>
       ELSE /\ ReplaceTop([top EXCEPT !.current = i])
            /\ CallReduce1(top.values[i])
    /\ UNCHANGED <<heap, recursionLevel, latched, answer, contractions, throws,
                   session, B_SIGINT_happened, signals>>

\* A mutant of ReturnToPrepare: the result replaces the first argument.
ReturnToFirstArgument ==
    /\ ctl = "return" /\ top.at \notin counted
    /\ ReplaceTop([top EXCEPT !.todo = @ \ {top.current}, !.values[1] = focus])
    /\ ctl' = "prepare" /\ focus' = nil
    /\ UNCHANGED <<heap, recursionLevel, latched, answer, contractions, throws,
                   session, B_SIGINT_happened, signals>>

ReturnToPrepare ==
    /\ ctl = "return" /\ top.at \notin counted
    /\ ReplaceTop([top EXCEPT !.todo = @ \ {top.current}, !.values[top.current] = focus])
    /\ ctl' = "prepare" /\ focus' = nil
    /\ UNCHANGED <<heap, recursionLevel, latched, answer, contractions, throws,
                   session, B_SIGINT_happened, signals>>

\* addA: the sum of numbers; anything else stays an operation on symbol +.
addA(a, b) ==
    IF a.t = "int" /\ b.t = "int" THEN makeInt(a.value + b.value)
    ELSE makeApplication(Append(top.term.id, contractions),
             makeApplication(Append(top.term.id, contractions + 1), Symbol("+"), a), b)

\* A mutant of RunBuiltin: simplifyRatio goes right to gcd.
RunBuiltinUntested ==
    /\ ctl = "prepare" /\ top.todo = {}
    /\ \/ top.name = "inline" /\ Remember(top.values[1]) /\ UNCHANGED contractions
       \/ top.name = "+" /\ Remember(addA(top.values[1], top.values[2]))
                         /\ contractions' = contractions + 2
       \/ /\ top.name = "/"
          /\ ReplaceTop([top EXCEPT !.at = "try"])
          /\ ctl' = "test" /\ UNCHANGED <<focus, heap, answer, contractions, throws>>
    /\ UNCHANGED <<recursionLevel, latched, session, B_SIGINT_happened, signals>>

\* All arguments are there: the native code of inline and + returns, / goes on
\* with simplifyRatio.
RunBuiltin ==
    /\ ctl = "prepare" /\ top.todo = {}
    /\ \/ top.name = "inline" /\ Remember(top.values[1]) /\ UNCHANGED contractions
       \/ top.name = "+" /\ Remember(addA(top.values[1], top.values[2]))
                         /\ contractions' = contractions + 2
       \/ /\ top.name = "/"
          /\ ReplaceTop([top EXCEPT !.at = "pretest"])
          /\ ctl' = "test" /\ UNCHANGED <<focus, heap, answer, contractions, throws>>
    /\ UNCHANGED <<recursionLevel, latched, session, B_SIGINT_happened, signals>>
-----------------------------------------------------------------------------
\* simplifyRatio compares numbers three times, each time by booleanFromNode:
\* the denominator with 1 ("pretest"), then in gcd inside of a try block
\* ("try"), then the quotients ("posttest").
numerator == top.values[1].value
denominator == top.values[2].value
divisors(n) == {d \in 1 .. n : n % d = 0}
gcd(a, b) == CHOOSE d \in divisors(a) \cap divisors(b) :
                 \A e \in divisors(a) \cap divisors(b) : e <= d
ratioOf(a, b) == IF b = 1 THEN makeInt(a) ELSE makeRatio(makeInt(a), makeInt(b))

TestGood ==
    /\ ~B_SIGINT_happened
    /\ recursionLevel + BooleanDepth <= MaxRecursion
    /\ \/ top.at = "pretest" /\ denominator = 1 /\ Remember(makeInt(numerator))
       \/ /\ \/ top.at = "pretest" /\ denominator # 1
                /\ ReplaceTop([top EXCEPT !.at = "try"])
             \/ top.at = "try"
                /\ LET g == gcd(numerator, denominator)
                   IN  ReplaceTop([top EXCEPT !.at = "posttest",
                           !.values = <<makeInt(numerator \div g), makeInt(denominator \div g)>>])
          /\ UNCHANGED <<ctl, focus, heap, answer, throws>>
       \/ top.at = "posttest" /\ Remember(ratioOf(numerator, denominator))
    /\ UNCHANGED <<recursionLevel, contractions, B_SIGINT_happened>>

\* catch in simplifyRatio: the exception is dropped and the ratio stays as it is.
Swallow ==
    /\ Finish(makeRatio(makeInt(numerator), makeInt(denominator)))
    /\ throws' = [throws EXCEPT !["swallowed"] = @ + 1]
    /\ UNCHANGED contractions

\* A poll inside of booleanFromNode, depth calls in, sees the flag.
TestInterrupted(depth) ==
    /\ B_SIGINT_happened
    /\ depth = 0 \/ recursionLevel + depth - 1 <= MaxRecursion
    /\ B_SIGINT_happened' = FALSE
    /\ recursionLevel' = recursionLevel + depth
    /\ IF top.at = "try" THEN Swallow ELSE Throw("interrupted")

TestTooDeep ==
    /\ ~B_SIGINT_happened
    /\ recursionLevel + BooleanDepth > MaxRecursion
    /\ recursionLevel' = 0
    /\ IF top.at = "try" THEN Swallow ELSE Throw("too_deep")
    /\ UNCHANGED B_SIGINT_happened

Test ==
    /\ ctl = "test"
    /\ TestGood \/ TestTooDeep \/ \E depth \in 0 .. BooleanDepth : TestInterrupted(depth)
    /\ UNCHANGED <<latched, session, signals>>
-----------------------------------------------------------------------------
Evaluate ==
    \/ ReadFlag \/ Poll
    \/ ReturnToOperator \/ ReturnToBody \/ ReturnToPrepare
    \/ \E i \in 1 .. 2 : Prepare(i)
    \/ RunBuiltin \/ Test

Next ==
    \/ \E root \in Programs : Submit(root)
    \/ CloseEnvironment
    \/ Signal
    \/ Evaluate

\* The evaluator runs whenever it can; nothing else is owed a step.
Spec == Init /\ [][Next]_vars /\ WF_vars(Evaluate)
-----------------------------------------------------------------------------
\* The counter never falls below the number of counted calls in progress, so
\* that it bounds the nesting of operators and bodies, and never goes negative;
\* exceptions that skip the decrements only leave it too high.
LevelCoversCalls == Pending <= recursionLevel /\ recursionLevel <= MaxRecursion + 1

\* As long as only "too_deep" was thrown, which resets the counter, it is the
\* number of calls in progress.
LevelExactWithoutLeaks ==
    (\A kind \in thrown \ {"too_deep"} : throws[kind] = 0) => recursionLevel = Pending

\* "recursion was too deep" cannot strike in the try block of simplifyRatio,
\* where it would be dropped with the counter already reset under the calls
\* that still have to decrement it.
TryIsNotTooDeep ==
    (ctl = "test" /\ top.at = "try") => recursionLevel + BooleanDepth <= MaxRecursion

\* One SIGINT stops at most one evaluation, also when it arrived between two
\* commands or while the flag was being read.
OneAbortPerSignal ==
    throws["interrupted"] + throws["swallowed"]
        + (IF B_SIGINT_happened \/ latched THEN 1 ELSE 0) <= signals

\* Call by need: an application whose result of this generation is known is
\* never being reduced; a shared argument is reduced once, whichever of its
\* users comes first, and not again after an exception in another of them.
ReducedOnce == \A i \in DOMAIN frames : generationOf(frames[i].term) # fGeneration

\* Every command ends, endless recursion too.
CommandsEnd == (ctl # "idle") ~> (ctl = "idle")

\* What the recursion limit is for (the comment at recursionLevel): it throws
\* only in a recursion that is too deep.
TooDeepOnlyWhenDeep ==
    [][throws'["too_deep"] # throws["too_deep"] => Pending + BooleanDepth > MaxRecursion]_vars
=============================================================================
