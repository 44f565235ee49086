-------------------------- MODULE EvaluatorProofs --------------------------
(***************************************************************************)
(* recursionLevel covers the calls in progress, for every set of programs, *)
(* every recursion limit and every interleaving of signals and exceptions; *)
(* an evaluation that was interrupted had its own signal; and the counter  *)
(* is wrong only after an exception that leaks.                            *)
(***************************************************************************)
EXTENDS Evaluator, FiniteSetTheorems, SequenceTheorems, TLAPS

\* A stack: a sequence of frames, of which only the field at matters here.
IsStack(stack) ==
    /\ \E S : stack \in Seq(S)
    /\ \A i \in DOMAIN stack : "at" \in DOMAIN stack[i]

One(f) == IF f.at \in counted THEN 1 ELSE 0

\* The counted calls of a stack are finitely many.
LEMMA CountType ==
    ASSUME NEW stack, IsStack(stack)
    PROVE  /\ IsFiniteSet({i \in DOMAIN stack : stack[i].at \in counted})
           /\ CountedIn(stack) \in Nat
  <1>1. PICK S : stack \in Seq(S)
    BY DEF IsStack
  <1>2. Len(stack) \in Nat /\ DOMAIN stack = 1 .. Len(stack)
    BY <1>1, LenProperties
  <1>3. IsFiniteSet(1 .. Len(stack))
    BY <1>2, FS_Interval
  <1>4. {i \in DOMAIN stack : stack[i].at \in counted} \in SUBSET (1 .. Len(stack))
    BY <1>2
  <1>5. IsFiniteSet({i \in DOMAIN stack : stack[i].at \in counted})
    BY <1>3, <1>4, FS_Subset
  <1> QED
    BY <1>5, FS_CardinalityType DEF CountedIn

\* The number of calls in progress is a number, before and after a step.
LEMMA PendingType ==
    /\ IsStack(frames) => Pending \in Nat
    /\ IsStack(frames)' => Pending' \in Nat
  BY CountType DEF Pending

\* No call is in progress on the empty stack: between two commands, and after
\* an exception has unwound to the read-eval-print loop.
LEMMA EmptyStack == IsStack(<<>>) /\ CountedIn(<<>>) = 0
  <1>1. <<>> \in Seq({}) /\ DOMAIN <<>> = {}
    OBVIOUS
  <1>2. IsStack(<<>>)
    BY <1>1 DEF IsStack
  <1>3. {i \in DOMAIN <<>> : <<>>[i].at \in counted} = {}
    BY <1>1
  <1> QED
    BY <1>2, <1>3, FS_EmptySet DEF CountedIn

\* A call that begins adds one if it is counted.
LEMMA PushCounts ==
    ASSUME NEW stack, IsStack(stack), NEW f, "at" \in DOMAIN f
    PROVE  /\ IsStack(Append(stack, f))
           /\ Append(stack, f) # <<>>
           /\ Last(Append(stack, f)) = f
           /\ Front(Append(stack, f)) = stack
           /\ CountedIn(Append(stack, f)) = CountedIn(stack) + One(f)
  <1> DEFINE longer == Append(stack, f)
             before == {i \in DOMAIN stack : stack[i].at \in counted}
             after == {i \in DOMAIN longer : longer[i].at \in counted}
  <1>1. PICK S : stack \in Seq(S)
    BY DEF IsStack
  <1> DEFINE T == S \cup {f}
  <1>2. stack \in Seq(T) /\ f \in T
    BY <1>1, SeqMonotonic
  <1> HIDE DEF T
  <1>3. /\ longer \in Seq(T) /\ longer # <<>>
        /\ Len(longer) = Len(stack) + 1
        /\ \A i \in 1 .. Len(stack) : longer[i] = stack[i]
        /\ longer[Len(stack) + 1] = f
    BY <1>2, AppendProperties
  <1>4. /\ Len(stack) \in Nat
        /\ DOMAIN stack = 1 .. Len(stack)
        /\ DOMAIN longer = 1 .. Len(stack) + 1
    BY <1>2, <1>3, LenProperties
  <1> HIDE DEF longer
  <1>5. IsStack(longer)
    BY <1>3, <1>4 DEF IsStack
  <1>6. Last(longer) = f
    BY <1>3 DEF Last
  <1>7. Front(longer) = stack
    <2>1. /\ SubSeq(longer, 1, Len(stack)) \in Seq(T)
          /\ Len(SubSeq(longer, 1, Len(stack))) = IF 1 <= Len(stack) THEN Len(stack) - 1 + 1 ELSE 0
          /\ \A i \in 1 .. Len(stack) - 1 + 1 : SubSeq(longer, 1, Len(stack))[i] = longer[1 + i - 1]
      <3>1. \A i \in 1 .. Len(stack) : longer[i] \in T
        BY <1>3, <1>4, ElementOfSeq
      <3> QED
        BY <3>1, <1>4, SubSeqProperties
    <2>2. /\ Len(SubSeq(longer, 1, Len(stack))) = Len(stack)
          /\ \A i \in 1 .. Len(stack) : SubSeq(longer, 1, Len(stack))[i] = stack[i]
      BY <2>1, <1>3, <1>4
    <2>3. SubSeq(longer, 1, Len(stack)) = stack
      BY <2>1, <2>2, <1>2, SeqEqual
    <2> QED
      BY <2>3, <1>3, <1>4 DEF Front
  <1>8. IsFiniteSet(before)
    BY CountType
  <1>9. after = IF f.at \in counted THEN before \cup {Len(stack) + 1} ELSE before
    BY <1>3, <1>4
  <1>10. Len(stack) + 1 \notin before
    BY <1>4
  <1>11. Cardinality(after) = Cardinality(before) + One(f)
    <2>1. CASE f.at \in counted
      BY <2>1, <1>8, <1>9, <1>10, FS_AddElement DEF One
    <2>2. CASE f.at \notin counted
      <3>1. Cardinality(before) \in Nat
        BY <1>8, FS_CardinalityType
      <3>2. after = before
        BY <2>2, <1>9
      <3>3. One(f) = 0
        BY <2>2 DEF One
      <3> HIDE DEF before, after
      <3> QED
        BY <3>1, <3>2, <3>3
    <2> QED
      BY <2>1, <2>2
  <1> QED
    BY <1>3, <1>5, <1>6, <1>7, <1>11 DEF CountedIn, longer

\* A call that ends takes one away if it was counted.
LEMMA PopCounts ==
    ASSUME NEW stack, IsStack(stack), stack # <<>>
    PROVE  /\ IsStack(Front(stack))
           /\ "at" \in DOMAIN Last(stack)
           /\ CountedIn(stack) = CountedIn(Front(stack)) + One(Last(stack))
  <1>1. PICK S : stack \in Seq(S)
    BY DEF IsStack
  <1>2. PICK s \in Seq(S), f \in S : stack = Append(s, f)
    BY <1>1, SequenceEmptyOrAppend
  <1>3. /\ Len(stack) = Len(s) + 1 /\ Len(s) \in Nat
        /\ \A i \in 1 .. Len(s) : stack[i] = s[i]
        /\ stack[Len(s) + 1] = f
        /\ DOMAIN s = 1 .. Len(s) /\ DOMAIN stack = 1 .. Len(s) + 1
    BY <1>1, <1>2, AppendProperties, LenProperties
  <1>4. IsStack(s)
    BY <1>2, <1>3 DEF IsStack
  <1>5. "at" \in DOMAIN f
    BY <1>3 DEF IsStack
  <1> QED
    BY <1>2, <1>4, <1>5, PushCounts
-----------------------------------------------------------------------------
\* The inductive invariant.  Next to the statement itself: the levels that a
\* poll inside of the try block of simplifyRatio can reach were already tried,
\* and the outermost call is never answered from the cache, because reduce
\* looked there before it made the call.
IInv ==
    /\ IsStack(frames)
    /\ recursionLevel \in Nat
    /\ LevelCoversCalls
    /\ TryIsNotTooDeep
    /\ ctl \in {"return", "prepare", "test"} => frames # <<>>
    /\ (ctl \in {"poll", "polled"} /\ frames = <<>>) => ~reduced_P(focus)

\* A process that has just started has no call in progress.
LEMMA InitIInv == Init => IInv
  <1> SUFFICES ASSUME Init PROVE IInv
    OBVIOUS
  <1>1. IsStack(frames) /\ Pending = 0
    BY EmptyStack DEF Init, Pending
  <1> QED
    BY <1>1, MaxRecursionAssumption DEF Init, IInv, LevelCoversCalls, TryIsNotTooDeep

\* What is left to show after a step that does not enter or stay in a test.
LEMMA Untested ==
    ASSUME IsStack(frames)', recursionLevel' \in Nat,
           Pending' <= recursionLevel', recursionLevel' <= MaxRecursion + 1,
           ctl' # "test", ctl' = "idle" \/ frames' # <<>>
    PROVE  IInv'
  BY DEF IInv, LevelCoversCalls, TryIsNotTooDeep

\* The effect of replacing the frame in progress, and of removing it.
LEMMA ReplaceTopCounts ==
    ASSUME IsStack(frames), frames # <<>>, NEW f, "at" \in DOMAIN f, ReplaceTop(f)
    PROVE  /\ IsStack(frames)' /\ frames' # <<>> /\ top' = f
           /\ Pending' = Pending - One(top) + One(f)
  <1>1. /\ IsStack(Front(frames))
        /\ CountedIn(frames) = CountedIn(Front(frames)) + One(Last(frames))
    BY PopCounts
  <1>2. /\ IsStack(Append(Front(frames), f))
        /\ Append(Front(frames), f) # <<>>
        /\ Last(Append(Front(frames), f)) = f
        /\ CountedIn(Append(Front(frames), f)) = CountedIn(Front(frames)) + One(f)
    BY <1>1, PushCounts
  <1>3. CountedIn(Front(frames)) \in Nat /\ One(f) \in Nat /\ One(top) \in Nat
    BY <1>1, CountType DEF One
  <1> QED
    BY <1>1, <1>2, <1>3 DEF ReplaceTop, Pending, top

\* The effect of a return from reduce1.
LEMMA FinishCounts ==
    ASSUME IsStack(frames), frames # <<>>, NEW result, Finish(result)
    PROVE  /\ IsStack(frames)'
           /\ Pending' = Pending - One(top)
           /\ ctl' \in {"idle", "return"}
           /\ ctl' = "return" => frames' # <<>>
  <1>1. /\ IsStack(Front(frames))
        /\ CountedIn(frames) = CountedIn(Front(frames)) + One(Last(frames))
    BY PopCounts
  <1>2. CountedIn(Front(frames)) \in Nat /\ One(top) \in Nat
    BY <1>1, CountType DEF One
  <1> QED
    BY <1>1, <1>2 DEF Finish, Pending, top

\* The effect of an exception.
LEMMA ThrowCounts ==
    ASSUME NEW what, Throw(what)
    PROVE  IsStack(frames)' /\ Pending' = 0 /\ ctl' = "idle"
  BY EmptyStack DEF Throw, Pending
-----------------------------------------------------------------------------
\* The entry of reduce1: throws, answers from the cache, or counts the call of
\* the operator.
LEMMA PollStep == IInv /\ Poll => IInv'
  <1> SUFFICES ASSUME IInv, Poll PROVE IInv'
    OBVIOUS
  <1>1. IsStack(frames) /\ Pending \in Nat /\ recursionLevel \in Nat
    BY CountType DEF IInv, Pending
  <1>2. CASE PollInterrupted
    <2>1. IsStack(frames)' /\ Pending' = 0 /\ ctl' = "idle"
      BY <1>2, ThrowCounts DEF PollInterrupted
    <2> QED
      BY <1>1, <1>2, <2>1 DEF IInv, PollInterrupted, LevelCoversCalls, TryIsNotTooDeep
  <1>3. CASE PollTooDeep
    <2>1. IsStack(frames)' /\ Pending' = 0 /\ ctl' = "idle"
      BY <1>3, ThrowCounts DEF PollTooDeep
    <2>2. recursionLevel' = 0
      BY <1>3 DEF PollTooDeep
    <2>3. 0 \in Nat /\ 0 <= 0 /\ 0 <= MaxRecursion + 1
      BY MaxRecursionAssumption
    <2> QED
      BY <2>1, <2>2, <2>3, Untested
  <1>4. CASE PollReturn
    <2>1. frames # <<>>
      BY <1>4 DEF IInv, Poll, PollReturn
    <2> QED
      BY <1>1, <1>4, <2>1 DEF IInv, PollReturn, LevelCoversCalls, TryIsNotTooDeep, Pending, IsStack
  <1>5. CASE PollDescend
    <2>1. "at" \in DOMAIN frame("operator", focus) /\ One(frame("operator", focus)) = 1
      BY DEF frame, One, counted
    <2>2. /\ IsStack(frames)' /\ frames' # <<>>
          /\ Pending' = Pending + 1
      BY <1>1, <1>5, <2>1, PushCounts DEF PollDescend, Pending
    <2> QED
      BY <1>1, <1>5, <2>2, MaxRecursionAssumption
      DEF IInv, PollDescend, CallReduce1, LevelCoversCalls, TryIsNotTooDeep
  <1> QED
    BY <1>2, <1>3, <1>4, <1>5 DEF Poll

\* The operator has returned: its count is taken away, or handed to the body.
LEMMA ReturnToOperatorStep == IInv /\ ReturnToOperator => IInv'
  <1> SUFFICES ASSUME IInv, ReturnToOperator PROVE IInv'
    OBVIOUS
  <1>1. /\ IsStack(frames) /\ frames # <<>>
        /\ Pending \in Nat /\ recursionLevel \in Nat
        /\ Pending <= recursionLevel /\ recursionLevel <= MaxRecursion + 1
        /\ MaxRecursion \in Nat
    BY PendingType, MaxRecursionAssumption DEF IInv, ReturnToOperator, LevelCoversCalls
  <1>2. "at" \in DOMAIN top /\ One(top) = 1
    BY <1>1, PopCounts DEF ReturnToOperator, top, One, counted
  <1>3. CASE Beta
    <2> DEFINE f == [top EXCEPT !.at = "body"]
    <2>1. "at" \in DOMAIN f /\ One(f) = 1
      BY <1>2 DEF One, counted
    <2>2. ReplaceTop(f)
      BY <1>3 DEF Beta
    <2> HIDE DEF f
    <2>3. IsStack(frames)' /\ frames' # <<>> /\ Pending' = Pending - One(top) + One(f)
      BY <1>1, <2>1, <2>2, ReplaceTopCounts
    <2>4. Pending' = Pending
      BY <1>1, <1>2, <2>1, <2>3
    <2> QED
      BY <1>1, <1>3, <2>3, <2>4 DEF Beta, CallReduce1, IInv, LevelCoversCalls, TryIsNotTooDeep
  <1>4. ASSUME NEW result, Finish(result), recursionLevel' = recursionLevel - 1
        PROVE  IInv'
    <2>1. /\ IsStack(frames)' /\ Pending' = Pending - One(top)
          /\ ctl' \in {"idle", "return"}
          /\ ctl' = "return" => frames' # <<>>
      BY <1>1, <1>4, FinishCounts
    <2>2. Pending' \in Nat
      BY <2>1, PendingType
    <2>3. /\ Pending' <= recursionLevel' /\ recursionLevel' <= MaxRecursion + 1
          /\ recursionLevel' \in Nat
      BY <1>1, <1>2, <1>4, <2>1, <2>2
    <2> QED
      BY <2>1, <2>3, Untested
  <1>5. ASSUME NEW what, Throw(what), recursionLevel' = recursionLevel - 1
        PROVE  IInv'
    <2>1. IsStack(frames)' /\ Pending' = 0 /\ ctl' = "idle"
      BY <1>5, ThrowCounts
    <2>2. Pending >= 1
      <3>1. /\ CountedIn(frames) = CountedIn(Front(frames)) + One(Last(frames))
            /\ IsStack(Front(frames))
        BY <1>1, PopCounts
      <3>2. CountedIn(Front(frames)) \in Nat
        BY <3>1, CountType
      <3> QED
        BY <3>1, <3>2, <1>2 DEF Pending, top
    <2> QED
      BY <1>1, <1>5, <2>1, <2>2 DEF IInv, LevelCoversCalls, TryIsNotTooDeep
  <1>6. ASSUME NEW f, "at" \in DOMAIN f, One(f) = 0, ReplaceTop(f),
               ctl' = "prepare", recursionLevel' = recursionLevel - 1
        PROVE  IInv'
    <2>1. IsStack(frames)' /\ frames' # <<>> /\ Pending' = Pending - One(top) + One(f)
      BY <1>1, <1>6, ReplaceTopCounts
    <2>2. Pending' = Pending - 1
      BY <1>1, <1>2, <1>6, <2>1
    <2>3. Pending' \in Nat
      BY <2>1, PendingType
    <2> QED
      BY <1>1, <1>6, <2>1, <2>2, <2>3 DEF IInv, LevelCoversCalls, TryIsNotTooDeep
  <1>7. CASE CallBuiltin
    <2> DEFINE operand == top.term.operand
               arguments == Append(argumentsOf(focus), operand)
               f == [top EXCEPT !.at = "builtin", !.name = procOf(focus).name,
                                !.todo = DOMAIN arguments, !.values = arguments]
    <2>1. recursionLevel' = recursionLevel - 1
      BY <1>7 DEF CallBuiltin
    <2>2. \/ Throw("rejected")
          \/ \E result : Finish(result)
          \/ ReplaceTop(f) /\ ctl' = "prepare"
      BY <1>7 DEF CallBuiltin, Remember
    <2>3. "at" \in DOMAIN f /\ One(f) = 0
      BY <1>2 DEF One, counted
    <2> HIDE DEF f
    <2> QED
      BY <2>1, <2>2, <2>3, <1>4, <1>5, <1>6
  <1>8. CASE Stuck
    <2>1. recursionLevel' = recursionLevel - 1 /\ \E result : Finish(result)
      BY <1>8 DEF Stuck, Remember
    <2> QED
      BY <2>1, <1>4
  <1> QED
    BY <1>3, <1>7, <1>8 DEF ReturnToOperator

\* The body has returned: its count is taken away.
LEMMA ReturnToBodyStep == IInv /\ ReturnToBody => IInv'
  <1> SUFFICES ASSUME IInv, ReturnToBody PROVE IInv'
    OBVIOUS
  <1>1. /\ IsStack(frames) /\ frames # <<>>
        /\ Pending \in Nat /\ recursionLevel \in Nat
        /\ Pending <= recursionLevel /\ recursionLevel <= MaxRecursion + 1
        /\ MaxRecursion \in Nat
    BY PendingType, MaxRecursionAssumption DEF IInv, ReturnToBody, LevelCoversCalls
  <1>2. One(top) = 1
    BY DEF ReturnToBody, One, counted
  <1>3. Finish(focus) /\ recursionLevel' = recursionLevel - 1
    BY DEF ReturnToBody, Remember
  <1>4. /\ IsStack(frames)' /\ Pending' = Pending - One(top)
        /\ ctl' \in {"idle", "return"}
        /\ ctl' = "return" => frames' # <<>>
    BY <1>1, <1>3, FinishCounts
  <1>5. Pending' \in Nat
    BY <1>4, PendingType
  <1>6. /\ Pending' <= recursionLevel' /\ recursionLevel' <= MaxRecursion + 1
        /\ recursionLevel' \in Nat
    BY <1>1, <1>2, <1>3, <1>4, <1>5
  <1> QED
    BY <1>4, <1>6, Untested

\* Running native code leaves the counter alone.
LEMMA RunBuiltinStep == IInv /\ RunBuiltin => IInv'
  <1> SUFFICES ASSUME IInv, RunBuiltin PROVE IInv'
    OBVIOUS
  <1>1. /\ IsStack(frames) /\ frames # <<>>
        /\ Pending \in Nat /\ recursionLevel \in Nat
        /\ Pending <= recursionLevel /\ recursionLevel <= MaxRecursion + 1
        /\ MaxRecursion \in Nat /\ recursionLevel' = recursionLevel
    BY PendingType, MaxRecursionAssumption DEF IInv, RunBuiltin, LevelCoversCalls
  <1>2. "at" \in DOMAIN top /\ One(top) \in Nat
    BY <1>1, PopCounts DEF top, One
  <1>3. ASSUME NEW result, Finish(result)
        PROVE  IInv'
    <2>1. /\ IsStack(frames)' /\ Pending' = Pending - One(top)
          /\ ctl' \in {"idle", "return"}
          /\ ctl' = "return" => frames' # <<>>
      BY <1>1, <1>3, FinishCounts
    <2>2. Pending' <= recursionLevel' /\ recursionLevel' <= MaxRecursion + 1
      BY <1>1, <1>2, <2>1
    <2> QED
      BY <1>1, <2>1, <2>2, Untested
  <1> DEFINE f == [top EXCEPT !.at = "pretest"]
  <1>4. CASE ReplaceTop(f) /\ ctl' = "test"
    <2>1. "at" \in DOMAIN f /\ f.at = "pretest" /\ One(f) = 0
      BY <1>2 DEF One, counted
    <2> HIDE DEF f
    <2>2. /\ IsStack(frames)' /\ frames' # <<>> /\ top' = f
          /\ Pending' = Pending - One(top) + One(f)
      BY <1>1, <1>4, <2>1, ReplaceTopCounts
    <2>3. Pending' <= recursionLevel'
      BY <1>1, <1>2, <2>1, <2>2
    <2> QED
      BY <1>1, <1>4, <2>1, <2>2, <2>3 DEF IInv, LevelCoversCalls, TryIsNotTooDeep
  <1> QED
    BY <1>3, <1>4 DEF RunBuiltin, Remember

\* Reducing the arguments of a builtin leaves the counter alone.
LEMMA PrepareStep ==
    IInv /\ ((\E i \in 1 .. 2 : Prepare(i)) \/ ReturnToPrepare) => IInv'
  <1> SUFFICES ASSUME IInv, (\E i \in 1 .. 2 : Prepare(i)) \/ ReturnToPrepare PROVE IInv'
    OBVIOUS
  <1>1. /\ IsStack(frames) /\ frames # <<>>
        /\ Pending \in Nat /\ recursionLevel \in Nat
        /\ Pending <= recursionLevel /\ recursionLevel <= MaxRecursion + 1
        /\ recursionLevel' = recursionLevel
    BY PendingType DEF IInv, Prepare, ReturnToPrepare, LevelCoversCalls
  <1>2. "at" \in DOMAIN top /\ One(top) \in Nat
    BY <1>1, PopCounts DEF top, One
  <1>3. \E f : "at" \in DOMAIN f /\ f.at = top.at /\ ReplaceTop(f)
    <2>1. CASE ReturnToPrepare
      BY <2>1, <1>2 DEF ReturnToPrepare
    <2>2. CASE \E i \in 1 .. 2 : Prepare(i)
      <3>1. PICK i \in 1 .. 2 : Prepare(i)
        BY <2>2
      <3>2. CASE reduced_P(top.values[i])
        BY <3>1, <3>2, <1>2 DEF Prepare
      <3>3. CASE ~reduced_P(top.values[i])
        BY <3>1, <3>3, <1>2 DEF Prepare
      <3> QED
        BY <3>2, <3>3
    <2> QED
      BY <2>1, <2>2
  <1>4. PICK f : "at" \in DOMAIN f /\ f.at = top.at /\ ReplaceTop(f)
    BY <1>3
  <1>5. One(f) = One(top)
    BY <1>4 DEF One
  <1>6. IsStack(frames)' /\ frames' # <<>> /\ Pending' = Pending - One(top) + One(f)
    BY <1>1, <1>4, ReplaceTopCounts
  <1>7. Pending' <= recursionLevel'
    BY <1>1, <1>2, <1>5, <1>6
  <1>8. ctl' # "test"
    BY DEF Prepare, ReturnToPrepare, CallReduce1
  <1> QED
    BY <1>1, <1>6, <1>7, <1>8, Untested

\* simplifyRatio: an interrupt leaves up to two calls counted that are over; a
\* too deep recursion, which resets the counter, never strikes in the try block.
LEMMA TestStep == IInv /\ Test => IInv'
  <1> SUFFICES ASSUME IInv, Test PROVE IInv'
    OBVIOUS
  <1>1. /\ ctl = "test" /\ IsStack(frames) /\ frames # <<>>
        /\ Pending \in Nat /\ recursionLevel \in Nat
        /\ Pending <= recursionLevel /\ recursionLevel <= MaxRecursion + 1
        /\ MaxRecursion \in Nat /\ BooleanDepth \in Nat
    BY PendingType, MaxRecursionAssumption DEF IInv, Test, LevelCoversCalls, BooleanDepth
  <1>2. "at" \in DOMAIN top /\ One(top) \in Nat
    BY <1>1, PopCounts DEF top, One
  <1>3. top.at = "try" => recursionLevel + BooleanDepth <= MaxRecursion
    BY <1>1 DEF IInv, TryIsNotTooDeep
  <1>4. ASSUME NEW result, Finish(result),
               recursionLevel' \in Nat, recursionLevel <= recursionLevel',
               recursionLevel' <= MaxRecursion + 1
        PROVE  IInv'
    <2>1. /\ IsStack(frames)' /\ Pending' = Pending - One(top)
          /\ ctl' \in {"idle", "return"}
          /\ ctl' = "return" => frames' # <<>>
      BY <1>1, <1>4, FinishCounts
    <2>2. Pending' <= recursionLevel'
      BY <1>1, <1>2, <1>4, <2>1
    <2> QED
      BY <1>4, <2>1, <2>2, Untested
  <1>5. ASSUME NEW what, Throw(what),
               recursionLevel' \in Nat, recursionLevel' <= MaxRecursion + 1
        PROVE  IInv'
    <2>1. IsStack(frames)' /\ Pending' = 0 /\ ctl' = "idle"
      BY <1>5, ThrowCounts
    <2>2. Pending' <= recursionLevel'
      BY <1>5, <2>1
    <2> QED
      BY <1>5, <2>1, <2>2, Untested
  <1>6. CASE TestGood
    <2>1. recursionLevel' = recursionLevel /\ recursionLevel + BooleanDepth <= MaxRecursion
      BY <1>6 DEF TestGood
    <2>2. ASSUME NEW f, "at" \in DOMAIN f, One(f) = 0, ReplaceTop(f), ctl' = "test"
          PROVE  IInv'
      <3>1. /\ IsStack(frames)' /\ frames' # <<>>
            /\ Pending' = Pending - One(top) + One(f)
        BY <1>1, <2>2, ReplaceTopCounts
      <3>2. Pending' <= recursionLevel'
        BY <1>1, <1>2, <2>1, <2>2, <3>1
      <3> QED
        BY <1>1, <2>1, <2>2, <3>1, <3>2
        DEF IInv, LevelCoversCalls, TryIsNotTooDeep, BooleanDepth
    <2> DEFINE f1 == [top EXCEPT !.at = "try"]
               g == gcd(numerator, denominator)
               f2 == [top EXCEPT !.at = "posttest",
                          !.values = <<makeInt(numerator \div g), makeInt(denominator \div g)>>]
    <2>3. /\ "at" \in DOMAIN f1 /\ One(f1) = 0
          /\ "at" \in DOMAIN f2 /\ One(f2) = 0
      BY <1>2 DEF One, counted
    <2>4. \/ \E result : Finish(result)
          \/ ReplaceTop(f1) /\ ctl' = "test"
          \/ ReplaceTop(f2) /\ ctl' = "test"
      BY <1>1, <1>6 DEF TestGood, Remember
    <2> HIDE DEF f1, f2
    <2>5. CASE \E result : Finish(result)
      BY <1>1, <2>1, <2>5, <1>4
    <2> QED
      BY <2>2, <2>3, <2>4, <2>5
  <1>7. CASE \E depth \in 0 .. BooleanDepth : TestInterrupted(depth)
    <2>1. PICK depth \in 0 .. BooleanDepth : TestInterrupted(depth)
      BY <1>7
    <2>2. /\ recursionLevel' = recursionLevel + depth
          /\ depth = 0 \/ recursionLevel + depth - 1 <= MaxRecursion
      BY <2>1 DEF TestInterrupted
    <2>3. /\ recursionLevel' \in Nat /\ recursionLevel <= recursionLevel'
          /\ recursionLevel' <= MaxRecursion + 1
      BY <1>1, <2>2
    <2>4. Throw("interrupted") \/ \E result : Finish(result)
      BY <2>1 DEF TestInterrupted, Swallow
    <2> QED
      BY <2>3, <2>4, <1>4, <1>5
  <1>8. CASE TestTooDeep
    <2>0. recursionLevel + BooleanDepth > MaxRecursion
      BY <1>8 DEF TestTooDeep
    <2>1. top.at # "try"
      BY <1>1, <1>3, <2>0
    <2>2. Throw("too_deep") /\ recursionLevel' = 0
      BY <1>8, <2>1 DEF TestTooDeep
    <2>3. 0 \in Nat /\ 0 <= MaxRecursion + 1
      BY <1>1
    <2> QED
      BY <2>2, <2>3, <1>5
  <1> QED
    BY <1>6, <1>7, <1>8 DEF Test

\* Steps that leave the stack and the counter alone.
LEMMA OtherSteps ==
    ASSUME IInv,
           \/ \E root \in Programs : Submit(root)
           \/ CloseEnvironment \/ Signal \/ ReadFlag \/ UNCHANGED vars
    PROVE  IInv'
  <1>1. frames' = frames /\ recursionLevel' = recursionLevel
    BY DEF Submit, CloseEnvironment, Signal, ReadFlag, vars, evaluation
  <1>2. /\ IsStack(frames)' /\ recursionLevel' \in Nat /\ LevelCoversCalls'
    BY <1>1 DEF IInv, IsStack, LevelCoversCalls, Pending
  <1>3. CASE \E root \in Programs : Submit(root)
    <2>1. PICK root \in Programs : Submit(root)
      BY <1>3
    <2>2. CASE reduced_P(root)
      <3>1. ctl = "idle" /\ ctl' = ctl
        BY <2>1, <2>2 DEF Submit
      <3> QED
        BY <1>2, <3>1 DEF IInv, TryIsNotTooDeep
    <2>3. CASE ~reduced_P(root)
      <3>1. /\ ctl' = "poll" /\ focus' = root
            /\ heap' = heap /\ fGeneration' = fGeneration
        BY <2>1, <2>3 DEF Submit, CallReduce1
      <3>2. ~reduced_P(focus)'
        BY <2>3, <3>1 DEF reduced_P, application_result_P, generationOf
      <3> QED
        BY <1>2, <3>1, <3>2 DEF IInv, TryIsNotTooDeep
    <2> QED
      BY <2>2, <2>3
  <1>4. CASE CloseEnvironment
    <2>1. ctl = "idle" /\ ctl' = ctl
      BY <1>4 DEF CloseEnvironment
    <2> QED
      BY <1>2, <2>1 DEF IInv, TryIsNotTooDeep
  <1>5. CASE ReadFlag
    <2>1. /\ ctl = "poll" /\ ctl' = "polled" /\ focus' = focus
          /\ heap' = heap /\ fGeneration' = fGeneration
      BY <1>5 DEF ReadFlag, session
    <2>2. reduced_P(focus)' = reduced_P(focus)
      BY <2>1 DEF reduced_P, application_result_P, generationOf
    <2> QED
      BY <1>1, <1>2, <2>1, <2>2 DEF IInv, TryIsNotTooDeep
  <1>6. CASE Signal \/ UNCHANGED vars
    <2>1. /\ ctl' = ctl /\ focus' = focus
          /\ heap' = heap /\ fGeneration' = fGeneration
      BY <1>6 DEF Signal, vars, evaluation, session
    <2>2. reduced_P(focus)' = reduced_P(focus)
      BY <2>1 DEF reduced_P, application_result_P, generationOf
    <2> QED
      BY <1>1, <1>2, <2>1, <2>2 DEF IInv, TryIsNotTooDeep, top
  <1> QED
    BY <1>3, <1>4, <1>5, <1>6

\* Every step of the specification preserves the invariant.
LEMMA NextIInv == IInv /\ [Next]_vars => IInv'
  BY PollStep, ReturnToOperatorStep, ReturnToBodyStep, RunBuiltinStep, PrepareStep,
     TestStep, OtherSteps
  DEF Next, Evaluate

\* The inductive invariant holds in every reachable state of the evaluator.
THEOREM Inductive == Spec => []IInv
  <1> QED
    BY InitIInv, NextIInv, PTL DEF Spec

\* The recursion counter bounds the calls in progress and stays within its
\* limit, whatever was thrown, interrupted or swallowed before.
THEOREM LevelTheorem == Spec => []LevelCoversCalls
  <1>1. IInv => LevelCoversCalls
    BY DEF IInv
  <1> QED
    BY <1>1, Inductive, PTL

\* "recursion was too deep" is never swallowed by simplifyRatio.
THEOREM TryTheorem == Spec => []TryIsNotTooDeep
  <1>1. IInv => TryIsNotTooDeep
    BY DEF IInv
  <1> QED
    BY <1>1, Inductive, PTL
-----------------------------------------------------------------------------
\* What every step does to the histories of signals and exceptions: nothing,
\* or it counts one of them.
FlagTypes == B_SIGINT_happened \in BOOLEAN /\ latched \in BOOLEAN
HistoryType == throws \in [thrown -> Nat] /\ signals \in Nat
Raises(what) == throws' = [throws EXCEPT ![what] = @ + 1]

\* The inductive invariant for signals.  The flag that interrupted_P has read
\* waits only between its two steps.
SignalInv ==
    /\ HistoryType
    /\ FlagTypes
    /\ latched => ctl = "polled"
    /\ OneAbortPerSignal

\* A signal that has arrived and is not yet answered by an exception.
Waiting == IF B_SIGINT_happened \/ latched THEN 1 ELSE 0

\* At most one signal waits.
LEMMA WaitingType == Waiting \in {0, 1} /\ Waiting' \in {0, 1}
  BY DEF Waiting

\* The arithmetic of one step: what is counted more was waiting, or has just
\* arrived.
LEMMA Balance ==
    ASSUME SignalInv, HistoryType',
           \/ /\ throws'["interrupted"] = throws["interrupted"]
              /\ throws'["swallowed"] = throws["swallowed"]
              /\ \/ Waiting' <= Waiting /\ signals' = signals
                 \/ Waiting' <= 1 /\ signals' = signals + 1
           \/ /\ throws'["interrupted"] + throws'["swallowed"]
                   = throws["interrupted"] + throws["swallowed"] + 1
              /\ Waiting = 1 /\ Waiting' = 0 /\ signals' = signals
    PROVE  OneAbortPerSignal'
  <1>1. /\ throws["interrupted"] \in Nat /\ throws["swallowed"] \in Nat
        /\ throws'["interrupted"] \in Nat /\ throws'["swallowed"] \in Nat
        /\ signals \in Nat /\ signals' \in Nat
    BY DEF SignalInv, HistoryType, thrown
  <1>2. Waiting \in {0, 1} /\ Waiting' \in {0, 1}
    BY WaitingType
  <1>3. throws["interrupted"] + throws["swallowed"] + Waiting <= signals
    BY DEF SignalInv, OneAbortPerSignal, Waiting
  <1>4. throws'["interrupted"] + throws'["swallowed"] + Waiting' <= signals'
    BY <1>1, <1>2, <1>3
  <1> QED
    BY <1>4 DEF OneAbortPerSignal, Waiting

\* No signal has arrived at the start.
LEMMA InitSignalInv == Init => SignalInv
  <1> SUFFICES ASSUME Init PROVE SignalInv
    OBVIOUS
  <1>1. throws["interrupted"] = 0 /\ throws["swallowed"] = 0 /\ signals = 0 /\ HistoryType
    BY DEF Init, HistoryType, thrown
  <1>2. B_SIGINT_happened = FALSE /\ latched = FALSE
    BY DEF Init
  <1>3. (IF B_SIGINT_happened \/ latched THEN 1 ELSE 0) = 0
    BY <1>2, Zenon
  <1>4. OneAbortPerSignal
    BY <1>1, <1>3 DEF OneAbortPerSignal
  <1> QED
    BY <1>1, <1>2, <1>4, Zenon DEF SignalInv, FlagTypes

\* A step that neither counts nor touches a flag.
LEMMA QuietStep ==
    ASSUME SignalInv, UNCHANGED <<throws, signals, B_SIGINT_happened, latched>>,
           latched => ctl' = "polled"
    PROVE  SignalInv'
  <1>1. HistoryType' /\ OneAbortPerSignal'
    BY DEF SignalInv, HistoryType, OneAbortPerSignal
  <1> QED
    BY <1>1, Zenon DEF SignalInv, FlagTypes

\* An exception counts for its kind only.
LEMMA RaisesFacts ==
    ASSUME SignalInv, signals' = signals, NEW what \in thrown, Raises(what)
    PROVE  /\ HistoryType'
           /\ what \in {"interrupted", "swallowed"} =>
                throws'["interrupted"] + throws'["swallowed"]
                  = throws["interrupted"] + throws["swallowed"] + 1
           /\ what \notin {"interrupted", "swallowed"} =>
                throws'["interrupted"] = throws["interrupted"] /\ throws'["swallowed"] = throws["swallowed"]
  <1>1. throws \in [thrown -> Nat] /\ signals \in Nat
    BY DEF SignalInv, HistoryType
  <1>2. throws' \in [thrown -> Nat] /\ signals' \in Nat
    <2>1. throws[what] \in Nat
      BY <1>1
    <2>2. throws[what] + 1 \in Nat
      BY <2>1
    <2> QED
      BY <1>1, <2>2, Zenon DEF Raises
  <1>3. throws["interrupted"] \in Nat /\ throws["swallowed"] \in Nat
    BY <1>1 DEF thrown
  <1> QED
    BY <1>1, <1>2, <1>3 DEF HistoryType, Raises, thrown

\* The flags are down after the step.
LEMMA FlagsDown ==
    ASSUME ~B_SIGINT_happened', ~latched'
    PROVE  Waiting' = 0
  <1>1. (IF B_SIGINT_happened' \/ latched' THEN 1 ELSE 0) = 0
    BY Zenon
  <1> QED
    BY <1>1 DEF Waiting

\* An exception without a signal: it is not counted as an interruption.
LEMMA OtherExceptionStep ==
    ASSUME SignalInv, NEW what \in {"too_deep", "rejected"}, Raises(what), signals' = signals,
           FlagTypes', ~latched',
           ~B_SIGINT_happened' \/ UNCHANGED <<B_SIGINT_happened, latched>>
    PROVE  SignalInv'
  <1>1. /\ HistoryType'
        /\ throws'["interrupted"] = throws["interrupted"] /\ throws'["swallowed"] = throws["swallowed"]
    BY RaisesFacts DEF thrown
  <1>2. Waiting' <= Waiting
    <2>1. CASE ~B_SIGINT_happened'
      <3>1. Waiting' = 0
        BY <2>1, FlagsDown
      <3> QED
        BY <3>1, WaitingType
    <2>2. CASE UNCHANGED <<B_SIGINT_happened, latched>>
      <3>1. Waiting' = Waiting
        BY <2>2, Zenon DEF Waiting
      <3> QED
        BY <3>1, WaitingType
    <2> QED
      BY <2>1, <2>2
  <1>3. OneAbortPerSignal'
    BY <1>1, <1>2, Balance
  <1> QED
    BY <1>1, <1>3, Zenon DEF SignalInv, FlagTypes

\* An interruption takes the signal away that caused it.
LEMMA InterruptionStep ==
    ASSUME SignalInv, NEW what \in {"interrupted", "swallowed"}, Raises(what),
           B_SIGINT_happened \/ latched,
           signals' = signals, FlagTypes', ~B_SIGINT_happened', ~latched'
    PROVE  SignalInv'
  <1>1. /\ HistoryType'
        /\ throws'["interrupted"] + throws'["swallowed"]
             = throws["interrupted"] + throws["swallowed"] + 1
    BY RaisesFacts DEF thrown
  <1>2. Waiting = 1 /\ Waiting' = 0
    BY FlagsDown DEF Waiting
  <1>3. OneAbortPerSignal'
    BY <1>1, <1>2, Balance
  <1> QED
    BY <1>1, <1>3, Zenon DEF SignalInv, FlagTypes
-----------------------------------------------------------------------------
\* reduce1 reads the flag.
LEMMA ReadFlagSignals == SignalInv /\ ReadFlag => SignalInv'
  <1> SUFFICES ASSUME SignalInv, ReadFlag PROVE SignalInv'
    OBVIOUS
  <1>1. /\ ctl = "poll" /\ ctl' = "polled" /\ latched' = B_SIGINT_happened
        /\ UNCHANGED <<throws, signals, B_SIGINT_happened>>
    BY DEF ReadFlag
  <1>2. HistoryType'
    BY <1>1 DEF SignalInv, HistoryType
  <1>3. Waiting' <= Waiting
    BY <1>1 DEF Waiting
  <1>4. OneAbortPerSignal'
    BY <1>1, <1>2, <1>3, Balance
  <1> QED
    BY <1>1, <1>2, <1>4, Zenon DEF SignalInv, FlagTypes

\* A signal is counted once, though the flag may already be set.
LEMMA SignalSignals == SignalInv /\ Signal => SignalInv'
  <1> SUFFICES ASSUME SignalInv, Signal PROVE SignalInv'
    OBVIOUS
  <1>1. /\ UNCHANGED <<throws, latched, ctl>>
        /\ signals' = signals + 1 /\ B_SIGINT_happened' = TRUE
    BY DEF Signal, evaluation
  <1>2. HistoryType'
    BY <1>1 DEF SignalInv, HistoryType
  <1>3. Waiting' <= 1
    BY DEF Waiting
  <1>4. OneAbortPerSignal'
    BY <1>1, <1>2, <1>3, Balance
  <1> QED
    BY <1>1, <1>2, <1>4, Zenon DEF SignalInv, FlagTypes

\* The entry of reduce1 clears the flag, whether it throws or not.
LEMMA PollSignals == SignalInv /\ Poll => SignalInv'
  <1> SUFFICES ASSUME SignalInv, Poll PROVE SignalInv'
    OBVIOUS
  <1>1. signals' = signals /\ ~B_SIGINT_happened' /\ ~latched' /\ FlagTypes'
    BY DEF Poll, FlagTypes
  <1>2. CASE PollInterrupted
    BY <1>1, <1>2, InterruptionStep DEF PollInterrupted, Throw, Raises
  <1>3. CASE PollTooDeep
    BY <1>1, <1>3, OtherExceptionStep DEF PollTooDeep, Throw, Raises
  <1>4. CASE PollReturn \/ PollDescend
    <2>1. throws' = throws
      BY <1>4 DEF PollReturn, PollDescend
    <2>2. HistoryType'
      BY <1>1, <2>1 DEF SignalInv, HistoryType
    <2>3. Waiting' <= Waiting
      BY <1>1, FlagsDown DEF Waiting
    <2>4. OneAbortPerSignal'
      BY <1>1, <2>1, <2>2, <2>3, Balance
    <2> QED
      BY <1>1, <2>2, <2>4, Zenon DEF SignalInv, FlagTypes
  <1> QED
    BY <1>2, <1>3, <1>4 DEF Poll

\* simplifyRatio: what is swallowed is an interruption, because a recursion is
\* never too deep inside of its try block.
LEMMA TestSignals == IInv /\ SignalInv /\ Test => SignalInv'
  <1> SUFFICES ASSUME IInv, SignalInv, Test PROVE SignalInv'
    OBVIOUS
  <1>1. ctl = "test" /\ latched' = latched /\ signals' = signals /\ ~latched
    BY DEF Test, SignalInv
  <1>5. FlagTypes'
    BY DEF Test, TestGood, TestTooDeep, TestInterrupted, SignalInv, FlagTypes
  <1>2. CASE TestGood
    <2>1. throws' = throws /\ B_SIGINT_happened' = B_SIGINT_happened
      BY <1>2 DEF TestGood, Remember
    <2> QED
      BY <1>1, <2>1, QuietStep
  <1>3. CASE TestTooDeep
    <2>1. top.at # "try"
      <3>1. recursionLevel + BooleanDepth > MaxRecursion
        BY <1>3 DEF TestTooDeep
      <3>2. top.at = "try" => recursionLevel + BooleanDepth <= MaxRecursion
        BY <1>1 DEF IInv, TryIsNotTooDeep
      <3>3. recursionLevel + BooleanDepth \in Nat
        BY DEF IInv, BooleanDepth
      <3> QED
        BY <3>1, <3>2, <3>3, MaxRecursionAssumption
    <2>2. Raises("too_deep") /\ B_SIGINT_happened' = B_SIGINT_happened
      BY <1>3, <2>1 DEF TestTooDeep, Throw, Raises
    <2> QED
      BY <1>1, <2>2, <1>5, OtherExceptionStep
  <1>4. CASE \E depth \in 0 .. BooleanDepth : TestInterrupted(depth)
    <2>1. /\ B_SIGINT_happened /\ ~B_SIGINT_happened'
          /\ Raises("swallowed") \/ Raises("interrupted")
      BY <1>4 DEF TestInterrupted, Swallow, Throw, Raises
    <2> QED
      BY <1>1, <1>5, <2>1, InterruptionStep
  <1> QED
    BY <1>2, <1>3, <1>4 DEF Test

\* A return to an operator may find that the builtin rejects the argument.
LEMMA ReturnToOperatorSignals == SignalInv /\ ReturnToOperator => SignalInv'
  <1> SUFFICES ASSUME SignalInv, ReturnToOperator PROVE SignalInv'
    OBVIOUS
  <1>1. /\ ctl = "return" /\ latched' = latched /\ signals' = signals
        /\ B_SIGINT_happened' = B_SIGINT_happened /\ ~latched
    BY DEF ReturnToOperator, SignalInv
  <1>2. throws' = throws \/ Raises("rejected")
    BY DEF ReturnToOperator, Beta, CallBuiltin, Stuck, Remember, Throw, Raises
  <1>3. FlagTypes'
    BY <1>1 DEF SignalInv, FlagTypes
  <1> QED
    BY <1>1, <1>2, <1>3, QuietStep, OtherExceptionStep

\* The other steps have to do with neither signals nor exceptions.
LEMMA OtherSignals ==
    ASSUME SignalInv,
           \/ \E root \in Programs : Submit(root)
           \/ CloseEnvironment \/ UNCHANGED vars
           \/ ReturnToBody \/ ReturnToPrepare \/ RunBuiltin
           \/ \E i \in 1 .. 2 : Prepare(i)
    PROVE  SignalInv'
  <1>1. UNCHANGED <<throws, signals, B_SIGINT_happened, latched>>
    BY DEF Submit, CloseEnvironment, vars, evaluation, ReturnToBody, ReturnToPrepare, RunBuiltin,
           Prepare, Remember
  <1>2. latched => UNCHANGED vars
    BY DEF SignalInv, Submit, CloseEnvironment, ReturnToBody, ReturnToPrepare, RunBuiltin, Prepare
  <1>3. latched => ctl' = "polled"
    BY <1>2 DEF vars, evaluation, SignalInv
  <1> QED
    BY <1>1, <1>3, QuietStep

\* Every step preserves the invariant for signals.
LEMMA NextSignalInv == IInv /\ SignalInv /\ [Next]_vars => SignalInv'
  BY ReadFlagSignals, SignalSignals, PollSignals, TestSignals, ReturnToOperatorSignals, OtherSignals
  DEF Next, Evaluate

\* One SIGINT stops at most one evaluation, for all programs and all moments at
\* which signals arrive.
THEOREM SignalsTheorem == Spec => []OneAbortPerSignal
  <1>1. SignalInv => OneAbortPerSignal
    BY DEF SignalInv
  <1> QED
    BY <1>1, InitSignalInv, NextSignalInv, Inductive, PTL DEF Spec
-----------------------------------------------------------------------------
\* The inductive invariant for the counter: until an exception leaks it is
\* exact, and where a builtin is at work the call is no longer counted.
Clean == \A kind \in thrown \ {"too_deep"} : throws[kind] = 0
LeakInv ==
    /\ HistoryType
    /\ ctl \in {"prepare", "test"} => top.at \notin counted
    /\ Clean => recursionLevel = Pending

\* At the start nothing was thrown and nothing is in progress.
LEMMA InitLeakInv == Init => LeakInv
  <1> SUFFICES ASSUME Init PROVE LeakInv
    OBVIOUS
  <1>1. HistoryType /\ recursionLevel = 0 /\ ctl = "idle"
    BY DEF Init, HistoryType, thrown
  <1>2. Pending = 0
    BY EmptyStack DEF Init, Pending
  <1> QED
    BY <1>1, <1>2 DEF LeakInv

\* Exceptions are counted for good.
LEMMA CleanFacts ==
    ASSUME HistoryType, signals' = signals, NEW what \in thrown, Raises(what)
    PROVE  HistoryType' /\ (what # "too_deep" => ~Clean')
  <1>1. throws \in [thrown -> Nat] /\ throws[what] \in Nat /\ signals \in Nat
    BY DEF HistoryType
  <1>2. throws[what] + 1 \in Nat /\ throws[what] + 1 # 0
    BY <1>1
  <1>3. throws' \in [thrown -> Nat]
    BY <1>1, <1>2, Zenon DEF Raises
  <1>4. throws'[what] = throws[what] + 1
    BY <1>1 DEF Raises
  <1>5. throws'[what] # 0
    BY <1>2, <1>4
  <1> QED
    BY <1>1, <1>3, <1>5, Zenon DEF HistoryType, Clean

\* A step that throws nothing, and changes the counter as it changes the stack.
LEMMA ExactStep ==
    ASSUME LeakInv, UNCHANGED <<throws, signals>>,
           ctl' \in {"prepare", "test"} => top'.at \notin counted,
           recursionLevel = Pending => recursionLevel' = Pending'
    PROVE  LeakInv'
  <1>1. HistoryType' /\ (Clean' <=> Clean)
    BY DEF LeakInv, HistoryType, Clean
  <1> QED
    BY <1>1 DEF LeakInv

\* An exception other than that of too deep recursions.
LEMMA LeakingStep ==
    ASSUME LeakInv, signals' = signals, ctl' \in {"idle", "return"},
           NEW what \in thrown \ {"too_deep"}, Raises(what)
    PROVE  LeakInv'
  BY CleanFacts DEF LeakInv

\* Too deep a recursion: the counter begins anew, without calls.
LEMMA TooDeepStep ==
    ASSUME LeakInv, signals' = signals, Throw("too_deep"), recursionLevel' = 0
    PROVE  LeakInv'
  <1>1. Pending' = 0 /\ ctl' = "idle"
    BY ThrowCounts
  <1>2. HistoryType'
    BY CleanFacts DEF LeakInv, Throw, Raises, thrown
  <1> QED
    BY <1>1, <1>2 DEF LeakInv
-----------------------------------------------------------------------------
\* The entry of reduce1.
LEMMA PollLeaks == IInv /\ LeakInv /\ Poll => LeakInv'
  <1> SUFFICES ASSUME IInv, LeakInv, Poll PROVE LeakInv'
    OBVIOUS
  <1>1. /\ IsStack(frames) /\ Pending \in Nat /\ recursionLevel \in Nat
        /\ signals' = signals
    BY PendingType DEF IInv, Poll
  <1>2. CASE PollInterrupted
    BY <1>1, <1>2, LeakingStep DEF PollInterrupted, Throw, Raises, thrown
  <1>3. CASE PollTooDeep
    BY <1>1, <1>3, TooDeepStep DEF PollTooDeep
  <1>4. CASE PollReturn
    BY <1>1, <1>4, ExactStep DEF PollReturn, Pending
  <1>5. CASE PollDescend
    <2>1. "at" \in DOMAIN frame("operator", focus) /\ One(frame("operator", focus)) = 1
      BY DEF frame, One, counted
    <2>2. Pending' = Pending + 1
      BY <1>1, <1>5, <2>1, PushCounts DEF PollDescend, Pending
    <2>3. recursionLevel' = recursionLevel + 1 /\ ctl' = "poll" /\ throws' = throws
      BY <1>5 DEF PollDescend, CallReduce1
    <2> QED
      BY <1>1, <2>2, <2>3, ExactStep
  <1> QED
    BY <1>2, <1>3, <1>4, <1>5 DEF Poll

\* The operator has returned.
LEMMA ReturnToOperatorLeaks == IInv /\ LeakInv /\ ReturnToOperator => LeakInv'
  <1> SUFFICES ASSUME IInv, LeakInv, ReturnToOperator PROVE LeakInv'
    OBVIOUS
  <1>1. /\ IsStack(frames) /\ frames # <<>>
        /\ Pending \in Nat /\ recursionLevel \in Nat /\ signals' = signals
    BY PendingType DEF IInv, ReturnToOperator
  <1>2. "at" \in DOMAIN top /\ One(top) = 1
    BY <1>1, PopCounts DEF ReturnToOperator, top, One, counted
  <1>3. CASE Beta
    <2> DEFINE f == [top EXCEPT !.at = "body"]
    <2>1. "at" \in DOMAIN f /\ One(f) = 1
      BY <1>2 DEF One, counted
    <2>2. /\ ReplaceTop(f)
          /\ ctl' = "poll" /\ throws' = throws /\ recursionLevel' = recursionLevel
      BY <1>3 DEF Beta, CallReduce1
    <2> HIDE DEF f
    <2>3. Pending' = Pending - One(top) + One(f)
      BY <1>1, <2>1, <2>2, ReplaceTopCounts
    <2>4. Pending' = Pending
      BY <1>1, <1>2, <2>1, <2>3
    <2> QED
      BY <1>1, <2>2, <2>4, ExactStep
  <1>4. ASSUME NEW result, Remember(result), recursionLevel' = recursionLevel - 1
        PROVE  LeakInv'
    <2>1. Pending' = Pending - 1 /\ ctl' \in {"idle", "return"} /\ throws' = throws
      BY <1>1, <1>2, <1>4, FinishCounts DEF Remember
    <2> QED
      BY <1>1, <1>4, <2>1, ExactStep
  <1>5. CASE CallBuiltin
    <2> DEFINE operand == top.term.operand
               arguments == Append(argumentsOf(focus), operand)
               f == [top EXCEPT !.at = "builtin", !.name = procOf(focus).name,
                                !.todo = DOMAIN arguments, !.values = arguments]
    <2>1. recursionLevel' = recursionLevel - 1
      BY <1>5 DEF CallBuiltin
    <2>2. \/ Throw("rejected")
          \/ \E result : Remember(result)
          \/ ReplaceTop(f) /\ ctl' = "prepare" /\ throws' = throws
      BY <1>5 DEF CallBuiltin
    <2>3. CASE Throw("rejected")
      BY <1>1, <2>3, LeakingStep DEF Throw, Raises, thrown
    <2>4. "at" \in DOMAIN f /\ One(f) = 0 /\ f.at \notin counted
      BY <1>2 DEF One, counted
    <2> HIDE DEF f
    <2>5. CASE ReplaceTop(f) /\ ctl' = "prepare" /\ throws' = throws
      <3>1. Pending' = Pending - One(top) + One(f) /\ top' = f
        BY <1>1, <2>4, <2>5, ReplaceTopCounts
      <3>2. Pending' = Pending - 1
        BY <1>1, <1>2, <2>4, <3>1
      <3>3. top'.at \notin counted
        BY <2>4, <3>1
      <3>4. recursionLevel = Pending => recursionLevel' = Pending'
        BY <2>1, <3>2
      <3> QED
        BY <1>1, <2>5, <3>3, <3>4, ExactStep
    <2> QED
      BY <2>1, <2>2, <2>3, <2>5, <1>4
  <1>6. CASE Stuck
    BY <1>4, <1>6 DEF Stuck
  <1> QED
    BY <1>3, <1>5, <1>6 DEF ReturnToOperator

\* The body has returned.
LEMMA ReturnToBodyLeaks == IInv /\ LeakInv /\ ReturnToBody => LeakInv'
  <1> SUFFICES ASSUME IInv, LeakInv, ReturnToBody PROVE LeakInv'
    OBVIOUS
  <1>1. /\ IsStack(frames) /\ frames # <<>> /\ One(top) = 1
        /\ Pending \in Nat /\ recursionLevel \in Nat
        /\ Finish(focus) /\ recursionLevel' = recursionLevel - 1
        /\ throws' = throws /\ signals' = signals
    BY PendingType DEF IInv, ReturnToBody, Remember, One, counted
  <1>2. Pending' = Pending - 1 /\ ctl' \in {"idle", "return"}
    BY <1>1, FinishCounts
  <1> QED
    BY <1>1, <1>2, ExactStep

\* Builtins at work are not counted: their return does not change the counter.
LEMMA UncountedReturn ==
    ASSUME IInv, LeakInv, ctl \in {"prepare", "test"}, NEW result, Remember(result),
           signals' = signals, recursionLevel' = recursionLevel
    PROVE  LeakInv'
  <1>1. /\ IsStack(frames) /\ frames # <<>> /\ One(top) = 0 /\ Pending \in Nat
    BY PendingType DEF IInv, LeakInv, One
  <1>2. Pending' = Pending /\ ctl' \in {"idle", "return"} /\ throws' = throws
    BY <1>1, FinishCounts DEF Remember
  <1> QED
    BY <1>2, ExactStep

\* Nor does any step of theirs within the same call.
LEMMA UncountedWork ==
    ASSUME IInv, LeakInv, ctl \in {"prepare", "test", "return"}, top.at \notin counted,
           NEW f, "at" \in DOMAIN f, f.at \notin counted, ReplaceTop(f),
           UNCHANGED <<signals, throws, recursionLevel>>
    PROVE  LeakInv'
  <1>1. /\ IsStack(frames) /\ frames # <<>> /\ Pending \in Nat
        /\ One(top) = 0 /\ One(f) = 0
    BY PendingType DEF IInv, One
  <1>2. Pending' = Pending - One(top) + One(f) /\ top' = f
    BY <1>1, ReplaceTopCounts
  <1>3. Pending' = Pending /\ top'.at \notin counted
    BY <1>1, <1>2
  <1> QED
    BY <1>3, ExactStep

\* Arguments are prepared and returned, native code runs.
LEMMA BuiltinLeaks ==
    ASSUME IInv, LeakInv,
           RunBuiltin \/ ReturnToPrepare \/ \E i \in 1 .. 2 : Prepare(i)
    PROVE  LeakInv'
  <1>1. /\ UNCHANGED <<signals, recursionLevel>>
        /\ ctl \in {"prepare", "return"} /\ frames # <<>> /\ IsStack(frames)
        /\ top.at \notin counted
    BY DEF IInv, LeakInv, RunBuiltin, ReturnToPrepare, Prepare
  <1>2. "at" \in DOMAIN top
    BY <1>1, PopCounts DEF top
  <1>3. CASE RunBuiltin
    <2> DEFINE f == [top EXCEPT !.at = "pretest"]
    <2>1. "at" \in DOMAIN f /\ f.at \notin counted
      BY <1>2 DEF counted
    <2>2. \/ ctl = "prepare" /\ \E result : Remember(result)
          \/ ReplaceTop(f) /\ throws' = throws
      BY <1>3 DEF RunBuiltin
    <2> HIDE DEF f
    <2> QED
      BY <1>1, <2>1, <2>2, UncountedReturn, UncountedWork
  <1>4. CASE ReturnToPrepare
    <2> DEFINE f == [top EXCEPT !.todo = @ \ {top.current}, !.values[top.current] = focus]
    <2>1. "at" \in DOMAIN f /\ f.at = top.at
      BY <1>2
    <2>2. ReplaceTop(f) /\ throws' = throws
      BY <1>4 DEF ReturnToPrepare
    <2> HIDE DEF f
    <2> QED
      BY <1>1, <2>1, <2>2, UncountedWork
  <1>5. CASE \E i \in 1 .. 2 : Prepare(i)
    <2>1. PICK i \in 1 .. 2 : Prepare(i)
      BY <1>5
    <2>2. \E f : "at" \in DOMAIN f /\ f.at = top.at /\ ReplaceTop(f)
      <3>1. CASE reduced_P(top.values[i])
        BY <2>1, <3>1, <1>2 DEF Prepare
      <3>2. CASE ~reduced_P(top.values[i])
        BY <2>1, <3>2, <1>2 DEF Prepare
      <3> QED
        BY <3>1, <3>2
    <2>3. throws' = throws
      BY <2>1 DEF Prepare
    <2> QED
      BY <1>1, <2>2, <2>3, UncountedWork
  <1> QED
    BY <1>3, <1>4, <1>5

\* simplifyRatio: an interrupt is what leaks.
LEMMA TestLeaks == IInv /\ LeakInv /\ Test => LeakInv'
  <1> SUFFICES ASSUME IInv, LeakInv, Test PROVE LeakInv'
    OBVIOUS
  <1>1. /\ ctl = "test" /\ signals' = signals /\ frames # <<>> /\ IsStack(frames)
        /\ top.at \notin counted /\ recursionLevel \in Nat
    BY DEF IInv, LeakInv, Test
  <1>2. "at" \in DOMAIN top
    BY <1>1, PopCounts DEF top
  <1>3. CASE TestGood
    <2> DEFINE f1 == [top EXCEPT !.at = "try"]
               g == gcd(numerator, denominator)
               f2 == [top EXCEPT !.at = "posttest",
                          !.values = <<makeInt(numerator \div g), makeInt(denominator \div g)>>]
    <2>1. /\ "at" \in DOMAIN f1 /\ f1.at \notin counted
          /\ "at" \in DOMAIN f2 /\ f2.at \notin counted
      BY <1>2 DEF counted
    <2>2. /\ recursionLevel' = recursionLevel
          /\ \/ \E result : Remember(result)
             \/ ReplaceTop(f1) /\ throws' = throws
             \/ ReplaceTop(f2) /\ throws' = throws
      BY <1>1, <1>3 DEF TestGood
    <2> HIDE DEF f1, f2
    <2> QED
      BY <1>1, <2>1, <2>2, UncountedReturn, UncountedWork
  <1>4. CASE TestTooDeep
    <2>1. top.at # "try"
      <3>1. recursionLevel + BooleanDepth > MaxRecursion
        BY <1>4 DEF TestTooDeep
      <3>2. top.at = "try" => recursionLevel + BooleanDepth <= MaxRecursion
        BY <1>1 DEF IInv, TryIsNotTooDeep
      <3>3. recursionLevel + BooleanDepth \in Nat
        BY <1>1 DEF BooleanDepth
      <3> QED
        BY <3>1, <3>2, <3>3, MaxRecursionAssumption
    <2> QED
      BY <1>1, <1>4, <2>1, TooDeepStep DEF TestTooDeep
  <1>5. CASE \E depth \in 0 .. BooleanDepth : TestInterrupted(depth)
    <2>1. \/ Throw("interrupted")
          \/ Raises("swallowed") /\ \E result : Finish(result)
      BY <1>5 DEF TestInterrupted, Swallow, Raises
    <2>2. CASE Throw("interrupted")
      BY <1>1, <2>2, LeakingStep DEF Throw, Raises, thrown
    <2>3. CASE Raises("swallowed") /\ \E result : Finish(result)
      <3>1. ctl' \in {"idle", "return"}
        BY <1>1, <2>3, FinishCounts
      <3> QED
        BY <1>1, <2>3, <3>1, LeakingStep DEF thrown
    <2> QED
      BY <2>1, <2>2, <2>3
  <1> QED
    BY <1>3, <1>4, <1>5 DEF Test

\* Steps that leave the stack, the counter and the exceptions alone.
LEMMA OtherLeaks ==
    ASSUME IInv, LeakInv,
           \/ \E root \in Programs : Submit(root)
           \/ CloseEnvironment \/ Signal \/ ReadFlag \/ UNCHANGED vars
    PROVE  LeakInv'
  <1>1. UNCHANGED <<frames, recursionLevel, throws>>
    BY DEF Submit, CloseEnvironment, Signal, ReadFlag, vars, evaluation
  <1>2. HistoryType'
    BY <1>1 DEF LeakInv, HistoryType, Submit, CloseEnvironment, Signal, ReadFlag, vars
  <1>3. ctl' \in {"prepare", "test"} => ctl' = ctl
    BY DEF Submit, CloseEnvironment, Signal, ReadFlag, vars, evaluation, CallReduce1
  <1> QED
    BY <1>1, <1>2, <1>3 DEF LeakInv, Clean, Pending, top

\* Every step preserves the invariant for the counter.
LEMMA NextLeakInv == IInv /\ LeakInv /\ [Next]_vars => LeakInv'
  BY PollLeaks, ReturnToOperatorLeaks, ReturnToBodyLeaks, BuiltinLeaks, TestLeaks, OtherLeaks
  DEF Next, Evaluate

\* Until an exception other than that of too deep recursions is thrown, the
\* counter is the number of calls in progress, for all programs and limits.
THEOREM LeakTheorem == Spec => []LevelExactWithoutLeaks
  <1>1. LeakInv => LevelExactWithoutLeaks
    BY DEF LeakInv, LevelExactWithoutLeaks, Clean
  <1> QED
    BY <1>1, InitLeakInv, NextLeakInv, Inductive, PTL DEF Spec
=============================================================================
