------------------------- MODULE ShuntingYardProofs -------------------------
(***************************************************************************)
(* The stacks of parseExpression, for every set of texts and every list of *)
(* operators: no top() or pop() of the counts of operands meets an empty   *)
(* stack, and nothing inside of a parenthesis touches the operands before  *)
(* it.  The lemmas say what each push and pop does to one call, then to    *)
(* the stack of calls, then what each action does to the invariant.        *)
(***************************************************************************)
EXTENDS ShuntingYard, FiniteSetTheorems, SequenceTheorems, WellFoundedInduction, TLAPS

\* What a stack holds does not matter.
IsSequence(s) == \E S : s \in Seq(S)

\* What a push does to a stack.
LEMMA PushFacts ==
    ASSUME NEW s, IsSequence(s), NEW x
    PROVE  /\ IsSequence(Append(s, x))
           /\ Append(s, x) # <<>>
           /\ Len(s) \in Nat /\ Len(Append(s, x)) = Len(s) + 1
           /\ DOMAIN s = 1 .. Len(s) /\ DOMAIN Append(s, x) = 1 .. Len(s) + 1
           /\ \A i \in 1 .. Len(s) : Append(s, x)[i] = s[i]
           /\ Append(s, x)[Len(s) + 1] = x
           /\ Last(Append(s, x)) = x
           /\ Front(Append(s, x)) = s
  <1> DEFINE longer == Append(s, x)
  <1>1. PICK S : s \in Seq(S)
    BY DEF IsSequence
  <1> DEFINE T == S \cup {x}
  <1>2. s \in Seq(T) /\ x \in T
    BY <1>1, SeqMonotonic
  <1> HIDE DEF T
  <1>3. /\ longer \in Seq(T) /\ longer # <<>>
        /\ Len(longer) = Len(s) + 1
        /\ \A i \in 1 .. Len(s) : longer[i] = s[i]
        /\ longer[Len(s) + 1] = x
    BY <1>2, AppendProperties
  <1>4. /\ Len(s) \in Nat
        /\ DOMAIN s = 1 .. Len(s)
        /\ DOMAIN longer = 1 .. Len(s) + 1
    BY <1>2, <1>3, LenProperties
  <1> HIDE DEF longer
  <1>5. Last(longer) = x
    BY <1>3 DEF Last
  <1>6. /\ SubSeq(longer, 1, Len(s)) \in Seq(T)
        /\ Len(SubSeq(longer, 1, Len(s))) = IF 1 <= Len(s) THEN Len(s) - 1 + 1 ELSE 0
        /\ \A i \in 1 .. Len(s) - 1 + 1 : SubSeq(longer, 1, Len(s))[i] = longer[1 + i - 1]
    <2>1. \A i \in 1 .. Len(s) : longer[i] \in T
      BY <1>3, <1>4, ElementOfSeq
    <2> QED
      BY <2>1, <1>4, SubSeqProperties
  <1>7. /\ Len(SubSeq(longer, 1, Len(s))) = Len(s)
        /\ \A i \in 1 .. Len(s) : SubSeq(longer, 1, Len(s))[i] = s[i]
    BY <1>3, <1>4, <1>6
  <1>8. SubSeq(longer, 1, Len(s)) = s
    BY <1>2, <1>6, <1>7, SeqEqual
  <1>9. Front(longer) = s
    BY <1>3, <1>4, <1>8 DEF Front
  <1> QED
    BY <1>3, <1>4, <1>5, <1>9 DEF IsSequence, longer

\* What a pop does.
LEMMA PopFacts ==
    ASSUME NEW s, IsSequence(s), s # <<>>
    PROVE  /\ IsSequence(Front(s))
           /\ Len(s) \in Nat /\ Len(Front(s)) \in Nat /\ Len(s) = Len(Front(s)) + 1
           /\ DOMAIN s = 1 .. Len(s) /\ DOMAIN Front(s) = 1 .. Len(Front(s))
           /\ \A i \in 1 .. Len(Front(s)) : Front(s)[i] = s[i]
           /\ Last(s) = s[Len(s)]
           /\ Append(Front(s), Last(s)) = s
  <1>1. PICK S : s \in Seq(S)
    BY DEF IsSequence
  <1>2. PICK t \in Seq(S), x \in S : s = Append(t, x)
    BY <1>1, SequenceEmptyOrAppend
  <1>3. IsSequence(t)
    BY <1>2 DEF IsSequence
  <1>4. Front(s) = t /\ Last(s) = x
    BY <1>2, <1>3, PushFacts
  <1> QED
    BY <1>2, <1>3, <1>4, PushFacts

\* The empty stack.
LEMMA EmptyFacts == IsSequence(<<>>) /\ Len(<<>>) = 0 /\ DOMAIN <<>> = {}
  <1>1. <<>> \in Seq({})
    OBVIOUS
  <1> QED
    BY <1>1 DEF IsSequence

One(op1) == IF paren_P(op1) THEN 1 ELSE 0

\* A push of an operator counts if it is a parenthesis.
LEMMA ParensPush ==
    ASSUME NEW s, IsSequence(s), NEW op1
    PROVE  /\ ParensIn(s) \in Nat
           /\ ParensIn(Append(s, op1)) = ParensIn(s) + One(op1)
  <1> DEFINE longer == Append(s, op1)
             before == {i \in DOMAIN s : paren_P(s[i])}
             after == {i \in DOMAIN longer : paren_P(longer[i])}
  <1>1. /\ Len(s) \in Nat
        /\ DOMAIN s = 1 .. Len(s) /\ DOMAIN longer = 1 .. Len(s) + 1
        /\ \A i \in 1 .. Len(s) : longer[i] = s[i]
        /\ longer[Len(s) + 1] = op1
    BY PushFacts
  <1>2. IsFiniteSet(before)
    <2>1. IsFiniteSet(1 .. Len(s))
      BY <1>1, FS_Interval
    <2>2. before \in SUBSET (1 .. Len(s))
      BY <1>1
    <2> QED
      BY <2>1, <2>2, FS_Subset
  <1>3. Cardinality(before) \in Nat
    BY <1>2, FS_CardinalityType
  <1> HIDE DEF longer
  <1>4. after = IF paren_P(op1) THEN before \cup {Len(s) + 1} ELSE before
    BY <1>1
  <1>5. Len(s) + 1 \notin before
    BY <1>1
  <1>6. Cardinality(after) = Cardinality(before) + One(op1)
    <2>1. CASE paren_P(op1)
      BY <2>1, <1>2, <1>4, <1>5, FS_AddElement DEF One
    <2>2. CASE ~paren_P(op1)
      <3>1. after = before /\ One(op1) = 0
        BY <2>2, <1>4 DEF One
      <3> HIDE DEF before, after
      <3> QED
        BY <3>1, <1>3
    <2> QED
      BY <2>1, <2>2
  <1> QED
    BY <1>3, <1>6 DEF ParensIn, longer

\* A pop takes it away again.
LEMMA ParensPop ==
    ASSUME NEW s, IsSequence(s), s # <<>>
    PROVE  /\ ParensIn(Front(s)) \in Nat
           /\ ParensIn(s) = ParensIn(Front(s)) + One(Last(s))
  BY PopFacts, ParensPush

\* No operator, no parenthesis.
LEMMA ParensEmpty == ParensIn(<<>>) = 0
  <1>1. {i \in DOMAIN <<>> : paren_P(<<>>[i])} = {}
    BY EmptyFacts
  <1> QED
    BY <1>1, FS_EmptySet DEF ParensIn

-----------------------------------------------------------------------------
(* One call of parseExpression                                             *)

ExpressionOf(operators, operands, counts, v, terminator) ==
    [call |-> "parseExpression", fOperators |-> operators, fOperands |-> operands,
     fOperandCounts |-> counts, value |-> v, terminator |-> terminator]

ExpressionCall(f) == \E operators, operands, counts, v, terminator :
    f = ExpressionOf(operators, operands, counts, v, terminator)

\* f is a call with these stacks and this token in hand.
Has(f, operators, operands, counts, v) ==
    /\ ExpressionCall(f)
    /\ f.fOperators = operators /\ f.fOperands = operands
    /\ f.fOperandCounts = counts /\ f.value = v

GoodCall(f, ending) ==
    /\ ExpressionCall(f)
    /\ IsSequence(f.fOperators) /\ IsSequence(f.fOperands)
    /\ f.fOperandCounts \in Seq(Nat)
    /\ ParensCounted(f, ending)
    /\ OperandsNested(f)

\* g has all operands of f from before the innermost open parenthesis.
Keeps(f, g) ==
    \A k \in 1 .. Last(f.fOperandCounts) :
        k \in DOMAIN g.fOperands /\ g.fOperands[k] = f.fOperands[k]

\* The fields of a call.
LEMMA FieldsOf ==
    ASSUME NEW operators, NEW operands, NEW counts, NEW v, NEW terminator
    PROVE  /\ Has(ExpressionOf(operators, operands, counts, v, terminator),
                  operators, operands, counts, v)
           /\ ExpressionOf(operators, operands, counts, v, terminator).call = "parseExpression"
  <1> DEFINE f == ExpressionOf(operators, operands, counts, v, terminator)
  <1>1. ExpressionCall(f)
    BY DEF ExpressionCall
  <1>2. /\ f.fOperators = operators /\ f.fOperands = operands
        /\ f.fOperandCounts = counts /\ f.value = v /\ f.call = "parseExpression"
    BY DEF ExpressionOf
  <1> QED
    BY <1>1, <1>2 DEF Has

\* An assignment to some of the stacks leaves the rest.
LEMMA FieldFacts ==
    ASSUME NEW f, ExpressionCall(f), NEW x, NEW y
    PROVE  /\ f.call = "parseExpression"
           /\ Has([f EXCEPT !.fOperators = x], x, f.fOperands, f.fOperandCounts, f.value)
           /\ Has([f EXCEPT !.fOperands = x], f.fOperators, x, f.fOperandCounts, f.value)
           /\ Has([f EXCEPT !.value = x], f.fOperators, f.fOperands, f.fOperandCounts, x)
           /\ Has([f EXCEPT !.fOperators = x, !.fOperands = y], x, y, f.fOperandCounts, f.value)
           /\ Has([f EXCEPT !.fOperandCounts = x], f.fOperators, f.fOperands, x, f.value)
           /\ Has([f EXCEPT !.fOperators = x, !.fOperandCounts = y], x, f.fOperands, y, f.value)
  <1>1. PICK operators, operands, counts, v, terminator :
            f = ExpressionOf(operators, operands, counts, v, terminator)
    BY DEF ExpressionCall
  <1>2. Has(f, operators, operands, counts, v) /\ f.call = "parseExpression"
    BY <1>1, FieldsOf
  <1>3. [f EXCEPT !.fOperators = x] = ExpressionOf(x, operands, counts, v, terminator)
    BY <1>1 DEF ExpressionOf
  <1>4. [f EXCEPT !.fOperands = x] = ExpressionOf(operators, x, counts, v, terminator)
    BY <1>1 DEF ExpressionOf
  <1>5. [f EXCEPT !.value = x] = ExpressionOf(operators, operands, counts, x, terminator)
    BY <1>1 DEF ExpressionOf
  <1>6. [f EXCEPT !.fOperators = x, !.fOperands = y] = ExpressionOf(x, y, counts, v, terminator)
    <2>1. [ExpressionOf(x, operands, counts, v, terminator) EXCEPT !.fOperands = y] =
              ExpressionOf(x, y, counts, v, terminator)
      BY DEF ExpressionOf
    <2>2. [f EXCEPT !.fOperators = x, !.fOperands = y] =
              [[f EXCEPT !.fOperators = x] EXCEPT !.fOperands = y]
      OBVIOUS
    <2> QED
      BY <1>3, <2>1, <2>2
  <1>7. [f EXCEPT !.fOperators = x, !.fOperandCounts = y] =
            ExpressionOf(x, operands, y, v, terminator)
    <2>1. [ExpressionOf(x, operands, counts, v, terminator) EXCEPT !.fOperandCounts = y] =
              ExpressionOf(x, operands, y, v, terminator)
      BY DEF ExpressionOf
    <2>2. [f EXCEPT !.fOperators = x, !.fOperandCounts = y] =
              [[f EXCEPT !.fOperators = x] EXCEPT !.fOperandCounts = y]
      OBVIOUS
    <2> QED
      BY <1>3, <2>1, <2>2
  <1>9. [f EXCEPT !.fOperandCounts = x] = ExpressionOf(operators, operands, x, v, terminator)
    BY <1>1 DEF ExpressionOf
  <1>8. /\ f.fOperators = operators /\ f.fOperands = operands
        /\ f.fOperandCounts = counts /\ f.value = v
    BY <1>2 DEF Has
  <1> QED
    BY <1>2, <1>3, <1>4, <1>5, <1>6, <1>7, <1>8, <1>9, FieldsOf

\* There is a count to look at, and it is at most the number of operands.
LEMMA CountFacts ==
    ASSUME NEW f, NEW ending \in BOOLEAN, GoodCall(f, ending)
    PROVE  /\ f.fOperandCounts # <<>>
           /\ IsSequence(f.fOperandCounts)
           /\ Last(f.fOperandCounts) \in Nat
           /\ Len(f.fOperands) \in Nat
           /\ Last(f.fOperandCounts) <= Len(f.fOperands)
           /\ DOMAIN f.fOperands = 1 .. Len(f.fOperands)
  <1>1. IsSequence(f.fOperandCounts)
    BY DEF GoodCall, IsSequence
  <1>2. ParensIn(f.fOperators) \in Nat
    BY ParensPush DEF GoodCall
  <1>3. Len(f.fOperandCounts) \in Nat /\ Len(f.fOperandCounts) >= 1
    BY <1>1, <1>2, PushFacts DEF GoodCall, ParensCounted
  <1>4. f.fOperandCounts # <<>>
    BY <1>3, EmptyFacts
  <1>5. Last(f.fOperandCounts) = f.fOperandCounts[Len(f.fOperandCounts)]
        /\ Len(f.fOperandCounts) \in DOMAIN f.fOperandCounts
    BY <1>1, <1>3, <1>4, PopFacts
  <1>6. Len(f.fOperands) \in Nat /\ DOMAIN f.fOperands = 1 .. Len(f.fOperands)
    BY PushFacts DEF GoodCall
  <1> QED
    BY <1>1, <1>4, <1>5, <1>6 DEF GoodCall, OperandsNested

\* Operands may be pushed and exchanged above the innermost count.
LEMMA OperandsChanged ==
    ASSUME NEW f, NEW ending \in BOOLEAN, GoodCall(f, ending),
           NEW g, g.fOperandCounts = f.fOperandCounts,
           IsSequence(g.fOperands), Len(g.fOperands) >= Last(f.fOperandCounts)
    PROVE  OperandsNested(g)
  <1>1. /\ IsSequence(f.fOperandCounts) /\ f.fOperandCounts # <<>>
        /\ Last(f.fOperandCounts) \in Nat
    BY CountFacts
  <1>2. /\ Last(f.fOperandCounts) = f.fOperandCounts[Len(f.fOperandCounts)]
        /\ Len(f.fOperandCounts) \in DOMAIN f.fOperandCounts
        /\ \A i \in DOMAIN f.fOperandCounts : i <= Len(f.fOperandCounts)
    BY <1>1, PopFacts
  <1>3. \A i \in DOMAIN f.fOperandCounts : f.fOperandCounts[i] <= Last(f.fOperandCounts)
    BY <1>2 DEF GoodCall, OperandsNested
  <1>4. \A i \in DOMAIN f.fOperandCounts : f.fOperandCounts[i] \in Nat
    BY <1>1, PopFacts DEF GoodCall, OperandsNested
  <1>5. Len(g.fOperands) \in Nat
    BY PushFacts
  <1> QED
    BY <1>1, <1>3, <1>4, <1>5 DEF GoodCall, OperandsNested

\* The token in hand is not part of the stacks.
LEMMA ValueChanged ==
    ASSUME NEW f, NEW ending \in BOOLEAN, GoodCall(f, ending), NEW v
    PROVE  /\ GoodCall([f EXCEPT !.value = v], ending)
           /\ [f EXCEPT !.value = v].value = v
           /\ Keeps(f, [f EXCEPT !.value = v])
  <1> DEFINE g == [f EXCEPT !.value = v]
  <1>0. Has(g, f.fOperators, f.fOperands, f.fOperandCounts, v)
    BY FieldFacts DEF GoodCall
  <1>1. /\ ExpressionCall(g) /\ g.value = v
        /\ g.fOperators = f.fOperators /\ g.fOperands = f.fOperands
        /\ g.fOperandCounts = f.fOperandCounts
    BY <1>0 DEF Has
  <1> HIDE DEF g
  <1>2. OperandsNested(g) /\ ParensCounted(g, ending)
    BY <1>1 DEF GoodCall, OperandsNested, ParensCounted
  <1>3. Keeps(f, g)
    <2>1. /\ Last(f.fOperandCounts) \in Nat /\ Len(f.fOperands) \in Nat
          /\ Last(f.fOperandCounts) <= Len(f.fOperands)
          /\ DOMAIN f.fOperands = 1 .. Len(f.fOperands)
      BY CountFacts
    <2> QED
      BY <1>1, <2>1 DEF Keeps
  <1> QED
    BY <1>1, <1>2, <1>3 DEF GoodCall, g

\* An operator that is no parenthesis is pushed (EndOperator, EndPrefix).
LEMMA OperatorPushed ==
    ASSUME NEW f, GoodCall(f, FALSE), NEW op1, ~paren_P(op1)
    PROVE  GoodCall(pushedOperator(f, op1), FALSE) /\ Keeps(f, pushedOperator(f, op1))
  <1> DEFINE g == pushedOperator(f, op1)
  <1>1. /\ ExpressionCall(g)
        /\ g.fOperators = Append(f.fOperators, op1) /\ g.fOperands = f.fOperands
        /\ g.fOperandCounts = f.fOperandCounts
    <2>1. Has(g, Append(f.fOperators, op1), f.fOperands, f.fOperandCounts, f.value)
      BY FieldFacts DEF GoodCall, pushedOperator
    <2> QED
      BY <2>1 DEF Has
  <1> HIDE DEF g
  <1>2. IsSequence(g.fOperators) /\ ParensIn(g.fOperators) = ParensIn(f.fOperators)
    BY <1>1, PushFacts, ParensPush DEF GoodCall, One
  <1>3. OperandsNested(g) /\ ParensCounted(g, FALSE)
    BY <1>1, <1>2 DEF GoodCall, OperandsNested, ParensCounted
  <1>4. Keeps(f, g)
    <2>1. /\ Last(f.fOperandCounts) \in Nat /\ Len(f.fOperands) \in Nat
          /\ Last(f.fOperandCounts) <= Len(f.fOperands)
          /\ DOMAIN f.fOperands = 1 .. Len(f.fOperands)
      BY CountFacts
    <2> QED
      BY <1>1, <2>1 DEF Keeps
  <1> QED
    BY <1>1, <1>2, <1>3, <1>4 DEF GoodCall, g

\* An operand is pushed.
LEMMA OperandPushed ==
    ASSUME NEW f, NEW ending \in BOOLEAN, GoodCall(f, ending), NEW node
    PROVE  GoodCall(pushedOperand(f, node), ending) /\ Keeps(f, pushedOperand(f, node))
  <1> DEFINE g == pushedOperand(f, node)
  <1>1. /\ ExpressionCall(g)
        /\ g.fOperators = f.fOperators /\ g.fOperands = Append(f.fOperands, node)
        /\ g.fOperandCounts = f.fOperandCounts
    <2>1. Has(g, f.fOperators, Append(f.fOperands, node), f.fOperandCounts, f.value)
      BY FieldFacts DEF GoodCall, pushedOperand
    <2> QED
      BY <2>1 DEF Has
  <1> HIDE DEF g
  <1>2. /\ IsSequence(g.fOperands) /\ Len(g.fOperands) = Len(f.fOperands) + 1
        /\ DOMAIN g.fOperands = 1 .. Len(f.fOperands) + 1
        /\ \A i \in 1 .. Len(f.fOperands) : g.fOperands[i] = f.fOperands[i]
    BY <1>1, PushFacts DEF GoodCall
  <1>3. /\ Last(f.fOperandCounts) \in Nat /\ Len(f.fOperands) \in Nat
        /\ Last(f.fOperandCounts) <= Len(f.fOperands)
    BY CountFacts
  <1>4. OperandsNested(g)
    <2>1. Len(g.fOperands) >= Last(f.fOperandCounts)
      BY <1>2, <1>3
    <2> QED
      BY <1>1, <1>2, <2>1, OperandsChanged
  <1>5. ParensCounted(g, ending)
    BY <1>1 DEF GoodCall, ParensCounted
  <1>6. Keeps(f, g)
    BY <1>2, <1>3 DEF Keeps
  <1> QED
    BY <1>1, <1>2, <1>4, <1>5, <1>6 DEF GoodCall, g

\* A parenthesis is opened: the operands so far are before it.
LEMMA ParenOpened ==
    ASSUME NEW f, GoodCall(f, FALSE), NEW token \in openers
    PROVE  GoodCall(opened(f, token), FALSE) /\ Keeps(f, opened(f, token))
  <1> DEFINE g == opened(f, token)
             count == Len(f.fOperands)
  <1>1. /\ ExpressionCall(g)
        /\ g.fOperators = Append(f.fOperators, Plain(token)) /\ g.fOperands = f.fOperands
        /\ g.fOperandCounts = Append(f.fOperandCounts, count)
    <2>1. Has(pushedOperator(f, Plain(token)), Append(f.fOperators, Plain(token)),
              f.fOperands, f.fOperandCounts, f.value)
      BY FieldFacts DEF GoodCall, pushedOperator
    <2>2. opened(f, token) =
              [pushedOperator(f, Plain(token)) EXCEPT !.fOperandCounts = Append(f.fOperandCounts, count)]
      BY <2>1 DEF Has, opened
    <2>3. Has(g, Append(f.fOperators, Plain(token)), f.fOperands,
              Append(f.fOperandCounts, count), f.value)
      <3> DEFINE p == pushedOperator(f, Plain(token))
      <3>1. ExpressionCall(p)
        BY <2>1 DEF Has
      <3> HIDE DEF p
      <3>2. \A x : Has([p EXCEPT !.fOperandCounts = x], p.fOperators, p.fOperands, x, p.value)
        BY <3>1, FieldFacts
      <3> QED
        BY <2>1, <2>2, <3>2 DEF Has, p, g
    <2> QED
      BY <2>3 DEF Has
  <1> HIDE DEF g
  <1>2. paren_P(Plain(token))
    BY DEF paren_P, Plain
  <1>3. IsSequence(g.fOperators) /\ ParensIn(g.fOperators) = ParensIn(f.fOperators) + 1
    BY <1>1, <1>2, PushFacts, ParensPush DEF GoodCall, One
  <1>4. /\ IsSequence(f.fOperandCounts) /\ count \in Nat
        /\ Last(f.fOperandCounts) \in Nat /\ Last(f.fOperandCounts) <= count
        /\ DOMAIN f.fOperands = 1 .. count
    BY CountFacts
  <1>5. /\ Len(f.fOperandCounts) \in Nat
        /\ Len(g.fOperandCounts) = Len(f.fOperandCounts) + 1
        /\ DOMAIN f.fOperandCounts = 1 .. Len(f.fOperandCounts)
        /\ DOMAIN g.fOperandCounts = 1 .. Len(f.fOperandCounts) + 1
        /\ \A i \in 1 .. Len(f.fOperandCounts) : g.fOperandCounts[i] = f.fOperandCounts[i]
        /\ g.fOperandCounts[Len(f.fOperandCounts) + 1] = count
    BY <1>1, <1>4, PushFacts
  <1>6. g.fOperandCounts \in Seq(Nat)
    BY <1>1, <1>4, AppendProperties DEF GoodCall
  <1>7. OperandsNested(g)
    <2> USE <1>4, <1>5
    <2>1. \A i \in DOMAIN f.fOperandCounts : f.fOperandCounts[i] \in 0 .. count
      BY DEF GoodCall, OperandsNested
    <2>2. \A i, j \in DOMAIN f.fOperandCounts : i <= j => f.fOperandCounts[i] <= f.fOperandCounts[j]
      BY DEF GoodCall, OperandsNested
    <2>3. \A i \in DOMAIN g.fOperandCounts : g.fOperandCounts[i] \in 0 .. count
      BY <2>1
    <2>4. ASSUME NEW i \in DOMAIN g.fOperandCounts, NEW j \in DOMAIN g.fOperandCounts, i <= j
          PROVE  g.fOperandCounts[i] <= g.fOperandCounts[j]
      <3>1. CASE j = Len(f.fOperandCounts) + 1
        BY <3>1, <2>3, <2>4
      <3>2. CASE j # Len(f.fOperandCounts) + 1
        BY <3>2, <2>2, <2>4
      <3> QED
        BY <3>1, <3>2
    <2> QED
      BY <2>3, <2>4, <1>1 DEF OperandsNested
  <1>8. ParensCounted(g, FALSE)
    BY <1>3, <1>5, ParensPush DEF GoodCall, ParensCounted
  <1>9. Keeps(f, g)
    BY <1>1, <1>4 DEF Keeps
  <1> QED
    BY <1>1, <1>3, <1>6, <1>7, <1>8, <1>9 DEF GoodCall, g

\* An operator is popped: a parenthesis only at the end of the text, when its
\* count may stay.
LEMMA OperatorPopped ==
    ASSUME NEW f, NEW ending \in BOOLEAN, GoodCall(f, ending), f.fOperators # <<>>,
           ending \/ ~paren_P(Last(f.fOperators)),
           NEW g, Has(g, Front(f.fOperators), f.fOperands, f.fOperandCounts, f.value)
    PROVE  GoodCall(g, ending)
  <1>1. /\ IsSequence(g.fOperators)
        /\ ParensIn(g.fOperators) \in Nat
        /\ ParensIn(f.fOperators) = ParensIn(g.fOperators) + One(Last(f.fOperators))
    BY PopFacts, ParensPop DEF GoodCall, Has
  <1>2. Len(f.fOperandCounts) \in Nat
    BY CountFacts, PushFacts
  <1>3. ParensCounted(g, ending)
    BY <1>1, <1>2 DEF GoodCall, Has, ParensCounted, One
  <1>4. OperandsNested(g)
    BY DEF GoodCall, Has, OperandsNested
  <1> QED
    BY <1>1, <1>3, <1>4 DEF GoodCall, Has

\* SCOPERANDS makes an operand of the operator on top.
LEMMA SectionMade ==
    ASSUME NEW f, NEW ending \in BOOLEAN, GoodCall(f, ending), section_P(f)
    PROVE  /\ GoodCall(sectioned(f), ending) /\ Keeps(f, sectioned(f))
           /\ sectioned(f).value = f.value
  <1> DEFINE p == pushedOperand(f, Symbol(Last(f.fOperators).operator))
             g == sectioned(f)
  <1>1. GoodCall(p, ending) /\ Keeps(f, p)
    BY OperandPushed
  <1>2. p.fOperators = f.fOperators /\ p.value = f.value
    <2>1. \A x : Has([f EXCEPT !.fOperands = x], f.fOperators, x, f.fOperandCounts, f.value)
      BY FieldFacts DEF GoodCall
    <2> QED
      BY <2>1 DEF Has, pushedOperand
  <1>3. g = [p EXCEPT !.fOperators = Front(p.fOperators)]
    BY DEF sectioned
  <1> HIDE DEF p, g
  <1>4. Has(g, Front(p.fOperators), p.fOperands, p.fOperandCounts, p.value)
    BY <1>1, <1>3, FieldFacts DEF GoodCall
  <1>5. p.fOperators # <<>> /\ ~paren_P(Last(p.fOperators))
    BY <1>2 DEF section_P
  <1>6. GoodCall(g, ending)
    BY <1>1, <1>4, <1>5, OperatorPopped
  <1>7. Keeps(f, g)
    BY <1>1, <1>4 DEF Keeps, Has
  <1> QED
    BY <1>2, <1>4, <1>6, <1>7 DEF Has, g

\* CONSUME_OPERATION takes its operands from above the innermost count.
LEMMA OperationConsumed ==
    ASSUME NEW f, NEW ending \in BOOLEAN, GoodCall(f, ending), f.fOperators # <<>>,
           ending \/ ~paren_P(Last(f.fOperators)), reducible_P(f)
    PROVE  /\ GoodCall(consumed(f), ending) /\ Keeps(f, consumed(f))
           /\ consumed(f).value = f.value
  <1> DEFINE op1 == Last(f.fOperators)
             b == Last(f.fOperands)
             fewer == Front(f.fOperands)
             n == Len(f.fOperands)
             count == Last(f.fOperandCounts)
             g == consumed(f)
             p == [f EXCEPT !.fOperators = Front(f.fOperators)]
  <1>1. /\ n \in Nat /\ count \in Nat /\ count + 1 <= n
        /\ ~op1.standin /\ available(f) # 1 => count + 2 <= n
    BY CountFacts DEF reducible_P, available
  <1>2. /\ IsSequence(f.fOperands) /\ f.fOperands # <<>>
        /\ DOMAIN f.fOperands = 1 .. n
    BY <1>1, CountFacts, EmptyFacts DEF GoodCall
  <1>3. /\ IsSequence(fewer) /\ Len(fewer) = n - 1
        /\ \A i \in 1 .. n - 1 : fewer[i] = f.fOperands[i]
    <2>1. /\ IsSequence(fewer) /\ n = Len(fewer) + 1 /\ Len(fewer) \in Nat
          /\ \A i \in 1 .. Len(fewer) : fewer[i] = f.fOperands[i]
      BY <1>2, PopFacts
    <2> HIDE DEF fewer, n
    <2> QED
      BY <2>1
  <1>4. \A x : LET longer == Append(fewer, x)
               IN  /\ IsSequence(longer) /\ Len(longer) >= count
                   /\ \A i \in 1 .. count : i \in DOMAIN longer /\ longer[i] = f.fOperands[i]
    <2> TAKE x
    <2> DEFINE longer == Append(fewer, x)
    <2>1. /\ IsSequence(longer) /\ Len(longer) = Len(fewer) + 1
          /\ DOMAIN longer = 1 .. Len(fewer) + 1
          /\ \A i \in 1 .. Len(fewer) : longer[i] = fewer[i]
      BY <1>3, PushFacts
    <2> HIDE DEF longer, fewer, n, count
    <2> QED
      BY <1>1, <1>3, <2>1 DEF longer
  <1>5. ASSUME count + 2 <= n
        PROVE  \A x : LET longer == Append(Front(fewer), x)
                      IN  /\ IsSequence(longer) /\ Len(longer) >= count
                          /\ \A i \in 1 .. count :
                                 i \in DOMAIN longer /\ longer[i] = f.fOperands[i]
    <2> TAKE x
    <2> DEFINE longer == Append(Front(fewer), x)
               fewest == Front(fewer)
    <2>1. fewer # <<>>
      BY <1>1, <1>3, <1>5, EmptyFacts
    <2>2. /\ IsSequence(fewest) /\ Len(fewest) = n - 2
          /\ \A i \in 1 .. n - 2 : fewest[i] = f.fOperands[i]
      <3>1. /\ IsSequence(fewest) /\ Len(fewer) = Len(fewest) + 1 /\ Len(fewest) \in Nat
            /\ \A i \in 1 .. Len(fewest) : fewest[i] = fewer[i]
        BY <1>3, <2>1, PopFacts
      <3> HIDE DEF fewest, fewer, n
      <3> QED
        BY <1>1, <1>3, <3>1
    <2>3. /\ IsSequence(longer) /\ Len(longer) = Len(fewest) + 1
          /\ DOMAIN longer = 1 .. Len(fewest) + 1
          /\ \A i \in 1 .. Len(fewest) : longer[i] = fewest[i]
      BY <2>2, PushFacts
    <2> HIDE DEF longer, fewest, n, count
    <2> QED
      BY <1>1, <1>5, <2>2, <2>3 DEF longer, fewest
  <1>6. PICK operands :
            /\ g = [f EXCEPT !.fOperators = Front(f.fOperators), !.fOperands = operands]
            /\ IsSequence(operands) /\ Len(operands) >= count
            /\ \A i \in 1 .. count : i \in DOMAIN operands /\ operands[i] = f.fOperands[i]
    <2>1. CASE op1.standin
      <3>1. g = [f EXCEPT !.fOperators = Front(f.fOperators),
                          !.fOperands = Append(fewer, expand_macro(op1, b))]
        BY <2>1 DEF consumed
      <3> QED
        BY <3>1, <1>4
    <2>2. CASE ~op1.standin /\ available(f) = 1
      <3>1. g = [f EXCEPT !.fOperators = Front(f.fOperators),
                          !.fOperands = Append(fewer, makeOperationDot(op1.operator, Symbol("0"), b))]
        BY <2>2 DEF consumed
      <3> QED
        BY <3>1, <1>4
    <2>3. CASE ~op1.standin /\ available(f) # 1
      <3>1. g = [f EXCEPT !.fOperators = Front(f.fOperators),
                          !.fOperands = Append(Front(fewer),
                                               makeOperationDot(op1.operator, Last(fewer), b))]
        BY <2>3 DEF consumed
      <3> QED
        BY <3>1, <2>3, <1>1, <1>5
    <2> QED
      BY <2>1, <2>2, <2>3
  <1> HIDE DEF g
  <1>7. Has(g, Front(f.fOperators), operands, f.fOperandCounts, f.value)
    BY <1>6, FieldFacts DEF GoodCall
  <1>8. GoodCall(p, ending) /\ Has(p, Front(f.fOperators), f.fOperands, f.fOperandCounts, f.value)
    <2>1. Has(p, Front(f.fOperators), f.fOperands, f.fOperandCounts, f.value)
      BY FieldFacts DEF GoodCall
    <2> QED
      BY <2>1, OperatorPopped
  <1> HIDE DEF p
  <1>9. OperandsNested(g)
    <2>1. g.fOperandCounts = p.fOperandCounts /\ g.fOperands = operands
          /\ p.fOperandCounts = f.fOperandCounts
      BY <1>7, <1>8 DEF Has
    <2> QED
      BY <2>1, <1>6, <1>8, OperandsChanged
  <1>10. GoodCall(g, ending)
    BY <1>6, <1>7, <1>8, <1>9 DEF GoodCall, Has, ParensCounted
  <1>11. Keeps(f, g)
    BY <1>6, <1>7 DEF Keeps, Has
  <1> QED
    BY <1>7, <1>10, <1>11 DEF Has, g

\* A parenthesis is closed: it and its count go together.
LEMMA ParenClosed ==
    ASSUME NEW f, GoodCall(f, FALSE), f.fOperators # <<>>, paren_P(Last(f.fOperators))
    PROVE  GoodCall(closed(f), FALSE) /\ Keeps(f, closed(f))
  <1> DEFINE g == closed(f)
             counts == f.fOperandCounts
             fewer == Front(f.fOperandCounts)
  <1>1. Has(g, Front(f.fOperators), f.fOperands, fewer, f.value)
    BY FieldFacts DEF GoodCall, closed
  <1> HIDE DEF g
  <1>2. /\ IsSequence(g.fOperators)
        /\ ParensIn(g.fOperators) \in Nat
        /\ ParensIn(f.fOperators) = ParensIn(g.fOperators) + 1
    BY <1>1, PopFacts, ParensPop DEF GoodCall, Has, One
  <1>3. /\ counts # <<>> /\ IsSequence(counts)
        /\ Last(counts) \in Nat /\ Len(f.fOperands) \in Nat
        /\ Last(counts) <= Len(f.fOperands)
        /\ DOMAIN f.fOperands = 1 .. Len(f.fOperands)
    BY CountFacts
  <1>4. /\ IsSequence(fewer) /\ Len(counts) = Len(fewer) + 1 /\ Len(fewer) \in Nat
        /\ DOMAIN fewer = 1 .. Len(fewer) /\ DOMAIN counts = 1 .. Len(counts)
        /\ \A i \in 1 .. Len(fewer) : fewer[i] = counts[i]
    BY <1>3, PopFacts
  <1>5. fewer \in Seq(Nat)
    <2>1. \A i \in DOMAIN counts : counts[i] \in Nat
      BY <1>3 DEF GoodCall, OperandsNested
    <2>2. \A i \in 1 .. Len(fewer) : fewer[i] \in Nat
      BY <1>4, <2>1
    <2>3. PICK S : fewer \in Seq(S)
      BY <1>4 DEF IsSequence
    <2> QED
      BY <2>2, <2>3, SeqDef, LenProperties
  <1>6. ParensCounted(g, FALSE)
    BY <1>1, <1>2, <1>4 DEF GoodCall, Has, ParensCounted
  <1>7. OperandsNested(g)
    <2>1. \A i \in DOMAIN fewer : i \in DOMAIN counts /\ fewer[i] = counts[i]
      BY <1>4
    <2> HIDE DEF fewer, counts
    <2> QED
      BY <1>1, <2>1 DEF GoodCall, Has, OperandsNested, counts
  <1>8. Keeps(f, g)
    BY <1>1, <1>3 DEF Keeps, Has
  <1> QED
    BY <1>1, <1>2, <1>5, <1>6, <1>7, <1>8 DEF GoodCall, Has, g

\* What is good in the middle of a text is good at its end.
LEMMA EndReached ==
    ASSUME NEW f, GoodCall(f, FALSE)
    PROVE  GoodCall(f, TRUE)
  BY ParensPush DEF GoodCall, ParensCounted

\* A call of parseExpression begins with no operators, no operands and one count.
LEMMA CallBegun ==
    ASSUME NEW terminator
    PROVE  GoodCall(Expression(terminator), FALSE) /\ Expression(terminator).call = "parseExpression"
  <1> DEFINE f == Expression(terminator)
  <1>1. f = ExpressionOf(<<>>, <<>>, <<0>>, "(", terminator)
    BY DEF Expression, ExpressionOf
  <1>2. Has(f, <<>>, <<>>, <<0>>, "(") /\ f.call = "parseExpression"
    BY <1>1, FieldsOf
  <1> HIDE DEF f
  <1>3. /\ <<0>> \in Seq(Nat) /\ Len(<<0>>) = 1 /\ DOMAIN <<0>> = {1} /\ <<0>>[1] = 0
    OBVIOUS
  <1>4. ParensCounted(f, FALSE)
    BY <1>2, <1>3, ParensEmpty DEF Has, ParensCounted
  <1>5. OperandsNested(f)
    BY <1>2, <1>3, EmptyFacts DEF Has, OperandsNested
  <1> QED
    BY <1>2, <1>3, <1>4, <1>5, EmptyFacts DEF GoodCall, Has, f

-----------------------------------------------------------------------------
(* The calls in progress                                                   *)

\* A macro that waits for a value; let does not read parentheses as its keyword.
GoodMacro(f) ==
    \/ \E form, trees : f = [call |-> "list", form |-> form, elements |-> trees]
    \/ f = [call |-> "quote"]
    \/ \E operator, parameter :
           /\ operator \notin openers
           /\ f = [call |-> "let", operator |-> operator, parameter |-> parameter]
    \/ \E symbols : f = [call |-> "import", symbols |-> symbols]

GoodFrame(f, ending) == GoodCall(f, ending) \/ GoodMacro(f)

\* let and import push a stand-in into the call of parseExpression below them.
binder_P(f) == f.call \in {"let", "import"} \/ (f.call = "list" /\ f.form = "import")

GoodStack(stack, ending) ==
    /\ IsSequence(stack)
    /\ \A i \in DOMAIN stack : GoodFrame(stack[i], ending /\ i = Len(stack))
    /\ \A i \in DOMAIN stack :
           binder_P(stack[i]) => i > 1 /\ stack[i - 1].call = "parseExpression"

\* Frames are told apart by call.
LEMMA FrameFacts ==
    ASSUME NEW f, NEW ending, GoodFrame(f, ending)
    PROVE  /\ f.call = "parseExpression" => GoodCall(f, ending) /\ ~binder_P(f)
           /\ f.call # "parseExpression" => GoodMacro(f)
  <1>1. CASE GoodCall(f, ending)
    <2>1. f.call = "parseExpression"
      BY <1>1, FieldFacts DEF GoodCall
    <2> QED
      BY <1>1, <2>1 DEF binder_P
  <1>2. CASE GoodMacro(f)
    <2>1. f.call # "parseExpression"
      BY <1>2 DEF GoodMacro
    <2> QED
      BY <1>2, <2>1
  <1> QED
    BY <1>1, <1>2 DEF GoodFrame

\* A call is pushed.
LEMMA FramePushed ==
    ASSUME NEW stack, GoodStack(stack, FALSE), NEW f, NEW ending \in BOOLEAN,
           GoodFrame(f, ending),
           binder_P(f) => stack # <<>> /\ Last(stack).call = "parseExpression"
    PROVE  /\ GoodStack(Append(stack, f), ending)
           /\ Append(stack, f) # <<>> /\ Last(Append(stack, f)) = f
           /\ Front(Append(stack, f)) = stack
           /\ Len(Append(stack, f)) = Len(stack) + 1 /\ Len(stack) \in Nat
  <1> DEFINE longer == Append(stack, f)
  <1>1. /\ IsSequence(longer) /\ longer # <<>> /\ Last(longer) = f /\ Front(longer) = stack
        /\ Len(stack) \in Nat /\ Len(longer) = Len(stack) + 1
        /\ DOMAIN stack = 1 .. Len(stack) /\ DOMAIN longer = 1 .. Len(stack) + 1
        /\ \A i \in 1 .. Len(stack) : longer[i] = stack[i]
        /\ longer[Len(stack) + 1] = f
    BY PushFacts DEF GoodStack
  <1> HIDE DEF longer
  <1>2. \A i \in DOMAIN longer : GoodFrame(longer[i], ending /\ i = Len(longer))
    <2> TAKE i \in DOMAIN longer
    <2>1. CASE i = Len(stack) + 1
      BY <1>1, <2>1
    <2>2. CASE i # Len(stack) + 1
      <3>1. i \in DOMAIN stack /\ longer[i] = stack[i]
        BY <1>1, <2>2
      <3>2. GoodFrame(stack[i], FALSE /\ i = Len(stack))
        BY <3>1 DEF GoodStack
      <3>3. (FALSE /\ i = Len(stack)) = FALSE /\ (ending /\ i = Len(longer)) = FALSE
        BY <1>1, <2>2
      <3> QED
        BY <3>1, <3>2, <3>3
    <2> QED
      BY <2>1, <2>2
  <1>3. ASSUME NEW i \in DOMAIN longer, binder_P(longer[i])
        PROVE  i > 1 /\ longer[i - 1].call = "parseExpression"
    <2>1. CASE i = Len(stack) + 1
      <3>1. stack # <<>> /\ Last(stack).call = "parseExpression"
        BY <1>1, <1>3, <2>1
      <3>2. Len(stack) >= 1 /\ Last(stack) = stack[Len(stack)]
        BY <3>1, <1>1, PopFacts DEF GoodStack
      <3> QED
        BY <1>1, <2>1, <3>1, <3>2
    <2>2. CASE i # Len(stack) + 1
      BY <1>1, <1>3, <2>2 DEF GoodStack
    <2> QED
      BY <2>1, <2>2
  <1> QED
    BY <1>1, <1>2, <1>3 DEF GoodStack, longer

\* A call returns.
LEMMA FramePopped ==
    ASSUME NEW stack, NEW ending \in BOOLEAN, GoodStack(stack, ending), stack # <<>>
    PROVE  /\ GoodStack(Front(stack), FALSE)
           /\ GoodFrame(Last(stack), ending)
           /\ binder_P(Last(stack)) =>
                  Front(stack) # <<>> /\ Last(Front(stack)).call = "parseExpression"
           /\ Len(stack) = Len(Front(stack)) + 1 /\ Len(Front(stack)) \in Nat
  <1> DEFINE shorter == Front(stack)
  <1>1. /\ IsSequence(shorter) /\ Len(stack) = Len(shorter) + 1 /\ Len(shorter) \in Nat
        /\ DOMAIN stack = 1 .. Len(stack) /\ DOMAIN shorter = 1 .. Len(shorter)
        /\ \A i \in 1 .. Len(shorter) : shorter[i] = stack[i]
        /\ Last(stack) = stack[Len(stack)]
    BY PopFacts DEF GoodStack
  <1> HIDE DEF shorter
  <1>2. \A i \in DOMAIN shorter : GoodFrame(shorter[i], FALSE /\ i = Len(shorter))
    <2> TAKE i \in DOMAIN shorter
    <2>1. i \in DOMAIN stack /\ shorter[i] = stack[i]
      BY <1>1
    <2>2. GoodFrame(stack[i], ending /\ i = Len(stack))
      BY <2>1 DEF GoodStack
    <2>3. (FALSE /\ i = Len(shorter)) = FALSE /\ (ending /\ i = Len(stack)) = FALSE
      BY <1>1
    <2> QED
      BY <2>1, <2>2, <2>3
  <1>3. \A i \in DOMAIN shorter :
            binder_P(shorter[i]) => i > 1 /\ shorter[i - 1].call = "parseExpression"
    BY <1>1 DEF GoodStack
  <1>4. GoodFrame(Last(stack), ending)
    <2>1. Len(stack) \in DOMAIN stack /\ (ending /\ Len(stack) = Len(stack)) = ending
      BY <1>1
    <2>2. GoodFrame(stack[Len(stack)], ending /\ Len(stack) = Len(stack))
      BY <2>1 DEF GoodStack
    <2> QED
      BY <1>1, <2>1, <2>2
  <1>5. ASSUME binder_P(Last(stack))
        PROVE  shorter # <<>> /\ Last(shorter).call = "parseExpression"
    <2>1. Len(stack) > 1 /\ stack[Len(stack) - 1].call = "parseExpression"
      BY <1>1, <1>5 DEF GoodStack
    <2>2. shorter # <<>>
      BY <1>1, <2>1, EmptyFacts
    <2>3. Last(shorter) = shorter[Len(shorter)]
      BY <1>1, <2>2, PopFacts
    <2> QED
      BY <1>1, <2>1, <2>2, <2>3
  <1> QED
    BY <1>1, <1>2, <1>3, <1>4, <1>5 DEF GoodStack, shorter

\* No calls, and the first.
LEMMA FewCalls ==
    /\ \A ending \in BOOLEAN : GoodStack(<<>>, ending)
    /\ \A terminator :
           LET stack == <<Expression(terminator)>>
           IN  GoodStack(stack, FALSE) /\ stack # <<>> /\ Last(stack).call = "parseExpression"
  <1>1. \A ending \in BOOLEAN : GoodStack(<<>>, ending)
    BY EmptyFacts DEF GoodStack
  <1>2. ASSUME NEW terminator
        PROVE  LET stack == <<Expression(terminator)>>
               IN  GoodStack(stack, FALSE) /\ stack # <<>> /\ Last(stack).call = "parseExpression"
    <2> DEFINE f == Expression(terminator)
    <2>1. GoodFrame(f, FALSE) /\ f.call = "parseExpression"
      BY CallBegun DEF GoodFrame
    <2> HIDE DEF f
    <2>2. ~binder_P(f)
      BY <2>1, FrameFacts
    <2>3. Append(<<>>, f) = <<f>>
      OBVIOUS
    <2>4. GoodStack(Append(<<>>, f), FALSE) /\ Append(<<>>, f) # <<>> /\ Last(Append(<<>>, f)) = f
      BY <1>1, <2>1, <2>2, FramePushed
    <2> QED
      BY <2>1, <2>3, <2>4 DEF f
  <1> QED
    BY <1>1, <1>2

-----------------------------------------------------------------------------
(* Tokens and their precedences                                            *)

\* A set of numbers that is not empty has a smallest one.
LEMMA SmallestFacts ==
    ASSUME NEW S \in SUBSET Nat, S # {}
    PROVE  Min(S) \in S
  <1> DEFINE R == OpToRel(<, Nat)
  <1>1. IsWellFoundedOn(R, Nat)
    BY NatLessThanWellFounded
  <1> HIDE DEF R
  <1>2. PICK l \in S : \A other \in S : ~(<<other, l>> \in R)
    BY <1>1, WFMin
  <1>3. \A other \in S : ~(other < l)
    BY <1>2 DEF R, OpToRel
  <1>4. \A other \in S : l <= other
    BY <1>3
  <1> QED
    BY <1>4 DEF Min

\* A lookup gives a level or -1.
LEMMA LookupFacts ==
    ASSUME NEW list \in OperatorLists, NEW token \in Tokens
    PROVE  Lookups[list][token].precedence \in Levels \cup {-1}
  <1> DEFINE levels == legacyOPLFrom5DOPL(list)
             Having(level) == {i \in DOMAIN levels[level] : levels[level][i].operator_ = token}
             found == {level \in Levels : Having(level) # {}}
  <1>1. Lookups[list][token] = get_operator_precedence_and_associativity(levels, token)
    BY DEF Lookups
  <1> HIDE DEF levels
  <1>2. Lookups[list][token].precedence = IF found = {} THEN -1 ELSE Min(found)
    <2> DEFINE x == levels[Min(found)][Min(Having(Min(found)))].associativity
    <2>1. Lookups[list][token] =
              IF found = {} THEN [precedence |-> -1, associativity |-> NULL]
              ELSE [precedence |-> Min(found), associativity |-> x]
      BY <1>1, Zenon DEF get_operator_precedence_and_associativity
    <2> HIDE DEF found, x
    <2> QED
      BY <2>1
  <1>3. found \in SUBSET Nat /\ found \subseteq Levels
    BY DEF Levels
  <1> HIDE DEF found
  <1>4. found # {} => Min(found) \in found
    BY <1>3, SmallestFacts
  <1> QED
    BY <1>2, <1>3, <1>4

\* An operator that is registered has a level, and no parenthesis is.
LEMMA PrecedenceFacts ==
    ASSUME OPL \in OperatorLists, NEW token \in Tokens
    PROVE  /\ any_operator_P(token) => precedence(token) \in Levels
           /\ token \in openers => precedence(token) = -1
  <1>1. precedence(token) \in Levels \cup {-1}
    BY LookupFacts DEF precedence
  <1>2. token \in openers => precedence(token) = -1
    BY ParensAssumption DEF precedence
  <1> QED
    BY <1>1, <1>2 DEF any_operator_P

\* What the parser knows without a text.
LEMMA OwnTokens == EOF \in Tokens /\ " " \in Tokens
  <1> DEFINE U == UNION {Range(t) : t \in Texts}
  <1>1. Tokens = U \cup {EOF, " "} \cup openers \cup closers
    BY DEF Tokens
  <1> HIDE DEF U
  <1> QED
    BY <1>1

\* The scanner gives tokens.
LEMMA ScannerFacts ==
    ASSUME text \in Texts, NEW i \in Nat \ {0}
    PROVE  tokenAt(i) \in Tokens
  <1>1. CASE i <= Len(text)
    <2>1. text \in Seq(STRING)
      BY TextsAssumption
    <2>2. i \in DOMAIN text
      BY <1>1, <2>1
    <2>3. tokenAt(i) \in Range(text)
      BY <1>1, <2>2 DEF tokenAt, Range
    <2> QED
      BY <2>3 DEF Tokens
  <1>2. CASE ~(i <= Len(text))
    BY <1>2, OwnTokens DEF tokenAt
  <1> QED
    BY <1>1, <1>2

\* What parseExpression takes in hand next is a token of the text or its own.
LEMMA ValueFacts ==
    ASSUME text \in Texts, position \in Nat \ {0}
    PROVE  value \in Tokens /\ afterValue \in Nat \ {0}
  <1>1. input_value \in Tokens
    BY ScannerFacts DEF input_value
  <1>2. value \in Tokens
    BY <1>1, OwnTokens DEF value
  <1> QED
    BY <1>2 DEF afterValue

-----------------------------------------------------------------------------
(* The steps                                                               *)

Loops == {"loop", "close", "prefix", "operator", "end"}

\* What the calls are, and which of them is innermost where.  While operators
\* are compared to the token in hand, that token is an operator.
IInv ==
    /\ text \in Texts /\ OPL \in OperatorLists /\ position \in Nat \ {0}
    /\ GoodStack(calls, at = "end")
    /\ calls # <<>> \/ at \in {"done", "error", "abort"}
    /\ at \in Loops => frame.call = "parseExpression"
    /\ at = "list" => frame.call = "list"
    /\ at \in {"operator", "prefix"} => precedence(frame.value) \in Levels

\* GroupsKeepApart of one step.
KeptStep ==
    calls # <<>> /\ Len(calls') = Len(calls) /\ frame.call = "parseExpression" =>
        Keeps(frame, frame')

\* There is a call, and what it is.
LEMMA TopFacts ==
    ASSUME IInv, calls # <<>>
    PROVE  /\ GoodStack(Front(calls), FALSE)
           /\ GoodFrame(frame, at = "end")
           /\ frame.call = "parseExpression" => GoodCall(frame, at = "end") /\ ~binder_P(frame)
           /\ binder_P(frame) => Front(calls) # <<>> /\ caller.call = "parseExpression"
           /\ Len(calls) = Len(Front(calls)) + 1 /\ Len(Front(calls)) \in Nat
           /\ Append(Front(calls), frame) = calls
  <1> DEFINE ending == (at = "end")
  <1>1. GoodStack(calls, ending) /\ ending \in BOOLEAN
    BY DEF IInv
  <1> HIDE DEF ending
  <1>2. /\ GoodStack(Front(calls), FALSE) /\ GoodFrame(frame, ending)
        /\ binder_P(frame) => Front(calls) # <<>> /\ caller.call = "parseExpression"
        /\ Len(calls) = Len(Front(calls)) + 1 /\ Len(Front(calls)) \in Nat
    BY <1>1, FramePopped DEF frame, caller
  <1>3. Append(Front(calls), frame) = calls
    BY <1>1, PopFacts DEF GoodStack, frame
  <1> QED
    BY <1>2, <1>3, FrameFacts DEF ending

\* A good call keeps its own operands.
LEMMA KeepsSelf ==
    ASSUME NEW f, NEW ending \in BOOLEAN, GoodCall(f, ending)
    PROVE  Keeps(f, f)
  BY CountFacts DEF Keeps

\* An error or an abort.
LEMMA StopStep ==
    ASSUME IInv, calls # <<>>, UNCHANGED <<text, OPL>>,
           NEW label \in {"error", "abort"}, Stop(label)
    PROVE  IInv' /\ KeptStep
  <1>1. calls' = <<>> /\ at' = label /\ position' = position
    BY DEF Stop, Goto
  <1>2. GoodStack(<<>>, FALSE)
    BY FewCalls
  <1>3. Len(calls') # Len(calls)
    BY <1>1, TopFacts, EmptyFacts
  <1>4. GoodStack(calls', at' = "end")
    <2>1. (at' = "end") = FALSE
      BY <1>1
    <2> QED
      BY <1>1, <1>2, <2>1
  <1> QED
    BY <1>1, <1>3, <1>4 DEF IInv, KeptStep, Loops

\* The innermost call changes.
LEMMA TopStep ==
    ASSUME IInv, calls # <<>>, UNCHANGED <<text, OPL>>,
           frame.call = "parseExpression",
           NEW g, GoodCall(g, at' = "end"), Keeps(frame, g),
           calls' = replaced(g), position' \in Nat \ {0},
           at' \in Loops \cup {"return"},
           at' \in {"operator", "prefix"} => precedence(g.value) \in Levels
    PROVE  IInv' /\ KeptStep
  <1> DEFINE ending == (at' = "end")
  <1>1. ending \in BOOLEAN /\ GoodCall(g, ending)
    OBVIOUS
  <1> HIDE DEF ending
  <1>2. g.call = "parseExpression"
    BY FieldFacts DEF GoodCall
  <1>3. GoodFrame(g, ending) /\ ~binder_P(g)
    BY <1>1, <1>2, FrameFacts DEF GoodFrame
  <1>4. GoodStack(Front(calls), FALSE)
    BY TopFacts
  <1>5. GoodStack(calls', ending) /\ calls' # <<>> /\ frame' = g
    <2> DEFINE below == Front(calls)
    <2>1. calls' = Append(below, g) /\ GoodStack(below, FALSE)
      BY <1>4 DEF replaced
    <2> HIDE DEF below
    <2>2. /\ GoodStack(Append(below, g), ending) /\ Append(below, g) # <<>>
          /\ Last(Append(below, g)) = g
      BY <1>1, <1>3, <2>1, FramePushed, ZenonT(30)
    <2> QED
      BY <2>1, <2>2 DEF frame
  <1>6. precedence(g.value)' = precedence(g.value)
    BY DEF precedence
  <1>7. at' \in {"operator", "prefix"} => precedence(frame.value)' \in Levels
    BY <1>5 DEF precedence
  <1>8. IInv'
    BY <1>2, <1>5, <1>7 DEF IInv, ending, Loops
  <1> QED
    BY <1>5, <1>8 DEF KeptStep

\* The stack of calls changes.
LEMMA StackStep ==
    ASSUME IInv, calls # <<>>, UNCHANGED <<text, OPL>>,
           NEW stack, GoodStack(stack, FALSE), calls' = stack,
           stack # <<>> \/ at' = "done",
           \/ Len(stack) # Len(calls)
           \/ frame.call # "parseExpression"
           \/ Keeps(frame, Last(stack)),
           position' \in Nat \ {0},
           at' \in {"loop", "list", "value", "return", "done"},
           at' = "loop" => Last(stack).call = "parseExpression",
           at' = "list" => Last(stack).call = "list"
    PROVE  IInv' /\ KeptStep
  <1>1. (at' = "end") = FALSE
    OBVIOUS
  <1>2. GoodStack(calls', at' = "end")
    BY <1>1
  <1>3. frame' = Last(stack)
    BY DEF frame
  <1> QED
    BY <1>2, <1>3 DEF IInv, KeptStep, Loops

\* Good in the middle of a text is good everywhere.
LEMMA GoodAnywhere ==
    ASSUME NEW f, GoodCall(f, FALSE), NEW ending \in BOOLEAN
    PROVE  GoodCall(f, ending)
  BY EndReached

\* Steps that keep the operands add up.
LEMMA KeepsOn ==
    ASSUME NEW f, NEW g, NEW h, Keeps(f, g), Keeps(g, h), g.fOperandCounts = f.fOperandCounts
    PROVE  Keeps(f, h)
  BY DEF Keeps

\* The innermost call in the middle of a text.
LEMMA MiddleFacts ==
    ASSUME IInv, at \in Loops \ {"end"}
    PROVE  /\ calls # <<>> /\ frame.call = "parseExpression" /\ GoodCall(frame, FALSE)
           /\ GoodStack(Front(calls), FALSE)
  <1>1. calls # <<>> /\ frame.call = "parseExpression"
    BY DEF IInv, Loops
  <1>2. (at = "end") = FALSE
    OBVIOUS
  <1> QED
    BY <1>1, <1>2, TopFacts

\* Taking the next token in hand leaves the stacks.
LEMMA TakenFacts ==
    ASSUME IInv, at = "loop"
    PROVE  /\ GoodCall(taken, FALSE) /\ taken.value = value
           /\ Keeps(frame, taken) /\ taken.fOperandCounts = frame.fOperandCounts
  <1>1. GoodCall(frame, FALSE)
    BY MiddleFacts DEF Loops
  <1>2. Has(taken, frame.fOperators, frame.fOperands, frame.fOperandCounts, value)
    BY <1>1, FieldFacts DEF GoodCall, taken
  <1> QED
    BY <1>1, <1>2, ValueChanged DEF Has, taken

\* SCOPERANDS.
LEMMA BeginReducingStep ==
    ASSUME IInv, at = "loop", UNCHANGED <<text, OPL>>,
           NEW f, GoodCall(f, FALSE), Keeps(frame, f), f.fOperandCounts = frame.fOperandCounts,
           NEW loop \in {"close", "prefix", "operator", "end"},
           loop \in {"prefix", "operator"} => precedence(f.value) \in Levels,
           NEW next \in Nat \ {0}, BeginReducing(loop, f, next)
    PROVE  IInv' /\ KeptStep
  <1> DEFINE g == IF section_P(f) THEN sectioned(f) ELSE f
  <1>1. calls' = replaced(g) /\ at' = loop /\ position' = next
    BY DEF BeginReducing
  <1>2. GoodCall(g, FALSE) /\ Keeps(f, g) /\ g.value = f.value
    BY SectionMade, KeepsSelf
  <1> HIDE DEF g
  <1>3. Keeps(frame, g)
    BY <1>2, KeepsOn
  <1>4. GoodCall(g, at' = "end")
    BY <1>2, GoodAnywhere
  <1>5. calls # <<>> /\ frame.call = "parseExpression"
    BY MiddleFacts DEF Loops
  <1> QED
    BY <1>1, <1>2, <1>3, <1>4, <1>5, TopStep DEF Loops

-----------------------------------------------------------------------------
(* One lemma for each action of the loop over tokens                       *)

\* The text or the expression ends: SCOPERANDS, or the error for a missing end.
LEMMA EndOfTokensStep ==
    ASSUME IInv, UNCHANGED <<text, OPL>>, EndOfTokens
    PROVE  IInv' /\ KeptStep
  <1>1. at = "loop" /\ calls # <<>> /\ GoodCall(frame, FALSE) /\ Keeps(frame, frame)
    BY MiddleFacts, KeepsSelf DEF EndOfTokens, Loops
  <1>2. CASE Stop("error")
    BY <1>1, <1>2, StopStep
  <1>3. CASE BeginReducing("end", frame, position)
    <2>1. position \in Nat \ {0}
      BY DEF IInv
    <2> QED
      BY <1>1, <1>3, <2>1, BeginReducingStep
  <1> QED
    BY <1>2, <1>3 DEF EndOfTokens, Check

\* A closing parenthesis comes in hand.
LEMMA CloseStep ==
    ASSUME IInv, UNCHANGED <<text, OPL>>, Close
    PROVE  IInv' /\ KeptStep
  <1>1. at = "loop" /\ BeginReducing("close", taken, afterValue)
    BY DEF Close
  <1>2. afterValue \in Nat \ {0}
    BY ValueFacts DEF IInv
  <1> QED
    BY <1>1, <1>2, TakenFacts, BeginReducingStep

\* A prefix operator or macro comes in hand; it has a level.
LEMMA PrefixStep ==
    ASSUME IInv, UNCHANGED <<text, OPL>>, Prefix
    PROVE  IInv' /\ KeptStep
  <1>1. at = "loop" /\ BeginReducing("prefix", taken, afterValue) /\ any_operator_P(value)
    BY DEF Prefix, prefix_P, prefix_operator_P
  <1>2. afterValue \in Nat \ {0} /\ value \in Tokens
    BY ValueFacts DEF IInv
  <1>3. precedence(value) \in Levels
    BY <1>1, <1>2, PrecedenceFacts DEF IInv
  <1> QED
    BY <1>1, <1>2, <1>3, TakenFacts, BeginReducingStep

\* An infix operator comes in hand; it has a level.
LEMMA OperatorStep ==
    ASSUME IInv, UNCHANGED <<text, OPL>>, Operator
    PROVE  IInv' /\ KeptStep
  <1>1. at = "loop" /\ BeginReducing("operator", taken, afterValue) /\ any_operator_P(value)
    BY DEF Operator
  <1>2. afterValue \in Nat \ {0} /\ value \in Tokens
    BY ValueFacts DEF IInv
  <1>3. precedence(value) \in Levels
    BY <1>1, <1>2, PrecedenceFacts DEF IInv
  <1> QED
    BY <1>1, <1>2, <1>3, TakenFacts, BeginReducingStep

\* An opening parenthesis is pushed with the number of operands before it.
LEMMA OpenStep ==
    ASSUME IInv, UNCHANGED <<text, OPL>>, Open
    PROVE  IInv' /\ KeptStep
  <1> DEFINE g == opened(taken, value)
  <1>1. at = "loop" /\ value \in openers /\ at' = "loop"
        /\ calls' = replaced(g) /\ position' = afterValue
    BY DEF Open, Goto
  <1>2. afterValue \in Nat \ {0}
    BY ValueFacts DEF IInv
  <1>3. GoodCall(g, FALSE) /\ Keeps(taken, g)
    BY <1>1, TakenFacts, ParenOpened
  <1> HIDE DEF g
  <1>4. Keeps(frame, g)
    BY <1>1, <1>3, TakenFacts, KeepsOn
  <1>5. calls # <<>> /\ frame.call = "parseExpression"
    BY <1>1, MiddleFacts DEF Loops
  <1>6. (at' = "end") = FALSE
    BY <1>1
  <1> QED
    BY <1>1, <1>2, <1>3, <1>4, <1>5, <1>6, TopStep DEF Loops

-----------------------------------------------------------------------------
(* Calls that are pushed and return                                        *)

\* The macros as they begin.
LEMMA MacrosBegun ==
    /\ \A form : /\ GoodMacro(ListMacro(form)) /\ ListMacro(form).call = "list"
                 /\ binder_P(ListMacro(form)) => form = "import"
    /\ GoodMacro(QuoteMacro) /\ ~binder_P(QuoteMacro)
    /\ \A operator, parameter :
           operator \notin openers => GoodMacro(LetMacro(operator, parameter))
    /\ \A symbols : GoodMacro(ImportMacro(symbols))
  <1>1. ASSUME NEW form
        PROVE  /\ GoodMacro(ListMacro(form)) /\ ListMacro(form).call = "list"
               /\ binder_P(ListMacro(form)) => form = "import"
    BY DEF ListMacro, GoodMacro, binder_P
  <1>2. GoodMacro(QuoteMacro) /\ ~binder_P(QuoteMacro)
    BY DEF QuoteMacro, GoodMacro, binder_P
  <1>3. ASSUME NEW operator, NEW parameter, operator \notin openers
        PROVE  GoodMacro(LetMacro(operator, parameter))
    BY <1>3 DEF LetMacro, GoodMacro
  <1>4. ASSUME NEW symbols
        PROVE  GoodMacro(ImportMacro(symbols))
    BY DEF ImportMacro, GoodMacro
  <1> QED
    BY <1>1, <1>2, <1>3, <1>4

\* A macro is pushed.
LEMMA MacroPushed ==
    ASSUME NEW stack, GoodStack(stack, FALSE), NEW f, GoodMacro(f),
           binder_P(f) => stack # <<>> /\ Last(stack).call = "parseExpression"
    PROVE  /\ GoodStack(Append(stack, f), FALSE)
           /\ Append(stack, f) # <<>> /\ Last(Append(stack, f)) = f
           /\ Len(Append(stack, f)) = Len(stack) + 1 /\ Len(stack) \in Nat
  BY FramePushed DEF GoodFrame

\* A call of parseExpression is pushed.
LEMMA ExpressionPushed ==
    ASSUME NEW stack, GoodStack(stack, FALSE), NEW terminator
    PROVE  LET longer == Append(stack, Expression(terminator))
           IN  /\ GoodStack(longer, FALSE) /\ longer # <<>>
               /\ Last(longer).call = "parseExpression"
               /\ Len(longer) = Len(stack) + 1 /\ Len(stack) \in Nat
  <1> DEFINE f == Expression(terminator)
  <1>1. GoodFrame(f, FALSE) /\ f.call = "parseExpression"
    BY CallBegun DEF GoodFrame
  <1> HIDE DEF f
  <1>2. ~binder_P(f)
    BY <1>1, FrameFacts
  <1>3. /\ GoodStack(Append(stack, f), FALSE) /\ Append(stack, f) # <<>>
        /\ Last(Append(stack, f)) = f
        /\ Len(Append(stack, f)) = Len(stack) + 1 /\ Len(stack) \in Nat
    BY <1>1, <1>2, FramePushed
  <1> QED
    BY <1>1, <1>3 DEF f

\* A call returns to the one below it.
LEMMA ReturnStep ==
    ASSUME IInv, calls # <<>>, UNCHANGED <<text, OPL>>,
           NEW node, NEW next \in Nat \ {0}, Return(node, Front(calls), next)
    PROVE  IInv' /\ KeptStep
  <1> DEFINE below == Front(calls)
  <1>1. /\ at' = IF below = <<>> THEN "done" ELSE "return"
        /\ calls' = below /\ position' = next
    BY DEF Return
  <1>2. GoodStack(below, FALSE) /\ Len(calls) = Len(below) + 1 /\ Len(below) \in Nat
    BY TopFacts
  <1> HIDE DEF below
  <1>3. Len(below) # Len(calls)
    BY <1>2
  <1> QED
    BY <1>1, <1>2, <1>3, StackStep

\* The innermost call is exchanged for a good one.
LEMMA TopReplaced ==
    ASSUME IInv, calls # <<>>, NEW g, GoodFrame(g, FALSE), binder_P(g) => binder_P(frame)
    PROVE  /\ GoodStack(replaced(g), FALSE) /\ replaced(g) # <<>> /\ Last(replaced(g)) = g
           /\ Len(replaced(g)) = Len(calls) /\ Len(calls) \in Nat
  <1> DEFINE below == Front(calls)
  <1>1. GoodStack(below, FALSE) /\ Len(calls) = Len(below) + 1 /\ Len(below) \in Nat
    BY TopFacts
  <1>2. binder_P(g) => below # <<>> /\ Last(below).call = "parseExpression"
    BY TopFacts DEF caller
  <1>3. replaced(g) = Append(below, g)
    BY DEF replaced
  <1> HIDE DEF below
  <1>4. /\ GoodStack(Append(below, g), FALSE) /\ Append(below, g) # <<>>
        /\ Last(Append(below, g)) = g /\ Len(Append(below, g)) = Len(below) + 1
    BY <1>1, <1>2, FramePushed
  <1>5. Len(Append(below, g)) = Len(calls) /\ Len(calls) \in Nat
    BY <1>1, <1>4
  <1> QED
    BY <1>3, <1>4, <1>5, Zenon

\* expand_simple_macro, on a stack on which the innermost call may have changed.
LEMMA ExpandStep ==
    ASSUME IInv, calls # <<>>, UNCHANGED <<text, OPL>>,
           NEW waiting, GoodStack(waiting, FALSE), waiting # <<>>, Len(waiting) = Len(calls),
           frame.call = "parseExpression" => Keeps(frame, Last(waiting)),
           NEW token, NEW next \in Nat \ {0}, ExpandSimpleMacro(token, waiting, next)
    PROVE  IInv' /\ KeptStep
  <1>1. ASSUME NEW f, GoodMacro(f), ~binder_P(f), NEW i \in Nat \ {0},
               NEW label \in {"list", "value"}, label = "list" => f.call = "list",
               Goto(label, Append(waiting, f), i)
        PROVE  IInv' /\ KeptStep
    <2> DEFINE stack == Append(waiting, f)
    <2>1. /\ GoodStack(stack, FALSE) /\ stack # <<>> /\ Last(stack) = f
          /\ Len(stack) = Len(waiting) + 1 /\ Len(waiting) \in Nat
      BY <1>1, MacroPushed
    <2>2. calls' = stack /\ at' = label /\ position' = i
      BY <1>1 DEF Goto
    <2> HIDE DEF stack
    <2>3. Len(stack) # Len(calls)
      BY <2>1
    <2> QED
      BY <1>1, <2>1, <2>2, <2>3, StackStep
  <1>2. CASE Goto("list", Append(waiting, ListMacro("[")), next)
    BY <1>1, <1>2, MacrosBegun
  <1>3. CASE Goto("list", Append(waiting, ListMacro("#exports")), next + 1)
    BY <1>1, <1>3, MacrosBegun
  <1>4. CASE Stop("error")
    BY <1>4, StopStep
  <1>5. CASE Return(Symbol("'"), waiting, next)
    <2>1. calls' = waiting /\ at' = "return" /\ position' = next
      BY <1>5 DEF Return
    <2> QED
      BY <2>1, StackStep
  <1>6. CASE Goto("value", Append(waiting, QuoteMacro), next)
    BY <1>1, <1>6, MacrosBegun
  <1> QED
    BY <1>2, <1>3, <1>4, <1>5, <1>6 DEF ExpandSimpleMacro, Check

\* A leaf is pushed, or a list or quote is begun.
LEMMA OperandStep ==
    ASSUME IInv, UNCHANGED <<text, OPL>>, Operand
    PROVE  IInv' /\ KeptStep
  <1>1. at = "loop"
    BY DEF Operand
  <1>2. calls # <<>> /\ frame.call = "parseExpression" /\ afterValue \in Nat \ {0}
    BY <1>1, MiddleFacts, ValueFacts DEF IInv, Loops
  <1>3. CASE ExpandSimpleMacro(value, replaced(taken), afterValue)
    <2>1. GoodFrame(taken, FALSE) /\ ~binder_P(taken)
      <3>1. taken.call = "parseExpression"
        BY <1>1, TakenFacts, FieldFacts DEF GoodCall
      <3> QED
        BY <1>1, <3>1, TakenFacts, FrameFacts DEF GoodFrame
    <2>2. /\ GoodStack(replaced(taken), FALSE) /\ replaced(taken) # <<>>
          /\ Last(replaced(taken)) = taken /\ Len(replaced(taken)) = Len(calls)
      BY <1>2, <2>1, TopReplaced
    <2>3. Keeps(frame, taken)
      BY <1>1, TakenFacts
    <2> QED
      BY <1>2, <1>3, <2>2, <2>3, ExpandStep
  <1>4. CASE Goto("loop", replaced(pushedOperand(taken, leaf(value))), afterValue)
    <2> DEFINE g == pushedOperand(taken, leaf(value))
    <2>1. GoodCall(g, FALSE) /\ Keeps(taken, g)
      BY <1>1, TakenFacts, OperandPushed
    <2>2. calls' = replaced(g) /\ at' = "loop" /\ position' = afterValue
      BY <1>4 DEF Goto
    <2> HIDE DEF g
    <2>3. Keeps(frame, g)
      BY <1>1, <2>1, TakenFacts, KeepsOn
    <2>4. (at' = "end") = FALSE
      BY <2>2
    <2> QED
      BY <1>2, <2>1, <2>2, <2>3, <2>4, TopStep DEF Loops
  <1> QED
    BY <1>3, <1>4 DEF Operand

-----------------------------------------------------------------------------
(* One lemma for each action of the while loops                            *)

\* Only at the end of the text is a parenthesis taken for an operator.
LEMMA NoParenReduced ==
    ASSUME IInv, continues_P
    PROVE  /\ calls # <<>> /\ frame.call = "parseExpression" /\ frame.fOperators # <<>>
           /\ (at = "end") \/ ~paren_P(Last(frame.fOperators))
  <1> DEFINE op1 == Last(frame.fOperators)
  <1>1. calls # <<>> /\ frame.call = "parseExpression" /\ frame.fOperators # <<>>
    BY DEF continues_P, IInv, Loops
  <1>2. paren_P(op1) => precedence(op1.operator) = -1
    BY ParensAssumption DEF IInv, paren_P, precedence
  <1>3. CASE at = "close"
    BY <1>1, <1>3 DEF continues_P
  <1>4. CASE at = "prefix"
    BY <1>1, <1>2, <1>4 DEF continues_P, prefix_operator_P, any_operator_P
  <1>5. CASE at = "operator"
    <2>1. precedence(frame.value) \in Nat
      <3>1. precedence(frame.value) \in Levels
        BY <1>5 DEF IInv
      <3> QED
        BY <3>1 DEF Levels
    <2>2. precedence(frame.value) <= precedence(op1.operator)
      BY <1>5 DEF continues_P, yields_P, standsIn
    <2> QED
      BY <1>1, <1>2, <2>1, <2>2
  <1> QED
    BY <1>1, <1>3, <1>4, <1>5 DEF continues_P

\* CONSUME_OPERATION, whichever of the loops it is in.
LEMMA ReduceStep ==
    ASSUME IInv, UNCHANGED <<text, OPL>>, Reduce
    PROVE  IInv' /\ KeptStep
  <1> DEFINE ending == (at = "end")
  <1>1. /\ calls # <<>> /\ frame.call = "parseExpression" /\ frame.fOperators # <<>>
        /\ ending \/ ~paren_P(Last(frame.fOperators))
    BY NoParenReduced DEF Reduce
  <1>2. CASE Stop("error") \/ Stop("abort")
    BY <1>1, <1>2, StopStep
  <1>3. CASE reducible_P(frame) /\ Goto(at, replaced(consumed(frame)), position)
    <2> DEFINE g == consumed(frame)
    <2>1. GoodCall(frame, ending) /\ ending \in BOOLEAN
      BY <1>1, TopFacts
    <2>2. at' = at /\ calls' = replaced(g) /\ position' = position
      BY <1>3 DEF Goto
    <2>3. (at' = "end") = ending
      BY <2>2
    <2> HIDE DEF ending
    <2>4. GoodCall(g, ending) /\ Keeps(frame, g) /\ g.value = frame.value
      BY <1>1, <1>3, <2>1, OperationConsumed
    <2> HIDE DEF g
    <2>5. position' \in Nat \ {0} /\ at' \in Loops
      BY <2>2 DEF IInv, Reduce, continues_P, Loops
    <2>6. at' \in {"operator", "prefix"} => precedence(g.value) \in Levels
      BY <2>2, <2>4 DEF IInv
    <2>7. GoodCall(g, at' = "end")
      BY <2>3, <2>4
    <2> QED
      BY <1>1, <2>2, <2>4, <2>5, <2>6, <2>7, TopStep
  <1> QED
    BY <1>2, <1>3 DEF Reduce, Check

\* The parenthesis is closed if it is the one that is open.
LEMMA EndCloseStep ==
    ASSUME IInv, UNCHANGED <<text, OPL>>, EndClose
    PROVE  IInv' /\ KeptStep
  <1>1. /\ at = "close" /\ calls # <<>> /\ frame.call = "parseExpression"
        /\ GoodCall(frame, FALSE)
    BY MiddleFacts DEF EndClose, Loops
  <1>2. CASE Stop("error")
    BY <1>1, <1>2, StopStep
  <1>3. CASE /\ frame.fOperators # <<>>
             /\ Last(frame.fOperators) = Plain(opener(frame.value))
             /\ Goto("loop", replaced(closed(frame)), position)
    <2> DEFINE g == closed(frame)
    <2>1. paren_P(Last(frame.fOperators))
      <3>1. Last(frame.fOperators).operator = opener(frame.value)
        BY <1>3 DEF Plain
      <3>2. opener(frame.value) \in openers
        BY DEF opener, openers
      <3> QED
        BY <3>1, <3>2 DEF paren_P
    <2>2. GoodCall(g, FALSE) /\ Keeps(frame, g)
      BY <1>1, <1>3, <2>1, ParenClosed
    <2>3. at' = "loop" /\ calls' = replaced(g) /\ position' = position
      BY <1>3 DEF Goto
    <2> HIDE DEF g
    <2>4. (at' = "end") = FALSE /\ position' \in Nat \ {0}
      BY <2>3 DEF IInv
    <2> QED
      BY <1>1, <2>2, <2>3, <2>4, TopStep DEF Loops
  <1> QED
    BY <1>2, <1>3 DEF EndClose, Check

\* An operator is pushed and the loop over tokens goes on.
LEMMA OperatorPushedStep ==
    ASSUME IInv, at \in {"prefix", "operator"}, UNCHANGED <<text, OPL>>,
           NEW op1, op1.operator \notin openers, NEW next \in Nat \ {0},
           Goto("loop", replaced(pushedOperator(frame, op1)), next)
    PROVE  IInv' /\ KeptStep
  <1> DEFINE g == pushedOperator(frame, op1)
  <1>1. calls # <<>> /\ frame.call = "parseExpression" /\ GoodCall(frame, FALSE)
    BY MiddleFacts DEF Loops
  <1>2. GoodCall(g, FALSE) /\ Keeps(frame, g)
    BY <1>1, OperatorPushed DEF paren_P
  <1>3. at' = "loop" /\ calls' = replaced(g) /\ position' = next
    BY DEF Goto
  <1> HIDE DEF g
  <1>4. (at' = "end") = FALSE
    BY <1>3
  <1> QED
    BY <1>1, <1>2, <1>3, <1>4, TopStep DEF Loops

\* The token in hand is no parenthesis.
LEMMA InHand ==
    ASSUME IInv, at \in {"prefix", "operator"}
    PROVE  frame.value \notin openers /\ position \in Nat \ {0}
  <1>1. precedence(frame.value) \in Levels /\ OPL \in OperatorLists
    BY DEF IInv
  <1>2. frame.value \in openers => precedence(frame.value) = -1
    BY <1>1, ParensAssumption DEF precedence
  <1>3. frame.value \notin openers
    BY <1>1, <1>2 DEF Levels
  <1> QED
    BY <1>3 DEF IInv

\* The infix operator is pushed.
LEMMA EndOperatorStep ==
    ASSUME IInv, UNCHANGED <<text, OPL>>, EndOperator
    PROVE  IInv' /\ KeptStep
  <1> DEFINE op1 == Plain(frame.value)
  <1>1. at = "operator" /\ Goto("loop", replaced(pushedOperator(frame, op1)), position)
    BY DEF EndOperator
  <1>2. op1.operator \notin openers /\ position \in Nat \ {0}
    BY <1>1, InHand DEF Plain
  <1> HIDE DEF op1
  <1> QED
    BY <1>1, <1>2, OperatorPushedStep

\* parseExpression returns its one operand.
LEMMA EndExpressionStep ==
    ASSUME IInv, UNCHANGED <<text, OPL>>, EndExpression
    PROVE  IInv' /\ KeptStep
  <1> DEFINE next == IF frame.terminator \in closers THEN position + 1 ELSE position
  <1>1. calls # <<>> /\ next \in Nat \ {0}
    BY DEF EndExpression, IInv
  <1>2. CASE Stop("error")
    BY <1>1, <1>2, StopStep
  <1>3. CASE Return(Last(frame.fOperands), Front(calls), next)
    BY <1>1, <1>3, ReturnStep
  <1> QED
    BY <1>2, <1>3 DEF EndExpression, Check

-----------------------------------------------------------------------------
(* One lemma for each action of the macros                                 *)

\* A concatenation is as many pushes.
LEMMA PushesFacts ==
    ASSUME NEW s, IsSequence(s), NEW a, NEW b
    PROVE  s \o <<a>> = Append(s, a) /\ s \o <<a, b>> = Append(Append(s, a), b)
  <1>1. PICK S : s \in Seq(S)
    BY DEF IsSequence
  <1> DEFINE T == S \cup {a, b}
  <1>2. s \in Seq(T) /\ a \in T /\ b \in T
    BY <1>1, SeqMonotonic
  <1> HIDE DEF T
  <1> QED
    BY <1>2

\* handle_unary_operator: a stand-in is pushed, or a part of a macro is called for.
LEMMA EndPrefixStep ==
    ASSUME IInv, UNCHANGED <<text, OPL>>, EndPrefix
    PROVE  IInv' /\ KeptStep
  <1>1. /\ at = "prefix" /\ calls # <<>> /\ frame.call = "parseExpression"
        /\ (at = "end") = FALSE
    BY MiddleFacts DEF EndPrefix, Loops
  <1>2. frame.value \notin openers /\ position \in Nat \ {0}
    BY <1>1, InHand
  <1>3. afterParameter \in Nat \ {0}
    BY <1>2 DEF afterParameter
  <1>4. GoodStack(calls, FALSE)
    <2> DEFINE ending == (at = "end")
    <2>1. GoodStack(calls, ending) /\ ending = FALSE
      BY <1>1 DEF IInv
    <2> HIDE DEF ending
    <2> QED
      BY <2>1
  <1>5. ASSUME NEW op1, op1.operator \notin openers, NEW next \in Nat \ {0},
               PushPrefix(op1, next)
        PROVE  IInv' /\ KeptStep
    BY <1>1, <1>5, OperatorPushedStep DEF PushPrefix
  <1>6. CASE Stop("error")
    BY <1>1, <1>6, StopStep
  <1>7. CASE PushPrefix(Plain(frame.value), position)
    <2>1. Plain(frame.value).operator \notin openers
      BY <1>2 DEF Plain
    <2> QED
      BY <1>2, <1>5, <1>7, <2>1
  <1>8. CASE PushPrefix(Standin(frame.value, <<>>), position)
    <2>1. Standin(frame.value, <<>>).operator \notin openers
      BY <1>2 DEF Standin
    <2> QED
      BY <1>2, <1>5, <1>8, <2>1
  <1>9. CASE PushPrefix(Standin("\\", <<leaf(parameterToken)>>), afterParameter)
    <2>1. Standin("\\", <<leaf(parameterToken)>>).operator \notin openers
      BY DEF Standin, openers
    <2> QED
      BY <1>3, <1>5, <1>9, <2>1
  <1>10. CASE Goto("loop",
                  calls \o <<LetMacro(frame.value, leaf(parameterToken)), Expression("in")>>,
                  afterParameter + 1)
    <2> DEFINE f == LetMacro(frame.value, leaf(parameterToken))
               with == Append(calls, f)
               stack == Append(with, Expression("in"))
    <2>1. GoodMacro(f)
      BY <1>2, MacrosBegun
    <2>2. Last(calls).call = "parseExpression"
      BY <1>1 DEF frame
    <2> HIDE DEF f
    <2>3. GoodStack(with, FALSE) /\ Len(with) = Len(calls) + 1 /\ Len(calls) \in Nat
      BY <1>1, <1>4, <2>1, <2>2, MacroPushed
    <2> HIDE DEF with
    <2>4. /\ GoodStack(stack, FALSE) /\ stack # <<>> /\ Last(stack).call = "parseExpression"
          /\ Len(stack) = Len(with) + 1
      BY <2>3, ExpressionPushed
    <2>5. calls \o <<f, Expression("in")>> = stack
      BY <1>4, PushesFacts DEF GoodStack, with
    <2>6. calls' = stack /\ at' = "loop" /\ position' = afterParameter + 1
      BY <1>10, <2>5 DEF Goto, f
    <2> HIDE DEF stack
    <2>7. Len(stack) # Len(calls) /\ position' \in Nat \ {0}
      BY <1>3, <2>3, <2>4, <2>6
    <2> QED
      BY <1>1, <2>4, <2>6, <2>7, StackStep
  <1>11. CASE Goto("list", Append(calls, ListMacro("import")), position + 1)
    <2> DEFINE f == ListMacro("import")
               stack == Append(calls, f)
    <2>1. GoodMacro(f) /\ f.call = "list"
      BY MacrosBegun
    <2>2. Last(calls).call = "parseExpression"
      BY <1>1 DEF frame
    <2> HIDE DEF f
    <2>3. /\ GoodStack(stack, FALSE) /\ stack # <<>> /\ Last(stack) = f
          /\ Len(stack) = Len(calls) + 1 /\ Len(calls) \in Nat
      BY <1>1, <1>4, <2>1, <2>2, MacroPushed
    <2>4. calls' = stack /\ at' = "list" /\ position' = position + 1
      BY <1>11 DEF Goto, f
    <2> HIDE DEF stack
    <2>5. Len(stack) # Len(calls) /\ position' \in Nat \ {0}
      BY <1>2, <2>3, <2>4
    <2> QED
      BY <1>1, <2>1, <2>3, <2>4, <2>5, StackStep
  <1> QED
    BY <1>6, <1>7, <1>8, <1>9, <1>10, <1>11
    DEF EndPrefix, PrefixAbstraction, PrefixLet, PrefixImport, Check

\* The calls outside of the loops of parseExpression.
LEMMA OutsideFacts ==
    ASSUME IInv, at \in {"value", "list", "return"}
    PROVE  /\ calls # <<>> /\ GoodStack(calls, FALSE) /\ GoodFrame(frame, FALSE)
           /\ frame.call = "parseExpression" => GoodCall(frame, FALSE) /\ Keeps(frame, frame)
           /\ position \in Nat \ {0}
  <1> DEFINE ending == (at = "end")
  <1>1. GoodStack(calls, ending) /\ ending = FALSE /\ calls # <<>> /\ position \in Nat \ {0}
    BY DEF IInv
  <1>2. GoodFrame(frame, ending)
    BY <1>1, TopFacts
  <1> HIDE DEF ending
  <1>3. GoodStack(calls, FALSE) /\ GoodFrame(frame, FALSE)
    BY <1>1, <1>2
  <1>4. frame.call = "parseExpression" => GoodCall(frame, FALSE)
    BY <1>3, FrameFacts
  <1> QED
    BY <1>1, <1>3, <1>4, KeepsSelf

\* parse_value calls parseExpression or expands a macro.
LEMMA ValueStep ==
    ASSUME IInv, UNCHANGED <<text, OPL>>, Value
    PROVE  IInv' /\ KeptStep
  <1>1. /\ at = "value" /\ calls # <<>> /\ GoodStack(calls, FALSE)
        /\ frame.call = "parseExpression" => Keeps(frame, Last(calls))
        /\ position \in Nat \ {0} /\ position + 1 \in Nat \ {0}
    <2>1. at = "value"
      BY DEF Value
    <2>2. /\ calls # <<>> /\ GoodStack(calls, FALSE) /\ position \in Nat \ {0}
          /\ frame.call = "parseExpression" => Keeps(frame, frame)
      BY <2>1, OutsideFacts
    <2>3. position + 1 \in Nat \ {0}
      BY <2>2
    <2> QED
      BY <2>1, <2>2, <2>3 DEF frame
  <1>2. ASSUME NEW terminator, NEW next \in Nat \ {0},
               Goto("loop", Append(calls, Expression(terminator)), next)
        PROVE  IInv' /\ KeptStep
    <2> DEFINE stack == Append(calls, Expression(terminator))
    <2>1. /\ GoodStack(stack, FALSE) /\ stack # <<>> /\ Last(stack).call = "parseExpression"
          /\ Len(stack) = Len(calls) + 1 /\ Len(calls) \in Nat
      BY <1>1, ExpressionPushed
    <2>2. calls' = stack /\ at' = "loop" /\ position' = next
      BY <1>2 DEF Goto
    <2> HIDE DEF stack
    <2>3. Len(stack) # Len(calls)
      BY <2>1
    <2> QED
      BY <1>1, <2>1, <2>2, <2>3, StackStep
  <1>3. CASE Stop("error")
    BY <1>1, <1>3, StopStep
  <1>4. CASE ExpandSimpleMacro(input_value, calls, position + 1)
    BY <1>1, <1>4, ExpandStep
  <1>5. CASE Goto("loop", Append(calls, Expression(")")), position + 1)
    BY <1>1, <1>2, <1>5
  <1>6. CASE Goto("loop", Append(calls, Expression("}")), position + 1)
    BY <1>1, <1>2, <1>6
  <1>7. CASE Goto("loop", Append(calls, Expression(" ")), position)
    BY <1>1, <1>2, <1>7
  <1> QED
    BY <1>3, <1>4, <1>5, <1>6, <1>7 DEF Value

\* An element of a list is called for.
LEMMA ElementStep ==
    ASSUME IInv, UNCHANGED <<text, OPL>>, Element
    PROVE  IInv' /\ KeptStep
  <1>1. at = "list" /\ frame.call # "parseExpression"
    BY DEF Element, IInv
  <1>2. calls' = calls /\ at' = "value" /\ position' = position
    BY DEF Element, Goto
  <1>3. calls # <<>> /\ GoodStack(calls, FALSE) /\ position \in Nat \ {0}
    BY <1>1, OutsideFacts
  <1> QED
    BY <1>1, <1>2, <1>3, StackStep

\* A list is complete.
LEMMA EndListStep ==
    ASSUME IInv, UNCHANGED <<text, OPL>>, EndList
    PROVE  IInv' /\ KeptStep
  <1>1. calls # <<>> /\ position + 1 \in Nat \ {0}
    BY OutsideFacts DEF EndList
  <1>2. CASE Stop("error")
    BY <1>1, <1>2, StopStep
  <1>3. CASE Return(macroList(frame.form, frame.elements), Front(calls), position + 1)
    BY <1>1, <1>3, ReturnStep
  <1> QED
    BY <1>2, <1>3 DEF EndList, Check

\* The list of imports is complete and the module is called for.
LEMMA EndImportsStep ==
    ASSUME IInv, UNCHANGED <<text, OPL>>, EndImports
    PROVE  IInv' /\ KeptStep
  <1>1. at = "list" /\ frame.call = "list" /\ binder_P(frame)
    BY DEF EndImports, IInv, binder_P
  <1>2. calls # <<>> /\ position + 2 \in Nat \ {0}
    BY <1>1, OutsideFacts
  <1>3. CASE Stop("error")
    BY <1>2, <1>3, StopStep
  <1>4. CASE Goto("loop", replaced(ImportMacro(frame.elements)) \o <<Expression("in")>>,
                  position + 2)
    <2> DEFINE g == ImportMacro(frame.elements)
               with == replaced(g)
               stack == Append(with, Expression("in"))
    <2>1. GoodFrame(g, FALSE)
      BY MacrosBegun DEF GoodFrame
    <2> HIDE DEF g
    <2>2. GoodStack(with, FALSE) /\ Len(with) = Len(calls) /\ Len(calls) \in Nat
      BY <1>1, <1>2, <2>1, TopReplaced
    <2> HIDE DEF with
    <2>3. /\ GoodStack(stack, FALSE) /\ stack # <<>> /\ Last(stack).call = "parseExpression"
          /\ Len(stack) = Len(with) + 1
      BY <2>2, ExpressionPushed
    <2>4. with \o <<Expression("in")>> = stack
      BY <2>2, PushesFacts DEF GoodStack
    <2>5. calls' = stack /\ at' = "loop" /\ position' = position + 2
      BY <1>4, <2>4 DEF Goto, with, g
    <2> HIDE DEF stack
    <2>6. Len(stack) # Len(calls)
      BY <2>2, <2>3
    <2> QED
      BY <1>2, <2>3, <2>5, <2>6, StackStep
  <1> QED
    BY <1>3, <1>4 DEF EndImports, Check

\* A value becomes an operand.
LEMMA ReturnToExpressionStep ==
    ASSUME IInv, UNCHANGED <<text, OPL>>, ReturnToExpression
    PROVE  IInv' /\ KeptStep
  <1> DEFINE g == pushedOperand(frame, result)
  <1>1. /\ at = "return" /\ frame.call = "parseExpression"
        /\ at' = "loop" /\ calls' = replaced(g) /\ position' = position
    BY DEF ReturnToExpression, Goto
  <1>2. calls # <<>> /\ GoodCall(frame, FALSE) /\ position \in Nat \ {0}
    BY <1>1, OutsideFacts
  <1>3. GoodCall(g, FALSE) /\ Keeps(frame, g)
    BY <1>2, OperandPushed
  <1> HIDE DEF g
  <1>4. (at' = "end") = FALSE
    BY <1>1
  <1> QED
    BY <1>1, <1>2, <1>3, <1>4, TopStep DEF Loops

\* A value becomes an element.
LEMMA ReturnToListStep ==
    ASSUME IInv, UNCHANGED <<text, OPL>>, ReturnToList
    PROVE  IInv' /\ KeptStep
  <1> DEFINE elements == Append(frame.elements, result)
             g == [frame EXCEPT !.elements = elements]
  <1>1. /\ at = "return" /\ frame.call = "list"
        /\ at' = "list" /\ calls' = replaced(g) /\ position' = position
    BY DEF ReturnToList, Goto
  <1>2. calls # <<>> /\ GoodFrame(frame, FALSE) /\ position \in Nat \ {0}
    BY <1>1, OutsideFacts
  <1>3. GoodMacro(frame)
    BY <1>1, <1>2, FrameFacts
  <1> HIDE DEF elements
  <1>4. PICK form, trees : frame = [call |-> "list", form |-> form, elements |-> trees]
    BY <1>1, <1>3 DEF GoodMacro
  <1>5. g = [call |-> "list", form |-> form, elements |-> elements]
    BY <1>4
  <1>6. GoodFrame(g, FALSE) /\ g.call = "list"
    BY <1>5 DEF GoodFrame, GoodMacro
  <1>7. binder_P(g) => binder_P(frame)
    BY <1>4, <1>5 DEF binder_P
  <1> HIDE DEF g
  <1>8. GoodStack(replaced(g), FALSE) /\ replaced(g) # <<>> /\ Last(replaced(g)) = g
    BY <1>2, <1>6, <1>7, TopReplaced
  <1> QED
    BY <1>1, <1>2, <1>6, <1>8, StackStep

\* A value is quoted.
LEMMA ReturnToQuoteStep ==
    ASSUME IInv, UNCHANGED <<text, OPL>>, ReturnToQuote
    PROVE  IInv' /\ KeptStep
  BY OutsideFacts, ReturnStep DEF ReturnToQuote

\* let and import become stand-ins in the call of parseExpression below them.
LEMMA ReturnToBinderStep ==
    ASSUME IInv, UNCHANGED <<text, OPL>>, ReturnToBinder
    PROVE  IInv' /\ KeptStep
  <1> DEFINE op1 == standinOf(frame, result)
             g == pushedOperator(caller, op1)
             below == Front(calls)
             stack == Append(Front(below), g)
  <1>1. /\ at = "return" /\ frame.call \in {"let", "import"}
        /\ at' = "loop" /\ calls' = stack /\ position' = position + 1
    BY DEF ReturnToBinder, Goto
  <1>2. calls # <<>> /\ GoodFrame(frame, FALSE) /\ position + 1 \in Nat \ {0}
    <2>1. calls # <<>> /\ GoodFrame(frame, FALSE) /\ position \in Nat \ {0}
      BY <1>1, OutsideFacts
    <2>2. position \in Nat \ {0} => position + 1 \in Nat \ {0}
      OBVIOUS
    <2> QED
      BY <2>1, <2>2, Zenon
  <1>3. GoodMacro(frame) /\ binder_P(frame)
    BY <1>1, <1>2, FrameFacts DEF binder_P
  <1>4. op1.operator \notin openers
    <2>1. CASE frame.call = "let"
      <3>1. frame.operator \notin openers
        BY <1>3, <2>1 DEF GoodMacro
      <3> QED
        BY <2>1, <3>1 DEF standinOf, Standin
    <2>2. CASE frame.call # "let"
      BY <2>2 DEF standinOf, Standin, openers
    <2> QED
      BY <2>1, <2>2
  <1>5. /\ GoodStack(below, FALSE) /\ below # <<>> /\ caller.call = "parseExpression"
        /\ Len(calls) = Len(below) + 1 /\ Len(below) \in Nat
    BY <1>2, <1>3, TopFacts
  <1>6. caller = Last(below)
    BY DEF caller
  <1> HIDE DEF op1, below
  <1>7. /\ GoodStack(Front(below), FALSE) /\ GoodFrame(caller, FALSE)
        /\ Len(below) = Len(Front(below)) + 1 /\ Len(Front(below)) \in Nat
    BY <1>5, <1>6, FramePopped
  <1>8. GoodCall(g, FALSE)
    <2>1. GoodCall(caller, FALSE)
      BY <1>5, <1>7, FrameFacts
    <2> QED
      BY <1>4, <2>1, OperatorPushed DEF paren_P
  <1> HIDE DEF g
  <1>9. GoodFrame(g, FALSE) /\ g.call = "parseExpression" /\ ~binder_P(g)
    <2>1. GoodFrame(g, FALSE) /\ g.call = "parseExpression"
      BY <1>8, FieldFacts DEF GoodFrame, GoodCall
    <2> QED
      BY <2>1, FrameFacts
  <1>10. /\ GoodStack(stack, FALSE) /\ stack # <<>> /\ Last(stack) = g
         /\ Len(stack) = Len(Front(below)) + 1
    BY <1>7, <1>9, FramePushed
  <1> HIDE DEF stack
  <1>11. Len(stack) # Len(calls)
    BY <1>5, <1>7, <1>10
  <1> QED
    BY <1>1, <1>2, <1>9, <1>10, <1>11, StackStep

-----------------------------------------------------------------------------
(* The theorems                                                            *)

\* The first call of parseExpression is good.
LEMMA InitInv == Init => IInv
  <1> SUFFICES ASSUME Init
               PROVE  IInv
    OBVIOUS
  <1>1. calls = <<Expression(EOF)>> /\ at = "loop"
    BY DEF Init
  <1>2. GoodStack(calls, FALSE) /\ calls # <<>> /\ frame.call = "parseExpression"
    BY <1>1, FewCalls DEF frame
  <1>3. (at = "end") = FALSE
    BY <1>1
  <1>4. GoodStack(calls, at = "end")
    BY <1>2, <1>3
  <1> QED
    BY <1>1, <1>2, <1>4 DEF Init, IInv

\* No step breaks the invariant, and none in a parenthesis touches the operands
\* before it.
LEMMA Inductive == IInv /\ [Next]_vars => IInv' /\ (KeptStep \/ UNCHANGED vars)
  <1> SUFFICES ASSUME IInv, [Next]_vars
               PROVE  IInv' /\ (KeptStep \/ UNCHANGED vars)
    OBVIOUS
  <1>1. CASE UNCHANGED vars
    <2>1. /\ text' = text /\ OPL' = OPL /\ position' = position
          /\ calls' = calls /\ at' = at
      BY <1>1 DEF vars
    <2>2. IInv'
      BY <2>1 DEF IInv, frame, precedence
    <2> QED
      BY <1>1, <2>2
  <1>2. CASE Next
    <2>1. Parse /\ UNCHANGED <<text, OPL>>
      BY <1>2 DEF Next
    <2>2. IInv' /\ KeptStep
      BY <2>1, EndOfTokensStep, CloseStep, PrefixStep, OpenStep, OperatorStep, OperandStep,
         ReduceStep, EndCloseStep, EndOperatorStep, EndPrefixStep, EndExpressionStep,
         ValueStep, ElementStep, EndListStep, EndImportsStep, ReturnToExpressionStep,
         ReturnToListStep, ReturnToQuoteStep, ReturnToBinderStep
      DEF Parse
    <2> QED
      BY <2>2
  <1> QED
    BY <1>1, <1>2

\* The stacks of operators, operands and counts of each call of parseExpression
\* stay in step: no top() or pop() of fOperandCounts meets an empty stack, and no
\* count is more than there are operands.
THEOREM StacksTheorem == Spec => []StacksInStep
  <1>1. IInv => StacksInStep
    <2> SUFFICES ASSUME IInv, NEW i \in DOMAIN calls, calls[i].call = "parseExpression"
                 PROVE  /\ ParensCounted(calls[i], at = "end" /\ i = Len(calls))
                        /\ OperandsNested(calls[i])
      BY DEF StacksInStep
    <2> DEFINE ending == (at = "end")
    <2>1. GoodStack(calls, ending)
      BY DEF IInv
    <2> HIDE DEF ending
    <2>2. GoodFrame(calls[i], ending /\ i = Len(calls))
      BY <2>1 DEF GoodStack
    <2>3. GoodCall(calls[i], ending /\ i = Len(calls))
      BY <2>2, FrameFacts
    <2> QED
      BY <2>3 DEF GoodCall, ending
  <1>2. IInv /\ [Next]_vars => IInv'
    BY Inductive
  <1> QED
    BY <1>1, <1>2, InitInv, PTL DEF Spec

\* What is read inside of an open parenthesis leaves the operands before the
\* parenthesis as they are: CONSUME_OPERATION takes none of them.
THEOREM GroupsTheorem == Spec => GroupsKeepApart
  <1> DEFINE Kept == calls # <<>> /\ Len(calls') = Len(calls) /\ frame.call = "parseExpression" =>
                        \A k \in 1 .. Last(frame.fOperandCounts) :
                            /\ k \in DOMAIN frame'.fOperands
                            /\ frame'.fOperands[k] = frame.fOperands[k]
  <1>1. IInv /\ [Next]_vars => IInv'
    BY Inductive
  <1>2. IInv /\ [Next]_vars => [Kept]_vars
    <2>1. KeptStep => Kept
      BY DEF KeptStep, Keeps
    <2> QED
      BY <2>1, Inductive
  <1>3. GroupsKeepApart <=> [][Kept]_vars
    BY DEF GroupsKeepApart
  <1> HIDE DEF Kept
  <1> QED
    BY <1>1, <1>2, <1>3, InitInv, PTL DEF Spec
=============================================================================
