------------------------- MODULE IndentationProofs --------------------------
(***************************************************************************)
(* Proofs about Indentation, for every file.  The open blocks are to the   *)
(* right of each other and the outermost one in column 0 stays, so the     *)
(* loop of update_indentation never empties the list that it then looks at *)
(* the front of.  And every token is as deep in injected parentheses as    *)
(* its line is indented: the open columns are those of the blocks that the *)
(* file has open at this place, and the parentheses that were delivered    *)
(* and those that wait open as many.                                       *)
(***************************************************************************)
EXTENDS Indentation, SequenceTheorems, Induction, TLAPS

Ascending(open) ==
    /\ open \in Seq(Nat) /\ open # <<>> /\ open[1] = 0
    /\ \A i, j \in DOMAIN open : i < j => open[i] < open[j]

IInv == column_number \in Nat /\ Ascending(open_indentations)

(* The loop stops at a block: the outermost one is never right of the column. *)
LEMMA KeptStops ==
    ASSUME NEW open, Ascending(open), NEW column \in Nat
    PROVE  /\ kept(open, column) \in DOMAIN open
           /\ open[kept(open, column)] <= column
           /\ \A j \in kept(open, column) + 1 .. Len(open) : open[j] > column
<1> DEFINE R == OpToRel(<, Nat)
           T == {k \in Nat : \E i \in DOMAIN open : open[i] <= column /\ k = Len(open) - i}
<1>1. /\ open \in Seq(Nat) /\ 1 \in DOMAIN open /\ open[1] <= column
      /\ Len(open) \in Nat /\ DOMAIN open = 1 .. Len(open)
  BY DEF Ascending
<1>2. Len(open) - 1 \in T
  BY <1>1
<1>3. IsWellFoundedOn(R, Nat)
  BY NatLessThanWellFounded
<1> HIDE DEF R
<1>4. PICK k \in T : \A y \in T : ~(<<y, k>> \in R)
  <2>1. T \subseteq Nat /\ T # {}
    BY <1>2
  <2> HIDE DEF T
  <2> QED
    BY <1>3, <2>1, WFMin
<1>5. \A y \in T : ~(y < k)
  BY <1>4 DEF R, OpToRel
<1>6. PICK i \in DOMAIN open : open[i] <= column /\ k = Len(open) - i
  BY <1>4
<1>7. \A j \in i + 1 .. Len(open) : open[j] > column
  <2> SUFFICES ASSUME NEW j \in i + 1 .. Len(open), open[j] <= column
               PROVE  FALSE
    BY <1>1, <1>6
  <2>1. j \in DOMAIN open /\ Len(open) - j \in Nat /\ Len(open) - j < k
    BY <1>1, <1>6
  <2> QED
    BY <1>5, <2>1
<1> QED
  BY <1>6, <1>7 DEF kept

(* A line that begins closes and opens blocks, and leaves them ascending. *)
LEMMA IndentationsKeepAscending ==
    ASSUME NEW open, Ascending(open), NEW column \in Nat
    PROVE  Ascending(indentations(open, column))
<1> DEFINE k == kept(open, column)
           outer == SubSeq(open, 1, k)
<1>1. /\ open \in Seq(Nat) /\ DOMAIN open = 1 .. Len(open) /\ Len(open) \in Nat
      /\ k \in 1 .. Len(open) /\ open[k] <= column
  <2>1. k \in DOMAIN open /\ open[k] <= column
    BY KeptStops
  <2> QED
    BY <2>1 DEF Ascending
<1> HIDE DEF k
<1>2. /\ outer \in Seq(Nat) /\ Len(outer) = k /\ DOMAIN outer = 1 .. k
      /\ \A i \in 1 .. k : outer[i] = open[i]
  BY <1>1
<1> HIDE DEF outer
<1>3. Ascending(outer)
  BY <1>1, <1>2 DEF Ascending
<1>4. CASE ~opens_P(open, column)
  BY <1>3, <1>4 DEF indentations, outer, k
<1>5. CASE opens_P(open, column)
  <2> DEFINE new == Append(outer, column)
  <2>1. indentations(open, column) = new
    BY <1>5 DEF indentations, outer, k
  <2>2. open[k] < column
    BY <1>1, <1>5 DEF opens_P, k
  <2>3. /\ new \in Seq(Nat) /\ DOMAIN new = 1 .. k + 1 /\ new[k + 1] = column
        /\ \A i \in 1 .. k : new[i] = outer[i]
    BY <1>1, <1>2
  <2> HIDE DEF new
  <2>4. new # <<>> /\ new[1] = 0
    BY <1>1, <1>2, <1>3, <2>3 DEF Ascending
  <2>5. \A i \in 1 .. k : outer[i] < column
    BY <1>1, <1>2, <2>2 DEF Ascending
  <2>6. \A i, j \in 1 .. k + 1 : i < j => new[i] < new[j]
    <3> SUFFICES ASSUME NEW i \in 1 .. k + 1, NEW j \in 1 .. k + 1, i < j
                 PROVE  new[i] < new[j]
      OBVIOUS
    <3>1. i \in 1 .. k
      BY <1>1
    <3>2. CASE j = k + 1
      BY <2>3, <2>5, <3>1, <3>2
    <3>3. CASE j # k + 1
      <4>1. j \in 1 .. k
        BY <1>1, <3>3
      <4> QED
        BY <1>2, <1>3, <2>3, <3>1, <4>1 DEF Ascending
    <3> QED
      BY <3>2, <3>3
  <2> QED
    BY <2>1, <2>3, <2>4, <2>6 DEF Ascending
<1> QED
  BY <1>4, <1>5
-----------------------------------------------------------------------------
(* The outermost block is there from the start. *)
LEMMA InitIInv == Init => IInv
<1> SUFFICES ASSUME Init PROVE IInv
  OBVIOUS
<1>1. column_number = 0 /\ open_indentations = <<0>>
  BY DEF Init
<1>2. <<0>> \in Seq(Nat) /\ <<0>> # <<>> /\ DOMAIN <<0>> = {1} /\ <<0>>[1] = 0
  OBVIOUS
<1>3. \A i, j \in DOMAIN <<0>> : ~(i < j)
  BY <1>2
<1> QED
  BY <1>1, <1>2, <1>3 DEF IInv, Ascending

(* Reading a character keeps the invariant. *)
LEMMA IncrementIInv == ASSUME IInv, NEW char, Increment(char) PROVE IInv'
BY IndentationsKeepAscending DEF Increment, UpdateIndentation, IInv

(* So does reading a character that is put back. *)
LEMMA IncrementDecrementIInv == ASSUME IInv, NEW char, IncrementDecrement(char) PROVE IInv'
BY IndentationsKeepAscending DEF IncrementDecrement, UpdateIndentation, IInv, scrolledLeft

(* Every step keeps the invariant: it reads a character, puts one back, gets *)
(* to the end of the file, or leaves the indentation alone.                  *)
LEMMA NextIInv == IInv /\ [Next]_vars => IInv'
<1> SUFFICES ASSUME IInv, [Next]_vars PROVE IInv'
  OBVIOUS
<1>1. ASSUME UNCHANGED scanned PROVE IInv'
  BY <1>1 DEF scanned, IInv
<1>2. CASE UNCHANGED vars
  BY <1>1, <1>2 DEF vars
<1>3. CASE Consume
  BY <1>1, <1>3 DEF Consume
<1>4. CASE SkipWhitespace
  BY <1>4, IncrementIInv, IncrementDecrementIInv DEF SkipWhitespace
<1>5. CASE BeginToken
  BY <1>5, IncrementIInv DEF BeginToken
<1>6. CASE ReadSymbol
  BY <1>6, IncrementIInv, IncrementDecrementIInv DEF ReadSymbol
<1>7. CASE ReadString
  BY <1>7, IncrementIInv DEF ReadString
<1>8. CASE Deinject
  BY <1>8, IndentationsKeepAscending DEF Deinject, IInv
<1> QED
  BY <1>2, <1>3, <1>4, <1>5, <1>6, <1>7, <1>8 DEF Next

(* In every reachable state of the scanner, for every file, the open blocks *)
(* ascend from the one in column 0.                                         *)
THEOREM IndentationTheorem == Spec => []IndentationsAscend
<1>1. IInv => IndentationsAscend
  BY DEF IInv, Ascending, IndentationsAscend
<1> QED
  BY <1>1, InitIInv, NextIInv, PTL DEF Spec
-----------------------------------------------------------------------------
\* How many of the injected tokens there are of a kind.
places(s, token) == {i \in 1 .. Len(s) : s[i] = token}
tally(s, token) == Cardinality(places(s, token))
balance(s) == tally(s, autoleftparen) - tally(s, autorightparen)
Injected == {autoleftparen, autorightparen}

LEMMA PlacesFinite ==
    ASSUME NEW s, Len(s) \in Nat, NEW token
    PROVE  IsFiniteSet(places(s, token)) /\ tally(s, token) \in Nat
<1>1. IsFiniteSet(1 .. Len(s)) /\ places(s, token) \in SUBSET (1 .. Len(s))
  BY FS_Interval DEF places
<1>2. IsFiniteSet(places(s, token))
  BY <1>1, FS_Subset
<1> QED
  BY <1>2, FS_CardinalityType DEF tally

\* Moved along, a set has as many elements.
LEMMA ShiftedCardinality ==
    ASSUME NEW S \in SUBSET Nat, IsFiniteSet(S), NEW n \in Nat
    PROVE  /\ IsFiniteSet({n + i : i \in S})
           /\ Cardinality({n + i : i \in S}) = Cardinality(S)
<1> DEFINE T == {n + i : i \in S}
           f == [i \in S |-> n + i]
<1>1. f \in Bijection(S, T)
  <2>1. f \in [S -> T]
    OBVIOUS
  <2>2. \A a, b \in S : f[a] = f[b] => a = b
    OBVIOUS
  <2>3. \A t \in T : \E a \in S : f[a] = t
    OBVIOUS
  <2> HIDE DEF f, T
  <2>4. IsInjective(f)
    BY <2>1, <2>2 DEF IsInjective
  <2> QED
    BY <2>1, <2>3, <2>4 DEF Bijection, Injection, Surjection
<1>2. ExistsBijection(S, T)
  BY <1>1 DEF ExistsBijection
<1> HIDE DEF T
<1>3. IsFiniteSet(T) /\ Cardinality(T) = Cardinality(S)
  BY <1>2, FS_Bijection
<1> QED
  BY <1>3 DEF T

\* Of two sequences one behind the other, each has its share.
LEMMA TallyOfConcat ==
    ASSUME NEW V, NEW s \in Seq(V), NEW t \in Seq(V), NEW token
    PROVE  tally(s \o t, token) = tally(s, token) + tally(t, token)
<1> DEFINE n == Len(s)
           behind == {n + i : i \in places(t, token)}
<1>1. /\ n \in Nat /\ Len(t) \in Nat /\ Len(s \o t) = n + Len(t)
      /\ \A i \in 1 .. n : (s \o t)[i] = s[i]
      /\ \A i \in 1 .. Len(t) : (s \o t)[n + i] = t[i]
  BY LenProperties, ConcatProperties
<1>2. /\ IsFiniteSet(places(s, token)) /\ tally(s, token) \in Nat
      /\ IsFiniteSet(places(t, token)) /\ tally(t, token) \in Nat
  BY <1>1, PlacesFinite
<1>3. places(t, token) \in SUBSET Nat /\ places(s, token) \in SUBSET (1 .. n)
  BY DEF places
<1>4. IsFiniteSet(behind) /\ Cardinality(behind) = tally(t, token)
  BY <1>1, <1>2, <1>3, ShiftedCardinality DEF tally
<1>5. places(s \o t, token) = places(s, token) \cup behind
  <2>1. \A i \in 1 .. n + Len(t) : i \in 1 .. n \/ (i - n \in 1 .. Len(t) /\ n + (i - n) = i)
    BY <1>1
  <2>2. \A i \in 1 .. Len(t) : n + i \in 1 .. n + Len(t)
    BY <1>1
  <2>3. \A i \in 1 .. n : i \in 1 .. n + Len(t)
    BY <1>1
  <2>4. ASSUME NEW i \in places(s \o t, token)
        PROVE  i \in places(s, token) \cup behind
    <3>1. i \in 1 .. n + Len(t) /\ (s \o t)[i] = token
      BY <1>1 DEF places
    <3>2. CASE i \in 1 .. n
      BY <1>1, <3>1, <3>2 DEF places
    <3>3. CASE i \notin 1 .. n
      <4>1. i - n \in 1 .. Len(t) /\ n + (i - n) = i
        BY <2>1, <3>1, <3>3
      <4>2. i - n \in places(t, token)
        BY <1>1, <3>1, <4>1 DEF places
      <4> QED
        BY <4>1, <4>2
    <3> QED
      BY <3>2, <3>3
  <2>5. places(s, token) \subseteq places(s \o t, token)
    BY <1>1, <2>3 DEF places
  <2>6. behind \subseteq places(s \o t, token)
    BY <1>1, <2>2 DEF places
  <2> QED
    BY <2>4, <2>5, <2>6
<1>6. places(s, token) \cap behind = {}
  BY <1>1 DEF places
<1>7. Cardinality(places(s, token) \cup behind) = Cardinality(places(s, token)) + Cardinality(behind)
  <2> DEFINE P == places(s, token)
  <2>1. Cardinality(P) \in Nat /\ Cardinality(behind) \in Nat
    BY <1>2, <1>4 DEF tally
  <2>2. Cardinality(P \cap behind) = 0
    BY <1>6, FS_EmptySet
  <2>3. IsFiniteSet(P) /\ IsFiniteSet(behind)
    BY <1>2, <1>4
  <2> HIDE DEF P, behind
  <2>4. Cardinality(P \cup behind) = Cardinality(P) + Cardinality(behind) - Cardinality(P \cap behind)
    BY <2>3, FS_Union
  <2>5. Cardinality(P \cup behind) = Cardinality(P) + Cardinality(behind)
    BY <2>1, <2>2, <2>4
  <2> QED
    BY <2>5 DEF P
<1> QED
  BY <1>4, <1>5, <1>7 DEF tally

\* What one token counts for.
weight(token) == IF token = autoleftparen THEN 1 ELSE IF token = autorightparen THEN -1 ELSE 0

LEMMA TallyOfOne ==
    ASSUME NEW x, NEW token
    PROVE  tally(<<x>>, token) = IF x = token THEN 1 ELSE 0
<1>1. Len(<<x>>) = 1 /\ <<x>>[1] = x
  OBVIOUS
<1>2. places(<<x>>, token) = IF x = token THEN {1} ELSE {}
  BY <1>1 DEF places
<1> QED
  BY <1>2, FS_EmptySet, FS_Singleton DEF tally

LEMMA BalanceFacts ==
    /\ balance(<<>>) = 0
    /\ \A x : balance(<<x>>) = weight(x)
    /\ \A s \in Seq(Injected) : balance(s) \in Int
    /\ \A s, t \in Seq(Injected) : balance(s \o t) = balance(s) + balance(t)
<1>1. balance(<<>>) = 0
  <2>1. \A token : places(<<>>, token) = {}
    BY DEF places
  <2>2. Cardinality({}) = 0
    BY FS_EmptySet
  <2>3. \A token : tally(<<>>, token) = 0
    BY <2>1, <2>2 DEF tally
  <2> QED
    BY <2>3 DEF balance
<1>2. \A x : balance(<<x>>) = weight(x)
  BY TallyOfOne DEF balance, weight, autoleftparen, autorightparen
<1>3. \A s \in Seq(Injected) : \A token : tally(s, token) \in Nat
  BY PlacesFinite, LenProperties
<1>4. \A s \in Seq(Injected) : balance(s) \in Int
  BY <1>3 DEF balance
<1>5. ASSUME NEW s \in Seq(Injected), NEW t \in Seq(Injected)
      PROVE  balance(s \o t) = balance(s) + balance(t)
  <2>1. \A token : tally(s \o t, token) = tally(s, token) + tally(t, token)
    BY TallyOfConcat
  <2>2. \A token : tally(s, token) \in Nat /\ tally(t, token) \in Nat
    BY <1>3
  <2>3. /\ tally(s \o t, autoleftparen) = tally(s, autoleftparen) + tally(t, autoleftparen)
        /\ tally(s \o t, autorightparen) = tally(s, autorightparen) + tally(t, autorightparen)
    BY <2>1
  <2> QED
    BY <2>2, <2>3 DEF balance
<1> QED
  BY <1>1, <1>2, <1>4, <1>5

\* The first of the injected tokens takes its share with it.
LEMMA BalanceOfTail ==
    ASSUME NEW s \in Seq(Injected), s # <<>>
    PROVE  /\ Head(s) \in Injected /\ Tail(s) \in Seq(Injected)
           /\ balance(s) = weight(Head(s)) + balance(Tail(s))
<1>1. Head(s) \in Injected /\ Tail(s) \in Seq(Injected) /\ s = <<Head(s)>> \o Tail(s)
  BY HeadTailProperties, ConcatProperties
<1>2. <<Head(s)>> \in Seq(Injected)
  BY <1>1
<1> QED
  BY <1>1, <1>2, BalanceFacts

\* An injected line closes and opens as many blocks as are open less or more.
LEMMA BalanceOfInjections ==
    ASSUME NEW open, Ascending(open), NEW column \in Nat
    PROVE  /\ injections(open, column) \in Seq(Injected)
           /\ balance(injections(open, column)) = Len(indentations(open, column)) - Len(open)
<1> DEFINE k == kept(open, column)
           closing == [i \in 1 .. Len(open) - k |-> autorightparen]
           opening == IF opens_P(open, column) THEN <<autoleftparen>> ELSE <<>>
<1>1. k \in 1 .. Len(open) /\ Len(open) \in Nat /\ open \in Seq(Nat)
  BY KeptStops, LenProperties DEF Ascending
<1>2. injections(open, column) = opening \o closing
  BY DEF injections
<1>3. indentations(open, column) = IF opens_P(open, column) THEN Append(SubSeq(open, 1, k), column)
                                   ELSE SubSeq(open, 1, k)
  BY DEF indentations
<1> HIDE DEF k
<1>4. opening \in Seq(Injected) /\ balance(opening) = IF opens_P(open, column) THEN 1 ELSE 0
  <2>1. <<autoleftparen>> \in Seq(Injected) /\ <<>> \in Seq(Injected)
    BY EmptySeq DEF Injected
  <2>2. weight(autoleftparen) = 1
    BY DEF weight
  <2> QED
    BY <2>1, <2>2, BalanceFacts
<1>5. closing \in Seq(Injected) /\ balance(closing) = -(Len(open) - k)
  <2> DEFINE m == Len(open) - k
  <2>1. m \in Nat
    BY <1>1
  <2>2. closing \in Seq(Injected) /\ Len(closing) = m
    BY <2>1 DEF Injected
  <2>3. \A i \in 1 .. m : closing[i] = autorightparen
    BY <2>1
  <2> HIDE DEF closing, m
  <2>4. autoleftparen # autorightparen
    BY DEF autoleftparen, autorightparen
  <2>5. places(closing, autorightparen) = 1 .. m /\ places(closing, autoleftparen) = {}
    BY <2>2, <2>3, <2>4 DEF places
  <2>6. Cardinality(1 .. m) = m /\ Cardinality({}) = 0
    <3>1. Cardinality(1 .. m) = IF 1 > m THEN 0 ELSE m - 1 + 1
      BY <2>1, FS_Interval
    <3> QED
      BY <2>1, <3>1, FS_EmptySet
  <2> QED
    BY <2>1, <2>2, <2>5, <2>6 DEF balance, tally, m
<1> HIDE DEF opening, closing
<1>6. injections(open, column) \in Seq(Injected)
      /\ balance(injections(open, column)) = balance(opening) + balance(closing)
  BY <1>2, <1>4, <1>5, BalanceFacts, ConcatProperties
<1>7. Len(indentations(open, column)) = IF opens_P(open, column) THEN k + 1 ELSE k
  <2>1. SubSeq(open, 1, k) \in Seq(Nat) /\ Len(SubSeq(open, 1, k)) = k
    BY <1>1
  <2>2. Len(Append(SubSeq(open, 1, k), column)) = k + 1
    BY <2>1, AppendProperties
  <2> QED
    BY <1>3, <2>1, <2>2
<1> QED
  BY <1>1, <1>4, <1>5, <1>6, <1>7

\* The depth of the tokens so far, one token later.
LEMMA DepthOfAppend ==
    ASSUME NEW V, NEW tokens \in Seq(V), NEW e
    PROVE  /\ depthOf(tokens) \in Int
           /\ depthOf(Append(tokens, e)) = depthOf(tokens) + weight(e.token)
<1> DEFINE longer == Append(tokens, e)
           n == Len(tokens)
           of(s, token) == {i \in DOMAIN s : s[i].token = token}
<1>1. /\ n \in Nat /\ DOMAIN tokens = 1 .. n
  BY LenProperties
<1>2. /\ DOMAIN longer = 1 .. n + 1 /\ longer[n + 1] = e
      /\ \A i \in 1 .. n : longer[i] = tokens[i]
  BY <1>1
<1> HIDE DEF longer, n
<1>3. ASSUME NEW token
      PROVE  /\ count(tokens, token) \in Nat
             /\ count(longer, token) = count(tokens, token) + (IF e.token = token THEN 1 ELSE 0)
  <2>1. IsFiniteSet(of(tokens, token))
    <3>1. IsFiniteSet(1 .. n) /\ of(tokens, token) \in SUBSET (1 .. n)
      BY <1>1, FS_Interval
    <3> QED
      BY <3>1, FS_Subset
  <2>2. n + 1 \notin of(tokens, token)
    BY <1>1
  <2>3. of(longer, token) = IF e.token = token THEN of(tokens, token) \cup {n + 1} ELSE of(tokens, token)
    <3>1. \A i \in 1 .. n + 1 : i \in 1 .. n \/ i = n + 1
      BY <1>1
    <3>2. \A i \in 1 .. n : i \in 1 .. n + 1
      BY <1>1
    <3> QED
      BY <1>1, <1>2, <3>1, <3>2
  <2>4. Cardinality(of(tokens, token)) \in Nat
    BY <2>1, FS_CardinalityType
  <2>5. Cardinality(of(tokens, token) \cup {n + 1}) = Cardinality(of(tokens, token)) + 1
    BY <2>1, <2>2, FS_AddElement
  <2>6. /\ count(tokens, token) = Cardinality(of(tokens, token))
        /\ count(longer, token) = Cardinality(of(longer, token))
    BY DEF count
  <2> HIDE DEF of
  <2>7. CASE e.token = token
    BY <2>3, <2>4, <2>5, <2>6, <2>7
  <2>8. CASE e.token # token
    BY <2>3, <2>4, <2>6, <2>8
  <2> QED
    BY <2>7, <2>8
<1>4. /\ count(tokens, autoleftparen) \in Nat /\ count(tokens, autorightparen) \in Nat
      /\ count(longer, autoleftparen)
           = count(tokens, autoleftparen) + (IF e.token = autoleftparen THEN 1 ELSE 0)
      /\ count(longer, autorightparen)
           = count(tokens, autorightparen) + (IF e.token = autorightparen THEN 1 ELSE 0)
  BY <1>3
<1> QED
  BY <1>4 DEF depthOf, weight, longer, autoleftparen, autorightparen
-----------------------------------------------------------------------------
\* Where a line begins, and what stands before a place in its line.
Line(p) == p - columnOf(p) .. p - 1
Begins(q) == q <= Len(input) /\ ~blank_P(input[q]) /\ \A r \in Line(q) : input[r] = space

LEMMA FirstColumn == columnOf(1) = 0
<1>1. lineStart(1) = {}
  BY DEF lineStart
<1> QED
  BY <1>1 DEF columnOf

LEMMA LineStarts ==
    ASSUME NEW p \in Nat \ {0}
    PROVE  lineStart(p + 1) = IF input[p] = newline THEN {p} ELSE lineStart(p)
<1>1. \A q \in 1 .. p : q \in 1 .. p - 1 \/ q = p
  OBVIOUS
<1>2. \A q \in 1 .. p - 1 : p \in q + 1 .. p
  OBVIOUS
<1>3. (p + 1) - 1 = p /\ p \in 1 .. p /\ \A q \in 1 .. p - 1 : q \in 1 .. p
  OBVIOUS
<1>4. CASE input[p] = newline
  <2>1. \A r \in p + 1 .. p : input[r] # newline
    OBVIOUS
  <2> QED
    BY <1>1, <1>2, <1>3, <1>4, <2>1 DEF lineStart
<1>5. CASE input[p] # newline
  <2>1. \A q \in 1 .. p - 1 : \A r \in q + 1 .. p : r \in q + 1 .. p - 1 \/ r = p
    OBVIOUS
  <2>2. \A q \in 1 .. p - 1 : \A r \in q + 1 .. p - 1 : r \in q + 1 .. p
    OBVIOUS
  <2>3. ASSUME NEW q \in lineStart(p + 1)
        PROVE  q \in lineStart(p)
    BY <1>1, <1>3, <1>5, <2>2, <2>3 DEF lineStart
  <2>4. ASSUME NEW q \in lineStart(p)
        PROVE  q \in lineStart(p + 1)
    BY <1>3, <1>5, <2>1, <2>4 DEF lineStart
  <2> QED
    BY <1>5, <2>3, <2>4
<1> QED
  BY <1>4, <1>5

LEMMA NextColumn ==
    ASSUME NEW p \in Nat \ {0}
    PROVE  columnOf(p + 1) = IF input[p] = newline THEN 0 ELSE columnOf(p) + 1
<1> DEFINE start(s) == IF s = {} THEN 0 ELSE CHOOSE q \in s : TRUE
<1>1. start({p}) = p
  OBVIOUS
<1>2. columnOf(p + 1) = p - start(lineStart(p + 1))
  BY DEF columnOf
<1>3. columnOf(p) = p - 1 - start(lineStart(p))
  BY DEF columnOf
<1>4. start(lineStart(p)) \in Int
  <2>1. lineStart(p) \subseteq Int
    BY DEF lineStart
  <2> QED
    BY <2>1
<1> HIDE DEF start
<1>5. CASE input[p] = newline
  BY <1>1, <1>2, <1>5, LineStarts
<1>6. CASE input[p] # newline
  <2>1. lineStart(p + 1) = lineStart(p)
    BY <1>6, LineStarts
  <2> QED
    BY <1>2, <1>3, <1>4, <1>6, <2>1
<1> QED
  BY <1>5, <1>6

LEMMA ColumnType ==
    ASSUME NEW p \in Nat \ {0}
    PROVE  columnOf(p) \in 0 .. p - 1
<1>1. lineStart(p) \subseteq 1 .. p - 1
  BY DEF lineStart
<1>2. CASE lineStart(p) = {}
  BY <1>2 DEF columnOf
<1>3. CASE lineStart(p) # {}
  <2> DEFINE q == CHOOSE q \in lineStart(p) : TRUE
  <2>1. q \in 1 .. p - 1
    BY <1>1, <1>3
  <2>2. columnOf(p) = p - 1 - q
    BY <1>3 DEF columnOf
  <2> HIDE DEF q
  <2> QED
    BY <2>1, <2>2
<1> QED
  BY <1>2, <1>3

\* The beginnings up to a place, and one place further.
LEMMA BeginningsFacts ==
    ASSUME NEW p \in Nat
    PROVE  /\ beginnings(p) = {q \in 1 .. p : Begins(q)}
           /\ beginnings(p + 1) = IF Begins(p + 1) THEN beginnings(p) \cup {p + 1} ELSE beginnings(p)
           /\ p + 1 \notin beginnings(p)
           /\ beginnings(p) \in SUBSET (1 .. p)
           /\ IsFiniteSet(beginnings(p))
<1>1. \A n : beginnings(n) = {q \in 1 .. n : Begins(q)}
  BY DEF beginnings, Begins, Line
<1>2. \A q \in 1 .. p + 1 : q \in 1 .. p \/ q = p + 1
  OBVIOUS
<1>3. p + 1 \in 1 .. p + 1 /\ p + 1 \notin 1 .. p /\ \A q \in 1 .. p : q \in 1 .. p + 1
  OBVIOUS
<1>4. IsFiniteSet(1 .. p) /\ beginnings(p) \in SUBSET (1 .. p)
  BY <1>1, FS_Interval
<1>5. IsFiniteSet(beginnings(p))
  BY <1>4, FS_Subset
<1>6. beginnings(p + 1) = IF Begins(p + 1) THEN beginnings(p) \cup {p + 1} ELSE beginnings(p)
  BY <1>1, <1>2, <1>3
<1> QED
  BY <1>1, <1>3, <1>4, <1>5, <1>6
LEMMA BeginningsType == \A p : \A q \in beginnings(p) : q \in 1 .. p /\ q \in Nat
BY DEF beginnings

LEMMA EarlierBeginnings ==
    ASSUME NEW p \in Nat, NEW x \in 1 .. p
    PROVE  \A r : r \in beginnings(x) <=> r \in beginnings(p) /\ r <= x
<1>1. \A n : beginnings(n) = {q \in 1 .. n : Begins(q)}
  BY DEF beginnings, Begins, Line
<1>2. \A r : r \in 1 .. x <=> r \in 1 .. p /\ r <= x
  OBVIOUS
<1>3. beginnings(x) = {q \in 1 .. x : Begins(q)} /\ beginnings(p) = {q \in 1 .. p : Begins(q)}
  BY <1>1
<1> QED
  BY <1>2, <1>3
-----------------------------------------------------------------------------
\* The blocks of the file that are open at a place.
StillOpen(q, p) == \A r \in beginnings(p) : r > q => columnOf(r) >= columnOf(q)
openBlocks(p) == {q \in beginnings(p) : Block(q) /\ StillOpen(q, p)}
columns(p) == {columnOf(q) : q \in openBlocks(p)}

\* Two open blocks are not in one column.
LEMMA ColumnsDiffer ==
    ASSUME NEW p \in Nat, NEW a \in openBlocks(p), NEW b \in openBlocks(p), columnOf(a) = columnOf(b)
    PROVE  a = b
<1>1. /\ a \in beginnings(p) /\ b \in beginnings(p) /\ a \in 1 .. p /\ b \in 1 .. p
      /\ Block(a) /\ Block(b) /\ StillOpen(a, p) /\ StillOpen(b, p)
  BY BeginningsFacts DEF openBlocks
<1>2. \A x \in 1 .. p : \A r : r \in beginnings(x) <=> r \in beginnings(p) /\ r <= x
  BY EarlierBeginnings
<1>3. ASSUME NEW x \in 1 .. p, NEW y \in 1 .. p, x \in beginnings(p), y \in beginnings(p), x < y,
             columnOf(x) = columnOf(y), StillOpen(x, p)
      PROVE  ~Block(y)
  <2>1. x \in beginnings(y) \ {y}
    BY <1>2, <1>3
  <2>2. \A r \in beginnings(y) : r > x => columnOf(r) >= columnOf(y)
    BY <1>2, <1>3 DEF StillOpen
  <2> QED
    BY <1>3, <2>1, <2>2 DEF Block
<1> QED
  BY <1>1, <1>3

\* A line that begins begins a block exactly where none of its column is open.
LEMMA BlockFacts ==
    ASSUME NEW p \in Nat, Begins(p + 1)
    PROVE  Block(p + 1) <=> columnOf(p + 1) > 0 /\ columnOf(p + 1) \notin columns(p)
<1> DEFINE q == p + 1
           c == columnOf(q)
           same == {x \in beginnings(p) : columnOf(x) = c /\ StillOpen(x, p)}
<1>1. q \in Nat \ {0} /\ c \in Nat
  BY ColumnType
<1>2. beginnings(q) = beginnings(p) \cup {q} /\ q \notin beginnings(p)
  BY BeginningsFacts
<1>3. Block(q) <=> c > 0 /\ same = {}
  <2>1. beginnings(q) \ {q} = beginnings(p)
    BY <1>2
  <2>2. \A x \in beginnings(p) : columnOf(x) = c =>
            (StillOpen(x, p) <=> \A r \in beginnings(q) : r > x => columnOf(r) >= c)
    BY <1>1, <1>2 DEF StillOpen
  <2> QED
    BY <2>1, <2>2 DEF Block
<1>4. \A x \in openBlocks(p) : columnOf(x) = c => x \in same
  BY DEF openBlocks
<1>5. ASSUME same # {}, c > 0
      PROVE  c \in columns(p)
  <2>1. same \in SUBSET (0 .. p)
    <3>1. beginnings(p) \in SUBSET (1 .. p)
      BY BeginningsType
    <3>2. 1 .. p \subseteq 0 .. p
      OBVIOUS
    <3> QED
      BY <3>1, <3>2
  <2>2. PICK x \in same : \A y \in same : x <= y
    <3> HIDE DEF same
    <3> QED
      BY <1>5, <2>1, ExtremeElements
  <2>3. x \in 1 .. p /\ x \in Nat /\ columnOf(x) = c /\ StillOpen(x, p) /\ x \in beginnings(p)
    BY BeginningsType
  <2>4. \A r : r \in beginnings(x) <=> r \in beginnings(p) /\ r <= x
    BY <2>3, EarlierBeginnings
  <2>5. ASSUME NEW y \in beginnings(x) \ {x}, columnOf(y) = c,
               \A r \in beginnings(x) : r > y => columnOf(r) >= c
        PROVE  FALSE
    <3>1. y \in beginnings(p) /\ y < x /\ y \in Nat
      BY <2>3, <2>4, BeginningsType
    <3>2. \A r \in beginnings(p) : r > y => columnOf(r) >= columnOf(y)
      <4> SUFFICES ASSUME NEW r \in beginnings(p), r > y
                   PROVE  columnOf(r) >= c
        BY <2>5
      <4>1. r \in Nat
        BY BeginningsType
      <4>2. CASE r <= x
        BY <2>4, <2>5, <4>2
      <4>3. CASE r > x
        BY <2>3, <4>3 DEF StillOpen
      <4> QED
        BY <2>3, <4>1, <4>2, <4>3
    <3>3. y \in same
      BY <2>5, <3>1, <3>2 DEF StillOpen
    <3> QED
      BY <2>2, <2>3, <3>1, <3>3
  <2>6. Block(x)
    BY <1>5, <2>3, <2>5 DEF Block
  <2> QED
    BY <2>3, <2>6 DEF columns, openBlocks
<1> QED
  BY <1>3, <1>4, <1>5 DEF columns

\* The columns of the open blocks, one beginning later.
LEMMA ColumnsOfNext ==
    ASSUME NEW p \in Nat, Begins(p + 1)
    PROVE  columns(p + 1) = {c \in columns(p) : c <= columnOf(p + 1)}
                              \cup (IF columnOf(p + 1) > 0 THEN {columnOf(p + 1)} ELSE {})
<1> DEFINE q == p + 1
           c == columnOf(q)
<1>1. q \in Nat \ {0} /\ c \in Nat
  BY ColumnType
<1>2. beginnings(q) = beginnings(p) \cup {q} /\ q \notin beginnings(p) /\ beginnings(p) \in SUBSET (1 .. p)
  BY BeginningsFacts
<1>3. \A x \in beginnings(p) : columnOf(x) \in Nat /\ x \in Nat /\ x < q
  BY <1>2, ColumnType
<1>4. \A x \in beginnings(p) : StillOpen(x, q) <=> StillOpen(x, p) /\ columnOf(x) <= c
  BY <1>1, <1>2, <1>3 DEF StillOpen
<1>5. StillOpen(q, q)
  BY <1>2, <1>3, <1>1 DEF StillOpen
<1>6. openBlocks(q) = {x \in openBlocks(p) : columnOf(x) <= c} \cup (IF Block(q) THEN {q} ELSE {})
  BY <1>2, <1>4, <1>5 DEF openBlocks
<1>7. columns(q) = {d \in columns(p) : d <= c} \cup (IF Block(q) THEN {c} ELSE {})
  BY <1>6 DEF columns
<1>8. Block(q) <=> c > 0 /\ c \notin columns(p)
  BY BlockFacts
<1>9. \A d \in columns(p) : d > 0
  <2>1. \A x \in openBlocks(p) : columnOf(x) > 0
    BY DEF openBlocks, Block
  <2> QED
    BY <2>1 DEF columns
<1> QED
  BY <1>1, <1>7, <1>8, <1>9
-----------------------------------------------------------------------------
\* The columns of the open blocks but the outermost.
inner(open) == {open[i] : i \in 2 .. Len(open)}

LEMMA InnerFacts ==
    ASSUME NEW open, Ascending(open), NEW column \in Nat
    PROVE  inner(indentations(open, column))
             = {d \in inner(open) : d <= column} \cup (IF column > 0 THEN {column} ELSE {})
<1> DEFINE k == kept(open, column)
           outer == SubSeq(open, 1, k)
           new == indentations(open, column)
<1>1. /\ open \in Seq(Nat) /\ DOMAIN open = 1 .. Len(open) /\ Len(open) \in Nat /\ open[1] = 0
      /\ \A i \in 1 .. Len(open) : open[i] \in Nat
      /\ \A i, j \in 1 .. Len(open) : i < j => open[i] < open[j]
  BY DEF Ascending
<1>2. k \in 1 .. Len(open) /\ open[k] <= column
  BY <1>1, KeptStops
<1>3. \A i \in k + 1 .. Len(open) : open[i] > column
  BY KeptStops
<1> HIDE DEF k
<1>4. \A i \in 1 .. k : open[i] <= column
  BY <1>1, <1>2
<1>5. {d \in inner(open) : d <= column} = {open[i] : i \in 2 .. k}
  <2>1. \A i \in 2 .. Len(open) : i \in 2 .. k \/ i \in k + 1 .. Len(open)
    BY <1>1, <1>2
  <2>2. \A i \in k + 1 .. Len(open) : ~(open[i] <= column)
    <3>1. \A i \in k + 1 .. Len(open) : open[i] \in Nat
      BY <1>1, <1>2
    <3> QED
      BY <1>3, <3>1
  <2>3. \A i \in 2 .. k : i \in 2 .. Len(open) /\ open[i] <= column
    BY <1>1, <1>2, <1>4
  <2> QED
    BY <2>1, <2>2, <2>3 DEF inner
<1>6. Len(outer) = k /\ outer \in Seq(Nat) /\ \A i \in 1 .. k : outer[i] = open[i]
  BY <1>1, <1>2
<1>7. CASE opens_P(open, column)
  <2>1. new = Append(outer, column)
    BY <1>7 DEF indentations, k
  <2>2. column > open[k] /\ column > 0
    BY <1>1, <1>2, <1>7 DEF opens_P, k
  <2>3. Len(new) = k + 1 /\ new[k + 1] = column /\ \A i \in 1 .. k : new[i] = open[i]
    <3> HIDE DEF outer, new
    <3> QED
      BY <1>2, <1>6, <2>1, AppendProperties
  <2> HIDE DEF new, outer
  <2>4. \A i \in 2 .. k + 1 : i \in 2 .. k \/ i = k + 1
    BY <1>2
  <2>5. k + 1 \in 2 .. k + 1 /\ \A i \in 2 .. k : i \in 2 .. k + 1 /\ i \in 1 .. k
    BY <1>2
  <2>6. inner(new) = {open[i] : i \in 2 .. k} \cup {column}
    BY <2>3, <2>4, <2>5 DEF inner
  <2> QED
    BY <1>5, <2>2, <2>6 DEF new
<1>8. CASE ~opens_P(open, column)
  <2>1. new = outer
    BY <1>8 DEF indentations, k
  <2>2. column = open[k]
    BY <1>1, <1>2, <1>8 DEF opens_P, k
  <2> HIDE DEF new, outer
  <2>3. inner(new) = {open[i] : i \in 2 .. k}
    <3>1. \A i \in 2 .. k : i \in 1 .. k
      OBVIOUS
    <3> QED
      BY <1>6, <2>1, <3>1 DEF inner
  <2>4. column > 0 => column \in {open[i] : i \in 2 .. k}
    <3>1. column > 0 => k \in 2 .. k
      BY <1>1, <1>2, <2>2
    <3> QED
      BY <2>2, <3>1
  <2> QED
    BY <1>5, <2>3, <2>4 DEF new
<1> QED
  BY <1>7, <1>8

\* There are as many open blocks as columns of them.
LEMMA DepthFacts ==
    ASSUME NEW open, Ascending(open), NEW p \in Nat, inner(open) = columns(p)
    PROVE  depthAt(p) = Len(open) - 1
<1> DEFINE n == Len(open) - 1
           f == [i \in 1 .. n |-> open[i + 1]]
           g == [q \in openBlocks(p) |-> columnOf(q)]
<1>1. /\ open \in Seq(Nat) /\ DOMAIN open = 1 .. Len(open) /\ Len(open) \in Nat /\ n \in Nat
      /\ \A i \in 1 .. Len(open) : open[i] \in Nat
      /\ \A i, j \in 1 .. Len(open) : i < j => open[i] < open[j]
  BY DEF Ascending
<1>2. depthAt(p) = Cardinality(openBlocks(p))
  BY DEF depthAt, openBlocks, StillOpen
<1>3. IsFiniteSet(openBlocks(p))
  <2>1. openBlocks(p) \in SUBSET beginnings(p)
    BY DEF openBlocks
  <2> QED
    BY <2>1, BeginningsFacts, FS_Subset
<1>4. g \in Bijection(openBlocks(p), columns(p))
  <2>1. g \in [openBlocks(p) -> columns(p)]
    BY DEF columns
  <2>2. \A a, b \in openBlocks(p) : g[a] = g[b] => a = b
    BY ColumnsDiffer
  <2>3. \A d \in columns(p) : \E a \in openBlocks(p) : g[a] = d
    BY DEF columns
  <2> HIDE DEF g
  <2>4. IsInjective(g)
    BY <2>1, <2>2 DEF IsInjective
  <2> QED
    BY <2>1, <2>3, <2>4 DEF Bijection, Injection, Surjection
<1>5. f \in Bijection(1 .. n, inner(open))
  <2>1. \A i \in 1 .. n : i + 1 \in 2 .. Len(open) /\ i + 1 \in 1 .. Len(open)
    BY <1>1
  <2>2. \A j \in 2 .. Len(open) : j - 1 \in 1 .. n /\ (j - 1) + 1 = j
    BY <1>1
  <2>3. f \in [1 .. n -> inner(open)]
    BY <2>1 DEF inner
  <2>4. \A a, b \in 1 .. n : f[a] = f[b] => a = b
    <3> SUFFICES ASSUME NEW a \in 1 .. n, NEW b \in 1 .. n, open[a + 1] = open[b + 1], a # b
                 PROVE  FALSE
      OBVIOUS
    <3>1. a + 1 < b + 1 \/ b + 1 < a + 1
      OBVIOUS
    <3>2. open[a + 1] < open[b + 1] \/ open[b + 1] < open[a + 1]
      BY <1>1, <2>1, <3>1
    <3>3. open[a + 1] \in Nat
      BY <1>1, <2>1
    <3> QED
      BY <3>2, <3>3
  <2>5. \A d \in inner(open) : \E a \in 1 .. n : f[a] = d
    BY <2>2 DEF inner
  <2> HIDE DEF f, n
  <2>6. IsInjective(f)
    BY <2>3, <2>4 DEF IsInjective
  <2> QED
    BY <2>3, <2>5, <2>6 DEF Bijection, Injection, Surjection
<1>6. Cardinality(1 .. n) = n /\ IsFiniteSet(1 .. n)
  <2>1. n \in Nat
    BY <1>1
  <2> HIDE DEF n
  <2>2. IsFiniteSet(1 .. n) /\ Cardinality(1 .. n) = IF 1 > n THEN 0 ELSE n - 1 + 1
    BY <2>1, FS_Interval
  <2> QED
    BY <2>1, <2>2
<1> HIDE DEF f, g, n
<1>7. ExistsBijection(openBlocks(p), columns(p)) /\ ExistsBijection(1 .. n, inner(open))
  BY <1>4, <1>5 DEF ExistsBijection
<1>8. Cardinality(columns(p)) = Cardinality(openBlocks(p))
  BY <1>3, <1>7, FS_Bijection
<1>9. Cardinality(inner(open)) = n
  BY <1>6, <1>7, FS_Bijection
<1> QED
  BY <1>2, <1>8, <1>9 DEF n
-----------------------------------------------------------------------------
\* The scanner is at a place: its column is that of the file, it has seen what
\* the line begins with, and the blocks of all lines so far are open.
AtPlace(p, c, b, open) ==
    /\ p \in Nat \ {0}
    /\ p <= Len(input) =>
           /\ c = columnOf(p)
           /\ b => \A r \in Line(p) : input[r] = space
           /\ ~b => Begins(p) \/ \E r \in Line(p) : input[r] # space
           /\ inner(open) = columns(IF b THEN p - 1 ELSE p)

LEMMA SameBeginnings ==
    ASSUME NEW p \in Nat, ~Begins(p + 1)
    PROVE  columns(p + 1) = columns(p)
<1>1. beginnings(p + 1) = beginnings(p)
  BY BeginningsFacts
<1> QED
  BY <1>1 DEF columns, openBlocks, StillOpen

\* Behind a newline.
LEMMA PlaceOfNewline ==
    ASSUME NEW p, NEW c, NEW b \in BOOLEAN, NEW open, AtPlace(p, c, b, open),
           p <= Len(input), input[p] = newline
    PROVE  AtPlace(p + 1, 0, TRUE, open)
<1>1. p \in Nat \ {0} /\ (p + 1) - 1 = p /\ (p - 1) + 1 = p /\ p - 1 \in Nat
  BY DEF AtPlace
<1>2. columnOf(p + 1) = 0
  BY <1>1, NextColumn
<1>3. Line(p + 1) = {}
  BY <1>1, <1>2 DEF Line
<1>4. ~Begins(p)
  BY DEF Begins, blank_P
<1>5. columns(p) = columns(p - 1)
  BY <1>1, <1>4, SameBeginnings
<1>6. inner(open) = columns(p)
  BY <1>5 DEF AtPlace
<1> QED
  BY <1>1, <1>2, <1>3, <1>6 DEF AtPlace

\* Behind another character, which is not the first of its line.
LEMMA PlaceOfNext ==
    ASSUME NEW p, NEW c, NEW b \in BOOLEAN, NEW open, AtPlace(p, c, b, open),
           p <= Len(input), input[p] # newline, b => input[p] = space
    PROVE  AtPlace(p + 1, c + 1, b, open)
<1>1. p \in Nat \ {0} /\ (p + 1) - 1 = p /\ (p - 1) + 1 = p /\ p - 1 \in Nat
  BY DEF AtPlace
<1>2. columnOf(p + 1) = columnOf(p) + 1 /\ columnOf(p) \in 0 .. p - 1 /\ c = columnOf(p)
  BY <1>1, NextColumn, ColumnType DEF AtPlace
<1>3. \A r : r \in Line(p + 1) <=> r \in Line(p) \/ r = p
  BY <1>1, <1>2 DEF Line
<1>4. CASE b
  <2>1. \A r \in Line(p + 1) : input[r] = space
    BY <1>3, <1>4 DEF AtPlace
  <2>2. ~Begins(p)
    BY <1>4 DEF Begins, blank_P
  <2>3. columns(p) = columns(p - 1)
    BY <1>1, <2>2, SameBeginnings
  <2>4. inner(open) = columns(p)
    BY <1>4, <2>3 DEF AtPlace
  <2> QED
    BY <1>1, <1>2, <1>4, <2>1, <2>4 DEF AtPlace
<1>5. CASE ~b
  <2>1. \E r \in Line(p + 1) : input[r] # space
    <3>1. CASE Begins(p)
      <4>1. input[p] # space
        BY <3>1 DEF Begins, blank_P
      <4> QED
        BY <1>3, <4>1
    <3>2. CASE \E r \in Line(p) : input[r] # space
      BY <1>3, <3>2
    <3> QED
      BY <1>5, <3>1, <3>2 DEF AtPlace
  <2>2. ~Begins(p + 1)
    BY <2>1 DEF Begins
  <2>3. columns(p + 1) = columns(p)
    BY <1>1, <2>2, SameBeginnings
  <2>4. inner(open) = columns(p + 1)
    BY <1>5, <2>3 DEF AtPlace
  <2> QED
    BY <1>1, <1>2, <1>5, <2>1, <2>4 DEF AtPlace
<1> QED
  BY <1>4, <1>5

\* At the first character of a line, when its indentation was seen.
LEMMA PlaceOfFirst ==
    ASSUME NEW p, NEW c \in Nat, NEW open, Ascending(open), AtPlace(p, c, TRUE, open),
           p <= Len(input) => ~blank_P(input[p])
    PROVE  AtPlace(p, c, FALSE, indentations(open, c))
<1>1. p \in Nat \ {0} /\ (p - 1) + 1 = p /\ p - 1 \in Nat
  BY DEF AtPlace
<1> SUFFICES ASSUME p <= Len(input)
             PROVE  /\ c = columnOf(p) /\ Begins(p)
                    /\ inner(indentations(open, c)) = columns(p)
  BY <1>1 DEF AtPlace
<1>2. c = columnOf(p) /\ inner(open) = columns(p - 1)
  BY DEF AtPlace
<1>3. Begins(p)
  BY DEF AtPlace, Begins
<1>4. columns(p) = {d \in columns(p - 1) : d <= columnOf(p)}
                     \cup (IF columnOf(p) > 0 THEN {columnOf(p)} ELSE {})
  <2>1. Begins((p - 1) + 1)
    BY <1>1, <1>3
  <2>2. columns((p - 1) + 1) = {d \in columns(p - 1) : d <= columnOf((p - 1) + 1)}
           \cup (IF columnOf((p - 1) + 1) > 0 THEN {columnOf((p - 1) + 1)} ELSE {})
    BY <1>1, <2>1, ColumnsOfNext
  <2> QED
    BY <1>1, <2>2
<1> QED
  BY <1>2, <1>3, <1>4, InnerFacts
-----------------------------------------------------------------------------
Tokens == [token : Injected \cup {symbol, string, leftparen, EOF, "error"}, from : Nat]

LEMMA Appended ==
    ASSUME NEW V, NEW s \in Seq(V), NEW e \in V
    PROVE  /\ Append(s, e) \in Seq(V) /\ Append(s, e) # <<>>
           /\ Append(s, e)[Len(Append(s, e))] = e
BY AppendProperties, LenProperties

PlaceInv ==
    /\ input \in Seq(Characters)
    /\ B_beginning_of_line \in BOOLEAN
    /\ AtPlace(position, column_number, B_beginning_of_line, open_indentations)

\* The tokens and those that are still to be delivered are as deep as blocks are
\* open.
BalanceInv ==
    /\ injected_input_values \in Seq(Injected)
    /\ delivered \in Seq(Tokens) /\ from \in Nat
    /\ depthOf(delivered) + balance(injected_input_values) = Len(open_indentations) - 1

\* No token is begun before what was injected is delivered, nor before the
\* indentation of its line was seen.
TokenInv ==
    /\ ctl \in {"whitespace", "token"} => injected_input_values = <<>>
    /\ ctl = "token" => ~blank_P(fgetc) /\ (fgetc # EOF => ~B_beginning_of_line)
    /\ ctl \in {symbol, string} => from > 0 /\ depthOf(delivered) = depthAt(from)
    /\ ctl # "" => ~ended_P

LastInv ==
    LET last == delivered[Len(delivered)]
    IN  delivered # <<>> =>
            /\ last.from > 0 /\ last.token # "error" => depthOf(delivered) = depthAt(last.from)
            /\ last.token = EOF => depthOf(delivered) = 0 /\ injected_input_values = <<>>

DepthInv == PlaceInv /\ BalanceInv /\ TokenInv /\ LastInv

\* What depends on the file alone.
LEMMA SameFile ==
    ASSUME input' = input
    PROVE  /\ \A p, c, b, open : AtPlace(p, c, b, open)' <=> AtPlace(p, c, b, open)
           /\ \A p : depthAt(p)' = depthAt(p)
<1>1. \A p : columnOf(p)' = columnOf(p)
  BY DEF columnOf, lineStart
<1>2. \A p : beginnings(p)' = beginnings(p)
  BY <1>1 DEF beginnings
<1>3. \A p : Line(p)' = Line(p)
  BY <1>1 DEF Line
<1>4. \A p : Begins(p)' <=> Begins(p)
  BY <1>3 DEF Begins
<1>5. \A p : Block(p)' <=> Block(p)
  BY <1>1, <1>2 DEF Block
<1>6. \A p, q : StillOpen(q, p)' <=> StillOpen(q, p)
  BY <1>1, <1>2 DEF StillOpen
<1>7. \A p : openBlocks(p)' = openBlocks(p)
  BY <1>2, <1>5, <1>6 DEF openBlocks
<1>8. \A p : columns(p)' = columns(p)
  BY <1>1, <1>7 DEF columns
<1>9. \A p : depthAt(p)' = depthAt(p)
  BY <1>1, <1>2, <1>5 DEF depthAt
<1> QED
  BY <1>1, <1>3, <1>4, <1>8, <1>9 DEF AtPlace

\* The character that is read.
LEMMA Fgetc ==
    ASSUME PlaceInv
    PROVE  /\ position \in Nat \ {0}
           /\ fgetc # EOF <=> position <= Len(input)
           /\ position <= Len(input) => fgetc = input[position] /\ fgetc \in Characters
<1>1. position \in Nat \ {0} /\ Len(input) \in Nat
  BY LenProperties DEF PlaceInv, AtPlace
<1>2. position <= Len(input) => input[position] \in Characters
  BY <1>1, ElementOfSeq DEF PlaceInv
<1>3. EOF \notin Characters
  BY DEF EOF, Characters, space, newline, quote, symbolChar, leftparen
<1> QED
  BY <1>1, <1>2, <1>3 DEF fgetc

LEMMA UpdatedPlace ==
    ASSUME IInv, PlaceInv, fgetc # newline, UpdateIndentation(fgetc)
    PROVE  /\ B_beginning_of_line' \in BOOLEAN
           /\ AtPlace(position, column_number, B_beginning_of_line', open_indentations')
           /\ B_beginning_of_line' => blank_P(fgetc) \/ fgetc = EOF
<1>1. /\ position \in Nat \ {0}
      /\ position <= Len(input) => fgetc = input[position]
  BY Fgetc
<1>2. CASE beginsLine_P(fgetc)
  <2>1. B_beginning_of_line = TRUE /\ ~blank_P(fgetc)
    BY <1>2 DEF beginsLine_P, blank_P, PlaceInv
  <2>2. AtPlace(position, column_number, FALSE, indentations(open_indentations, column_number))
    BY <1>1, <2>1, PlaceOfFirst DEF IInv, PlaceInv
  <2>3. /\ B_beginning_of_line' = FALSE
        /\ open_indentations' = indentations(open_indentations, column_number)
    BY <1>2 DEF UpdateIndentation
  <2> QED
    BY <2>2, <2>3
<1>3. CASE ~beginsLine_P(fgetc)
  <2>1. B_beginning_of_line' = B_beginning_of_line /\ open_indentations' = open_indentations
    BY <1>3 DEF UpdateIndentation, PlaceInv
  <2>2. B_beginning_of_line => blank_P(fgetc) \/ fgetc = EOF
    BY <1>3 DEF beginsLine_P, blank_P
  <2> QED
    BY <2>1, <2>2 DEF PlaceInv
<1> QED
  BY <1>2, <1>3

\* A character that stays read.
LEMMA ReadPlace ==
    ASSUME IInv, PlaceInv, Read, Increment(fgetc), input' = input
    PROVE  PlaceInv'
<1>1. /\ position \in Nat \ {0}
      /\ fgetc # EOF <=> position <= Len(input)
      /\ position <= Len(input) => fgetc = input[position]
      /\ Len(input) \in Nat
  BY Fgetc, LenProperties DEF PlaceInv
<1>2. B_beginning_of_line' \in BOOLEAN
      /\ AtPlace(position', column_number', B_beginning_of_line', open_indentations')
  <2>1. CASE fgetc = EOF
    <3>1. position' = position /\ ~(position <= Len(input))
      BY <1>1, <2>1 DEF Read
    <3>2. B_beginning_of_line' \in BOOLEAN
      BY DEF Increment, UpdateIndentation, PlaceInv
    <3> QED
      BY <1>1, <3>1, <3>2 DEF AtPlace
  <2>2. CASE fgetc = newline
    <3>1. position' = position + 1 /\ position <= Len(input) /\ input[position] = newline
      BY <1>1, <2>2 DEF Read, newline, EOF
    <3>2. column_number' = 0 /\ B_beginning_of_line' = TRUE /\ open_indentations' = open_indentations
      BY <2>2 DEF Increment
    <3> QED
      BY <3>1, <3>2, PlaceOfNewline DEF PlaceInv
  <2>3. CASE fgetc # EOF /\ fgetc # newline
    <3>1. position' = position + 1 /\ position <= Len(input) /\ input[position] = fgetc
      BY <1>1, <2>3 DEF Read
    <3>2. column_number' = column_number + 1 /\ UpdateIndentation(fgetc)
      BY <2>3 DEF Increment
    <3>3. /\ B_beginning_of_line' \in BOOLEAN
          /\ AtPlace(position, column_number, B_beginning_of_line', open_indentations')
          /\ B_beginning_of_line' => blank_P(fgetc) \/ fgetc = EOF
      BY <2>3, <3>2, UpdatedPlace
    <3>4. B_beginning_of_line' => input[position] = space
      BY <2>3, <3>1, <3>3 DEF blank_P
    <3>5. AtPlace(position + 1, column_number + 1, B_beginning_of_line', open_indentations')
      BY <2>3, <3>1, <3>3, <3>4, PlaceOfNext
    <3> QED
      BY <3>1, <3>2, <3>3, <3>5
  <2> QED
    BY <2>1, <2>2, <2>3
<1> QED
  BY <1>2, SameFile DEF PlaceInv

\* A character that is put back.
LEMMA PutBackPlace ==
    ASSUME IInv, PlaceInv, IncrementDecrement(fgetc), position' = position, input' = input
    PROVE  /\ PlaceInv'
           /\ ~blank_P(fgetc) /\ fgetc # EOF => ~B_beginning_of_line'
<1>1. B_beginning_of_line' \in BOOLEAN
      /\ AtPlace(position, column_number', B_beginning_of_line', open_indentations')
      /\ (~blank_P(fgetc) /\ fgetc # EOF => ~B_beginning_of_line')
  <2>1. CASE fgetc = newline
    <3>1. scrolledLeft[4] = <<column_number, B_beginning_of_line>>
      BY DEF scrolledLeft
    <3>2. column_number' = column_number /\ B_beginning_of_line' = B_beginning_of_line
          /\ open_indentations' = open_indentations
      BY <2>1, <3>1 DEF IncrementDecrement
    <3> QED
      BY <2>1, <3>2 DEF PlaceInv, blank_P
  <2>2. CASE fgetc # newline
    <3>1. column_number' = column_number /\ UpdateIndentation(fgetc)
      BY <2>2 DEF IncrementDecrement
    <3> QED
      BY <2>2, <3>1, UpdatedPlace
  <2> QED
    BY <2>1, <2>2
<1> QED
  BY <1>1, SameFile DEF PlaceInv

\* What either of them injects is what it opens and closes.
LEMMA InjectedFacts ==
    ASSUME IInv, BalanceInv, Increment(fgetc) \/ IncrementDecrement(fgetc)
    PROVE  /\ injectedBy(fgetc) \in Seq(Injected)
           /\ depthOf(delivered) + balance(injectedBy(fgetc)) = Len(open_indentations') - 1
<1>1. /\ depthOf(delivered) \in Int /\ balance(injected_input_values) \in Int
      /\ Len(open_indentations) \in Nat
      /\ depthOf(delivered) + balance(injected_input_values) = Len(open_indentations) - 1
  BY DepthOfAppend, BalanceFacts, LenProperties DEF IInv, Ascending, BalanceInv
<1>2. CASE beginsLine_P(fgetc)
  <2>1. fgetc # newline
    BY <1>2 DEF beginsLine_P
  <2>2. open_indentations' = indentations(open_indentations, column_number)
    BY <1>2, <2>1 DEF Increment, IncrementDecrement, UpdateIndentation
  <2> DEFINE new == injections(open_indentations, column_number)
  <2>3. /\ new \in Seq(Injected)
        /\ balance(new) = Len(open_indentations') - Len(open_indentations)
    BY <2>2, BalanceOfInjections DEF IInv
  <2>4. injectedBy(fgetc) = new \o injected_input_values
    BY <1>2 DEF injectedBy
  <2>5. Len(open_indentations') \in Nat
    <3>1. Ascending(open_indentations')
      BY <2>2, IndentationsKeepAscending DEF IInv
    <3> QED
      BY <3>1, LenProperties DEF Ascending
  <2> HIDE DEF new
  <2>6. /\ injectedBy(fgetc) \in Seq(Injected)
        /\ balance(injectedBy(fgetc)) = balance(new) + balance(injected_input_values)
    BY <2>3, <2>4, BalanceFacts, ConcatProperties DEF BalanceInv
  <2> QED
    BY <1>1, <2>3, <2>5, <2>6
<1>3. CASE ~beginsLine_P(fgetc)
  <2>1. open_indentations' = open_indentations
    BY <1>3 DEF Increment, IncrementDecrement, UpdateIndentation
  <2>2. injectedBy(fgetc) = injected_input_values
    BY <1>3 DEF injectedBy
  <2> QED
    BY <1>1, <2>1, <2>2 DEF BalanceInv
<1> QED
  BY <1>2, <1>3
-----------------------------------------------------------------------------
\* The next token that was injected is delivered.
LEMMA InjectedDelivered ==
    ASSUME BalanceInv, NEW injected \in Seq(Injected), injected # <<>>,
           depthOf(delivered) + balance(injected) = Len(open_indentations') - 1,
           DeliverInjected(injected), from' = from
    PROVE  BalanceInv' /\ TokenInv' /\ LastInv'
<1> DEFINE record == [token |-> Head(injected), from |-> 0]
<1>1. /\ Head(injected) \in Injected /\ Tail(injected) \in Seq(Injected)
      /\ balance(injected) = weight(Head(injected)) + balance(Tail(injected))
      /\ balance(Tail(injected)) \in Int
  BY BalanceOfTail, BalanceFacts
<1>2. /\ injected_input_values' = Tail(injected) /\ ctl' = ""
      /\ delivered' = Append(delivered, record)
  BY DEF DeliverInjected, Deliver
<1>3. record \in Tokens /\ record.token = Head(injected) /\ record.from = 0
  BY <1>1 DEF Tokens
<1>4. weight(Head(injected)) \in Int
  BY DEF weight
<1> HIDE DEF record
<1>5. /\ delivered' \in Seq(Tokens) /\ delivered' # <<>>
      /\ delivered'[Len(delivered')] = record
  <2>1. delivered \in Seq(Tokens)
    BY DEF BalanceInv
  <2>2. /\ Append(delivered, record) \in Seq(Tokens) /\ Append(delivered, record) # <<>>
        /\ Append(delivered, record)[Len(Append(delivered, record))] = record
    BY <1>3, <2>1, Appended
  <2> QED
    BY <1>2, <2>2
<1>6. /\ depthOf(delivered) \in Int
      /\ depthOf(Append(delivered, record)) = depthOf(delivered) + weight(Head(injected))
  BY <1>3, DepthOfAppend DEF BalanceInv
<1>7. depthOf(delivered)' = depthOf(delivered')
  BY DEF depthOf, count
<1>8. depthOf(delivered') + balance(injected_input_values') = Len(open_indentations') - 1
  <2>1. depthOf(delivered') = depthOf(delivered) + weight(Head(injected))
    BY <1>2, <1>6
  <2>2. depthOf(delivered') + balance(Tail(injected)) = depthOf(delivered) + balance(injected)
    BY <1>1, <1>4, <1>6, <2>1
  <2> QED
    BY <1>2, <2>2
<1>9. BalanceInv'
  BY <1>1, <1>2, <1>5, <1>7, <1>8 DEF BalanceInv, balance, tally, places
<1>10. TokenInv'
  BY <1>2 DEF TokenInv, symbol, string
<1>11. LastInv'
  <2>1. record.token # EOF
    BY <1>1, <1>3 DEF EOF, Injected, autoleftparen, autorightparen
  <2> QED
    BY <1>3, <1>5, <2>1 DEF LastInv
<1> QED
  BY <1>9, <1>10, <1>11

\* A token that was read is delivered.
LEMMA TokenDelivered ==
    ASSUME IInv, BalanceInv, NEW token \in {symbol, string, leftparen, "error"}, NEW place \in Nat,
           token # "error" => depthOf(delivered) = depthAt(place),
           injected_input_values' \in Seq(Injected),
           depthOf(delivered) + balance(injected_input_values') = Len(open_indentations') - 1,
           Deliver(token, place), from' \in Nat, input' = input
    PROVE  BalanceInv' /\ TokenInv' /\ LastInv'
<1> DEFINE record == [token |-> token, from |-> place]
<1>1. ctl' = "" /\ delivered' = Append(delivered, record)
  BY DEF Deliver
<1>2. record \in Tokens /\ record.token = token /\ record.from = place
  BY DEF Tokens
<1>3. weight(token) = 0 /\ token # EOF
  BY DEF weight, symbol, string, leftparen, EOF, autoleftparen, autorightparen
<1> HIDE DEF record
<1>4. /\ delivered' \in Seq(Tokens) /\ delivered' # <<>>
      /\ delivered'[Len(delivered')] = record
  <2>1. delivered \in Seq(Tokens)
    BY DEF BalanceInv
  <2>2. /\ Append(delivered, record) \in Seq(Tokens) /\ Append(delivered, record) # <<>>
        /\ Append(delivered, record)[Len(Append(delivered, record))] = record
    BY <1>2, <2>1, Appended
  <2> QED
    BY <1>1, <2>2
<1>5. /\ depthOf(delivered) \in Int
      /\ depthOf(Append(delivered, record)) = depthOf(delivered) + weight(token)
  <2>1. delivered \in Seq(Tokens)
    BY DEF BalanceInv
  <2> QED
    BY <1>2, <2>1, DepthOfAppend
<1>6. depthOf(delivered)' = depthOf(delivered)
  <2>1. depthOf(delivered)' = depthOf(delivered')
    BY DEF depthOf, count
  <2>2. depthOf(delivered') = depthOf(delivered) + 0
    BY <1>1, <1>2, <1>3, <1>5
  <2> QED
    BY <1>5, <2>1, <2>2
<1>7. BalanceInv'
  BY <1>4, <1>6 DEF BalanceInv, balance, tally, places
<1>8. TokenInv'
  BY <1>1 DEF TokenInv, symbol, string
<1>9. LastInv'
  <2>1. depthAt(place)' = depthAt(place)
    BY SameFile
  <2> QED
    BY <1>2, <1>3, <1>4, <1>6, <2>1 DEF LastInv
<1> QED
  BY <1>7, <1>8, <1>9

\* Nothing is delivered, and a token is being read.
LEMMA NothingDelivered ==
    ASSUME BalanceInv, LastInv, TokenInv, delivered' = delivered, ctl # "",
           injected_input_values' \in Seq(Injected),
           depthOf(delivered) + balance(injected_input_values') = Len(open_indentations') - 1,
           from' \in Nat, input' = input
    PROVE  BalanceInv' /\ LastInv' /\ (ctl' # "" => ~ended_P')
<1>1. depthOf(delivered)' = depthOf(delivered)
  BY DEF depthOf, count
<1>2. BalanceInv'
  BY <1>1 DEF BalanceInv, balance, tally, places
<1>3. ~ended_P /\ (ended_P' <=> ended_P)
  BY DEF TokenInv, ended_P
<1>4. LastInv'
  <2>1. \A p : depthAt(p)' = depthAt(p)
    BY SameFile
  <2> QED
    BY <1>1, <1>3, <2>1 DEF LastInv, ended_P
<1> QED
  BY <1>2, <1>3, <1>4

\* A token is being read, after a step.
LEMMA TokenInvReading ==
    ASSUME ctl' \in {symbol, string}, from' > 0, ~ended_P', depthOf(delivered)' = depthAt(from)'
    PROVE  TokenInv'
<1>1. ctl' # "whitespace" /\ ctl' # "token"
  BY DEF symbol, string
<1> QED
  BY <1>1 DEF TokenInv
-----------------------------------------------------------------------------
LEMMA ConsumeDepth == ASSUME IInv, DepthInv, Consume PROVE DepthInv'
<1>1. /\ ctl = "" /\ ~ended_P
      /\ UNCHANGED <<input, position, scanned, from>>
  BY DEF Consume
<1>2. PlaceInv'
  BY <1>1, SameFile DEF DepthInv, PlaceInv, scanned
<1>3. open_indentations' = open_indentations
  BY <1>1 DEF scanned
<1>4. CASE injected_input_values # <<>>
  <2>1. DeliverInjected(injected_input_values)
    BY <1>4 DEF Consume
  <2> QED
    BY <1>1, <1>2, <1>3, <1>4, <2>1, InjectedDelivered DEF DepthInv, BalanceInv
<1>5. CASE injected_input_values = <<>>
  <2>1. ctl' = "whitespace" /\ delivered' = delivered /\ injected_input_values' = injected_input_values
    BY <1>5 DEF Consume
  <2>2. depthOf(delivered)' = depthOf(delivered)
    BY <2>1 DEF depthOf, count
  <2>3. BalanceInv'
    BY <1>1, <1>3, <2>1, <2>2 DEF DepthInv, BalanceInv, balance, tally, places
  <2>4. TokenInv'
    BY <1>1, <1>5, <2>1 DEF TokenInv, ended_P, symbol, string
  <2>5. LastInv'
    <3>1. \A p : depthAt(p)' = depthAt(p)
      BY <1>1, SameFile
    <3> QED
      BY <2>1, <2>2, <3>1 DEF DepthInv, LastInv
  <2> QED
    BY <1>2, <2>3, <2>4, <2>5 DEF DepthInv
<1> QED
  BY <1>4, <1>5

LEMMA SkipWhitespaceDepth == ASSUME IInv, DepthInv, SkipWhitespace PROVE DepthInv'
<1>1. ctl = "whitespace" /\ UNCHANGED <<input, from>> /\ injected_input_values = <<>>
  BY DEF SkipWhitespace, DepthInv, TokenInv
<1>2. from' \in Nat
  BY <1>1 DEF DepthInv, BalanceInv
<1>3. CASE blank_P(fgetc)
  <2>1. Read /\ Increment(fgetc) /\ UNCHANGED <<injected_input_values, ctl, delivered>>
    BY <1>3 DEF SkipWhitespace
  <2>2. PlaceInv'
    BY <1>1, <2>1, ReadPlace DEF DepthInv
  <2>3. injectedBy(fgetc) = injected_input_values
    BY <1>3 DEF injectedBy, beginsLine_P, blank_P
  <2>4. /\ injected_input_values' \in Seq(Injected)
        /\ depthOf(delivered) + balance(injected_input_values') = Len(open_indentations') - 1
    BY <2>1, <2>3, InjectedFacts DEF DepthInv
  <2>5. BalanceInv' /\ LastInv' /\ (ctl' # "" => ~ended_P')
    BY <1>1, <1>2, <2>1, <2>4, NothingDelivered DEF DepthInv
  <2>6. TokenInv'
    BY <1>1, <2>1, <2>5 DEF TokenInv, symbol, string
  <2> QED
    BY <2>2, <2>5, <2>6 DEF DepthInv
<1>4. CASE ~blank_P(fgetc)
  <2>1. IncrementDecrement(fgetc) /\ position' = position
    BY <1>4 DEF SkipWhitespace
  <2>2. PlaceInv' /\ (fgetc # EOF => ~B_beginning_of_line')
    BY <1>1, <1>4, <2>1, PutBackPlace DEF DepthInv
  <2>3. /\ injectedBy(fgetc) \in Seq(Injected)
        /\ depthOf(delivered) + balance(injectedBy(fgetc)) = Len(open_indentations') - 1
    BY <2>1, InjectedFacts DEF DepthInv
  <2>4. CASE injectedBy(fgetc) # <<>>
    <3>1. DeliverInjected(injectedBy(fgetc))
      BY <1>4, <2>4 DEF SkipWhitespace
    <3> QED
      BY <1>1, <2>2, <2>3, <2>4, <3>1, InjectedDelivered DEF DepthInv
  <2>5. CASE injectedBy(fgetc) = <<>>
    <3>1. ctl' = "token" /\ UNCHANGED <<delivered, injected_input_values>>
      BY <1>4, <2>5 DEF SkipWhitespace
    <3>2. BalanceInv' /\ LastInv' /\ (ctl' # "" => ~ended_P')
      BY <1>1, <1>2, <2>3, <2>5, <3>1, NothingDelivered DEF DepthInv
    <3>3. fgetc' = fgetc
      BY <1>1, <2>1 DEF fgetc
    <3>4. TokenInv'
      BY <1>1, <1>4, <2>2, <3>1, <3>2, <3>3 DEF TokenInv, symbol, string, blank_P
    <3> QED
      BY <2>2, <3>2, <3>4 DEF DepthInv
  <2> QED
    BY <2>4, <2>5
<1> QED
  BY <1>3, <1>4

\* A token begins as deep as blocks are open where it stands.
LEMMA BeginTokenDepth == ASSUME IInv, DepthInv, BeginToken PROVE DepthInv'
<1>1. /\ ctl = "token" /\ fgetc # EOF /\ Read /\ Increment(fgetc) /\ from' = position
      /\ injected_input_values' = injectedBy(fgetc) /\ input' = input
      /\ injected_input_values = <<>> /\ ~blank_P(fgetc) /\ ~B_beginning_of_line
  BY DEF BeginToken, DepthInv, TokenInv
<1>2. position \in Nat \ {0} /\ position <= Len(input) /\ fgetc \in Characters
  BY <1>1, Fgetc DEF DepthInv
<1>3. PlaceInv'
  BY <1>1, ReadPlace DEF DepthInv
<1>4. /\ injected_input_values' \in Seq(Injected)
      /\ depthOf(delivered) + balance(injected_input_values') = Len(open_indentations') - 1
  BY <1>1, InjectedFacts DEF DepthInv
<1>5. depthOf(delivered) = depthAt(position)
  <2>1. depthOf(delivered) = Len(open_indentations) - 1
    <3>1. depthOf(delivered) \in Int /\ balance(<<>>) = 0
      BY DepthOfAppend, BalanceFacts DEF DepthInv, BalanceInv
    <3> QED
      BY <1>1, <3>1 DEF DepthInv, BalanceInv
  <2>2. inner(open_indentations) = columns(position)
    BY <1>1, <1>2 DEF DepthInv, PlaceInv, AtPlace
  <2> QED
    BY <1>2, <2>1, <2>2, DepthFacts DEF IInv
<1>6. CASE fgetc = leftparen
  <2>1. Deliver(leftparen, position)
    BY <1>6 DEF BeginToken, quote, symbolChar, leftparen
  <2>2. BalanceInv' /\ TokenInv' /\ LastInv'
    BY <1>1, <1>2, <1>4, <1>5, <2>1, TokenDelivered DEF DepthInv
  <2> QED
    BY <1>3, <2>2 DEF DepthInv
<1>7. CASE fgetc = quote \/ fgetc = symbolChar
  <2>1. ctl' \in {symbol, string} /\ delivered' = delivered
    BY <1>7 DEF BeginToken, quote, symbolChar, leftparen
  <2>2. BalanceInv' /\ LastInv' /\ (ctl' # "" => ~ended_P')
    BY <1>1, <1>2, <1>4, <2>1, NothingDelivered DEF DepthInv
  <2>3. depthOf(delivered)' = depthAt(from)'
    <3>1. depthOf(delivered)' = depthOf(delivered)
      BY <2>1 DEF depthOf, count
    <3>2. depthAt(from)' = depthAt(position)
      <4>1. \A p : depthAt(p)' = depthAt(p)
        BY <1>1, SameFile
      <4> QED
        BY <1>1, <4>1
    <3> QED
      BY <1>5, <3>1, <3>2
  <2>4. ctl' # "" /\ from' > 0
    <3>1. ctl' # ""
      BY <2>1 DEF symbol, string
    <3>2. position > 0
      BY <1>2
    <3> QED
      BY <1>1, <3>1, <3>2
  <2>5. TokenInv'
    BY <2>1, <2>2, <2>3, <2>4, TokenInvReading
  <2> QED
    BY <1>3, <2>2, <2>5 DEF DepthInv
<1>8. fgetc \in {leftparen, quote, symbolChar}
  BY <1>1, <1>2 DEF Characters, blank_P
<1> QED
  BY <1>6, <1>7, <1>8

\* A line in column 0 ends every block.
LEMMA EndsAtOutermost ==
    ASSUME NEW open, Ascending(open)
    PROVE  Len(indentations(open, 0)) = 1
<1> DEFINE k == kept(open, 0)
<1>1. /\ open \in Seq(Nat) /\ DOMAIN open = 1 .. Len(open) /\ Len(open) \in Nat
      /\ open[1] = 0 /\ \A i \in 1 .. Len(open) : open[i] \in Nat
      /\ \A i, j \in 1 .. Len(open) : i < j => open[i] < open[j]
  BY DEF Ascending
<1>2. k \in 1 .. Len(open) /\ open[k] <= 0
  BY <1>1, KeptStops
<1> HIDE DEF k
<1>3. k = 1 /\ open[k] = 0
  <2>1. open[k] \in Nat /\ 1 \in 1 .. Len(open)
    BY <1>1, <1>2
  <2>2. 1 < k => open[1] < open[k]
    BY <1>1, <1>2, <2>1
  <2> QED
    BY <1>1, <1>2, <2>1, <2>2
<1>4. indentations(open, 0) = SubSeq(open, 1, k)
  BY <1>3 DEF indentations, opens_P, k
<1> QED
  BY <1>1, <1>2, <1>3, <1>4

\* The end of the file is delivered.
LEMMA EndDelivered ==
    ASSUME BalanceInv, Deliver(EOF, 0), injected_input_values' = <<>>, from' \in Nat,
           depthOf(delivered) = 0, Len(open_indentations') = 1
    PROVE  BalanceInv' /\ TokenInv' /\ LastInv'
<1> DEFINE record == [token |-> EOF, from |-> 0]
<1>1. ctl' = "" /\ delivered' = Append(delivered, record)
  BY DEF Deliver
<1>2. record \in Tokens /\ record.token = EOF /\ record.from = 0
  BY DEF Tokens
<1>3. weight(EOF) = 0
  BY DEF weight, EOF, autoleftparen, autorightparen
<1> HIDE DEF record
<1>4. delivered \in Seq(Tokens)
  BY DEF BalanceInv
<1>5. /\ Append(delivered, record) \in Seq(Tokens) /\ Append(delivered, record) # <<>>
      /\ Append(delivered, record)[Len(Append(delivered, record))] = record
  BY <1>2, <1>4, Appended
<1>6. depthOf(delivered)' = 0
  <2>1. depthOf(Append(delivered, record)) = depthOf(delivered) + weight(EOF)
    BY <1>2, <1>4, DepthOfAppend
  <2>2. depthOf(delivered)' = depthOf(delivered')
    BY DEF depthOf, count
  <2>3. depthOf(delivered') = 0 + 0
    BY <1>1, <1>3, <2>1
  <2> QED
    BY <2>2, <2>3
<1>7. BalanceInv'
  <2>1. balance(<<>>) = 0 /\ <<>> \in Seq(Injected)
    BY BalanceFacts, EmptySeq
  <2>2. balance(injected_input_values)' = 0
    <3>1. balance(injected_input_values)' = balance(injected_input_values')
      BY DEF balance, tally, places
    <3> QED
      BY <2>1, <3>1
  <2>3. depthOf(delivered)' + balance(injected_input_values)' = Len(open_indentations') - 1
    BY <1>6, <2>2
  <2>4. delivered' \in Seq(Tokens) /\ injected_input_values' \in Seq(Injected)
    BY <1>1, <1>5, <2>1
  <2> QED
    BY <2>3, <2>4 DEF BalanceInv
<1>8. TokenInv'
  BY <1>1 DEF TokenInv, symbol, string
<1>9. LastInv'
  <2>1. ~(record.from > 0)
    BY <1>2
  <2>2. delivered'[Len(delivered')] = record
    BY <1>1, <1>5
  <2> QED
    BY <1>6, <2>1, <2>2 DEF LastInv
<1> QED
  BY <1>7, <1>8, <1>9

\* A symbol or a string that is read on.
LEMMA TokenReadOn ==
    ASSUME BalanceInv, LastInv, TokenInv, ctl \in {symbol, string},
           ctl' = ctl, delivered' = delivered, input' = input, from' = from,
           injected_input_values' \in Seq(Injected),
           depthOf(delivered) + balance(injected_input_values') = Len(open_indentations') - 1
    PROVE  BalanceInv' /\ TokenInv' /\ LastInv'
<1>1. ctl # "" /\ ctl' # "" /\ from > 0 /\ from' > 0 /\ depthOf(delivered) = depthAt(from)
  BY DEF TokenInv, symbol, string
<1>2. from' \in Nat
  BY DEF BalanceInv
<1>3. BalanceInv' /\ LastInv' /\ ~ended_P'
  BY <1>1, <1>2, NothingDelivered
<1>4. depthOf(delivered)' = depthAt(from)'
  <2>1. depthOf(delivered)' = depthOf(delivered)
    BY DEF depthOf, count
  <2>2. depthAt(from)' = depthAt(from)
    <3>1. \A p : depthAt(p)' = depthAt(p)
      BY SameFile
    <3> QED
      BY <3>1
  <2> QED
    BY <1>1, <2>1, <2>2
<1> QED
  BY <1>1, <1>3, <1>4, TokenInvReading

LEMMA ReadSymbolDepth == ASSUME IInv, DepthInv, ReadSymbol PROVE DepthInv'
<1>1. /\ ctl = symbol /\ injected_input_values' = injectedBy(fgetc)
      /\ input' = input /\ from' = from /\ from \in Nat
      /\ depthOf(delivered) = depthAt(from)
  BY DEF ReadSymbol, DepthInv, BalanceInv, TokenInv
<1>2. CASE fgetc = symbolChar
  <2>1. Read /\ Increment(fgetc) /\ UNCHANGED <<ctl, delivered>>
    BY <1>2 DEF ReadSymbol, symbolChar, space
  <2>2. PlaceInv'
    BY <1>1, <2>1, ReadPlace DEF DepthInv
  <2>3. /\ injected_input_values' \in Seq(Injected)
        /\ depthOf(delivered) + balance(injected_input_values') = Len(open_indentations') - 1
    BY <1>1, <2>1, InjectedFacts DEF DepthInv
  <2> QED
    BY <1>1, <2>1, <2>2, <2>3, TokenReadOn DEF DepthInv
<1>3. CASE fgetc = space
  <2>1. Read /\ Increment(fgetc) /\ Deliver(symbol, from)
    BY <1>3 DEF ReadSymbol, symbolChar, space
  <2>2. PlaceInv'
    BY <1>1, <2>1, ReadPlace DEF DepthInv
  <2>3. /\ injected_input_values' \in Seq(Injected)
        /\ depthOf(delivered) + balance(injected_input_values') = Len(open_indentations') - 1
    BY <1>1, <2>1, InjectedFacts DEF DepthInv
  <2> QED
    BY <1>1, <2>1, <2>2, <2>3, TokenDelivered DEF DepthInv
<1>4. CASE fgetc # symbolChar /\ fgetc # space
  <2>1. IncrementDecrement(fgetc) /\ Deliver(symbol, from) /\ position' = position
    BY <1>4 DEF ReadSymbol
  <2>2. PlaceInv'
    BY <1>1, <2>1, PutBackPlace DEF DepthInv
  <2>3. /\ injected_input_values' \in Seq(Injected)
        /\ depthOf(delivered) + balance(injected_input_values') = Len(open_indentations') - 1
    BY <1>1, <2>1, InjectedFacts DEF DepthInv
  <2> QED
    BY <1>1, <2>1, <2>2, <2>3, TokenDelivered DEF DepthInv
<1> QED
  BY <1>2, <1>3, <1>4

LEMMA ReadStringDepth == ASSUME IInv, DepthInv, ReadString PROVE DepthInv'
<1>1. /\ ctl = string /\ injected_input_values' = injectedBy(fgetc)
      /\ Read /\ Increment(fgetc)
      /\ input' = input /\ from' = from /\ from \in Nat
      /\ depthOf(delivered) = depthAt(from)
  BY DEF ReadString, DepthInv, BalanceInv, TokenInv
<1>2. PlaceInv'
  BY <1>1, ReadPlace DEF DepthInv
<1>3. /\ injected_input_values' \in Seq(Injected)
      /\ depthOf(delivered) + balance(injected_input_values') = Len(open_indentations') - 1
  BY <1>1, InjectedFacts DEF DepthInv
<1>4. CASE fgetc = quote
  <2>1. Deliver(string, from)
    BY <1>4 DEF ReadString, quote, EOF
  <2> QED
    BY <1>1, <1>2, <1>3, <2>1, TokenDelivered DEF DepthInv
<1>5. CASE fgetc = EOF
  <2>1. Deliver("error", from)
    BY <1>5 DEF ReadString, quote, EOF
  <2> QED
    BY <1>1, <1>2, <1>3, <2>1, TokenDelivered DEF DepthInv
<1>6. CASE fgetc # quote /\ fgetc # EOF
  <2>1. UNCHANGED <<ctl, delivered>>
    BY <1>6 DEF ReadString
  <2> QED
    BY <1>1, <1>2, <1>3, <2>1, TokenReadOn DEF DepthInv
<1> QED
  BY <1>4, <1>5, <1>6

\* At the end of the file all blocks are closed, and only then it is delivered.
LEMMA DeinjectDepth == ASSUME IInv, DepthInv, Deinject PROVE DepthInv'
<1> DEFINE new == injections(open_indentations, 0)
<1>1. /\ ctl = "token" /\ fgetc = EOF /\ injected_input_values = <<>>
      /\ open_indentations' = indentations(open_indentations, 0)
      /\ B_beginning_of_line' = TRUE
      /\ input' = input /\ position' = position /\ from' = from /\ from \in Nat
  BY DEF Deinject, DepthInv, TokenInv, BalanceInv
<1>2. PlaceInv'
  <2>1. ~(position <= Len(input)) /\ position \in Nat \ {0}
    BY <1>1, Fgetc DEF DepthInv
  <2>2. AtPlace(position', column_number', B_beginning_of_line', open_indentations')
    BY <1>1, <2>1 DEF AtPlace
  <2> QED
    BY <1>1, <2>2, SameFile DEF DepthInv, PlaceInv
<1>3. Ascending(open_indentations) /\ Ascending(open_indentations')
  BY <1>1, IndentationsKeepAscending DEF IInv
<1>4. Len(open_indentations) \in Nat /\ Len(open_indentations') \in Nat
  BY <1>3, LenProperties DEF Ascending
<1>5. new \in Seq(Injected) /\ balance(new) = Len(open_indentations') - Len(open_indentations)
  BY <1>1, <1>3, BalanceOfInjections
<1>6. depthOf(delivered) \in Int /\ depthOf(delivered) = Len(open_indentations) - 1
  <2>1. depthOf(delivered) \in Int /\ balance(<<>>) = 0
    BY DepthOfAppend, BalanceFacts DEF DepthInv, BalanceInv
  <2> QED
    BY <1>1, <2>1 DEF DepthInv, BalanceInv
<1>7. depthOf(delivered) + balance(new) = Len(open_indentations') - 1
  BY <1>4, <1>5, <1>6
<1>8. CASE new # <<>>
  <2>1. DeliverInjected(new)
    BY <1>8 DEF Deinject
  <2> HIDE DEF new
  <2> QED
    BY <1>1, <1>2, <1>5, <1>7, <1>8, <2>1, InjectedDelivered DEF DepthInv
<1>9. CASE new = <<>>
  <2>1. Deliver(EOF, 0) /\ injected_input_values' = <<>>
    BY <1>1, <1>9 DEF Deinject
  <2>2. balance(new) = 0
    BY <1>9, BalanceFacts
  <2>3. Len(open_indentations') = 1
    BY <1>1, <1>3, EndsAtOutermost
  <2> HIDE DEF new
  <2>4. depthOf(delivered) = 0
    <3>1. depthOf(delivered) + 0 = 1 - 1
      BY <1>7, <2>2, <2>3
    <3> QED
      BY <1>6, <3>1
  <2> QED
    BY <1>1, <1>2, <2>1, <2>3, <2>4, EndDelivered DEF DepthInv
<1> QED
  BY <1>8, <1>9

LEMMA StutterDepth == ASSUME DepthInv, UNCHANGED vars PROVE DepthInv'
<1>1. UNCHANGED <<input, position, column_number, B_beginning_of_line, backtracking,
                  open_indentations, injected_input_values, ctl, from, delivered>>
  BY DEF vars, scanned
<1>2. PlaceInv'
  BY <1>1, SameFile DEF DepthInv, PlaceInv
<1>3. depthOf(delivered)' = depthOf(delivered) /\ \A p : depthAt(p)' = depthAt(p)
  BY <1>1, SameFile DEF depthOf, count
<1>4. BalanceInv'
  BY <1>1, <1>3 DEF DepthInv, BalanceInv, balance, tally, places
<1>5. TokenInv'
  BY <1>1, <1>3 DEF DepthInv, TokenInv, ended_P, fgetc
<1>6. LastInv'
  BY <1>1, <1>3 DEF DepthInv, LastInv
<1> QED
  BY <1>2, <1>4, <1>5, <1>6 DEF DepthInv

LEMMA InitDepth == Init => DepthInv
<1> SUFFICES ASSUME Init PROVE DepthInv
  OBVIOUS
<1>1. /\ input \in Seq(Characters) /\ position = 1 /\ column_number = 0
      /\ B_beginning_of_line = TRUE /\ open_indentations = <<0>>
      /\ injected_input_values = <<>> /\ ctl = "" /\ from = 0 /\ delivered = <<>>
  BY InputsAssumption DEF Init
<1>2. PlaceInv
  <2>1. columnOf(1) = 0
    BY FirstColumn
  <2>2. inner(<<0>>) = {}
    BY DEF inner
  <2>3. beginnings(0) = {}
    BY DEF beginnings
  <2>4. columns(0) = {}
    BY <2>3 DEF columns, openBlocks
  <2>5. Line(1) = {}
    BY <2>1 DEF Line
  <2>6. inner(<<0>>) = columns(1 - 1)
    BY <2>2, <2>4
  <2>7. AtPlace(1, 0, TRUE, <<0>>)
    BY <2>1, <2>5, <2>6 DEF AtPlace
  <2> QED
    BY <1>1, <2>7 DEF PlaceInv
<1>3. depthOf(<<>>) = 0
  <2>1. \A token : {i \in DOMAIN <<>> : <<>>[i].token = token} = {}
    OBVIOUS
  <2>2. \A token : count(<<>>, token) = 0
    BY <2>1, FS_EmptySet DEF count
  <2> QED
    BY <2>2 DEF depthOf
<1>4. BalanceInv
  <2>1. balance(<<>>) = 0 /\ Len(<<0>>) = 1
    BY BalanceFacts
  <2>2. <<>> \in Seq(Tokens) /\ <<>> \in Seq(Injected)
    BY EmptySeq
  <2>3. depthOf(<<>>) + balance(<<>>) = Len(<<0>>) - 1
    BY <1>3, <2>1
  <2> QED
    BY <1>1, <2>2, <2>3 DEF BalanceInv
<1>5. TokenInv /\ LastInv
  BY <1>1 DEF TokenInv, LastInv, symbol, string
<1> QED
  BY <1>2, <1>4, <1>5 DEF DepthInv
-----------------------------------------------------------------------------
\* DepthAsIndented, of every file: the tokens of a file are as deep in injected
\* parentheses as its lines are indented, whatever was put back while reading.
THEOREM DepthTheorem == Spec => []DepthAsIndented
<1>1. Init => IInv /\ DepthInv
  BY InitIInv, InitDepth
<1>2. (IInv /\ DepthInv) /\ [Next]_vars => (IInv /\ DepthInv)'
  <2> SUFFICES ASSUME IInv, DepthInv, [Next]_vars
               PROVE  IInv' /\ DepthInv'
    OBVIOUS
  <2>1. IInv'
    BY NextIInv
  <2>2. DepthInv'
    BY ConsumeDepth, SkipWhitespaceDepth, BeginTokenDepth, ReadSymbolDepth, ReadStringDepth,
       DeinjectDepth, StutterDepth DEF Next
  <2> QED
    BY <2>1, <2>2
<1>3. IInv /\ DepthInv => DepthAsIndented
  BY DEF DepthInv, PlaceInv, LastInv, AtPlace, DepthAsIndented, ColumnsAreReal
<1> QED
  BY <1>1, <1>2, <1>3, PTL DEF Spec
=============================================================================
