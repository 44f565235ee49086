--------------------------- MODULE CurryingProofs ---------------------------
(***************************************************************************)
(* When a builtin runs and what it is given: for every arity, every set of *)
(* arguments and any number of them.  call_builtin and CXXfromArguments go *)
(* over the arguments from the last to the first, a reader of the program  *)
(* from the first to the last; what the folds have after each argument is  *)
(* compared by two tallies of the text.                                    *)
(***************************************************************************)
EXTENDS Currying, SequenceTheorems, Induction, TLAPS

\* What call_builtin has counted when it comes to an argument from behind.
Counts == [count : Int, inKV : BOOLEAN, had : BOOLEAN]
IsCounting(g, s, base) ==
    /\ g \in [1 .. Len(s) + 1 -> Counts]
    /\ g[Len(s) + 1] = base
    /\ \A i \in 1 .. Len(s) : g[i] = CountArgument(s[i], g[i + 1])

LEMMA CountsFacts ==
    ASSUME NEW c \in Counts, NEW v
    PROVE  /\ CountArgument(v, c) \in Counts
           /\ ~c.inKV /\ keyword_P(v) =>
                 /\ CountArgument(v, c).count = c.count - 1
                 /\ CountArgument(v, c).inKV = TRUE /\ CountArgument(v, c).had = TRUE
           /\ ~(~c.inKV /\ keyword_P(v)) =>
                 /\ CountArgument(v, c).count = c.count + 1
                 /\ CountArgument(v, c).inKV = FALSE /\ CountArgument(v, c).had = c.had
  <1> DEFINE k == c.count + 1
             more == [c EXCEPT !.count = @ + 1, !.inKV = FALSE]
             less == [count |-> c.count - 1, inKV |-> TRUE, had |-> TRUE]
  <1>1. less \in Counts
    BY DEF Counts
  <1>2. more \in Counts
    <2>1. k \in Int
      BY DEF Counts
    <2> HIDE DEF k
    <2>2. [c EXCEPT !.count = k, !.inKV = FALSE] \in Counts
      BY <2>1 DEF Counts
    <2> QED
      BY <2>2 DEF k
  <1>3. more.count = c.count + 1 /\ more.had = c.had /\ more.inKV = FALSE
    BY DEF Counts
  <1>4. CASE ~c.inKV /\ keyword_P(v)
    <2>1. CountArgument(v, c) = less
      BY <1>4 DEF CountArgument
    <2> QED
      BY <1>1, <1>4, <2>1
  <1>5. CASE ~(~c.inKV /\ keyword_P(v))
    <2>1. CountArgument(v, c) = more
      BY <1>5 DEF CountArgument
    <2> HIDE DEF more
    <2> QED
      BY <1>2, <1>3, <1>5, <2>1
  <1> QED
    BY <1>4, <1>5

LEMMA CountingExists ==
    ASSUME NEW S, NEW s \in Seq(S), NEW base \in Counts
    PROVE  \E g : IsCounting(g, s, base) /\ FoldRight(CountArgument, s, base) = g[1]
  <1> DEFINE n == Len(s)
             Parts == SUBSET (1 .. n)
             def(f) == [U \in Parts |-> IF U = {} THEN base ELSE CountArgument(s[Min(U)], f[U \ {Min(U)}])]
             fold == CHOOSE f : f = def(f)
             step == [p \in (1 .. n) \X Counts |-> CountArgument(s[p[1]], p[2])]
  <1>1. n \in Nat /\ DOMAIN s = 1 .. n
    BY LenProperties
  <1>2. FoldRight(CountArgument, s, base) = fold[1 .. n]
    BY <1>1 DEF FoldRight, MapThenFoldSet
  <1>3. \A U : Min(U) = Least(U)
    BY DEF Min, Least
  <1>4. fold = def(fold)
    <2>1. step \in Steps(n, Counts)
      BY CountsFacts DEF Steps
    <2> HIDE DEF step, n
    <2>2. PICK f \in Folds(n, Counts) : IsFold(f, base, Leasts(n), step, n)
      BY <1>1, <2>1, PicksFacts, SetRecursion
    <2>3. \A U \in Parts : f[U] = IF U = {} THEN base ELSE CountArgument(s[Min(U)], f[U \ {Min(U)}])
      <3> SUFFICES ASSUME NEW U \in Parts, U # {}
                   PROVE  f[U] = CountArgument(s[Min(U)], f[U \ {Min(U)}])
        BY <2>2 DEF IsFold
      <3>1. Leasts(n)[U] = Min(U) /\ Min(U) \in 1 .. n /\ U \ {Min(U)} \in Parts
        BY <1>1, <1>3, PicksFacts
      <3>2. f[U \ {Min(U)}] \in Counts
        BY <3>1 DEF Folds
      <3>3. f[U] = step[<<Min(U), f[U \ {Min(U)}]>>]
        BY <2>2, <3>1 DEF IsFold
      <3> QED
        BY <3>1, <3>2, <3>3 DEF step
    <2> HIDE DEF Parts
    <2>4. f = [U \in Parts |-> f[U]]
      BY DEF Folds, Parts
    <2>5. f = def(f)
      BY <2>3, <2>4
    <2> QED
      BY <2>5
  <1> HIDE DEF fold, step
  <1> DEFINE g == [i \in 1 .. n + 1 |-> fold[i .. n]]
             good == {k \in 0 .. n : fold[k + 1 .. n] \in Counts}
  <1>5. fold[n + 1 .. n] = base
    <2>1. n + 1 .. n = {}
      BY <1>1
    <2> QED
      BY <1>4, <2>1
  <1>6. ASSUME NEW i \in 1 .. n
        PROVE  fold[i .. n] = CountArgument(s[i], fold[i + 1 .. n])
    <2>1. i \in Int /\ n \in Int /\ i <= n /\ i .. n \in Parts /\ i .. n # {}
      BY <1>1
    <2>2. Min(i .. n) = i /\ (i .. n) \ {i} = i + 1 .. n
      BY <1>3, <2>1, EndFacts
    <2> HIDE DEF n, Parts
    <2>3. fold[i .. n] = CountArgument(s[Min(i .. n)], fold[(i .. n) \ {Min(i .. n)}])
      BY <1>4, <2>1
    <2> QED
      BY <2>2, <2>3
  <1> HIDE DEF n
  <1>7. \A k \in 0 .. n : k \in good
    <2>1. n \in good
      BY <1>1, <1>5
    <2>2. \A k \in 0 .. n - 1 : k + 1 \in good => k \in good
      <3> SUFFICES ASSUME NEW k \in 0 .. n - 1, fold[k + 1 + 1 .. n] \in Counts
                   PROVE  fold[k + 1 .. n] \in Counts
        BY <1>1
      <3>1. k + 1 \in 1 .. n
        BY <1>1
      <3>2. fold[k + 1 .. n] = CountArgument(s[k + 1], fold[k + 1 + 1 .. n])
        BY <1>6, <3>1
      <3> QED
        BY <3>2, CountsFacts
    <2> HIDE DEF good
    <2> QED
      BY <1>1, <2>1, <2>2, DownInduction
  <1>8. \A i \in 1 .. n + 1 : fold[i .. n] \in Counts
    <2> SUFFICES ASSUME NEW i \in 1 .. n + 1 PROVE fold[i .. n] \in Counts
      OBVIOUS
    <2>1. i - 1 \in good /\ (i - 1) + 1 = i
      BY <1>1, <1>7
    <2> QED
      BY <2>1
  <1>9. IsCounting(g, s, base)
    <2>1. \A i \in 1 .. n : g[i] = CountArgument(s[i], g[i + 1])
      BY <1>1, <1>6
    <2> QED
      BY <1>1, <1>5, <1>8, <2>1 DEF IsCounting, n
  <1>10. FoldRight(CountArgument, s, base) = g[1]
    BY <1>1, <1>2
  <1> HIDE DEF g
  <1> QED
    BY <1>9, <1>10

-----------------------------------------------------------------------------
\* What CXXfromArguments has made when it comes to an argument from behind.
Pairings(V) == [list : Seq((V \cup {nil}) \X (V \cup {nil})), p : V \cup {nil}, pending : BOOLEAN]
IsPairing(g, s, base, V) ==
    /\ g \in [1 .. Len(s) + 1 -> Pairings(V)]
    /\ g[Len(s) + 1] = base
    /\ \A i \in 1 .. Len(s) : g[i] = PairUp(s[i], g[i + 1])

\* One step of it.
PairedAs(d, c, v) ==
    /\ c.pending /\ keyword_P(v) =>
          /\ d.list = Append(c.list, <<v, c.p>>)
          /\ d.pending = FALSE
    /\ c.pending /\ ~keyword_P(v) =>
          /\ d.list = <<<<nil, c.p>>>> \o c.list
          /\ d.p = v /\ d.pending = TRUE
    /\ ~c.pending =>
          /\ d.list = c.list
          /\ d.p = v /\ d.pending = TRUE

LEMMA PairingsFacts ==
    ASSUME NEW V, NEW c \in Pairings(V), NEW v \in V
    PROVE  PairUp(v, c) \in Pairings(V) /\ PairedAs(PairUp(v, c), c, v)
  <1> DEFINE W == V \cup {nil}
             P == W \X W
             behind == [list |-> Append(c.list, <<v, c.p>>), p |-> nil, pending |-> FALSE]
             front == [list |-> <<<<nil, c.p>>>> \o c.list, p |-> v, pending |-> TRUE]
             kept == [c EXCEPT !.p = v, !.pending = TRUE]
  <1>1. c.list \in Seq(P) /\ c.p \in W /\ c.pending \in BOOLEAN /\ v \in W /\ nil \in W
    BY DEF Pairings
  <1>2. <<v, c.p>> \in P /\ <<nil, c.p>> \in P
    BY <1>1
  <1>3. Append(c.list, <<v, c.p>>) \in Seq(P) /\ <<<<nil, c.p>>>> \o c.list \in Seq(P)
    <2> HIDE DEF P
    <2>1. <<<<nil, c.p>>>> \in Seq(P)
      BY <1>2
    <2> QED
      BY <1>1, <1>2, <2>1, AppendProperties, ConcatProperties
  <1>4. behind \in Pairings(V) /\ front \in Pairings(V)
    <2> HIDE DEF P
    <2>1. \A l \in Seq(P), p \in W, b \in BOOLEAN : [list |-> l, p |-> p, pending |-> b] \in Pairings(V)
      BY DEF Pairings, P
    <2> QED
      BY <1>1, <1>3, <2>1
  <1>5. kept \in Pairings(V) /\ kept.list = c.list /\ kept.p = v /\ kept.pending = TRUE
    BY DEF Pairings
  <1>6. CASE c.pending /\ keyword_P(v)
    <2>1. PairUp(v, c) = behind
      BY <1>6 DEF PairUp
    <2> QED
      BY <1>4, <1>6, <2>1 DEF PairedAs
  <1>7. CASE c.pending /\ ~keyword_P(v)
    <2>1. PairUp(v, c) = front
      BY <1>7 DEF PairUp
    <2> QED
      BY <1>4, <1>7, <2>1 DEF PairedAs
  <1>8. CASE ~c.pending
    <2>1. PairUp(v, c) = kept
      BY <1>8 DEF PairUp
    <2> HIDE DEF kept
    <2> QED
      BY <1>5, <1>8, <2>1 DEF PairedAs
  <1> QED
    BY <1>1, <1>6, <1>7, <1>8

LEMMA PairingExists ==
    ASSUME NEW V, NEW s \in Seq(V), NEW base \in Pairings(V)
    PROVE  \E g : IsPairing(g, s, base, V) /\ FoldRight(PairUp, s, base) = g[1]
  <1> DEFINE n == Len(s)
             Parts == SUBSET (1 .. n)
             def(f) == [U \in Parts |-> IF U = {} THEN base ELSE PairUp(s[Min(U)], f[U \ {Min(U)}])]
             fold == CHOOSE f : f = def(f)
             step == [p \in (1 .. n) \X Pairings(V) |-> PairUp(s[p[1]], p[2])]
  <1>1. n \in Nat /\ DOMAIN s = 1 .. n /\ \A i \in 1 .. n : s[i] \in V
    BY LenProperties, ElementOfSeq
  <1>2. FoldRight(PairUp, s, base) = fold[1 .. n]
    BY <1>1 DEF FoldRight, MapThenFoldSet
  <1>3. \A U : Min(U) = Least(U)
    BY DEF Min, Least
  <1>4. fold = def(fold)
    <2>1. step \in Steps(n, Pairings(V))
      BY <1>1, PairingsFacts DEF Steps
    <2> HIDE DEF step, n
    <2>2. PICK f \in Folds(n, Pairings(V)) : IsFold(f, base, Leasts(n), step, n)
      BY <1>1, <2>1, PicksFacts, SetRecursion
    <2>3. \A U \in Parts : f[U] = IF U = {} THEN base ELSE PairUp(s[Min(U)], f[U \ {Min(U)}])
      <3> SUFFICES ASSUME NEW U \in Parts, U # {}
                   PROVE  f[U] = PairUp(s[Min(U)], f[U \ {Min(U)}])
        BY <2>2 DEF IsFold
      <3>1. Leasts(n)[U] = Min(U) /\ Min(U) \in 1 .. n /\ U \ {Min(U)} \in Parts
        BY <1>1, <1>3, PicksFacts
      <3>2. f[U \ {Min(U)}] \in Pairings(V)
        BY <3>1 DEF Folds
      <3>3. f[U] = step[<<Min(U), f[U \ {Min(U)}]>>]
        BY <2>2, <3>1 DEF IsFold
      <3> QED
        BY <3>1, <3>2, <3>3 DEF step
    <2> HIDE DEF Parts
    <2>4. f = [U \in Parts |-> f[U]]
      BY DEF Folds, Parts
    <2>5. f = def(f)
      BY <2>3, <2>4
    <2> QED
      BY <2>5
  <1> HIDE DEF fold, step
  <1> DEFINE g == [i \in 1 .. n + 1 |-> fold[i .. n]]
             good == {k \in 0 .. n : fold[k + 1 .. n] \in Pairings(V)}
  <1>5. fold[n + 1 .. n] = base
    <2>1. n + 1 .. n = {}
      BY <1>1
    <2> QED
      BY <1>4, <2>1
  <1>6. ASSUME NEW i \in 1 .. n
        PROVE  fold[i .. n] = PairUp(s[i], fold[i + 1 .. n])
    <2>1. i \in Int /\ n \in Int /\ i <= n /\ i .. n \in Parts /\ i .. n # {}
      BY <1>1
    <2>2. Min(i .. n) = i /\ (i .. n) \ {i} = i + 1 .. n
      BY <1>3, <2>1, EndFacts
    <2> HIDE DEF n, Parts
    <2>3. fold[i .. n] = PairUp(s[Min(i .. n)], fold[(i .. n) \ {Min(i .. n)}])
      BY <1>4, <2>1
    <2> QED
      BY <2>2, <2>3
  <1> HIDE DEF n
  <1>7. \A k \in 0 .. n : k \in good
    <2>1. n \in good
      BY <1>1, <1>5
    <2>2. \A k \in 0 .. n - 1 : k + 1 \in good => k \in good
      <3> SUFFICES ASSUME NEW k \in 0 .. n - 1, fold[k + 1 + 1 .. n] \in Pairings(V)
                   PROVE  fold[k + 1 .. n] \in Pairings(V)
        BY <1>1
      <3>1. k + 1 \in 1 .. n
        BY <1>1
      <3>2. fold[k + 1 .. n] = PairUp(s[k + 1], fold[k + 1 + 1 .. n]) /\ s[k + 1] \in V
        BY <1>1, <1>6, <3>1
      <3>3. PairUp(s[k + 1], fold[k + 1 + 1 .. n]) \in Pairings(V)
        BY <3>2, PairingsFacts
      <3> QED
        BY <3>2, <3>3
    <2> HIDE DEF good
    <2> QED
      BY <1>1, <2>1, <2>2, DownInduction
  <1>8. \A i \in 1 .. n + 1 : fold[i .. n] \in Pairings(V)
    <2> SUFFICES ASSUME NEW i \in 1 .. n + 1 PROVE fold[i .. n] \in Pairings(V)
      OBVIOUS
    <2>1. i - 1 \in good /\ (i - 1) + 1 = i
      BY <1>1, <1>7
    <2> QED
      BY <2>1
  <1>9. IsPairing(g, s, base, V)
    <2>1. \A i \in 1 .. n : g[i] = PairUp(s[i], g[i + 1])
      BY <1>1, <1>6
    <2> QED
      <3>1. g \in [1 .. n + 1 -> Pairings(V)]
        BY <1>8
      <3>2. g[n + 1] = base
        BY <1>1, <1>5
      <3> QED
        BY <2>1, <3>1, <3>2 DEF IsPairing, n
  <1>10. FoldRight(PairUp, s, base) = g[1]
    BY <1>1, <1>2
  <1> HIDE DEF g
  <1> QED
    BY <1>9, <1>10

-----------------------------------------------------------------------------
\* What a reader of the program has read when he has come to an argument.
Texts == [positional : Seq(Items), pairs : SUBSET (Items \X Items), key : Items \cup {nil}]
IsReading(g, s, base) ==
    /\ g \in [0 .. Len(s) -> Texts]
    /\ g[0] = base
    /\ \A i \in 1 .. Len(s) : g[i] = ReadArgument(g[i - 1], s[i])

LEMMA TextsFacts ==
    ASSUME NEW c \in Texts, NEW v \in Items
    PROVE  /\ ReadArgument(c, v) \in Texts
           /\ c.key # nil =>
                 /\ ReadArgument(c, v).positional = c.positional
                 /\ ReadArgument(c, v).pairs = c.pairs \cup {<<c.key, v>>}
                 /\ ReadArgument(c, v).key = nil
           /\ c.key = nil /\ keyword_P(v) =>
                 /\ ReadArgument(c, v).positional = c.positional
                 /\ ReadArgument(c, v).pairs = c.pairs
                 /\ ReadArgument(c, v).key = v
           /\ c.key = nil /\ ~keyword_P(v) =>
                 /\ ReadArgument(c, v).positional = Append(c.positional, v)
                 /\ ReadArgument(c, v).pairs = c.pairs
                 /\ ReadArgument(c, v).key = nil
  <1> DEFINE W == Items \cup {nil}
             P == SUBSET (Items \X Items)
             Q == Seq(Items)
             more == c.pairs \cup {<<c.key, v>>}
             longer == Append(c.positional, v)
             value == [c EXCEPT !.key = nil, !.pairs = @ \cup {<<c.key, v>>}]
             key == [c EXCEPT !.key = v]
             next == [c EXCEPT !.positional = Append(@, v)]
  <1>1. c.positional \in Q /\ c.pairs \in P /\ c.key \in W
    BY DEF Texts
  <1>2. key \in Texts /\ key.positional = c.positional /\ key.pairs = c.pairs /\ key.key = v
    BY DEF Texts
  <1>3. CASE c.key # nil
    <2>1. more \in P
      BY <1>1, <1>3
    <2> HIDE DEF more, P
    <2>2. ReadArgument(c, v) = [c EXCEPT !.key = nil, !.pairs = more]
      BY <1>3 DEF ReadArgument, more
    <2>3. [c EXCEPT !.key = nil, !.pairs = more] \in Texts
      BY <2>1 DEF Texts, P
    <2>4. /\ [c EXCEPT !.key = nil, !.pairs = more].positional = c.positional
          /\ [c EXCEPT !.key = nil, !.pairs = more].pairs = more
          /\ [c EXCEPT !.key = nil, !.pairs = more].key = nil
      BY DEF Texts
    <2> QED
      BY <1>3, <2>2, <2>3, <2>4 DEF more
  <1>4. CASE c.key = nil /\ keyword_P(v)
    <2>1. ReadArgument(c, v) = key
      BY <1>4 DEF ReadArgument
    <2> HIDE DEF key
    <2> QED
      BY <1>2, <1>4, <2>1
  <1>5. CASE c.key = nil /\ ~keyword_P(v)
    <2>1. longer \in Q
      BY <1>1, AppendProperties
    <2> HIDE DEF longer, Q
    <2>2. ReadArgument(c, v) = [c EXCEPT !.positional = longer]
      BY <1>5 DEF ReadArgument, longer
    <2>3. [c EXCEPT !.positional = longer] \in Texts
      BY <2>1 DEF Texts, Q
    <2>4. /\ [c EXCEPT !.positional = longer].positional = longer
          /\ [c EXCEPT !.positional = longer].pairs = c.pairs
          /\ [c EXCEPT !.positional = longer].key = c.key
      BY DEF Texts
    <2> QED
      BY <1>5, <2>2, <2>3, <2>4 DEF longer
  <1> QED
    BY <1>3, <1>4, <1>5

LEMMA ReadingExists ==
    ASSUME NEW s \in Seq(Items)
    PROVE  \E g : /\ IsReading(g, s, [positional |-> <<>>, pairs |-> {}, key |-> nil])
                  /\ Reading(s) = g[Len(s)]
  <1> DEFINE n == Len(s)
             base == [positional |-> <<>>, pairs |-> {}, key |-> nil]
             Parts == SUBSET (1 .. n)
             def(f) == [U \in Parts |-> IF U = {} THEN base ELSE ReadArgument(f[U \ {Max(U)}], s[Max(U)])]
             fold == CHOOSE f : f = def(f)
             step == [p \in (1 .. n) \X Texts |-> ReadArgument(p[2], s[p[1]])]
  <1>1. n \in Nat /\ DOMAIN s = 1 .. n /\ \A i \in 1 .. n : s[i] \in Items
    BY LenProperties, ElementOfSeq
  <1>2. Reading(s) = fold[1 .. n]
    BY <1>1 DEF Reading, FoldLeft, MapThenFoldSet
  <1>3. \A U : Max(U) = Greatest(U)
    BY DEF Max, Greatest
  <1>0. base \in Texts
    <2>1. <<>> \in Seq(Items)
      BY EmptySeq
    <2> QED
      BY <2>1 DEF Texts
  <1> HIDE DEF base
  <1>4. fold = def(fold)
    <2>1. step \in Steps(n, Texts)
      BY <1>1, TextsFacts DEF Steps
    <2> HIDE DEF step, n
    <2>2. PICK f \in Folds(n, Texts) : IsFold(f, base, Greatests(n), step, n)
      BY <1>0, <1>1, <2>1, PicksFacts, SetRecursion
    <2>3. \A U \in Parts : f[U] = IF U = {} THEN base ELSE ReadArgument(f[U \ {Max(U)}], s[Max(U)])
      <3> SUFFICES ASSUME NEW U \in Parts, U # {}
                   PROVE  f[U] = ReadArgument(f[U \ {Max(U)}], s[Max(U)])
        BY <2>2 DEF IsFold
      <3>1. Greatests(n)[U] = Max(U) /\ Max(U) \in 1 .. n /\ U \ {Max(U)} \in Parts
        BY <1>1, <1>3, PicksFacts
      <3>2. f[U \ {Max(U)}] \in Texts
        BY <3>1 DEF Folds
      <3>3. f[U] = step[<<Max(U), f[U \ {Max(U)}]>>]
        BY <2>2, <3>1 DEF IsFold
      <3> QED
        BY <3>1, <3>2, <3>3 DEF step
    <2> HIDE DEF Parts
    <2>4. f = [U \in Parts |-> f[U]]
      BY DEF Folds, Parts
    <2>5. f = def(f)
      BY <2>3, <2>4
    <2> QED
      BY <2>5
  <1> HIDE DEF fold, step
  <1> DEFINE g == [i \in 0 .. n |-> fold[1 .. i]]
             good == {k \in 0 .. n : fold[1 .. k] \in Texts}
  <1>5. fold[1 .. 0] = base
    <2>1. 1 .. 0 = {}
      OBVIOUS
    <2> QED
      BY <1>4, <2>1
  <1>6. ASSUME NEW i \in 1 .. n
        PROVE  fold[1 .. i] = ReadArgument(fold[1 .. i - 1], s[i])
    <2>0. i \in Int /\ 1 \in Int /\ 1 <= i /\ i \in 1 .. i /\ n \in Int /\ i <= n
      BY <1>1
    <2>1. i \in Int /\ 1 \in Int /\ 1 <= i /\ 1 .. i \in Parts /\ 1 .. i # {}
      <3> HIDE DEF n
      <3> QED
        BY <2>0
    <2>2. Max(1 .. i) = i /\ (1 .. i) \ {i} = 1 .. i - 1
      BY <1>3, <2>1, EndFacts
    <2> HIDE DEF n, Parts
    <2>3. fold[1 .. i] = ReadArgument(fold[(1 .. i) \ {Max(1 .. i)}], s[Max(1 .. i)])
      BY <1>4, <2>1
    <2> QED
      BY <2>2, <2>3
  <1> HIDE DEF n
  <1>7. \A k \in 0 .. n : k \in good
    <2>1. 0 \in good
      BY <1>0, <1>1, <1>5
    <2>2. \A k \in 0 .. n - 1 : k \in good => k + 1 \in good
      <3> SUFFICES ASSUME NEW k \in 0 .. n - 1, fold[1 .. k] \in Texts
                   PROVE  fold[1 .. k + 1] \in Texts
        BY <1>1
      <3>1. k + 1 \in 1 .. n /\ (k + 1) - 1 = k
        BY <1>1
      <3>2. fold[1 .. k + 1] = ReadArgument(fold[1 .. k], s[k + 1])
        BY <1>6, <3>1
      <3> QED
        BY <1>1, <3>1, <3>2, TextsFacts
    <2> HIDE DEF good
    <2> QED
      BY <1>1, <2>1, <2>2, UpInduction
  <1>8. IsReading(g, s, base)
    <2>1. \A i \in 1 .. n : g[i] = ReadArgument(g[i - 1], s[i])
      BY <1>1, <1>6
    <2>2. g \in [0 .. n -> Texts]
      BY <1>7
    <2>3. 0 \in 0 .. n
      BY <1>1
    <2> QED
      BY <1>5, <2>1, <2>2, <2>3 DEF IsReading, n
  <1>9. Reading(s) = g[n]
    BY <1>1, <1>2
  <1> HIDE DEF g
  <1> QED
    BY <1>8, <1>9 DEF base, n
-----------------------------------------------------------------------------
\* Two tallies of a text: of the arguments that are positional, and of the
\* keywords.
PlainSeq(s) == \A i \in 1 .. Len(s) - 1 : ~(keyword_P(s[i]) /\ keyword_P(s[i + 1]))
Positional(s, i) == ~keyword_P(s[i]) /\ (i = 1 \/ ~keyword_P(s[i - 1]))
IsTally(N, K, s) ==
    /\ N \in [0 .. Len(s) -> Nat] /\ K \in [0 .. Len(s) -> Nat]
    /\ N[0] = 0 /\ K[0] = 0
    /\ \A i \in 1 .. Len(s) :
           /\ N[i] = N[i - 1] + (IF Positional(s, i) THEN 1 ELSE 0)
           /\ K[i] = K[i - 1] + (IF keyword_P(s[i]) THEN 1 ELSE 0)

LEMMA TallyExists ==
    ASSUME NEW s, Len(s) \in Nat
    PROVE  \E N, K : IsTally(N, K, s)
  <1> DEFINE m == Len(s)
             stepN == [q \in (1 .. m) \X Nat |-> q[2] + (IF Positional(s, q[1]) THEN 1 ELSE 0)]
             stepK == [q \in (1 .. m) \X Nat |-> q[2] + (IF keyword_P(s[q[1]]) THEN 1 ELSE 0)]
  <1>1. stepN \in Steps(m, Nat) /\ stepK \in Steps(m, Nat)
    BY DEF Steps
  <1> HIDE DEF stepN, stepK
  <1>2. PICK N \in Values(m, Nat) : Recurses(N, 0, stepN, m)
    BY <1>1, Recursion
  <1>3. PICK K \in Values(m, Nat) : Recurses(K, 0, stepK, m)
    BY <1>1, Recursion
  <1>4. ASSUME NEW i \in 1 .. m
        PROVE  /\ N[i] = N[i - 1] + (IF Positional(s, i) THEN 1 ELSE 0)
               /\ K[i] = K[i - 1] + (IF keyword_P(s[i]) THEN 1 ELSE 0)
    <2>1. i - 1 \in 0 .. m
      OBVIOUS
    <2>2. N[i - 1] \in Nat /\ N[i] = stepN[<<i, N[i - 1]>>]
      BY <1>2, <2>1 DEF Values, Recurses
    <2>3. K[i - 1] \in Nat /\ K[i] = stepK[<<i, K[i - 1]>>]
      BY <1>3, <2>1 DEF Values, Recurses
    <2> QED
      BY <2>2, <2>3 DEF stepN, stepK
  <1>5. IsTally(N, K, s)
    BY <1>2, <1>3, <1>4 DEF IsTally, Values, Recurses
  <1> QED
    BY <1>5

\* Tallies ascend, and there is an argument for each number that they reach.
Reaches(N, K, s, i) ==
    /\ \A j \in 0 .. i : N[j] <= N[i] /\ K[j] <= K[i]
    /\ \A k \in 1 .. N[i] : \E j \in 1 .. i : Positional(s, j) /\ N[j] = k
    /\ \A k \in 1 .. K[i] : \E j \in 1 .. i : keyword_P(s[j]) /\ K[j] = k
    /\ IsFiniteSet({j \in 1 .. i : keyword_P(s[j])})
    /\ Cardinality({j \in 1 .. i : keyword_P(s[j])}) = K[i]

LEMMA TallyFacts ==
    ASSUME NEW s, Len(s) \in Nat, NEW N, NEW K, IsTally(N, K, s)
    PROVE  \A i \in 0 .. Len(s) : Reaches(N, K, s, i)
  <1> DEFINE m == Len(s)
             good == {i \in 0 .. m : Reaches(N, K, s, i)}
             keywords(i) == {j \in 1 .. i : keyword_P(s[j])}
  <1>1. 0 \in good
    <2>1. keywords(0) = {}
      OBVIOUS
    <2>2. IsFiniteSet(keywords(0)) /\ Cardinality(keywords(0)) = 0
      BY <2>1, FS_EmptySet
    <2> QED
      BY <2>2 DEF IsTally, Reaches
  <1>2. \A i \in 0 .. m - 1 : i \in good => i + 1 \in good
    <2> SUFFICES ASSUME NEW i \in 0 .. m - 1, Reaches(N, K, s, i)
                 PROVE  Reaches(N, K, s, i + 1)
      OBVIOUS
    <2>1. /\ i + 1 \in 1 .. m /\ i \in Nat /\ (i + 1) - 1 = i
          /\ N[i] \in Nat /\ K[i] \in Nat
          /\ N[i + 1] = N[i] + (IF Positional(s, i + 1) THEN 1 ELSE 0)
          /\ K[i + 1] = K[i] + (IF keyword_P(s[i + 1]) THEN 1 ELSE 0)
      BY DEF IsTally
    <2>2. \A j \in 0 .. i + 1 : j = i + 1 \/ j \in 0 .. i
      BY <2>1
    <2>3. N[i] <= N[i + 1] /\ K[i] <= K[i + 1] /\ N[i + 1] \in Nat /\ K[i + 1] \in Nat
      BY <2>1
    <2>4. \A j \in 0 .. i + 1 : N[j] <= N[i + 1] /\ K[j] <= K[i + 1]
      <3> SUFFICES ASSUME NEW j \in 0 .. i, N[j] <= N[i] /\ K[j] <= K[i]
                   PROVE  N[j] <= N[i + 1] /\ K[j] <= K[i + 1]
        BY <2>2, <2>3 DEF Reaches
      <3>1. N[j] \in Nat /\ K[j] \in Nat
        BY <2>1 DEF IsTally
      <3> QED
        BY <2>1, <2>3, <3>1
    <2>5. \A k \in 1 .. N[i + 1] : \E j \in 1 .. i + 1 : Positional(s, j) /\ N[j] = k
      <3> SUFFICES ASSUME NEW k \in 1 .. N[i + 1]
                   PROVE  \E j \in 1 .. i + 1 : Positional(s, j) /\ N[j] = k
        OBVIOUS
      <3>1. CASE k \in 1 .. N[i]
        <4>1. PICK j \in 1 .. i : Positional(s, j) /\ N[j] = k
          BY <3>1 DEF Reaches
        <4> QED
          BY <2>1, <4>1
      <3>2. CASE k \notin 1 .. N[i]
        <4>1. Positional(s, i + 1) /\ N[i + 1] = k
          BY <2>1, <3>2
        <4> QED
          BY <2>1, <4>1
      <3> QED
        BY <3>1, <3>2
    <2>6. \A k \in 1 .. K[i + 1] : \E j \in 1 .. i + 1 : keyword_P(s[j]) /\ K[j] = k
      <3> SUFFICES ASSUME NEW k \in 1 .. K[i + 1]
                   PROVE  \E j \in 1 .. i + 1 : keyword_P(s[j]) /\ K[j] = k
        OBVIOUS
      <3>1. CASE k \in 1 .. K[i]
        <4>1. PICK j \in 1 .. i : keyword_P(s[j]) /\ K[j] = k
          BY <3>1 DEF Reaches
        <4> QED
          BY <2>1, <4>1
      <3>2. CASE k \notin 1 .. K[i]
        <4>1. keyword_P(s[i + 1]) /\ K[i + 1] = k
          BY <2>1, <3>2
        <4> QED
          BY <2>1, <4>1
      <3> QED
        BY <3>1, <3>2
    <2>7. IsFiniteSet(keywords(i + 1)) /\ Cardinality(keywords(i + 1)) = K[i + 1]
      <3>1. IsFiniteSet(keywords(i)) /\ Cardinality(keywords(i)) = K[i]
        BY DEF Reaches
      <3>2. CASE keyword_P(s[i + 1])
        <4>1. keywords(i + 1) = keywords(i) \cup {i + 1} /\ i + 1 \notin keywords(i)
          BY <2>1, <3>2
        <4> HIDE DEF keywords
        <4>2. IsFiniteSet(keywords(i) \cup {i + 1}) /\ Cardinality(keywords(i) \cup {i + 1}) = Cardinality(keywords(i)) + 1
          BY <3>1, <4>1, FS_AddElement
        <4> QED
          BY <2>1, <3>1, <3>2, <4>1, <4>2
      <3>3. CASE ~keyword_P(s[i + 1])
        <4>1. keywords(i + 1) = keywords(i)
          BY <2>1, <3>3
        <4> HIDE DEF keywords
        <4> QED
          BY <2>1, <3>1, <3>3, <4>1
      <3> QED
        BY <3>2, <3>3
    <2> QED
      BY <2>4, <2>5, <2>6, <2>7 DEF Reaches
  <1> HIDE DEF good
  <1>3. \A i \in 0 .. m : i \in good
    BY <1>1, <1>2, UpInduction
  <1> QED
    BY <1>3 DEF good
-----------------------------------------------------------------------------
\* What has been read of a text, by its tally.
ReadsUpTo(text, s, N, i) ==
    /\ Len(text.positional) = N[i]
    /\ \A j \in 1 .. i : Positional(s, j) => text.positional[N[j]] = s[j]
    /\ text.pairs = {<<s[j], s[j + 1]>> : j \in {k \in 1 .. i - 1 : keyword_P(s[k])}}
    /\ text.key = IF i > 0 /\ keyword_P(s[i]) THEN s[i] ELSE nil

LEMMA KeywordFacts ==
    ASSUME NEW v, keyword_P(v)
    PROVE  v # nil /\ ~application_P(v)
  BY DEF keyword_P, application_P, nil

LEMMA ReadFacts ==
    ASSUME NEW s \in Seq(Items), PlainSeq(s), NEW N, NEW K, IsTally(N, K, s)
    PROVE  Reading(s) \in Texts /\ ReadsUpTo(Reading(s), s, N, Len(s))
  <1> DEFINE m == Len(s)
             base == [positional |-> <<>>, pairs |-> {}, key |-> nil]
  <1>1. PICK g : IsReading(g, s, base) /\ Reading(s) = g[m]
    BY ReadingExists
  <1>2. m \in Nat /\ \A i \in 1 .. m : s[i] \in Items
    BY LenProperties, ElementOfSeq
  <1>3. base.positional = <<>> /\ base.pairs = {} /\ base.key = nil
    OBVIOUS
  <1> HIDE DEF base
  <1>4. /\ g[0] = base /\ \A i \in 0 .. m : g[i] \in Texts
        /\ \A i \in 1 .. m : g[i] = ReadArgument(g[i - 1], s[i])
    BY <1>1 DEF IsReading
  <1> DEFINE good == {i \in 0 .. m : ReadsUpTo(g[i], s, N, i)}
  <1>5. 0 \in good
    <2>1. Len(base.positional) = N[0]
      BY <1>3 DEF IsTally
    <2>2. {<<s[j], s[j + 1]>> : j \in {k \in 1 .. 0 - 1 : keyword_P(s[k])}} = {}
      OBVIOUS
    <2> QED
      BY <1>2, <1>3, <1>4, <2>1, <2>2 DEF ReadsUpTo
  <1>6. \A i \in 0 .. m - 1 : i \in good => i + 1 \in good
    <2> SUFFICES ASSUME NEW i \in 0 .. m - 1, ReadsUpTo(g[i], s, N, i)
                 PROVE  ReadsUpTo(g[i + 1], s, N, i + 1)
      BY <1>2
    <2> DEFINE c == g[i]
               v == s[i + 1]
               d == g[i + 1]
    <2>1. /\ i + 1 \in 1 .. m /\ i \in Nat /\ (i + 1) - 1 = i /\ i \in 0 .. m
          /\ v \in Items /\ c \in Texts /\ d = ReadArgument(c, v)
      BY <1>2, <1>4
    <2>2. N[i] \in Nat /\ N[i + 1] = N[i] + (IF Positional(s, i + 1) THEN 1 ELSE 0)
      BY <2>1 DEF IsTally
    <2>3. c.positional \in Seq(Items)
      BY <2>1 DEF Texts
    <2>4. \A j \in 1 .. i : N[j] \in Nat /\ N[j] <= N[i] /\ (Positional(s, j) => N[j] >= 1)
      <3> SUFFICES ASSUME NEW j \in 1 .. i
                   PROVE  N[j] \in Nat /\ N[j] <= N[i] /\ (Positional(s, j) => N[j] >= 1)
        OBVIOUS
      <3>1. j \in 0 .. m /\ j - 1 \in 0 .. m /\ j \in 1 .. m
        BY <1>2, <2>1
      <3>2. N[j] \in Nat /\ N[j - 1] \in Nat /\ N[j] = N[j - 1] + (IF Positional(s, j) THEN 1 ELSE 0)
        BY <3>1 DEF IsTally
      <3>0. Reaches(N, K, s, i)
        BY <1>2, <2>1, TallyFacts
      <3>3. N[j] <= N[i]
        BY <3>0 DEF Reaches
      <3> QED
        BY <3>2, <3>3
    <2>5. /\ Len(c.positional) = N[i]
          /\ \A j \in 1 .. i : Positional(s, j) => c.positional[N[j]] = s[j]
          /\ c.pairs = {<<s[j], s[j + 1]>> : j \in {k \in 1 .. i - 1 : keyword_P(s[k])}}
          /\ c.key = IF i > 0 /\ keyword_P(s[i]) THEN s[i] ELSE nil
      BY DEF ReadsUpTo
    <2>6. c.key # nil <=> (i > 0 /\ keyword_P(s[i]))
      BY <2>5, KeywordFacts
    <2>7. \A j \in 1 .. i + 1 : j \in 1 .. i \/ j = i + 1
      BY <2>1
    <2> DEFINE pairs(k) == {<<s[j], s[j + 1]>> : j \in {l \in 1 .. k : keyword_P(s[l])}}
    <2>8. ASSUME i > 0, keyword_P(s[i]) PROVE pairs(i) = pairs(i - 1) \cup {<<s[i], s[i + 1]>>}
      <3>1. {l \in 1 .. i : keyword_P(s[l])} = {l \in 1 .. i - 1 : keyword_P(s[l])} \cup {i}
        BY <2>1, <2>8
      <3> QED
        BY <3>1
    <2>9. ASSUME ~(i > 0 /\ keyword_P(s[i])) PROVE pairs(i) = pairs(i - 1)
      <3>1. {l \in 1 .. i : keyword_P(s[l])} = {l \in 1 .. i - 1 : keyword_P(s[l])}
        BY <2>1, <2>9
      <3> QED
        BY <3>1
    <2>10. c.pairs = pairs(i - 1)
      BY <2>5
    <2> SUFFICES /\ Len(d.positional) = N[i + 1]
                 /\ \A j \in 1 .. i + 1 : Positional(s, j) => d.positional[N[j]] = s[j]
                 /\ d.pairs = pairs(i)
                 /\ d.key = IF keyword_P(v) THEN v ELSE nil
      BY <2>1 DEF ReadsUpTo
    <2> HIDE DEF c, v, d, pairs
    <2>11. CASE c.key # nil
      <3>1. i > 0 /\ keyword_P(s[i]) /\ ~keyword_P(v) /\ ~Positional(s, i + 1) /\ c.key = s[i]
        <4>1. i > 0 /\ keyword_P(s[i]) /\ c.key = s[i]
          BY <2>5, <2>6, <2>11
        <4>2. i \in 1 .. m - 1
          BY <1>2, <4>1
        <4>3. ~keyword_P(v)
          BY <4>1, <4>2 DEF PlainSeq, v
        <4> QED
          BY <2>1, <4>1, <4>3 DEF Positional
      <3>2. d.positional = c.positional /\ d.pairs = c.pairs \cup {<<c.key, v>>} /\ d.key = nil
        BY <2>1, <2>11, TextsFacts
      <3>3. d.pairs = pairs(i)
        BY <2>8, <2>10, <3>1, <3>2 DEF v
      <3> QED
        BY <2>2, <2>5, <2>7, <3>1, <3>2, <3>3
    <2>12. CASE c.key = nil /\ keyword_P(v)
      <3>1. ~(i > 0 /\ keyword_P(s[i])) /\ ~Positional(s, i + 1)
        BY <2>6, <2>12 DEF Positional, v
      <3>2. d.positional = c.positional /\ d.pairs = c.pairs /\ d.key = v
        BY <2>1, <2>12, TextsFacts
      <3>3. d.pairs = pairs(i)
        BY <2>9, <2>10, <3>1, <3>2
      <3> QED
        BY <2>2, <2>5, <2>7, <2>12, <3>1, <3>2, <3>3
    <2>13. CASE c.key = nil /\ ~keyword_P(v)
      <3>1. ~(i > 0 /\ keyword_P(s[i])) /\ Positional(s, i + 1)
        BY <2>1, <2>6, <2>13 DEF Positional, v
      <3>2. d.positional = Append(c.positional, v) /\ d.pairs = c.pairs /\ d.key = nil
        BY <2>1, <2>13, TextsFacts
      <3>3. d.pairs = pairs(i)
        BY <2>9, <2>10, <3>1, <3>2
      <3>4. /\ Len(d.positional) = Len(c.positional) + 1
            /\ \A k \in 1 .. Len(c.positional) : d.positional[k] = c.positional[k]
            /\ d.positional[Len(c.positional) + 1] = v
        BY <2>1, <2>3, <3>2, AppendProperties
      <3>5. Len(d.positional) = N[i + 1] /\ N[i + 1] = N[i] + 1
        BY <2>2, <2>5, <3>1, <3>4
      <3>6. ASSUME NEW j \in 1 .. i + 1, Positional(s, j)
            PROVE  d.positional[N[j]] = s[j]
        <4>1. CASE j = i + 1
          BY <2>5, <3>4, <3>5, <4>1 DEF v
        <4>2. CASE j \in 1 .. i
          <5>1. N[j] \in 1 .. Len(c.positional)
            BY <2>2, <2>4, <2>5, <3>6, <4>2
          <5> QED
            BY <2>5, <3>4, <3>6, <4>2, <5>1
        <4> QED
          BY <2>7, <4>1, <4>2
      <3> QED
        BY <2>13, <3>2, <3>3, <3>5, <3>6
    <2> QED
      BY <2>11, <2>12, <2>13
  <1> HIDE DEF good
  <1>7. \A i \in 0 .. m : i \in good
    BY <1>2, <1>5, <1>6, UpInduction
  <1>8. m \in 0 .. m
    BY <1>2
  <1> QED
    BY <1>1, <1>4, <1>7, <1>8 DEF good
-----------------------------------------------------------------------------
\* What call_builtin has counted, by the tally of the text.
CountedAs(counted, s, a, t, N) ==
    /\ counted \in Counts
    /\ counted.had <=> \E j \in 1 .. Len(s) : keyword_P(s[j])
    /\ PlainSeq(t) => counted.count = N[Len(t)] - (IF keyword_P(a) THEN 1 ELSE 0)

LEMMA CountFacts ==
    ASSUME NEW s \in Seq(Items), NEW a \in Items, NEW t, t = Append(s, a),
           argumentsOf(fn) = s, NEW N, NEW K, IsTally(N, K, t)
    PROVE  CountedAs(CountArguments(fn, a), s, a, t, N)
  <1> DEFINE n == Len(s)
             base == [count |-> IF keyword_P(a) THEN -1 ELSE 1, inKV |-> FALSE, had |-> FALSE]
             kw(i) == IF i > 0 /\ keyword_P(t[i]) THEN 1 ELSE 0
             D(i) == N[i] - kw(i)
  <1>1. /\ n \in Nat /\ Len(t) = n + 1 /\ t[n + 1] = a
        /\ \A i \in 1 .. n : t[i] = s[i]
    BY LenProperties, AppendProperties
  <1>2. base \in Counts /\ base.inKV = FALSE /\ base.had = FALSE /\ base.count = IF keyword_P(a) THEN -1 ELSE 1
    BY DEF Counts
  <1>3. CountArguments(fn, a) = FoldRight(CountArgument, s, base)
    BY DEF CountArguments
  <1> HIDE DEF base
  <1>4. PICK g : IsCounting(g, s, base) /\ CountArguments(fn, a) = g[1]
    BY <1>2, <1>3, CountingExists
  <1>5. /\ \A i \in 1 .. n + 1 : g[i] \in Counts
        /\ g[n + 1] = base
        /\ \A i \in 1 .. n : g[i] = CountArgument(s[i], g[i + 1])
    BY <1>4 DEF IsCounting
  <1> DEFINE Had(i) == g[i].had <=> \E j \in i .. n : keyword_P(s[j])
             good == {i \in 0 .. n : Had(i + 1) /\ (g[i + 1].inKV => g[i + 1].had)}
  <1>6. \A i \in 0 .. n : i \in good
    <2>1. n \in good
      BY <1>1, <1>2, <1>5
    <2>2. \A i \in 0 .. n - 1 : i + 1 \in good => i \in good
      <3> SUFFICES ASSUME NEW i \in 0 .. n - 1, Had(i + 1 + 1), g[i + 1 + 1].inKV => g[i + 1 + 1].had
                   PROVE  Had(i + 1) /\ (g[i + 1].inKV => g[i + 1].had)
        BY <1>1
      <3>1. /\ i + 1 \in 1 .. n /\ i + 1 + 1 \in 1 .. n + 1 /\ i + 1 \in i + 1 .. n
            /\ \A j \in i + 1 .. n : j = i + 1 \/ j \in i + 1 + 1 .. n
            /\ i + 1 + 1 .. n \subseteq i + 1 .. n
        BY <1>1
      <3> DEFINE c == g[i + 1 + 1]
                 v == s[i + 1]
                 d == g[i + 1]
      <3>2. c \in Counts /\ d = CountArgument(v, c)
        BY <1>5, <3>1
      <3>3. c.inKV \in BOOLEAN /\ c.had \in BOOLEAN
        BY <3>2 DEF Counts
      <3>4. CASE ~c.inKV /\ keyword_P(v)
        <4>1. d.had = TRUE
          BY <3>2, <3>4, CountsFacts
        <4> QED
          BY <3>1, <3>4, <4>1
      <3>5. CASE ~(~c.inKV /\ keyword_P(v))
        <4>1. d.had = c.had /\ d.inKV = FALSE
          <5> HIDE DEF c, v, d
          <5> QED
            BY <3>2, <3>5, CountsFacts
        <4>2. c.had <=> \E j \in i + 1 + 1 .. n : keyword_P(s[j])
          OBVIOUS
        <4>3. keyword_P(v) => c.had
          BY <3>3, <3>5
        <4> HIDE DEF c, d
        <4>4. c.had <=> \E j \in i + 1 .. n : keyword_P(s[j])
          BY <3>1, <4>2, <4>3
        <4> QED
          BY <4>1, <4>4 DEF d
      <3> QED
        BY <3>4, <3>5
    <2> HIDE DEF good
    <2> QED
      BY <1>1, <2>1, <2>2, DownInduction
  <1>7. g[1] \in Counts /\ Had(1)
    <2>1. 0 \in 0 .. n /\ 1 \in 1 .. n + 1
      BY <1>1
    <2> QED
      BY <1>5, <1>6, <2>1
  <1>8. ASSUME PlainSeq(t)
        PROVE  g[1].count = N[n + 1] - (IF keyword_P(a) THEN 1 ELSE 0)
    <2>1. ASSUME NEW i \in 1 .. n + 1
          PROVE  /\ D(i) \in Int /\ D(i - 1) \in Int
                 /\ D(i) - D(i - 1) = IF keyword_P(t[i]) THEN -1 ELSE 1
      <3>1. /\ N[i] \in Nat /\ N[i - 1] \in Nat
            /\ N[i] = N[i - 1] + (IF Positional(t, i) THEN 1 ELSE 0)
        <4>1. Len(t) = n + 1 /\ i \in 1 .. Len(t) /\ i \in 0 .. Len(t) /\ i - 1 \in 0 .. Len(t)
          BY <1>1
        <4> HIDE DEF n
        <4>2. \A j \in 0 .. Len(t) : N[j] \in Nat
          BY DEF IsTally
        <4>3. \A j \in 1 .. Len(t) : N[j] = N[j - 1] + (IF Positional(t, j) THEN 1 ELSE 0)
          BY DEF IsTally
        <4> QED
          BY <4>1, <4>2, <4>3
      <3>2. i = 1 => kw(i - 1) = 0 /\ (Positional(t, i) <=> ~keyword_P(t[i]))
        BY DEF Positional
      <3>3. i # 1 => (kw(i - 1) = 1 => ~keyword_P(t[i]))
        <4> SUFFICES ASSUME i # 1, kw(i - 1) = 1 PROVE ~keyword_P(t[i])
          OBVIOUS
        <4>1. i - 1 \in 1 .. Len(t) - 1 /\ keyword_P(t[i - 1]) /\ (i - 1) + 1 = i
          BY <1>1
        <4> QED
          BY <1>8, <4>1 DEF PlainSeq
      <3>4. i # 1 => (kw(i - 1) = 1 <=> keyword_P(t[i - 1])) /\ kw(i - 1) \in {0, 1}
        BY <1>1
      <3>5. Positional(t, i) <=> ~keyword_P(t[i]) /\ kw(i - 1) = 0
        BY <3>2, <3>4 DEF Positional
      <3>6. kw(i) = (IF keyword_P(t[i]) THEN 1 ELSE 0) /\ kw(i - 1) \in {0, 1}
        BY <1>1
      <3>7. keyword_P(t[i]) => kw(i - 1) = 0
        BY <3>2, <3>3, <3>6
      <3> HIDE DEF kw
      <3>8. CASE keyword_P(t[i])
        <4>1. N[i] = N[i - 1] /\ kw(i) = 1 /\ kw(i - 1) = 0
          BY <3>1, <3>5, <3>6, <3>7, <3>8
        <4> QED
          BY <3>1, <3>8, <4>1
      <3>9. CASE ~keyword_P(t[i])
        <4>1. kw(i) = 0
          BY <3>6, <3>9
        <4>2. CASE kw(i - 1) = 0
          <5>1. N[i] = N[i - 1] + 1
            BY <3>1, <3>5, <3>9, <4>2
          <5> QED
            BY <3>1, <3>9, <4>1, <4>2, <5>1
        <4>3. CASE kw(i - 1) = 1
          <5>1. N[i] = N[i - 1]
            BY <3>1, <3>5, <4>3
          <5> QED
            BY <3>1, <3>9, <4>1, <4>3, <5>1
        <4> QED
          BY <3>6, <4>2, <4>3
      <3> QED
        BY <3>8, <3>9
    <2> HIDE DEF D
    <2> DEFINE Sum(i) == g[i].count = base.count + D(n) - D(i - 1)
               good2 == {i \in 0 .. n : Sum(i + 1) /\ (g[i + 1].inKV => i < n /\ keyword_P(s[i + 1]))}
    <2>2. D(n) \in Int
      <3>1. n + 1 \in 1 .. n + 1 /\ (n + 1) - 1 = n
        BY <1>1
      <3> QED
        BY <2>1, <3>1
    <2>3. n \in good2
      <3>1. base.count \in Int /\ (n + 1) - 1 = n
        BY <1>1, <1>2
      <3> QED
        BY <1>1, <1>2, <1>5, <2>2, <3>1
    <2>4. \A i \in 0 .. n - 1 : i + 1 \in good2 => i \in good2
      <3> SUFFICES ASSUME NEW i \in 0 .. n - 1, Sum(i + 1 + 1),
                          g[i + 1 + 1].inKV => i + 1 < n /\ keyword_P(s[i + 1 + 1])
                   PROVE  Sum(i + 1) /\ (g[i + 1].inKV => i < n /\ keyword_P(s[i + 1]))
        BY <1>1
      <3>1. /\ i + 1 \in 1 .. n /\ i + 1 \in 1 .. n + 1 /\ i + 1 + 1 \in 1 .. n + 1
            /\ (i + 1 + 1) - 1 = i + 1 /\ (i + 1) - 1 = i /\ t[i + 1] = s[i + 1]
        BY <1>1
      <3> DEFINE c == g[i + 1 + 1]
                 v == s[i + 1]
                 d == g[i + 1]
      <3>2. c \in Counts /\ d = CountArgument(v, c)
        BY <1>5, <3>1
      <3>3. c.inKV \in BOOLEAN /\ c.count \in Int /\ base.count \in Int
        BY <1>2, <3>2 DEF Counts
      <3>4. D(i + 1) \in Int /\ D(i) \in Int /\ D(i + 1) - D(i) = IF keyword_P(v) THEN -1 ELSE 1
        BY <2>1, <3>1
      <3>5. c.count = base.count + D(n) - D(i + 1)
        BY <3>1
      <3>6. keyword_P(v) => ~c.inKV
        <4> SUFFICES ASSUME keyword_P(v), c.inKV PROVE FALSE
          OBVIOUS
        <4>1. i + 1 < n /\ keyword_P(s[i + 1 + 1])
          OBVIOUS
        <4>2. i + 1 \in 1 .. Len(t) - 1 /\ t[i + 1 + 1] = s[i + 1 + 1]
          BY <1>1, <4>1
        <4> QED
          BY <1>8, <3>1, <4>1, <4>2 DEF PlainSeq
      <3> HIDE DEF c, d, v
      <3>7. CASE keyword_P(v)
        <4>1. d.count = c.count - 1
          BY <3>2, <3>6, <3>7, CountsFacts
        <4>2. D(i + 1) - D(i) = -1
          BY <3>4, <3>7
        <4>3. d.count = base.count + D(n) - D(i)
          BY <2>2, <3>3, <3>4, <3>5, <4>1, <4>2
        <4> QED
          BY <1>1, <3>1, <3>7, <4>3 DEF d, v
      <3>8. CASE ~keyword_P(v)
        <4>1. d.count = c.count + 1 /\ d.inKV = FALSE
          BY <3>2, <3>8, CountsFacts
        <4>2. D(i + 1) - D(i) = 1
          BY <3>4, <3>8
        <4>3. d.count = base.count + D(n) - D(i)
          BY <2>2, <3>3, <3>4, <3>5, <4>1, <4>2
        <4> QED
          BY <3>1, <4>1, <4>3 DEF d
      <3> QED
        BY <3>7, <3>8
    <2>5. \A i \in 0 .. n : i \in good2
      <3> HIDE DEF good2
      <3> QED
        BY <1>1, <2>3, <2>4, DownInduction
    <2>6. g[1].count = base.count + D(n) - D(0)
      <3>1. 0 \in good2 /\ 0 + 1 = 1 /\ 1 - 1 = 0
        BY <1>1, <2>5
      <3> QED
        BY <3>1
    <2>7. D(0) = 0
      BY DEF IsTally, D
    <2>8. D(n + 1) = N[n + 1] - (IF keyword_P(a) THEN 1 ELSE 0)
      BY <1>1 DEF D
    <2>9. D(n + 1) \in Int /\ D(n + 1) - D(n) = base.count
      <3>1. n + 1 \in 1 .. n + 1 /\ (n + 1) - 1 = n
        BY <1>1
      <3> QED
        BY <1>1, <1>2, <2>1, <3>1
    <2> QED
      BY <1>2, <2>2, <2>6, <2>7, <2>8, <2>9
  <1> QED
    BY <1>1, <1>4, <1>7, <1>8 DEF CountedAs
-----------------------------------------------------------------------------
\* What the code does exactly.  Of a keyword at the end, which CalledWhenComplete
\* leaves open when it could be the last argument, the code waits for the value.
OnlyWhereAllowed ==
    /\ (status = "call" /\ ~takesKeywords) => \A i \in DOMAIN given : ~keyword_P(given[i])
    /\ status = "reject" => ~takesKeywords
CompleteExactly ==
    /\ OnlyWhereAllowed
    /\ (PlainText /\ status # "reject" /\ given # <<>>) =>
           LET text == Reading(given)
           IN  (status = "call") <=> (Len(text.positional) = wanted /\ text.key = nil)

\* As long as arguments are collected, the text has less positional arguments
\* than the builtin wants.
IInv ==
    /\ given \in Seq(Items)
    /\ procOf(fn) \in {CProcedure("p", arity) : arity \in Arities}
    /\ status = "curry" =>
           /\ argumentsOf(fn) = given
           /\ PlainText => Len(Reading(given).positional) < wanted
    /\ CompleteExactly

LEMMA WantedFacts ==
    ASSUME procOf(fn) \in {CProcedure("p", arity) : arity \in Arities}
    PROVE  /\ procOf(fn).fArgumentCount \in Int /\ procOf(fn).fArgumentCount # 0
           /\ wanted \in Nat /\ wanted > 0
           /\ wanted = procOf(fn).fArgumentCount \/ wanted = -procOf(fn).fArgumentCount
  <1>1. PICK arity \in Arities : procOf(fn) = CProcedure("p", arity)
    OBVIOUS
  <1>2. procOf(fn).fArgumentCount = arity
    BY <1>1 DEF CProcedure
  <1>3. arity \in Int /\ arity # 0
    BY ArityAssumption
  <1> HIDE DEF procOf
  <1>4. wanted = IF arity < 0 THEN -arity ELSE arity
    BY <1>2 DEF wanted
  <1> QED
    BY <1>2, <1>3, <1>4

LEMMA CurryFacts ==
    ASSUME NEW argument
    PROVE  /\ procOf(makeCurriedOperation(fn, argument)) = procOf(fn)
           /\ argumentsOf(makeCurriedOperation(fn, argument)) = Append(argumentsOf(fn), argument)
  <1> DEFINE p == procOf(fn)
             r == Append(argumentsOf(fn), argument)
  <1> HIDE DEF p, r
  <1>1. makeCurriedOperation(fn, argument) = [t |-> "curried", proc |-> p, arguments |-> r]
    BY DEF makeCurriedOperation, CurriedOperation, p, r
  <1>2. procOf(makeCurriedOperation(fn, argument)) = p
    BY <1>1 DEF procOf
  <1>3. argumentsOf(makeCurriedOperation(fn, argument)) = r
    BY <1>1 DEF argumentsOf
  <1> QED
    BY <1>2, <1>3 DEF p, r

\* The tally of a text is one of the text without its last argument.
LEMMA FrontTally ==
    ASSUME NEW s \in Seq(Items), NEW a \in Items, NEW t, t = Append(s, a),
           NEW N, NEW K, IsTally(N, K, t)
    PROVE  \E M, L : IsTally(M, L, s) /\ M[Len(s)] = N[Len(s)]
  <1> DEFINE n == Len(s)
             M == [i \in 0 .. n |-> N[i]]
             L == [i \in 0 .. n |-> K[i]]
  <1>1. n \in Nat /\ Len(t) = n + 1 /\ \A i \in 1 .. n : t[i] = s[i]
    BY LenProperties, AppendProperties
  <1> HIDE DEF n
  <1>2. /\ N \in [0 .. n + 1 -> Nat] /\ K \in [0 .. n + 1 -> Nat]
        /\ N[0] = 0 /\ K[0] = 0
        /\ \A i \in 1 .. n + 1 :
               /\ N[i] = N[i - 1] + (IF Positional(t, i) THEN 1 ELSE 0)
               /\ K[i] = K[i - 1] + (IF keyword_P(t[i]) THEN 1 ELSE 0)
    BY <1>1 DEF IsTally
  <1>3. ASSUME NEW i \in 1 .. n
        PROVE  /\ Positional(t, i) <=> Positional(s, i)
               /\ keyword_P(t[i]) <=> keyword_P(s[i])
               /\ i \in 1 .. n + 1 /\ i \in 0 .. n /\ i - 1 \in 0 .. n
    <2>1. i # 1 => i - 1 \in 1 .. n
      BY <1>1
    <2> QED
      BY <1>1, <2>1 DEF Positional
  <1>4. ASSUME NEW i \in 1 .. n
        PROVE  /\ M[i] = M[i - 1] + (IF Positional(s, i) THEN 1 ELSE 0)
               /\ L[i] = L[i - 1] + (IF keyword_P(s[i]) THEN 1 ELSE 0)
    <2>1. M[i] = N[i] /\ M[i - 1] = N[i - 1] /\ L[i] = K[i] /\ L[i - 1] = K[i - 1]
      BY <1>3
    <2> HIDE DEF M, L
    <2> QED
      BY <1>2, <1>3, <2>1
  <1>5. M \in [0 .. n -> Nat] /\ L \in [0 .. n -> Nat] /\ M[0] = 0 /\ L[0] = 0 /\ M[n] = N[n]
    BY <1>1, <1>2
  <1>6. IsTally(M, L, s)
    <2> HIDE DEF M, L
    <2> QED
      BY <1>4, <1>5 DEF IsTally, n
  <1> QED
    BY <1>5, <1>6 DEF n

LEMMA InitFacts ==
    ASSUME Init
    PROVE  IInv
  <1>1. PICK arity \in Arities : fn = CProcedure("p", arity)
    BY DEF Init
  <1>2. procOf(fn) = CProcedure("p", arity) /\ argumentsOf(fn) = <<>>
    BY <1>1 DEF procOf, argumentsOf, CProcedure
  <1>3. given = <<>> /\ status = "curry" /\ <<>> \in Seq(Items) /\ Len(<<>>) = 0
    BY EmptySeq DEF Init
  <1>4. wanted > 0
    BY <1>2, WantedFacts
  <1>5. Len(Reading(given).positional) = 0
    <2>1. PICK N, K : IsTally(N, K, given)
      BY <1>3, TallyExists
    <2>2. PlainSeq(given)
      BY <1>3 DEF PlainSeq
    <2>3. ReadsUpTo(Reading(given), given, N, Len(given))
      BY <1>3, <2>1, <2>2, ReadFacts
    <2> QED
      BY <1>3, <2>1, <2>3 DEF ReadsUpTo, IsTally
  <1>6. CompleteExactly
    BY <1>3 DEF CompleteExactly, OnlyWhereAllowed
  <1> QED
    BY <1>2, <1>3, <1>4, <1>5, <1>6 DEF IInv

\* One call_builtin.
LEMMA ApplyStep ==
    ASSUME IInv, NEW a \in Items, Apply(a)
    PROVE  IInv'
  <1> DEFINE s == given
             t == Append(given, a)
             n == Len(given)
             w == procOf(fn).fArgumentCount
             counted == CountArguments(fn, a)
             count == IF counted.count < 0 THEN 0 ELSE counted.count
  <1>1. /\ given \in Seq(Items) /\ given' = t /\ status = "curry" /\ argumentsOf(fn) = given
        /\ t \in Seq(Items) /\ n \in Nat /\ Len(t) = n + 1 /\ t[n + 1] = a /\ t # <<>>
        /\ \A i \in 1 .. n : t[i] = given[i]
    BY AppendProperties, LenProperties DEF IInv, Apply
  <1>2. /\ w \in Int /\ w # 0 /\ wanted \in Nat /\ wanted > 0 /\ (wanted = w \/ wanted = -w)
        /\ (takesKeywords <=> w < 0)
    BY WantedFacts DEF IInv, takesKeywords
  <1>3. /\ procOf(fn') = procOf(fn) /\ wanted' = wanted /\ (takesKeywords' <=> takesKeywords)
        /\ status' = "curry" => argumentsOf(fn') = t
    <2>1. fn' = makeCurriedOperation(fn, a) \/ fn' = fn
      BY DEF Apply
    <2>2. status' = "curry" => fn' = makeCurriedOperation(fn, a)
      BY DEF Apply
    <2>3. procOf(fn') = procOf(fn)
      BY <2>1, CurryFacts
    <2>4. status' = "curry" => argumentsOf(fn') = t
      BY <1>1, <2>2, CurryFacts
    <2> HIDE DEF procOf, argumentsOf
    <2>5. wanted' = wanted /\ (takesKeywords' <=> takesKeywords)
      BY <2>3 DEF wanted, takesKeywords
    <2> QED
      BY <2>3, <2>4, <2>5
  <1>4. PICK N, K : IsTally(N, K, t)
    <2> HIDE DEF t
    <2>1. Len(t) \in Nat
      BY <1>1
    <2> QED
      BY <2>1, TallyExists
  <1>5. /\ counted \in Counts
        /\ counted.had <=> \E j \in 1 .. n : keyword_P(given[j])
        /\ PlainSeq(t) => counted.count = N[n + 1] - (IF keyword_P(a) THEN 1 ELSE 0)
    <2>1. t = Append(given, a)
      OBVIOUS
    <2> HIDE DEF t
    <2>2. CountedAs(counted, given, a, t, N)
      BY <1>1, <1>4, <2>1, CountFacts
    <2> QED
      BY <1>1, <2>2 DEF CountedAs
  <1>6. /\ N[n] \in Nat /\ N[n + 1] = N[n] + (IF Positional(t, n + 1) THEN 1 ELSE 0)
        /\ keyword_P(a) => N[n + 1] = N[n]
    <2>1. n + 1 \in 1 .. n + 1 /\ (n + 1) - 1 = n /\ n \in 0 .. n + 1
      BY <1>1
    <2>2. N[n] \in Nat /\ N[n + 1] = N[n] + (IF Positional(t, n + 1) THEN 1 ELSE 0)
      BY <1>1, <1>4, <2>1 DEF IsTally
    <2> QED
      BY <1>1, <2>2 DEF Positional
  <1>7. PlainSeq(t) => PlainSeq(given)
    <2> SUFFICES ASSUME PlainSeq(t), NEW i \in 1 .. n - 1
                 PROVE  ~(keyword_P(given[i]) /\ keyword_P(given[i + 1]))
      BY DEF PlainSeq
    <2>1. i \in 1 .. Len(t) - 1 /\ i \in 1 .. n /\ i + 1 \in 1 .. n
      BY <1>1
    <2> QED
      BY <1>1, <2>1 DEF PlainSeq
  <1>8. PlainSeq(given) => N[n] < wanted
    <2> SUFFICES ASSUME PlainSeq(given) PROVE N[n] < wanted
      OBVIOUS
    <2>1. PICK M, L : IsTally(M, L, given) /\ M[n] = N[n]
      BY <1>1, <1>4, FrontTally
    <2>2. ReadsUpTo(Reading(given), given, M, n)
      BY <1>1, <2>1, ReadFacts
    <2>3. PlainText
      BY DEF PlainSeq, PlainText
    <2> QED
      BY <1>1, <2>1, <2>2, <2>3 DEF ReadsUpTo, IInv
  <1>9. PlainSeq(t) => /\ Len(Reading(t).positional) = N[n + 1]
                       /\ Reading(t).key = nil <=> ~keyword_P(a)
    <2> SUFFICES ASSUME PlainSeq(t)
                 PROVE  /\ Len(Reading(t).positional) = N[n + 1]
                        /\ Reading(t).key = nil <=> ~keyword_P(a)
      OBVIOUS
    <2>1. ReadsUpTo(Reading(t), t, N, Len(t))
      BY <1>1, <1>4, ReadFacts
    <2>2. Len(Reading(t).positional) = N[n + 1] /\ Reading(t).key = IF keyword_P(a) THEN a ELSE nil
      BY <1>1, <2>1 DEF ReadsUpTo
    <2> QED
      BY <2>2, KeywordFacts
  <1>10. /\ status' = "reject" <=> counted.had /\ w >= 0
         /\ status' = "curry" <=> ~(counted.had /\ w >= 0) /\ count \notin {w, -w}
         /\ status' = "call" <=> ~(counted.had /\ w >= 0) /\ count \in {w, -w}
    <2>1. status' = Dispatch(fn, a)
      BY DEF Apply
    <2> HIDE DEF counted, count, w
    <2>2. Dispatch(fn, a) =
              CASE counted.had /\ w >= 0 -> "reject"
                [] ~(counted.had /\ w >= 0) /\ count \notin {w, -w} -> "curry"
                [] OTHER -> "call"
      BY DEF Dispatch, counted, count, w
    <2>3. CASE counted.had /\ w >= 0
      BY <2>1, <2>2, <2>3
    <2>4. CASE ~(counted.had /\ w >= 0) /\ count \notin {w, -w}
      BY <2>1, <2>2, <2>4
    <2>5. CASE ~(counted.had /\ w >= 0) /\ count \in {w, -w}
      BY <2>1, <2>2, <2>5
    <2> QED
      BY <2>3, <2>4, <2>5
  <1> HIDE DEF w, counted, t, n
  <1>11. counted.count \in Int
    BY <1>5 DEF Counts
  \* A keyword never completes a call, any other argument does when it is the
  \* last positional one that is missing, or the value of a keyword never.
  <1>12. ASSUME PlainSeq(t)
         PROVE  count \in {w, -w} <=> N[n + 1] = wanted /\ ~keyword_P(a)
    <2>1. N[n] < wanted
      BY <1>7, <1>8, <1>12
    <2>2. CASE keyword_P(a)
      <3>1. counted.count = N[n] - 1
        BY <1>5, <1>6, <1>12, <2>2
      <3>2. count >= 0 /\ count < wanted
        BY <1>2, <1>6, <2>1, <3>1
      <3> HIDE DEF count
      <3>3. count # w /\ count # -w
        BY <1>2, <3>2
      <3> QED
        BY <2>2, <3>3
    <2>3. CASE ~keyword_P(a)
      <3>1. counted.count = N[n + 1] /\ N[n + 1] \in Nat
        BY <1>5, <1>6, <1>12, <2>3
      <3>2. count = N[n + 1] /\ count >= 0
        BY <3>1
      <3> HIDE DEF count
      <3> QED
        BY <1>2, <2>3, <3>1, <3>2
    <2> QED
      BY <2>2, <2>3
  <1> HIDE DEF count
  <1>13. ASSUME PlainSeq(t), status' = "curry"
         PROVE  Len(Reading(t).positional) < wanted
    <2>1. ~(N[n + 1] = wanted /\ ~keyword_P(a))
      BY <1>10, <1>12, <1>13
    <2>2. N[n] < wanted
      BY <1>7, <1>8, <1>13
    <2>3. N[n + 1] < wanted
      BY <1>2, <1>6, <2>1, <2>2
    <2> QED
      BY <1>9, <1>13, <2>3
  <1>14. PlainText' <=> PlainSeq(t)
    BY <1>1 DEF PlainText, PlainSeq
  <1>15. CompleteExactly'
    <2>1. ASSUME status' = "call", ~takesKeywords', NEW i \in DOMAIN given'
          PROVE  ~keyword_P(given'[i])
      <3>1. ~counted.had /\ count \in {w, -w}
        BY <1>2, <1>3, <1>10, <2>1
      <3>2. \A j \in 1 .. n : ~keyword_P(given[j])
        BY <1>5, <3>1
      <3>3. PlainSeq(t)
        <4> SUFFICES ASSUME NEW j \in 1 .. Len(t) - 1 PROVE ~keyword_P(t[j])
          BY DEF PlainSeq
        <4>1. j \in 1 .. n
          BY <1>1
        <4> QED
          BY <1>1, <3>2, <4>1
      <3>4. ~keyword_P(a)
        BY <1>12, <3>1, <3>3
      <3>5. i \in 1 .. n \/ i = n + 1
        <4>1. DOMAIN t = 1 .. Len(t)
          BY <1>1, LenProperties
        <4> QED
          BY <1>1, <2>1, <4>1
      <3> QED
        BY <1>1, <3>2, <3>4, <3>5
    <2>2. status' = "reject" => ~takesKeywords'
      BY <1>2, <1>3, <1>10
    <2>3. ASSUME PlainText', status' # "reject"
          PROVE  (status' = "call") <=> (Len(Reading(t).positional) = wanted /\ Reading(t).key = nil)
      <3>1. PlainSeq(t)
        BY <1>14, <2>3
      <3>2. status' = "call" <=> count \in {w, -w}
        BY <1>10, <2>3
      <3> QED
        BY <1>9, <1>12, <3>1, <3>2
    <2>4. OnlyWhereAllowed'
      BY <2>1, <2>2 DEF OnlyWhereAllowed
    <2> QED
      BY <1>1, <1>3, <2>3, <2>4 DEF CompleteExactly
  <1> QED
    BY <1>1, <1>3, <1>13, <1>14, <1>15 DEF IInv

LEMMA IInvTheorem == Spec => []IInv
  <1>1. Init => IInv
    BY InitFacts
  <1>2. IInv /\ [Next]_vars => IInv'
    <2>1. CASE UNCHANGED vars
      BY <2>1 DEF vars, IInv, CompleteExactly, OnlyWhereAllowed, PlainText, wanted, takesKeywords
    <2> QED
      BY <2>1, ApplyStep DEF Next
  <1> QED
    BY <1>1, <1>2, PTL DEF Spec

\* A text that ends with a value runs the builtin exactly when it has as many
\* positional arguments as it was registered with; one that ends with a keyword
\* does not, unless that could be the last argument itself.  A builtin without
\* keywords never runs with one that it collected, and no other rejects one.
THEOREM CalledTheorem == Spec => []CalledWhenComplete
  <1>1. IInv => CalledWhenComplete
    <2> SUFFICES ASSUME IInv PROVE CalledWhenComplete
      OBVIOUS
    <2>1. CompleteExactly /\ Len(given) \in Nat /\ DOMAIN given = 1 .. Len(given)
      BY LenProperties DEF IInv
    <2>2. KeywordsOnlyWhereAllowed
      BY <2>1 DEF CompleteExactly, OnlyWhereAllowed, KeywordsOnlyWhereAllowed
    <2> QED
      BY <2>1, <2>2 DEF CompleteExactly, CalledWhenComplete
  <1> QED
    BY <1>1, IInvTheorem, PTL
-----------------------------------------------------------------------------
\* The list for the native code, by the tally of the arguments.
DeliversAs(list, r, N, K) ==
    /\ DOMAIN list = 1 .. Len(list)
    /\ Len(list) = N[Len(r)] + K[Len(r)]
    /\ \A j \in 1 .. Len(r) : Positional(r, j) => list[N[j]] = <<nil, r[j]>>
    /\ \A j \in 1 .. Len(r) :
           keyword_P(r[j]) => list[N[Len(r)] + K[Len(r)] - K[j] + 1] = <<r[j], r[j + 1]>>
PairsFrom(c, r, N, K, i) ==
    /\ c.pending <=> ~keyword_P(r[i])
    /\ c.pending => c.p = r[i]
    /\ Len(c.list) = (N[Len(r)] - N[i]) + (K[Len(r)] - K[i - 1])
    /\ \A j \in i + 1 .. Len(r) : Positional(r, j) => c.list[N[j] - N[i]] = <<nil, r[j]>>
    /\ \A j \in i .. Len(r) :
           keyword_P(r[j]) => c.list[(N[Len(r)] - N[i]) + (K[Len(r)] - K[j]) + 1] = <<r[j], r[j + 1]>>

\* In front of a list.
LEMMA FrontFacts ==
    ASSUME NEW P, NEW list \in Seq(P), NEW e \in P
    PROVE  /\ Len(<<e>> \o list) = Len(list) + 1
           /\ (<<e>> \o list)[1] = e
           /\ \A k \in 1 .. Len(list) : (<<e>> \o list)[k + 1] = list[k]
  <1>1. <<e>> \in Seq(P) /\ Len(<<e>>) = 1 /\ <<e>>[1] = e /\ Len(list) \in Nat
    BY LenProperties
  <1>2. /\ Len(<<e>> \o list) = Len(<<e>>) + Len(list)
        /\ \A k \in 1 .. Len(<<e>>) + Len(list) :
               (<<e>> \o list)[k] = IF k <= Len(<<e>>) THEN <<e>>[k] ELSE list[k - Len(<<e>>)]
    BY <1>1, ConcatProperties
  <1>3. /\ Len(<<e>> \o list) = 1 + Len(list)
        /\ \A k \in 1 .. 1 + Len(list) :
               (<<e>> \o list)[k] = IF k <= 1 THEN e ELSE list[k - 1]
    BY <1>1, <1>2
  <1> HIDE <1>2
  <1>4. (<<e>> \o list)[1] = e
    BY <1>1, <1>3
  <1>5. ASSUME NEW k \in 1 .. Len(list)
        PROVE  (<<e>> \o list)[k + 1] = list[k]
    <2>1. k + 1 \in 1 .. 1 + Len(list) /\ ~(k + 1 <= 1) /\ (k + 1) - 1 = k
      BY <1>1
    <2> QED
      BY <1>3, <2>1
  <1> QED
    BY <1>1, <1>3, <1>4, <1>5

\* The numbers of a tally, where the proofs below use them.
LEMMA OrderFacts ==
    ASSUME NEW r, Len(r) \in Nat, NEW N, NEW K, IsTally(N, K, r),
           NEW i \in 0 .. Len(r), NEW j \in i + 1 .. Len(r)
    PROVE  /\ N[i] \in Nat /\ K[i] \in Nat /\ N[j] \in Nat /\ K[j] \in Nat
           /\ N[i] <= N[j] /\ K[i] <= K[j]
           /\ Positional(r, j) => N[i] < N[j]
           /\ keyword_P(r[j]) => K[i] < K[j]
  <1>1. /\ j \in 1 .. Len(r) /\ j - 1 \in 0 .. Len(r) /\ i \in 0 .. j - 1 /\ i \in 0 .. j
        /\ j \in 0 .. Len(r)
    OBVIOUS
  <1>2. /\ N[j - 1] \in Nat /\ K[j - 1] \in Nat /\ N[i] \in Nat /\ K[i] \in Nat
        /\ N[j] = N[j - 1] + (IF Positional(r, j) THEN 1 ELSE 0)
        /\ K[j] = K[j - 1] + (IF keyword_P(r[j]) THEN 1 ELSE 0)
    BY <1>1 DEF IsTally
  <1>3. Reaches(N, K, r, j - 1)
    BY <1>1, TallyFacts
  <1>4. N[i] <= N[j - 1] /\ K[i] <= K[j - 1]
    BY <1>1, <1>3 DEF Reaches
  <1> QED
    BY <1>2, <1>4

\* Places in the delivered list: the positional argument b of c, the keyword x
\* of e, when the walk is at the places a and d; and one positional argument
\* or one keyword further.
LEMMA PlaceBounds ==
    ASSUME NEW a \in Nat, NEW c \in Nat, NEW d \in Nat, NEW e \in Nat, a <= c, d <= e
    PROVE  /\ \A b \in Nat : a < b /\ b <= c => b - a \in 1 .. (c - a) + (e - d)
           /\ \A x \in Nat : d < x /\ x <= e => (c - a) + (e - x) + 1 \in 1 .. (c - a) + (e - d)
  OBVIOUS
LEMMA PlaceSteps ==
    ASSUME NEW a \in Nat, NEW c \in Nat, NEW d \in Nat, NEW e \in Nat
    PROVE  /\ (c - (a + 1)) + (e - d) + 1 = (c - a) + (e - d)
           /\ (c - (a + 1)) + (e - d) + 1 + 1 = (c - a) + (e - d) + 1
           /\ (c - a) + (e - (d + 1)) + 1 = (c - a) + (e - d)
  OBVIOUS

\* One step of CXXfromArguments, to the argument before.
LEMMA PairStep ==
    ASSUME NEW V, NEW r \in Seq(V), PlainSeq(r), NEW N, NEW K, IsTally(N, K, r),
           NEW i \in 1 .. Len(r) - 1, NEW c \in Pairings(V), PairsFrom(c, r, N, K, i + 1),
           NEW d, PairedAs(d, c, r[i])
    PROVE  PairsFrom(d, r, N, K, i)
  <1> DEFINE m == Len(r)
             v == r[i]
             P == (V \cup {nil}) \X (V \cup {nil})
  <1>1. /\ m \in Nat /\ i \in 1 .. m /\ i + 1 \in 1 .. m /\ (i + 1) - 1 = i /\ i \in 0 .. m
        /\ i - 1 \in 0 .. m /\ i \in Nat /\ v \in V /\ r[i + 1] \in V /\ m \in 0 .. m
        /\ i + 1 \in 0 .. m
    BY LenProperties, ElementOfSeq
  <1>2. /\ N[i] \in Nat /\ N[i + 1] \in Nat /\ N[m] \in Nat
        /\ K[i] \in Nat /\ K[i + 1] \in Nat /\ K[m] \in Nat /\ K[i - 1] \in Nat
        /\ N[i + 1] = N[i] + (IF Positional(r, i + 1) THEN 1 ELSE 0)
        /\ K[i] = K[i - 1] + (IF keyword_P(v) THEN 1 ELSE 0)
    <2> HIDE DEF m
    <2>1. \A j \in 0 .. m : N[j] \in Nat /\ K[j] \in Nat
      BY DEF IsTally, m
    <2>2. \A j \in 1 .. m : /\ N[j] = N[j - 1] + (IF Positional(r, j) THEN 1 ELSE 0)
                            /\ K[j] = K[j - 1] + (IF keyword_P(r[j]) THEN 1 ELSE 0)
      BY DEF IsTally, m
    <2>3. /\ N[i + 1] = N[(i + 1) - 1] + (IF Positional(r, i + 1) THEN 1 ELSE 0)
          /\ K[i] = K[i - 1] + (IF keyword_P(r[i]) THEN 1 ELSE 0)
      BY <1>1, <2>2
    <2> QED
      BY <1>1, <2>1, <2>3
  <1>3. N[i] <= N[m] /\ N[i + 1] <= N[m] /\ K[i] <= K[m]
    <2>1. m \in 0 .. m /\ i + 1 \in 0 .. m
      BY <1>1
    <2>2. Reaches(N, K, r, m)
      BY <1>1, <2>1, TallyFacts
    <2> QED
      BY <1>1, <2>1, <2>2 DEF Reaches
  <1>4. c.list \in Seq(P) /\ c.pending \in BOOLEAN /\ c.p \in V \cup {nil}
    BY DEF Pairings
  <1>5. /\ c.pending <=> ~keyword_P(r[i + 1])
        /\ c.pending => c.p = r[i + 1]
        /\ Len(c.list) = (N[m] - N[i + 1]) + (K[m] - K[i])
        /\ \A j \in i + 1 + 1 .. m : Positional(r, j) => c.list[N[j] - N[i + 1]] = <<nil, r[j]>>
        /\ \A j \in i + 1 .. m :
               keyword_P(r[j]) => c.list[(N[m] - N[i + 1]) + (K[m] - K[j]) + 1] = <<r[j], r[j + 1]>>
    BY <1>1 DEF PairsFrom
  <1>6. ASSUME NEW j \in i + 1 + 1 .. m, Positional(r, j)
        PROVE  N[j] \in Nat /\ N[j] - N[i + 1] \in 1 .. Len(c.list)
    <2>1. i + 1 \in 0 .. m /\ j \in 0 .. m /\ m \in 0 .. m /\ j \in (i + 1) + 1 .. m
      BY <1>1
    <2>2. N[j] \in Nat /\ N[i + 1] < N[j]
      BY <1>1, <1>6, <2>1, OrderFacts
    <2>3. Reaches(N, K, r, m)
      BY <1>1, <2>1, TallyFacts
    <2>4. N[j] <= N[m]
      BY <2>1, <2>3 DEF Reaches
    <2>5. N[j] - N[i + 1] \in 1 .. (N[m] - N[i + 1]) + (K[m] - K[i])
      <3> DEFINE a == N[i + 1]
                 b == N[j]
                 c0 == N[m]
                 x == K[i]
                 y == K[m]
      <3>1. a \in Nat /\ b \in Nat /\ c0 \in Nat /\ x \in Nat /\ y \in Nat
        BY <1>2, <2>2
      <3>2. a < b /\ b <= c0 /\ a <= c0 /\ x <= y
        BY <1>3, <2>2, <2>4
      <3> HIDE DEF a, b, c0, x, y
      <3>3. b - a \in 1 .. (c0 - a) + (y - x)
        BY <3>1, <3>2, PlaceBounds
      <3> QED
        BY <3>3 DEF a, b, c0, x, y
    <2> QED
      BY <1>5, <2>2, <2>5
  <1>7. ASSUME NEW j \in i + 1 .. m, keyword_P(r[j])
        PROVE  K[j] \in Nat /\ (N[m] - N[i + 1]) + (K[m] - K[j]) + 1 \in 1 .. Len(c.list)
    <2>1. j \in 0 .. m /\ m \in 0 .. m
      BY <1>1
    <2>2. K[j] \in Nat /\ K[i] < K[j]
      BY <1>1, <1>7, OrderFacts
    <2>3. Reaches(N, K, r, m)
      BY <1>1, <2>1, TallyFacts
    <2>4. K[j] <= K[m]
      BY <2>1, <2>3 DEF Reaches
    <2>5. (N[m] - N[i + 1]) + (K[m] - K[j]) + 1 \in 1 .. (N[m] - N[i + 1]) + (K[m] - K[i])
      <3> DEFINE a == N[i + 1]
                 b == K[j]
                 c0 == N[m]
                 x == K[i]
                 y == K[m]
      <3>1. a \in Nat /\ b \in Nat /\ c0 \in Nat /\ x \in Nat /\ y \in Nat
        BY <1>2, <2>2
      <3>2. a <= c0 /\ x < b /\ b <= y /\ x <= y
        BY <1>3, <2>2, <2>4
      <3> HIDE DEF a, b, c0, x, y
      <3>3. (c0 - a) + (y - b) + 1 \in 1 .. (c0 - a) + (y - x)
        BY <3>1, <3>2, PlaceBounds
      <3> QED
        BY <3>3 DEF a, b, c0, x, y
    <2> QED
      BY <1>5, <2>2, <2>5
  <1> DEFINE n1 == N[m] - N[i]
             front(j) == N[j] - N[i]
             back(j) == (N[m] - N[i]) + (K[m] - K[j]) + 1
  <1> SUFFICES /\ d.pending <=> ~keyword_P(v)
               /\ d.pending => d.p = v
               /\ Len(d.list) = (N[m] - N[i]) + (K[m] - K[i - 1])
               /\ \A j \in i + 1 .. m : Positional(r, j) => d.list[front(j)] = <<nil, r[j]>>
               /\ \A j \in i .. m : keyword_P(r[j]) => d.list[back(j)] = <<r[j], r[j + 1]>>
    BY DEF PairsFrom
  <1>8. \A j \in i + 1 .. m : j = i + 1 \/ j \in i + 1 + 1 .. m
    BY <1>1
  <1>9. \A j \in i .. m : j = i \/ j \in i + 1 .. m
    BY <1>1
  <1> HIDE DEF m, P
  <1>10. CASE keyword_P(v)
    <2>1. ~keyword_P(r[i + 1])
      BY <1>10 DEF PlainSeq
    <2>2. c.pending /\ c.p = r[i + 1] /\ ~Positional(r, i + 1)
      BY <1>1, <1>5, <1>10, <2>1 DEF Positional
    <2>3. N[i + 1] = N[i] /\ K[i] = K[i - 1] + 1
      BY <1>2, <1>10, <2>2
    <2>4. d.list = Append(c.list, <<v, c.p>>) /\ d.pending = FALSE
      BY <1>10, <2>2 DEF PairedAs
    <2>5. /\ Len(d.list) = Len(c.list) + 1
          /\ d.list[Len(c.list) + 1] = <<v, c.p>>
          /\ \A k \in 1 .. Len(c.list) : d.list[k] = c.list[k]
      <3>1. <<v, c.p>> \in P
        BY <1>1, <1>4 DEF P
      <3> QED
        BY <1>4, <2>4, <3>1, AppendProperties
    <2>6. Len(d.list) = (N[m] - N[i]) + (K[m] - K[i - 1])
      <3>1. (N[m] - N[i]) + (K[m] - (K[i - 1] + 1)) + 1 = (N[m] - N[i]) + (K[m] - K[i - 1])
        <4> DEFINE a == N[i]
                   b == N[m]
                   x == K[i - 1]
                   y == K[m]
        <4>1. a \in Nat /\ b \in Nat /\ x \in Nat /\ y \in Nat
          BY <1>2
        <4> HIDE DEF a, b, x, y
        <4>2. (b - a) + (y - (x + 1)) + 1 = (b - a) + (y - x)
          BY <4>1, PlaceSteps
        <4> QED
          BY <4>2 DEF a, b, x, y
      <3>2. Len(d.list) = (N[m] - N[i]) + (K[m] - (K[i - 1] + 1)) + 1
        BY <1>5, <2>3, <2>5
      <3> QED
        BY <3>1, <3>2
    <2>7. ASSUME NEW j \in i + 1 .. m, Positional(r, j)
          PROVE  d.list[front(j)] = <<nil, r[j]>>
      <3>1. j \in i + 1 + 1 .. m
        BY <1>8, <2>2, <2>7
      <3>2. front(j) = N[j] - N[i + 1]
        BY <2>3
      <3>3. front(j) \in 1 .. Len(c.list)
        BY <1>6, <2>7, <3>1, <3>2
      <3> HIDE DEF front
      <3> QED
        BY <1>5, <2>5, <2>7, <3>1, <3>2, <3>3
    <2>8. ASSUME NEW j \in i .. m, keyword_P(r[j])
          PROVE  d.list[back(j)] = <<r[j], r[j + 1]>>
      <3>1. CASE j = i
        <4>1. back(i) = Len(c.list) + 1
          BY <1>2, <1>5, <2>3
        <4> HIDE DEF back
        <4> QED
          BY <2>2, <2>5, <3>1, <4>1
      <3>2. CASE j \in i + 1 .. m
        <4>1. back(j) = (N[m] - N[i + 1]) + (K[m] - K[j]) + 1
          BY <2>3
        <4>2. back(j) \in 1 .. Len(c.list)
          BY <1>7, <2>8, <3>2, <4>1
        <4> HIDE DEF back
        <4> QED
          BY <1>5, <2>5, <2>8, <3>2, <4>1, <4>2
      <3> QED
        BY <1>9, <3>1, <3>2
    <2> QED
      BY <1>10, <2>4, <2>6, <2>7, <2>8
  <1>11. CASE ~keyword_P(v) /\ c.pending
    <2>1. Positional(r, i + 1) /\ c.p = r[i + 1] /\ ~keyword_P(r[i + 1])
      BY <1>1, <1>5, <1>11 DEF Positional
    <2>2. N[i + 1] = N[i] + 1 /\ K[i] = K[i - 1]
      BY <1>2, <1>11, <2>1
    <2>3. d.list = <<<<nil, c.p>>>> \o c.list /\ d.p = v /\ d.pending = TRUE
      BY <1>11 DEF PairedAs
    <2>4. /\ Len(d.list) = Len(c.list) + 1
          /\ d.list[1] = <<nil, c.p>>
          /\ \A k \in 1 .. Len(c.list) : d.list[k + 1] = c.list[k]
      <3>1. <<nil, c.p>> \in P
        BY <1>4 DEF P
      <3> QED
        BY <1>4, <2>3, <3>1, FrontFacts
    <2>5. Len(d.list) = (N[m] - N[i]) + (K[m] - K[i - 1])
      <3>1. (N[m] - (N[i] + 1)) + (K[m] - K[i]) + 1 = (N[m] - N[i]) + (K[m] - K[i])
        <4> DEFINE a == N[i]
                   b == N[m]
                   x == K[i]
                   y == K[m]
        <4>1. a \in Nat /\ b \in Nat /\ x \in Nat /\ y \in Nat
          BY <1>2
        <4> HIDE DEF a, b, x, y
        <4>2. (b - (a + 1)) + (y - x) + 1 = (b - a) + (y - x)
          BY <4>1, PlaceSteps
        <4> QED
          BY <4>2 DEF a, b, x, y
      <3>2. Len(d.list) = (N[m] - (N[i] + 1)) + (K[m] - K[i]) + 1
        BY <1>5, <2>2, <2>4
      <3> QED
        BY <2>2, <3>1, <3>2
    <2>6. ASSUME NEW j \in i + 1 .. m, Positional(r, j)
          PROVE  d.list[front(j)] = <<nil, r[j]>>
      <3>1. CASE j = i + 1
        <4>1. front(i + 1) = 1
          BY <1>2, <2>2
        <4> HIDE DEF front
        <4> QED
          BY <2>1, <2>4, <3>1, <4>1
      <3>2. CASE j \in i + 1 + 1 .. m
        <4> DEFINE k == N[j] - N[i + 1]
        <4>1. N[j] \in Nat /\ k \in 1 .. Len(c.list)
          BY <1>6, <2>6, <3>2
        <4>2. front(j) = k + 1
          BY <1>2, <2>2, <4>1
        <4>3. c.list[k] = <<nil, r[j]>>
          BY <1>5, <2>6, <3>2
        <4> HIDE DEF front, k
        <4> QED
          BY <2>4, <4>1, <4>2, <4>3
      <3> QED
        BY <1>8, <3>1, <3>2
    <2>7. ASSUME NEW j \in i .. m, keyword_P(r[j])
          PROVE  d.list[back(j)] = <<r[j], r[j + 1]>>
      <3>1. j \in i + 1 .. m
        BY <1>9, <1>11, <2>7
      <3> DEFINE k == (N[m] - N[i + 1]) + (K[m] - K[j]) + 1
      <3>2. K[j] \in Nat /\ k \in 1 .. Len(c.list)
        BY <1>7, <2>7, <3>1
      <3>3. back(j) = k + 1
        <4> DEFINE a == N[i]
                   b == N[m]
                   x == K[j]
                   y == K[m]
        <4>1. a \in Nat /\ b \in Nat /\ x \in Nat /\ y \in Nat
          BY <1>2, <3>2
        <4>2. N[i + 1] = a + 1
          BY <2>2
        <4> HIDE DEF a, b, x, y
        <4>3. (b - (a + 1)) + (y - x) + 1 + 1 = (b - a) + (y - x) + 1
          BY <4>1, PlaceSteps
        <4> QED
          BY <4>2, <4>3 DEF a, b, x, y
      <3>4. c.list[k] = <<r[j], r[j + 1]>>
        BY <1>5, <2>7, <3>1
      <3> HIDE DEF back, k
      <3> QED
        BY <2>4, <3>2, <3>3, <3>4
    <2> QED
      BY <1>11, <2>3, <2>5, <2>6, <2>7
  <1>12. CASE ~keyword_P(v) /\ ~c.pending
    <2>1. keyword_P(r[i + 1]) /\ ~Positional(r, i + 1)
      BY <1>4, <1>5, <1>12 DEF Positional
    <2>2. N[i + 1] = N[i] /\ K[i] = K[i - 1]
      BY <1>2, <1>12, <2>1
    <2>3. d.list = c.list /\ d.p = v /\ d.pending = TRUE
      BY <1>12 DEF PairedAs
    <2>4. Len(d.list) = (N[m] - N[i]) + (K[m] - K[i - 1])
      BY <1>5, <2>2, <2>3
    <2>5. ASSUME NEW j \in i + 1 .. m, Positional(r, j)
          PROVE  d.list[front(j)] = <<nil, r[j]>>
      <3>1. j \in i + 1 + 1 .. m
        BY <1>8, <2>1, <2>5
      <3>2. front(j) = N[j] - N[i + 1]
        BY <2>2
      <3> HIDE DEF front
      <3> QED
        BY <1>5, <2>3, <2>5, <3>1, <3>2
    <2>6. ASSUME NEW j \in i .. m, keyword_P(r[j])
          PROVE  d.list[back(j)] = <<r[j], r[j + 1]>>
      <3>1. j \in i + 1 .. m
        BY <1>9, <1>12, <2>6
      <3>2. back(j) = (N[m] - N[i + 1]) + (K[m] - K[j]) + 1
        BY <2>2
      <3> HIDE DEF back
      <3> QED
        BY <1>5, <2>3, <2>6, <3>1, <3>2
    <2> QED
      BY <1>12, <2>3, <2>4, <2>5, <2>6
  <1> QED
    BY <1>10, <1>11, <1>12
\* What CXXfromArguments makes of a text that is complete.
LEMMA DeliverFacts ==
    ASSUME NEW V, NEW r \in Seq(V), r # <<>>, PlainSeq(r), ~keyword_P(r[Len(r)]),
           NEW N, NEW K, IsTally(N, K, r)
    PROVE  DeliversAs(CXXfromArguments(r), r, N, K)
  <1> DEFINE m == Len(r)
             f == Front(r)
             P == (V \cup {nil}) \X (V \cup {nil})
             base == [list |-> <<>>, p |-> r[m], pending |-> TRUE]
             good(g) == {k \in 0 .. m - 1 : PairsFrom(g[k + 1], r, N, K, k + 1)}
  <1>1. m \in Nat /\ m >= 1 /\ \A i \in 1 .. m : r[i] \in V
    BY LenProperties, ElementOfSeq, EmptySeq
  <1>2. f \in Seq(V) /\ Len(f) = m - 1 /\ \A i \in 1 .. m - 1 : f[i] = r[i]
    <2>1. f = SubSeq(r, 1, m - 1)
      BY DEF Front
    <2>2. 1 \in 1 .. m + 1 /\ m - 1 \in 1 - 1 .. m
      BY <1>1
    <2>3. /\ SubSeq(r, 1, m - 1) \in Seq(V)
          /\ Len(SubSeq(r, 1, m - 1)) = IF m - 1 < 1 THEN 0 ELSE (m - 1) - 1 + 1
          /\ \A i \in 1 .. (m - 1) - 1 + 1 : SubSeq(r, 1, m - 1)[i] = r[1 + i - 1]
      BY <2>2, SubSeqProperties
    <2> HIDE DEF f, m
    <2>4. (m - 1) - 1 + 1 = m - 1 /\ \A i \in 1 .. m - 1 : 1 + i - 1 = i
      BY <1>1
    <2> QED
      BY <1>1, <2>1, <2>3, <2>4
  <1>3. /\ base \in Pairings(V) /\ base.list = <<>> /\ base.p = r[m] /\ base.pending = TRUE
    <2>1. <<>> \in Seq(P) /\ r[m] \in V \cup {nil}
      BY <1>1, EmptySeq
    <2> QED
      BY <2>1 DEF Pairings
  <1>4. CXXfromArguments(r) = LET walked == FoldRight(PairUp, f, base)
                              IN  IF walked.pending THEN <<<<nil, walked.p>>>> \o walked.list
                                  ELSE walked.list
    BY DEF CXXfromArguments, Last
  <1> HIDE DEF base, f
  <1>5. PICK g : IsPairing(g, f, base, V) /\ FoldRight(PairUp, f, base) = g[1]
    BY <1>2, <1>3, PairingExists
  <1> HIDE DEF m
  <1>6. /\ \A i \in 1 .. m : g[i] \in Pairings(V)
        /\ g[m] = base
        /\ \A i \in 1 .. m - 1 : g[i] = PairUp(r[i], g[i + 1])
    <2>1. (m - 1) + 1 = m
      BY <1>1
    <2> QED
      BY <1>2, <1>5, <2>1 DEF IsPairing
  <1>7. \A j \in 0 .. m : N[j] \in Nat /\ K[j] \in Nat
    BY DEF IsTally, m
  <1>8. \A j \in 1 .. m : /\ N[j] = N[j - 1] + (IF Positional(r, j) THEN 1 ELSE 0)
                          /\ K[j] = K[j - 1] + (IF keyword_P(r[j]) THEN 1 ELSE 0)
    BY DEF IsTally, m
  <1>9. m - 1 \in good(g)
    <2>1. m \in 1 .. m /\ m \in 0 .. m /\ m - 1 \in 0 .. m /\ (m - 1) + 1 = m
          /\ m - 1 \in 0 .. m - 1
      BY <1>1
    <2>2. K[m] = K[m - 1] /\ N[m] \in Nat /\ K[m] \in Nat
      BY <1>7, <1>8, <2>1 DEF m
    <2>3. (N[m] - N[m]) + (K[m] - K[m - 1]) = 0 /\ Len(<<>>) = 0
      BY <2>2, EmptySeq
    <2>4. \A j \in m + 1 .. m : FALSE
      BY <1>1
    <2>5. \A j \in m .. m : j = m
      BY <1>1
    <2>6. PairsFrom(base, r, N, K, m)
      BY <1>3, <2>3, <2>4, <2>5 DEF PairsFrom, m
    <2> QED
      BY <1>6, <2>1, <2>6
  <1>10. ASSUME NEW k \in 0 .. m - 1 - 1, k + 1 \in good(g)
         PROVE  k \in good(g)
    <2>1. k + 1 \in 1 .. m - 1 /\ k + 1 \in 1 .. m /\ (k + 1) + 1 \in 1 .. m /\ k \in 0 .. m - 1
      BY <1>1
    <2>2. PairsFrom(g[(k + 1) + 1], r, N, K, (k + 1) + 1)
      BY <1>10
    <2>3. PairedAs(g[k + 1], g[(k + 1) + 1], r[k + 1])
      <3>1. g[k + 1] = PairUp(r[k + 1], g[(k + 1) + 1]) /\ g[(k + 1) + 1] \in Pairings(V) /\ r[k + 1] \in V
        BY <1>1, <1>6, <2>1
      <3> QED
        BY <3>1, PairingsFacts
    <2>4. k + 1 \in 1 .. Len(r) - 1 /\ g[(k + 1) + 1] \in Pairings(V)
      BY <1>6, <2>1 DEF m
    <2>5. PairsFrom(g[k + 1], r, N, K, k + 1)
      BY <2>2, <2>3, <2>4, PairStep
    <2> QED
      BY <2>1, <2>5
  <1>11. PairsFrom(g[1], r, N, K, 1)
    <2>1. m - 1 \in Nat /\ 0 \in 0 .. m - 1 /\ 0 + 1 = 1
      BY <1>1
    <2> HIDE DEF good
    <2>2. \A k \in 0 .. m - 1 : k \in good(g)
      BY <1>9, <1>10, <2>1, DownInduction
    <2>3. 0 \in good(g)
      BY <2>1, <2>2
    <2> QED
      BY <2>1, <2>3 DEF good
  <1> DEFINE c == g[1]
             list == CXXfromArguments(r)
  <1>12. /\ c.list \in Seq(P) /\ c.p \in V \cup {nil} /\ c.pending \in BOOLEAN
         /\ list = IF c.pending THEN <<<<nil, c.p>>>> \o c.list ELSE c.list
    <2>1. c \in Pairings(V)
      BY <1>1, <1>6
    <2> QED
      BY <1>4, <1>5, <2>1 DEF Pairings
  <1>13. /\ c.pending <=> ~keyword_P(r[1])
         /\ c.pending => c.p = r[1]
         /\ Len(c.list) = (N[m] - N[1]) + (K[m] - K[0])
         /\ \A j \in 1 + 1 .. m : Positional(r, j) => c.list[N[j] - N[1]] = <<nil, r[j]>>
         /\ \A j \in 1 .. m :
                keyword_P(r[j]) => c.list[(N[m] - N[1]) + (K[m] - K[j]) + 1] = <<r[j], r[j + 1]>>
    <2>1. 1 - 1 = 0
      OBVIOUS
    <2> QED
      BY <1>11, <2>1 DEF PairsFrom, m
  <1> HIDE DEF c, list, P
  <1>14. /\ N[1] = (IF ~keyword_P(r[1]) THEN 1 ELSE 0) /\ N[0] = 0 /\ K[0] = 0
         /\ Positional(r, 1) <=> ~keyword_P(r[1])
    <2>1. 1 \in 1 .. m /\ 1 - 1 = 0
      BY <1>1
    <2>2. N[0] = 0 /\ K[0] = 0 /\ (Positional(r, 1) <=> ~keyword_P(r[1]))
      BY DEF IsTally, Positional
    <2>3. N[1] = N[1 - 1] + (IF Positional(r, 1) THEN 1 ELSE 0)
      BY <1>8, <2>1
    <2> QED
      BY <2>1, <2>2, <2>3
  <1>15. \A j \in 1 .. m : j = 1 \/ j \in 1 + 1 .. m
    BY <1>1
  <1>16. m \in 0 .. m /\ N[m] \in Nat /\ K[m] \in Nat
    BY <1>1, <1>7
  <1>17. ASSUME NEW j \in 1 + 1 .. m, Positional(r, j)
         PROVE  N[j] \in Nat /\ N[j] - N[1] \in 1 .. Len(c.list)
    <2>1. 1 \in 0 .. Len(r) /\ j \in 1 + 1 .. Len(r) /\ j \in 0 .. Len(r) /\ j \in 0 .. m /\ Len(r) \in Nat
          /\ m \in 0 .. Len(r)
      BY <1>1 DEF m
    <2>2. N[j] \in Nat /\ N[1] < N[j]
      BY <1>17, <2>1, OrderFacts
    <2>3. N[j] <= N[m]
      <3>1. Reaches(N, K, r, m)
        BY <2>1, TallyFacts
      <3> QED
        BY <2>1, <3>1 DEF Reaches
    <2>4. K[m] - K[0] >= 0 /\ K[m] - K[0] \in Nat
      BY <1>14, <1>16
    <2> QED
      BY SMTT(60), <1>13, <1>14, <1>16, <2>2, <2>3, <2>4
  <1>18. ASSUME NEW j \in 1 .. m, keyword_P(r[j])
         PROVE  K[j] \in Nat /\ (N[m] - N[1]) + (K[m] - K[j]) + 1 \in 1 .. Len(c.list)
    <2>1. 0 \in 0 .. Len(r) /\ j \in 0 + 1 .. Len(r) /\ j \in 0 .. m /\ Len(r) \in Nat
          /\ m \in 0 .. Len(r) /\ 1 \in 0 .. m
      BY <1>1 DEF m
    <2>2. K[j] \in Nat /\ K[0] < K[j]
      BY <1>18, <2>1, OrderFacts
    <2>3. K[j] <= K[m] /\ N[1] <= N[m]
      <3>1. Reaches(N, K, r, m)
        BY <2>1, TallyFacts
      <3> QED
        BY <2>1, <3>1 DEF Reaches
    <2> QED
      BY SMTT(60), <1>13, <1>14, <1>16, <2>2, <2>3
  <1> SUFFICES /\ DOMAIN list = 1 .. Len(list)
               /\ Len(list) = N[m] + K[m]
               /\ \A j \in 1 .. m : Positional(r, j) => list[N[j]] = <<nil, r[j]>>
               /\ \A j \in 1 .. m : keyword_P(r[j]) => list[N[m] + K[m] - K[j] + 1] = <<r[j], r[j + 1]>>
    BY DEF DeliversAs, list, m
  <1>19. DOMAIN list = 1 .. Len(list)
    <2>1. c.pending => <<nil, c.p>> \in P
      BY <1>12 DEF P
    <2>2. c.pending => <<<<nil, c.p>>>> \in Seq(P)
      BY <2>1
    <2>3. list \in Seq(P)
      BY <1>12, <2>2, ConcatProperties
    <2> QED
      BY <2>3, LenProperties
  <1>20. CASE c.pending
    <2>1. N[1] = 1 /\ c.p = r[1] /\ ~keyword_P(r[1])
      BY <1>13, <1>14, <1>20
    <2>2. /\ Len(list) = Len(c.list) + 1
          /\ list[1] = <<nil, c.p>>
          /\ \A k \in 1 .. Len(c.list) : list[k + 1] = c.list[k]
      <3>1. <<nil, c.p>> \in P
        BY <1>12 DEF P
      <3> QED
        BY <1>12, <1>20, <3>1, FrontFacts
    <2>3. Len(list) = N[m] + K[m]
      BY <1>13, <1>14, <1>16, <2>1, <2>2
    <2>4. ASSUME NEW j \in 1 .. m, Positional(r, j)
          PROVE  list[N[j]] = <<nil, r[j]>>
      <3>1. CASE j = 1
        BY <2>1, <2>2, <3>1
      <3>2. CASE j \in 1 + 1 .. m
        <4> DEFINE k == N[j] - N[1]
        <4>1. N[j] \in Nat /\ k \in 1 .. Len(c.list)
          BY <1>17, <2>4, <3>2
        <4>2. N[j] = k + 1
          BY <2>1, <4>1
        <4>3. c.list[k] = <<nil, r[j]>>
          BY <1>13, <2>4, <3>2
        <4> HIDE DEF k
        <4> QED
          BY <2>2, <4>1, <4>2, <4>3
      <3> QED
        BY <1>15, <3>1, <3>2
    <2>5. ASSUME NEW j \in 1 .. m, keyword_P(r[j])
          PROVE  list[N[m] + K[m] - K[j] + 1] = <<r[j], r[j + 1]>>
      <3> DEFINE k == (N[m] - N[1]) + (K[m] - K[j]) + 1
      <3>1. K[j] \in Nat /\ k \in 1 .. Len(c.list)
        BY <1>18, <2>5
      <3>2. N[m] + K[m] - K[j] + 1 = k + 1
        BY <1>16, <2>1, <3>1
      <3>3. c.list[k] = <<r[j], r[j + 1]>>
        BY <1>13, <2>5
      <3> HIDE DEF k
      <3> QED
        BY <2>2, <3>1, <3>2, <3>3
    <2> QED
      BY <1>19, <2>3, <2>4, <2>5
  <1>21. CASE ~c.pending
    <2>1. N[1] = 0 /\ ~Positional(r, 1) /\ list = c.list
      BY <1>12, <1>13, <1>14, <1>21
    <2>2. Len(list) = N[m] + K[m]
      BY <1>13, <1>14, <1>16, <2>1
    <2>3. ASSUME NEW j \in 1 .. m, Positional(r, j)
          PROVE  list[N[j]] = <<nil, r[j]>>
      <3>1. j \in 1 + 1 .. m
        BY <1>15, <2>1, <2>3
      <3>2. N[j] - N[1] = N[j]
        BY <1>17, <2>1, <2>3, <3>1
      <3>3. c.list[N[j] - N[1]] = <<nil, r[j]>>
        BY <1>13, <2>3, <3>1
      <3> QED
        BY <2>1, <3>2, <3>3
    <2>4. ASSUME NEW j \in 1 .. m, keyword_P(r[j])
          PROVE  list[N[m] + K[m] - K[j] + 1] = <<r[j], r[j + 1]>>
      <3>1. (N[m] - N[1]) + (K[m] - K[j]) + 1 = N[m] + K[m] - K[j] + 1
        BY <1>16, <1>18, <2>1, <2>4
      <3>2. c.list[(N[m] - N[1]) + (K[m] - K[j]) + 1] = <<r[j], r[j + 1]>>
        BY <1>13, <2>4
      <3> QED
        BY <2>1, <3>1, <3>2
    <2> QED
      BY <1>19, <2>2, <2>3, <2>4
  <1> QED
    BY <1>12, <1>20, <1>21
-----------------------------------------------------------------------------
\* Reducing an argument makes no keyword of it and takes none away.
KeywordsStay == \A a \in Items : keyword_P(reduceArgument(a)) <=> keyword_P(a)

\* The list that the native code was given is that of all arguments.
reduced == [i \in DOMAIN given |-> reduceArgument(given[i])]
DeliveredInv == status = "call" => given # <<>> /\ delivered = CXXfromArguments(reduced)

\* A text that ran is complete, and the native code was given its tally.
LEMMA CompleteFacts ==
    ASSUME KeywordsStay, IInv, DeliveredInv, PlainText, status = "call"
    PROVE  \E N, K : /\ IsTally(N, K, given)
                     /\ ReadsUpTo(Reading(given), given, N, Len(given))
                     /\ ~keyword_P(given[Len(given)])
                     /\ \A i \in 1 .. Len(given) :
                            /\ reduced[i] = reduceArgument(given[i])
                            /\ keyword_P(given[i]) => reduced[i] = given[i]
                            /\ keyword_P(reduced[i]) <=> keyword_P(given[i])
                            /\ Positional(reduced, i) <=> Positional(given, i)
                     /\ Len(reduced) = Len(given)
                     /\ DeliversAs(delivered, reduced, N, K)
  <1> DEFINE s == given
             r == reduced
             m == Len(given)
             V == {reduceArgument(a) : a \in Items}
  <1>1. s \in Seq(Items) /\ s # <<>> /\ delivered = CXXfromArguments(r) /\ CompleteExactly
    BY DEF IInv, DeliveredInv
  <1>2. m \in Nat /\ m >= 1 /\ DOMAIN s = 1 .. m /\ \A i \in 1 .. m : s[i] \in Items
    BY <1>1, LenProperties, ElementOfSeq, EmptySeq
  <1>3. PICK N, K : IsTally(N, K, s)
    BY <1>2, TallyExists
  <1>4. PlainSeq(s)
    BY DEF PlainText, PlainSeq
  <1>5. ReadsUpTo(Reading(s), s, N, m)
    BY <1>1, <1>3, <1>4, ReadFacts
  <1>6. ~keyword_P(s[m])
    <2>1. Reading(s).key = nil
      BY <1>1 DEF CompleteExactly
    <2>2. Reading(s).key = IF m > 0 /\ keyword_P(s[m]) THEN s[m] ELSE nil
      BY <1>5 DEF ReadsUpTo
    <2> QED
      BY <1>2, <2>1, <2>2, KeywordFacts
  <1>7. r \in Seq(V) /\ Len(r) = m /\ \A i \in 1 .. m : r[i] = reduceArgument(s[i])
    <2>1. r = [i \in 1 .. m |-> reduceArgument(s[i])]
      BY <1>2 DEF reduced
    <2> HIDE DEF r, m
    <2>2. \A i \in 1 .. m : reduceArgument(s[i]) \in V
      BY <1>2
    <2> HIDE DEF V
    <2>3. r \in [1 .. m -> V]
      BY <2>1, <2>2
    <2>4. r \in Seq(V)
      BY <1>2, <2>3
    <2>5. Len(r) = m
      BY <1>2, <2>1
    <2> QED
      BY <2>1, <2>4, <2>5
  <1> HIDE DEF r, m, V
  <1>8. \A i \in 1 .. m : /\ keyword_P(r[i]) <=> keyword_P(s[i])
                          /\ keyword_P(s[i]) => r[i] = s[i]
    BY <1>2, <1>7, KeywordFacts DEF KeywordsStay, reduceArgument
  <1>9. \A i \in 1 .. m : Positional(r, i) <=> Positional(s, i)
    <2> SUFFICES ASSUME NEW i \in 1 .. m PROVE Positional(r, i) <=> Positional(s, i)
      OBVIOUS
    <2>1. i # 1 => i - 1 \in 1 .. m
      BY <1>2
    <2> QED
      BY <1>8, <2>1 DEF Positional
  <1>10. PlainSeq(r)
    <2> SUFFICES ASSUME NEW i \in 1 .. m - 1 PROVE ~(keyword_P(r[i]) /\ keyword_P(r[i + 1]))
      BY <1>7 DEF PlainSeq
    <2>1. i \in 1 .. m /\ i + 1 \in 1 .. m /\ i \in 1 .. Len(s) - 1
      BY <1>2 DEF m
    <2> QED
      BY <1>4, <1>8, <2>1 DEF PlainSeq
  <1>11. IsTally(N, K, r)
    <2>1. IsTally(N, K, s) /\ Len(s) = m
      BY <1>3 DEF m
    <2> QED
      BY <1>7, <1>8, <1>9, <2>1 DEF IsTally
  <1>12. r # <<>> /\ ~keyword_P(r[Len(r)])
    <2>1. m \in 1 .. m /\ m # 0
      BY <1>2
    <2> QED
      BY <1>6, <1>7, <1>8, <2>1, EmptySeq DEF m
  <1>13. DeliversAs(delivered, r, N, K)
    BY <1>1, <1>7, <1>10, <1>11, <1>12, DeliverFacts
  <1> QED
    BY <1>3, <1>5, <1>6, <1>7, <1>8, <1>9, <1>13 DEF r, m

LEMMA WrittenFacts ==
    ASSUME KeywordsStay, IInv, DeliveredInv, PlainText, status = "call"
    PROVE  DeliveredAsWritten
  <1> DEFINE s == given
             m == Len(given)
             text == Reading(given)
             n == Len(text.positional)
             keywords == {j \in 1 .. m : keyword_P(s[j])}
             list == delivered
  <1>1. /\ m \in Nat /\ DOMAIN s = 1 .. m /\ \A i \in 1 .. m : s[i] \in Items
    BY LenProperties, ElementOfSeq DEF IInv
  <1> HIDE DEF m
  <1>2. PICK N, K : /\ IsTally(N, K, s)
                    /\ ReadsUpTo(text, s, N, m)
                    /\ ~keyword_P(s[m])
                    /\ \A i \in 1 .. m :
                           /\ reduced[i] = reduceArgument(s[i])
                           /\ keyword_P(s[i]) => reduced[i] = s[i]
                           /\ keyword_P(reduced[i]) <=> keyword_P(s[i])
                           /\ Positional(reduced, i) <=> Positional(s, i)
                    /\ Len(reduced) = m
                    /\ DeliversAs(list, reduced, N, K)
    BY CompleteFacts DEF m
  <1>3. /\ DOMAIN list = 1 .. Len(list)
        /\ Len(list) = N[m] + K[m]
        /\ \A j \in 1 .. m : Positional(s, j) => list[N[j]] = <<nil, reduceArgument(s[j])>>
        /\ \A j \in 1 .. m :
               keyword_P(s[j]) => list[N[m] + K[m] - K[j] + 1] = <<s[j], reduced[j + 1]>>
    BY <1>2 DEF DeliversAs
  <1>4. \A j \in 1 .. m : keyword_P(s[j]) => j \in 1 .. m - 1 /\ j + 1 \in 1 .. m
    <2> SUFFICES ASSUME NEW j \in 1 .. m, keyword_P(s[j]) PROVE j \in 1 .. m - 1 /\ j + 1 \in 1 .. m
      OBVIOUS
    <2>1. j # m
      BY <1>2
    <2> QED
      BY <1>1, <2>1
  <1>5. \A j \in 1 .. m :
            keyword_P(s[j]) => list[N[m] + K[m] - K[j] + 1] = <<s[j], reduceArgument(s[j + 1])>>
    BY <1>2, <1>3, <1>4
  <1>6. /\ n = N[m]
        /\ \A j \in 1 .. m : Positional(s, j) => text.positional[N[j]] = s[j]
        /\ text.pairs = {<<s[j], s[j + 1]>> : j \in {k \in 1 .. m - 1 : keyword_P(s[k])}}
    BY <1>2 DEF ReadsUpTo
  <1> HIDE DEF text, list, n
  <1>7. /\ m \in 0 .. m /\ N[m] \in Nat /\ K[m] \in Nat
        /\ \A j \in 1 .. m : N[j] \in Nat /\ K[j] \in Nat
        /\ \A i \in 0 .. m : Reaches(N, K, s, i)
    <2>1. \A j \in 0 .. m : N[j] \in Nat /\ K[j] \in Nat
      BY <1>2 DEF IsTally, m
    <2>2. m \in 0 .. m /\ \A j \in 1 .. m : j \in 0 .. m
      BY <1>1
    <2> QED
      BY <1>1, <1>2, <2>1, <2>2, TallyFacts DEF m
  <1>8. /\ \A k \in 1 .. N[m] : \E j \in 1 .. m : Positional(s, j) /\ N[j] = k
        /\ \A k \in 1 .. K[m] : \E j \in 1 .. m : keyword_P(s[j]) /\ K[j] = k
        /\ Cardinality({j \in 1 .. m : keyword_P(s[j])}) = K[m]
        /\ \A j \in 1 .. m : K[j] <= K[m]
    <2>1. Reaches(N, K, s, m)
      BY <1>7
    <2>2. \A j \in 1 .. m : j \in 0 .. m
      BY <1>1
    <2> QED
      BY <2>1, <2>2 DEF Reaches
  <1>9. \A j \in 1 .. m : keyword_P(s[j]) => 1 <= K[j]
    <2> SUFFICES ASSUME NEW j \in 1 .. m, keyword_P(s[j]) PROVE 1 <= K[j]
      OBVIOUS
    <2>1. 0 \in 0 .. m /\ j \in 0 + 1 .. m
      BY <1>1
    <2>2. K[0] < K[j] /\ K[0] \in Nat
      BY <1>1, <1>2, <2>1, OrderFacts DEF m
    <2> QED
      BY <1>7, <2>2
  \* where the pair of a keyword is in the list
  <1> DEFINE place(j) == N[m] + K[m] - K[j] + 1
  <1>10. ASSUME NEW j \in 1 .. m, keyword_P(s[j])
         PROVE  place(j) \in n + 1 .. Len(list) /\ list[place(j)] = <<s[j], reduceArgument(s[j + 1])>>
    <2>1. 1 <= K[j] /\ K[j] <= K[m] /\ K[j] \in Nat
      BY <1>7, <1>8, <1>9, <1>10
    <2>2. place(j) \in n + 1 .. Len(list)
      <3>1. N[m] + K[m] - K[j] + 1 \in N[m] + 1 .. N[m] + K[m]
        <4>1. \A a, b, c \in Nat : 1 <= c /\ c <= b => a + b - c + 1 \in a + 1 .. a + b
          OBVIOUS
        <4> QED
          BY <1>7, <2>1, <4>1
      <3>2. n + 1 = N[m] + 1 /\ Len(list) = N[m] + K[m]
        BY <1>3, <1>6
      <3> QED
        BY <3>1, <3>2
    <2> QED
      BY <1>5, <1>10, <2>2
  <1>11. ASSUME NEW i \in n + 1 .. Len(list)
         PROVE  \E j \in 1 .. m : keyword_P(s[j]) /\ place(j) = i
    <2>1. N[m] + K[m] - i + 1 \in 1 .. K[m]
      BY <1>3, <1>6, <1>7
    <2>2. PICK j \in 1 .. m : keyword_P(s[j]) /\ K[j] = N[m] + K[m] - i + 1
      BY <1>8, <2>1
    <2>3. place(j) = i
      BY <1>6, <1>7, <2>2
    <2> QED
      BY <2>2, <2>3
  <1>12. Len(list) = n + Cardinality({i \in DOMAIN s : keyword_P(s[i])})
    BY <1>1, <1>3, <1>6, <1>8
  <1>13. ASSUME NEW i \in 1 .. n
         PROVE  list[i] = <<nil, reduceArgument(text.positional[i])>>
    <2>1. PICK j \in 1 .. m : Positional(s, j) /\ N[j] = i
      BY <1>6, <1>8
    <2> QED
      BY <1>3, <1>6, <2>1
  <1>14. {list[i] : i \in n + 1 .. Len(list)}
            = {<<pair[1], reduceArgument(pair[2])>> : pair \in text.pairs}
    <2> HIDE DEF place
    <2>1. ASSUME NEW i \in n + 1 .. Len(list)
          PROVE  \E pair \in text.pairs : list[i] = <<pair[1], reduceArgument(pair[2])>>
      <3>1. PICK j \in 1 .. m : keyword_P(s[j]) /\ place(j) = i
        BY <1>11
      <3>2. <<s[j], s[j + 1]>> \in text.pairs
        BY <1>4, <1>6, <3>1
      <3>3. list[i] = <<s[j], reduceArgument(s[j + 1])>>
        BY <1>10, <3>1
      <3> DEFINE pair == <<s[j], s[j + 1]>>
      <3>4. pair[1] = s[j] /\ pair[2] = s[j + 1]
        OBVIOUS
      <3> HIDE DEF pair
      <3>5. list[i] = <<pair[1], reduceArgument(pair[2])>>
        BY <3>3, <3>4
      <3> QED
        BY <3>2, <3>5 DEF pair
    <2>2. ASSUME NEW pair \in text.pairs
          PROVE  \E i \in n + 1 .. Len(list) : list[i] = <<pair[1], reduceArgument(pair[2])>>
      <3>1. PICK j \in 1 .. m - 1 : keyword_P(s[j]) /\ pair = <<s[j], s[j + 1]>>
        BY <1>6
      <3>2. j \in 1 .. m
        BY <1>1
      <3>3. place(j) \in n + 1 .. Len(list) /\ list[place(j)] = <<s[j], reduceArgument(s[j + 1])>>
        BY <1>10, <3>1, <3>2
      <3>4. pair[1] = s[j] /\ pair[2] = s[j + 1]
        BY <3>1
      <3> QED
        BY <3>3, <3>4
    <2> QED
      BY <2>1, <2>2
  <1>15. LastKeywordWins
    <2> SUFFICES ASSUME NEW i \in 1 .. m, keyword_P(s[i]), \A j \in i + 1 .. m : s[j] # s[i]
                 PROVE  CXXgetKeywordArgumentValue(list, s[i]) = reduceArgument(s[i + 1])
      BY <1>1 DEF LastKeywordWins, list, m
    <2> DEFINE hits == {y \in DOMAIN list : list[y][1] = s[i]}
               first(x) == x \in hits /\ \A y \in hits : x <= y
    <2>1. place(i) \in n + 1 .. Len(list) /\ list[place(i)] = <<s[i], reduceArgument(s[i + 1])>>
      BY <1>10
    <2>2. n \in Nat /\ Len(list) \in Nat
      BY <1>3, <1>6, <1>7
    <2>3. place(i) \in Int /\ place(i) \in hits
      <3> HIDE DEF place
      <3>1. place(i) \in 1 .. Len(list) /\ place(i) \in Int
        BY <2>1, <2>2
      <3>2. list[place(i)][1] = s[i]
        BY <2>1
      <3> QED
        BY <1>3, <3>1, <3>2
    <2>4. ASSUME NEW y \in hits
          PROVE  y \in Int /\ place(i) <= y
      <3>1. y \in 1 .. Len(list) /\ list[y][1] = s[i]
        BY <1>3
      <3>2. s[i] # nil
        BY KeywordFacts
      <3>3. y \notin 1 .. n
        <4> SUFFICES ASSUME y \in 1 .. n PROVE FALSE
          OBVIOUS
        <4>1. list[y] = <<nil, reduceArgument(text.positional[y])>>
          BY <1>13
        <4>2. list[y][1] = nil
          BY <4>1
        <4> QED
          BY <3>1, <3>2, <4>2
      <3>4. y \in n + 1 .. Len(list)
        BY <2>2, <3>1, <3>3
      <3>5. PICK j \in 1 .. m : keyword_P(s[j]) /\ place(j) = y
        BY <1>11, <3>4
      <3>6. list[y] = <<s[j], reduceArgument(s[j + 1])>>
        <4> HIDE DEF place
        <4> QED
          BY <1>10, <3>5
      <3>7. s[j] = s[i]
        BY <3>1, <3>6
      <3>8. j \in 0 .. i
        <4>1. j \notin i + 1 .. m
          BY <3>7
        <4> QED
          BY <1>1, <4>1
      <3>9. K[j] <= K[i]
        <4>1. Reaches(N, K, s, i)
          BY <1>1, <1>7
        <4> QED
          BY <3>8, <4>1 DEF Reaches
      <3> QED
        BY <1>7, <3>5, <3>9
    <2> HIDE DEF hits, place
    <2>5. place(i) = CHOOSE x \in hits : \A y \in hits : x <= y
      <3>1. \A x \in hits : (\A y \in hits : x <= y) => x = place(i)
        BY <2>3, <2>4
      <3> QED
        BY <2>3, <2>4, <3>1
    <2>6. CXXgetKeywordArgumentValue(list, s[i]) = list[place(i)][2]
      <3>1. hits # {}
        BY <2>3
      <3>2. CXXgetKeywordArgumentValue(list, s[i])
              = IF hits = {} THEN nil ELSE list[CHOOSE x \in hits : \A y \in hits : x <= y][2]
        BY DEF CXXgetKeywordArgumentValue, hits
      <3> QED
        BY <2>5, <3>1, <3>2
    <2> QED
      BY <2>1, <2>6
  <1> QED
    BY <1>12, <1>13, <1>14, <1>15 DEF DeliveredAsWritten, n, text, list

LEMMA DeliveredInvTheorem == Spec => []DeliveredInv
  <1>1. Init => DeliveredInv
    BY DEF Init, DeliveredInv
  <1>2. IInv /\ DeliveredInv /\ [Next]_vars => DeliveredInv'
    <2> SUFFICES ASSUME IInv, DeliveredInv, [Next]_vars PROVE DeliveredInv'
      OBVIOUS
    <2>1. CASE UNCHANGED vars
      BY <2>1 DEF vars, DeliveredInv, reduced
    <2>2. ASSUME NEW a \in Items, Apply(a)
          PROVE  DeliveredInv'
      <3> SUFFICES ASSUME status' = "call"
                   PROVE  given' # <<>> /\ delivered' = CXXfromArguments(reduced')
        BY DEF DeliveredInv
      <3>1. given' = Append(given, a) /\ argumentsOf(fn) = given /\ given \in Seq(Items)
        BY <2>2 DEF Apply, IInv
      <3>2. given' # <<>>
        BY <3>1, AppendProperties
      <3>3. delivered' = LET arguments == Append(argumentsOf(fn), a)
                         IN  CXXfromArguments([i \in DOMAIN arguments |-> reduceArgument(arguments[i])])
        BY <2>2 DEF Apply
      <3> QED
        BY <3>1, <3>2, <3>3 DEF reduced
    <2> QED
      BY <2>1, <2>2 DEF Next
  <1> QED
    BY <1>1, <1>2, IInvTheorem, PTL DEF Spec

\* When the reduction of an argument makes no keyword of it and takes none
\* away, the native code gets the arguments as the text has them: first the
\* positional ones in their order, then each keyword with its value, the last
\* one of a keyword before the others.  Without the hypothesis the count of
\* call_builtin and the pairs of CXXfromArguments are about two texts.
THEOREM DeliveredTheorem == KeywordsStay => (Spec => []DeliveredAsWritten)
  <1> SUFFICES ASSUME KeywordsStay PROVE Spec => []DeliveredAsWritten
    OBVIOUS
  <1>1. IInv /\ DeliveredInv => DeliveredAsWritten
    <2> SUFFICES ASSUME IInv, DeliveredInv PROVE DeliveredAsWritten
      OBVIOUS
    <2>1. CASE PlainText /\ status = "call"
      BY <2>1, WrittenFacts
    <2> QED
      BY <2>1 DEF DeliveredAsWritten
  <1> QED
    BY <1>1, IInvTheorem, DeliveredInvTheorem, PTL
=============================================================================
