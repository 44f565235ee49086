----------------------------- MODULE Induction ------------------------------
(***************************************************************************)
(* Induction and recursion over data, for the proofs of the other modules. *)
(* The theorems of the library take a predicate or a definition as an      *)
(* operator parameter; here the predicate is a set of numbers and the      *)
(* definition a function, so that a proof can cite the fact as it is.      *)
(***************************************************************************)
EXTENDS Integers, FiniteSetTheorems, WellFoundedInduction, TLAPS

\* Induction: the numbers below a number are finitely many, and among finite
\* sets there is no endless descent.
LEMMA NatSetInduction ==
    ASSUME NEW S \in SUBSET Nat, 0 \in S, \A n \in S : n + 1 \in S
    PROVE  S = Nat
  <1> DEFINE below(n) == 0 .. n - 1
             T == {below(n) : n \in Nat \ S}
  <1> SUFFICES ASSUME NEW k \in Nat \ S PROVE FALSE
    OBVIOUS
  <1>1. IsWellFoundedOn(StrictSubsetOrdering(Nat), FiniteSubsetsOf(Nat))
    BY FS_StrictSubsetOrderingWellFounded
  <1>2. \A n \in Nat : below(n) \in FiniteSubsetsOf(Nat)
    <2> SUFFICES ASSUME NEW n \in Nat PROVE below(n) \in FiniteSubsetsOf(Nat)
      OBVIOUS
    <2>1. IsFiniteSet(0 .. n - 1)
      BY FS_Interval
    <2> QED
      BY <2>1 DEF FiniteSubsetsOf
  <1>3. T \subseteq FiniteSubsetsOf(Nat) /\ T # {}
    BY <1>2
  <1> HIDE DEF T
  <1>4. PICK m \in T : \A y \in T : ~(<<y, m>> \in StrictSubsetOrdering(Nat))
    BY <1>1, <1>3, WFMin
  <1>5. PICK n \in Nat \ S : m = below(n)
    BY DEF T
  <1>6. n - 1 \in Nat \ S
    BY <1>5
  <1>7. below(n - 1) \in T
    BY <1>6 DEF T
  <1>8. <<below(n - 1), m>> \in StrictSubsetOrdering(Nat)
    <2>1. n - 1 \in below(n) /\ n - 1 \notin below(n - 1) /\ below(n - 1) \subseteq below(n)
      BY <1>6
    <2> QED
      BY <1>2, <1>5, <1>6, <2>1 DEF StrictSubsetOrdering, FiniteSubsetsOf
  <1> QED
    BY <1>4, <1>7, <1>8

\* From one end of an interval to the other.
LEMMA UpInduction ==
    ASSUME NEW m \in Nat, NEW S, 0 \in S, \A n \in 0 .. m - 1 : n \in S => n + 1 \in S
    PROVE  \A n \in 0 .. m : n \in S
  <1> DEFINE T == {n \in Nat : n <= m => n \in S}
  <1>1. T \in SUBSET Nat /\ 0 \in T
    OBVIOUS
  <1>2. \A n \in T : n + 1 \in T
    OBVIOUS
  <1> HIDE DEF T
  <1>3. T = Nat
    BY <1>1, <1>2, NatSetInduction
  <1> QED
    BY <1>3 DEF T

LEMMA DownInduction ==
    ASSUME NEW m \in Nat, NEW S, m \in S, \A n \in 0 .. m - 1 : n + 1 \in S => n \in S
    PROVE  \A n \in 0 .. m : n \in S
  <1> DEFINE T == {n \in Nat : n <= m => m - n \in S}
  <1>1. T \in SUBSET Nat /\ 0 \in T
    OBVIOUS
  <1>2. \A n \in T : n + 1 \in T
    <2> SUFFICES ASSUME NEW n \in T, n + 1 <= m PROVE m - (n + 1) \in S
      OBVIOUS
    <2>1. m - (n + 1) \in 0 .. m - 1 /\ (m - (n + 1)) + 1 = m - n /\ m - n \in S
      OBVIOUS
    <2> QED
      BY <2>1
  <1> HIDE DEF T
  <1>3. T = Nat
    BY <1>1, <1>2, NatSetInduction
  <1>4. \A n \in 0 .. m : m - n \in T /\ m - (m - n) = n /\ m - n <= m
    BY <1>3
  <1> QED
    BY <1>4 DEF T

\* Every part of an interval has a least and a greatest element.
LEMMA ExtremeElements ==
    ASSUME NEW n \in Nat, NEW S \in SUBSET (0 .. n), S # {}
    PROVE  /\ \E i \in S : \A j \in S : i <= j
           /\ \E i \in S : \A j \in S : i >= j
  <1>1. PICK e \in S : e \in 0 .. n
    OBVIOUS
  <1>2. \E i \in S : \A j \in S : i <= j
    <2> DEFINE good == {k \in 0 .. n : (\E j \in S : j <= k) => \E i \in S : \A j \in S : i <= j}
    <2>1. 0 \in good
      OBVIOUS
    <2>2. \A k \in 0 .. n - 1 : k \in good => k + 1 \in good
      <3> SUFFICES ASSUME NEW k \in 0 .. n - 1, k \in good, NEW j \in S, j <= k + 1
                   PROVE  \E i \in S : \A l \in S : i <= l
        OBVIOUS
      <3>1. CASE \E i \in S : i <= k
        BY <3>1
      <3>2. CASE ~\E i \in S : i <= k
        <4>1. \A l \in S : j <= l
          BY <3>2
        <4> QED
          BY <4>1
      <3> QED
        BY <3>1, <3>2
    <2>3. \A k \in 0 .. n : k \in good
      <3> HIDE DEF good
      <3> QED
        BY <2>1, <2>2, UpInduction
    <2> QED
      BY <1>1, <2>3
  <1>3. \E i \in S : \A j \in S : i >= j
    <2> DEFINE good == {k \in 0 .. n : (\E j \in S : j >= k) => \E i \in S : \A j \in S : i >= j}
    <2>1. n \in good
      OBVIOUS
    <2>2. \A k \in 0 .. n - 1 : k + 1 \in good => k \in good
      <3> SUFFICES ASSUME NEW k \in 0 .. n - 1, k + 1 \in good, NEW j \in S, j >= k
                   PROVE  \E i \in S : \A l \in S : i >= l
        OBVIOUS
      <3>1. CASE \E i \in S : i >= k + 1
        BY <3>1
      <3>2. CASE ~\E i \in S : i >= k + 1
        <4>1. \A l \in S : j >= l
          BY <3>2
        <4> QED
          BY <4>1
      <3> QED
        BY <3>1, <3>2
    <2>3. \A k \in 0 .. n : k \in good
      <3> HIDE DEF good
      <3> QED
        BY <2>1, <2>2, DownInduction
    <2> QED
      BY <1>1, <2>3
  <1> QED
    BY <1>2, <1>3

\* Functions that give the next value, and the values that they give.
Steps(m, T) == [(1 .. m) \X T -> T]
Values(m, T) == [0 .. m -> T]
Recurses(g, c, step, m) == g[0] = c /\ \A i \in 1 .. m : g[i] = step[<<i, g[i - 1]>>]

\* Recursion: a function that is given by its first value and by each step.
LEMMA Recursion ==
    ASSUME NEW m \in Nat, NEW T, NEW c \in T, NEW step \in Steps(m, T)
    PROVE  \E g \in Values(m, T) : Recurses(g, c, step, m)
  <1> USE DEF Steps, Values, Recurses
  <1> DEFINE Good(n) == {g \in [0 .. n -> T] : g[0] = c /\ \A i \in 1 .. n : g[i] = step[<<i, g[i - 1]>>]}
             S == {n \in 0 .. m : Good(n) # {}}
  <1>1. 0 \in S
    <2>1. [i \in 0 .. 0 |-> c] \in Good(0)
      OBVIOUS
    <2> QED
      BY <2>1
  <1>2. \A n \in 0 .. m - 1 : n \in S => n + 1 \in S
    <2> SUFFICES ASSUME NEW n \in 0 .. m - 1, NEW g \in Good(n) PROVE Good(n + 1) # {}
      OBVIOUS
    <2> DEFINE h == [i \in 0 .. n + 1 |-> IF i = n + 1 THEN step[<<n + 1, g[n]>>] ELSE g[i]]
    <2>1. n \in 0 .. n /\ n + 1 \in 1 .. m /\ g[n] \in T
      OBVIOUS
    <2>2. h \in [0 .. n + 1 -> T]
      BY <2>1
    <2>3. h[0] = c
      OBVIOUS
    <2>4. \A i \in 1 .. n + 1 : h[i] = step[<<i, h[i - 1]>>]
      <3> SUFFICES ASSUME NEW i \in 1 .. n + 1 PROVE h[i] = step[<<i, h[i - 1]>>]
        OBVIOUS
      <3>1. i - 1 \in 0 .. n /\ h[i - 1] = g[i - 1]
        OBVIOUS
      <3>2. CASE i = n + 1
        <4>1. h[i] = step[<<n + 1, g[n]>>]
          BY <3>2
        <4>2. h[i - 1] = g[n]
          BY <3>1, <3>2
        <4> HIDE DEF h
        <4> QED
          BY <3>2, <4>1, <4>2
      <3>3. CASE i # n + 1
        BY <3>1, <3>3
      <3> QED
        BY <3>2, <3>3
    <2> QED
      BY <2>2, <2>3, <2>4
  <1> HIDE DEF S
  <1>3. m \in S
    BY <1>1, <1>2, UpInduction
  <1> QED
    BY <1>3 DEF S
\* Recursion over all numbers: the ones over 0 .. m agree with each other.
NatSteps(T) == [Nat \X T -> T]
RecursesOnNat(f, c, step) == f = [n \in Nat |-> IF n = 0 THEN c ELSE step[<<n, f[n - 1]>>]]

LEMMA NatRecursion ==
    ASSUME NEW T, NEW c \in T, NEW step \in NatSteps(T)
    PROVE  \E f \in [Nat -> T] : RecursesOnNat(f, c, step)
  <1> DEFINE upTo(m) == [p \in (1 .. m) \X T |-> step[p]]
             Fits(g, m) == /\ g \in [0 .. m -> T] /\ g[0] = c
                           /\ \A i \in 1 .. m : g[i] = step[<<i, g[i - 1]>>]
             G(m) == CHOOSE g : Fits(g, m)
             f == [n \in Nat |-> G(n)[n]]
  <1>1. ASSUME NEW m \in Nat PROVE Fits(G(m), m)
    <2>1. upTo(m) \in Steps(m, T)
      BY DEF Steps, NatSteps
    <2>2. \A i \in 1 .. m : \A x \in T : upTo(m)[<<i, x>>] = step[<<i, x>>]
      OBVIOUS
    <2> HIDE DEF upTo
    <2>3. PICK g \in Values(m, T) : Recurses(g, c, upTo(m), m)
      BY <2>1, Recursion
    <2>4. g \in [0 .. m -> T] /\ g[0] = c
      BY <2>3 DEF Values, Recurses
    <2>5. ASSUME NEW i \in 1 .. m PROVE g[i] = step[<<i, g[i - 1]>>]
      <3>1. i - 1 \in 0 .. m
        OBVIOUS
      <3>2. g[i - 1] \in T
        BY <2>4, <3>1
      <3>3. g[i] = upTo(m)[<<i, g[i - 1]>>]
        BY <2>3 DEF Recurses
      <3> QED
        BY <2>2, <3>2, <3>3
    <2>6. Fits(g, m)
      BY <2>4, <2>5
    <2> HIDE DEF Fits
    <2> QED
      BY <2>6
  <1>2. ASSUME NEW m \in Nat, NEW g, NEW h, Fits(g, m + 1), Fits(h, m) PROVE g[m] = h[m]
    <2> DEFINE S == {i \in 0 .. m : g[i] = h[i]}
    <2>1. 0 \in S
      BY <1>2
    <2>2. \A i \in 0 .. m - 1 : i \in S => i + 1 \in S
      <3> SUFFICES ASSUME NEW i \in 0 .. m - 1, g[i] = h[i] PROVE g[i + 1] = h[i + 1]
        OBVIOUS
      <3>1. i + 1 \in 1 .. m /\ i + 1 \in 1 .. m + 1 /\ (i + 1) - 1 = i
        OBVIOUS
      <3>2. g[i + 1] = step[<<i + 1, g[i]>>] /\ h[i + 1] = step[<<i + 1, h[i]>>]
        BY <1>2, <3>1
      <3> QED
        BY <3>2
    <2> HIDE DEF S
    <2>3. m \in S
      BY <2>1, <2>2, UpInduction
    <2> QED
      BY <2>3 DEF S
  <1>3. ASSUME NEW n \in Nat
        PROVE  /\ f[n] \in T /\ f[0] = c
               /\ n # 0 => f[n] = step[<<n, f[n - 1]>>]
    <2>1. f[n] \in T /\ f[0] = c
      <3>0. n \in 0 .. n
        OBVIOUS
      <3> HIDE DEF G
      <3>1. Fits(G(n), n) /\ Fits(G(0), 0)
        <4> HIDE DEF Fits
        <4> QED
          BY <1>1
      <3>2. G(n)[n] \in T /\ G(0)[0] = c
        BY <3>0, <3>1
      <3>3. f[n] = G(n)[n] /\ f[0] = G(0)[0]
        OBVIOUS
      <3> HIDE DEF f
      <3> QED
        BY <3>2, <3>3
    <2>2. ASSUME n # 0 PROVE f[n] = step[<<n, f[n - 1]>>]
      <3>1. n - 1 \in Nat /\ (n - 1) + 1 = n /\ n \in 1 .. n
        BY <2>2
      <3>2. Fits(G(n), n) /\ Fits(G(n - 1), n - 1)
        BY <1>1, <3>1
      <3> HIDE DEF G
      <3>3. G(n)[n - 1] = G(n - 1)[n - 1]
        <4> HIDE DEF Fits
        <4>1. Fits(G(n), (n - 1) + 1)
          BY <3>1, <3>2
        <4> QED
          BY <1>2, <3>1, <3>2, <4>1
      <3>4. G(n)[n] = step[<<n, G(n)[n - 1]>>]
        BY <3>1, <3>2
      <3> HIDE DEF Fits
      <3> QED
        BY <3>1, <3>3, <3>4
    <2> QED
      BY <2>1, <2>2
  <1> HIDE DEF f
  <1>4. DOMAIN f = Nat /\ f = [n \in Nat |-> f[n]]
    BY DEF f
  <1>5. RecursesOnNat(f, c, step)
    BY <1>3, <1>4 DEF RecursesOnNat
  <1> QED
    BY <1>3, <1>4, <1>5
-----------------------------------------------------------------------------
\* What picks an element of each part of an interval, and a function that is
\* given for a part by the part without that element: what a fold is.
Picks(m) == {pick \in [SUBSET (1 .. m) -> 1 .. m \cup {0}] :
                 \A U \in SUBSET (1 .. m) : U # {} => pick[U] \in U}
Folds(m, T) == [SUBSET (1 .. m) -> T]
IsFold(g, c, pick, step, m) ==
    /\ g[{}] = c
    /\ \A U \in SUBSET (1 .. m) : U # {} => g[U] = step[<<pick[U], g[U \ {pick[U]}]>>]

\* Recursion over the parts of an interval, one chosen element less at a time.
\* The function is iterated until no part is left undecided.
LEMMA SetRecursion ==
    ASSUME NEW m \in Nat, NEW T, NEW c \in T, NEW pick \in Picks(m), NEW step \in Steps(m, T)
    PROVE  \E g \in Folds(m, T) : IsFold(g, c, pick, step, m)
  <1>0. /\ pick \in [SUBSET (1 .. m) -> 1 .. m \cup {0}]
        /\ \A U \in SUBSET (1 .. m) : U # {} => pick[U] \in U
        /\ step \in [(1 .. m) \X T -> T]
    BY DEF Picks, Steps
  <1> USE <1>0
  <1> DEFINE Parts == SUBSET (1 .. m)
             next(g) == [U \in Parts |->
                            IF U = {} THEN c ELSE step[<<pick[U], g[U \ {pick[U]}]>>]]
             iterate == [p \in (1 .. m + 1) \X [Parts -> T] |-> next(p[2])]
             start == [U \in Parts |-> c]
  <1>1. \A g \in [Parts -> T] : next(g) \in [Parts -> T]
    OBVIOUS
  <1>2. iterate \in [(1 .. m + 1) \X [Parts -> T] -> [Parts -> T]]
    BY <1>1
  <1>3. start \in [Parts -> T]
    OBVIOUS
  <1>4. \A i \in 1 .. m + 1, g \in [Parts -> T] : iterate[<<i, g>>] = next(g)
    OBVIOUS
  <1> HIDE DEF Parts, next, iterate, start
  <1>5. PICK G \in [0 .. m + 1 -> [Parts -> T]] :
            G[0] = start /\ \A i \in 1 .. m + 1 : G[i] = iterate[<<i, G[i - 1]>>]
    <2> DEFINE Fs == [Parts -> T]
    <2>1. m + 1 \in Nat /\ start \in Fs /\ iterate \in [(1 .. m + 1) \X Fs -> Fs]
      BY <1>2, <1>3
    <2> HIDE DEF Fs
    <2> DEFINE n == m + 1
    <2>2. n \in Nat /\ start \in Fs /\ iterate \in Steps(n, Fs)
      BY <2>1 DEF Steps
    <2> HIDE DEF n
    <2>3. \E G \in Values(n, Fs) : Recurses(G, start, iterate, n)
      BY <2>2, Recursion
    <2> QED
      BY <2>3 DEF Fs, n, Values, Recurses
  <1>6. \A i \in 0 .. m : G[i] \in [Parts -> T] /\ G[i + 1] = next(G[i])
    <2> SUFFICES ASSUME NEW i \in 0 .. m PROVE G[i] \in [Parts -> T] /\ G[i + 1] = next(G[i])
      OBVIOUS
    <2>1. i + 1 \in 1 .. m + 1 /\ (i + 1) - 1 = i /\ i \in 0 .. m + 1
      OBVIOUS
    <2>2. G[i] \in [Parts -> T]
      BY <2>1
    <2>3. G[i + 1] = iterate[<<i + 1, G[(i + 1) - 1]>>]
      BY <1>5, <2>1
    <2> QED
      BY <1>4, <2>1, <2>2, <2>3
  <1>7. \A U \in Parts : IsFiniteSet(U) /\ Cardinality(U) \in 0 .. m
    <2> SUFFICES ASSUME NEW U \in Parts PROVE IsFiniteSet(U) /\ Cardinality(U) \in 0 .. m
      OBVIOUS
    <2>1. IsFiniteSet(1 .. m) /\ Cardinality(1 .. m) = m
      BY FS_Interval
    <2>2. IsFiniteSet(U) /\ Cardinality(U) <= Cardinality(1 .. m)
      BY <2>1, FS_Subset DEF Parts
    <2>3. Cardinality(U) \in Nat
      BY <2>2, FS_CardinalityType
    <2> QED
      BY <2>1, <2>2, <2>3
  \* A part of k elements is decided after k iterations.
  <1> DEFINE settled == {k \in 0 .. m : \A U \in Parts : Cardinality(U) <= k => G[k][U] = G[k + 1][U]}
  <1>8. 0 \in settled
    <2>1. 0 \in 0 .. m
      OBVIOUS
    <2>2. ASSUME NEW U \in Parts, Cardinality(U) <= 0
          PROVE  G[0][U] = G[0 + 1][U]
      <3>1. U = {}
        BY <1>7, <2>2, FS_EmptySet
      <3>2. G[0 + 1] = next(start)
        BY <1>5, <1>6, <2>1
      <3> QED
        BY <1>5, <3>1, <3>2 DEF start, next
    <2> QED
      BY <2>1, <2>2
  <1>9. \A k \in 0 .. m - 1 : k \in settled => k + 1 \in settled
    <2> SUFFICES ASSUME NEW k \in 0 .. m - 1, k \in settled
                 PROVE  k + 1 \in settled
      OBVIOUS
    <2>1. k \in 0 .. m /\ k + 1 \in 0 .. m /\ k + 1 + 1 = k + 2
      OBVIOUS
    <2> SUFFICES ASSUME NEW U \in Parts, Cardinality(U) <= k + 1
                 PROVE  G[k + 1][U] = G[k + 2][U]
      BY <2>1
    <2>2. G[k + 1] = next(G[k]) /\ G[k + 2] = next(G[k + 1])
      BY <1>6, <2>1
    <2>3. CASE U = {}
      BY <2>2, <2>3 DEF next
    <2>4. CASE U # {}
      <3> DEFINE V == U \ {pick[U]}
      <3>1. pick[U] \in U
        BY <2>4 DEF Parts
      <3>2. V \in Parts
        BY DEF Parts
      <3>3. Cardinality(V) = Cardinality(U) - 1
        BY <1>7, <3>1, FS_RemoveElement
      <3>4. Cardinality(V) <= k
        BY <1>7, <3>3
      <3>5. G[k][V] = G[k + 1][V]
        BY <3>2, <3>4
      <3>6. G[k + 1][U] = step[<<pick[U], G[k][V]>>] /\ G[k + 2][U] = step[<<pick[U], G[k + 1][V]>>]
        BY <2>2, <2>4 DEF next
      <3> QED
        BY <3>5, <3>6
    <2> QED
      BY <2>3, <2>4
  <1> HIDE DEF settled
  <1>10. m \in settled
    <2>1. m \in 0 .. m
      OBVIOUS
    <2> QED
      BY <1>8, <1>9, <2>1, UpInduction
  <1>11. \A U \in Parts : G[m][U] = G[m + 1][U]
    BY <1>7, <1>10 DEF settled
  <1>12. G[m] \in [Parts -> T] /\ G[m + 1] = next(G[m])
    BY <1>6
  <1>13. {} \in Parts /\ \A U \in Parts : G[m][U] = next(G[m])[U]
    BY <1>11, <1>12 DEF Parts
  <1>14. /\ G[m][{}] = c
         /\ \A U \in Parts : U # {} => G[m][U] = step[<<pick[U], G[m][U \ {pick[U]}]>>]
    BY <1>13 DEF next
  <1> QED
    BY <1>12, <1>14 DEF Parts, Folds, IsFold

\* The folds of sequences pick the least or the greatest element.
Least(U) == CHOOSE x \in U : \A y \in U : x <= y
Greatest(U) == CHOOSE x \in U : \A y \in U : x >= y
Leasts(m) == [U \in SUBSET (1 .. m) |-> IF U = {} THEN 0 ELSE Least(U)]
Greatests(m) == [U \in SUBSET (1 .. m) |-> IF U = {} THEN 0 ELSE Greatest(U)]

LEMMA PicksFacts ==
    ASSUME NEW m \in Nat
    PROVE  /\ Leasts(m) \in Picks(m) /\ Greatests(m) \in Picks(m)
           /\ \A U \in SUBSET (1 .. m) :
                  U # {} => /\ Leasts(m)[U] = Least(U) /\ Least(U) \in U
                            /\ Greatests(m)[U] = Greatest(U) /\ Greatest(U) \in U
  <1>1. ASSUME NEW U \in SUBSET (1 .. m), U # {}
        PROVE  Least(U) \in U /\ Greatest(U) \in U
    <2>1. U \in SUBSET (0 .. m)
      OBVIOUS
    <2>2. (\E i \in U : \A j \in U : i <= j) /\ (\E i \in U : \A j \in U : i >= j)
      BY <1>1, <2>1, ExtremeElements
    <2> QED
      BY <2>2 DEF Least, Greatest
  <1>2. Leasts(m) \in Picks(m)
    BY <1>1 DEF Leasts, Picks
  <1>3. Greatests(m) \in Picks(m)
    BY <1>1 DEF Greatests, Picks
  <1> QED
    BY <1>1, <1>2, <1>3 DEF Leasts, Greatests

\* A part of an interval that reaches an end of it.
LEMMA EndFacts ==
    ASSUME NEW i \in Int, NEW n \in Int, i <= n
    PROVE  /\ Least(i .. n) = i /\ (i .. n) \ {i} = i + 1 .. n
           /\ Greatest(i .. n) = n /\ (i .. n) \ {n} = i .. n - 1
  <1>1. Least(i .. n) = i
    <2>1. i \in i .. n /\ \A y \in i .. n : i <= y
      OBVIOUS
    <2>2. Least(i .. n) \in i .. n /\ Least(i .. n) <= i
      BY <2>1 DEF Least
    <2> QED
      BY <2>2
  <1>2. Greatest(i .. n) = n
    <2>1. n \in i .. n /\ \A y \in i .. n : n >= y
      OBVIOUS
    <2>2. Greatest(i .. n) \in i .. n /\ Greatest(i .. n) >= n
      BY <2>1 DEF Greatest
    <2> QED
      BY <2>2
  <1> QED
    BY <1>1, <1>2
=============================================================================
