--------------------------- MODULE WorkspaceProofs --------------------------
(***************************************************************************)
(* The list in the window is the chain of definitions, what is not marked  *)
(* as modified is saved, and what was drawn stands in its own command: for *)
(* every set of commands, names, files and built-in definitions.           *)
(***************************************************************************)
EXTENDS Workspace, SequenceTheorems, Induction, TLAPS

\* The names of a sequence of entries are a sequence of the same length.
LEMMA NamesType ==
    ASSUME NEW s \in Seq(Entries)
    PROVE  /\ namesOf(s) \in Seq(Names)
           /\ Len(namesOf(s)) = Len(s)
           /\ \A i \in 1 .. Len(s) : namesOf(s)[i] = s[i].name
  <1>1. Len(s) \in Nat /\ DOMAIN s = 1 .. Len(s)
    BY LenProperties
  <1>2. \A i \in 1 .. Len(s) : s[i] \in Entries
    BY ElementOfSeq
  <1>3. \A i \in 1 .. Len(s) : s[i].name \in Names
    BY <1>2 DEF Entries
  <1>4. namesOf(s) = [i \in 1 .. Len(s) |-> s[i].name]
    BY <1>1 DEF namesOf
  <1> QED
    BY <1>1, <1>3, <1>4

\* Names are taken entry by entry.
LEMMA NamesOfConcat ==
    ASSUME NEW s \in Seq(Entries), NEW t \in Seq(Entries)
    PROVE  namesOf(s \o t) = namesOf(s) \o namesOf(t)
  <1>1. /\ s \o t \in Seq(Entries)
        /\ Len(s \o t) = Len(s) + Len(t)
        /\ \A i \in 1 .. Len(s) + Len(t) : (s \o t)[i] = IF i <= Len(s) THEN s[i] ELSE t[i - Len(s)]
    BY ConcatProperties
  <1>2. Len(s) \in Nat /\ Len(t) \in Nat
    BY LenProperties
  <1> DEFINE l == namesOf(s \o t)
             n == namesOf(s)
             m == namesOf(t)
  <1>3. /\ l \in Seq(Names) /\ Len(l) = Len(s) + Len(t)
        /\ \A i \in 1 .. Len(s) + Len(t) : l[i] = (s \o t)[i].name
    BY <1>1, NamesType
  <1>4. /\ n \in Seq(Names) /\ Len(n) = Len(s) /\ \A i \in 1 .. Len(s) : n[i] = s[i].name
        /\ m \in Seq(Names) /\ Len(m) = Len(t) /\ \A i \in 1 .. Len(t) : m[i] = t[i].name
    BY NamesType
  <1> HIDE DEF l, n, m
  <1>5. /\ n \o m \in Seq(Names)
        /\ Len(n \o m) = Len(s) + Len(t)
        /\ \A i \in 1 .. Len(s) + Len(t) : (n \o m)[i] = IF i <= Len(s) THEN n[i] ELSE m[i - Len(s)]
    BY <1>4, ConcatProperties
  <1>6. \A i \in 1 .. Len(s) + Len(t) : l[i] = (n \o m)[i]
    <2> SUFFICES ASSUME NEW i \in 1 .. Len(s) + Len(t) PROVE l[i] = (n \o m)[i]
      OBVIOUS
    <2>1. CASE i <= Len(s)
      BY <2>1, <1>1, <1>2, <1>3, <1>4, <1>5
    <2>2. CASE ~(i <= Len(s))
      <3>1. i - Len(s) \in 1 .. Len(t)
        BY <2>2, <1>2
      <3> QED
        BY <2>2, <3>1, <1>1, <1>3, <1>4, <1>5
    <2> QED
      BY <2>1, <2>2
  <1>7. l = n \o m
    BY <1>3, <1>5, <1>6, SeqEqual
  <1> QED
    BY <1>7 DEF l, n, m

\* A part of the chain has the same part of the names.
LEMMA NamesOfSubSeq ==
    ASSUME NEW s \in Seq(Entries), NEW i \in 1 .. Len(s) + 1, NEW j \in 0 .. Len(s)
    PROVE  /\ SubSeq(s, i, j) \in Seq(Entries)
           /\ Len(SubSeq(s, i, j)) = IF i <= j THEN j - i + 1 ELSE 0
           /\ namesOf(SubSeq(s, i, j)) = SubSeq(namesOf(s), i, j)
  <1>1. Len(s) \in Nat
    BY LenProperties
  <1>2. i \in Int /\ j \in Int
    BY <1>1
  <1>3. \A k \in i .. j : k \in 1 .. Len(s)
    BY <1>1
  <1>4. \A k \in i .. j : s[k] \in Entries
    BY <1>3, ElementOfSeq
  <1> DEFINE part == SubSeq(s, i, j)
             names == namesOf(s)
             few == SubSeq(names, i, j)
             these == namesOf(part)
  <1>5. /\ part \in Seq(Entries)
        /\ Len(part) = IF i <= j THEN j - i + 1 ELSE 0
        /\ \A k \in 1 .. j - i + 1 : part[k] = s[i + k - 1]
    BY <1>2, <1>4, SubSeqProperties
  <1>6. /\ names \in Seq(Names) /\ Len(names) = Len(s)
        /\ \A k \in 1 .. Len(s) : names[k] = s[k].name
    BY NamesType
  <1> HIDE DEF part, names
  <1>7. \A k \in i .. j : names[k] \in Names
    BY <1>3, <1>6, ElementOfSeq
  <1>8. /\ few \in Seq(Names)
        /\ Len(few) = IF i <= j THEN j - i + 1 ELSE 0
        /\ \A k \in 1 .. j - i + 1 : few[k] = names[i + k - 1]
    BY <1>2, <1>7, SubSeqProperties
  <1>9. /\ these \in Seq(Names) /\ Len(these) = Len(part)
        /\ \A k \in 1 .. Len(part) : these[k] = part[k].name
    BY <1>5, NamesType
  <1> HIDE DEF few, these
  <1>10. \A k \in 1 .. Len(these) : these[k] = few[k]
    <2> SUFFICES ASSUME NEW k \in 1 .. Len(these) PROVE these[k] = few[k]
      OBVIOUS
    <2>1. k \in 1 .. j - i + 1 /\ k \in 1 .. Len(part)
      BY <1>1, <1>5, <1>9
    <2>2. i + k - 1 \in 1 .. Len(s)
      BY <1>1, <2>1
    <2> QED
      BY <2>1, <2>2, <1>5, <1>6, <1>8, <1>9
  <1>11. Len(these) = Len(few)
    BY <1>5, <1>8, <1>9
  <1>12. these = few
    BY <1>8, <1>9, <1>10, <1>11, SeqEqual
  <1> QED
    BY <1>5, <1>12 DEF part, names, few, these

\* What is behind the first of two sequences is the second.
LEMMA BehindConcat ==
    ASSUME NEW S, NEW s \in Seq(S), NEW t \in Seq(S)
    PROVE  SubSeq(s \o t, Len(s) + 1, Len(s \o t)) = t
  <1> DEFINE u == s \o t
  <1>1. /\ u \in Seq(S) /\ Len(u) = Len(s) + Len(t)
        /\ \A i \in 1 .. Len(s) + Len(t) : u[i] = IF i <= Len(s) THEN s[i] ELSE t[i - Len(s)]
    BY ConcatProperties
  <1>2. Len(s) \in Nat /\ Len(t) \in Nat
    BY LenProperties
  <1> HIDE DEF u
  <1> DEFINE rest == SubSeq(u, Len(s) + 1, Len(s) + Len(t))
  <1>3. \A i \in Len(s) + 1 .. Len(s) + Len(t) : u[i] \in S
    BY <1>1, <1>2, ElementOfSeq
  <1>4. /\ rest \in Seq(S)
        /\ Len(rest) = IF Len(s) + 1 <= Len(s) + Len(t) THEN Len(t) ELSE 0
        /\ \A i \in 1 .. Len(t) : rest[i] = u[Len(s) + i]
    <2>1. Len(s) + 1 \in Int /\ Len(s) + Len(t) \in Int
      BY <1>2
    <2>2. /\ rest \in Seq(S)
          /\ Len(rest) = IF Len(s) + 1 <= Len(s) + Len(t) THEN Len(s) + Len(t) - (Len(s) + 1) + 1 ELSE 0
          /\ \A i \in 1 .. Len(s) + Len(t) - (Len(s) + 1) + 1 : rest[i] = u[Len(s) + 1 + i - 1]
      BY <2>1, <1>3, SubSeqProperties
    <2> HIDE DEF rest
    <2>3. Len(s) + Len(t) - (Len(s) + 1) + 1 = Len(t)
      BY <1>2
    <2>4. \A i \in 1 .. Len(t) : Len(s) + 1 + i - 1 = Len(s) + i
      BY <1>2
    <2> QED
      BY <2>2, <2>3, <2>4
  <1> HIDE DEF rest
  <1>5. Len(rest) = Len(t)
    BY <1>2, <1>4
  <1>6. \A i \in 1 .. Len(rest) : rest[i] = t[i]
    <2> SUFFICES ASSUME NEW i \in 1 .. Len(t) PROVE rest[i] = t[i]
      BY <1>5
    <2>1. Len(s) + i \in 1 .. Len(s) + Len(t) /\ ~(Len(s) + i <= Len(s)) /\ Len(s) + i - Len(s) = i
      BY <1>2
    <2> QED
      BY <2>1, <1>1, <1>4
  <1>7. rest = t
    BY <1>4, <1>5, <1>6, SeqEqual
  <1> QED
    BY <1>1, <1>7 DEF u, rest
-----------------------------------------------------------------------------
\* A definition at the same place in the chain and in the list.
LEMMA NamesOfInserted ==
    ASSUME NEW s \in Seq(Entries), NEW new \in Seq(Entries), NEW i \in 0 .. Len(s)
    PROVE  /\ inserted(s, i, new) \in Seq(Entries)
           /\ Len(inserted(s, i, new)) = Len(s) + Len(new)
           /\ namesOf(inserted(s, i, new)) = inserted(namesOf(s), i, namesOf(new))
  <1>1. Len(s) \in Nat /\ Len(new) \in Nat /\ Len(namesOf(s)) = Len(s)
    BY LenProperties, NamesType
  <1> DEFINE before == SubSeq(s, 1, i)
             behind == SubSeq(s, i + 1, Len(s))
  <1>2. /\ before \in Seq(Entries) /\ Len(before) = i
        /\ namesOf(before) = SubSeq(namesOf(s), 1, i)
    <2>1. 1 \in 1 .. Len(s) + 1 /\ i \in 0 .. Len(s)
      BY <1>1
    <2>2. /\ before \in Seq(Entries) /\ Len(before) = IF 1 <= i THEN i - 1 + 1 ELSE 0
          /\ namesOf(before) = SubSeq(namesOf(s), 1, i)
      BY <2>1, NamesOfSubSeq
    <2> HIDE DEF before
    <2> QED
      BY <1>1, <2>2
  <1>3. /\ behind \in Seq(Entries) /\ Len(behind) = Len(s) - i
        /\ namesOf(behind) = SubSeq(namesOf(s), i + 1, Len(s))
    <2>1. i + 1 \in 1 .. Len(s) + 1 /\ Len(s) \in 0 .. Len(s)
      BY <1>1
    <2>2. /\ behind \in Seq(Entries)
          /\ Len(behind) = IF i + 1 <= Len(s) THEN Len(s) - (i + 1) + 1 ELSE 0
          /\ namesOf(behind) = SubSeq(namesOf(s), i + 1, Len(s))
      BY <2>1, NamesOfSubSeq
    <2> HIDE DEF behind
    <2> QED
      BY <1>1, <2>2
  <1> HIDE DEF before, behind
  <1>4. /\ before \o new \in Seq(Entries) /\ Len(before \o new) = i + Len(new)
        /\ namesOf(before \o new) = namesOf(before) \o namesOf(new)
    BY <1>2, ConcatProperties, NamesOfConcat
  <1>5. /\ (before \o new) \o behind \in Seq(Entries)
        /\ Len((before \o new) \o behind) = i + Len(new) + (Len(s) - i)
        /\ namesOf((before \o new) \o behind) = (namesOf(before) \o namesOf(new)) \o namesOf(behind)
    <2> DEFINE front == before \o new
    <2>1. front \in Seq(Entries) /\ namesOf(front) = namesOf(before) \o namesOf(new)
      BY <1>4
    <2>2. namesOf(front \o behind) = namesOf(front) \o namesOf(behind)
      BY <1>3, <2>1, NamesOfConcat
    <2>3. front \o behind \in Seq(Entries) /\ Len(front \o behind) = Len(front) + Len(behind)
      BY <1>3, <2>1, ConcatProperties
    <2> QED
      BY <1>3, <1>4, <2>1, <2>2, <2>3
  <1>6. inserted(s, i, new) = (before \o new) \o behind
    BY DEF inserted, before, behind
  <1>7. inserted(namesOf(s), i, namesOf(new)) = (namesOf(before) \o namesOf(new)) \o namesOf(behind)
    BY <1>1, <1>2, <1>3 DEF inserted
  <1>8. i + Len(new) + (Len(s) - i) = Len(s) + Len(new)
    BY <1>1
  <1> QED
    BY <1>5, <1>6, <1>7, <1>8

\* The built-in definitions and their names.
LEMMA BuiltinFacts ==
    /\ builtinEntries \in Seq(Entries)
    /\ namesOf(builtinEntries) = Builtins
    /\ Len(builtinEntries) = Len(Builtins) /\ Len(Builtins) \in Nat
  <1>1. Builtins \in Seq(Names)
    BY BuiltinsAssumption
  <1>2. /\ Len(Builtins) \in Nat /\ DOMAIN Builtins = 1 .. Len(Builtins)
        /\ Builtins \in [1 .. Len(Builtins) -> Names]
    BY <1>1, LenProperties
  <1>3. builtinEntries = [i \in 1 .. Len(Builtins) |-> Entry(Builtins[i], builtin)]
    BY <1>2 DEF builtinEntries
  <1>4. \A i \in 1 .. Len(Builtins) : Entry(Builtins[i], builtin) \in Entries
    BY <1>2 DEF Entry, Entries
  <1>5. builtinEntries \in Seq(Entries) /\ Len(builtinEntries) = Len(Builtins)
    BY <1>2, <1>3, <1>4
  <1>6. /\ namesOf(builtinEntries) \in Seq(Names)
        /\ Len(namesOf(builtinEntries)) = Len(builtinEntries)
        /\ \A i \in 1 .. Len(builtinEntries) : namesOf(builtinEntries)[i] = builtinEntries[i].name
    BY <1>5, NamesType
  <1>7. \A i \in 1 .. Len(Builtins) : namesOf(builtinEntries)[i] = Builtins[i]
    BY <1>3, <1>5, <1>6 DEF Entry
  <1>8. namesOf(builtinEntries) = Builtins
    BY <1>1, <1>5, <1>6, <1>7, SeqEqual
  <1> QED
    BY <1>2, <1>5, <1>8

-----------------------------------------------------------------------------
\* The chain as it is kept: fTailUserEnvironment is one of its entries, and
\* each row has the name of the entry at its place.
ChainInv ==
    /\ entries \in Seq(Entries)
    /\ fTailUserEnvironment \in 0 .. Len(entries)
    /\ RowsMatchEntries

\* The chain after REPL_clear: what the user has is what was asked for.
LEMMA SetEnvironmentFacts ==
    ASSUME NEW user \in Seq(Entries), SetEnvironment(user)
    PROVE  ChainInv' /\ userEnvironment' = user
  <1>1. /\ entries' = builtinEntries \o user
        /\ rows' = Builtins \o namesOf(user)
        /\ fTailUserEnvironment' = Len(Builtins)
    BY DEF SetEnvironment
  <1>2. /\ entries' \in Seq(Entries)
        /\ Len(entries') = Len(Builtins) + Len(user)
    <2> DEFINE first == builtinEntries
    <2>1. first \in Seq(Entries) /\ Len(first) = Len(Builtins)
      BY BuiltinFacts
    <2> HIDE DEF first
    <2>2. first \o user \in Seq(Entries) /\ Len(first \o user) = Len(first) + Len(user)
      BY <2>1, ConcatProperties
    <2> QED
      BY <1>1, <2>1, <2>2 DEF first
  <1>3. namesOf(entries') = rows'
    BY <1>1, BuiltinFacts, NamesOfConcat
  <1>4. userEnvironment' = user
    BY <1>1, BuiltinFacts, BehindConcat DEF userEnvironment
  <1>5. fTailUserEnvironment' \in 0 .. Len(entries')
    <2>1. Len(user) \in Nat
      BY LenProperties
    <2> QED
      BY <1>1, <1>2, <2>1, BuiltinFacts
  <1> QED
    BY <1>2, <1>3, <1>4, <1>5 DEF ChainInv, RowsMatchEntries, namesOf

\* The sentinel alone is a chain without definitions of the user.
LEMMA EmptyUser == <<>> \in Seq(Entries)
  BY EmptySeq

\* A new definition comes to the same place in the chain and in the list.
LEMMA AddFacts ==
    ASSUME ChainInv, NEW new \in Seq(Entries), NEW index \in 0 .. Len(rows),
           AddToEnvironment(new, index)
    PROVE  ChainInv'
  <1>1. /\ entries \in Seq(Entries) /\ Len(entries) \in Nat /\ Len(new) \in Nat
        /\ rows = namesOf(entries) /\ Len(rows) = Len(entries)
        /\ fTailUserEnvironment \in 0 .. Len(entries)
    BY LenProperties, NamesType DEF ChainInv, RowsMatchEntries
  <1>2. index \in 0 .. Len(entries) /\ prevNode(index) = index
    BY <1>1 DEF prevNode, least
  <1>3. /\ rows' = inserted(rows, index, namesOf(new))
        /\ entries' = inserted(entries, index, new)
        /\ \/ fTailUserEnvironment' = fTailUserEnvironment + Len(new)
           \/ fTailUserEnvironment' = fTailUserEnvironment + 0
    BY <1>2 DEF AddToEnvironment
  <1>4. /\ entries' \in Seq(Entries)
        /\ Len(entries') = Len(entries) + Len(new)
        /\ namesOf(entries') = rows'
    BY <1>1, <1>2, <1>3, NamesOfInserted
  <1>5. fTailUserEnvironment' \in 0 .. Len(entries')
    BY <1>1, <1>3, <1>4
  <1> QED
    BY <1>4, <1>5 DEF ChainInv, RowsMatchEntries, namesOf
-----------------------------------------------------------------------------
\* Where the items of a part of a text come from: in order, and all of those that are
\* shown or all of those that are not.
Sources(r, s, n, B_shown) ==
    {h \in [1 .. Len(r) -> 1 .. n] :
        /\ \A i \in 1 .. Len(r) : r[i] = s[h[i]] /\ s[h[i]].shown = B_shown
        /\ \A i, j \in 1 .. Len(r) : i < j => h[i] < h[j]
        /\ \A k \in 1 .. n : s[k].shown = B_shown => \E i \in 1 .. Len(r) : h[i] = k}

LEMMA OnlyFacts ==
    ASSUME NEW S, NEW s \in Seq(S), NEW B_shown
    PROVE  /\ only(s, B_shown) \in Seq(S)
           /\ \E h : h \in Sources(only(s, B_shown), s, Len(s), B_shown)
  <1> DEFINE m == Len(s)
             Q == Seq(S)
             step == [p \in (1 .. m) \X Q |->
                         IF s[p[1]].shown = B_shown THEN Append(p[2], s[p[1]]) ELSE p[2]]
             def(f) == [n \in 0 .. m |->
                           IF n = 0 THEN <<>>
                           ELSE IF s[n].shown = B_shown THEN Append(f[n - 1], s[n])
                           ELSE f[n - 1]]
             kept == CHOOSE f : f = def(f)
  <1>1. m \in Nat /\ \A n \in 1 .. m : s[n] \in S
    BY LenProperties, ElementOfSeq
  <1>2. <<>> \in Q /\ \A r \in Q, e \in S : Append(r, e) \in Q
    BY EmptySeq, AppendProperties
  <1>3. step \in Steps(m, Q)
    <2> HIDE DEF Q, m
    <2> QED
      BY <1>1, <1>2 DEF Steps
  <1>4. kept = def(kept)
    <2> HIDE DEF step, Q, m
    <2>1. PICK g \in Values(m, Q) : Recurses(g, <<>>, step, m)
      BY <1>1, <1>2, <1>3, Recursion
    <2>2. \A n \in 1 .. m : g[n] = IF s[n].shown = B_shown THEN Append(g[n - 1], s[n]) ELSE g[n - 1]
      <3> SUFFICES ASSUME NEW n \in 1 .. m
                   PROVE  g[n] = IF s[n].shown = B_shown THEN Append(g[n - 1], s[n]) ELSE g[n - 1]
        OBVIOUS
      <3>1. n - 1 \in 0 .. m
        BY <1>1
      <3>2. g[n - 1] \in Q /\ g[n] = step[<<n, g[n - 1]>>]
        BY <2>1, <3>1 DEF Values, Recurses
      <3> QED
        BY <3>2 DEF step
    <2>3. g = def(g)
      <3>1. g = [n \in 0 .. m |-> g[n]] /\ g[0] = <<>>
        BY <2>1 DEF Values, Recurses
      <3>2. \A n \in 0 .. m : n # 0 => n \in 1 .. m
        BY <1>1
      <3>3. \A n \in 0 .. m : g[n] = def(g)[n]
        BY <2>2, <3>1, <3>2
      <3>4. def(g) = [n \in 0 .. m |-> def(g)[n]]
        OBVIOUS
      <3> HIDE DEF def
      <3> QED
        BY <3>1, <3>3, <3>4
    <2> QED
      BY <2>3
  <1>5. only(s, B_shown) = kept[m]
    BY DEF only
  <1> HIDE DEF kept, step
  <1> DEFINE good == {n \in 0 .. m : kept[n] \in Q /\ \E h : h \in Sources(kept[n], s, n, B_shown)}
  <1>6. 0 \in good
    <2>1. kept[0] = <<>>
      BY <1>1, <1>4
    <2>2. [i \in 1 .. 0 |-> 0] \in Sources(<<>>, s, 0, B_shown)
      BY DEF Sources
    <2>3. \E h : h \in Sources(kept[0], s, 0, B_shown)
      BY <2>1, <2>2
    <2>4. 0 \in 0 .. m /\ kept[0] \in Q
      BY <1>1, <1>2, <2>1
    <2> QED
      BY <2>3, <2>4
  <1>7. \A n \in 0 .. m - 1 : n \in good => n + 1 \in good
    <2> SUFFICES ASSUME NEW n \in 0 .. m - 1, n \in good
                 PROVE  n + 1 \in good
      OBVIOUS
    <2>1. PICK h : h \in Sources(kept[n], s, n, B_shown)
      OBVIOUS
    <2>2. n + 1 \in 0 .. m /\ n + 1 # 0 /\ (n + 1) - 1 = n /\ n + 1 \in 1 .. m /\ n \in Nat
      BY <1>1
    <2>3. kept[n + 1] = IF s[n + 1].shown = B_shown THEN Append(kept[n], s[n + 1]) ELSE kept[n]
      BY <1>4, <2>2
    <2> DEFINE r == kept[n]
    <2>4. r \in Q /\ Len(r) \in Nat
      BY LenProperties
    <2>5. s[n + 1] \in S
      BY <1>1, <2>2
    <2>6. CASE s[n + 1].shown = B_shown
      <3> DEFINE longer == Append(r, s[n + 1])
                 g == [i \in 1 .. Len(r) + 1 |-> IF i = Len(r) + 1 THEN n + 1 ELSE h[i]]
      <3>1. /\ longer \in Q /\ Len(longer) = Len(r) + 1
            /\ \A i \in 1 .. Len(r) : longer[i] = r[i]
            /\ longer[Len(r) + 1] = s[n + 1]
        BY <2>4, <2>5, AppendProperties
      <3> HIDE DEF longer, r
      <3>2. g \in Sources(longer, s, n + 1, B_shown)
        <4>1. /\ h \in [1 .. Len(r) -> 1 .. n]
              /\ \A i \in 1 .. Len(r) : r[i] = s[h[i]] /\ s[h[i]].shown = B_shown
              /\ \A i, j \in 1 .. Len(r) : i < j => h[i] < h[j]
              /\ \A k \in 1 .. n : s[k].shown = B_shown => \E i \in 1 .. Len(r) : h[i] = k
          BY <2>1 DEF Sources, r
        <4>2. g \in [1 .. Len(longer) -> 1 .. n + 1]
          BY <2>2, <2>4, <3>1, <4>1
        <4>3. \A i \in 1 .. Len(longer) : longer[i] = s[g[i]] /\ s[g[i]].shown = B_shown
          BY <2>4, <2>6, <3>1, <4>1
        <4>4. \A i, j \in 1 .. Len(longer) : i < j => g[i] < g[j]
          <5> SUFFICES ASSUME NEW i \in 1 .. Len(longer), NEW j \in 1 .. Len(longer), i < j
                       PROVE  g[i] < g[j]
            OBVIOUS
          <5>1. i \in 1 .. Len(r) /\ g[i] = h[i] /\ h[i] \in 1 .. n
            <6>1. i \in 1 .. Len(r) /\ i \in 1 .. Len(r) + 1 /\ i # Len(r) + 1
              BY <2>4, <3>1
            <6>2. g[i] = h[i]
              BY <6>1
            <6>3. h[i] \in 1 .. n
              BY <4>1, <6>1
            <6> QED
              BY <6>1, <6>2, <6>3
          <5>2. CASE j = Len(r) + 1
            <6>1. g[j] = n + 1
              BY <3>1, <5>2
            <6> QED
              BY <2>2, <5>1, <6>1
          <5>3. CASE j # Len(r) + 1
            <6>1. j \in 1 .. Len(r) /\ g[j] = h[j]
              BY <2>4, <3>1, <5>3
            <6>2. h[i] < h[j]
              BY <4>1, <5>1, <6>1
            <6> HIDE DEF g
            <6> QED
              BY <5>1, <6>1, <6>2
          <5> QED
            BY <5>2, <5>3
        <4>5. \A k \in 1 .. n + 1 : s[k].shown = B_shown => \E i \in 1 .. Len(longer) : g[i] = k
          <5> SUFFICES ASSUME NEW k \in 1 .. n + 1, s[k].shown = B_shown
                       PROVE  \E i \in 1 .. Len(longer) : g[i] = k
            OBVIOUS
          <5>1. CASE k = n + 1
            <6>1. Len(r) + 1 \in 1 .. Len(longer) /\ g[Len(r) + 1] = n + 1
              BY <2>4, <3>1
            <6> QED
              BY <5>1, <6>1
          <5>2. CASE k # n + 1
            <6>1. PICK i \in 1 .. Len(r) : h[i] = k
              BY <2>2, <4>1, <5>2
            <6>2. i \in 1 .. Len(longer) /\ g[i] = h[i]
              BY <2>4, <3>1
            <6> QED
              BY <6>1, <6>2
          <5> QED
            BY <5>1, <5>2
        <4> QED
          BY <4>2, <4>3, <4>4, <4>5 DEF Sources
      <3> QED
        BY <2>2, <2>3, <2>6, <3>1, <3>2 DEF longer, r
    <2>7. CASE s[n + 1].shown # B_shown
      <3>1. h \in Sources(r, s, n + 1, B_shown)
        BY <2>1, <2>2, <2>4, <2>7 DEF Sources
      <3>2. kept[n + 1] = r
        BY <2>3, <2>7
      <3> QED
        BY <2>2, <2>4, <3>1, <3>2
    <2> QED
      BY <2>6, <2>7
  <1> HIDE DEF good, m
  <1>8. m \in good
    <2>1. \A n \in 0 .. m : n \in good
      BY <1>1, <1>6, <1>7, UpInduction
    <2> QED
      BY <1>1, <2>1
  <1> QED
    BY <1>5, <1>8 DEF good, m
-----------------------------------------------------------------------------
\* The items that a text is made of.
Items == [what : {"input", "arrow", "result", "message", "definition"},
          run : Nat, shown : BOOLEAN, stray : BOOLEAN]

\* Arrows and messages are text: they are inserted at once, and nobody waits
\* for them when the text is cleared.
Proper(item) == item.what \in {"arrow", "message"} => item.shown /\ ~item.stray

\* Two items that stand in the order in which their commands were given.
InOrder(first, second) ==
    /\ ~first.stray /\ ~second.stray
    /\ "definition" \notin {first.what, second.what}
    => \/ first.run < second.run
       \/ first.run = second.run /\ rank(first) <= rank(second)

\* A text of the commands up to a run, in order, with every result behind the
\* arrow of its own command, which is what keeps a result that is passed by a
\* formula of the same command from ever being one behind it.
Readable(items, last) ==
    /\ items \in Seq(Items)
    /\ \A i \in 1 .. Len(items) : Proper(items[i]) /\ items[i].run <= last
    /\ \A i, j \in 1 .. Len(items) : i < j => InOrder(items[i], items[j])
    /\ \A k \in 1 .. Len(items) :
           items[k].what = "result" /\ ~items[k].stray =>
               \E j \in 1 .. k - 1 : items[j].what = "arrow" /\ items[j].run = items[k].run

AllShown(items) == \A i \in 1 .. Len(items) : items[i].shown

LEMMA ReadableEmpty ==
    ASSUME NEW last
    PROVE  Readable(<<>>, last) /\ AllShown(<<>>)
  <1>1. <<>> \in Seq(Items) /\ Len(<<>>) = 0
    BY EmptySeq
  <1> QED
    BY <1>1 DEF Readable, AllShown

\* More commands are given.
LEMMA ReadableLater ==
    ASSUME NEW last \in Nat, NEW items, Readable(items, last)
    PROVE  Readable(items, last + 1)
  <1>1. \A i \in 1 .. Len(items) : items[i] \in Items
    BY ElementOfSeq DEF Readable
  <1>2. \A i \in 1 .. Len(items) : items[i].run \in Nat
    BY <1>1 DEF Items
  <1>3. \A i \in 1 .. Len(items) : items[i].run <= last + 1
    BY <1>2 DEF Readable
  <1> QED
    BY <1>3 DEF Readable

\* What can be seen of a text is a text.
LEMMA ReadableShown ==
    ASSUME NEW last \in Nat, NEW items, Readable(items, last)
    PROVE  Readable(shownOf(items), last) /\ AllShown(shownOf(items))
  <1> DEFINE part == only(items, TRUE)
  <1>1. items \in Seq(Items) /\ Len(items) \in Nat
    BY LenProperties DEF Readable
  <1>2. part \in Seq(Items) /\ Len(part) \in Nat
    BY <1>1, OnlyFacts, LenProperties
  <1>3. PICK h : h \in Sources(part, items, Len(items), TRUE)
    BY <1>1, OnlyFacts
  <1> HIDE DEF part
  <1>4. \A i \in 1 .. Len(part) : h[i] \in 1 .. Len(items) /\ part[i] = items[h[i]] /\ part[i].shown
    BY <1>3 DEF Sources
  <1>5. \A i, j \in 1 .. Len(part) : i < j => h[i] < h[j]
    BY <1>3 DEF Sources
  <1>6. \A k \in 1 .. Len(items) : items[k].shown = TRUE => \E i \in 1 .. Len(part) : h[i] = k
    BY <1>3 DEF Sources
  <1>7. \A i \in 1 .. Len(part) : Proper(part[i]) /\ part[i].run <= last
    BY <1>4 DEF Readable
  <1>8. \A i, j \in 1 .. Len(part) : i < j => InOrder(part[i], part[j])
    BY <1>4, <1>5 DEF Readable
  <1>9. ASSUME NEW k \in 1 .. Len(part), part[k].what = "result", ~part[k].stray
        PROVE  \E j \in 1 .. k - 1 : part[j].what = "arrow" /\ part[j].run = part[k].run
    <2>1. PICK a \in 1 .. h[k] - 1 : items[a].what = "arrow" /\ items[a].run = part[k].run
      BY <1>4, <1>9 DEF Readable
    <2>2. h[k] \in Nat /\ h[k] <= Len(items) /\ a \in 1 .. Len(items) /\ a < h[k]
      BY <1>1, <1>4
    <2>3. items[a] \in Items /\ items[a].shown
      BY <1>1, <2>1, <2>2, ElementOfSeq DEF Readable, Proper
    <2>4. items[a].shown = TRUE
      BY <2>3 DEF Items
    <2>5. PICK j \in 1 .. Len(part) : h[j] = a
      BY <1>6, <2>2, <2>4
    <2>6. j < k
      <3>1. k < j => h[k] < h[j]
        BY <1>5
      <3>2. j = k => h[j] = h[k]
        OBVIOUS
      <3>3. j \in Nat /\ k \in Nat /\ a \in Nat
        BY <2>2
      <3> QED
        BY <2>2, <2>5, <3>1, <3>2, <3>3
    <2>7. j \in 1 .. k - 1 /\ part[j] = items[a]
      BY <1>4, <2>5, <2>6
    <2> QED
      BY <2>1, <2>7
  <1>10. Readable(part, last) /\ AllShown(part)
    BY <1>2, <1>4, <1>7, <1>8, <1>9 DEF Readable, AllShown
  <1> QED
    BY <1>10 DEF shownOf, part

\* A text behind another one.
LEMMA ReadableConcat ==
    ASSUME NEW last \in Nat, NEW s, NEW t, Readable(s, last), Readable(t, last),
           \A i \in 1 .. Len(s), j \in 1 .. Len(t) : InOrder(s[i], t[j])
    PROVE  Readable(s \o t, last)
  <1> DEFINE u == s \o t
  <1>1. s \in Seq(Items) /\ t \in Seq(Items) /\ Len(s) \in Nat /\ Len(t) \in Nat
    BY LenProperties DEF Readable
  <1>2. /\ u \in Seq(Items) /\ Len(u) = Len(s) + Len(t)
        /\ \A i \in 1 .. Len(s) + Len(t) : u[i] = IF i <= Len(s) THEN s[i] ELSE t[i - Len(s)]
    BY <1>1, ConcatProperties
  <1> HIDE DEF u
  <1>3. \A i \in 1 .. Len(u) : \/ i \in 1 .. Len(s) /\ u[i] = s[i]
                               \/ i - Len(s) \in 1 .. Len(t) /\ i > Len(s) /\ u[i] = t[i - Len(s)]
    BY <1>1, <1>2
  <1>4. \A i \in 1 .. Len(u) : Proper(u[i]) /\ u[i].run <= last
    BY <1>3 DEF Readable
  <1>5. ASSUME NEW i \in 1 .. Len(u), NEW j \in 1 .. Len(u), i < j
        PROVE  InOrder(u[i], u[j])
    <2>1. CASE j \in 1 .. Len(s) /\ u[j] = s[j]
      <3>1. i \in 1 .. Len(s) /\ u[i] = s[i]
        BY <1>1, <1>3, <1>5, <2>1
      <3> QED
        BY <1>5, <2>1, <3>1 DEF Readable
    <2>2. CASE j - Len(s) \in 1 .. Len(t) /\ j > Len(s) /\ u[j] = t[j - Len(s)]
      <3>1. CASE i \in 1 .. Len(s) /\ u[i] = s[i]
        BY <2>2, <3>1
      <3>2. CASE i - Len(s) \in 1 .. Len(t) /\ i > Len(s) /\ u[i] = t[i - Len(s)]
        <4>1. i - Len(s) < j - Len(s)
          BY <1>1, <1>2, <1>5
        <4> QED
          BY <2>2, <3>2, <4>1 DEF Readable
      <3> QED
        BY <1>3, <3>1, <3>2
    <2> QED
      BY <1>3, <2>1, <2>2
  <1>6. ASSUME NEW k \in 1 .. Len(u), u[k].what = "result", ~u[k].stray
        PROVE  \E j \in 1 .. k - 1 : u[j].what = "arrow" /\ u[j].run = u[k].run
    <2>1. CASE k \in 1 .. Len(s) /\ u[k] = s[k]
      <3>1. PICK j \in 1 .. k - 1 : s[j].what = "arrow" /\ s[j].run = s[k].run
        BY <1>6, <2>1 DEF Readable
      <3>2. u[j] = s[j]
        BY <1>1, <1>2, <2>1
      <3> QED
        BY <2>1, <3>1, <3>2
    <2>2. CASE k - Len(s) \in 1 .. Len(t) /\ k > Len(s) /\ u[k] = t[k - Len(s)]
      <3>1. PICK j \in 1 .. (k - Len(s)) - 1 : t[j].what = "arrow" /\ t[j].run = u[k].run
        BY <1>6, <2>2 DEF Readable
      <3>2. /\ j + Len(s) \in 1 .. k - 1 /\ j + Len(s) \in 1 .. Len(s) + Len(t)
            /\ ~(j + Len(s) <= Len(s)) /\ (j + Len(s)) - Len(s) = j
        BY <1>1, <1>2, <2>2
      <3>3. u[j + Len(s)] = t[j]
        BY <1>2, <3>2
      <3> QED
        BY <3>1, <3>2, <3>3
    <2> QED
      BY <1>3, <2>1, <2>2
  <1>7. Readable(u, last)
    BY <1>2, <1>4, <1>5, <1>6 DEF Readable
  <1> QED
    BY <1>7 DEF u
-----------------------------------------------------------------------------
\* What GTK leaves of a text that it clears: marks that nobody asks about.
LEMMA ClearedFacts ==
    ASSUME NEW last \in Nat, Readable(text, last), status = "off" => text = <<>>
    PROVE  /\ Readable(clearedGTK, last)
           /\ \A i \in 1 .. Len(clearedGTK) : clearedGTK[i].stray /\ ~clearedGTK[i].shown
  <1> DEFINE marks == only(text, FALSE)
  <1>1. text \in Seq(Items) /\ Len(text) \in Nat
    BY LenProperties DEF Readable
  <1>2. marks \in Seq(Items) /\ Len(marks) \in Nat /\ DOMAIN marks = 1 .. Len(marks)
    BY <1>1, OnlyFacts, LenProperties
  <1>3. PICK h : h \in Sources(marks, text, Len(text), FALSE)
    BY <1>1, OnlyFacts
  <1> DEFINE left == [i \in 1 .. Len(marks) |-> [marks[i] EXCEPT !.stray = TRUE]]
  <1>4. clearedGTK = left
    BY <1>2 DEF clearedGTK
  <1> HIDE DEF marks
  <1>5. \A i \in 1 .. Len(marks) : /\ h[i] \in 1 .. Len(text) /\ marks[i] = text[h[i]]
                                   /\ marks[i].shown = FALSE /\ marks[i] \in Items
    <2>1. \A i \in 1 .. Len(marks) : marks[i] \in Items
      BY <1>2, ElementOfSeq
    <2> QED
      BY <1>3, <2>1 DEF Sources
  <1>6. \A i \in 1 .. Len(marks) : /\ left[i] \in Items /\ left[i].stray = TRUE /\ left[i].shown = FALSE
                                   /\ left[i].what = marks[i].what /\ left[i].run = marks[i].run
    BY <1>5 DEF Items
  <1>7. left \in Seq(Items) /\ Len(left) = Len(marks)
    BY <1>2, <1>6
  <1> HIDE DEF left
  <1>8. \A i \in 1 .. Len(marks) : Proper(left[i]) /\ left[i].run <= last
    BY <1>5, <1>6 DEF Readable, Proper
  <1>9. \A i, j \in 1 .. Len(left) : InOrder(left[i], left[j])
    BY <1>6, <1>7 DEF InOrder
  <1>10. Readable(left, last)
    BY <1>6, <1>7, <1>8, <1>9 DEF Readable
  <1> QED
    BY <1>4, <1>6, <1>7, <1>10

\* A file's text in the window of GTK: only drawings may be missing.
LEMMA AppendedFacts ==
    ASSUME NEW last \in Nat, NEW items, Readable(items, last), AllShown(items), NEW now \in BOOLEAN
    PROVE  /\ Readable(appendedGTK(items, now), last)
           /\ AllShown(appendedGTK(items, now)) => appendedGTK(items, now) = items
  <1> DEFINE in == [i \in 1 .. Len(items) |->
                       [items[i] EXCEPT !.shown = now \/ ~image_P(items[i])]]
  <1>1. items \in Seq(Items) /\ Len(items) \in Nat /\ DOMAIN items = 1 .. Len(items)
    BY LenProperties DEF Readable
  <1>2. appendedGTK(items, now) = in
    BY <1>1 DEF appendedGTK
  <1>3. \A i \in 1 .. Len(items) : items[i] \in Items /\ items[i].shown = TRUE
    <2>1. \A i \in 1 .. Len(items) : items[i] \in Items /\ items[i].shown
      BY <1>1, ElementOfSeq DEF AllShown
    <2> QED
      BY <2>1 DEF Items
  <1>4. \A i \in 1 .. Len(items) :
            /\ in[i] \in Items
            /\ in[i].what = items[i].what /\ in[i].run = items[i].run /\ in[i].stray = items[i].stray
            /\ in[i].shown = (now \/ ~image_P(items[i]))
            /\ in[i].shown = TRUE => in[i] = items[i]
    <2> SUFFICES ASSUME NEW i \in 1 .. Len(items)
                 PROVE  /\ in[i] \in Items
                        /\ in[i].what = items[i].what /\ in[i].run = items[i].run
                        /\ in[i].stray = items[i].stray
                        /\ in[i].shown = (now \/ ~image_P(items[i]))
                        /\ in[i].shown = TRUE => in[i] = items[i]
      OBVIOUS
    <2> DEFINE seen == now \/ ~image_P(items[i])
    <2>1. seen \in BOOLEAN
      BY DEF image_P
    <2>2. in[i] = [items[i] EXCEPT !.shown = seen] /\ items[i] \in Items /\ items[i].shown = TRUE
      BY <1>3
    <2> HIDE DEF in, seen
    <2> QED
      BY <2>1, <2>2 DEF Items, seen
  <1>5. in \in Seq(Items) /\ Len(in) = Len(items)
    BY <1>1, <1>4
  <1> HIDE DEF in
  <1>6. \A i \in 1 .. Len(in) : Proper(in[i]) /\ in[i].run <= last
    BY <1>4, <1>5 DEF Readable, Proper, image_P
  <1>7. \A i, j \in 1 .. Len(in) : i < j => InOrder(in[i], in[j])
    BY <1>4, <1>5 DEF Readable, InOrder, rank
  <1>8. ASSUME NEW k \in 1 .. Len(in), in[k].what = "result", ~in[k].stray
        PROVE  \E j \in 1 .. k - 1 : in[j].what = "arrow" /\ in[j].run = in[k].run
    <2>1. PICK j \in 1 .. k - 1 : items[j].what = "arrow" /\ items[j].run = items[k].run
      BY <1>4, <1>5, <1>8 DEF Readable
    <2>2. j \in 1 .. Len(items)
      BY <1>1, <1>5
    <2> QED
      BY <1>4, <1>5, <2>1, <2>2
  <1>9. Readable(in, last)
    BY <1>5, <1>6, <1>7, <1>8 DEF Readable
  <1>10. AllShown(in) => in = items
    <2> SUFFICES ASSUME AllShown(in) PROVE in = items
      OBVIOUS
    <2>1. \A i \in 1 .. Len(items) : in[i].shown
      BY <1>5 DEF AllShown
    <2>2. \A i \in 1 .. Len(items) : in[i].shown = TRUE
      BY <1>4, <2>1 DEF Items
    <2>3. \A i \in 1 .. Len(in) : in[i] = items[i]
      BY <1>4, <1>5, <2>2
    <2> QED
      BY <1>1, <1>5, <2>3, SeqEqual
  <1> QED
    BY <1>2, <1>9, <1>10
-----------------------------------------------------------------------------
\* The items of a new command, behind a text of earlier ones.
LEMMA NewItems ==
    ASSUME runs \in Nat, Readable(text, runs), NEW new, Readable(new, runs + 1),
           \A j \in 1 .. Len(new) : new[j].run = runs + 1
    PROVE  Readable(text \o new, runs + 1)
  <1>1. Readable(text, runs + 1)
    BY ReadableLater
  <1>2. \A i \in 1 .. Len(text) : text[i] \in Items /\ text[i].run <= runs
    BY ElementOfSeq DEF Readable
  <1>3. \A i \in 1 .. Len(text) : text[i].run < runs + 1
    BY <1>2 DEF Items
  <1>4. \A i \in 1 .. Len(text), j \in 1 .. Len(new) : InOrder(text[i], new[j])
    BY <1>3 DEF InOrder
  <1> QED
    BY <1>1, <1>4, ReadableConcat

\* A single item of a new command.
LEMMA ItemFacts ==
    ASSUME runs \in Nat, NEW what \in {"input", "arrow", "result", "message", "definition"},
           NEW shown \in BOOLEAN, what \in {"arrow", "message"} => shown
    PROVE  /\ Item(what, shown) \in Items
           /\ Item(what, shown).what = what /\ Item(what, shown).run = runs + 1
           /\ Item(what, shown).shown = shown /\ Proper(Item(what, shown))
  BY DEF Item, Items, Proper

\* What is not a result behind a text.
LEMMA OneItem ==
    ASSUME runs \in Nat, Readable(text, runs),
           NEW what \in {"input", "message", "definition"},
           NEW shown \in BOOLEAN, what = "message" => shown
    PROVE  /\ Readable(<<Item(what, shown)>>, runs + 1)
           /\ Readable(text \o <<Item(what, shown)>>, runs + 1)
           /\ text \o <<Item(what, shown)>> = Append(text, Item(what, shown))
  <1> DEFINE x == Item(what, shown)
             new == <<x>>
  <1>1. x \in Items /\ x.what = what /\ x.run = runs + 1 /\ Proper(x)
    BY ItemFacts
  <1> HIDE DEF x
  <1>2. new \in Seq(Items) /\ Len(new) = 1 /\ new[1] = x
    BY <1>1
  <1>3. Readable(new, runs + 1)
    BY <1>1, <1>2 DEF Readable
  <1>4. \A j \in 1 .. Len(new) : new[j].run = runs + 1
    BY <1>1, <1>2
  <1>5. text \in Seq(Items)
    BY DEF Readable
  <1>6. text \o new = Append(text, x)
    BY <1>1, <1>5, AppendIsConcat
  <1> HIDE DEF new
  <1>7. Readable(text \o new, runs + 1)
    BY <1>3, <1>4, NewItems
  <1> QED
    BY <1>3, <1>6, <1>7 DEF new, x
\* What a command prints.
LEMMA PrintedFacts ==
    ASSUME runs \in Nat, Readable(text, runs), NEW command, NEW B_from_entry,
           NEW new \in printed(command, B_from_entry)
    PROVE  Readable(text \o new, runs + 1)
  <1> DEFINE message == Item("message", TRUE)
             arrow == Item("arrow", TRUE)
             result(now) == Item("result", now)
             input(now) == Item("input", now)
             Output(items) ==
                 /\ Readable(items, runs + 1)
                 /\ \A j \in 1 .. Len(items) : items[j].run = runs + 1
  <1>1. /\ drawn \subseteq BOOLEAN
        /\ message \in Items /\ message.what = "message" /\ message.run = runs + 1 /\ Proper(message)
        /\ arrow \in Items /\ arrow.what = "arrow" /\ arrow.run = runs + 1 /\ Proper(arrow)
        /\ \A now \in BOOLEAN :
               /\ result(now) \in Items /\ result(now).what = "result"
               /\ result(now).run = runs + 1 /\ Proper(result(now))
               /\ input(now) \in Items /\ input(now).what = "input"
               /\ input(now).run = runs + 1 /\ Proper(input(now))
    BY ItemFacts DEF drawn, drawnGTK, drawnWIN32
  <1> HIDE DEF message, arrow, result, input
  <1>2. Output(<<message>>)
    BY <1>1 DEF Readable
  <1>3. ASSUME NEW x \in Items, x.what \in {"result", "message"}, x.run = runs + 1, Proper(x)
        PROVE  Output(<<arrow, x>>)
    <2> DEFINE two == <<arrow, x>>
    <2>1. two \in Seq(Items) /\ Len(two) = 2 /\ two[1] = arrow /\ two[2] = x
      BY <1>1, <1>3
    <2> HIDE DEF two
    <2>2. \A i \in 1 .. Len(two) : two[i] = arrow \/ two[i] = x
      BY <2>1
    <2>3. InOrder(two[1], two[2])
      BY <1>1, <1>3, <2>1 DEF InOrder, rank
    <2>4. \A i, j \in 1 .. Len(two) : i < j => i = 1 /\ j = 2
      BY <2>1
    <2>5. \A k \in 1 .. Len(two) : two[k].what = "result" => 1 \in 1 .. k - 1
      <3> SUFFICES ASSUME NEW k \in 1 .. Len(two), two[k].what = "result" PROVE k # 1
        BY <2>1
      <3> QED
        BY <1>1, <2>1
    <2>6. \A i \in 1 .. Len(two) : two[i].run = runs + 1 /\ Proper(two[i])
      BY <1>1, <1>3, <2>2
    <2>7. Readable(two, runs + 1)
      <3>1. \A i \in 1 .. Len(two) : Proper(two[i]) /\ two[i].run <= runs + 1
        BY <2>6
      <3>2. \A i, j \in 1 .. Len(two) : i < j => InOrder(two[i], two[j])
        BY <2>3, <2>4
      <3>3. \A k \in 1 .. Len(two) :
                two[k].what = "result" /\ ~two[k].stray =>
                    \E j \in 1 .. k - 1 : two[j].what = "arrow" /\ two[j].run = two[k].run
        BY <1>1, <2>1, <2>5, <2>6
      <3> QED
        BY <2>1, <3>1, <3>2, <3>3 DEF Readable
    <2> QED
      BY <2>6, <2>7 DEF two
  <1>4. \A rest \in answer(command) : Output(rest)
    <2> SUFFICES ASSUME NEW rest \in answer(command) PROVE Output(rest)
      OBVIOUS
    <2>1. CASE command.ends
      <3>1. PICK now \in drawn : rest = <<arrow, result(now)>>
        BY <2>1 DEF answer, arrow, result
      <3>2. Output(<<arrow, result(now)>>)
        BY <1>1, <1>3
      <3> QED
        BY <3>1, <3>2
    <2>2. CASE ~command.ends
      <3>1. rest = <<arrow, message>>
        BY <2>2 DEF answer, arrow, message
      <3>2. Output(<<arrow, message>>)
        BY <1>1, <1>3
      <3> QED
        BY <3>1, <3>2
    <2> QED
      BY <2>1, <2>2
  <1>5. ASSUME NEW now \in BOOLEAN, NEW rest, Output(rest)
        PROVE  Output(<<input(now)>> \o rest)
    <2> DEFINE first == <<input(now)>>
    <2>1. first \in Seq(Items) /\ Len(first) = 1 /\ first[1] = input(now)
      BY <1>1
    <2> HIDE DEF first
    <2>2. Readable(first, runs + 1)
      <3>1. \A i \in 1 .. Len(first) : first[i] = input(now)
        BY <2>1
      <3>2. \A i, j \in 1 .. Len(first) : ~(i < j)
        BY <2>1
      <3> QED
        BY <1>1, <2>1, <3>1, <3>2 DEF Readable
    <2>3. \A j \in 1 .. Len(rest) : rest[j] \in Items /\ rest[j].run = runs + 1
      BY <1>5, ElementOfSeq DEF Readable
    <2>4. \A j \in 1 .. Len(rest) : rank(rest[j]) \in {1, 2, 3}
      BY DEF rank
    <2>5. \A i \in 1 .. Len(first), j \in 1 .. Len(rest) : InOrder(first[i], rest[j])
      <3> SUFFICES ASSUME NEW i \in 1 .. Len(first), NEW j \in 1 .. Len(rest)
                   PROVE  first[i].run = rest[j].run /\ rank(first[i]) <= rank(rest[j])
        BY DEF InOrder
      <3>1. first[i] = input(now) /\ rank(first[i]) = 1
        BY <1>1, <2>1 DEF rank
      <3> QED
        BY <1>1, <2>3, <2>4, <3>1
    <2>6. Readable(first \o rest, runs + 1)
      <3>1. runs + 1 \in Nat /\ Readable(rest, runs + 1)
        BY <1>5
      <3> HIDE DEF Output
      <3> QED
        BY <2>2, <2>5, <3>1, ReadableConcat
    <2>7. \A j \in 1 .. Len(first \o rest) : (first \o rest)[j].run = runs + 1
      <3>1. rest \in Seq(Items) /\ Len(rest) \in Nat
        BY <1>5, LenProperties DEF Readable
      <3>2. /\ Len(first \o rest) = 1 + Len(rest)
            /\ \A j \in 1 .. 1 + Len(rest) : (first \o rest)[j] = IF j <= 1 THEN first[j] ELSE rest[j - 1]
        <4>1. /\ Len(first \o rest) = Len(first) + Len(rest)
              /\ \A j \in 1 .. Len(first) + Len(rest) :
                     (first \o rest)[j] = IF j <= Len(first) THEN first[j] ELSE rest[j - Len(first)]
          BY <2>1, <3>1, ConcatProperties
        <4> QED
          BY <2>1, <4>1
      <3> DEFINE both == first \o rest
      <3> HIDE DEF both
      <3>3. ASSUME NEW j \in 1 .. 1 + Len(rest) PROVE both[j].run = runs + 1
        <4>1. CASE j <= 1
          BY <1>1, <2>1, <3>1, <3>2, <4>1 DEF both
        <4>2. CASE ~(j <= 1)
          <5>1. j - 1 \in 1 .. Len(rest) /\ both[j] = rest[j - 1]
            BY <3>1, <3>2, <4>2 DEF both
          <5> QED
            BY <2>3, <5>1
        <4> QED
          BY <4>1, <4>2
      <3> QED
        BY <3>2, <3>3 DEF both
    <2> QED
      BY <2>6, <2>7 DEF first
  <1>6. Output(new)
    <2>1. CASE new = <<message>>
      BY <1>2, <2>1
    <2>2. CASE new \in answer(command)
      BY <1>4, <2>2
    <2>3. CASE \E now \in drawn, rest \in answer(command) : new = <<input(now)>> \o rest
      <3>1. PICK now \in drawn, rest \in answer(command) : new = <<input(now)>> \o rest
        BY <2>3
      <3>2. now \in BOOLEAN /\ Output(rest)
        BY <1>1, <1>4
      <3>3. Output(<<input(now)>> \o rest)
        BY <1>5, <3>2
      <3> QED
        BY <3>1, <3>3
    <2>4. \/ new = <<message>>
          \/ new \in answer(command)
          \/ \E now \in drawn, rest \in answer(command) : new = <<input(now)>> \o rest
      <3>1. CASE ~command.parses
        <4>1. printed(command, B_from_entry) = {<<message>>}
          BY <3>1 DEF printed, message
        <4> QED
          BY <4>1
      <3>2. CASE command.parses /\ ~B_from_entry
        <4>1. printed(command, B_from_entry) = answer(command)
          BY <3>2 DEF printed
        <4> QED
          BY <4>1
      <3>3. CASE command.parses /\ B_from_entry
        <4>1. printed(command, B_from_entry)
              = {<<input(now)>> \o rest : now \in drawn, rest \in answer(command)}
          BY <3>3 DEF printed, input
        <4> QED
          BY <4>1
      <3> QED
        BY <3>1, <3>2, <3>3
    <2> QED
      BY <2>1, <2>2, <2>3, <2>4
  <1> QED
    BY <1>6, NewItems
-----------------------------------------------------------------------------
\* The place of a mark ends somewhere.
LEMMA LastAtFacts ==
    ASSUME text \in Seq(Items), NEW i \in 1 .. Len(text)
    PROVE  /\ lastAt(i) \in i .. Len(text)
           /\ \A k \in i + 1 .. lastAt(i) : samePlace_P(text[k])
  <1> DEFINE m == Len(text) - i
             IsEnd(j) == /\ \A k \in i + 1 .. j : samePlace_P(text[k])
                         /\ j < Len(text) => ~samePlace_P(text[j + 1])
             upTo == {d \in 0 .. m : \A k \in i + 1 .. i + d : samePlace_P(text[k])}
  <1>1. Len(text) \in Nat /\ m \in Nat /\ i + m = Len(text)
    BY LenProperties
  <1>2. \E j \in i .. Len(text) : IsEnd(j)
    <2> SUFFICES ASSUME \A j \in i .. Len(text) : ~IsEnd(j)
                 PROVE  FALSE
      OBVIOUS
    <2>1. 0 \in upTo
      BY <1>1
    <2>2. ASSUME NEW d \in 0 .. m - 1, d \in upTo
          PROVE  d + 1 \in upTo
      <3>1. i + d \in i .. Len(text) /\ i + d < Len(text) /\ d + 1 \in 0 .. m
        BY <1>1
      <3>2. samePlace_P(text[i + d + 1])
        BY <2>2, <3>1
      <3>3. \A k \in i + 1 .. i + (d + 1) : k \in i + 1 .. i + d \/ k = i + d + 1
        BY <1>1
      <3>4. \A k \in i + 1 .. i + (d + 1) : samePlace_P(text[k])
        BY <2>2, <3>2, <3>3
      <3> QED
        BY <3>1, <3>4
    <2> HIDE DEF m, upTo
    <2>3. \A d \in 0 .. m : d \in upTo
      BY <1>1, <2>1, <2>2, UpInduction
    <2>4. m \in upTo
      BY <1>1, <2>3
    <2>5. IsEnd(i + m) /\ i + m \in i .. Len(text)
      BY <1>1, <2>4 DEF upTo
    <2> QED
      BY <2>5
  <1>3. lastAt(i) = CHOOSE j \in i .. Len(text) : IsEnd(j)
    BY DEF lastAt
  <1> HIDE DEF IsEnd
  <1>4. lastAt(i) \in i .. Len(text) /\ IsEnd(lastAt(i))
    BY <1>2, <1>3
  <1> QED
    BY <1>4 DEF IsEnd

\* An item is taken out and put in again further behind.
moved(s, i, l, x) ==
    SubSeq(s, 1, i - 1) \o SubSeq(s, i + 1, l) \o <<x>> \o SubSeq(s, l + 1, Len(s))
IsMoved(u, S, s, i, l, x) ==
    /\ u \in Seq(S) /\ Len(u) = Len(s)
    /\ u[l] = x
    /\ \A k \in 1 .. i - 1 : u[k] = s[k]
    /\ \A k \in i .. l - 1 : u[k] = s[k + 1]
    /\ \A k \in l + 1 .. Len(s) : u[k] = s[k]

LEMMA MovedFacts ==
    ASSUME NEW S, NEW s \in Seq(S), NEW i \in 1 .. Len(s), NEW l \in i .. Len(s), NEW x \in S
    PROVE  IsMoved(moved(s, i, l, x), S, s, i, l, x)
  <1> DEFINE u == moved(s, i, l, x)
             a == SubSeq(s, 1, i - 1)
             b == SubSeq(s, i + 1, l)
             c == SubSeq(s, l + 1, Len(s))
             xs == <<x>>
  <1>1. Len(s) \in Nat /\ i \in Int /\ l \in Int /\ 1 <= i /\ i <= l /\ l <= Len(s)
    BY LenProperties
  <1>2. \A k \in 1 .. Len(s) : s[k] \in S
    BY ElementOfSeq
  <1>3. a \in Seq(S) /\ Len(a) = i - 1 /\ \A k \in 1 .. i - 1 : a[k] = s[k]
    <2>1. \A k \in 1 .. i - 1 : s[k] \in S
      BY <1>1, <1>2
    <2>2. /\ a \in Seq(S)
          /\ Len(a) = IF 1 <= i - 1 THEN (i - 1) - 1 + 1 ELSE 0
          /\ \A k \in 1 .. (i - 1) - 1 + 1 : a[k] = s[1 + k - 1]
      BY <1>1, <2>1, SubSeqProperties
    <2> HIDE DEF a
    <2> QED
      BY <1>1, <2>2
  <1>4. b \in Seq(S) /\ Len(b) = l - i /\ \A k \in 1 .. l - i : b[k] = s[i + k]
    <2>1. \A k \in i + 1 .. l : s[k] \in S
      BY <1>1, <1>2
    <2>2. /\ b \in Seq(S)
          /\ Len(b) = IF i + 1 <= l THEN l - (i + 1) + 1 ELSE 0
          /\ \A k \in 1 .. l - (i + 1) + 1 : b[k] = s[i + 1 + k - 1]
      BY <1>1, <2>1, SubSeqProperties
    <2> HIDE DEF b
    <2>3. \A k \in 1 .. l - i : k \in 1 .. l - (i + 1) + 1 /\ i + 1 + k - 1 = i + k
      BY <1>1
    <2> QED
      BY <1>1, <2>2, <2>3
  <1>5. c \in Seq(S) /\ Len(c) = Len(s) - l /\ \A k \in 1 .. Len(s) - l : c[k] = s[l + k]
    <2>1. \A k \in l + 1 .. Len(s) : s[k] \in S
      BY <1>1, <1>2
    <2>2. /\ c \in Seq(S)
          /\ Len(c) = IF l + 1 <= Len(s) THEN Len(s) - (l + 1) + 1 ELSE 0
          /\ \A k \in 1 .. Len(s) - (l + 1) + 1 : c[k] = s[l + 1 + k - 1]
      BY <1>1, <2>1, SubSeqProperties
    <2> HIDE DEF c
    <2>3. \A k \in 1 .. Len(s) - l : k \in 1 .. Len(s) - (l + 1) + 1 /\ l + 1 + k - 1 = l + k
      BY <1>1
    <2>4. Len(c) = Len(s) - l
      BY <1>1, <2>2
    <2>5. \A k \in 1 .. Len(s) - l : c[k] = s[l + k]
      BY <2>2, <2>3
    <2> QED
      BY <2>2, <2>4, <2>5
  <1>6. xs \in Seq(S) /\ Len(xs) = 1 /\ xs[1] = x
    OBVIOUS
  <1> HIDE DEF a, b, c, xs
  <1> DEFINE ab == a \o b
             abx == ab \o xs
  <1>7. /\ ab \in Seq(S) /\ Len(ab) = l - 1
        /\ \A k \in 1 .. l - 1 : ab[k] = IF k <= i - 1 THEN a[k] ELSE b[k - (i - 1)]
    <2>1. /\ ab \in Seq(S) /\ Len(ab) = (i - 1) + (l - i)
          /\ \A k \in 1 .. (i - 1) + (l - i) : ab[k] = IF k <= i - 1 THEN a[k] ELSE b[k - (i - 1)]
      <3>1. /\ ab \in Seq(S) /\ Len(ab) = Len(a) + Len(b)
            /\ \A k \in 1 .. Len(a) + Len(b) : ab[k] = IF k <= Len(a) THEN a[k] ELSE b[k - Len(a)]
        BY <1>3, <1>4, ConcatProperties
      <3> HIDE DEF ab
      <3> QED
        BY <1>3, <1>4, <3>1
    <2> HIDE DEF ab
    <2>2. (i - 1) + (l - i) = l - 1
      BY <1>1
    <2> QED
      BY <2>1, <2>2
  <1> HIDE DEF ab
  <1>8. /\ abx \in Seq(S) /\ Len(abx) = l
        /\ \A k \in 1 .. l : abx[k] = IF k <= l - 1 THEN ab[k] ELSE xs[k - (l - 1)]
    <2>1. /\ abx \in Seq(S) /\ Len(abx) = (l - 1) + 1
          /\ \A k \in 1 .. (l - 1) + 1 : abx[k] = IF k <= l - 1 THEN ab[k] ELSE xs[k - (l - 1)]
      <3>1. /\ abx \in Seq(S) /\ Len(abx) = Len(ab) + Len(xs)
            /\ \A k \in 1 .. Len(ab) + Len(xs) :
                   abx[k] = IF k <= Len(ab) THEN ab[k] ELSE xs[k - Len(ab)]
        BY <1>6, <1>7, ConcatProperties
      <3> HIDE DEF abx
      <3> QED
        BY <1>6, <1>7, <3>1
    <2> HIDE DEF abx
    <2>2. (l - 1) + 1 = l
      BY <1>1
    <2> QED
      BY <2>1, <2>2
  <1> HIDE DEF abx
  <1>9. /\ u \in Seq(S) /\ Len(u) = Len(s)
        /\ \A k \in 1 .. Len(s) : u[k] = IF k <= l THEN abx[k] ELSE c[k - l]
    <2>1. /\ abx \o c \in Seq(S) /\ Len(abx \o c) = l + (Len(s) - l)
          /\ \A k \in 1 .. l + (Len(s) - l) : (abx \o c)[k] = IF k <= l THEN abx[k] ELSE c[k - l]
      <3>1. /\ abx \o c \in Seq(S) /\ Len(abx \o c) = Len(abx) + Len(c)
            /\ \A k \in 1 .. Len(abx) + Len(c) :
                   (abx \o c)[k] = IF k <= Len(abx) THEN abx[k] ELSE c[k - Len(abx)]
        BY <1>5, <1>8, ConcatProperties
      <3> QED
        BY <1>5, <1>8, <3>1
    <2>2. l + (Len(s) - l) = Len(s)
      BY <1>1
    <2>3. u = abx \o c
      BY DEF a, b, c, xs, ab, abx, moved
    <2> QED
      BY <2>1, <2>2, <2>3
  <1>10. u[l] = x
    <2>1. l \in 1 .. Len(s) /\ l \in 1 .. l /\ l <= l /\ ~(l <= l - 1) /\ l - (l - 1) = 1
      BY <1>1
    <2>2. u[l] = abx[l]
      BY <1>9, <2>1
    <2>3. abx[l] = xs[l - (l - 1)]
      BY <1>8, <2>1
    <2> QED
      BY <1>6, <2>1, <2>2, <2>3
  <1>11. ASSUME NEW k \in 1 .. i - 1 PROVE u[k] = s[k]
    <2>1. k \in 1 .. Len(s) /\ k <= l /\ k \in 1 .. l /\ k <= l - 1 /\ k \in 1 .. l - 1 /\ k <= i - 1
      BY <1>1
    <2>2. u[k] = abx[k] /\ abx[k] = ab[k] /\ ab[k] = a[k]
      BY <1>7, <1>8, <1>9, <2>1
    <2> QED
      BY <1>3, <2>2
  <1>12. ASSUME NEW k \in i .. l - 1 PROVE u[k] = s[k + 1]
    <2>1. /\ k \in 1 .. Len(s) /\ k <= l /\ k \in 1 .. l /\ k <= l - 1 /\ k \in 1 .. l - 1 /\ ~(k <= i - 1)
          /\ k - (i - 1) \in 1 .. l - i /\ i + (k - (i - 1)) = k + 1
      BY <1>1
    <2>2. u[k] = abx[k] /\ abx[k] = ab[k] /\ ab[k] = b[k - (i - 1)]
      BY <1>7, <1>8, <1>9, <2>1
    <2>3. b[k - (i - 1)] = s[k + 1]
      BY <1>4, <2>1
    <2> QED
      BY <2>2, <2>3
  <1>13. ASSUME NEW k \in l + 1 .. Len(s) PROVE u[k] = s[k]
    <2>1. k \in 1 .. Len(s) /\ ~(k <= l) /\ k - l \in 1 .. Len(s) - l /\ l + (k - l) = k
      BY <1>1
    <2> QED
      BY <1>5, <1>9, <2>1
  <1> QED
    BY <1>9, <1>10, <1>11, <1>12, <1>13 DEF IsMoved

\* An item that a drawing passes is of the same command and stays behind
\* nothing that it should be before: its arrow, which is shown, is before both.
LEMMA PassedFacts ==
    ASSUME NEW last \in Nat, Readable(text, last), NEW i \in 1 .. Len(text), ~text[i].shown,
           NEW q \in i + 1 .. lastAt(i)
    PROVE  InOrder(text[q], text[i])
  <1>1. text \in Seq(Items) /\ Len(text) \in Nat
    BY LenProperties DEF Readable
  <1>2. lastAt(i) \in i .. Len(text) /\ \A k \in i + 1 .. lastAt(i) : samePlace_P(text[k])
    BY <1>1, LastAtFacts
  <1>3. q \in 1 .. Len(text) /\ i < q /\ i \in Nat /\ q \in Nat
    BY <1>1, <1>2
  <1>4. \A k \in 1 .. Len(text) : text[k] \in Items /\ Proper(text[k])
    BY <1>1, ElementOfSeq DEF Readable
  <1> SUFFICES ASSUME ~text[q].stray, ~text[i].stray,
                      "definition" \notin {text[q].what, text[i].what}
               PROVE  text[q].run = text[i].run /\ rank(text[q]) <= rank(text[i])
    BY DEF InOrder
  <1>5. text[q].what = "result"
    BY <1>2, <1>3, <1>4 DEF samePlace_P, Proper, Items
  <1>6. text[i].what \in {"input", "result"}
    BY <1>4 DEF Proper, Items
  <1>7. PICK j \in 1 .. q - 1 : text[j].what = "arrow" /\ text[j].run = text[q].run
    BY <1>3, <1>5 DEF Readable
  <1>8. j \in 1 .. Len(text) /\ j \in Nat /\ j < q
    BY <1>1, <1>3
  <1>9. text[j].shown /\ ~text[j].stray
    BY <1>4, <1>7, <1>8 DEF Proper
  <1>10. j < i
    <2>1. j # i
      BY <1>9
    <2>2. j \notin i + 1 .. lastAt(i)
      BY <1>2, <1>9 DEF samePlace_P
    <2>3. q <= lastAt(i) /\ lastAt(i) \in Nat
      BY <1>1, <1>2
    <2> QED
      BY <1>3, <1>8, <2>1, <2>2, <2>3
  <1>11. InOrder(text[j], text[i]) /\ InOrder(text[i], text[q])
    BY <1>3, <1>8, <1>10 DEF Readable
  <1>12. text[q].run < text[i].run \/ (text[q].run = text[i].run /\ 2 <= rank(text[i]))
    <2>1. rank(text[j]) = 2
      BY <1>7 DEF rank
    <2> QED
      BY <1>6, <1>7, <1>9, <1>11, <2>1 DEF InOrder
  <1>13. text[i].run < text[q].run \/ text[i].run = text[q].run
    BY <1>5, <1>6, <1>11 DEF InOrder
  <1>14. text[i].run \in Nat /\ text[q].run \in Nat
    BY <1>3, <1>4 DEF Items
  <1>15. text[q].run = text[i].run /\ 2 <= rank(text[i])
    BY <1>12, <1>13, <1>14
  <1>16. text[i].what = "result"
    <2>1. text[i].what = "input" => rank(text[i]) = 1
      BY DEF rank
    <2> QED
      BY <1>6, <1>15, <2>1
  <1>17. rank(text[q]) = 3 /\ rank(text[i]) = 3
    BY <1>5, <1>16 DEF rank
  <1> QED
    BY <1>15, <1>17

\* A drawing that is done leaves the text readable.
LEMMA DrawnFacts ==
    ASSUME NEW last \in Nat, Readable(text, last), NEW i \in 1 .. Len(text), ~text[i].shown
    PROVE  Readable(withImage(i), last)
  <1> DEFINE n == Len(text)
             l == lastAt(i)
             x == [text[i] EXCEPT !.shown = TRUE]
             u == withImage(i)
             old(k) == IF k < i \/ l < k THEN k ELSE IF k = l THEN i ELSE k + 1
  <1>1. text \in Seq(Items) /\ n \in Nat
    BY LenProperties DEF Readable
  <1>2. l \in i .. n /\ \A k \in i + 1 .. l : samePlace_P(text[k])
    BY <1>1, LastAtFacts
  <1>3. i \in Nat /\ l \in Nat /\ 1 <= i /\ i <= l /\ l <= n
    BY <1>1, <1>2
  <1>4. \A k \in 1 .. n : text[k] \in Items /\ Proper(text[k]) /\ text[k].run <= last
    BY <1>1, ElementOfSeq DEF Readable
  <1>5. /\ x \in Items /\ x.what = text[i].what /\ x.run = text[i].run /\ x.stray = text[i].stray
        /\ x.shown = TRUE
    BY <1>4 DEF Items
  <1>6. /\ u \in Seq(Items) /\ Len(u) = n /\ u[l] = x
        /\ \A k \in 1 .. i - 1 : u[k] = text[k]
        /\ \A k \in i .. l - 1 : u[k] = text[k + 1]
        /\ \A k \in l + 1 .. n : u[k] = text[k]
    <2>1. u = moved(text, i, l, x)
      BY DEF withImage, moved
    <2>2. i \in 1 .. Len(text) /\ l \in i .. Len(text) /\ x \in Items /\ text \in Seq(Items)
      BY <1>1, <1>2, <1>5
    <2> HIDE DEF x, u, l
    <2>3. IsMoved(u, Items, text, i, l, x)
      BY <2>1, <2>2, MovedFacts
    <2> QED
      BY <2>3 DEF IsMoved
  <1> HIDE DEF u, x, l
  <1>7. ASSUME NEW k \in 1 .. n
        PROVE  /\ old(k) \in 1 .. n /\ u[k].what = text[old(k)].what /\ u[k].run = text[old(k)].run
               /\ u[k].stray = text[old(k)].stray
               /\ k # l => u[k] = text[old(k)]
    <2>1. CASE k < i \/ l < k
      <3>1. old(k) = k
        BY <2>1
      <3>2. u[k] = text[k]
        BY <1>1, <1>3, <1>6, <2>1
      <3> QED
        BY <3>1, <3>2
    <2>2. CASE k = l
      <3>1. old(k) = i
        BY <1>3, <2>2
      <3> QED
        BY <1>1, <1>3, <1>5, <1>6, <2>2, <3>1
    <2>3. CASE k \in i .. l - 1
      <3>1. old(k) = k + 1
        BY <1>3, <2>3
      <3>2. u[k] = text[k + 1] /\ k + 1 \in 1 .. n
        BY <1>1, <1>3, <1>6, <2>3
      <3> QED
        BY <3>1, <3>2
    <2> QED
      BY <1>1, <1>3, <2>1, <2>2, <2>3
  <1>8. \A k \in 1 .. n : Proper(u[k]) /\ u[k].run <= last
    <2> SUFFICES ASSUME NEW k \in 1 .. n PROVE Proper(u[k]) /\ u[k].run <= last
      OBVIOUS
    <2>1. CASE k # l
      BY <1>4, <1>7, <2>1
    <2>2. CASE k = l
      <3>1. text[i].what \notin {"arrow", "message"}
        BY <1>4 DEF Proper
      <3> QED
        BY <1>4, <1>5, <1>6, <2>2, <3>1 DEF Proper
    <2> QED
      BY <2>1, <2>2
  <1>9. ASSUME NEW k \in 1 .. n, NEW m \in 1 .. n, k < m
        PROVE  InOrder(u[k], u[m])
    <2>1. InOrder(text[old(k)], text[old(m)])
      <3>1. CASE m = l /\ k \in i .. l - 1
        <4>1. old(m) = i /\ old(k) = k + 1 /\ k + 1 \in i + 1 .. l
          BY <1>3, <3>1
        <4>2. InOrder(text[k + 1], text[i])
          BY <4>1, PassedFacts DEF l
        <4> QED
          BY <4>1, <4>2
      <3>2. CASE ~(m = l /\ k \in i .. l - 1)
        <4>1. old(k) < old(m)
          BY <1>1, <1>3, <1>9, <3>2
        <4>2. old(k) \in 1 .. n /\ old(m) \in 1 .. n
          BY <1>7
        <4> HIDE DEF old
        <4> QED
          BY <4>1, <4>2 DEF Readable
      <3> QED
        BY <3>1, <3>2
    <2> HIDE DEF old
    <2>2. /\ u[k].what = text[old(k)].what /\ u[k].run = text[old(k)].run /\ u[k].stray = text[old(k)].stray
          /\ u[m].what = text[old(m)].what /\ u[m].run = text[old(m)].run /\ u[m].stray = text[old(m)].stray
      BY <1>7
    <2>3. rank(u[k]) = rank(text[old(k)]) /\ rank(u[m]) = rank(text[old(m)])
      BY <2>2 DEF rank
    <2> QED
      BY <2>1, <2>2, <2>3 DEF InOrder
  <1>10. ASSUME NEW k \in 1 .. n, u[k].what = "result", ~u[k].stray
         PROVE  \E j \in 1 .. k - 1 : u[j].what = "arrow" /\ u[j].run = u[k].run
    <2>1. old(k) \in 1 .. n /\ text[old(k)].what = "result" /\ ~text[old(k)].stray
          /\ text[old(k)].run = u[k].run
      BY <1>7, <1>10
    <2>2. PICK j \in 1 .. old(k) - 1 : text[j].what = "arrow" /\ text[j].run = u[k].run
      <3> HIDE DEF old
      <3> QED
        BY <2>1 DEF Readable
    <2>3. j \in 1 .. n /\ j < old(k)
      <3> HIDE DEF old
      <3> QED
        BY <1>1, <2>1
    <2>4. text[j].shown
      BY <1>4, <2>2, <2>3 DEF Proper
    <2>5. j # i /\ j \notin i + 1 .. l
      BY <1>2, <2>4 DEF samePlace_P
    <2>6. j < i \/ l < j
      BY <1>1, <1>3, <2>3, <2>5
    <2>7. u[j] = text[j]
      BY <1>1, <1>3, <1>6, <2>3, <2>6
    <2>8. j \in 1 .. k - 1
      BY <1>1, <1>3, <2>3, <2>6
    <2> QED
      BY <2>2, <2>7, <2>8
  <1>11. Readable(u, last)
    BY <1>6, <1>8, <1>9, <1>10 DEF Readable
  <1> QED
    BY <1>11 DEF u
-----------------------------------------------------------------------------
\* What is in the files can be loaded, as far as it is a document.
DiskInv ==
    /\ disk = [f \in FileNames |-> disk[f]]
    /\ \A f \in FileNames : disk[f].kind \in {"document", "wrong"} => disk[f].environment \in Seq(Entries)

\* One dialog or one save at a time, in a running program; the terminal has no
\* dialogs, and saves at its end.
WindowInv ==
    /\ saving \in FileNames \union {NoName}
    /\ name \in FileNames \union {NoName}
    /\ dialog # "none" \/ saving # NoName => status = "on"
    /\ dialog = "none" \/ saving = NoName
    /\ frontEnd \in {"GTK", "WIN32", "TUI"}
    /\ frontEnd = "TUI" => dialog = "none" /\ (saving # NoName => goal = "close")

\* The text of the window and of every file is readable; what is written can
\* be seen, and the terminal shows everything.
TextInv ==
    /\ runs \in Nat
    /\ Readable(text, runs)
    /\ status = "off" => text = <<>>
    /\ frontEnd = "TUI" => AllShown(text)
    /\ \A f \in FileNames :
           disk[f].kind = "document" => Readable(disk[f].text, runs) /\ AllShown(disk[f].text)

\* The document is in the file that has its name, where it was not cut off by
\* a full disk.
InFile ==
    \/ disk[name].kind = "truncated"
    \/ /\ disk[name].kind = "document"
       /\ disk[name].environment = userEnvironment
       /\ shownOf(text) = text => disk[name].text = text

\* What SavedUnlessModified says, and in GTK during a save as well, which may
\* fail.
Saved ==
    /\ frontEnd # "TUI" /\ status = "on" /\ ~modified /\ name # NoName /\ whole
    /\ saving = NoName \/ frontEnd = "GTK"
    => InFile

IInv == ChainInv /\ DiskInv /\ WindowInv /\ TextInv /\ Saved
-----------------------------------------------------------------------------
\* The user's definitions are a part of the chain.
LEMMA UserFacts ==
    ASSUME ChainInv
    PROVE  userEnvironment \in Seq(Entries)
  <1>1. /\ entries \in Seq(Entries) /\ Len(entries) \in Nat
        /\ fTailUserEnvironment \in 0 .. Len(entries)
    BY LenProperties DEF ChainInv
  <1>2. fTailUserEnvironment + 1 \in 1 .. Len(entries) + 1 /\ Len(entries) \in 0 .. Len(entries)
    BY <1>1
  <1> QED
    BY <1>1, <1>2, NamesOfSubSeq DEF userEnvironment

\* An environment that stays is the same chain with the same definitions.
LEMMA SameEnvironment ==
    ASSUME ChainInv, UNCHANGED environment
    PROVE  ChainInv' /\ userEnvironment' = userEnvironment
  BY DEF ChainInv, RowsMatchEntries, namesOf, environment, userEnvironment

\* The files after a step that leaves them alone.
LEMMA SameDisk ==
    ASSUME DiskInv, UNCHANGED <<frontEnd, disk>>
    PROVE  DiskInv'
  BY DEF DiskInv

\* A text that stays, however many more commands there are.
LEMMA SameText ==
    ASSUME TextInv, UNCHANGED <<frontEnd, disk, text>>, runs' \in {runs, runs + 1},
           status' = "off" => text = <<>>
    PROVE  TextInv'
  BY ReadableLater DEF TextInv

\* A text that becomes another one, in a running window.
LEMMA NewText ==
    ASSUME TextInv, UNCHANGED <<frontEnd, disk>>, runs' \in {runs, runs + 1},
           status' # "off", Readable(text', runs'), frontEnd = "TUI" => AllShown(text')
    PROVE  TextInv'
  BY ReadableLater DEF TextInv

\* A document that stays is in its file as before.
LEMMA StillInFile ==
    ASSUME userEnvironment' = userEnvironment, UNCHANGED <<text, disk, name>>, InFile
    PROVE  InFile'
  BY DEF InFile

\* The built-in chain at the start.
LEMMA InitFacts ==
    ASSUME Init
    PROVE  IInv
  <1>1. ChainInv
    <2>1. entries = builtinEntries /\ rows = Builtins /\ fTailUserEnvironment = Len(Builtins)
      BY DEF Init, InitEnvironment
    <2> QED
      BY <2>1, BuiltinFacts DEF ChainInv, RowsMatchEntries
  <1>2. /\ disk = [f \in FileNames |-> disk[f]]
        /\ \A f \in FileNames :
             disk[f].kind \in {"document", "wrong"}
             => disk[f].environment \in Seq(Entries) /\ disk[f].text = <<>>
    <2>1. disk \in Disks
      BY DEF Init
    <2>2. ASSUME NEW f \in FileNames, disk[f].kind \in {"document", "wrong"}
          PROVE  disk[f].environment \in Seq(Entries) /\ disk[f].text = <<>>
      <3>1. disk[f] \notin {File("missing"), File("foreign")}
        BY <2>2 DEF File
      <3>2. PICK kind \in {"document", "wrong"} :
               /\ disk[f] = WrittenFile(kind, disk[f].environment)
               /\ disk[f].environment \in Seq(Entries)
        BY <2>1, <3>1, DisksAssumption
      <3>3. WrittenFile(kind, disk[f].environment).text = <<>>
        BY DEF WrittenFile
      <3> QED
        BY <3>2, <3>3
    <2>3. disk = [f \in FileNames |-> disk[f]]
      BY <2>1, DisksAssumption
    <2> QED
      BY <2>2, <2>3
  <1>3. DiskInv /\ WindowInv /\ Saved
    BY <1>2, NamesAssumption DEF Init, DiskInv, WindowInv, Saved
  <1>4. TextInv
    <2>1. Readable(<<>>, 0) /\ AllShown(<<>>)
      BY ReadableEmpty
    <2> QED
      BY <1>2, <2>1 DEF Init, TextInv
  <1> QED
    BY <1>1, <1>3, <1>4 DEF IInv

\* The end of the program, or of the process.
LEMMA QuitStep ==
    ASSUME IInv, Quit
    PROVE  IInv'
  <1>1. ChainInv'
    BY EmptyUser, SetEnvironmentFacts DEF Quit, Blank
  <1>2. DiskInv'
    BY SameDisk DEF IInv, Quit
  <1>3. WindowInv' /\ Saved'
    BY DEF IInv, Quit, Blank, WindowInv, Saved
  <1>4. TextInv'
    BY ReadableEmpty DEF IInv, Quit, Blank, TextInv
  <1> QED
    BY <1>1, <1>2, <1>3, <1>4 DEF IInv

\* Where only the window changes, and no save begins.
LEMMA WindowStep ==
    ASSUME IInv, unchangedButWindow, status' = "on" \/ status' = "windowless",
           saving' = NoName, dialog' # "none" => status' = "on",
           status' = "on" => status = "on",
           saving = NoName \/ frontEnd = "GTK", frontEnd = "TUI" => dialog' = "none"
    PROVE  IInv'
  <1>1. ChainInv' /\ userEnvironment' = userEnvironment
    BY SameEnvironment DEF IInv, unchangedButWindow, document
  <1>2. DiskInv'
    BY SameDisk DEF IInv, unchangedButWindow
  <1>3. WindowInv'
    BY DEF IInv, unchangedButWindow, WindowInv
  <1>4. Saved'
    <2>1. /\ frontEnd' = frontEnd /\ disk' = disk /\ name' = name /\ modified' = modified
          /\ Saved
      BY DEF IInv, unchangedButWindow, document
    <2> QED
      BY <1>1, <2>1, StillInFile DEF unchangedButWindow, document, Saved
  <1>5. TextInv'
    BY SameText DEF IInv, unchangedButWindow, document
  <1> QED
    BY <1>1, <1>2, <1>3, <1>4, <1>5 DEF IInv

\* A dialog is opened or closed.
LEMMA OpenStep ==
    ASSUME IInv, NEW d, NEW g, Open(d, g), unchangedButWindow,
           status = "on", saving = NoName, frontEnd # "TUI"
    PROVE  IInv'
  BY WindowStep DEF Open

\* A save begins, or ends the program.
LEMMA BeginSaveStep ==
    ASSUME IInv, NEW f \in FileNames \union {NoName}, NEW g, BeginSave(f, g),
           status = "on", saving = NoName, frontEnd = "TUI" => g = "close"
    PROVE  IInv'
  <1>1. CASE Quit
    BY <1>1, QuitStep
  <1>2. CASE /\ saving' = f
             /\ goal' = g
             /\ disk' = opened(f)
             /\ dialog' = "none"
             /\ UNCHANGED <<frontEnd, status, name, document, runs>>
    <2>1. ChainInv' /\ userEnvironment' = userEnvironment
      BY <1>2, SameEnvironment DEF IInv, document
    <2>2. CASE frontEnd = "WIN32"
      <3>1. disk' = [disk EXCEPT ![f] = File("torn")]
        BY <1>2, <2>2 DEF opened
      <3>2. disk' = [x \in FileNames |-> disk'[x]]
        BY <3>1 DEF IInv, DiskInv
      <3>3. \A x \in FileNames : disk'[x] = disk[x] \/ disk'[x] = File("torn")
        BY <3>1 DEF IInv, DiskInv
      <3>4. \A x \in FileNames :
               disk'[x].kind \in {"document", "wrong"} => disk'[x].environment \in Seq(Entries)
        BY <3>3 DEF IInv, DiskInv, File
      <3>5. DiskInv'
        BY <1>2, <2>2, <3>2, <3>4 DEF DiskInv
      <3>6. WindowInv'
        BY <1>2 DEF IInv, WindowInv
      <3>7. ASSUME f # NoName PROVE Saved'
        BY <1>2, <2>2, <3>7 DEF Saved
      <3>8. ASSUME f = NoName PROVE Saved'
        <4>1. disk' = disk
          BY <3>1, <3>8, NamesAssumption DEF IInv, DiskInv
        <4> QED
          BY <1>2, <2>1, <4>1, StillInFile DEF IInv, Saved, document
      <3>9. TextInv'
        <4>1. \A x \in FileNames : disk'[x].kind = "document" => disk'[x] = disk[x]
          BY <3>3 DEF File
        <4> QED
          BY <1>2, <4>1 DEF IInv, TextInv, document
      <3> QED
        BY <2>1, <3>5, <3>6, <3>7, <3>8, <3>9 DEF IInv
    <2>3. CASE frontEnd # "WIN32"
      <3>1. disk' = disk
        BY <1>2, <2>3 DEF opened
      <3>2. DiskInv'
        BY <1>2, <3>1, SameDisk DEF IInv
      <3>3. WindowInv'
        BY <1>2 DEF IInv, WindowInv
      <3>4. Saved'
        BY <1>2, <2>1, <3>1, StillInFile DEF IInv, Saved, document
      <3>5. TextInv'
        BY <1>2, <3>1, SameText DEF IInv, document
      <3> QED
        BY <2>1, <3>2, <3>3, <3>4, <3>5 DEF IInv
    <2> QED
      BY <2>2, <2>3
  <1> QED
    BY <1>1, <1>2 DEF BeginSave
-----------------------------------------------------------------------------
\* The text after a failed load: marks that nobody sees.
LEMMA ClearedText ==
    ASSUME IInv, status = "off" \/ frontEnd # "TUI"
    PROVE  /\ Readable(cleared, runs)
           /\ \A i \in 1 .. Len(cleared) : cleared[i].stray /\ ~cleared[i].shown
           /\ frontEnd # "GTK" => cleared = <<>>
  <1>1. runs \in Nat /\ Readable(text, runs) /\ (status = "off" => text = <<>>)
    BY DEF IInv, TextInv
  <1>2. Readable(<<>>, runs) /\ Len(<<>>) = 0
    BY ReadableEmpty
  <1>3. CASE frontEnd = "GTK"
    <2>1. cleared = clearedGTK
      BY <1>3 DEF cleared
    <2> QED
      BY <1>1, <1>3, <2>1, ClearedFacts
  <1>4. CASE frontEnd = "WIN32"
    BY <1>2, <1>4 DEF cleared, clearedWIN32
  <1>5. CASE frontEnd = "TUI"
    BY <1>1, <1>2, <1>5 DEF cleared, clearedTUI
  <1>6. CASE frontEnd \notin {"GTK", "WIN32", "TUI"}
    BY <1>6 DEF IInv, WindowInv
  <1> QED
    BY <1>3, <1>4, <1>5, <1>6

\* A text is all that is seen of it only if everything is shown.
LEMMA AllOfIt ==
    ASSUME NEW last \in Nat, NEW items, Readable(items, last), shownOf(items) = items
    PROVE  AllShown(items)
  BY ReadableShown

\* A loaded text: what the clear left and what is in the file.
LEMMA LoadedText ==
    ASSUME IInv, status = "off" \/ frontEnd # "TUI",
           NEW f \in FileNames, disk[f].kind = "document", NEW now \in drawn
    PROVE  /\ Readable(appended(disk[f].text, now), runs)
           /\ frontEnd = "TUI" => AllShown(appended(disk[f].text, now))
           /\ shownOf(appended(disk[f].text, now)) = appended(disk[f].text, now)
              => disk[f].text = appended(disk[f].text, now)
  <1> DEFINE items == disk[f].text
             in == CASE frontEnd = "GTK" -> appendedGTK(items, now)
                     [] frontEnd = "WIN32" -> appendedWIN32(items)
                     [] frontEnd = "TUI" -> appendedTUI(items)
             all == cleared \o in
  <1>1. runs \in Nat /\ Readable(items, runs) /\ AllShown(items)
    BY DEF IInv, TextInv
  <1>2. /\ Readable(cleared, runs)
        /\ \A i \in 1 .. Len(cleared) : cleared[i].stray /\ ~cleared[i].shown
        /\ frontEnd # "GTK" => cleared = <<>>
    BY ClearedText
  <1>3. now \in BOOLEAN /\ frontEnd \in {"GTK", "WIN32", "TUI"}
    BY DEF drawn, drawnGTK, drawnWIN32, IInv, WindowInv
  <1> HIDE DEF items
  <1>4. /\ Readable(in, runs)
        /\ AllShown(in) => in = items
        /\ frontEnd # "GTK" => in = items
    <2>1. CASE frontEnd = "GTK"
      <3>1. in = appendedGTK(items, now)
        BY <2>1
      <3> QED
        BY <1>1, <1>3, <2>1, <3>1, AppendedFacts
    <2>2. CASE frontEnd = "WIN32"
      BY <1>1, <2>2 DEF appendedWIN32
    <2>3. CASE frontEnd = "TUI"
      BY <1>1, <2>3 DEF appendedTUI
    <2> QED
      BY <1>3, <2>1, <2>2, <2>3
  <1>5. appended(items, now) = all
    BY DEF appended
  <1> HIDE DEF in
  <1>6. Readable(all, runs)
    <2>1. \A i \in 1 .. Len(cleared), j \in 1 .. Len(in) : InOrder(cleared[i], in[j])
      BY <1>2 DEF InOrder
    <2> QED
      BY <1>1, <1>2, <1>4, <2>1, ReadableConcat
  <1>7. /\ cleared \in Seq(Items) /\ in \in Seq(Items) /\ Len(cleared) \in Nat /\ Len(in) \in Nat
        /\ Len(all) = Len(cleared) + Len(in)
        /\ \A i \in 1 .. Len(cleared) + Len(in) :
               all[i] = IF i <= Len(cleared) THEN cleared[i] ELSE in[i - Len(cleared)]
    <2>1. cleared \in Seq(Items) /\ in \in Seq(Items)
      BY <1>2, <1>4 DEF Readable
    <2> QED
      BY <2>1, LenProperties, ConcatProperties
  <1> HIDE DEF all
  <1>8. cleared = <<>> => all = in
    BY <1>7, ConcatEmptySeq DEF all
  <1>9. ASSUME AllShown(all) PROVE all = items
    <2>1. cleared = <<>>
      <3>1. ASSUME Len(cleared) # 0 PROVE FALSE
        <4>1. 1 \in 1 .. Len(cleared) /\ 1 \in 1 .. Len(all) /\ all[1] = cleared[1]
          BY <1>7, <3>1
        <4> QED
          BY <1>2, <1>9, <4>1 DEF AllShown
      <3> QED
        BY <1>7, <3>1, EmptySeq
    <2>2. all = in
      BY <1>8, <2>1
    <2> QED
      BY <1>4, <1>9, <2>2
  <1>10. shownOf(all) = all => all = items
    BY <1>1, <1>6, <1>9, AllOfIt
  <1>11. frontEnd = "TUI" => AllShown(all)
    BY <1>1, <1>2, <1>4, <1>8
  <1> QED
    BY <1>5, <1>6, <1>10, <1>11 DEF items

\* Definitions that are loaded without a text, or none: that it may be less
\* than what is in the file is remembered.
LEMMA PartlyLoaded ==
    ASSUME IInv, NEW user \in Seq(Entries), SetEnvironment(user), text' = cleared, whole' = FALSE,
           UNCHANGED <<frontEnd, disk, runs>>,
           status = "off" \/ frontEnd # "TUI", status' = "on"
    PROVE  ChainInv' /\ DiskInv' /\ TextInv' /\ Saved'
  <1>1. /\ Readable(cleared, runs)
        /\ frontEnd # "GTK" => cleared = <<>>
    BY ClearedText
  <1>2. frontEnd = "TUI" => AllShown(text')
    BY <1>1, ReadableEmpty
  <1>3. TextInv'
    BY <1>1, <1>2, NewText DEF IInv
  <1>4. ChainInv'
    BY SetEnvironmentFacts
  <1>5. DiskInv' /\ Saved'
    BY SameDisk DEF IInv, Saved
  <1> QED
    BY <1>3, <1>4, <1>5

\* A document that is loaded, a file that is none, and the emptied workspace of
\* a failed load.
LEMMA LoadFacts ==
    ASSUME IInv, NEW f \in FileNames, NEW nameBefore \in FileNames \union {NoName},
           load_contents_from(f, nameBefore), UNCHANGED <<frontEnd, disk, runs>>,
           status = "off" \/ frontEnd # "TUI", status' = "on"
    PROVE  /\ ChainInv' /\ DiskInv' /\ TextInv' /\ Saved'
           /\ name' \in FileNames \union {NoName}
  <1>1. CASE LoadDocument(f)
    <2>1. disk[f].kind = "document" /\ disk[f].environment \in Seq(Entries) /\ name' = f
      BY <1>1 DEF IInv, DiskInv, LoadDocument
    <2>2. ChainInv' /\ userEnvironment' = disk[f].environment
      BY <1>1, <2>1, SetEnvironmentFacts DEF LoadDocument
    <2>3. PICK now \in drawn : text' = appended(disk[f].text, now)
      BY <1>1 DEF LoadDocument
    <2>4. /\ Readable(text', runs)
          /\ frontEnd = "TUI" => AllShown(text')
          /\ shownOf(text') = text' => disk[f].text = text'
      BY <2>1, <2>3, LoadedText
    <2>5. DiskInv' /\ TextInv'
      BY <2>4, NewText, SameDisk DEF IInv
    <2>6. Saved'
      BY <2>1, <2>2, <2>4 DEF Saved, InFile
    <2> QED
      BY <2>1, <2>2, <2>5, <2>6
  <1>2. CASE LoadForeign(f)
    BY <1>2, EmptyUser, PartlyLoaded DEF LoadForeign
  <1>3. CASE LoadHalf(f, nameBefore)
    <2>1. disk[f].environment \in Seq(Entries)
      BY <1>3 DEF IInv, DiskInv, LoadHalf
    <2> QED
      BY <1>3, <2>1, PartlyLoaded DEF LoadHalf
  <1>4. CASE FailToLoad(nameBefore)
    BY <1>4, EmptyUser, PartlyLoaded DEF FailToLoad
  <1> QED
    BY <1>1, <1>2, <1>3, <1>4 DEF load_contents_from

\* WIN32's load of the empty name.
LEMMA LoadNothingFacts ==
    ASSUME IInv, NEW nameBefore \in FileNames \union {NoName},
           FailToLoad(nameBefore), UNCHANGED <<frontEnd, disk, runs>>,
           frontEnd # "TUI", status' = "on"
    PROVE  /\ ChainInv' /\ DiskInv' /\ TextInv' /\ Saved'
           /\ name' \in FileNames \union {NoName}
  BY EmptyUser, PartlyLoaded DEF FailToLoad

\* The start of a window.
LEMMA StartWindowStep ==
    ASSUME IInv, status = "off", status' = "on",
           IF name # NoName THEN load_contents_from(name, name) ELSE UNCHANGED <<document, name>>,
           UNCHANGED <<frontEnd, dialog, goal, saving, disk, runs>>
    PROVE  IInv'
  <1>1. name \in FileNames \union {NoName}
    BY DEF IInv, WindowInv
  <1>2. /\ ChainInv' /\ DiskInv' /\ TextInv' /\ Saved'
        /\ name' \in FileNames \union {NoName}
    <2>1. CASE name # NoName
      BY <1>1, <2>1, LoadFacts
    <2>2. CASE name = NoName
      <3>1. ChainInv' /\ DiskInv'
        BY <2>2, SameEnvironment, SameDisk DEF IInv, document
      <3>2. TextInv'
        BY <2>2, SameText DEF IInv, document
      <3> QED
        BY <1>1, <2>2, <3>1, <3>2 DEF Saved
    <2> QED
      BY <2>1, <2>2
  <1>3. WindowInv'
    BY <1>2 DEF IInv, WindowInv
  <1> QED
    BY <1>2, <1>3 DEF IInv

LEMMA StartTUIStep ==
    ASSUME IInv, StartTUI
    PROVE  IInv'
  <1>1. TUI_environment \in FileNames
    BY NamesAssumption
  <1>2. /\ ChainInv' /\ DiskInv' /\ TextInv' /\ Saved'
        /\ name' \in FileNames \union {NoName}
    <2>1. ASSUME NEW f \in FileNames, NEW nameBefore \in FileNames, load_contents_from(f, nameBefore)
          PROVE  /\ ChainInv' /\ DiskInv' /\ TextInv' /\ Saved'
                 /\ name' \in FileNames \union {NoName}
      BY <2>1, LoadFacts DEF StartTUI
    <2>2. CASE name' = TUI_environment /\ UNCHANGED document
      <3>1. ChainInv' /\ DiskInv'
        BY <2>2, SameEnvironment, SameDisk DEF IInv, document, StartTUI
      <3>2. TextInv'
        BY <2>2, SameText DEF IInv, document, StartTUI
      <3> QED
        BY <1>1, <2>2, <3>1, <3>2 DEF StartTUI, Saved
    <2>3. CASE load_contents_from(TUI_environment, TUI_environment)
      BY <1>1, <2>1, <2>3
    <2>4. CASE \E f \in FileNames : LoadDocument(f) \/ LoadForeign(f) \/ LoadHalf(f, TUI_environment)
      <3>1. PICK f \in FileNames : LoadDocument(f) \/ LoadForeign(f) \/ LoadHalf(f, TUI_environment)
        BY <2>4
      <3>2. load_contents_from(f, TUI_environment)
        BY <3>1 DEF load_contents_from
      <3> QED
        BY <1>1, <2>1, <3>2
    <2> QED
      BY <2>2, <2>3, <2>4 DEF StartTUI
  <1>3. WindowInv'
    BY <1>2 DEF StartTUI, IInv, WindowInv
  <1> QED
    BY <1>2, <1>3 DEF IInv

\* A load behind the dialog.
LEMMA OpenFileStep ==
    ASSUME IInv, OpenFile \/ OpenNothing
    PROVE  IInv'
  <1>1. name \in FileNames \union {NoName} /\ status = "on" /\ frontEnd # "TUI"
    BY DEF IInv, WindowInv, OpenFile, OpenNothing
  <1>2. /\ ChainInv' /\ DiskInv' /\ TextInv' /\ Saved'
        /\ name' \in FileNames \union {NoName}
    <2>1. CASE OpenFile
      BY <1>1, <2>1, LoadFacts DEF OpenFile, Open
    <2>2. CASE OpenNothing
      BY <1>1, <2>2, LoadNothingFacts DEF OpenNothing, Open
    <2> QED
      BY <2>1, <2>2
  <1>3. WindowInv'
    BY <1>1, <1>2 DEF OpenFile, OpenNothing, Open, IInv, WindowInv
  <1> QED
    BY <1>2, <1>3 DEF IInv
-----------------------------------------------------------------------------
\* What is written can be loaded again.
LEMMA WriteFacts ==
    ASSUME IInv, Write, saving \in FileNames, UNCHANGED <<frontEnd, runs>>
    PROVE  /\ DiskInv' /\ name' = saving
           /\ \/ disk'[name'].kind = "truncated"
              \/ /\ disk'[name'].kind = "document"
                 /\ disk'[name'].environment = userEnvironment
                 /\ disk'[name'].text = output_buffer_text
           /\ \A f \in FileNames :
                  disk'[f].kind = "document" => Readable(disk'[f].text, runs') /\ AllShown(disk'[f].text)
  <1>1. PICK new \in {Document, File("truncated")} : disk' = [disk EXCEPT ![saving] = new]
    BY DEF Write
  <1>2. userEnvironment \in Seq(Entries)
    BY UserFacts DEF IInv
  <1>3. \/ new.kind = "truncated"
        \/ /\ new.kind = "document" /\ new.environment = userEnvironment
           /\ new.text = output_buffer_text
    BY DEF Document, File
  <1>4. /\ disk' = [x \in FileNames |-> disk'[x]]
        /\ disk'[saving] = new
        /\ \A x \in FileNames : x # saving => disk'[x] = disk[x]
    BY <1>1 DEF IInv, DiskInv
  <1>5. \A x \in FileNames :
           disk'[x].kind \in {"document", "wrong"} => disk'[x].environment \in Seq(Entries)
    BY <1>2, <1>3, <1>4 DEF IInv, DiskInv
  <1>6. DiskInv'
    BY <1>4, <1>5 DEF IInv, DiskInv
  <1>7. Readable(output_buffer_text, runs) /\ AllShown(output_buffer_text)
    <2>1. runs \in Nat /\ Readable(text, runs) /\ (frontEnd = "TUI" => AllShown(text))
      BY DEF IInv, TextInv
    <2> QED
      BY <2>1, ReadableShown DEF output_buffer_text, output_buffer_textTUI
  <1>8. \A f \in FileNames :
            disk'[f].kind = "document" => Readable(disk'[f].text, runs') /\ AllShown(disk'[f].text)
    BY <1>3, <1>4, <1>7 DEF IInv, TextInv
  <1> QED
    BY <1>3, <1>4, <1>6, <1>8 DEF Write

\* After a save the handler goes on; the terminal also after one that failed.
LEMMA ProceedStep ==
    ASSUME IInv, saving # NoName, Proceed, UNCHANGED <<frontEnd, runs>>,
           \/ Write
           \/ UNCHANGED <<disk, name>> /\ frontEnd = "TUI"
    PROVE  IInv'
  <1>1. saving \in FileNames /\ name \in FileNames \union {NoName} /\ status = "on"
    BY DEF IInv, WindowInv
  <1>2. /\ DiskInv' /\ name' \in FileNames \union {NoName}
        /\ \/ disk'[name'].kind = "truncated"
           \/ /\ disk'[name'].kind = "document"
              /\ disk'[name'].environment = userEnvironment
              /\ disk'[name'].text = output_buffer_text
           \/ frontEnd = "TUI"
        /\ \A f \in FileNames :
               disk'[f].kind = "document" => Readable(disk'[f].text, runs') /\ AllShown(disk'[f].text)
    BY <1>1, WriteFacts, SameDisk DEF IInv, TextInv
  <1>3. CASE Blank
    <2>1. ChainInv'
      BY <1>3, EmptyUser, SetEnvironmentFacts DEF Blank
    <2>2. TextInv'
      BY <1>2, <1>3, ReadableEmpty DEF Blank, IInv, TextInv
    <2> QED
      BY <1>2, <1>3, <2>1, <2>2 DEF Blank, IInv, WindowInv, Saved
  <1>4. CASE /\ goal \notin {"close", "exit"}
             /\ \E d, g : Open(d, g)
             /\ UNCHANGED <<environment, text>>
    <2>1. ChainInv' /\ userEnvironment' = userEnvironment
      BY <1>4, SameEnvironment DEF IInv
    <2>2. frontEnd # "TUI"
      BY <1>4 DEF IInv, WindowInv
    <2>3. output_buffer_text = shownOf(text) /\ text' = text
      BY <1>4, <2>2 DEF output_buffer_text
    <2>4. InFile'
      BY <1>2, <2>1, <2>2, <2>3 DEF InFile
    <2>5. WindowInv' /\ Saved'
      BY <1>1, <1>2, <1>4, <2>2, <2>4 DEF Open, IInv, WindowInv, Saved
    <2>6. TextInv'
      BY <1>1, <1>2, <1>4, <2>2 DEF Open, IInv, TextInv
    <2> QED
      BY <1>2, <2>1, <2>5, <2>6 DEF IInv
  <1> QED
    BY <1>3, <1>4 DEF Proceed

\* A save that is refused leaves everything as it was.
LEMMA FinishSaveStep ==
    ASSUME IInv, FinishSaveGTK \/ FinishSaveWIN32 \/ FinishSaveTUI
    PROVE  IInv'
  <1>1. ASSUME FinishSaveGTK PROVE IInv'
    <2>1. CASE Write /\ Proceed
      BY <1>1, <2>1, ProceedStep DEF FinishSaveGTK
    <2>2. CASE Stay /\ UNCHANGED <<disk, name, document>>
      <3>1. status = "on"
        BY <1>1 DEF IInv, WindowInv, FinishSaveGTK
      <3> QED
        BY <1>1, <2>2, <3>1, WindowStep DEF Stay, unchangedButWindow, FinishSaveGTK
    <2> QED
      BY <1>1, <2>1, <2>2 DEF FinishSaveGTK
  <1>2. ASSUME FinishSaveWIN32 PROVE IInv'
    BY <1>2, ProceedStep DEF FinishSaveWIN32
  <1>3. ASSUME FinishSaveTUI PROVE IInv'
    BY <1>3, ProceedStep DEF FinishSaveTUI
  <1> QED
    BY <1>1, <1>2, <1>3
-----------------------------------------------------------------------------
\* A document that is marked as modified, in a window that stays, may have
\* any chain and any text; one that keeps its definitions and gets nothing that
\* can be seen may be marked or not.
LEMMA ModifiedStep ==
    ASSUME IInv, ChainInv', TextInv',
           UNCHANGED <<frontEnd, window, disk, name>>,
           \/ modified' = TRUE
           \/ frontEnd = "TUI"
           \/ modified' = modified /\ (Saved => Saved')
    PROVE  IInv'
  <1>1. DiskInv'
    BY SameDisk DEF IInv
  <1>2. WindowInv'
    BY DEF IInv, WindowInv, window
  <1>3. Saved'
    <2>1. CASE modified' = TRUE
      <3>1. modified'
        BY <2>1
      <3> QED
        BY <3>1 DEF Saved
    <2>2. CASE frontEnd = "TUI"
      BY <2>2 DEF Saved
    <2>3. CASE modified' = modified /\ (Saved => Saved')
      BY <2>3 DEF IInv
    <2> QED
      BY <2>1, <2>2, <2>3
  <1> QED
    BY <1>1, <1>2, <1>3 DEF IInv

\* Definitions at a place that the front end has.
LEMMA DefineFacts ==
    ASSUME ChainInv, NEW command \in Commands, NEW places \in SUBSET (0 .. Len(rows)),
           Define(command.defines, places)
    PROVE  ChainInv'
  <1>1. command.defines \in Seq(Entries)
    BY CommandsAssumption
  <1>2. PICK index \in places : AddToEnvironment(command.defines, index)
    BY DEF Define
  <1>3. index \in 0 .. Len(rows)
    OBVIOUS
  <1> QED
    BY <1>1, <1>2, <1>3, AddFacts

\* Every front end adds at a row or behind all.
LEMMA PlacesFacts ==
    ASSUME ChainInv
    PROVE  /\ placesGTK \in SUBSET (0 .. Len(rows))
           /\ placesWIN32 \in SUBSET (0 .. Len(rows))
           /\ placesTUI \in SUBSET (0 .. Len(rows))
  <1>1. Len(rows) \in Nat
    BY NamesType, LenProperties DEF ChainInv, RowsMatchEntries
  <1> QED
    BY <1>1 DEF placesGTK, placesWIN32, placesTUI

\* A command of a window, with its definitions or without.
LEMMA ExecuteStep ==
    ASSUME IInv, NEW command \in Commands, NEW B_from_entry, NEW B_IO,
           NEW places \in SUBSET (0 .. Len(rows)),
           Execute(command, B_from_entry, B_IO, places), status = "on", frontEnd # "TUI"
    PROVE  IInv'
  <1>1. TextInv'
    <2>1. PICK new \in printed(command, B_from_entry) : text' = text \o new
      BY DEF Execute
    <2>2. Readable(text', runs + 1)
      BY <2>1, PrintedFacts DEF IInv, TextInv
    <2> QED
      BY <2>2, NewText DEF IInv, Execute, window
  <1>2. CASE Define(command.defines, places)
    BY <1>1, <1>2, DefineFacts, ModifiedStep DEF IInv, Execute
  <1>3. CASE UNCHANGED environment
    BY <1>1, <1>3, SameEnvironment, ModifiedStep DEF IInv, Execute
  <1> QED
    BY <1>2, <1>3 DEF Execute

\* A line of the terminal.
LEMMA LineStep ==
    ASSUME IInv, NEW command \in Commands, NEW B_IO, LineTUI(command, B_IO)
    PROVE  IInv'
  <1>1. placesTUI \in SUBSET (0 .. Len(rows))
    BY PlacesFacts DEF IInv
  <1>2. TextInv'
    <2> DEFINE item == Item("input", TRUE)
    <2>1. runs \in Nat /\ Readable(text, runs) /\ AllShown(text)
      BY DEF IInv, TextInv, LineTUI
    <2>2. text' = Append(text, item) /\ item \in Items /\ item.shown = TRUE
      BY <2>1, ItemFacts DEF LineTUI
    <2>3. Readable(text', runs + 1)
      BY <2>1, <2>2, OneItem
    <2>4. AllShown(text')
      <3> HIDE DEF item
      <3>1. /\ text \in Seq(Items) /\ Len(text) \in Nat
            /\ Len(text') = Len(text) + 1
            /\ \A i \in 1 .. Len(text) : text'[i] = text[i]
            /\ text'[Len(text) + 1] = item
        BY <2>1, <2>2, AppendProperties, LenProperties DEF Readable
      <3>2. \A i \in 1 .. Len(text') : i \in 1 .. Len(text) \/ i = Len(text) + 1
        BY <3>1
      <3> QED
        BY <2>1, <2>2, <3>1, <3>2 DEF AllShown
    <2> QED
      BY <2>3, <2>4, NewText DEF IInv, LineTUI, window
  <1>3. CASE Define(command.defines, placesTUI)
    BY <1>1, <1>2, <1>3, DefineFacts, ModifiedStep DEF IInv, LineTUI
  <1>4. CASE UNCHANGED environment
    BY <1>2, <1>4, SameEnvironment, ModifiedStep DEF IInv, LineTUI
  <1> QED
    BY <1>3, <1>4 DEF LineTUI

\* The dialog for a definition.
LEMMA AddDefinitionStep ==
    ASSUME IInv, NEW places \in SUBSET (0 .. Len(rows)), AddDefinition(places)
    PROVE  IInv'
  <1>1. PICK command \in Commands : Define(command.defines, places)
    BY DEF AddDefinition
  <1>2. ChainInv'
    BY <1>1, DefineFacts DEF IInv
  <1>3. TextInv'
    BY SameText DEF IInv, AddDefinition, window, idle
  <1> QED
    BY <1>2, <1>3, ModifiedStep DEF AddDefinition

\* A drawing that is done.
LEMMA ChildDiedStep ==
    ASSUME IInv, LATEX_child_died
    PROVE  IInv'
  <1>1. /\ UNCHANGED environment /\ UNCHANGED <<frontEnd, window, disk, name, runs>>
        /\ modified' = TRUE /\ status = "on"
    BY DEF LATEX_child_died, track_changes
  <1>2. PICK i \in 1 .. Len(text) : ~text[i].shown /\ text' = withImage(i)
    <2>1. DOMAIN text = 1 .. Len(text)
      BY LenProperties DEF IInv, TextInv, Readable
    <2> QED
      BY <2>1 DEF LATEX_child_died
  <1>3. runs \in Nat /\ Readable(text', runs)
    BY <1>2, DrawnFacts DEF IInv, TextInv
  <1>4. frontEnd # "TUI"
    BY <1>2 DEF IInv, TextInv, AllShown
  <1>5. TextInv'
    BY <1>1, <1>3, <1>4, NewText DEF IInv, window
  <1>6. ChainInv'
    BY <1>1, SameEnvironment DEF IInv
  <1> QED
    BY <1>1, <1>5, <1>6, ModifiedStep

\* A row that is activated. If its drawing has to wait, not everything is shown.
LEMMA ActivateRowStep ==
    ASSUME IInv, ActivateRow
    PROVE  IInv'
  <1>1. PICK now \in drawn : /\ text' = Append(text, Item("definition", now))
                             /\ modified' = IF now THEN track_changes ELSE modified
    BY DEF ActivateRow
  <1>2. /\ UNCHANGED environment /\ UNCHANGED <<frontEnd, window, disk, name, whole>>
        /\ runs' = runs + 1 /\ status = "on" /\ frontEnd # "TUI"
    BY DEF ActivateRow, idle
  <1>3. runs \in Nat /\ Readable(text, runs) /\ now \in BOOLEAN
    BY DEF IInv, TextInv, drawn, drawnGTK, drawnWIN32
  <1>4. Readable(text', runs + 1)
    BY <1>1, <1>3, OneItem
  <1>5. TextInv'
    BY <1>2, <1>4, NewText DEF IInv, window
  <1>6. ChainInv' /\ userEnvironment' = userEnvironment
    BY <1>2, SameEnvironment DEF IInv
  <1>7. CASE now
    BY <1>1, <1>2, <1>5, <1>6, <1>7, ModifiedStep DEF track_changes
  <1>8. CASE ~now
    <2> DEFINE item == Item("definition", now)
    <2>1. item \in Items /\ item.shown = FALSE
      BY <1>3, <1>8, ItemFacts
    <2>2. text' = Append(text, item)
      BY <1>1
    <2> HIDE DEF item
    <2>3. shownOf(text') # text'
      <3>1. /\ text \in Seq(Items) /\ Len(text) \in Nat
            /\ Len(text') = Len(text) + 1 /\ text'[Len(text) + 1] = item
        BY <1>3, <2>1, <2>2, AppendProperties, LenProperties DEF Readable
      <3>2. ~AllShown(text')
        BY <2>1, <3>1 DEF AllShown
      <3>3. runs + 1 \in Nat
        BY <1>3
      <3> QED
        BY <1>4, <3>2, <3>3, AllOfIt
    <2>4. InFile => InFile'
      BY <1>2, <1>6, <2>3 DEF InFile
    <2>5. modified' = modified /\ (Saved => Saved')
      BY <1>1, <1>2, <1>8, <2>4 DEF Saved, window
    <2> QED
      BY <1>2, <1>5, <1>6, <2>5, ModifiedStep
  <1> QED
    BY <1>3, <1>7, <1>8

\* What a window asks for: to save, to load, to be closed.
LEMMA AskStep ==
    ASSUME IInv,
           \/ \E B_force_dialog \in BOOLEAN : Save(B_force_dialog)
           \/ Load
           \/ CloseGTK
           \/ \E g \in {"close", "exit"} : CloseWIN32(g)
    PROVE  IInv'
  <1>1. name \in FileNames \union {NoName}
    BY DEF IInv, WindowInv
  <1>2. CASE \E B_force_dialog \in BOOLEAN : Save(B_force_dialog)
    BY <1>1, <1>2, OpenStep, BeginSaveStep DEF Save, idle
  <1>3. CASE Load
    BY <1>3, OpenStep DEF Load, idle
  <1>4. CASE CloseGTK
    BY <1>4, OpenStep, QuitStep DEF CloseGTK, idle
  <1>5. CASE \E g \in {"close", "exit"} : CloseWIN32(g)
    BY <1>5, OpenStep, QuitStep DEF CloseWIN32, idle
  <1> QED
    BY <1>2, <1>3, <1>4, <1>5

\* What is answered in a dialog.
LEMMA DialogStep ==
    ASSUME IInv, Discard \/ Agree \/ ChooseFile \/ GoBack
    PROVE  IInv'
  <1>1. dialog # "none"
    BY DEF Discard, Agree, ChooseFile, GoBack
  <1>2. /\ status = "on" /\ saving = NoName /\ name \in FileNames \union {NoName}
        /\ frontEnd # "TUI"
    BY <1>1 DEF IInv, WindowInv
  <1>3. CASE Discard
    BY <1>2, <1>3, OpenStep, QuitStep DEF Discard
  <1>4. CASE Agree
    BY <1>2, <1>4, OpenStep, BeginSaveStep DEF Agree
  <1>5. CASE ChooseFile
    <2>1. PICK f \in SaveNames : BeginSave(f, goal)
      BY <1>5 DEF ChooseFile
    <2>2. f \in FileNames \union {NoName}
      BY NamesAssumption
    <2> QED
      BY <1>2, <2>1, <2>2, BeginSaveStep
  <1>6. CASE GoBack
    BY <1>2, <1>6, WindowStep DEF GoBack, Stay
  <1> QED
    BY <1>3, <1>4, <1>5, <1>6

\* The starts and the ends.
LEMMA LifeStep ==
    ASSUME IInv, \/ StartGTK \/ StartWIN32 \/ StartTUI \/ ExitTUI \/ EndOfInputTUI \/ Die
                 \/ \E f \in FileNames : AbortLoading(f)
    PROVE  IInv'
  <1>1. name \in FileNames \union {NoName}
    BY DEF IInv, WindowInv
  <1>2. CASE StartGTK
    BY <1>2, StartWindowStep DEF StartGTK
  <1>3. CASE StartWIN32
    BY <1>3, StartWindowStep DEF StartWIN32
  <1>4. CASE StartTUI
    BY <1>4, StartTUIStep
  <1>5. CASE ExitTUI
    BY <1>5, QuitStep DEF ExitTUI
  <1>6. CASE EndOfInputTUI
    BY <1>1, <1>6, BeginSaveStep DEF EndOfInputTUI
  <1>7. CASE Die
    BY <1>7, QuitStep DEF Die
  <1>8. CASE \E f \in FileNames : AbortLoading(f)
    BY <1>8, QuitStep DEF AbortLoading
  <1> QED
    BY <1>2, <1>3, <1>4, <1>5, <1>6, <1>7, <1>8
-----------------------------------------------------------------------------
\* The invariant is inductive.
LEMMA IInvNext ==
    ASSUME IInv, [Next]_vars
    PROVE  IInv'
  <1> USE PlacesFacts
  <1>1. CASE UNCHANGED vars
    <2>1. ChainInv' /\ userEnvironment' = userEnvironment
      BY <1>1, SameEnvironment DEF IInv, vars, document
    <2>2. DiskInv'
      BY <1>1, SameDisk DEF IInv, vars
    <2>3. WindowInv' /\ Saved'
      BY <1>1, <2>1, StillInFile DEF IInv, vars, window, document, WindowInv, Saved
    <2>4. TextInv'
      BY <1>1, SameText DEF IInv, vars, window, document, TextInv
    <2> QED
      BY <2>1, <2>2, <2>3, <2>4 DEF IInv
  <1>2. CASE \/ StartGTK \/ StartWIN32 \/ StartTUI \/ ExitTUI \/ EndOfInputTUI \/ Die
             \/ \E f \in FileNames : AbortLoading(f)
    BY <1>2, LifeStep
  <1>3. CASE \/ \E B_force_dialog \in BOOLEAN : Save(B_force_dialog)
             \/ Load \/ CloseGTK
             \/ \E g \in {"close", "exit"} : CloseWIN32(g)
    BY <1>3, AskStep
  <1>4. CASE FinishSaveGTK \/ FinishSaveWIN32 \/ FinishSaveTUI
    BY <1>4, FinishSaveStep
  <1>5. CASE Discard \/ Agree \/ ChooseFile \/ GoBack
    BY <1>5, DialogStep
  <1>6. CASE OpenFile \/ OpenNothing
    BY <1>6, OpenFileStep
  <1>7. ASSUME NEW command \in Commands, NEW B_IO \in BOOLEAN, NEW B_from_entry \in BOOLEAN,
               \/ ExecuteGTK(command, B_from_entry, B_IO)
               \/ ExecuteWIN32(command, B_from_entry, B_IO)
        PROVE  IInv'
    BY <1>7, ExecuteStep DEF IInv, ExecuteGTK, ExecuteWIN32, idle
  <1>8. ASSUME NEW command \in Commands, NEW B_IO \in BOOLEAN, LineTUI(command, B_IO)
        PROVE  IInv'
    BY <1>8, LineStep
  <1>9. CASE AddDefinitionGTK \/ AddDefinitionWIN32
    BY <1>9, AddDefinitionStep DEF IInv, AddDefinitionGTK, AddDefinitionWIN32
  <1>10. CASE ActivateRowGTK \/ ActivateRowWIN32 \/ LATEX_child_died
    BY <1>10, ActivateRowStep, ChildDiedStep DEF ActivateRowGTK, ActivateRowWIN32
  <1>11. CASE Next
    BY <1>11, <1>2, <1>3, <1>4, <1>5, <1>6, <1>7, <1>8, <1>9, <1>10 DEF Next
  <1> QED
    BY <1>1, <1>11

LEMMA IInvHolds == Spec => []IInv
  <1>1. Init => IInv
    BY InitFacts
  <1>2. IInv /\ [Next]_vars => IInv'
    BY IInvNext
  <1> QED
    BY <1>1, <1>2, PTL DEF Spec

\* Row i of the window names entry i of the chain: every activated row shows
\* the definition that it names, wherever definitions were added and whatever
\* was loaded.
THEOREM RowsTheorem == Spec => []RowsMatchEntries
  <1>1. IInv => RowsMatchEntries
    BY DEF IInv, ChainInv
  <1> QED
    BY <1>1, IInvHolds, PTL

\* What is not marked as modified is in the file, definitions and text.
THEOREM SavedTheorem == Spec => []SavedUnlessModified
  <1>1. IInv => SavedUnlessModified
    BY DEF IInv, Saved, InFile, SavedUnlessModified
  <1> QED
    BY <1>1, IInvHolds, PTL

\* And it is while GTK saves into another file, until that one is whole.
THEOREM SavedWhileSavingTheorem == Spec => []Saved
  <1>1. IInv => Saved
    BY DEF IInv
  <1> QED
    BY <1>1, IInvHolds, PTL

\* Formulas, arrows and results stand in the order of their commands, whatever
\* was drawn later than what follows it, cleared or loaded meanwhile.
THEOREM ResultsTheorem == Spec => []ResultsInPlace
  <1>1. IInv => ResultsInPlace
    <2>1. ASSUME IInv PROVE DOMAIN text = 1 .. Len(text)
      BY <2>1, LenProperties DEF IInv, TextInv, Readable
    <2> QED
      BY <2>1 DEF IInv, TextInv, Readable, InOrder, ResultsInPlace
  <1> QED
    BY <1>1, IInvHolds, PTL
=============================================================================
