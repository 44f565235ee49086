----------------------------- MODULE Hashtable ------------------------------
(***************************************************************************)
(* RawHashtable (Values/Hashtable): open addressing with linear probing,   *)
(* entries that are removed stay behind as HS_FREE_AGAIN, and a count that *)
(* also grows by every entry that growTo moves.                            *)
(*                                                                         *)
(* The modules it is used by: names in scope (getFreeVariables), loaded    *)
(* modules (ModuleLoader), exports of a module (dispatchModule).           *)
(***************************************************************************)
EXTENDS Integers, FiniteSets, Sequences

CONSTANTS
    HashKeys,   \* symbols, names of files: whatever a table is asked for
    Elements,   \* values put in
    zero,       \* what operator[] puts for a new key
    absent,     \* the answer end()
    HashValues, \* the hash function is any function from the keys to these
    MaxCount,   \* bound: no put above this count
    MaxRemovals \* bound: calls of removeByKey

ASSUME HashValuesAssumption == HashValues \subseteq Nat

VARIABLES
    hash,       \* the template parameter H: chosen once
    entries,    \* the array: [state, first, second] of each slot
    count,
    answered,   \* to the last find
    removals    \* how often removeByKey was called

hashtableVars == <<hash, entries, count, answered, removals>>

HS_FREE == "HS_FREE"
HS_OCCUPIED == "HS_OCCUPIED"
HS_FREE_AGAIN == "HS_FREE_AGAIN"
Entries == [state : {HS_FREE, HS_OCCUPIED, HS_FREE_AGAIN},
            first : HashKeys \cup {absent}, second : Elements \cup {zero}]
Tables == [entries : Seq(Entries), count : Nat]

table == [entries |-> entries, count |-> count]
capacity(t) == Len(t.entries)
slotsIn(t, state) == {i \in DOMAIN t.entries : t.entries[i].state = state}
freeEntry == [state |-> HS_FREE, first |-> absent, second |-> zero]
NoEntry == 0

HashtableInit ==
    /\ hash \in [HashKeys -> HashValues]
    /\ entries = <<>> /\ count = 0
    /\ answered = absent /\ removals = 0
-----------------------------------------------------------------------------
\* The slot that is looked at after i steps; behind the last one is the first.
probe(t, key, i) ==
    LET index == (hash[key] % capacity(t)) + i
    IN  1 + IF index >= capacity(t) THEN index - capacity(t) ELSE index

first(S) == CHOOSE i \in S : \A j \in S : i <= j

\* A mutant of findEntry: a removed entry ends the search.
findEntryUpToRemoved(t, key) ==
    LET stops == {i \in 0 .. capacity(t) : t.entries[probe(t, key, i)].state # HS_OCCUPIED
                                           \/ t.entries[probe(t, key, i)].first = key}
        slot == probe(t, key, first(stops))
    IN  IF capacity(t) = 0 \/ stops = {} THEN NoEntry
        ELSE IF t.entries[slot].state = HS_OCCUPIED THEN slot ELSE NoEntry

\* findEntry: the first slot decides alone when it is free or holds the key;
\* otherwise the walk ends at a free slot or at the key, occupied or not.
findEntry(t, key) ==
    LET at(i) == t.entries[probe(t, key, i)]
        stops == {i \in 1 .. capacity(t) : at(i).state = HS_FREE \/ at(i).first = key}
    IN  IF capacity(t) = 0 \/ at(0).state = HS_FREE THEN NoEntry
        ELSE IF at(0).state = HS_OCCUPIED /\ at(0).first = key THEN probe(t, key, 0)
        ELSE IF stops = {} \/ at(first(stops)).state = HS_FREE THEN NoEntry
        ELSE probe(t, key, first(stops))

occupy(t, slot, key, value) ==
    [t EXCEPT !.entries[slot] = [state |-> HS_OCCUPIED, first |-> key, second |-> value]]

\* Where actualPut puts a new key.
newSlot(t, key) ==
    probe(t, key, first({i \in 0 .. capacity(t) :
                             t.entries[probe(t, key, i)].state # HS_OCCUPIED}))

\* The ++count of a new entry.
counted(t) == [t EXCEPT !.count = @ + 1]

\* actualPut, where growTo(count + 1) makes grown[t] of a table.
putIn(grown, t, key, value) ==
    IF findEntry(t, key) # NoEntry THEN occupy(t, findEntry(t, key), key, value)
    ELSE occupy(counted(grown[t]), newSlot(grown[t], key), key, value)

pow2[k \in Nat] == IF k = 0 THEN 1 ELSE 2 * pow2[k - 1]
log2(n) == CHOOSE k \in 0 .. n : pow2[k] <= n /\ n < pow2[k + 1]

\* A mutant of sizeFor: only as large as wanted, not with room for more.
sizeForTight(wanted) == pow2[log2(wanted)] + 1

\* The size of the array that growTo allocates.
sizeFor(wanted) == pow2[log2(wanted) + 1] + 1

allocated(t) == [entries |-> [i \in 1 .. sizeFor(t.count + 1) |-> freeEntry], count |-> t.count]

\* The table after growTo has put every entry of the old array in a new one.
moved(grown, t) ==
    LET upTo[i \in 0 .. capacity(t)] ==
            IF i = 0 THEN allocated(t)
            ELSE LET e == t.entries[i]
                 IN  IF e.state = HS_OCCUPIED THEN putIn(grown, upTo[i - 1], e.first, e.second)
                     ELSE upTo[i - 1]
    IN  upTo[capacity(t)]

\* growTo and actualPut call each other.  When an entry that growTo moves makes
\* the table grow again, less entries than before have to be moved: growth[n] is
\* growTo of a table with at most n of them.
growth[n \in Nat] ==
    [t \in Tables |-> IF t.count + 1 <= capacity(t) THEN t
                      ELSE IF n = 0 THEN allocated(t) ELSE moved(growth[n - 1], t)]

actualPut(t, key, value) ==
    putIn(growth[Cardinality(slotsIn(t, HS_OCCUPIED))], t, key, value)

Become(t) == entries' = t.entries /\ count' = t.count /\ UNCHANGED hash

room == count < MaxCount
-----------------------------------------------------------------------------
put(key, value) ==
    /\ room
    /\ Become(actualPut(table, key, value))
    /\ UNCHANGED <<answered, removals>>

find(key) ==
    /\ answered' = LET slot == findEntry(table, key)
                 IN  IF slot = NoEntry THEN absent ELSE entries[slot].second
    /\ UNCHANGED <<hash, entries, count, removals>>

\* A mutant of assign: the entry is looked up before it is there.
assignNoEntry(key, value) ==
    /\ room
    /\ LET slot == findEntry(table, key)
       IN  Become(IF slot = NoEntry THEN actualPut(table, key, zero)
                  ELSE [table EXCEPT !.entries[slot].second = value])
    /\ UNCHANGED <<answered, removals>>

\* operator[] and an assignment to what it returns: an entry that is found is
\* not marked as occupied.
assign(key, value) ==
    /\ room
    /\ LET t == IF findEntry(table, key) = NoEntry THEN actualPut(table, key, zero) ELSE table
       IN  Become([t EXCEPT !.entries[findEntry(t, key)].second = value])
    /\ UNCHANGED <<answered, removals>>

removed(t, key) ==
    LET slot == findEntry(t, key)
    IN  IF slot = NoEntry THEN t ELSE [t EXCEPT !.entries[slot].state = HS_FREE_AGAIN]

removeByKey(key) ==
    /\ removals < MaxRemovals /\ removals' = removals + 1
    /\ Become(removed(table, key))
    /\ UNCHANGED answered

HashtableNext ==
    \E key \in HashKeys :
        \/ \E value \in Elements : put(key, value) \/ assign(key, value)
        \/ find(key)
        \/ removeByKey(key)

HashtableSpec == HashtableInit /\ [][HashtableNext]_hashtableVars
-----------------------------------------------------------------------------
occupied == slotsIn(table, HS_OCCUPIED)

\* An entry that is in the table is found, whatever was removed around it, and
\* no key is in it twice.  There is a slot for a new one: the count covers the
\* entries, however many were removed and put again, and stays within the
\* capacity, also while growTo moves them, so that put never gets to abort.
EveryEntryIsFound ==
    /\ \A i \in occupied : findEntry(table, entries[i].first) = i
    /\ Cardinality(occupied) <= count /\ count <= capacity(table)

\* The map that a table is, and what it still has of keys that were removed.
mapOf(t) ==
    [key \in {t.entries[i].first : i \in slotsIn(t, HS_OCCUPIED)} |->
        t.entries[CHOOSE i \in slotsIn(t, HS_OCCUPIED) : t.entries[i].first = key].second]
leftoversOf(t) == {<<t.entries[i].first, t.entries[i].second>> : i \in slotsIn(t, HS_FREE_AGAIN)}

\* Lookups, puts and removals are those of a dictionary that forgets slowly.
dictionary ==
    INSTANCE Dictionary WITH
        Keys <- HashKeys, nil <- zero, found <- answered,
        dict <- mapOf(table), leftovers <- leftoversOf(table)
ImplementsDictionary == dictionary!Spec

\* As long as nothing was removed, the array is replaced exactly when a new key
\* comes to a table of this many entries (the next number is 6): the moved
\* entries are counted twice.
GrowthPoints == {0, 3}
GrowsAtGrowthPoints ==
    [][(removals = 0 /\ Len(entries') # Len(entries)) =>
           Cardinality(occupied) \in GrowthPoints]_hashtableVars
=============================================================================
