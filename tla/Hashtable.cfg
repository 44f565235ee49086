CONSTANTS
    HashKeys = {k1, k2, k3, k4}
    Elements = {v1, v2}
    zero = zero
    absent = absent
    HashValues = {2, 8}
    MaxCount = 10
    MaxRemovals = 3
SYMMETRY Symmetric
SPECIFICATION HashtableSpec
INVARIANTS
    EveryEntryIsFound
PROPERTIES
    ImplementsDictionary
    GrowsAtGrowthPoints
