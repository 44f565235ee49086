----------------------------- MODULE Dictionary -----------------------------
(***************************************************************************)
(* What the users of Values/Hashtable can rely on: a map from keys to      *)
(* values, with one weakness.  A key that was removed may still be found,  *)
(* with the value it had, until something overwrites what is left of it.   *)
(***************************************************************************)
CONSTANTS Keys, Elements, nil, absent

VARIABLES
    dict,       \* the map, on the keys that are in it
    leftovers,  \* <<key, value>> of removed keys that may still be found
    found       \* the answer to the last lookup

vars == <<dict, leftovers, found>>

Init == dict = [key \in {} |-> nil] /\ leftovers = {} /\ found = absent

\* What a lookup of a key can answer.
Answers(key) ==
    IF key \in DOMAIN dict THEN {dict[key]}
    ELSE {absent} \cup {pair[2] : pair \in {p \in leftovers : p[1] = key}}

Put(key, value) ==
    /\ dict' = [k \in DOMAIN dict \cup {key} |-> IF k = key THEN value ELSE dict[k]]
    /\ leftovers' \subseteq leftovers
    /\ UNCHANGED found

Find(key) ==
    /\ found' \in Answers(key)
    /\ UNCHANGED <<dict, leftovers>>

\* dict[key] = value, which may end in what is left of a removed key.
Assign(key, value) ==
    \/ Put(key, value)
    \/ /\ key \notin DOMAIN dict /\ \E p \in leftovers : p[1] = key
       /\ leftovers' = {p \in leftovers : p[1] # key} \cup {<<key, value>>}
       /\ UNCHANGED <<dict, found>>

Remove(key) ==
    /\ dict' = [k \in DOMAIN dict \ {key} |-> dict[k]]
    /\ leftovers' = leftovers \cup {<<k, dict[k]>> : k \in DOMAIN dict \cap {key}}
    /\ UNCHANGED found

Next ==
    \E key \in Keys :
        \/ \E value \in Elements : Put(key, value) \/ Assign(key, value)
        \/ Find(key)
        \/ Remove(key)

Spec == Init /\ [][Next]_vars
=============================================================================
