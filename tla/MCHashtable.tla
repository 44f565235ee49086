---------------------------- MODULE MCHashtable -----------------------------
(* Symmetry of Hashtable for TLC: keys are only compared and hashed. *)
EXTENDS Hashtable, TLC

Symmetric == Permutations(HashKeys)
=============================================================================
