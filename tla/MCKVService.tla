---------------------------- MODULE MCKVService -----------------------------
(* Instances of the key-value service; the cfg chooses tables, keys and    *)
(* values and which specification is run.                                  *)
EXTENDS KVService, TLC

Symmetry == Permutations(Keys) \cup Permutations(Values)
=============================================================================
