---------------------------- MODULE MCTableStore ----------------------------
(* Instances of TableStore for TLC.                                        *)
EXTENDS TableStore, TLC

Symmetry == Permutations(Prefixes) \cup Permutations(Keys) \cup Permutations(Values)
              \cup Permutations(SecKeys)
=============================================================================
