---------------------------- MODULE MCCacheServer ----------------------------
(* TLC instances of CacheServer. *)
EXTENDS CacheServer, TLC

MCKindOf == [k \in Key |-> "sstate"]

MCSize == [h \in Hash |-> 1]

MCDefaultTtl == [k \in Kind |-> 0]

MCNoTtl == [k \in Kind |-> MaxTime + 1]

Symmetry == Permutations(Upload) \cup Permutations(Hash) \cup Permutations(Key)
=============================================================================
