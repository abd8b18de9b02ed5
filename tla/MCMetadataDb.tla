---------------------------- MODULE MCMetadataDb ----------------------------
(* TLC instance of MetadataDb: two project names over two project ids, three *)
(* entry ids, so that replacement, shared blobs, cascade and re-creation all *)
(* happen.                                                                   *)
EXTENDS MetadataDb, TLC

MCSize == [h \in Hash |-> 1]

Symmetry == Permutations(Name) \cup Permutations(Key) \cup Permutations(Hash)
=============================================================================
