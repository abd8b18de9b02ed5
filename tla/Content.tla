------------------------------- MODULE Content -------------------------------
(* What the metadata store and the blob directory share: SHA-256 digests and *)
(* the size of the content each one names (storage.rs, Written).             *)
EXTENDS Naturals, FiniteSets

CONSTANTS
    Hash,           \* SHA-256 digests
    Size            \* [Hash -> Nat], the size_bytes of a content

ASSUME SizeAssumption == IsFiniteSet(Hash) /\ Size \in [Hash -> Nat]
=============================================================================
