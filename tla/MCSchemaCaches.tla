-------------------------- MODULE MCSchemaCaches ---------------------------
(* Small instances of SchemaCaches for TLC. *)
EXTENDS SchemaCaches, TLC

(* Addresses and sessions are only compared for equality, none is named.   *)
Symmetric ==
  Permutations(ClassTokens) \cup Permutations(SerializerTokens)
    \cup Permutations(RevisionTokens) \cup Permutations(Sessions)
=============================================================================
