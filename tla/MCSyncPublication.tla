-------------------------- MODULE MCSyncPublication -------------------------
(* Instances of SyncPublication for TLC. *)
EXTENDS SyncPublication, TLC

\* Mutations and secrets are interchangeable.
Symmetry == Permutations(Writers) \cup Permutations(Secrets)
=============================================================================
