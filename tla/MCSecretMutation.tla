-------------------------- MODULE MCSecretMutation --------------------------
(* Instances of SecretMutation for TLC. *)
EXTENDS SecretMutation, TLC

\* Requests, revisions and secrets are interchangeable, and so are consumers.
Symmetry == Permutations(Ops) \cup Permutations(Consumers)
=============================================================================
