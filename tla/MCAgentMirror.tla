---------------------------- MODULE MCAgentMirror ---------------------------
(* Instances of AgentMirror for TLC. *)
EXTENDS AgentMirror, TLC

\* The secrets are interchangeable.
Symmetry == Permutations(Secrets)
=============================================================================
