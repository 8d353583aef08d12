---------------------------- MODULE MCAgentGrants ----------------------------
(* Names of one kind are interchangeable. *)
EXTENDS AgentGrants, TLC

Symmetry ==
    Permutations(Csrs) \cup Permutations(Secrets) \cup Permutations(Tokens)
    \cup Permutations(Processes)
=============================================================================
