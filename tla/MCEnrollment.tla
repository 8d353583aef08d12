---------------------------- MODULE MCEnrollment ----------------------------
(* Names of one kind are interchangeable. *)
EXTENDS Enrollment, TLC

Symmetry ==
    Permutations(Consumers) \cup Permutations(Csrs) \cup Permutations(Keys)
    \cup Permutations(Handlers)
=============================================================================
