---------------------------- MODULE MCSecretClients ----------------------------
(***************************************************************************)
(* SecretClients over two contents and two metadata: up to three edits,    *)
(* drafts, updates and faults together, of which two may be writes by      *)
(* somebody other than the controller, one begun after the other rested.   *)
(***************************************************************************)
EXTENDS SecretClients
=============================================================================
