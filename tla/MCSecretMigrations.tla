------------------------- MODULE MCSecretMigrations -------------------------
(***************************************************************************)
(* The scripts and the outbox over two secrets and two consumers: one      *)
(* event older than the first script, and one recorded meanwhile.          *)
(***************************************************************************)
EXTENDS SecretMigrations
=============================================================================
