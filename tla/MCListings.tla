----------------------------- MODULE MCListings -----------------------------
(* Two secrets that share a name, one in a folder and one in a folder of it. *)
EXTENDS Listings, TLC

MCNameOf ==
    (1 :> <<"pay", "key">>) @@ (2 :> <<"pay", "key">>) @@ (3 :> <<"pay", "ext", "key">>)
MCNameOrder == (<<"pay", "ext", "key">> :> 1) @@ (<<"pay", "key">> :> 2)

Symmetry == Permutations(Tags)
=============================================================================
