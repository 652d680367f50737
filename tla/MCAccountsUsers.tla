-------------------------- MODULE MCAccountsUsers --------------------------
(* A small accounts.api for TLC. *)
EXTENDS AccountsUsers, TLC

Symmetry == Permutations(Requests)
=============================================================================
