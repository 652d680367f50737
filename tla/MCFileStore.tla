---------------------------- MODULE MCFileStore ----------------------------
(* One icon, and a few files for it and for the uploads. *)
EXTENDS FileStore, TLC

Symmetry == Permutations(Guids) \cup Permutations(Requests)
=============================================================================
