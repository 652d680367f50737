-------------------------- MODULE MCLoginSessions --------------------------
(* One browser with two tabs and one other request. *)
EXTENDS LoginSessions, TLC

Symmetry == Permutations(Tabs)
=============================================================================
