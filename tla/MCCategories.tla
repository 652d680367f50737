---------------------------- MODULE MCCategories ----------------------------
(* Categories with two slugs that differ by case only, and a third.         *)
EXTENDS Categories, TLC

CONSTANTS phone, Phone, tablet

MCKeys == {phone, Phone, tablet}

MCFold == (Phone :> phone) @@ (phone :> phone) @@ (tablet :> tablet)

ASSUME CategoriesAssumption == CategoryTable

Symmetry == Permutations(Ids) \cup Permutations(Requests)
=============================================================================
