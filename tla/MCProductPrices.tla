-------------------------- MODULE MCProductPrices --------------------------
(* A small price table for TLC. *)
EXTENDS ProductPrices, TLC

MCTimes == 0..1

ASSUME PricesAssumption == PriceTable

Symmetry == Permutations(Ids) \cup Permutations(Requests)
=============================================================================
