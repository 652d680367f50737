------------------------- MODULE MCScrollPagination -------------------------
(* Two visits, two filters: one with a full page and a rest, one with less *)
(* than a page.                                                            *)
EXTENDS ScrollPagination, TLC

CONSTANTS p1, p2, f1, f2, all, one

MCPages == {p1, p2}
MCFrames == {f1, f2}
MCFilters == {all, one}
MCFullPages == all :> 1 @@ one :> 0
=============================================================================
