----------------------------- MODULE Categories -----------------------------
(***************************************************************************)
(* market.api: the tables whose rule is one equal column among live rows.  *)
(* Category folds the case of its slug, in the query of the service and in *)
(* the index of the table; Product ("Code") and ProductStock ("ProductId") *)
(* are the case where Fold is the identity.                                *)
(***************************************************************************)
EXTENDS MarketCrud

CONSTANTS Fold  \* Fold[k]: LOWER of the slug k

\* No rule on the dto alone, and no CHECK constraint.
Unrestricted(k) == TRUE

\* Mutant: the query compares slugs as they are written.
SlugExistsExactly(k, l) == k = l

\* SlugExistsAsync: LOWER("Slug") = LOWER(@Slug).
SlugExists(k, l) == Fold[k] = Fold[l]

\* UX_Category_Slug_Active, on LOWER("Slug") WHERE "DeletedAt" IS NULL.
SlugIndex(k, l) == Fold[k] = Fold[l]

\* The generic table is this one.
CategoryTable == /\ DOMAIN Fold = Keys
                 /\ \A k, l \in Keys : /\ Valid(k) /\ Check(k)
                                       /\ Clash(k, l) <=> SlugExists(k, l)
                                       /\ Excludes(k, l) <=> SlugIndex(k, l)

\* The folded slugs, and the table seen as a registry of them.
Slugs == {Fold[k] : k \in Keys}

Directory == INSTANCE Registry WITH
    Entries <- Ids,
    Slots <- Slugs,
    held <- [i \in Ids |-> IF Live(i) THEN {Fold[rows[i].key]} ELSE {}],
    withdrawn <- {i \in Ids : rows[i] # None /\ rows[i].deleted}

\* Requests, the query of the service and the index of the table implement the
\* registry: a slug passes to another category only after its own one has been
\* renamed or deleted, and a deleted category takes no slug again.
SlugsKept == Directory!Spec
=============================================================================
