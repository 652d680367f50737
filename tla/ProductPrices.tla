--------------------------- MODULE ProductPrices ---------------------------
(***************************************************************************)
(* market.api: the price calendar of the products.  A price is valid from  *)
(* ValidFrom to ValidTo, both ends included, or for ever without a ValidTo.*)
(* The same rule is written three times: by the service (HasOverlapping-   *)
(* IntervalAsync), by the table (an EXCLUDE constraint over tsrange) and   *)
(* by the reader of the current price.                                     *)
(***************************************************************************)
EXTENDS MarketCrud, Naturals, FiniteSets

CONSTANTS Products,  \* the products the prices are for
          Times      \* the instants ValidFrom and ValidTo may name

Price == [product : Products, from : Times, to : Times \cup {None}]

\* DateTime comparison of ValidateInterval, which the CHECK constraint repeats.
ValidInterval(k) == k.to # None => k.from <= k.to

\* CK_ProductPrice_ValidInterval.
IntervalChecked(k) == k.to # None => k.to >= k.from

\* Mutant: the end of an interval does not count.
OverlapOpen(k, l) ==
    /\ k.product = l.product
    /\ l.to # None => k.from < l.to
    /\ k.to # None => k.to > l.from

\* HasOverlappingIntervalAsync: a missing ValidTo is 'infinity'.
Overlap(k, l) ==
    /\ k.product = l.product
    /\ l.to # None => k.from <= l.to
    /\ k.to # None => k.to >= l.from

\* The instants of tsrange(ValidFrom, COALESCE(ValidTo, 'infinity'), '[]').
Instants(k) == {t \in Times : k.from <= t /\ (k.to # None => t <= k.to)}

\* Mutant: the range is '[)'.
RangesMeetHalfOpen(k, l) ==
    /\ k.product = l.product
    /\ (Instants(k) \ {k.to}) \cap (Instants(l) \ {l.to}) # {}

\* EX_ProductPrice_Product_ValidInterval_Active.
RangesMeet(k, l) == k.product = l.product /\ Instants(k) \cap Instants(l) # {}

\* The generic table is this one.
PriceTable ==
    /\ Times \subseteq Nat /\ None \notin Nat
    /\ Keys = Price
    /\ \A k \in Price : (Valid(k) <=> ValidInterval(k)) /\ (Check(k) <=> IntervalChecked(k))
    /\ \A k, l \in Price : /\ Clash(k, l) <=> Overlap(k, l)
                           /\ Excludes(k, l) <=> RangesMeet(k, l)

\* Mutant: the reader forgets "DeletedAt" IS NULL.
CurrentOrDeleted(p, now) ==
    {i \in Ids : /\ rows[i] # None
                 /\ rows[i].key.product = p
                 /\ rows[i].key.from <= now
                 /\ rows[i].key.to # None => rows[i].key.to >= now}

\* The rows the WHERE of GetCurrentByProductIdAsync selects at the instant now.
Current(p, now) ==
    {i \in Ids : /\ Live(i)
                 /\ rows[i].key.product = p
                 /\ rows[i].key.from <= now
                 /\ rows[i].key.to # None => rows[i].key.to >= now}

-----------------------------------------------------------------------------
\* A product has at most one price at any instant: the ORDER BY ... LIMIT 1 of
\* the reader never chooses.
CurrentPriceIsUnique ==
    \A p \in Products, now \in Times : Cardinality(Current(p, now)) <= 1

Slots == Products \X Times

\* Seen as a calendar of instants, the table is a registry.
Calendar == INSTANCE Registry WITH
    Entries <- Ids,
    held <- [i \in Ids |-> {s \in Slots : i \in Current(s[1], s[2])}],
    withdrawn <- {i \in Ids : rows[i] # None /\ rows[i].deleted}

\* Requests, checks and constraint implement the calendar: an instant passes from
\* one price to another only by being given up first.
CalendarKept == Calendar!Spec
=============================================================================
