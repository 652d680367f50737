------------------------------ MODULE Registry ------------------------------
(***************************************************************************)
(* What a uniqueness rule of market.api promises, without requests, checks *)
(* or constraints: entries hold sets of slots (an instant of a product's   *)
(* calendar, a slug, a product's only stock row), no slot is held twice,   *)
(* and an entry that was withdrawn never holds anything again.             *)
(***************************************************************************)
CONSTANTS Entries, Slots

VARIABLES held,       \* held[e]: the slots entry e holds
          withdrawn   \* the entries that were withdrawn

Free(e, S) == \A f \in Entries \ {e} : S \cap held[f] = {}

Init == held = [e \in Entries |-> {}] /\ withdrawn = {}

\* A new entry takes its slots, or an entry exchanges its slots for others.
Take(e, S) ==
    /\ e \notin withdrawn
    /\ Free(e, S)
    /\ held' = [held EXCEPT ![e] = S]
    /\ UNCHANGED withdrawn

Withdraw(e) ==
    /\ e \notin withdrawn
    /\ held' = [held EXCEPT ![e] = {}]
    /\ withdrawn' = withdrawn \cup {e}

Next == \E e \in Entries : Withdraw(e) \/ \E S \in SUBSET Slots : Take(e, S)

Spec == Init /\ [][Next]_<<held, withdrawn>>
=============================================================================
