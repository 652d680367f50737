----------------------------- MODULE AtLeastOnce -----------------------------
(***************************************************************************)
(* What common/Menssaging promises to an event handler, without queues,    *)
(* channels, replicas or crashes: an announced event is owed to the        *)
(* handler, if anybody subscribes to it, until a call of the handler has   *)
(* succeeded or the event turns out to be garbage, and the handler         *)
(* succeeds once more than the event was taken back, at most.              *)
(***************************************************************************)
EXTENDS Naturals

CONSTANTS Messages, Garbage

VARIABLES announced,  \* the events that were published
          owed,       \* the ones the handler has still to be called for
          calls,      \* calls[m]: how often the handler has succeeded with m
          returns     \* returns[m]: how often m was taken back from a consumer

Init ==
    /\ announced = {} /\ owed = {}
    /\ calls = [m \in Messages |-> 0] /\ returns = [m \in Messages |-> 0]

\* An event that nobody subscribes to is never owed.
Announce(m) ==
    /\ m \notin announced
    /\ announced' = announced \cup {m}
    /\ owed' \in {owed, owed \cup {m}}
    /\ UNCHANGED <<calls, returns>>

\* Only for what is owed, or what was taken back from under the call.
Call(m) ==
    /\ m \in owed \/ returns[m] > 0
    /\ calls[m] <= returns[m]
    /\ calls' = [calls EXCEPT ![m] = @ + 1]
    /\ UNCHANGED <<announced, owed, returns>>

TakeBack(S) ==
    /\ S \subseteq owed
    /\ returns' = [m \in Messages |-> returns[m] + (IF m \in S THEN 1 ELSE 0)]
    /\ UNCHANGED <<announced, owed, calls>>

Forget(m) ==
    /\ m \in owed
    /\ calls[m] > 0 \/ m \in Garbage
    /\ owed' = owed \ {m}
    /\ UNCHANGED <<announced, calls, returns>>

Next ==
    \/ \E m \in Messages : Announce(m) \/ Call(m) \/ Forget(m)
    \/ \E S \in SUBSET Messages : TakeBack(S)

Spec == Init /\ [][Next]_<<announced, owed, calls, returns>>
=============================================================================
