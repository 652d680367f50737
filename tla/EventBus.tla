------------------------------ MODULE EventBus ------------------------------
(***************************************************************************)
(* common/Menssaging: events published by RabbitMqEventBus reach the       *)
(* replicas of one RabbitMqConsumerBackgroundService over a durable queue  *)
(* with a configured name.  Messages are numbered in the order in which    *)
(* they are published.                                                     *)
(*                                                                         *)
(* The broker and its client library are external: the broker hands every  *)
(* ready message over at once (there is no BasicQos), takes back what is   *)
(* unacknowledged when a channel goes, and keeps what is persistent; the   *)
(* client dispatches one delivery of a channel at a time, recovers a lost  *)
(* connection with its consumers, ignores settlements of deliveries from   *)
(* before, drops the deliveries it has not dispatched, and does not recover*)
(* a channel the broker has closed.                                        *)
(***************************************************************************)
EXTENDS Naturals, SequencesExt

CONSTANTS LastMessage,  \* bound: how many events are published
          Consumers,
          Poison,       \* messages whose handler always throws
          Garbage,      \* messages that do not deserialize to an event
          MaxTroubles,  \* bound: stops, crashes, losses and passing failures
          None

Messages == 1..LastMessage

\* live: the channel the message came over is still there to settle it.
Delivery == [msg : Messages, live : BOOLEAN, pc : {"decode", "handle", "ack", "drop", "requeue"}]

ASSUME BusAssumption == /\ LastMessage \in Nat /\ MaxTroubles \in Nat
                        /\ IsFiniteSet(Consumers)
                        /\ Poison \subseteq Messages /\ Garbage \subseteq Messages
                        /\ None \notin Delivery

VARIABLES bound,      \* whether the queue is declared and bound to the exchange
          published,  \* how many events have been published
          queue,      \* the messages that are ready in the queue
          channel,    \* channel[c]: "closed", "open", "deaf" or "stopping"
          local,      \* local[c]: deliveries waiting for the handler of c
          running,    \* running[c]: the delivery c is handling, or None
          handled,    \* handled[m]: how often a handler returned for m
          returned,   \* returned[m]: how often m went back to the queue (but for Poison,
                      \* which does so for ever)
          settled,    \* the messages the broker has forgotten
          troubles

vars == <<bound, published, queue, channel, local, running, handled, returned,
          settled, troubles>>

Init ==
    /\ bound = FALSE /\ published = 0 /\ queue = {}
    /\ channel = [c \in Consumers |-> "closed"]
    /\ local = [c \in Consumers |-> <<>>]
    /\ running = [c \in Consumers |-> None]
    /\ handled = [m \in Messages |-> 0] /\ returned = [m \in Messages |-> 0]
    /\ settled = {} /\ troubles = 0

-----------------------------------------------------------------------------
Open == {c \in Consumers : channel[c] = "open"}
At(c, pc) == running[c] # None /\ running[c].pc = pc
Goto(c, pc) == running' = [running EXCEPT ![c].pc = pc]
Trouble == troubles < MaxTroubles /\ troubles' = troubles + 1

\* What the broker has delivered to c without an answer so far.
Unacked(c) == ToSet(local[c])
              \cup (IF running[c] # None /\ running[c].live THEN {running[c].msg} ELSE {})

\* The messages of S are ready again.
Returned(S) == /\ queue' = queue \cup S
               /\ returned' = [m \in Messages |-> returned[m] + (IF m \in S \ Poison THEN 1 ELSE 0)]

-----------------------------------------------------------------------------
(* The broker                                                              *)

\* PublishAsync; mandatory is false, so without a binding nobody gets it.
Publish ==
    /\ published < LastMessage
    /\ published' = published + 1
    /\ \/ bound /\ queue' = queue \cup {published + 1} /\ UNCHANGED settled
       \/ ~bound /\ settled' = settled \cup {published + 1} /\ UNCHANGED queue
    /\ UNCHANGED <<bound, channel, local, running, handled, returned, troubles>>

\* Mutant: BasicQos(prefetchCount: 1).
DeliverOne == \E c \in Open :
    LET m == CHOOSE x \in queue : \A y \in queue : x <= y IN
    /\ queue # {} /\ Unacked(c) = {}
    /\ local' = [local EXCEPT ![c] = <<m>>]
    /\ queue' = queue \ {m}
    /\ UNCHANGED <<bound, published, channel, running, handled, returned, settled, troubles>>

\* Messages in the order in which they were published.
Ascending == {s \in UNION {[1..n -> Messages] : n \in 0..LastMessage} :
                 \A i, j \in DOMAIN s : i < j => s[i] < s[j]}

\* Every ready message goes to one of the consumers, in order.
Deliver ==
    /\ queue # {} /\ queue' = {}
    /\ \E batch \in [Open -> Ascending] :
         /\ queue = UNION {ToSet(batch[c]) : c \in Open}
         /\ \A c, d \in Open : c # d => ToSet(batch[c]) \cap ToSet(batch[d]) = {}
         /\ local' = [c \in Consumers |-> IF c \in Open THEN local[c] \o batch[c] ELSE local[c]]
    /\ UNCHANGED <<bound, published, channel, running, handled, returned, settled, troubles>>

-----------------------------------------------------------------------------
(* ExecuteAsync                                                            *)

\* Connect, declare the exchange and the queue, bind, consume.
Start(c) ==
    /\ channel[c] = "closed"
    /\ channel' = [channel EXCEPT ![c] = "open"] /\ bound' = TRUE
    /\ UNCHANGED <<published, queue, local, running, handled, returned, settled, troubles>>

\* ReceivedAsync is called with the next delivery.
Receive(c) ==
    /\ running[c] = None /\ local[c] # <<>>
    /\ running' = [running EXCEPT ![c] = [msg |-> Head(local[c]), live |-> TRUE,
                                          pc |-> "decode"]]
    /\ local' = [local EXCEPT ![c] = Tail(@)]
    /\ UNCHANGED <<bound, published, queue, channel, handled, returned, settled, troubles>>

\* Mutant: the acknowledgement is sent before the handler runs.
DecodeAndAck(c) ==
    /\ At(c, "decode")
    /\ running' = [running EXCEPT ![c].pc = "handle", ![c].live = FALSE]
    /\ settled' = IF running[c].live THEN settled \cup {running[c].msg} ELSE settled
    /\ UNCHANGED <<bound, published, queue, channel, local, handled, returned, troubles>>

\* The envelope, then the event.
Decode(c) ==
    /\ At(c, "decode")
    /\ Goto(c, IF running[c].msg \in Garbage THEN "drop" ELSE "handle")
    /\ UNCHANGED <<bound, published, queue, channel, local, handled, returned, settled,
                   troubles>>

\* HandleAsync returns.
Handle(c) ==
    /\ At(c, "handle") /\ running[c].msg \notin Poison
    /\ Goto(c, "ack")
    /\ handled' = [handled EXCEPT ![running[c].msg] = @ + 1]
    /\ UNCHANGED <<bound, published, queue, channel, local, returned, settled, troubles>>

\* HandleAsync throws: for a poison message every time, for another one because
\* something it needs is away.
HandleFails(c) ==
    /\ At(c, "handle") /\ Goto(c, "requeue")
    /\ \/ running[c].msg \in Poison /\ UNCHANGED troubles
       \/ running[c].msg \notin Poison /\ Trouble
    /\ UNCHANGED <<bound, published, queue, channel, local, handled, returned, settled>>

\* Mutant: what cannot be settled is published again.
SettleRepublishing(c) ==
    LET m == running[c].msg IN
    /\ \E pc \in {"ack", "drop", "requeue"} : At(c, pc)
    /\ running' = [running EXCEPT ![c] = None]
    /\ \/ ~running[c].live /\ queue' = queue \cup {m} /\ UNCHANGED <<returned, settled>>
       \/ /\ running[c].live /\ running[c].pc = "requeue"
          /\ Returned({m}) /\ UNCHANGED settled
       \/ /\ running[c].live /\ running[c].pc # "requeue"
          /\ settled' = settled \cup {m} /\ UNCHANGED <<queue, returned>>
    /\ UNCHANGED <<bound, published, channel, local, handled, troubles>>

\* BasicAck, BasicNack(requeue: false) or, from the catch, BasicNack(requeue: true).
\* Over a channel that is gone the call throws, in the catch as well, or is ignored.
Settle(c) ==
    LET m == running[c].msg IN
    /\ \E pc \in {"ack", "drop", "requeue"} : At(c, pc)
    /\ running' = [running EXCEPT ![c] = None]
    /\ \/ ~running[c].live /\ UNCHANGED <<queue, returned, settled>>
       \/ /\ running[c].live /\ running[c].pc = "requeue"
          /\ Returned({m}) /\ UNCHANGED settled
       \/ /\ running[c].live /\ running[c].pc # "requeue"
          /\ settled' = settled \cup {m} /\ UNCHANGED <<queue, returned>>
    /\ UNCHANGED <<bound, published, channel, local, handled, troubles>>

-----------------------------------------------------------------------------
(* What goes wrong                                                         *)

\* The channel of c goes; what runs keeps running and cannot be settled.
Close(c, state) ==
    /\ channel[c] = "open"
    /\ channel' = [channel EXCEPT ![c] = state]
    /\ local' = [local EXCEPT ![c] = <<>>]
    /\ running' = IF running[c] = None THEN running ELSE [running EXCEPT ![c].live = FALSE]
    /\ Returned(Unacked(c))
    /\ Trouble
    /\ UNCHANGED <<bound, published, handled, settled>>

\* The connection breaks and is recovered.
Disconnect(c) == Close(c, "open")

\* The broker closes the channel, because a handler took too long: the service
\* waits for ever in Task.Delay and consumes nothing.
CloseChannel(c) == Close(c, "deaf")

\* StopAsync: cancel, close; the handler is not waited for.
Stop(c) == Close(c, "stopping")

\* The process ends, after StopAsync or without it.
Exit(c) ==
    /\ channel[c] # "closed"
    /\ channel' = [channel EXCEPT ![c] = "closed"]
    /\ local' = [local EXCEPT ![c] = <<>>]
    /\ running' = [running EXCEPT ![c] = None]
    /\ Returned(Unacked(c))
    /\ \/ channel[c] = "stopping" /\ UNCHANGED troubles
       \/ channel[c] # "stopping" /\ Trouble
    /\ UNCHANGED <<bound, published, handled, settled>>

-----------------------------------------------------------------------------
Work(c) == Receive(c) \/ Decode(c) \/ Handle(c) \/ HandleFails(c) \/ Settle(c)

Lose(c) == Disconnect(c) \/ CloseChannel(c) \/ Stop(c) \/ Exit(c)

Next == \/ Publish \/ Deliver
        \/ \E c \in Consumers : Start(c) \/ Work(c) \/ Lose(c)

\* The broker delivers, and a process that is up goes on with what it has; nobody
\* is obliged to publish, or to start a process again.
Fairness == WF_vars(Deliver) /\ \A c \in Consumers : WF_vars(Work(c))

Spec == Init /\ [][Next]_vars /\ Fairness

-----------------------------------------------------------------------------
\* Whatever is lost, stopped or crashes, an event that was routed is ready, or held
\* by exactly one consumer, or settled: it is never in two places and never gone.
NothingIsForgotten ==
    \A m \in 1..published :
        \/ /\ m \in queue \cup settled /\ \A c \in Consumers : m \notin Unacked(c)
           /\ m \notin queue \cap settled
        \/ /\ m \notin queue \cup settled
           /\ \E c \in Consumers :
                 m \in Unacked(c) /\ \A d \in Consumers \ {c} : m \notin Unacked(d)

\* Seen by the handler, the bus owes what was routed and is not settled.
Promise == INSTANCE AtLeastOnce WITH
    announced <- 1..published, owed <- (1..published) \ settled,
    calls <- handled, returns <- returned

\* The bus keeps its promise: an event is forgotten only after a call that succeeded,
\* unless it was garbage, and a call is for what is owed or was taken back meanwhile.
AtLeastOnceKept == Promise!Spec

\* More than once only for a reason: every further handling of an event follows a
\* return of it to the queue.
RepeatedOnlyIfReturned == \A m \in Messages : handled[m] <= 1 + returned[m]

\* An event that was routed and can be handled is handled in the end, if from some
\* time on a consumer stays connected; poison messages, which go round for ever, do
\* not keep it from that.
EventsAreHandled ==
    <>[](Open # {}) =>
        \A m \in Messages \ (Poison \cup Garbage) : [](m \in queue => <>(handled[m] > 0))
=============================================================================
