--------------------------- MODULE EventBusProofs ---------------------------
(* Proofs about EventBus, for every number of events, replicas and troubles, *)
(* and every set of poison messages and garbage.                             *)
EXTENDS EventBus, FiniteSetTheorems, SequenceTheorems, TLAPS

Typed ==
    /\ published \in 0..LastMessage
    /\ queue \subseteq 1..published /\ settled \subseteq 1..published
    /\ local \in [Consumers -> Seq(Messages)]
    /\ running \in [Consumers -> Delivery \cup {None}]
    /\ handled \in [Messages -> Nat] /\ returned \in [Messages -> Nat]

\* A consumer holds a message once: it is in the buffer of the client once, and not
\* there while it runs and can be settled.
HeldOnce ==
    \A c \in Consumers :
        /\ IsInjective(local[c])
        /\ running[c] # None /\ running[c].live => running[c].msg \notin ToSet(local[c])

\* Everything routed is somewhere, and what is in two places is in one.
OnePlace ==
    /\ queue \cap settled = {}
    /\ \A c \in Consumers : Unacked(c) \subseteq (1..published) \ (queue \cup settled)
    /\ \A c, d \in Consumers : c # d => Unacked(c) \cap Unacked(d) = {}
    /\ 1..published \subseteq queue \cup settled \cup UNION {Unacked(c) : c \in Consumers}

\* What the place of a handler says of its message.
RightPlace ==
    \A c \in Consumers :
        /\ At(c, "ack") => handled[running[c].msg] > 0
        /\ At(c, "drop") => running[c].msg \in Garbage

\* The consumers that may still handle m, over a channel that is there or gone.
Trying(m) == {c \in Consumers : /\ running[c] # None /\ running[c].msg = m
                                /\ running[c].pc \in {"decode", "handle"}}

\* Whether a handling of m is still to begin.
Due(m) == m > published \/ m \in queue \/ \E c \in Consumers : m \in ToSet(local[c])

\* Every handling of m, done, under way or to come, but for one, is paid for by a
\* return of m to the queue.
Paid(m) == handled[m] + Cardinality(Trying(m)) + (IF Due(m) THEN 1 ELSE 0) <= 1 + returned[m]

Counted == \A m \in Messages : IF m \in Poison THEN handled[m] = 0 ELSE Paid(m)

IInv == Typed /\ HeldOnce /\ OnePlace /\ RightPlace /\ Counted

-----------------------------------------------------------------------------
(* Sequences as sets                                                       *)

\* What is appended is added, without repetition if it was not there.
LEMMA ConcatSet ==
    ASSUME NEW S, NEW s \in Seq(S), NEW t \in Seq(S)
    PROVE  /\ ToSet(s \o t) = ToSet(s) \cup ToSet(t)
           /\ IsInjective(s) /\ IsInjective(t) /\ ToSet(s) \cap ToSet(t) = {}
                => IsInjective(s \o t)
  <1>1. /\ s \o t \in Seq(S) /\ Len(s) \in Nat /\ Len(t) \in Nat
        /\ Len(s \o t) = Len(s) + Len(t)
        /\ DOMAIN s = 1..Len(s) /\ DOMAIN t = 1..Len(t) /\ DOMAIN (s \o t) = 1..(Len(s) + Len(t))
        /\ \A i \in 1..Len(s) : (s \o t)[i] = s[i]
        /\ \A i \in 1..Len(t) : (s \o t)[Len(s) + i] = t[i]
    OBVIOUS
  <1>2. \A i \in 1..(Len(s) + Len(t)) :
           \/ i \in 1..Len(s)
           \/ i - Len(s) \in 1..Len(t) /\ i = Len(s) + (i - Len(s))
    BY <1>1
  <1>3. ToSet(s \o t) = ToSet(s) \cup ToSet(t)
    <2>1. ToSet(s \o t) \subseteq ToSet(s) \cup ToSet(t)
      BY <1>1, <1>2 DEF ToSet
    <2>2. ToSet(s) \subseteq ToSet(s \o t)
      BY <1>1 DEF ToSet
    <2>3. ToSet(t) \subseteq ToSet(s \o t)
      <3>1. \A i \in 1..Len(t) : Len(s) + i \in 1..(Len(s) + Len(t))
        BY <1>1
      <3>2. QED
        BY <1>1, <3>1 DEF ToSet
    <2>4. QED
      BY <2>1, <2>2, <2>3
  <1>4. ASSUME IsInjective(s), IsInjective(t), ToSet(s) \cap ToSet(t) = {},
               NEW i \in DOMAIN (s \o t), NEW j \in DOMAIN (s \o t), (s \o t)[i] = (s \o t)[j]
        PROVE  i = j
    <2>1. CASE i \in 1..Len(s) /\ j \in 1..Len(s)
      BY <1>1, <1>4, <2>1 DEF IsInjective
    <2>2. CASE i - Len(s) \in 1..Len(t) /\ j - Len(s) \in 1..Len(t)
      <3>1. (s \o t)[i] = t[i - Len(s)] /\ (s \o t)[j] = t[j - Len(s)]
        BY <1>1, <2>2
      <3>2. i - Len(s) = j - Len(s)
        BY <1>1, <1>4, <2>2, <3>1 DEF IsInjective
      <3>3. QED
        BY <1>1, <3>2
    <2>3. ASSUME NEW k \in 1..Len(s), NEW l \in 1..Len(t), s[k] = t[l] PROVE FALSE
      BY <1>1, <1>4, <2>3 DEF ToSet
    <2>4. QED
      BY <1>1, <1>2, <1>4, <2>1, <2>2, <2>3
  <1>5. QED
    BY <1>3, <1>4 DEF IsInjective

\* What is taken from the head is gone from the rest, if nothing is repeated.
LEMMA HeadSet ==
    ASSUME NEW S, NEW s \in Seq(S), s # <<>>, IsInjective(s)
    PROVE  /\ Head(s) \in S /\ Tail(s) \in Seq(S)
           /\ ToSet(s) = {Head(s)} \cup ToSet(Tail(s))
           /\ Head(s) \notin ToSet(Tail(s))
           /\ IsInjective(Tail(s))
  <1>1. /\ Head(s) \in S /\ Tail(s) \in Seq(S) /\ Head(s) = s[1]
        /\ Len(s) \in Nat /\ Len(s) >= 1 /\ Len(Tail(s)) = Len(s) - 1
        /\ DOMAIN s = 1..Len(s) /\ DOMAIN Tail(s) = 1..(Len(s) - 1)
        /\ \A i \in 1..(Len(s) - 1) : Tail(s)[i] = s[i + 1]
    <2>1. Len(s) \in Nat /\ Len(s) # 0
      BY EmptySeq
    <2>2. QED
      BY <2>1, HeadTailProperties
  <1>2. \A i \in 1..Len(s) : i = 1 \/ (i - 1 \in 1..(Len(s) - 1) /\ s[i] = Tail(s)[i - 1])
    <2>1. ASSUME NEW i \in 1..Len(s), i # 1 PROVE i - 1 \in 1..(Len(s) - 1)
      BY <1>1, <2>1
    <2>2. ASSUME NEW i \in 1..Len(s), i # 1 PROVE s[i] = Tail(s)[i - 1]
      <3>1. Tail(s)[i - 1] = s[(i - 1) + 1] /\ (i - 1) + 1 = i
        BY <1>1, <2>1, <2>2
      <3>2. QED
        BY <3>1
    <2>3. QED
      BY <2>1, <2>2
  <1>3. \A i \in 1..(Len(s) - 1) : i + 1 \in 1..Len(s) /\ i + 1 # 1
    BY <1>1
  <1>4. ToSet(s) = {Head(s)} \cup ToSet(Tail(s))
    <2>1. 1 \in 1..Len(s)
      BY <1>1
    <2>2. ASSUME NEW i \in 1..Len(s) PROVE s[i] \in {Head(s)} \cup ToSet(Tail(s))
      <3>1. CASE i = 1
        BY <1>1, <3>1
      <3>2. CASE i # 1
        BY <1>1, <1>2, <3>2 DEF ToSet
      <3>3. QED
        BY <3>1, <3>2
    <2>3. ToSet(Tail(s)) \subseteq ToSet(s)
      BY <1>1, <1>3 DEF ToSet
    <2>4. Head(s) \in ToSet(s)
      BY <1>1, <2>1 DEF ToSet
    <2>5. QED
      BY <1>1, <2>2, <2>3, <2>4 DEF ToSet
  <1>5. Head(s) \notin ToSet(Tail(s))
    <2>1. 1 \in 1..Len(s)
      BY <1>1
    <2>2. QED
      BY <1>1, <1>3, <2>1 DEF ToSet, IsInjective
  <1>6. IsInjective(Tail(s))
    BY <1>1, <1>3 DEF IsInjective
  <1>7. QED
    BY <1>1, <1>4, <1>5, <1>6

\* A batch is without repetition, and its messages are messages.
LEMMA BatchTyped ==
    ASSUME NEW s \in Ascending
    PROVE  s \in Seq(Messages) /\ IsInjective(s) /\ ToSet(s) \subseteq Messages
  <1>1. PICK n \in 0..LastMessage : s \in [1..n -> Messages]
    BY DEF Ascending
  <1>2. \A i, j \in 1..n : i < j => s[i] < s[j]
    BY <1>1 DEF Ascending
  <1>3. \A i, j \in 1..n : s[i] = s[j] => i = j
    <2>1. SUFFICES ASSUME NEW i \in 1..n, NEW j \in 1..n, i # j PROVE s[i] # s[j]
      OBVIOUS
    <2>2. i < j \/ j < i
      BY <2>1
    <2>3. s[i] \in Nat /\ s[j] \in Nat
      BY <1>1 DEF Messages
    <2>4. QED
      BY <1>2, <2>2, <2>3
  <1>4. s \in Seq(Messages)
    BY <1>1, BusAssumption, SeqDef
  <1>5. QED
    BY <1>1, <1>3, <1>4 DEF IsInjective, ToSet

-----------------------------------------------------------------------------
(* What the actions have in common                                         *)

\* A delivery that is handled has a message, and None is not one.
LEMMA RunningTyped ==
    ASSUME Typed, NEW c \in Consumers, running[c] # None
    PROVE  /\ running[c] \in Delivery
           /\ running[c].msg \in Messages /\ running[c].live \in BOOLEAN
           /\ running[c].pc \in {"decode", "handle", "ack", "drop", "requeue"}
  BY DEF Typed, Delivery

\* Handlers are as many as there are consumers, at most.
LEMMA TryingFinite ==
    ASSUME NEW m
    PROVE  IsFiniteSet(Trying(m)) /\ Cardinality(Trying(m)) \in Nat
  <1>1. Trying(m) \in SUBSET Consumers
    BY DEF Trying
  <1>2. IsFiniteSet(Trying(m))
    BY <1>1, BusAssumption, FS_Subset
  <1>3. QED
    BY <1>2, FS_CardinalityType

\* A message stays paid for if no handling of it begins, or a return pays for it.
LEMMA StillPaid ==
    ASSUME NEW m \in Messages, Paid(m),
           handled[m] \in Nat, returned[m] \in Nat, returned'[m] \in Nat,
           handled'[m] = handled[m], Trying(m)' \subseteq Trying(m),
           \/ returned'[m] = returned[m] /\ (Due(m)' => Due(m))
           \/ returned'[m] = returned[m] + 1
    PROVE  Paid(m)'
  <1>1. /\ Cardinality(Trying(m)) \in Nat /\ IsFiniteSet(Trying(m))
    BY TryingFinite
  <1>2. Cardinality(Trying(m)') \in Nat /\ Cardinality(Trying(m)') <= Cardinality(Trying(m))
    BY <1>1, FS_Subset, FS_CardinalityType
  <1>3. Cardinality(Trying(m))' \in Nat /\ Cardinality(Trying(m))' <= Cardinality(Trying(m))
    BY <1>2
  <1> DEFINE t == Cardinality(Trying(m))
             u == Cardinality(Trying(m))'
             a == IF Due(m) THEN 1 ELSE 0
             b == IF Due(m)' THEN 1 ELSE 0
  <1>4. handled[m] + t + a <= 1 + returned[m]
    BY DEF Paid
  <1>5. a \in {0, 1} /\ b \in {0, 1} /\ ((Due(m)' => Due(m)) => b <= a)
    OBVIOUS
  <1>6. t \in Nat /\ u \in Nat /\ u <= t
    BY <1>1, <1>3
  <1>7. handled'[m] + u + b <= 1 + returned'[m]
    <2> HIDE DEF t, u, a, b
    <2>1. CASE returned'[m] = returned[m] /\ (Due(m)' => Due(m))
      BY <1>4, <1>5, <1>6, <2>1
    <2>2. CASE returned'[m] = returned[m] + 1
      BY <1>4, <1>5, <1>6, <2>2
    <2>3. QED
      BY <2>1, <2>2
  <1>8. QED
    BY <1>7 DEF Paid

\* The place of a handler changes and nothing else that says where a message is.
LEMMA PlaceStep ==
    ASSUME IInv, NEW c \in Consumers, running[c] # None,
           NEW pc \in {"decode", "handle", "ack", "drop", "requeue"}, Goto(c, pc),
           published' = published, queue' = queue, settled' = settled, local' = local
    PROVE  /\ running' \in [Consumers -> Delivery \cup {None}]
           /\ running'[c].msg = running[c].msg /\ running'[c].pc = pc /\ running'[c] # None
           /\ \A d \in Consumers \ {c} : running'[d] = running[d]
           /\ HeldOnce' /\ OnePlace'
           /\ \A m : Due(m)' <=> Due(m)
  <1>1. Typed /\ running[c] \in Delivery
    BY RunningTyped DEF IInv
  <1>2. /\ running'[c] = [running[c] EXCEPT !.pc = pc]
        /\ \A d \in Consumers \ {c} : running'[d] = running[d]
        /\ DOMAIN running' = Consumers
    BY <1>1 DEF Goto, Typed
  <1>3. /\ running'[c] \in Delivery /\ running'[c].msg = running[c].msg
        /\ running'[c].live = running[c].live /\ running'[c].pc = pc
    BY <1>1, <1>2 DEF Delivery
  <1>4. running'[c] # None
    BY <1>3, BusAssumption
  <1>5. running' \in [Consumers -> Delivery \cup {None}]
    BY <1>1, <1>2, <1>3 DEF Goto, Typed
  <1>6. \A d \in Consumers : Unacked(d)' = Unacked(d)
    BY <1>2, <1>3, <1>4 DEF Unacked
  <1>7. HeldOnce'
    BY <1>2, <1>3 DEF IInv, HeldOnce
  <1>8. OnePlace'
    BY <1>6 DEF IInv, OnePlace
  <1>9. QED
    BY <1>2, <1>3, <1>4, <1>5, <1>7, <1>8 DEF Due

-----------------------------------------------------------------------------
(* The broker                                                              *)

LEMMA PublishStep == ASSUME IInv, Publish PROVE IInv'
  <1>1. /\ published < LastMessage /\ published' = published + 1
        /\ published \in Nat /\ LastMessage \in Nat /\ published <= LastMessage
        /\ UNCHANGED <<local, running, handled, returned>>
    BY BusAssumption DEF Publish, IInv, Typed
  <1>2. /\ published + 1 \in Messages /\ published + 1 \notin 1..published
        /\ 1..published' = (1..published) \cup {published + 1}
        /\ published' \in 0..LastMessage
    BY <1>1 DEF Messages
  <1>3. \/ queue' = queue \cup {published + 1} /\ settled' = settled
        \/ settled' = settled \cup {published + 1} /\ queue' = queue
    BY DEF Publish
  <1>4. \A c \in Consumers : Unacked(c)' = Unacked(c)
    BY <1>1 DEF Unacked
  <1>5. queue \subseteq 1..published /\ settled \subseteq 1..published
    BY DEF IInv, Typed
  <1>6. Typed'
    BY <1>1, <1>2, <1>3 DEF IInv, Typed
  <1>7. HeldOnce' /\ RightPlace'
    BY <1>1 DEF IInv, HeldOnce, RightPlace, At
  <1>8. OnePlace'
    <2>1. (queue \cap settled = {})'
      BY <1>2, <1>3, <1>5 DEF IInv, OnePlace
    <2>2. \A c \in Consumers : Unacked(c)' \subseteq (1..published') \ (queue' \cup settled')
      BY <1>2, <1>3, <1>4 DEF IInv, OnePlace
    <2>3. \A c, d \in Consumers : c # d => Unacked(c)' \cap Unacked(d)' = {}
      BY <1>4 DEF IInv, OnePlace
    <2>4. 1..published' \subseteq queue' \cup settled' \cup UNION {Unacked(c)' : c \in Consumers}
      <3>1. UNION {Unacked(c)' : c \in Consumers} = UNION {Unacked(c) : c \in Consumers}
        BY <1>4
      <3>2. QED
        BY <1>2, <1>3, <3>1 DEF IInv, OnePlace
    <2>5. QED
      BY <2>1, <2>2, <2>3, <2>4 DEF OnePlace
  <1>9. Counted'
    <2> SUFFICES ASSUME NEW m \in Messages, m \notin Poison PROVE Paid(m)'
      BY <1>1 DEF IInv, Counted
    <2>1. Due(m)' => Due(m)
      BY <1>1, <1>2, <1>3 DEF Due, Messages
    <2>2. Trying(m)' \subseteq Trying(m)
      BY <1>1 DEF Trying
    <2>3. handled[m] \in Nat /\ returned[m] \in Nat /\ Paid(m)
      BY DEF IInv, Typed, Counted
    <2>4. QED
      BY <1>1, <2>1, <2>2, <2>3, StillPaid
  <1>10. QED
    BY <1>6, <1>7, <1>8, <1>9 DEF IInv

\* A batch moves from the queue to the buffers of the consumers.
LEMMA DeliverStep == ASSUME IInv, Deliver PROVE IInv'
  <1>0. PICK batch \in [Open -> Ascending] :
           /\ queue = UNION {ToSet(batch[c]) : c \in Open}
           /\ \A c, d \in Open : c # d => ToSet(batch[c]) \cap ToSet(batch[d]) = {}
           /\ local' = [c \in Consumers |-> IF c \in Open THEN local[c] \o batch[c] ELSE local[c]]
    BY DEF Deliver
  <1>1. queue' = {} /\ UNCHANGED <<published, running, handled, returned, settled>>
    BY DEF Deliver
  <1> DEFINE B(c) == IF c \in Open THEN ToSet(batch[c]) ELSE {}
  <1>2. \A c \in Open : c \in Consumers /\ ToSet(batch[c]) \subseteq queue
    BY <1>0 DEF Open
  <1>3. ASSUME NEW c \in Consumers
        PROVE  /\ B(c) \subseteq queue /\ B(c) \cap Unacked(c) = {}
               /\ local'[c] \in Seq(Messages) /\ IsInjective(local'[c])
               /\ ToSet(local'[c]) = ToSet(local[c]) \cup B(c)
               /\ Unacked(c)' = Unacked(c) \cup B(c)
    <2>1. B(c) \subseteq queue
      BY <1>2
    <2>2. B(c) \cap Unacked(c) = {}
      BY <2>1 DEF IInv, OnePlace
    <2>3. local[c] \in Seq(Messages) /\ IsInjective(local[c]) /\ ToSet(local[c]) \subseteq Unacked(c)
      BY DEF IInv, Typed, HeldOnce, Unacked
    <2>4. /\ local'[c] \in Seq(Messages) /\ IsInjective(local'[c])
          /\ ToSet(local'[c]) = ToSet(local[c]) \cup B(c)
      <3>1. CASE c \in Open
        <4>1. local'[c] = local[c] \o batch[c] /\ batch[c] \in Ascending /\ B(c) = ToSet(batch[c])
          BY <1>0, <3>1
        <4>2. batch[c] \in Seq(Messages) /\ IsInjective(batch[c])
          BY <4>1, BatchTyped
        <4>3. ToSet(local[c]) \cap ToSet(batch[c]) = {}
          BY <2>2, <2>3, <4>1
        <4>4. /\ ToSet(local[c] \o batch[c]) = ToSet(local[c]) \cup ToSet(batch[c])
              /\ IsInjective(local[c] \o batch[c])
          BY <2>3, <4>2, <4>3, ConcatSet
        <4>5. local[c] \o batch[c] \in Seq(Messages)
          BY <2>3, <4>2
        <4>6. QED
          BY <4>1, <4>4, <4>5
      <3>2. CASE c \notin Open
        BY <1>0, <2>3, <3>2
      <3>3. QED
        BY <3>1, <3>2
    <2>5. Unacked(c)' = Unacked(c) \cup B(c)
      BY <1>1, <2>4 DEF Unacked
    <2>6. QED
      BY <2>1, <2>2, <2>4, <2>5
  <1>4. \A c, d \in Consumers : c # d => B(c) \cap B(d) = {}
    BY <1>0
  <1>5. \A m \in queue : \E c \in Consumers : m \in B(c)
    BY <1>0, <1>2
  <1> HIDE DEF B
  <1>6. Typed'
    <2>1. local' = [c \in Consumers |-> local'[c]]
      BY <1>0
    <2>2. local' \in [Consumers -> Seq(Messages)]
      BY <1>3, <2>1
    <2>3. QED
      BY <1>1, <2>2 DEF IInv, Typed
  <1>7. HeldOnce'
    <2> SUFFICES ASSUME NEW c \in Consumers
                 PROVE  /\ IsInjective(local'[c])
                        /\ running'[c] # None /\ running'[c].live
                             => running'[c].msg \notin ToSet(local'[c])
      BY DEF HeldOnce
    <2>1. running[c] # None /\ running[c].live => running[c].msg \in Unacked(c)
      BY DEF Unacked
    <2>2. QED
      BY <1>1, <1>3, <2>1 DEF IInv, HeldOnce
  <1>8. OnePlace'
    <2>1. \A c, d \in Consumers : c # d => Unacked(c)' \cap Unacked(d)' = {}
      <3> SUFFICES ASSUME NEW c \in Consumers, NEW d \in Consumers, c # d
                   PROVE  Unacked(c)' \cap Unacked(d)' = {}
        OBVIOUS
      <3>1. /\ Unacked(c) \cap queue = {} /\ Unacked(d) \cap queue = {}
            /\ Unacked(c) \cap Unacked(d) = {}
        BY DEF IInv, OnePlace
      <3>2. /\ Unacked(c)' = Unacked(c) \cup B(c) /\ B(c) \subseteq queue
            /\ Unacked(d)' = Unacked(d) \cup B(d) /\ B(d) \subseteq queue
            /\ B(c) \cap B(d) = {}
        BY <1>3, <1>4
      <3>3. QED
        BY <3>1, <3>2
    <2>2. \A c \in Consumers : Unacked(c)' \subseteq (1..published') \ (queue' \cup settled')
      BY <1>1, <1>3 DEF IInv, OnePlace, Typed
    <2>3. 1..published' \subseteq queue' \cup settled' \cup UNION {Unacked(c)' : c \in Consumers}
      BY <1>1, <1>3, <1>5 DEF IInv, OnePlace
    <2>4. QED
      BY <1>1, <2>1, <2>2, <2>3 DEF OnePlace
  <1>9. RightPlace'
    BY <1>1 DEF IInv, RightPlace, At
  <1>10. Counted'
    <2> SUFFICES ASSUME NEW m \in Messages, m \notin Poison PROVE Paid(m)'
      BY <1>1 DEF IInv, Counted
    <2>1. Due(m)' => Due(m)
      BY <1>1, <1>3 DEF Due
    <2>2. Trying(m)' \subseteq Trying(m)
      BY <1>1 DEF Trying
    <2>3. handled[m] \in Nat /\ returned[m] \in Nat /\ Paid(m)
      BY DEF IInv, Typed, Counted
    <2>4. QED
      BY <1>1, <2>1, <2>2, <2>3, StillPaid
  <1>11. QED
    BY <1>6, <1>7, <1>8, <1>9, <1>10 DEF IInv

-----------------------------------------------------------------------------
(* A replica                                                               *)

LEMMA StartStep == ASSUME IInv, NEW c \in Consumers, Start(c) PROVE IInv'
  <1>1. UNCHANGED <<published, queue, local, running, handled, returned, settled>>
    BY DEF Start
  <1>2. QED
    BY <1>1 DEF IInv, Typed, HeldOnce, OnePlace, RightPlace, Counted, Unacked, At, Paid, Due,
       Trying

\* The head of the buffer becomes the delivery that is handled: what was due is tried.
LEMMA ReceiveStep == ASSUME IInv, NEW c \in Consumers, Receive(c) PROVE IInv'
  <1> DEFINE h == Head(local[c])
             d == [msg |-> h, live |-> TRUE, pc |-> "decode"]
  <1>1. /\ running[c] = None /\ local[c] # <<>>
        /\ running' = [running EXCEPT ![c] = d] /\ local' = [local EXCEPT ![c] = Tail(@)]
        /\ UNCHANGED <<published, queue, handled, returned, settled>>
    BY DEF Receive
  <1>2. local[c] \in Seq(Messages) /\ IsInjective(local[c])
    BY DEF IInv, Typed, HeldOnce
  <1>3. /\ h \in Messages /\ Tail(local[c]) \in Seq(Messages) /\ IsInjective(Tail(local[c]))
        /\ ToSet(local[c]) = {h} \cup ToSet(Tail(local[c])) /\ h \notin ToSet(Tail(local[c]))
    BY <1>1, <1>2, HeadSet
  <1> HIDE DEF h
  <1>4. d \in Delivery /\ d # None
    <2>1. d \in Delivery
      BY <1>3 DEF Delivery
    <2>2. QED
      BY <2>1, BusAssumption
  <1>5. /\ running'[c] = d /\ local'[c] = Tail(local[c])
        /\ \A e \in Consumers \ {c} : running'[e] = running[e] /\ local'[e] = local[e]
    BY <1>1 DEF IInv, Typed
  <1>6. Typed'
    BY <1>1, <1>3, <1>4 DEF IInv, Typed
  <1>7. HeldOnce'
    BY <1>3, <1>5 DEF IInv, HeldOnce
  <1>8. OnePlace'
    <2>1. Unacked(c)' = Unacked(c)
      BY <1>1, <1>3, <1>4, <1>5 DEF Unacked
    <2>2. \A e \in Consumers \ {c} : Unacked(e)' = Unacked(e)
      BY <1>5 DEF Unacked
    <2>3. QED
      BY <1>1, <2>1, <2>2 DEF IInv, OnePlace
  <1>9. RightPlace'
    BY <1>1, <1>5 DEF IInv, RightPlace, At
  <1>10. Counted'
    <2> SUFFICES ASSUME NEW m \in Messages, m \notin Poison PROVE Paid(m)'
      BY <1>1 DEF IInv, Counted
    <2>0. handled[m] \in Nat /\ returned[m] \in Nat /\ Paid(m)
      BY DEF IInv, Typed, Counted
    <2>1. CASE m # h
      <3>1. Due(m)' => Due(m)
        BY <1>1, <1>3, <1>5 DEF Due
      <3>2. Trying(m)' \subseteq Trying(m)
        BY <1>5, <2>1 DEF Trying
      <3>3. QED
        BY <1>1, <2>0, <3>1, <3>2, StillPaid
    <2>2. CASE m = h
      <3>1. h \in Unacked(c)
        BY <1>3 DEF Unacked
      <3>2. /\ h \in 1..published /\ h \notin queue
            /\ \A e \in Consumers \ {c} : h \notin ToSet(local[e])
        BY <3>1 DEF IInv, OnePlace, Unacked
      <3>3. Due(m) /\ ~Due(m)'
        <4>1. published \in Nat /\ ~(h > published)
          BY <3>2 DEF IInv, Typed
        <4>2. Due(m)
          BY <1>3, <2>2 DEF Due
        <4>3. QED
          BY <1>1, <1>3, <1>5, <2>2, <3>2, <4>1, <4>2 DEF Due
      <3>4. Trying(m)' = Trying(m) \cup {c} /\ c \notin Trying(m)
        BY <1>1, <1>4, <1>5, <2>2 DEF Trying
      <3>5. /\ Cardinality(Trying(m)) \in Nat
            /\ Cardinality(Trying(m) \cup {c}) = Cardinality(Trying(m)) + 1
        BY <3>4, TryingFinite, FS_AddElement
      <3>6. Cardinality(Trying(m))' = Cardinality(Trying(m)) + 1
        BY <3>4, <3>5
      <3>7. QED
        BY <1>1, <2>0, <3>3, <3>5, <3>6 DEF Paid
    <2>3. QED
      BY <2>1, <2>2
  <1>11. QED
    BY <1>6, <1>7, <1>8, <1>9, <1>10 DEF IInv

LEMMA DecodeStep == ASSUME IInv, NEW c \in Consumers, Decode(c) PROVE IInv'
  <1> DEFINE pc == IF running[c].msg \in Garbage THEN "drop" ELSE "handle"
  <1>1. /\ running[c] # None /\ running[c].pc = "decode" /\ Goto(c, pc)
        /\ UNCHANGED <<published, queue, local, handled, returned, settled>>
    BY DEF Decode, At
  <1>2. pc \in {"drop", "handle"}
    OBVIOUS
  <1>3. /\ running' \in [Consumers -> Delivery \cup {None}]
        /\ running'[c].msg = running[c].msg /\ running'[c].pc = pc /\ running'[c] # None
        /\ \A d \in Consumers \ {c} : running'[d] = running[d]
        /\ HeldOnce' /\ OnePlace'
        /\ \A m : Due(m)' <=> Due(m)
    BY <1>1, <1>2, PlaceStep
  <1>4. Typed'
    BY <1>1, <1>3 DEF IInv, Typed
  <1>5. RightPlace'
    BY <1>1, <1>3 DEF IInv, RightPlace, At
  <1>6. Counted'
    <2> SUFFICES ASSUME NEW m \in Messages, m \notin Poison PROVE Paid(m)'
      BY <1>1 DEF IInv, Counted
    <2>1. Trying(m)' \subseteq Trying(m)
      BY <1>1, <1>3 DEF Trying
    <2>2. handled[m] \in Nat /\ returned[m] \in Nat /\ Paid(m)
      BY DEF IInv, Typed, Counted
    <2>3. QED
      BY <1>1, <1>3, <2>1, <2>2, StillPaid
  <1>7. QED
    BY <1>3, <1>4, <1>5, <1>6 DEF IInv

\* A handler that returns is one that tried.
LEMMA HandleStep == ASSUME IInv, NEW c \in Consumers, Handle(c) PROVE IInv'
  <1> DEFINE n == running[c].msg
  <1>1. /\ running[c] # None /\ running[c].pc = "handle" /\ Goto(c, "ack") /\ n \notin Poison
        /\ handled' = [handled EXCEPT ![n] = @ + 1]
        /\ UNCHANGED <<published, queue, local, returned, settled>>
    BY DEF Handle, At
  <1>2. n \in Messages /\ Typed
    BY <1>1, RunningTyped DEF IInv
  <1>3. /\ running' \in [Consumers -> Delivery \cup {None}]
        /\ running'[c].msg = n /\ running'[c].pc = "ack" /\ running'[c] # None
        /\ \A d \in Consumers \ {c} : running'[d] = running[d]
        /\ HeldOnce' /\ OnePlace'
        /\ \A m : Due(m)' <=> Due(m)
    BY <1>1, PlaceStep
  <1> HIDE DEF n
  <1>4. /\ handled' \in [Messages -> Nat] /\ handled'[n] = handled[n] + 1 /\ handled[n] \in Nat
        /\ \A m \in Messages \ {n} : handled'[m] = handled[m]
    BY <1>1, <1>2 DEF Typed
  <1>5. Typed'
    BY <1>1, <1>2, <1>3, <1>4 DEF Typed
  <1>6. RightPlace'
    <2> SUFFICES ASSUME NEW d \in Consumers
                 PROVE  /\ At(d, "ack")' => handled'[running'[d].msg] > 0
                        /\ At(d, "drop")' => running'[d].msg \in Garbage
      BY DEF RightPlace
    <2>1. CASE d = c
      BY <1>3, <1>4, <2>1 DEF At
    <2>2. CASE d # c
      <3>1. running'[d] = running[d] /\ (running[d] # None => running[d].msg \in Messages)
        BY <1>2, <1>3, <2>2, RunningTyped
      <3>2. ASSUME NEW m \in Messages, handled[m] > 0 PROVE handled'[m] > 0
        <4>1. CASE m = n
          BY <1>4, <4>1
        <4>2. CASE m # n
          BY <1>4, <3>2, <4>2
        <4>3. QED
          BY <4>1, <4>2
      <3>3. /\ At(d, "ack") => handled[running[d].msg] > 0
            /\ At(d, "drop") => running[d].msg \in Garbage
        BY DEF IInv, RightPlace
      <3>4. ASSUME At(d, "ack")' PROVE handled'[running'[d].msg] > 0
        <4>1. running[d] # None /\ running[d].pc = "ack"
          BY <3>1, <3>4 DEF At
        <4>2. handled[running[d].msg] > 0
          BY <3>3, <4>1 DEF At
        <4>3. QED
          BY <3>1, <3>2, <4>1, <4>2
      <3>5. ASSUME At(d, "drop")' PROVE running'[d].msg \in Garbage
        BY <3>1, <3>3, <3>5 DEF At
      <3>6. QED
        BY <3>4, <3>5
    <2>3. QED
      BY <2>1, <2>2
  <1>7. Counted'
    <2> SUFFICES ASSUME NEW m \in Messages
                 PROVE  IF m \in Poison THEN handled'[m] = 0 ELSE Paid(m)'
      BY DEF Counted
    <2>0. handled[m] \in Nat /\ returned[m] \in Nat
      BY <1>2 DEF Typed
    <2>1. CASE m \in Poison
      BY <1>1, <1>4, <2>1 DEF IInv, Counted, n
    <2>2. CASE m \notin Poison /\ m # n
      <3>1. Trying(m)' \subseteq Trying(m)
        BY <1>3, <2>2 DEF Trying
      <3>2. Paid(m) /\ handled'[m] = handled[m]
        BY <1>4, <2>2 DEF IInv, Counted
      <3>3. QED
        BY <1>1, <1>3, <2>0, <2>2, <3>1, <3>2, StillPaid
    <2>3. CASE m \notin Poison /\ m = n
      <3>1. Trying(m)' = Trying(m) \ {c} /\ c \in Trying(m)
        BY <1>1, <1>3, <2>3 DEF Trying, n
      <3>2. /\ Cardinality(Trying(m)) \in Nat
            /\ Cardinality(Trying(m) \ {c}) = Cardinality(Trying(m)) - 1
        BY <3>1, TryingFinite, FS_RemoveElement
      <3>3. Cardinality(Trying(m))' = Cardinality(Trying(m)) - 1
        BY <3>1, <3>2
      <3>4. Paid(m)
        BY <2>3 DEF IInv, Counted
      <3>5. QED
        BY <1>1, <1>3, <1>4, <2>0, <2>3, <3>2, <3>3, <3>4 DEF Paid
    <2>4. QED
      BY <2>1, <2>2, <2>3
  <1>8. QED
    BY <1>3, <1>5, <1>6, <1>7 DEF IInv

LEMMA HandleFailsStep == ASSUME IInv, NEW c \in Consumers, HandleFails(c) PROVE IInv'
  <1>1. /\ running[c] # None /\ running[c].pc = "handle" /\ Goto(c, "requeue")
        /\ UNCHANGED <<published, queue, local, handled, returned, settled>>
    BY DEF HandleFails, At
  <1>2. /\ running' \in [Consumers -> Delivery \cup {None}]
        /\ running'[c].msg = running[c].msg /\ running'[c].pc = "requeue" /\ running'[c] # None
        /\ \A d \in Consumers \ {c} : running'[d] = running[d]
        /\ HeldOnce' /\ OnePlace'
        /\ \A m : Due(m)' <=> Due(m)
    BY <1>1, PlaceStep
  <1>3. Typed'
    BY <1>1, <1>2 DEF IInv, Typed
  <1>4. RightPlace'
    BY <1>1, <1>2 DEF IInv, RightPlace, At
  <1>5. Counted'
    <2> SUFFICES ASSUME NEW m \in Messages, m \notin Poison PROVE Paid(m)'
      BY <1>1 DEF IInv, Counted
    <2>1. Trying(m)' \subseteq Trying(m)
      BY <1>1, <1>2 DEF Trying
    <2>2. handled[m] \in Nat /\ returned[m] \in Nat /\ Paid(m)
      BY DEF IInv, Typed, Counted
    <2>3. QED
      BY <1>1, <1>2, <2>1, <2>2, StillPaid
  <1>6. QED
    BY <1>2, <1>3, <1>4, <1>5 DEF IInv

\* A settlement over a live channel moves the message; any other is lost.
LEMMA SettleStep == ASSUME IInv, NEW c \in Consumers, Settle(c) PROVE IInv'
  <1> DEFINE n == running[c].msg
  <1>1. /\ running[c] # None /\ running[c].pc \in {"ack", "drop", "requeue"}
        /\ running' = [running EXCEPT ![c] = None]
        /\ UNCHANGED <<published, local, handled>>
    BY DEF Settle, At
  <1>2. /\ n \in Messages /\ running[c].live \in BOOLEAN /\ Typed
    BY <1>1, RunningTyped DEF IInv
  <1>3. running'[c] = None /\ \A d \in Consumers \ {c} : running'[d] = running[d]
    BY <1>1, <1>2 DEF Typed
  <1>4. \A d \in Consumers \ {c} : Unacked(d)' = Unacked(d)
    BY <1>1, <1>3 DEF Unacked
  <1>5. HeldOnce'
    BY <1>1, <1>3 DEF IInv, HeldOnce
  <1>6. \A m : Trying(m)' \subseteq Trying(m)
    BY <1>3 DEF Trying
  <1>7. CASE ~running[c].live
    <2>1. UNCHANGED <<queue, returned, settled>>
      BY <1>7 DEF Settle
    <2>2. Unacked(c)' = Unacked(c)
      BY <1>1, <1>3, <1>7 DEF Unacked
    <2>3. Typed'
      BY <1>1, <1>2, <2>1 DEF Typed
    <2>4. OnePlace'
      BY <1>1, <1>4, <2>1, <2>2 DEF IInv, OnePlace
    <2>5. RightPlace'
      BY <1>1, <1>3 DEF IInv, RightPlace, At
    <2>6. Counted'
      <3> SUFFICES ASSUME NEW m \in Messages, m \notin Poison PROVE Paid(m)'
        BY <1>1 DEF IInv, Counted
      <3>1. handled[m] \in Nat /\ returned[m] \in Nat /\ Paid(m)
        BY <1>2 DEF IInv, Typed, Counted
      <3>2. Due(m)' => Due(m)
        BY <1>1, <2>1 DEF Due
      <3>3. QED
        BY <1>1, <1>6, <2>1, <3>1, <3>2, StillPaid
    <2>7. QED
      BY <1>5, <2>3, <2>4, <2>5, <2>6 DEF IInv
  <1>8. CASE running[c].live
    <2>1. /\ Unacked(c) = ToSet(local[c]) \cup {n} /\ Unacked(c)' = ToSet(local[c])
          /\ n \notin ToSet(local[c])
      BY <1>1, <1>3, <1>8 DEF Unacked, IInv, HeldOnce
    <2>2. /\ n \in 1..published /\ n \notin queue \cup settled
          /\ \A d \in Consumers \ {c} : n \notin Unacked(d)
      BY <2>1 DEF IInv, OnePlace
    <2>3. RightPlace'
      BY <1>1, <1>3 DEF IInv, RightPlace, At
    <2> HIDE DEF n
    <2>4. \/ /\ queue' = queue \cup {n} /\ settled' = settled
             /\ \A m \in Messages \ Poison :
                   returned'[m] = IF m = n THEN returned[m] + 1 ELSE returned[m]
             /\ returned' \in [Messages -> Nat]
          \/ settled' = settled \cup {n} /\ queue' = queue /\ returned' = returned
      <3>1. CASE running[c].pc = "requeue"
        <4>1. Returned({n}) /\ settled' = settled
          BY <1>1, <1>8, <3>1 DEF Settle, n
        <4>2. returned' \in [Messages -> Nat]
          BY <1>2, <4>1 DEF Returned, Typed
        <4>3. QED
          BY <1>2, <4>1, <4>2 DEF Returned, Typed
      <3>2. CASE running[c].pc # "requeue"
        BY <1>8, <3>2 DEF Settle, n
      <3>3. QED
        BY <3>1, <3>2
    <2>5. Typed'
      <3>1. running' \in [Consumers -> Delivery \cup {None}]
        BY <1>1, <1>2 DEF Typed
      <3>2. QED
        BY <1>1, <1>2, <2>2, <2>4, <3>1 DEF Typed
    <2>6. OnePlace'
      <3>1. (queue \cap settled = {})'
        BY <2>2, <2>4 DEF IInv, OnePlace
      <3>2. \A d \in Consumers : Unacked(d)' \subseteq Unacked(d) \ {n}
        BY <1>4, <2>1, <2>2
      <3>3. \A d \in Consumers : Unacked(d)' \subseteq (1..published') \ (queue' \cup settled')
        BY <1>1, <2>4, <3>2 DEF IInv, OnePlace
      <3>4. \A d, e \in Consumers : d # e => Unacked(d)' \cap Unacked(e)' = {}
        BY <3>2 DEF IInv, OnePlace
      <3>5. \A d \in Consumers : Unacked(d) \subseteq Unacked(d)' \cup {n}
        BY <1>4, <2>1
      <3>6. 1..published' \subseteq queue' \cup settled' \cup UNION {Unacked(d)' : d \in Consumers}
        <4> SUFFICES ASSUME NEW m \in 1..published, m \notin queue', m \notin settled'
                     PROVE  \E d \in Consumers : m \in Unacked(d)'
          BY <1>1
        <4>1. m \notin queue /\ m \notin settled /\ m # n
          BY <2>4
        <4>2. PICK d \in Consumers : m \in Unacked(d)
          BY <4>1 DEF IInv, OnePlace
        <4>3. QED
          BY <3>5, <4>1, <4>2
      <3>7. QED
        BY <3>1, <3>3, <3>4, <3>6 DEF OnePlace
    <2>7. Counted'
      <3> SUFFICES ASSUME NEW m \in Messages, m \notin Poison PROVE Paid(m)'
        BY <1>1 DEF IInv, Counted
      <3>1. handled[m] \in Nat /\ returned[m] \in Nat /\ returned'[m] \in Nat /\ Paid(m)
        BY <1>2, <2>5 DEF IInv, Typed, Counted
      <3>2. CASE m = n /\ queue' # queue
        BY <1>1, <1>6, <2>4, <3>1, <3>2, StillPaid
      <3>3. CASE m # n \/ queue' = queue
        <4>1. Due(m)' => Due(m)
          BY <1>1, <2>4, <3>3 DEF Due
        <4>2. returned'[m] = returned[m] \/ returned'[m] = returned[m] + 1
          BY <2>4
        <4>3. QED
          BY <1>1, <1>6, <3>1, <4>1, <4>2, StillPaid
      <3>4. QED
        BY <3>2, <3>3
    <2>8. QED
      BY <1>5, <2>3, <2>5, <2>6, <2>7 DEF IInv
  <1>9. QED
    BY <1>2, <1>7, <1>8

-----------------------------------------------------------------------------
(* What goes wrong                                                         *)

\* The channel of a consumer goes, whatever becomes of the handler that runs.
LEMMA LostStep ==
    ASSUME IInv, NEW c \in Consumers, Returned(Unacked(c)),
           local' = [local EXCEPT ![c] = <<>>],
           UNCHANGED <<published, handled, settled>>,
           NEW run \in Delivery \cup {None}, running' = [running EXCEPT ![c] = run],
           run # None => /\ running[c] # None /\ ~run.live
                         /\ run.msg = running[c].msg /\ run.pc = running[c].pc
    PROVE  IInv'
  <1>0. Typed
    BY DEF IInv
  <1>1. /\ running'[c] = run /\ local'[c] = <<>>
        /\ \A d \in Consumers \ {c} : running'[d] = running[d] /\ local'[d] = local[d]
    BY <1>0 DEF Typed
  <1>2. ToSet(<<>>) = {} /\ IsInjective(<<>>)
    BY DEF ToSet, IsInjective
  <1>3. Unacked(c)' = {} /\ \A d \in Consumers \ {c} : Unacked(d)' = Unacked(d)
    BY <1>1, <1>2 DEF Unacked
  <1>4. Unacked(c) \subseteq 1..published /\ Unacked(c) \subseteq Messages
    BY <1>0, BusAssumption DEF IInv, OnePlace, Typed, Messages
  <1>5. /\ queue' = queue \cup Unacked(c) /\ returned' \in [Messages -> Nat]
        /\ \A m \in Messages \ Poison :
              returned'[m] = IF m \in Unacked(c) THEN returned[m] + 1 ELSE returned[m]
    <2>1. returned' \in [Messages -> Nat]
      BY <1>0 DEF Returned, Typed
    <2>2. QED
      BY <1>0, <2>1 DEF Returned, Typed
  <1>6. Typed'
    <2>1. local' \in [Consumers -> Seq(Messages)]
      BY <1>0 DEF Typed
    <2>2. running' \in [Consumers -> Delivery \cup {None}]
      BY <1>0 DEF Typed
    <2>3. QED
      BY <1>0, <1>4, <1>5, <2>1, <2>2 DEF Typed
  <1>7. HeldOnce'
    BY <1>1, <1>2 DEF IInv, HeldOnce
  <1>8. OnePlace'
    <2>1. (queue \cap settled = {})'
      BY <1>5 DEF IInv, OnePlace
    <2>2. \A d \in Consumers : Unacked(d)' \subseteq (1..published') \ (queue' \cup settled')
      BY <1>3, <1>5 DEF IInv, OnePlace
    <2>3. \A d, e \in Consumers : d # e => Unacked(d)' \cap Unacked(e)' = {}
      BY <1>3 DEF IInv, OnePlace
    <2>4. 1..published' \subseteq queue' \cup settled' \cup UNION {Unacked(d)' : d \in Consumers}
      <3> SUFFICES ASSUME NEW m \in 1..published, m \notin queue', m \notin settled'
                   PROVE  \E d \in Consumers : m \in Unacked(d)'
        OBVIOUS
      <3>1. m \notin queue /\ m \notin settled /\ m \notin Unacked(c)
        BY <1>5
      <3>2. PICK d \in Consumers : m \in Unacked(d)
        BY <3>1 DEF IInv, OnePlace
      <3>3. QED
        BY <1>3, <3>1, <3>2
    <2>5. QED
      BY <2>1, <2>2, <2>3, <2>4 DEF OnePlace
  <1>9. RightPlace'
    BY <1>1 DEF IInv, RightPlace, At
  <1>10. Counted'
    <2> SUFFICES ASSUME NEW m \in Messages, m \notin Poison PROVE Paid(m)'
      BY DEF IInv, Counted
    <2>1. handled[m] \in Nat /\ returned[m] \in Nat /\ returned'[m] \in Nat /\ Paid(m)
      BY <1>0, <1>6 DEF IInv, Typed, Counted
    <2>2. Trying(m)' \subseteq Trying(m)
      BY <1>1 DEF Trying
    <2>3. m \notin Unacked(c) => (Due(m)' => Due(m))
      BY <1>1, <1>2, <1>5 DEF Due
    <2>4. QED
      BY <1>5, <2>1, <2>2, <2>3, StillPaid
  <1>11. QED
    BY <1>6, <1>7, <1>8, <1>9, <1>10 DEF IInv

LEMMA CloseStep ==
    ASSUME IInv, NEW c \in Consumers, NEW state, Close(c, state)
    PROVE  IInv'
  <1>1. CASE running[c] = None
    <2>1. running' = [running EXCEPT ![c] = None]
      BY <1>1 DEF Close, IInv, Typed
    <2>2. QED
      BY <2>1, LostStep DEF Close
  <1>2. CASE running[c] # None
    <2>1. running[c] \in Delivery /\ running' = [running EXCEPT ![c] = [running[c] EXCEPT !.live = FALSE]]
      BY <1>2, RunningTyped DEF Close, IInv
    <2>2. /\ [running[c] EXCEPT !.live = FALSE] \in Delivery
          /\ ~[running[c] EXCEPT !.live = FALSE].live
          /\ [running[c] EXCEPT !.live = FALSE].msg = running[c].msg
          /\ [running[c] EXCEPT !.live = FALSE].pc = running[c].pc
      BY <2>1 DEF Delivery
    <2>3. QED
      BY <1>2, <2>1, <2>2, LostStep DEF Close
  <1>3. QED
    BY <1>1, <1>2

LEMMA ExitStep == ASSUME IInv, NEW c \in Consumers, Exit(c) PROVE IInv'
  BY LostStep DEF Exit

-----------------------------------------------------------------------------
LEMMA InitIInv == Init => IInv
  <1> SUFFICES ASSUME Init PROVE IInv
    OBVIOUS
  <1>1. ToSet(<<>>) = {} /\ IsInjective(<<>>)
    BY DEF ToSet, IsInjective
  <1>2. \A c \in Consumers : Unacked(c) = {}
    BY <1>1 DEF Init, Unacked
  <1>3. Typed
    BY BusAssumption DEF Init, Typed
  <1>4. HeldOnce /\ OnePlace /\ RightPlace
    BY <1>1, <1>2 DEF Init, HeldOnce, OnePlace, RightPlace, At
  <1>5. Counted
    <2> SUFFICES ASSUME NEW m \in Messages, m \notin Poison PROVE Paid(m)
      BY DEF Init, Counted
    <2>1. Trying(m) = {}
      BY DEF Init, Trying
    <2>2. Cardinality(Trying(m)) = 0
      BY <2>1, FS_EmptySet
    <2>3. QED
      BY <2>2 DEF Init, Paid
  <1>6. QED
    BY <1>3, <1>4, <1>5 DEF IInv

LEMMA NextIInv == IInv /\ [Next]_vars => IInv'
  <1> SUFFICES ASSUME IInv, [Next]_vars PROVE IInv'
    OBVIOUS
  <1>1. CASE Publish \/ Deliver
    BY <1>1, PublishStep, DeliverStep
  <1>2. ASSUME NEW c \in Consumers, Start(c) PROVE IInv'
    BY <1>2, StartStep
  <1>3. ASSUME NEW c \in Consumers, Work(c) PROVE IInv'
    BY <1>3, ReceiveStep, DecodeStep, HandleStep, HandleFailsStep, SettleStep DEF Work
  <1>4. ASSUME NEW c \in Consumers, Lose(c) PROVE IInv'
    BY <1>4, CloseStep, ExitStep DEF Lose, Disconnect, CloseChannel, Stop
  <1>5. CASE UNCHANGED vars
    BY <1>5 DEF vars, IInv, Typed, HeldOnce, OnePlace, RightPlace, Counted, Unacked, At, Paid,
       Due, Trying
  <1>6. QED
    BY <1>1, <1>2, <1>3, <1>4, <1>5 DEF Next

\* The invariant that carries the theorems: every event has one place, and every
\* handling of it but one was paid for by a return.
THEOREM Invariance == Spec => []IInv
  BY InitIInv, NextIInv, PTL DEF Spec

\* Whatever is lost, stopped or crashes, a routed event is ready, settled, or held by
\* one consumer (ReceivedAsync, ExecuteAsync and the durable queue).
THEOREM NothingForgotten == Spec => []NothingIsForgotten
  <1>1. IInv => NothingIsForgotten
    <2> SUFFICES ASSUME IInv, NEW m \in 1..published
                 PROVE  \/ /\ m \in queue \cup settled
                           /\ \A c \in Consumers : m \notin Unacked(c)
                           /\ m \notin queue \cap settled
                        \/ /\ m \notin queue \cup settled
                           /\ \E c \in Consumers :
                                 /\ m \in Unacked(c)
                                 /\ \A d \in Consumers \ {c} : m \notin Unacked(d)
      BY DEF NothingIsForgotten
    <2>1. CASE m \in queue \cup settled
      BY <2>1 DEF IInv, OnePlace
    <2>2. CASE m \notin queue \cup settled
      <3>1. PICK c \in Consumers : m \in Unacked(c)
        BY <2>2 DEF IInv, OnePlace
      <3>2. \A d \in Consumers \ {c} : m \notin Unacked(d)
        BY <3>1 DEF IInv, OnePlace
      <3>3. QED
        BY <2>2, <3>1, <3>2
    <2>3. QED
      BY <2>1, <2>2
  <1>2. QED
    BY <1>1, Invariance, PTL

\* An event is handled more often than once only as often as it was returned to the
\* queue (BasicNack with requeue, or a channel that went).
THEOREM RepeatedOnlyAfterReturn == Spec => []RepeatedOnlyIfReturned
  <1>1. IInv => RepeatedOnlyIfReturned
    <2> SUFFICES ASSUME IInv, NEW m \in Messages PROVE handled[m] <= 1 + returned[m]
      BY DEF RepeatedOnlyIfReturned
    <2>1. handled[m] \in Nat /\ returned[m] \in Nat /\ Cardinality(Trying(m)) \in Nat
      BY TryingFinite DEF IInv, Typed
    <2>2. CASE m \in Poison
      BY <2>1, <2>2 DEF IInv, Counted
    <2>3. CASE m \notin Poison
      BY <2>1, <2>3 DEF IInv, Counted, Paid
    <2>4. QED
      BY <2>2, <2>3
  <1>2. QED
    BY <1>1, Invariance, PTL

-----------------------------------------------------------------------------
(* The bus keeps its promise                                               *)

\* A handler whose channel went while it ran is running for an event that was taken
\* back; a poison message never succeeds, and its returns are not counted.
TakenBack ==
    \A c \in Consumers : running[c] # None /\ ~running[c].live /\ running[c].msg \notin Poison
                         => returned[running[c].msg] > 0

\* What returns to the queue adds to the count, and nothing takes from it.
LEMMA ReturnsGrow ==
    ASSUME IInv, [Next]_vars, NEW m \in Messages
    PROVE  returned[m] \in Nat /\ (returned[m] > 0 => returned'[m] > 0)
  <1>1. returned[m] \in Nat
    BY DEF IInv, Typed
  <1>2. UNCHANGED returned \/ \E S : Returned(S)
    BY DEF Next, vars, Publish, Deliver, Start, Work, Receive, Decode, Handle, HandleFails,
       Settle, Lose, Disconnect, CloseChannel, Stop, Close, Exit
  <1>3. ASSUME NEW S, Returned(S) PROVE returned[m] > 0 => returned'[m] > 0
    BY <1>1, <1>3 DEF Returned
  <1>4. QED
    BY <1>1, <1>2, <1>3

\* The channel takes the event back in the step in which it goes.
LEMMA LateIsTakenBack == Spec => []TakenBack
  <1>1. Init => TakenBack
    BY DEF Init, TakenBack
  <1>2. IInv /\ TakenBack /\ [Next]_vars => TakenBack'
    <2> SUFFICES ASSUME IInv, TakenBack, [Next]_vars, NEW d \in Consumers,
                        running'[d] # None, ~running'[d].live, running'[d].msg \notin Poison
                 PROVE  returned'[running'[d].msg] > 0
      BY DEF TakenBack
    <2>t. running \in [Consumers -> Delivery \cup {None}]
      BY DEF IInv, Typed
    <2>1. ASSUME running[d] # None, ~running[d].live, running'[d].msg = running[d].msg
          PROVE  returned'[running'[d].msg] > 0
      <3>1. running[d].msg \in Messages /\ returned[running[d].msg] > 0
        BY <2>1, RunningTyped DEF IInv, TakenBack
      <3>2. QED
        BY <2>1, <3>1, ReturnsGrow
    <2>2. CASE UNCHANGED running
      BY <2>1, <2>2
    <2>3. ASSUME NEW c \in Consumers, Work(c) PROVE returned'[running'[d].msg] > 0
      <3>1. running' = [running EXCEPT ![c] = running'[c]]
        BY <2>t, <2>3 DEF Work, Receive, Decode, Handle, HandleFails, Settle, Goto
      <3>2. CASE d # c
        BY <2>t, <2>1, <3>1, <3>2
      <3>3. CASE d = c
        <4>1. ~Receive(c) /\ ~Settle(c)
          BY <2>t, <3>3 DEF Receive, Settle
        <4>2. running[c] # None /\ \E pc : Goto(c, pc)
          BY <2>3, <4>1 DEF Work, Decode, Handle, HandleFails, At
        <4>3. running'[c].live = running[c].live /\ running'[c].msg = running[c].msg
          BY <2>t, <4>2 DEF Goto, Delivery
        <4>4. QED
          BY <2>1, <3>3, <4>2, <4>3
      <3>4. QED
        BY <3>2, <3>3
    <2>4. ASSUME NEW c \in Consumers, Lose(c) PROVE returned'[running'[d].msg] > 0
      <3>1. /\ Returned(Unacked(c))
            /\ \/ running' = [running EXCEPT ![c] = None]
               \/ running' = IF running[c] = None THEN running
                             ELSE [running EXCEPT ![c].live = FALSE]
        BY <2>4 DEF Lose, Disconnect, CloseChannel, Stop, Close, Exit
      <3>2. running[d] # None /\ running'[d].msg = running[d].msg
        BY <2>t, <3>1 DEF Delivery
      <3>3. CASE ~running[d].live
        BY <2>1, <3>2, <3>3
      <3>4. CASE running[d].live
        <4>1. d = c
          BY <2>t, <3>1, <3>4
        <4>2. running[d].msg \in Unacked(c)
          BY <3>2, <3>4, <4>1 DEF Unacked
        <4>3. running[d].msg \in Messages /\ returned[running[d].msg] \in Nat
          BY <3>2, RunningTyped DEF IInv, Typed
        <4>4. returned'[running[d].msg] = returned[running[d].msg] + 1
          BY <3>1, <3>2, <4>2, <4>3 DEF Returned
        <4>5. QED
          BY <3>2, <4>3, <4>4
      <3>5. QED
        BY <3>3, <3>4
    <2>5. CASE Publish \/ Deliver \/ (\E c \in Consumers : Start(c)) \/ UNCHANGED vars
      BY <2>2, <2>5 DEF Publish, Deliver, Start, vars
    <2>6. QED
      BY <2>3, <2>4, <2>5 DEF Next
  <1>3. QED
    BY <1>1, <1>2, Invariance, PTL DEF Spec

\* What the handler is owed, seen from the broker.
Owed == (1..published) \ settled

\* An event that is published is announced; without a binding it is owed to nobody.
LEMMA PublishAnnounces ==
    ASSUME IInv, Publish
    PROVE  Promise!Next
  <1> DEFINE m == published + 1
  <1>1. /\ published \in 0..LastMessage /\ settled \subseteq 1..published /\ LastMessage \in Nat
        /\ published < LastMessage
    BY BusAssumption DEF IInv, Typed, Publish
  <1>2. m \in Messages /\ m \notin 1..published /\ 1..m = (1..published) \cup {m}
    BY <1>1 DEF Messages
  <1>3. UNCHANGED <<handled, returned>> /\ published' = m
        /\ (settled' = settled \/ settled' = settled \cup {m})
    BY DEF Publish
  <1> HIDE DEF m
  <1>4. 1..published' = (1..published) \cup {m}
    BY <1>2, <1>3
  <1>5. Owed' \in {Owed, Owed \cup {m}}
    <2>1. m \notin settled
      BY <1>1, <1>2
    <2>2. CASE settled' = settled
      BY <1>4, <2>1, <2>2 DEF Owed
    <2>3. CASE settled' = settled \cup {m}
      BY <1>2, <1>4, <2>3 DEF Owed
    <2>4. QED
      BY <1>3, <2>2, <2>3
  <1>6. Promise!Announce(m)
    BY <1>2, <1>3, <1>4, <1>5 DEF Promise!Announce, Owed
  <1>7. QED
    BY <1>2, <1>6 DEF Promise!Next

\* The handler succeeds with an event it is owed, or one that was taken back.
LEMMA HandleCalls ==
    ASSUME IInv, TakenBack, NEW c \in Consumers, Handle(c)
    PROVE  Promise!Next
  <1> DEFINE m == running[c].msg
  <1>1. /\ running[c] # None /\ running[c].pc = "handle" /\ m \notin Poison
        /\ handled' = [handled EXCEPT ![m] = @ + 1]
        /\ UNCHANGED <<published, settled, returned>>
    BY DEF Handle, At
  <1>2. m \in Messages /\ running[c].live \in BOOLEAN
    BY <1>1, RunningTyped DEF IInv
  <1>3. m \in Owed \/ returned[m] > 0
    <2>1. CASE running[c].live
      BY <1>1, <2>1 DEF IInv, OnePlace, Unacked, Owed
    <2>2. CASE ~running[c].live
      BY <1>1, <2>2 DEF TakenBack
    <2>3. QED
      BY <2>1, <2>2
  <1>4. handled[m] <= returned[m]
    <2>1. handled[m] \in Nat /\ returned[m] \in Nat
      BY <1>2 DEF IInv, Typed
    <2>2. c \in Trying(m)
      BY <1>1 DEF Trying
    <2>3. Cardinality(Trying(m)) \in Nat /\ Cardinality(Trying(m)) # 0
      BY <2>2, TryingFinite, FS_EmptySet
    <2>4. Paid(m)
      BY <1>1, <1>2 DEF IInv, Counted
    <2> HIDE DEF m
    <2>5. QED
      BY <2>1, <2>3, <2>4 DEF Paid
  <1>5. Promise!Call(m)
    BY <1>1, <1>3, <1>4 DEF Promise!Call, Owed
  <1>6. QED
    BY <1>2, <1>5 DEF Promise!Next

\* What goes back to the queue is owed still.
LEMMA ReturnTakesBack ==
    ASSUME IInv, NEW S \in SUBSET Messages, S \subseteq Owed, Returned(S),
           UNCHANGED <<published, settled, handled>>
    PROVE  Promise!Next
  <1>1. returned' = [m \in Messages |-> returned[m] + (IF m \in S \ Poison THEN 1 ELSE 0)]
    BY DEF Returned
  <1>2. Promise!TakeBack(S \ Poison)
    BY <1>1 DEF Promise!TakeBack, Owed
  <1>3. QED
    BY <1>2 DEF Promise!Next

\* Whatever a consumer holds is owed.
LEMMA UnackedIsOwed ==
    ASSUME IInv, NEW c \in Consumers
    PROVE  Unacked(c) \subseteq Owed /\ Unacked(c) \in SUBSET Messages
  <1>1. Unacked(c) \subseteq (1..published) \ (queue \cup settled)
    BY DEF IInv, OnePlace
  <1>2. 1..published \subseteq Messages
    BY BusAssumption DEF IInv, Typed, Messages
  <1>3. QED
    BY <1>1, <1>2 DEF Owed

\* A settlement forgets, takes back or, too late, does nothing.
LEMMA SettleForgets ==
    ASSUME IInv, NEW c \in Consumers, Settle(c)
    PROVE  Promise!Next \/ UNCHANGED <<published, settled, handled, returned>>
  <1> DEFINE m == running[c].msg
  <1>1. /\ running[c] # None /\ running[c].pc \in {"ack", "drop", "requeue"}
        /\ UNCHANGED <<published, handled>>
    BY DEF Settle, At
  <1>2. m \in Messages /\ running[c].live \in BOOLEAN
    BY <1>1, RunningTyped DEF IInv
  <1>3. CASE ~running[c].live
    BY <1>1, <1>3 DEF Settle
  <1>4. CASE running[c].live /\ running[c].pc = "requeue"
    <2>1. Returned({m}) /\ UNCHANGED settled /\ {m} \subseteq Unacked(c)
      BY <1>1, <1>4 DEF Settle, Unacked
    <2>2. {m} \in SUBSET Messages /\ {m} \subseteq Owed
      BY <2>1, UnackedIsOwed
    <2>3. QED
      BY <1>1, <2>1, <2>2, ReturnTakesBack
  <1>5. CASE running[c].live /\ running[c].pc # "requeue"
    <2>1. settled' = settled \cup {m} /\ UNCHANGED returned /\ m \in Unacked(c)
      BY <1>1, <1>5 DEF Settle, Unacked
    <2>2. m \in Owed
      BY <2>1, UnackedIsOwed
    <2>3. handled[m] > 0 \/ m \in Garbage
      BY <1>1, <1>5 DEF IInv, RightPlace, At
    <2>4. Owed' = Owed \ {m}
      BY <1>1, <2>1 DEF Owed
    <2>5. Promise!Forget(m)
      BY <1>1, <2>1, <2>2, <2>3, <2>4 DEF Promise!Forget, Owed
    <2>6. QED
      BY <1>2, <2>5 DEF Promise!Next
  <1>6. QED
    BY <1>2, <1>3, <1>4, <1>5

\* Through crashes, stops, lost connections and channels, the consumer service and the
\* broker together implement at-least-once delivery (AtLeastOnce): nothing owed is
\* forgotten before a call that succeeded, and no call is for what was forgotten, unless
\* it had been taken back from under it.
THEOREM BusKeepsPromise == Spec => AtLeastOnceKept
  <1>1. Init => Promise!Init
    BY DEF Init, Promise!Init
  <1>2. IInv /\ TakenBack /\ [Next]_vars
        => [Promise!Next]_<<1..published, Owed, handled, returned>>
    <2> SUFFICES ASSUME IInv, TakenBack, [Next]_vars
                 PROVE  Promise!Next \/ UNCHANGED <<published, settled, handled, returned>>
      BY DEF Owed
    <2>1. CASE Publish
      BY <2>1, PublishAnnounces
    <2>2. ASSUME NEW c \in Consumers, Handle(c) PROVE Promise!Next
      BY <2>2, HandleCalls
    <2>3. ASSUME NEW c \in Consumers, Settle(c)
          PROVE  Promise!Next \/ UNCHANGED <<published, settled, handled, returned>>
      BY <2>3, SettleForgets
    <2>4. ASSUME NEW c \in Consumers, Lose(c) PROVE Promise!Next
      <3>1. Returned(Unacked(c)) /\ UNCHANGED <<published, settled, handled>>
        BY <2>4 DEF Lose, Disconnect, CloseChannel, Stop, Close, Exit
      <3>2. QED
        BY <3>1, UnackedIsOwed, ReturnTakesBack
    <2>5. ASSUME NEW c \in Consumers, Start(c) \/ Receive(c) \/ Decode(c) \/ HandleFails(c)
          PROVE  UNCHANGED <<published, settled, handled, returned>>
      BY <2>5 DEF Start, Receive, Decode, HandleFails
    <2>6. CASE Deliver \/ UNCHANGED vars
      BY <2>6 DEF Deliver, vars
    <2>7. QED
      BY <2>1, <2>2, <2>3, <2>4, <2>5, <2>6 DEF Next, Work
  <1>3. QED
    BY <1>1, <1>2, Invariance, LateIsTakenBack, PTL
    DEF Spec, AtLeastOnceKept, Promise!Spec, Owed
=============================================================================
