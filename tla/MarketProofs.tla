---------------------------- MODULE MarketProofs ----------------------------
(* Proofs about the tables of market.api: first for every table whose        *)
(* uniqueness rule is symmetric and whose service refuses at least what the  *)
(* table refuses (MarketCrud), then for the price table, for every set of    *)
(* products and of instants, and for the tables with one unique column.      *)
EXTENDS ProductPrices, Categories, FiniteSetTheorems, TLAPS

\* The constraint does not depend on which of two rows is written last.
ExcludesIsSymmetric == \A k, l \in Keys : Excludes(k, l) => Excludes(l, k)

\* The service refuses whatever the table would.
ServiceIsStricter == \A k, l \in Keys : /\ Valid(k) => Check(k)
                                        /\ Excludes(k, l) => Clash(k, l)

\* A request that waits for its write with nobody in front of it would still be
\* accepted by its validation.
StillValid ==
    \A r \in Requests : At(r, "write") /\ req[r].op # "delete" /\ r \notin raced
                        => Valid(req[r].key) /\ ~Clashes(r)

\* No two live rows have keys the table forbids side by side.
NoTwoLiveRowsClash ==
    \A i, j \in Ids : i # j /\ Live(i) /\ Live(j) => ~Excludes(rows[i].key, rows[j].key)

IInv == TypeOK /\ NoTwoLiveRowsClash /\ StillValid

-----------------------------------------------------------------------------
\* A request that is not forgotten has an operation, a place and the arguments
\* that go with them.
LEMMA RequestTyped ==
    ASSUME TypeOK, NEW r \in Requests, req[r] # None
    PROVE  /\ req[r].op \in {"create", "update", "delete"}
           /\ req[r].pc \in {"find", "validate", "write"}
           /\ req[r].op # "delete" => req[r].key \in Keys
           /\ req[r].op # "create" => req[r].id \in Ids
           /\ req[r].op = "create" => req[r].id = None /\ req[r].pc # "find"
           /\ req[r].op = "delete" => req[r].pc # "validate"
  BY DEF TypeOK, Request

\* A live row has a key.
LEMMA LiveTyped ==
    ASSUME TypeOK, NEW i \in Ids, Live(i)
    PROVE  rows[i] \in Row /\ rows[i].key \in Keys
  BY DEF TypeOK, Live, Row

\* Forgetting the request r keeps every request typed.
LEMMA ForgetTyped ==
    ASSUME TypeOK, NEW r \in Requests, Forget(r)
    PROVE  /\ req' \in [Requests -> Request \cup {None}]
           /\ req'[r] = None
           /\ \A q \in Requests \ {r} : req'[q] = req[q]
  BY DEF TypeOK, Forget

\* An answer without a write keeps the invariant.
LEMMA AnswerStep == ASSUME IInv, NEW r \in Requests, Answer(r) PROVE IInv'
  <1>1. TypeOK'
    BY ForgetTyped DEF IInv, TypeOK, Answer
  <1>2. NoTwoLiveRowsClash'
    BY DEF IInv, Answer, NoTwoLiveRowsClash, Live
  <1>3. StillValid'
    BY ForgetTyped DEF IInv, Answer, StillValid, At, Clashes, Live
  <1>4. QED
    BY <1>1, <1>2, <1>3 DEF IInv

\* A step to another statement keeps it, provided validation passed when the
\* write is next.
LEMMA GotoStep ==
    ASSUME IInv, NEW r \in Requests, NEW pc, Goto(r, pc), req[r] # None,
           [req[r] EXCEPT !.pc = pc] \in Request,
           pc = "write" /\ req[r].op # "delete" => Valid(req[r].key) /\ ~Clashes(r)
    PROVE  IInv'
  <1>0. /\ req'[r] = [req[r] EXCEPT !.pc = pc]
        /\ req'[r].pc = pc /\ req'[r].op = req[r].op
        /\ req'[r].key = req[r].key /\ req'[r].id = req[r].id
        /\ \A q \in Requests \ {r} : req'[q] = req[q]
    BY DEF Goto, IInv, TypeOK, Request
  <1>1. TypeOK'
    BY DEF Goto, IInv, TypeOK
  <1>2. NoTwoLiveRowsClash'
    BY DEF IInv, Goto, NoTwoLiveRowsClash, Live
  <1>3. StillValid'
    BY <1>0 DEF IInv, Goto, StillValid, At, Clashes, Live
  <1>4. QED
    BY <1>1, <1>2, <1>3 DEF IInv

\* A write keeps it when the row it leaves is deleted or accepted by the table.
LEMMA WrittenStep ==
    ASSUME IInv, ExcludesIsSymmetric,
           NEW r \in Requests, NEW i \in Ids, NEW row \in Row, Written(r, i, row),
           row.deleted \/ Accepts(i, row.key)
    PROVE  IInv'
  <1>0. /\ rows'[i] = row
        /\ \A j \in Ids \ {i} : rows'[j] = rows[j]
    BY DEF Written, IInv, TypeOK
  <1>1. TypeOK'
    BY ForgetTyped DEF Written, IInv, TypeOK
  <1>2. NoTwoLiveRowsClash'
    <2> SUFFICES ASSUME NEW j \in Ids, NEW k \in Ids, j # k, Live(j)', Live(k)'
                 PROVE  ~Excludes(rows'[j].key, rows'[k].key)
      BY DEF NoTwoLiveRowsClash
    <2>0. row.key \in Keys
      BY DEF Row
    <2>1. CASE j # i /\ k # i
      BY <1>0, <2>1 DEF IInv, NoTwoLiveRowsClash, Live
    <2>2. CASE j = i
      BY <1>0, <2>2 DEF Accepts, Live
    <2>3. CASE k = i
      <3>1. Live(j) /\ rows[j].key \in Keys /\ rows'[j] = rows[j]
        BY <1>0, <2>3, LiveTyped DEF IInv, Live
      <3>2. ~Excludes(row.key, rows[j].key)
        BY <1>0, <2>3, <3>1 DEF Accepts, Live
      <3>3. QED
        BY <1>0, <2>0, <2>3, <3>1, <3>2 DEF ExcludesIsSymmetric
    <2>4. QED
      BY <2>1, <2>2, <2>3
  <1>3. StillValid'
    BY ForgetTyped DEF IInv, Written, StillValid, At
  <1>4. QED
    BY <1>1, <1>2, <1>3 DEF IInv

\* Every step of a request keeps the invariant.
LEMMA StepIInv ==
    ASSUME IInv, ExcludesIsSymmetric, NEW r \in Requests, Step(r)
    PROVE  IInv'
  <1>0. TypeOK
    BY DEF IInv
  <1>1. CASE Post(r) \/ Put(r) \/ Remove(r)
    <2>1. PICK op \in {"create", "update", "delete"}, i \in Ids \cup {None},
               k \in Keys \cup {None}, pc \in {"find", "validate"} :
               /\ Begin(r, op, i, k, pc)
               /\ [op |-> op, id |-> i, key |-> k, pc |-> pc] \in Request
      BY <1>1 DEF Post, Put, Remove, Request
    <2>2. /\ req'[r] = [op |-> op, id |-> i, key |-> k, pc |-> pc]
          /\ \A q \in Requests \ {r} : req'[q] = req[q]
          /\ UNCHANGED <<rows, raced>>
      BY <1>0, <2>1 DEF Begin, TypeOK
    <2>3. TypeOK'
      BY <1>0, <2>1 DEF Begin, TypeOK
    <2>4. NoTwoLiveRowsClash'
      BY <2>2 DEF IInv, NoTwoLiveRowsClash, Live
    <2>5. StillValid'
      BY <2>2 DEF IInv, StillValid, At, Clashes, Live
    <2>6. QED
      BY <2>3, <2>4, <2>5 DEF IInv
  <1>2. CASE Find(r)
    <2>1. CASE Live(req[r].id)
      <3>1. PICK pc \in {"validate", "write"} :
               /\ pc = (IF req[r].op = "update" THEN "validate" ELSE "write")
               /\ Goto(r, pc)
        BY <1>2, <2>1 DEF Find
      <3>2. req[r] # None /\ req[r].pc = "find" /\ req[r] \in Request
        BY <1>0, <1>2 DEF Find, At, TypeOK
      <3>3. /\ [req[r] EXCEPT !.pc = pc] \in Request
            /\ pc = "write" => req[r].op = "delete"
        BY <3>1, <3>2 DEF Request
      <3>4. QED
        BY <3>1, <3>2, <3>3, GotoStep
    <2>2. CASE ~Live(req[r].id)
      BY <1>2, <2>2, AnswerStep DEF Find
    <2>3. QED
      BY <2>1, <2>2
  <1>3. CASE Validate(r)
    <2>1. CASE Valid(req[r].key) /\ ~Clashes(r)
      <3>1. req[r] # None /\ req[r].pc = "validate" /\ req[r] \in Request
        BY <1>0, <1>3 DEF Validate, At, TypeOK
      <3>2. [req[r] EXCEPT !.pc = "write"] \in Request
        BY <3>1 DEF Request
      <3>3. QED
        BY <1>3, <2>1, <3>1, <3>2, GotoStep DEF Validate
    <2>2. CASE ~(Valid(req[r].key) /\ ~Clashes(r))
      BY <1>3, <2>2, AnswerStep DEF Validate
    <2>3. QED
      BY <2>1, <2>2
  <1>4. CASE Insert(r)
    <2>1. PICK i \in Ids : /\ Accepts(i, req[r].key)
                           /\ Written(r, i, [key |-> req[r].key, deleted |-> FALSE])
      BY <1>4 DEF Insert
    <2>2. req[r].key \in Keys
      BY <1>0, <1>4, RequestTyped DEF Insert, At
    <2>3. [key |-> req[r].key, deleted |-> FALSE] \in Row
      BY <2>2 DEF Row
    <2>4. QED
      BY <2>1, <2>3, WrittenStep
  <1>5. CASE Change(r) \/ SoftDelete(r)
    <2>1. CASE Answer(r)
      BY <2>1, AnswerStep
    <2>2. CASE ~Answer(r)
      <3>1. req[r].id \in Ids /\ Live(req[r].id)
        BY <1>0, <1>5, <2>2, RequestTyped DEF Change, SoftDelete, At
      <3>2. rows[req[r].id] \in Row
        BY <1>0, <3>1, LiveTyped
      <3>3. CASE Change(r)
        <4>1. req[r].key \in Keys
          BY <1>0, <3>3, RequestTyped DEF Change, At
        <4>2. /\ [rows[req[r].id] EXCEPT !.key = req[r].key] \in Row
              /\ [rows[req[r].id] EXCEPT !.key = req[r].key].key = req[r].key
          BY <3>2, <4>1 DEF Row
        <4>3. /\ Accepts(req[r].id, req[r].key)
              /\ Written(r, req[r].id, [rows[req[r].id] EXCEPT !.key = req[r].key])
          BY <2>2, <3>3 DEF Change
        <4>4. QED
          BY <3>1, <4>2, <4>3, WrittenStep
      <3>4. CASE SoftDelete(r)
        <4>1. /\ [rows[req[r].id] EXCEPT !.deleted = TRUE] \in Row
              /\ [rows[req[r].id] EXCEPT !.deleted = TRUE].deleted
          BY <3>2 DEF Row
        <4>2. Written(r, req[r].id, [rows[req[r].id] EXCEPT !.deleted = TRUE])
          BY <2>2, <3>4 DEF SoftDelete
        <4>3. QED
          BY <3>1, <4>1, <4>2, WrittenStep
      <3>5. QED
        BY <1>5, <3>3, <3>4
    <2>3. QED
      BY <2>1, <2>2
  <1>6. CASE Reject(r) \/ Fail(r)
    BY <1>6, AnswerStep DEF Reject, Fail
  <1>7. QED
    BY <1>1, <1>2, <1>3, <1>4, <1>5, <1>6 DEF Step, Write

-----------------------------------------------------------------------------
\* The inductive invariant holds in every behaviour of a table with a symmetric
\* constraint.
THEOREM Invariance == ExcludesIsSymmetric => (Spec => []IInv)
  <1>1. Init => IInv
    BY NoneAssumption DEF Init, IInv, TypeOK, NoTwoLiveRowsClash, StillValid, Live, At
  <1>2. ExcludesIsSymmetric /\ IInv /\ [Next]_vars => IInv'
    <2> SUFFICES ASSUME ExcludesIsSymmetric, IInv, [Next]_vars PROVE IInv'
      OBVIOUS
    <2>1. CASE Next
      BY <2>1, StepIInv DEF Next
    <2>2. CASE UNCHANGED vars
      BY <2>2 DEF vars, IInv, TypeOK, NoTwoLiveRowsClash, StillValid, Live, At, Clashes
    <2>3. QED
      BY <2>1, <2>2
  <1>3. ASSUME ExcludesIsSymmetric PROVE Spec => []IInv
    <2>1. IInv /\ [Next]_vars => IInv'
      BY <1>2, <1>3
    <2>2. QED
      BY <1>1, <2>1, PTL DEF Spec
  <1>4. QED
    BY <1>3

\* Every variable keeps its type.
THEOREM TypeCorrect == ExcludesIsSymmetric => (Spec => []TypeOK)
  <1>1. IInv => TypeOK
    BY DEF IInv
  <1>2. ASSUME ExcludesIsSymmetric PROVE Spec => []TypeOK
    <2>1. Spec => []IInv
      BY <1>2, Invariance
    <2>2. QED
      BY <1>1, <2>1, PTL
  <1>3. QED
    BY <1>2

\* A step leaves the table alone, or gives a new or live row other values.
LEMMA OneLiveRowChanges ==
    ASSUME TypeOK, Next
    PROVE  \/ UNCHANGED rows
           \/ \E i \in Ids, row \in Row : /\ rows[i] = None \/ Live(i)
                                          /\ rows' = [rows EXCEPT ![i] = row]
  <1>1. PICK r \in Requests : Step(r)
    BY DEF Next
  <1>2. CASE Insert(r)
    <2>1. req[r].key \in Keys
      BY <1>2, RequestTyped DEF Insert, At
    <2>2. [key |-> req[r].key, deleted |-> FALSE] \in Row
      BY <2>1 DEF Row
    <2>3. QED
      BY <1>2, <2>2 DEF Insert, Written
  <1>3. CASE (Change(r) \/ SoftDelete(r)) /\ ~UNCHANGED rows
    <2>1. /\ req[r] # None
          /\ Live(req[r].id) /\ req[r].id \in Ids
          /\ req[r].op # "delete" => req[r].key \in Keys
      BY <1>3, RequestTyped DEF Change, SoftDelete, At, Answer
    <2>2. rows[req[r].id] \in Row
      BY <2>1, LiveTyped
    <2>3. CASE Change(r)
      <3>1. [rows[req[r].id] EXCEPT !.key = req[r].key] \in Row
        BY <2>1, <2>2, <2>3 DEF Row, Change
      <3>2. rows' = [rows EXCEPT ![req[r].id] = [rows[req[r].id] EXCEPT !.key = req[r].key]]
        BY <1>3, <2>3 DEF Change, Written, Answer
      <3>3. QED
        BY <2>1, <3>1, <3>2
    <2>4. CASE SoftDelete(r)
      <3>1. [rows[req[r].id] EXCEPT !.deleted = TRUE] \in Row
        BY <2>2 DEF Row
      <3>2. rows' = [rows EXCEPT ![req[r].id] = [rows[req[r].id] EXCEPT !.deleted = TRUE]]
        BY <1>3, <2>4 DEF SoftDelete, Written, Answer
      <3>3. QED
        BY <2>1, <3>1, <3>2
    <2>5. QED
      BY <1>3, <2>3, <2>4
  <1>4. QED
    BY <1>1, <1>2, <1>3
    DEF Step, Write, Post, Put, Remove, Begin, Find, Validate, Goto, Reject, Fail, Answer

\* A deleted row never changes again: UPDATE ... WHERE "DeletedAt" IS NULL.
THEOREM DeletedFinal == ExcludesIsSymmetric => (Spec => DeletedRowsAreFinal)
  <1>1. TypeOK /\ [Next]_vars
        => [\A i \in Ids : rows[i] # None /\ rows[i].deleted => rows'[i] = rows[i]]_vars
    <2> SUFFICES ASSUME TypeOK, Next, NEW i \in Ids, rows[i] # None, rows[i].deleted
                 PROVE  rows'[i] = rows[i]
      OBVIOUS
    <2>1. CASE UNCHANGED rows
      BY <2>1
    <2>2. CASE \E j \in Ids, row \in Row : /\ rows[j] = None \/ Live(j)
                                           /\ rows' = [rows EXCEPT ![j] = row]
      BY <2>2 DEF Live, TypeOK
    <2>3. QED
      BY <2>1, <2>2, OneLiveRowChanges
  <1>2. ASSUME ExcludesIsSymmetric PROVE Spec => DeletedRowsAreFinal
    <2>1. Spec => []TypeOK
      BY <1>2, TypeCorrect
    <2>2. QED
      BY <1>1, <2>1, PTL DEF Spec, DeletedRowsAreFinal
  <1>3. QED
    BY <1>2

\* When the service is as strict as the table, only a request in front of which
\* another one wrote can fail on the constraint.
THEOREM LastResort ==
    ExcludesIsSymmetric /\ ServiceIsStricter => (Spec => ConstraintIsLastResort)
  <1>1. ServiceIsStricter /\ IInv /\ [Next]_vars
        => [\A r \in Requests : Reject(r) => r \in raced]_vars
    <2> SUFFICES ASSUME ServiceIsStricter, IInv, NEW r \in Requests, Reject(r), r \notin raced
                 PROVE  FALSE
      OBVIOUS
    <2>1. TypeOK /\ At(r, "write")
      BY DEF IInv, Reject
    <2>2. /\ req[r].op # "delete" /\ req[r].key \in Keys
          /\ req[r].op = "create" => req[r].id = None
          /\ req[r].op = "update" => req[r].id \in Ids
      BY <2>1, RequestTyped DEF Reject, At
    <2>3. Valid(req[r].key) /\ ~Clashes(r)
      BY <2>1, <2>2 DEF IInv, StillValid
    <2>4. PICK i \in Ids : /\ ~Accepts(i, req[r].key)
                           /\ req[r].op = "create" \/ i = req[r].id
      BY <2>2 DEF Reject
    <2>5. PICK j \in Ids \ {i} : Live(j) /\ Excludes(req[r].key, rows[j].key)
      BY <2>2, <2>3, <2>4 DEF ServiceIsStricter, Accepts
    <2>6. Clash(req[r].key, rows[j].key)
      BY <2>1, <2>2, <2>5, LiveTyped DEF ServiceIsStricter
    <2>7. j # req[r].id
      BY <2>2, <2>4, <2>5, NoneAssumption
    <2>8. QED
      BY <2>3, <2>5, <2>6, <2>7 DEF Clashes
  <1>2. ASSUME ExcludesIsSymmetric, ServiceIsStricter PROVE Spec => ConstraintIsLastResort
    <2>1. Spec => []IInv
      BY <1>2, Invariance
    <2>2. IInv /\ [Next]_vars => [\A r \in Requests : Reject(r) => r \in raced]_vars
      BY <1>1, <1>2
    <2>3. QED
      BY <2>1, <2>2, PTL DEF Spec, ConstraintIsLastResort
  <1>3. QED
    BY <1>2

-----------------------------------------------------------------------------
(* Product prices                                                          *)

\* A price names a product, a first instant and a last one or none.
LEMMA PriceTyped ==
    ASSUME PriceTable, NEW k \in Price
    PROVE  /\ k.product \in Products
           /\ k.from \in Times /\ k.from \in Nat
           /\ k.to # None => k.to \in Times /\ k.to \in Nat
  BY DEF PriceTable, Price

\* Two valid intervals share an instant exactly when each begins before the other
\* ends: the query of the service and the EXCLUDE constraint of the table refuse
\* the same prices.
THEOREM QueryIsTheConstraint ==
    ASSUME PriceTable, NEW k \in Price, NEW l \in Price, ValidInterval(k), ValidInterval(l)
    PROVE  Overlap(k, l) <=> RangesMeet(k, l)
  <1>0. /\ k.from \in Times /\ k.from \in Nat /\ (k.to # None => k.to \in Times /\ k.to \in Nat)
        /\ l.from \in Times /\ l.from \in Nat /\ (l.to # None => l.to \in Times /\ l.to \in Nat)
    BY PriceTyped
  <1>1. ASSUME Overlap(k, l) PROVE RangesMeet(k, l)
    <2>1. CASE k.from <= l.from
      <3>1. l.from \in Instants(k) \cap Instants(l)
        BY <1>0, <1>1, <2>1 DEF Instants, Overlap, ValidInterval
      <3>2. QED
        BY <1>1, <3>1 DEF RangesMeet, Overlap
    <2>2. CASE l.from <= k.from
      <3>1. k.from \in Instants(k) \cap Instants(l)
        BY <1>0, <1>1, <2>2 DEF Instants, Overlap, ValidInterval
      <3>2. QED
        BY <1>1, <3>1 DEF RangesMeet, Overlap
    <2>3. QED
      BY <1>0, <2>1, <2>2
  <1>2. ASSUME RangesMeet(k, l) PROVE Overlap(k, l)
    <2>1. PICK t \in Times : t \in Instants(k) /\ t \in Instants(l)
      BY <1>2 DEF RangesMeet, Instants
    <2>2. t \in Nat
      BY DEF PriceTable
    <2>3. QED
      BY <1>0, <1>2, <2>1, <2>2 DEF RangesMeet, Instants, Overlap
  <1>3. QED
    BY <1>1, <1>2

\* What the generic proofs ask of a table holds of this one.
LEMMA PricesAreRegular == PriceTable => ExcludesIsSymmetric /\ ServiceIsStricter
  <1> SUFFICES ASSUME PriceTable PROVE ExcludesIsSymmetric /\ ServiceIsStricter
    OBVIOUS
  <1>1. ASSUME NEW k \in Price, NEW l \in Price, RangesMeet(k, l)
        PROVE  RangesMeet(l, k) /\ Overlap(k, l)
    <2>1. PICK t \in Times : t \in Instants(k) /\ t \in Instants(l)
      BY <1>1 DEF RangesMeet, Instants
    <2>2. RangesMeet(l, k)
      BY <1>1, <2>1 DEF RangesMeet
    <2>3. t \in Nat
      BY DEF PriceTable
    <2>4. Overlap(k, l)
      BY <1>1, <2>1, <2>3, PriceTyped DEF RangesMeet, Instants, Overlap
    <2>5. QED
      BY <2>2, <2>4
  <1>2. ASSUME NEW k \in Price, ValidInterval(k) PROVE IntervalChecked(k)
    BY <1>2, PriceTyped DEF ValidInterval, IntervalChecked
  <1>3. QED
    BY <1>1, <1>2 DEF PriceTable, ExcludesIsSymmetric, ServiceIsStricter

\* The rows the reader selects at an instant are live and their interval has it.
LEMMA CurrentIsLive ==
    ASSUME PriceTable, TypeOK, NEW p \in Products, NEW t \in Times, NEW i \in Current(p, t)
    PROVE  /\ i \in Ids /\ Live(i) /\ rows[i].key \in Price
           /\ rows[i].key.product = p
           /\ t \in Instants(rows[i].key)
  <1>1. i \in Ids /\ Live(i)
    BY DEF Current
  <1>2. rows[i].key \in Price
    BY <1>1, LiveTyped DEF PriceTable
  <1>3. t \in Nat
    BY DEF PriceTable
  <1>4. QED
    BY <1>1, <1>2, <1>3, PriceTyped DEF Current, Instants

\* No two of them are different.
LEMMA CurrentIsOne ==
    ASSUME PriceTable, TypeOK, NoTwoLiveRowsClash, NEW p \in Products, NEW t \in Times,
           NEW i \in Current(p, t), NEW j \in Current(p, t)
    PROVE  i = j
  <1>1. /\ i \in Ids /\ Live(i) /\ rows[i].key \in Price
        /\ rows[i].key.product = p /\ t \in Instants(rows[i].key)
    BY CurrentIsLive
  <1>2. /\ j \in Ids /\ Live(j) /\ rows[j].key \in Price
        /\ rows[j].key.product = p /\ t \in Instants(rows[j].key)
    BY CurrentIsLive
  <1>3. RangesMeet(rows[i].key, rows[j].key)
    BY <1>1, <1>2 DEF RangesMeet
  <1>4. Excludes(rows[i].key, rows[j].key)
    BY <1>1, <1>2, <1>3 DEF PriceTable
  <1>5. QED
    BY <1>1, <1>2, <1>4 DEF NoTwoLiveRowsClash

\* At any instant a product has at most one price, whatever updates, creations
\* and deletions run at the same time (GetCurrentByProductIdAsync).
THEOREM PriceIsUnique == PriceTable => (Spec => []CurrentPriceIsUnique)
  <1>1. PriceTable /\ IInv => CurrentPriceIsUnique
    <2> SUFFICES ASSUME PriceTable, IInv, NEW p \in Products, NEW t \in Times
                 PROVE  Cardinality(Current(p, t)) <= 1
      BY DEF CurrentPriceIsUnique
    <2>1. CASE Current(p, t) = {}
      BY <2>1, FS_EmptySet
    <2>2. CASE \E i \in Ids : i \in Current(p, t)
      <3>1. PICK i \in Ids : i \in Current(p, t)
        BY <2>2
      <3>2. Current(p, t) = {i}
        BY <3>1, CurrentIsOne DEF IInv
      <3>3. QED
        BY <3>2, FS_Singleton
    <2>3. QED
      BY <2>1, <2>2 DEF Current
  <1>2. ASSUME PriceTable PROVE Spec => []CurrentPriceIsUnique
    <2>1. Spec => []IInv
      BY <1>2, Invariance, PricesAreRegular
    <2>2. IInv => CurrentPriceIsUnique
      BY <1>1, <1>2
    <2>3. QED
      BY <2>1, <2>2, PTL
  <1>3. QED
    BY <1>2

\* The constraint of the table refuses only a price in front of which another
\* request wrote after its validation.
THEOREM PriceConstraintIsLastResort == PriceTable => (Spec => ConstraintIsLastResort)
  BY LastResort, PricesAreRegular

\* A deleted price keeps its values for good.
THEOREM DeletedPricesAreFinal == PriceTable => (Spec => DeletedRowsAreFinal)
  BY DeletedFinal, PricesAreRegular

\* Rows, requests and their program counters keep their form; a request that
\* deletes never comes to validation.
THEOREM PricesTyped == PriceTable => (Spec => []TypeOK)
  BY TypeCorrect, PricesAreRegular

-----------------------------------------------------------------------------
(* The table implements the calendar                                       *)

\* The instants a row holds, and the rows that hold none any more.
Held == [i \in Ids |-> {s \in Slots : i \in Current(s[1], s[2])}]
Gone == {i \in Ids : rows[i] # None /\ rows[i].deleted}

HeldOnce == \A i, j \in Ids : i # j => Held[i] \cap Held[j] = {}

\* No instant is held twice: the state's part of the refinement.
LEMMA NothingHeldTwice == PriceTable /\ IInv => HeldOnce
  <1> SUFFICES ASSUME PriceTable, IInv, NEW i \in Ids, NEW j \in Ids, NEW s \in Slots,
                      s \in Held[i], s \in Held[j]
               PROVE  i = j
    BY DEF HeldOnce, Held
  <1>1. s[1] \in Products /\ s[2] \in Times
    BY DEF Slots
  <1>2. i \in Current(s[1], s[2]) /\ j \in Current(s[1], s[2])
    BY DEF Held
  <1>3. QED
    BY <1>1, <1>2, CurrentIsOne DEF IInv

\* A step of the table is a step of the calendar, or none.
LEMMA StepIsCalendarStep ==
    ASSUME TypeOK, HeldOnce', Next
    PROVE  Calendar!Next \/ UNCHANGED <<Held, Gone>>
  <1>1. CASE UNCHANGED rows
    BY <1>1 DEF Held, Gone, Current, Live
  <1>2. ASSUME NEW i \in Ids, NEW row \in Row, rows[i] = None \/ Live(i),
               rows' = [rows EXCEPT ![i] = row]
        PROVE  Calendar!Next
    <2>1. rows'[i] = row /\ row # None /\ \A j \in Ids \ {i} : rows'[j] = rows[j]
      BY <1>2, NoneAssumption DEF TypeOK
    <2>2. \A j \in Ids \ {i} : \A p, t : j \in Current(p, t)' <=> j \in Current(p, t)
      BY <2>1 DEF Current, Live
    <2>3. \A j \in Ids \ {i} : Held'[j] = Held[j]
      BY <2>2 DEF Held
    <2>4. i \notin Gone
      BY <1>2 DEF Gone, Live
    <2>5. Held' = [Held EXCEPT ![i] = Held'[i]]
      <3>1. Held = [j \in Ids |-> Held[j]] /\ Held' = [j \in Ids |-> Held'[j]]
        BY DEF Held
      <3> HIDE DEF Held
      <3>2. QED
        BY <2>3, <3>1
    <2>6. CASE row.deleted
      <3>1. Held'[i] = {}
        BY <2>1, <2>6 DEF Held, Current, Live
      <3>2. Gone' = Gone \cup {i}
        BY <2>1, <2>6 DEF Gone
      <3>3. Calendar!Withdraw(i)
        BY <2>4, <2>5, <3>1, <3>2 DEF Calendar!Withdraw, Held, Gone
      <3>4. QED
        BY <3>3 DEF Calendar!Next
    <2>7. CASE ~row.deleted
      <3>1. Gone' = Gone
        BY <2>1, <2>4, <2>7 DEF Gone
      <3>2. Held'[i] \in SUBSET Slots
        BY DEF Held
      <3>3. Calendar!Free(i, Held'[i])
        <4>1. \A j \in Ids \ {i} : Held'[i] \cap Held'[j] = {}
          BY DEF HeldOnce
        <4>2. \A j \in Ids \ {i} : Held'[i] \cap Held[j] = {}
          BY <2>3, <4>1, Zenon
        <4>3. QED
          BY <4>2 DEF Calendar!Free, Held
      <3>4. Calendar!Take(i, Held'[i])
        BY <2>4, <2>5, <3>1, <3>3 DEF Calendar!Take, Held, Gone
      <3>5. QED
        BY <3>2, <3>4 DEF Calendar!Next
    <2>8. QED
      BY <2>6, <2>7
  <1>3. QED
    BY <1>1, <1>2, OneLiveRowChanges

\* Requests, checks and constraint together implement the calendar of instants
\* (Registry): no instant changes hands without being given up first.
THEOREM CalendarRefined == PriceTable => (Spec => CalendarKept)
  <1>1. Init => Calendar!Init
    BY NoneAssumption DEF Init, Calendar!Init, Current, Live
  <1>2. TypeOK /\ HeldOnce' /\ [Next]_vars => [Calendar!Next]_<<Held, Gone>>
    <2> SUFFICES ASSUME TypeOK, HeldOnce', [Next]_vars
                 PROVE  [Calendar!Next]_<<Held, Gone>>
      OBVIOUS
    <2>1. CASE Next
      BY <2>1, StepIsCalendarStep
    <2>2. CASE UNCHANGED vars
      BY <2>2 DEF vars, Held, Gone, Current, Live
    <2>3. QED
      BY <2>1, <2>2
  <1>3. ASSUME PriceTable PROVE Spec => CalendarKept
    <2>1. IInv => TypeOK /\ HeldOnce
      BY <1>3, NothingHeldTwice DEF IInv
    <2>2. Spec => []IInv
      BY <1>3, Invariance, PricesAreRegular
    <2>3. QED
      BY <1>1, <1>2, <2>1, <2>2, PTL DEF Spec, CalendarKept, Calendar!Spec, Held, Gone
  <1>4. QED
    BY <1>3

-----------------------------------------------------------------------------
(* Tables with one unique column                                           *)

\* The query of the service and the index of the table compare the same column in
\* the same way.
LEMMA CategoriesAreRegular == CategoryTable => ExcludesIsSymmetric /\ ServiceIsStricter
  BY DEF CategoryTable, ExcludesIsSymmetric, ServiceIsStricter, SlugExists, SlugIndex

\* The index refuses only a row in front of which another request wrote: whatever it
\* would refuse otherwise, SlugExistsAsync has refused with an answer of its own.
THEOREM SlugIndexIsLastResort == CategoryTable => (Spec => ConstraintIsLastResort)
  BY LastResort, CategoriesAreRegular
-----------------------------------------------------------------------------
(* Such a table implements the registry of its slugs                       *)

\* The slugs a row holds.
Named == [i \in Ids |-> IF Live(i) THEN {Fold[rows[i].key]} ELSE {}]

NamedOnce == \A i, j \in Ids : i # j => Named[i] \cap Named[j] = {}

\* No slug is held twice.
LEMMA NoSlugHeldTwice == CategoryTable /\ TypeOK /\ NoTwoLiveRowsClash => NamedOnce
  <1> SUFFICES ASSUME CategoryTable, TypeOK, NoTwoLiveRowsClash,
                      NEW i \in Ids, NEW j \in Ids, NEW s, s \in Named[i], s \in Named[j]
               PROVE  i = j
    BY DEF NamedOnce
  <1>1. Live(i) /\ Live(j) /\ Fold[rows[i].key] = Fold[rows[j].key]
    BY DEF Named
  <1>2. Excludes(rows[i].key, rows[j].key)
    BY <1>1, LiveTyped DEF CategoryTable, SlugIndex
  <1>3. QED
    BY <1>1, <1>2 DEF NoTwoLiveRowsClash

\* A step of the table is a step of the registry, or none.
LEMMA StepIsDirectoryStep ==
    ASSUME TypeOK, NamedOnce', Next
    PROVE  Directory!Next \/ UNCHANGED <<Named, Gone>>
  <1>1. CASE UNCHANGED rows
    BY <1>1 DEF Named, Gone, Live
  <1>2. ASSUME NEW i \in Ids, NEW row \in Row, rows[i] = None \/ Live(i),
               rows' = [rows EXCEPT ![i] = row]
        PROVE  Directory!Next
    <2>1. rows'[i] = row /\ row # None /\ \A j \in Ids \ {i} : rows'[j] = rows[j]
      BY <1>2, NoneAssumption DEF TypeOK
    <2>2. \A j \in Ids \ {i} : Named'[j] = Named[j]
      BY <2>1 DEF Named, Live
    <2>3. i \notin Gone
      BY <1>2 DEF Gone, Live
    <2>4. Named' = [Named EXCEPT ![i] = Named'[i]]
      <3>1. Named = [j \in Ids |-> Named[j]] /\ Named' = [j \in Ids |-> Named'[j]]
        BY DEF Named
      <3> HIDE DEF Named
      <3>2. QED
        BY <2>2, <3>1
    <2>5. CASE row.deleted
      <3>1. Named'[i] = {}
        BY <2>1, <2>5 DEF Named, Live
      <3>2. Gone' = Gone \cup {i}
        BY <2>1, <2>5 DEF Gone
      <3>3. Directory!Withdraw(i)
        BY <2>3, <2>4, <3>1, <3>2 DEF Directory!Withdraw, Named, Gone
      <3>4. QED
        BY <3>3 DEF Directory!Next
    <2>6. CASE ~row.deleted
      <3>1. Gone' = Gone
        BY <2>1, <2>3, <2>6 DEF Gone
      <3>2. Named'[i] \in SUBSET Slugs
        BY <2>1, <2>6 DEF Named, Live, Slugs, Row
      <3>3. Directory!Free(i, Named'[i])
        <4>1. \A j \in Ids \ {i} : Named'[i] \cap Named'[j] = {}
          BY DEF NamedOnce
        <4>2. \A j \in Ids \ {i} : Named'[i] \cap Named[j] = {}
          BY <2>2, <4>1, Zenon
        <4>3. QED
          BY <4>2 DEF Directory!Free, Named
      <3>4. Directory!Take(i, Named'[i])
        BY <2>3, <2>4, <3>1, <3>3 DEF Directory!Take, Named, Gone
      <3>5. QED
        BY <3>2, <3>4 DEF Directory!Next
    <2>7. QED
      BY <2>5, <2>6
  <1>3. QED
    BY <1>1, <1>2, OneLiveRowChanges

\* The query of the service, the index of the table and the statements that look for
\* live rows only implement the registry of slugs: a slug passes from one category to
\* another only by being given up, and a deleted category takes none again.
THEOREM SlugsRefined == CategoryTable => (Spec => SlugsKept)
  <1>1. Init => Directory!Init
    BY NoneAssumption DEF Init, Directory!Init, Live
  <1>2. TypeOK /\ NamedOnce' /\ [Next]_vars => [Directory!Next]_<<Named, Gone>>
    <2> SUFFICES ASSUME TypeOK, NamedOnce', [Next]_vars
                 PROVE  [Directory!Next]_<<Named, Gone>>
      OBVIOUS
    <2>1. CASE Next
      BY <2>1, StepIsDirectoryStep
    <2>2. CASE UNCHANGED vars
      BY <2>2 DEF vars, Named, Gone, Live
    <2>3. QED
      BY <2>1, <2>2
  <1>3. ASSUME CategoryTable PROVE Spec => SlugsKept
    <2>1. IInv => TypeOK /\ NamedOnce
      BY <1>3, NoSlugHeldTwice DEF IInv
    <2>2. Spec => []IInv
      BY <1>3, Invariance, CategoriesAreRegular
    <2>3. QED
      BY <1>1, <1>2, <2>1, <2>2, PTL DEF Spec, SlugsKept, Directory!Spec, Named, Gone
  <1>4. QED
    BY <1>3
=============================================================================
