--------------------------- MODULE UnobtrusiveProofs ---------------------------
(* Proofs about UnobtrusiveForm, for every form, every set of values, every  *)
(* combination of data-val-* attributes and every number of changes.       *)
EXTENDS UnobtrusiveForm, FiniteSetTheorems, TLAPS

Previous == [Fields -> [old : {None} \cup AllData, valid : BOOLEAN]]
Requests == [Fields -> {None} \cup Request]
Containers == [Fields -> [class : {"valid", "server", "error"},
                          text : Rules \cup {"server", "none"}]]

\* A submit waits for what is under way.
Counted(pend, count, req, failed) ==
    /\ count = Cardinality(pend)
    /\ \A f \in Fields : req[f] # None => f \in pend
    /\ \A f \in pend : req[f] # None \/ f \in failed

\* A request is about the data the field remembers, or the field was reset.
Current(prev, req) ==
    \A f \in Fields : req[f] # None =>
        IF req[f].current THEN req[f].data = prev[f].old ELSE prev[f].old = None

\* A field that waits for nothing remembers no approval the server did not give.
Truthful(prev, pend, app) ==
    \A f \in Fields : f \notin pend /\ prev[f].old # None /\ prev[f].valid
                      => prev[f].old \in app[f]

IInv ==
    /\ TypeOK /\ (~attached => enforced = {})
    /\ Counted(pending, pendingRequest, request, lost)
    /\ Current(previous, request)
    /\ Truthful(previous, pending, approved)
    /\ NothingUnchecked

-----------------------------------------------------------------------------
LEMMA DataTyped == ASSUME NEW val \in [Fields -> Values], NEW f \in Fields
                   PROVE  Data(val, f) \in AllData /\ Data(val, f) # None
  <1>1. {f} \cup Additional[f] \subseteq Fields
    BY DeclaredAssumption
  <1>2. Data(val, f) \in [{f} \cup Additional[f] -> Values]
    BY <1>1 DEF Data
  <1>3. Data(val, f) \in AllData
    BY <1>1, <1>2 DEF AllData
  <1>4. QED
    BY <1>3, NoneAssumption

\* What pends is finite, and one more field that asks is one more that is counted.
LEMMA CountAsking ==
    ASSUME NEW pend \in SUBSET Fields, NEW asking \in SUBSET Fields
    PROVE  /\ Cardinality(pend) \in Nat /\ Cardinality(pend) <= Cardinality(Fields)
           /\ Cardinality(pend \cup asking) = Cardinality(pend) + Cardinality(asking \ pend)
  <1>1. IsFiniteSet(pend) /\ IsFiniteSet(asking \ pend) /\ Cardinality(pend) <= Cardinality(Fields)
    BY FieldsAssumption, FS_Subset
  <1>2. pend \cup asking = pend \cup (asking \ pend) /\ pend \cap (asking \ pend) = {}
    OBVIOUS
  <1>3. Cardinality(pend \cup (asking \ pend))
          = Cardinality(pend) + Cardinality(asking \ pend) - Cardinality(pend \cap (asking \ pend))
    BY <1>1, FS_Union
  <1>4. Cardinality(pend) \in Nat /\ Cardinality(asking \ pend) \in Nat
    BY <1>1, FS_CardinalityType
  <1>5. Cardinality({}) = 0
    BY FS_EmptySet
  <1>6. Cardinality(pend \cap (asking \ pend)) = 0
    BY <1>2, <1>5
  <1>7. Cardinality(pend \cup asking) = Cardinality(pend \cup (asking \ pend))
    BY <1>2
  <1>8. Cardinality(pend \cup asking) = Cardinality(pend) + Cardinality(asking \ pend)
    BY <1>3, <1>4, <1>6, <1>7
  <1>9. QED
    BY <1>1, <1>4, <1>8

\* A check leaves the remote rules in order, and its verdicts typed.
LEMMA CheckStep ==
    ASSUME enforced \subseteq Fields, container \in Containers, submitted \subseteq Fields,
           NEW S \in SUBSET Fields, NEW val \in [Fields -> Values],
           NEW prev \in Previous, NEW req \in Requests, NEW pend \in SUBSET enforced,
           NEW count, NEW failed, NEW app,
           Counted(pend, count, req, failed), Current(prev, req), Truthful(prev, pend, app),
           Check(S, val, prev, req, pend, count)
    PROVE  /\ previous' \in Previous /\ request' \in Requests
           /\ pending' \in SUBSET enforced /\ pendingRequest' \in 0 .. Cardinality(Fields)
           /\ DOMAIN errors' \subseteq S \cap enforced
           /\ \A f \in DOMAIN errors' : errors'[f] \in Rules
           /\ container' \in Containers /\ submitted' \subseteq Fields
           /\ Counted(pending', pendingRequest', request', failed)
           /\ Current(previous', request')
           /\ Truthful(previous', pending', app)
           /\ Valid' /\ pendingRequest' = 0 => \A f \in S : Verdict(prev, val, f) = "ok"
           /\ Valid' /\ pendingRequest' = 0 => previous' = prev
  <1> DEFINE verdict == [f \in S |-> Verdict(prev, val, f)]
             failing == {f \in S : verdict[f] \in Rules}
             asking == {f \in S : verdict[f] = "pending"}
  <1>1. /\ errors' = [f \in failing |-> verdict[f]] /\ submitted' = submitted \cup failing
        /\ container' = [f \in Fields |->
               IF f \in failing THEN OnError(f, verdict[f])
               ELSE IF f \in (S \cap enforced) \ asking THEN OnSuccess(f) ELSE container[f]]
        /\ previous' = [f \in Fields |->
               IF f \in asking THEN [prev[f] EXCEPT !.old = Data(val, f)] ELSE prev[f]]
        /\ request' = [f \in Fields |->
               IF f \in asking THEN [data |-> Data(val, f), current |-> TRUE] ELSE req[f]]
        /\ pending' = pend \cup asking
        /\ pendingRequest' = count + Cardinality(asking \ pend)
    BY DEF Check, StartRequests
  <1>2. ASSUME NEW f \in S
        PROVE  /\ verdict[f] \in Rules \cup {"ok", "pending"}
               /\ verdict[f] \in Rules \cup {"pending"} => f \in enforced
    BY DEF Verdict, Rules
  <1>3. failing \subseteq S \cap enforced /\ asking \subseteq S \cap enforced
    BY <1>2
  <1> HIDE DEF verdict, failing, asking
  <1>4. previous' \in Previous
    <2>1. ASSUME NEW f \in Fields
          PROVE  (IF f \in asking THEN [prev[f] EXCEPT !.old = Data(val, f)] ELSE prev[f])
                   \in [old : {None} \cup AllData, valid : BOOLEAN]
      BY DataTyped DEF Previous
    <2>2. QED
      BY <1>1, <2>1 DEF Previous
  <1>5. request' \in Requests
    <2>1. ASSUME NEW f \in Fields
          PROVE  [data |-> Data(val, f), current |-> TRUE] \in Request
      BY DataTyped DEF Request
    <2>2. QED
      BY <1>1, <2>1 DEF Requests
  <1>6. ASSUME NEW f \in asking
        PROVE  /\ f \in Fields
               /\ request'[f] # None /\ request'[f].current /\ request'[f].data = Data(val, f)
               /\ previous'[f].old = Data(val, f)
    <2>1. f \in Fields /\ request'[f] = [data |-> Data(val, f), current |-> TRUE]
          /\ previous'[f] = [prev[f] EXCEPT !.old = Data(val, f)]
      BY <1>1, <1>3
    <2>2. [data |-> Data(val, f), current |-> TRUE] # None
      <3>1. Data(val, f) \in AllData
        BY <2>1, DataTyped
      <3>2. [data |-> Data(val, f), current |-> TRUE] \in Request
        BY <3>1 DEF Request
      <3>3. QED
        BY <3>2, NoneAssumption
    <2>3. prev[f] \in [old : {None} \cup AllData, valid : BOOLEAN]
      BY <2>1 DEF Previous
    <2>4. QED
      BY <2>1, <2>2, <2>3
  <1>7. ASSUME NEW f \in Fields, f \notin asking
        PROVE  request'[f] = req[f] /\ previous'[f] = prev[f]
    BY <1>1, <1>7
  <1>8. Counted(pending', pendingRequest', request', failed)
    <2>1. pend \subseteq Fields /\ asking \subseteq Fields
      BY <1>3
    <2>2. pendingRequest' = Cardinality(pending')
      BY <1>1, <2>1, CountAsking DEF Counted
    <2>3. \A f \in Fields : request'[f] # None => f \in pending'
      BY <1>1, <1>7 DEF Counted
    <2>4. \A f \in pending' : request'[f] # None \/ f \in failed
      BY <1>1, <1>6, <1>7, <2>1 DEF Counted
    <2>5. QED
      BY <2>2, <2>3, <2>4 DEF Counted
  <1>9. pending' \in SUBSET enforced /\ pendingRequest' \in 0 .. Cardinality(Fields)
    <2>1. pending' \subseteq enforced /\ pending' \subseteq Fields
      BY <1>1, <1>3
    <2>2. pendingRequest' = Cardinality(pending')
      BY <1>8 DEF Counted
    <2>3. Cardinality(pending') \in Nat /\ Cardinality(pending') <= Cardinality(Fields)
      BY <2>1, CountAsking
    <2>4. Cardinality(Fields) \in Nat
      BY FieldsAssumption, FS_CardinalityType
    <2>5. QED
      BY <2>1, <2>2, <2>3, <2>4
  <1>10. Current(previous', request')
    BY <1>6, <1>7 DEF Current
  <1>11. Truthful(previous', pending', app)
    BY <1>1, <1>7 DEF Truthful
  <1>12. /\ DOMAIN errors' \subseteq S \cap enforced /\ submitted' \subseteq Fields
         /\ \A f \in DOMAIN errors' : errors'[f] \in Rules
    BY <1>1, <1>3 DEF failing
  <1>13. container' \in Containers
    <2>1. ASSUME NEW f \in Fields
          PROVE  /\ f \in failing => OnError(f, verdict[f]) \in
                        [class : {"valid", "server", "error"}, text : Rules \cup {"server", "none"}]
                 /\ OnSuccess(f) \in
                        [class : {"valid", "server", "error"}, text : Rules \cup {"server", "none"}]
      BY DEF OnError, OnSuccess, Containers, failing
    <2>2. QED
      BY <1>1, <2>1 DEF Containers
  <1>14. ASSUME Valid', pendingRequest' = 0
         PROVE  (\A f \in S : Verdict(prev, val, f) = "ok") /\ previous' = prev
    <2>1. failing = {}
      BY <1>1, <1>14 DEF Valid
    <2>2. asking = {}
      <3>1. pending' \subseteq Fields /\ Cardinality(pending') = 0
        BY <1>8, <1>9, <1>14 DEF Counted
      <3>2. pending' = {}
        BY <3>1, FieldsAssumption, FS_Subset, FS_EmptySet
      <3>3. QED
        BY <1>1, <3>2
    <2>3. \A f \in S : Verdict(prev, val, f) = "ok"
      BY <1>2, <2>1, <2>2 DEF verdict, failing, asking
    <2>4. previous' = prev
      BY <1>1, <2>2 DEF Previous
    <2>5. QED
      BY <2>3, <2>4
  <1>15. QED
    BY <1>4, <1>5, <1>8, <1>9, <1>10, <1>11, <1>12, <1>13, <1>14

\* What nothing unchecked says of one field, app being what the server approved.
Checked(f, app) ==
    /\ "required" \in Declared[f] => value[f] # Blank
    /\ "format" \in Declared[f] => value[f] \in Formed \cup {Blank}
    /\ "remote" \in Declared[f] => value[f] = Blank \/ Data(value, f) \in app[f]

\* What a check leaves behind; and if it finds nothing and waits for nothing, every
\* field satisfies its rules.
Checks(failed, app) ==
    /\ previous' \in Previous /\ request' \in Requests
    /\ pending' \in SUBSET enforced /\ pendingRequest' \in 0 .. Cardinality(Fields)
    /\ DOMAIN errors' \subseteq enforced /\ \A f \in DOMAIN errors' : errors'[f] \in Rules
    /\ container' \in Containers /\ submitted' \subseteq Fields
    /\ Counted(pending', pendingRequest', request', failed)
    /\ Current(previous', request')
    /\ Truthful(previous', pending', app)

LEMMA FormStep ==
    ASSUME TypeOK,
           NEW prev \in Previous, NEW req \in Requests, NEW pend \in SUBSET enforced,
           NEW count, NEW failed, NEW app,
           Counted(pend, count, req, failed), Current(prev, req), Truthful(prev, pend, app),
           Form(prev, req, pend, count)
    PROVE  /\ Checks(failed, app)
           /\ submitted' \subseteq Fields /\ invalid' \subseteq Fields
           /\ summary' \in [class : {"valid", "errors"}, list : SUBSET Rules]
           /\ Valid' /\ pendingRequest' = 0 => \A f \in enforced : Checked(f, app)
  <1>1. /\ enforced \in SUBSET Fields /\ container \in Containers
        /\ value \in [Fields -> Values] /\ submitted \subseteq Fields
        /\ summary \in [class : {"valid", "errors"}, list : SUBSET Rules]
    BY DEF TypeOK, Containers
  <1>2. /\ Check(enforced, value, prev, req, pend, count)
        /\ invalid' = DOMAIN errors'
        /\ OnErrors(errors')
    BY DEF Form
  <1>3. /\ Checks(failed, app)
        /\ Valid' /\ pendingRequest' = 0 => \A f \in enforced : Verdict(prev, value, f) = "ok"
        /\ Valid' /\ pendingRequest' = 0 => previous' = prev
    BY <1>1, <1>2, CheckStep DEF Checks
  <1>4. DOMAIN errors' \subseteq enforced /\ \A f \in DOMAIN errors' : errors'[f] \in Rules
    BY <1>3 DEF Checks
  <1>5. summary' \in [class : {"valid", "errors"}, list : SUBSET Rules]
    <2>1. {errors'[f] : f \in DOMAIN errors'} \subseteq Rules
      BY <1>4
    <2>2. QED
      BY <1>1, <1>2, <2>1 DEF OnErrors
  <1>6. ASSUME Valid', pendingRequest' = 0, NEW f \in enforced
        PROVE  Checked(f, app)
    <2>1. Verdict(prev, value, f) = "ok" /\ previous' = prev
      BY <1>3, <1>6
    <2>2. f \in Fields /\ f \notin pending'
      <3>1. pending' \subseteq Fields /\ Cardinality(pending') = 0
        BY <1>1, <1>3, <1>6 DEF Checks, Counted
      <3>2. pending' = {}
        BY <3>1, FieldsAssumption, FS_Subset, FS_EmptySet
      <3>3. QED
        BY <1>1, <3>2
    <2>3. ~Missing(value, f) /\ ~Malformed(value, f)
      BY <2>1 DEF Verdict
    <2>4. Asks(value, f) => prev[f].old = Data(value, f) /\ prev[f].valid
      BY <2>1, <2>3 DEF Verdict
    <2>5. Asks(value, f) => Data(value, f) \in app[f]
      <3>1. Data(value, f) # None
        BY <1>1, <2>2, DataTyped
      <3>2. QED
        BY <1>3, <2>1, <2>2, <2>4, <3>1 DEF Checks, Truthful
    <2>6. QED
      BY <2>3, <2>5 DEF Checked, Missing, Malformed, Asks
  <1>7. QED
    BY <1>1, <1>2, <1>3, <1>4, <1>5, <1>6 DEF Checks

\* An answer takes its field off the fields that wait.
LEMMA Answer ==
    ASSUME TypeOK, Counted(pending, pendingRequest, request, lost),
           Current(previous, request), Truthful(previous, pending, approved),
           NEW f \in Fields, request[f] # None, NEW valid \in BOOLEAN, NEW app,
           valid => app = [approved EXCEPT ![f] = @ \cup {request[f].data}],
           ~valid => app = [approved EXCEPT ![f] = @ \ {request[f].data}]
    PROVE  LET prev == Answered(f, valid)
               req == [request EXCEPT ![f] = None]
           IN  /\ prev \in Previous /\ req \in Requests /\ pending \ {f} \in SUBSET enforced
               /\ Counted(pending \ {f}, Left, req, lost)
               /\ Left \in 0 .. Cardinality(Fields)
               /\ Current(prev, req) /\ Truthful(prev, pending \ {f}, app)
               /\ app \in [Fields -> SUBSET AllData]
  <1> DEFINE prev == Answered(f, valid)
             req == [request EXCEPT ![f] = None]
  <1>1. /\ previous \in Previous /\ request \in Requests /\ pending \subseteq enforced
        /\ enforced \subseteq Fields /\ approved \in [Fields -> SUBSET AllData]
    BY DEF TypeOK, Previous, Requests
  <1>2. request[f] \in Request
    BY <1>1 DEF Requests
  <1>3. prev \in Previous
    BY <1>1 DEF Previous, Answered
  <1>4. /\ \A g \in Fields : prev[g].old = previous[g].old
        /\ \A g \in Fields : g # f => prev[g] = previous[g]
        /\ request[f].current => prev[f].valid = valid
        /\ ~request[f].current => prev = previous
    BY <1>1 DEF Answered, Previous
  <1>5. /\ req \in Requests /\ req[f] = None
        /\ \A g \in Fields : g # f => req[g] = request[g]
    BY <1>1 DEF Requests
  <1>6. Counted(pending \ {f}, Left, req, lost) /\ Left \in 0 .. Cardinality(Fields)
    <2>1. f \in pending /\ IsFiniteSet(pending) /\ pendingRequest = Cardinality(pending)
      BY <1>1, FieldsAssumption, FS_Subset DEF Counted
    <2>2. Cardinality(pending) \in Nat /\ Cardinality(pending) <= Cardinality(Fields)
          /\ Cardinality(Fields) \in Nat
      BY <1>1, CountAsking, FieldsAssumption, FS_CardinalityType
    <2>3. Cardinality(pending \ {f}) = Cardinality(pending) - 1
      BY <2>1, FS_RemoveElement
    <2>4. Cardinality(pending \ {f}) \in Nat
      BY <2>1, FS_RemoveElement, FS_CardinalityType
    <2>5. Left = Cardinality(pending \ {f}) /\ Left \in 0 .. Cardinality(Fields)
      BY <2>1, <2>2, <2>3, <2>4 DEF Left
    <2>6. QED
      BY <1>1, <1>5, <2>5 DEF Counted
  <1>7. Current(prev, req)
    BY <1>4, <1>5 DEF Current
  <1>8. app \in [Fields -> SUBSET AllData] /\ \A g \in Fields : g # f => app[g] = approved[g]
    BY <1>1, <1>2 DEF Request
  <1>9. Truthful(prev, pending \ {f}, app)
    <2>1. ASSUME NEW g \in Fields, g # f, g \notin pending \ {f}, prev[g].old # None, prev[g].valid
          PROVE  prev[g].old \in app[g]
      BY <1>4, <1>8, <2>1 DEF Truthful
    <2>2. ASSUME prev[f].old # None, prev[f].valid
          PROVE  prev[f].old \in app[f]
      <3>1. request[f].current /\ request[f].data = prev[f].old
        BY <1>4, <2>2 DEF Current
      <3>2. valid
        BY <1>4, <2>2, <3>1
      <3>3. app[f] = approved[f] \cup {request[f].data}
        BY <1>1, <3>2
      <3>4. QED
        BY <3>1, <3>3
    <2>3. QED
      BY <2>1, <2>2 DEF Truthful
  <1>10. QED
    BY <1>1, <1>3, <1>5, <1>6, <1>7, <1>8, <1>9

-----------------------------------------------------------------------------
\* Everything typed but the remote rules, the errors and the containers.
Rest ==
    /\ present \subseteq Fields /\ parsed \subseteq present /\ covered \subseteq parsed
    /\ attached \in BOOLEAN /\ enforced \subseteq parsed
    /\ value \in [Fields -> Values]
    /\ submitted \subseteq Fields /\ invalid \subseteq Fields
    /\ formSubmitted \in BOOLEAN
    /\ summary \in [class : {"valid", "errors"}, list : SUBSET Rules]
    /\ gone \in BOOLEAN /\ skipped \in BOOLEAN /\ changes \in 0 .. MaxChanges
    /\ approved \in [Fields -> SUBSET AllData] /\ lost \subseteq Fields

LEMMA Parts == TypeOK <=> /\ Rest
                          /\ previous \in Previous /\ request \in Requests
                          /\ pending \in SUBSET enforced
                          /\ pendingRequest \in 0 .. Cardinality(Fields)
                          /\ DOMAIN errors \subseteq enforced
                          /\ \A f \in DOMAIN errors : errors[f] \in Rules
                          /\ container \in Containers
  BY DEF TypeOK, Rest, Previous, Requests, Containers

LEMMA InitOK == Init => IInv
  <1> SUFFICES ASSUME Init PROVE IInv
    OBVIOUS
  <1>1. container \in Containers
    <2>1. PICK rejected \in SUBSET FromStart :
            container = [f \in Fields |-> IF f \in rejected THEN [class |-> "server", text |-> "server"]
                                          ELSE [class |-> "valid", text |-> "none"]]
      BY DEF Init
    <2>2. QED
      BY <2>1 DEF Containers
  <1>2. IsFiniteSet({}) /\ Cardinality({}) = 0 /\ Cardinality(Fields) \in Nat
    BY FS_EmptySet, FieldsAssumption, FS_CardinalityType
  <1>3. Rest
    <2>1. /\ present \subseteq Fields /\ parsed \subseteq present /\ covered \subseteq parsed
          /\ attached \in BOOLEAN /\ enforced \subseteq parsed
          /\ submitted \subseteq Fields /\ invalid \subseteq Fields
          /\ formSubmitted \in BOOLEAN /\ gone \in BOOLEAN /\ skipped \in BOOLEAN
          /\ lost \subseteq Fields
      BY FieldsAssumption DEF Init
    <2>2. changes \in 0 .. MaxChanges
      BY ChangesAssumption DEF Init
    <2>3. summary \in [class : {"valid", "errors"}, list : SUBSET Rules]
      BY DEF Init
    <2>4. value \in [Fields -> Values] /\ approved \in [Fields -> SUBSET AllData]
      BY DeclaredAssumption DEF Init
    <2>5. QED
      BY <2>1, <2>2, <2>3, <2>4 DEF Rest
  <1>4. previous \in Previous /\ request \in Requests
    BY DEF Init, Previous, Requests, Fresh
  <1>5. DOMAIN errors = {}
    BY DEF Init, NoErrors
  <1>6. TypeOK
    BY <1>1, <1>2, <1>3, <1>4, <1>5, Parts DEF Init
  <1>7. Counted(pending, pendingRequest, request, lost)
    BY <1>2 DEF Init, Counted
  <1>8. Current(previous, request) /\ Truthful(previous, pending, approved)
    BY DEF Init, Current, Truthful, Fresh
  <1>9. QED
    BY <1>6, <1>7, <1>8 DEF Init, IInv, NothingUnchecked

LEMMA NextOK == IInv /\ [Next]_vars => IInv'
  <1> SUFFICES ASSUME IInv, [Next]_vars PROVE IInv'
    OBVIOUS
  <1>1. /\ TypeOK /\ (~attached => enforced = {})
        /\ Counted(pending, pendingRequest, request, lost)
        /\ Current(previous, request) /\ Truthful(previous, pending, approved)
        /\ NothingUnchecked
    BY DEF IInv
  <1>2. /\ Rest
        /\ previous \in Previous /\ request \in Requests /\ pending \in SUBSET enforced
        /\ pendingRequest \in 0 .. Cardinality(Fields)
        /\ DOMAIN errors \subseteq enforced /\ \A f \in DOMAIN errors : errors[f] \in Rules
        /\ container \in Containers
    BY <1>1, Parts
  \* The invariant from its parts, after a step.
  <1>3. ASSUME Rest', ~attached' => enforced' = {}, enforced \subseteq enforced',
               Checks(lost', approved'),
               gone' /\ ~skipped' => \A f \in enforced' : Checked(f, approved)'
        PROVE  IInv'
    <2>1. pending' \subseteq enforced' /\ DOMAIN errors' \subseteq enforced'
      BY <1>3 DEF Checks
    <2>2. TypeOK'
      BY <1>3, <2>1 DEF Checks, TypeOK, Rest, Previous, Requests, Containers
    <2>3. NothingUnchecked'
      BY <1>3 DEF NothingUnchecked, Checked
    <2>4. Counted(pending, pendingRequest, request, lost)'
      BY <1>3 DEF Checks, Counted
    <2>5. Current(previous, request)' /\ Truthful(previous, pending, approved)'
      BY <1>3 DEF Checks, Current, Truthful
    <2>6. QED
      BY <1>3, <2>2, <2>3, <2>4, <2>5 DEF IInv
  \* A step that leaves the remote rules and what is shown alone.
  <1>4. ASSUME UNCHANGED remote_vars, UNCHANGED shown_vars, lost' = lost, approved' = approved
        PROVE  /\ Checks(lost', approved')
               /\ submitted' = submitted /\ invalid' = invalid /\ summary' = summary
               /\ formSubmitted' = formSubmitted
    BY <1>1, <1>2, <1>4 DEF Checks, Rest, remote_vars, shown_vars
  \* One field is checked.
  <1>5. ASSUME NEW f \in Fields, NEW val \in [Fields -> Values], Element(f, val), lost' = lost,
               approved' = approved
        PROVE  /\ Checks(lost', approved')
               /\ invalid' \subseteq Fields /\ submitted' \subseteq Fields
               /\ summary' = summary /\ formSubmitted' = formSubmitted
    <2>1. enforced \subseteq Fields /\ submitted \subseteq Fields /\ {f} \in SUBSET Fields
      BY <1>2 DEF Rest
    <2>2. Check({f}, val, previous, request, pending, pendingRequest)
      BY <1>5 DEF Element
    <2>3. Checks(lost, approved)
      BY <1>1, <1>2, <2>1, <2>2, CheckStep DEF Checks
    <2>4. invalid' \subseteq Fields
      BY <1>2, <1>5 DEF Element, Rest
    <2>5. QED
      BY <1>5, <2>3, <2>4 DEF Element, Checks
  <1>6. ASSUME NEW S \in SUBSET present, Parse(S)
        PROVE  IInv'
    <2>1. /\ Checks(lost', approved')
          /\ submitted' = submitted /\ invalid' = invalid /\ summary' = summary
          /\ formSubmitted' = formSubmitted
      BY <1>4, <1>6 DEF Parse
    <2>2. /\ parsed' = parsed \cup S /\ covered' = covered \cup S /\ gone' = FALSE /\ skipped' = skipped
          /\ present' = present /\ value' = value /\ changes' = changes
          /\ approved' = approved /\ lost' = lost
      BY <1>2, <1>6 DEF Parse, Rest
    <2>3. /\ enforced \subseteq enforced' /\ enforced' \subseteq parsed' /\ attached' = TRUE
      BY <1>1, <1>2, <1>6, <2>2 DEF Parse, Attach, Rest
    <2>4. Rest'
      BY <1>2, <2>1, <2>2, <2>3 DEF Rest
    <2>5. QED
      BY <1>3, <2>1, <2>2, <2>3, <2>4
  <1>7. ASSUME NEW f \in Fields, Insert(f)
        PROVE  IInv'
    <2>1. /\ Checks(lost', approved')
          /\ submitted' = submitted /\ invalid' = invalid /\ summary' = summary
          /\ formSubmitted' = formSubmitted
      BY <1>4, <1>7 DEF Insert
    <2>2. /\ present' = present \cup {f} /\ gone' = FALSE /\ skipped' = skipped /\ parsed' = parsed
          /\ covered' = covered /\ attached' = attached /\ enforced' = enforced
          /\ value' = value /\ changes' = changes /\ approved' = approved /\ lost' = lost
      BY <1>2, <1>7 DEF Insert, Rest
    <2>3. Rest'
      BY <1>2, <2>1, <2>2 DEF Rest
    <2>4. QED
      BY <1>1, <1>3, <2>1, <2>2, <2>3
  <1>8. ASSUME NEW f \in present, NEW skipAttach \in BOOLEAN, ParseElement(f, skipAttach)
        PROVE  IInv'
    <2>1. /\ Checks(lost', approved')
          /\ submitted' = submitted /\ invalid' = invalid /\ summary' = summary
          /\ formSubmitted' = formSubmitted
      BY <1>4, <1>8 DEF ParseElement
    <2>2. /\ parsed' = parsed \cup {f} /\ covered' = covered /\ gone' = FALSE /\ skipped' = skipped
          /\ present' = present /\ value' = value /\ changes' = changes
          /\ approved' = approved /\ lost' = lost
      BY <1>2, <1>8 DEF ParseElement, Rest
    <2>3. /\ enforced \subseteq enforced' /\ enforced' \subseteq parsed'
          /\ attached' \in BOOLEAN /\ (~attached' => enforced' = {})
      BY <1>1, <1>2, <1>8, <2>2 DEF ParseElement, Attach, Rest
    <2>4. Rest'
      BY <1>2, <2>1, <2>2, <2>3 DEF Rest
    <2>5. QED
      BY <1>3, <2>1, <2>2, <2>3, <2>4
  <1> DEFINE Still == /\ present' = present /\ parsed' = parsed /\ covered' = covered
                      /\ attached' = attached /\ enforced' = enforced
  <1>9. ASSUME NEW f \in Fields, Fill(f)
        PROVE  IInv'
    <2>1. /\ Checks(lost', approved')
          /\ submitted' = submitted /\ invalid' = invalid /\ summary' = summary
          /\ formSubmitted' = formSubmitted
      BY <1>4, <1>9 DEF Fill
    <2>2. /\ Still /\ gone' = FALSE /\ skipped' = skipped /\ value' \in [Fields -> Values]
          /\ changes' \in 0 .. MaxChanges /\ approved' = approved /\ lost' = lost
      BY <1>2, <1>9, ChangesAssumption DEF Fill, Touch, Rest, dom_vars
    <2>3. Rest'
      BY <1>2, <2>1, <2>2 DEF Rest
    <2>4. QED
      BY <1>1, <1>3, <2>1, <2>2, <2>3
  <1>10. ASSUME NEW f \in Fields, Type(f)
         PROVE  IInv'
    <2>1. /\ Still /\ gone' = FALSE /\ skipped' = skipped /\ value' \in [Fields -> Values]
          /\ changes' \in 0 .. MaxChanges /\ approved' = approved /\ lost' = lost
      BY <1>2, <1>10, ChangesAssumption DEF Type, Touch, Rest, dom_vars
    <2>2. \/ Element(f, value')
          \/ UNCHANGED remote_vars /\ UNCHANGED shown_vars
      BY <1>10 DEF Type
    <2>3. /\ Checks(lost', approved') /\ invalid' \subseteq Fields /\ submitted' \subseteq Fields
          /\ summary' = summary /\ formSubmitted' = formSubmitted
      <3>1. CASE Element(f, value')
        BY <1>5, <2>1, <3>1
      <3>2. CASE UNCHANGED remote_vars /\ UNCHANGED shown_vars
        BY <1>2, <1>4, <2>1, <3>2 DEF Rest
      <3>3. QED
        BY <2>2, <3>1, <3>2
    <2>4. Rest'
      BY <1>2, <2>1, <2>3 DEF Rest
    <2>5. QED
      BY <1>1, <1>3, <2>1, <2>3, <2>4
  <1>11. ASSUME NEW f \in Fields, Leave(f)
         PROVE  IInv'
    <2>1. /\ Still /\ gone' = FALSE /\ skipped' = skipped /\ value' = value
          /\ changes' = changes /\ approved' = approved /\ lost' = lost
      BY <1>2, <1>11 DEF Leave, Rest, dom_vars
    <2>2. /\ Checks(lost', approved') /\ invalid' \subseteq Fields /\ submitted' \subseteq Fields
          /\ summary' = summary /\ formSubmitted' = formSubmitted
      BY <1>2, <1>5, <1>11, <2>1 DEF Leave, Rest
    <2>3. Rest'
      BY <1>2, <2>1, <2>2 DEF Rest
    <2>4. QED
      BY <1>1, <1>3, <2>1, <2>2, <2>3
  <1>12. ASSUME Submit
         PROVE  IInv'
    <2>1. /\ Still /\ value' = value
          /\ changes' = changes /\ approved' = approved /\ lost' = lost
      BY <1>12 DEF Submit, dom_vars
    <2>2. ASSUME Form(previous, request, pending, pendingRequest),
                 gone' = (Valid' /\ pendingRequest' = 0),
                 formSubmitted' = (formSubmitted \/ (Valid' /\ pendingRequest' > 0)),
                 skipped' = skipped
          PROVE  IInv'
      <3>1. /\ Checks(lost, approved)
            /\ submitted' \subseteq Fields /\ invalid' \subseteq Fields
            /\ summary' \in [class : {"valid", "errors"}, list : SUBSET Rules]
            /\ Valid' /\ pendingRequest' = 0 => \A f \in enforced : Checked(f, approved)
        BY <1>1, <1>2, <2>2, FormStep
      <3>2. Rest'
        BY <1>2, <2>1, <2>2, <3>1 DEF Rest
      <3>3. gone' => \A f \in enforced' : Checked(f, approved)'
        BY <2>1, <2>2, <3>1 DEF Checked, Data
      <3>4. QED
        BY <1>1, <1>3, <2>1, <3>1, <3>2, <3>3
    <2>3. ASSUME gone' = TRUE, skipped' = TRUE, UNCHANGED remote_vars, UNCHANGED shown_vars
          PROVE  IInv'
      <3>1. /\ Checks(lost', approved')
            /\ submitted' = submitted /\ invalid' = invalid /\ summary' = summary
            /\ formSubmitted' = formSubmitted
        BY <1>4, <2>1, <2>3
      <3>2. Rest'
        BY <1>2, <2>1, <2>3, <3>1 DEF Rest
      <3>3. QED
        BY <1>1, <1>3, <2>1, <2>3, <3>1, <3>2
    <2>4. QED
      BY <1>12, <2>2, <2>3 DEF Submit
  <1>13. ASSUME Reset
         PROVE  IInv'
    <2>1. /\ Still /\ gone' = FALSE /\ skipped' = skipped /\ value' = [f \in Fields |-> Blank]
          /\ changes' \in 0 .. MaxChanges /\ approved' = approved /\ lost' = lost
      BY <1>2, <1>13, ChangesAssumption DEF Reset, Touch, Rest, dom_vars
    <2>2. value' \in [Fields -> Values]
      BY <2>1, DeclaredAssumption
    <2>3. /\ Checks(lost', approved')
          /\ submitted' \subseteq Fields /\ invalid' \subseteq Fields
          /\ summary' \in [class : {"valid", "errors"}, list : SUBSET Rules]
          /\ formSubmitted' = formSubmitted
      <3>1. CASE ~attached
        <4>1. UNCHANGED remote_vars /\ UNCHANGED shown_vars
          BY <1>13, <3>1 DEF Reset
        <4>2. QED
          BY <1>2, <1>4, <2>1, <4>1 DEF Rest
      <3>2. CASE attached
        <4>1. /\ invalid' = {} /\ submitted' = {} /\ errors' = NoErrors
              /\ previous' = [f \in Fields |-> IF f \in enforced THEN Fresh ELSE previous[f]]
              /\ request' = [f \in Fields |-> IF request[f] = None THEN None
                                              ELSE [request[f] EXCEPT !.current = FALSE]]
              /\ container' = ResetContainers
              /\ summary' = [summary EXCEPT !.class = "valid"]
              /\ pending' = pending /\ pendingRequest' = pendingRequest
              /\ formSubmitted' = formSubmitted
          BY <1>13, <3>2 DEF Reset
        <4>2. previous' \in Previous
          BY <1>2, <4>1 DEF Previous, Fresh
        <4>3. ASSUME NEW f \in Fields
              PROVE  /\ request'[f] \in {None} \cup Request
                     /\ request'[f] # None <=> request[f] # None
                     /\ request'[f] # None => request'[f].current = FALSE
          <5>1. CASE request[f] = None
            BY <4>1, <5>1
          <5>2. CASE request[f] # None
            <6>1. request[f] \in Request
              BY <1>2, <5>2 DEF Requests
            <6>2. request'[f] = [request[f] EXCEPT !.current = FALSE]
              BY <4>1, <5>2
            <6>3. request'[f] \in Request /\ request'[f].current = FALSE
              BY <6>1, <6>2 DEF Request
            <6>4. request'[f] # None
              BY <6>3, NoneAssumption
            <6>5. QED
              BY <5>2, <6>3, <6>4
          <5>3. QED
            BY <5>1, <5>2
        <4>4. request' \in Requests
          BY <4>1, <4>3 DEF Requests
        <4>5. container' \in Containers
          BY <1>2, <4>1 DEF ResetContainers, Containers
        <4>6. enforced \subseteq Fields
          BY <1>2 DEF Rest
        <4>7. Counted(pending', pendingRequest', request', lost')
          BY <1>1, <1>2, <2>1, <4>1, <4>3, <4>6 DEF Counted
        <4>8. Current(previous', request')
          <5>1. ASSUME NEW f \in Fields, request'[f] # None
                PROVE  ~request'[f].current /\ previous'[f].old = None
            <6>1. f \in enforced
              BY <1>1, <1>2, <4>3, <5>1 DEF Counted
            <6>2. QED
              BY <4>1, <4>3, <5>1, <6>1 DEF Fresh
          <5>2. QED
            BY <5>1 DEF Current
        <4>9. Truthful(previous', pending', approved')
          BY <1>1, <2>1, <4>1 DEF Truthful, Fresh
        <4>10. DOMAIN errors' = {}
          BY <4>1 DEF NoErrors
        <4>11. summary' \in [class : {"valid", "errors"}, list : SUBSET Rules]
          BY <1>2, <4>1 DEF Rest
        <4>12. QED
          BY <1>2, <4>1, <4>2, <4>4, <4>5, <4>7, <4>8, <4>9, <4>10, <4>11 DEF Checks
      <3>3. QED
        BY <3>1, <3>2
    <2>4. Rest'
      BY <1>2, <2>1, <2>2, <2>3 DEF Rest
    <2>5. QED
      BY <1>1, <1>3, <2>1, <2>3, <2>4
  <1>14. ASSUME NEW f \in Fields, Approve(f)
         PROVE  IInv'
    <2> DEFINE prev == Answered(f, TRUE)
               req == [request EXCEPT ![f] = None]
               app == [approved EXCEPT ![f] = @ \cup {request[f].data}]
    <2>1. /\ Still /\ value' = value /\ request[f] # None
          /\ changes' = changes /\ approved' = app /\ lost' = lost /\ gone = FALSE /\ skipped' = skipped
      BY <1>2, <1>14 DEF Approve, Rest, dom_vars
    <2>2. /\ prev \in Previous /\ req \in Requests /\ pending \ {f} \in SUBSET enforced
          /\ Counted(pending \ {f}, Left, req, lost) /\ Left \in 0 .. Cardinality(Fields)
          /\ Current(prev, req) /\ Truthful(prev, pending \ {f}, app)
          /\ app \in [Fields -> SUBSET AllData]
      <3>1. TypeOK /\ Counted(pending, pendingRequest, request, lost)
            /\ Current(previous, request) /\ Truthful(previous, pending, approved)
            /\ request[f] # None
        BY <1>1, <2>1
      <3>2. /\ TRUE => app = [approved EXCEPT ![f] = @ \cup {request[f].data}]
            /\ ~TRUE => app = [approved EXCEPT ![f] = @ \ {request[f].data}]
        OBVIOUS
      <3> HIDE DEF app
      <3>3. QED
        BY <3>1, <3>2, Answer
    <2>3. CASE formSubmitted /\ Left = 0
      <3>1. /\ Form(prev, req, pending \ {f}, Left)
            /\ gone' = (Valid' /\ pendingRequest' = 0)
            /\ formSubmitted' = ~gone'
        BY <1>14, <2>3 DEF Approve
      <3> HIDE DEF prev, req, app
      <3>2. /\ Checks(lost, app)
            /\ submitted' \subseteq Fields /\ invalid' \subseteq Fields
            /\ summary' \in [class : {"valid", "errors"}, list : SUBSET Rules]
            /\ Valid' /\ pendingRequest' = 0 => \A g \in enforced : Checked(g, app)
        BY <1>1, <2>2, <3>1, FormStep
      <3>3. Rest'
        BY <1>2, <2>1, <2>2, <3>1, <3>2 DEF Rest
      <3>4. gone' => \A g \in enforced' : Checked(g, approved)'
        BY <2>1, <3>1, <3>2 DEF Checked, Data
      <3>5. QED
        BY <1>1, <1>3, <2>1, <3>2, <3>3, <3>4
    <2>4. CASE ~(formSubmitted /\ Left = 0)
      <3>1. /\ previous' = prev /\ request' = req
            /\ pending' = pending \ {f} /\ pendingRequest' = Left
            /\ errors' = NoErrors /\ invalid' = invalid \cup {f}
            /\ container' = [container EXCEPT ![f] = OnSuccess(f)]
            /\ submitted' = submitted /\ summary' = summary
            /\ formSubmitted' = formSubmitted /\ gone' = gone
        BY <1>14, <2>4 DEF Approve
      <3> HIDE DEF prev, req, app
      <3>2. container' \in Containers
        BY <1>2, <3>1 DEF Containers, OnSuccess
      <3>3. DOMAIN errors' = {}
        BY <3>1 DEF NoErrors
      <3>4. Checks(lost', approved')
        BY <1>2, <2>1, <2>2, <3>1, <3>2, <3>3 DEF Checks, Rest
      <3>5. Rest'
        BY <1>2, <2>1, <2>2, <3>1 DEF Rest
      <3>6. QED
        BY <1>1, <1>3, <2>1, <3>1, <3>4, <3>5
    <2>5. QED
      BY <2>3, <2>4
  <1>15. ASSUME NEW f \in Fields, Reject(f)
         PROVE  IInv'
    <2> DEFINE prev == Answered(f, FALSE)
               req == [request EXCEPT ![f] = None]
               app == [approved EXCEPT ![f] = @ \ {request[f].data}]
    <2>1. /\ Still /\ value' = value /\ request[f] # None /\ submitted' = submitted
          /\ changes' = changes /\ approved' = app /\ lost' = lost /\ gone' = FALSE /\ skipped' = skipped
          /\ previous' = prev /\ request' = req
          /\ pending' = pending \ {f} /\ pendingRequest' = Left
          /\ errors' = [g \in DOMAIN errors \cup {f} |-> IF g = f THEN "remote" ELSE errors[g]]
          /\ invalid' = invalid \cup {f}
          /\ container' = [g \in Fields |-> IF g \in DOMAIN errors' THEN OnError(g, errors'[g])
                                            ELSE container[g]]
          /\ \/ OnErrors(errors') /\ formSubmitted' = FALSE
             \/ summary' = summary /\ formSubmitted' = formSubmitted
      BY <1>2, <1>15 DEF Reject, Rest, dom_vars
    <2>2. /\ prev \in Previous /\ req \in Requests /\ pending \ {f} \in SUBSET enforced
          /\ Counted(pending \ {f}, Left, req, lost) /\ Left \in 0 .. Cardinality(Fields)
          /\ Current(prev, req) /\ Truthful(prev, pending \ {f}, app)
          /\ app \in [Fields -> SUBSET AllData]
      <3>1. TypeOK /\ Counted(pending, pendingRequest, request, lost)
            /\ Current(previous, request) /\ Truthful(previous, pending, approved)
            /\ request[f] # None
        BY <1>1, <2>1
      <3>2. /\ FALSE => app = [approved EXCEPT ![f] = @ \cup {request[f].data}]
            /\ ~FALSE => app = [approved EXCEPT ![f] = @ \ {request[f].data}]
        OBVIOUS
      <3> HIDE DEF app
      <3>3. QED
        BY <3>1, <3>2, Answer
    <2> HIDE DEF prev, req, app
    <2>3. /\ DOMAIN errors' \subseteq enforced
          /\ \A g \in DOMAIN errors' : errors'[g] \in Rules
      <3>1. f \in enforced
        <4>1. request[f] # None
          BY <2>1
        <4>2. f \in pending
          BY <1>1, <4>1 DEF Counted
        <4>3. QED
          BY <1>2, <4>2
      <3>2. errors' = [g \in DOMAIN errors \cup {f} |-> IF g = f THEN "remote" ELSE errors[g]]
        BY <2>1
      <3>3. DOMAIN errors' = DOMAIN errors \cup {f}
        BY <3>2
      <3>4. ASSUME NEW g \in DOMAIN errors'
            PROVE  errors'[g] \in Rules
        BY <1>2, <3>2, <3>3 DEF Rules
      <3>5. QED
        BY <1>2, <3>1, <3>3, <3>4
    <2>4. container' \in Containers
      BY <1>2, <2>1, <2>3 DEF Containers, OnError
    <2>5. summary' \in [class : {"valid", "errors"}, list : SUBSET Rules]
      <3>1. {errors'[g] : g \in DOMAIN errors'} \subseteq Rules
        BY <2>3
      <3>2. summary \in [class : {"valid", "errors"}, list : SUBSET Rules]
        BY <1>2 DEF Rest
      <3>3. OnErrors(errors') \/ summary' = summary
        BY <2>1
      <3>4. QED
        BY <3>1, <3>2, <3>3 DEF OnErrors
    <2>6. formSubmitted' \in BOOLEAN
      BY <1>2, <2>1 DEF Rest
    <2>7. Checks(lost', approved')
      BY <1>2, <2>1, <2>2, <2>3, <2>4 DEF Checks, Rest
    <2>8. Rest'
      BY <1>2, <2>1, <2>2, <2>5, <2>6 DEF Rest
    <2>9. QED
      BY <1>1, <1>3, <2>1, <2>7, <2>8
  <1>16. ASSUME NEW f \in Fields, Lose(f)
         PROVE  IInv'
    <2>1. /\ Still /\ UNCHANGED shown_vars /\ value' = value /\ gone' = FALSE /\ skipped' = skipped
          /\ changes' = changes /\ approved' = approved /\ lost' = lost \cup {f}
          /\ previous' = previous /\ pending' = pending /\ pendingRequest' = pendingRequest
          /\ formSubmitted' = formSubmitted /\ request' = [request EXCEPT ![f] = None]
      BY <1>2, <1>16 DEF Lose, Rest, dom_vars
    <2>2. /\ request' \in Requests /\ request'[f] = None
          /\ \A g \in Fields : g # f => request'[g] = request[g]
      BY <1>2, <2>1 DEF Requests
    <2>3. enforced \subseteq Fields
      BY <1>2 DEF Rest
    <2>4. Counted(pending', pendingRequest', request', lost')
      BY <1>1, <1>2, <2>1, <2>2, <2>3 DEF Counted
    <2>5. Current(previous', request')
      BY <1>1, <2>1, <2>2 DEF Current
    <2>6. Checks(lost', approved')
      BY <1>1, <1>2, <2>1, <2>2, <2>4, <2>5 DEF Checks, Rest, shown_vars
    <2>7. Rest'
      BY <1>2, <2>1 DEF Rest, shown_vars
    <2>8. QED
      BY <1>1, <1>3, <2>1, <2>6, <2>7
  <1>17. CASE UNCHANGED vars
    BY <1>17 DEF vars, IInv, TypeOK, Valid, Counted, Current, Truthful, NothingUnchecked, Data
  <1>18. QED
    <2>1. CASE Ready
      BY <1>6, <2>1 DEF Ready
    <2>2. CASE Next /\ ~Ready
      BY <1>6, <1>7, <1>8, <1>9, <1>10, <1>11, <1>12, <1>13, <1>14, <1>15, <1>16, <2>2 DEF Next
    <2>3. QED
      BY <1>17, <2>1, <2>2

-----------------------------------------------------------------------------
THEOREM Invariance == Spec => []IInv
  <1>1. Init => IInv
    BY InitOK
  <1>2. IInv /\ [Next]_vars => IInv'
    BY NextOK
  <1>3. QED
    BY <1>1, <1>2, PTL DEF Spec

\* Every variable keeps its type: errors and pending requests only of fields the
\* validator has rules for.
THEOREM TypeCorrect == Spec => []TypeOK
  <1>1. IInv => TypeOK
    BY DEF IInv
  <1>2. QED
    BY <1>1, Invariance, PTL

\* The validator counts the fields that wait for an answer, whatever is aborted,
\* asked again or reset.
THEOREM PendingCounted == Spec => []PendingIsCounted
  <1>1. IInv => PendingIsCounted
    BY DEF IInv, Counted, PendingIsCounted
  <1>2. QED
    BY <1>1, Invariance, PTL

\* No validated form leaves the page with a value that a rule in force refuses or
\* that the server did not approve.
THEOREM NothingLeavesUnchecked == Spec => []NothingUnchecked
  <1>1. IInv => NothingUnchecked
    BY DEF IInv
  <1>2. QED
    BY <1>1, Invariance, PTL
-----------------------------------------------------------------------------
\* What brings the next key to a field that shows an error: the page found it, or the
\* server reported it and its field is invalid or asks again.
Rechecked(f, text) ==
    \/ f \in submitted
    \/ f \in invalid \cup pending /\ (f \in Replaced => text = "remote")

\* An error that is shown belongs to a rule in force, and an error of the last check
\* to a field that is checked again at the next key.
Shown ==
    /\ \A f \in Fields : container[f].class = "error" =>
           f \in enforced /\ Rechecked(f, container[f].text)
    /\ \A f \in DOMAIN errors : f \in submitted \/ (f \in invalid /\ errors[f] = "remote")

\* A check remembers what failed, and leaves an error where it did not look or still asks.
LEMMA CheckShows ==
    ASSUME NEW S \in SUBSET Fields, NEW val, NEW prev, NEW req, NEW pend, NEW count,
           container \in Containers, Check(S, val, prev, req, pend, count)
    PROVE  /\ DOMAIN errors' \subseteq S \cap enforced /\ pend \subseteq pending'
           /\ submitted' = submitted \cup DOMAIN errors'
           /\ \A f \in Fields : container'[f].class = "error" =>
                \/ f \in DOMAIN errors'
                \/ container'[f] = container[f] /\ (f \in S \cap enforced => f \in pending')
  <1> DEFINE verdict == [f \in S |-> Verdict(prev, val, f)]
             failing == {f \in S : verdict[f] \in Rules}
             asking == {f \in S : verdict[f] = "pending"}
  <1>1. /\ errors' = [f \in failing |-> verdict[f]] /\ submitted' = submitted \cup failing
        /\ container' = [f \in Fields |->
               IF f \in failing THEN OnError(f, verdict[f])
               ELSE IF f \in (S \cap enforced) \ asking THEN OnSuccess(f) ELSE container[f]]
        /\ pending' = pend \cup asking
    BY DEF Check, StartRequests
  <1>2. failing \subseteq S \cap enforced
    BY DEF Verdict, Rules
  <1> HIDE DEF verdict, failing, asking
  <1>3. ASSUME NEW f \in Fields, container'[f].class = "error", f \notin failing
        PROVE  container'[f] = container[f] /\ (f \in S \cap enforced => f \in asking)
    BY <1>1, <1>3 DEF OnSuccess
  <1>4. QED
    BY <1>1, <1>2, <1>3

LEMMA FormShows ==
    ASSUME TypeOK, Shown, NEW prev, NEW req, NEW pend, NEW count, Form(prev, req, pend, count),
           enforced' = enforced
    PROVE  Shown'
  <1>1. /\ enforced \in SUBSET Fields /\ container \in Containers
        /\ Check(enforced, value, prev, req, pend, count)
        /\ invalid' = DOMAIN errors'
    BY DEF TypeOK, Containers, Form
  <1>2. /\ DOMAIN errors' \subseteq enforced /\ submitted' = submitted \cup DOMAIN errors'
        /\ \A f \in Fields : container'[f].class = "error" =>
             \/ f \in DOMAIN errors'
             \/ container'[f] = container[f] /\ (f \in enforced => f \in pending')
    BY <1>1, CheckShows
  <1>3. QED
    BY <1>1, <1>2 DEF Shown, Rechecked

LEMMA ElementShows ==
    ASSUME TypeOK, Shown, NEW f \in Fields, NEW val, Element(f, val), enforced' = enforced
    PROVE  Shown'
  <1>1. /\ {f} \in SUBSET Fields /\ container \in Containers
        /\ Check({f}, val, previous, request, pending, pendingRequest)
        /\ invalid' = invalid \cup {f}
    BY DEF TypeOK, Containers, Element
  <1>2. /\ DOMAIN errors' \subseteq {f} \cap enforced /\ pending \subseteq pending'
        /\ submitted' = submitted \cup DOMAIN errors'
        /\ \A g \in Fields : container'[g].class = "error" =>
             g \in DOMAIN errors' \/ container'[g] = container[g]
    BY <1>1, CheckShows
  <1>3. QED
    BY <1>1, <1>2 DEF Shown, Rechecked

LEMMA StepShows == IInv /\ Shown /\ [Next]_vars => Shown'
  <1> SUFFICES ASSUME IInv, Shown, [Next]_vars PROVE Shown'
    OBVIOUS
  <1>1. /\ TypeOK /\ container \in Containers
        /\ enforced \subseteq Fields /\ pending \subseteq enforced /\ DOMAIN errors \subseteq enforced
        /\ \A f \in Fields : request[f] # None => f \in pending
    BY DEF IInv, TypeOK, Containers, Counted
  \* A step that leaves what is shown alone.
  <1>2. ASSUME UNCHANGED shown_vars, pending' = pending, enforced \subseteq enforced'
        PROVE  Shown'
    BY <1>2 DEF Shown, Rechecked, shown_vars
  <1>3. ASSUME NEW S \in SUBSET present, Parse(S)
        PROVE  Shown'
    BY <1>2, <1>3 DEF Parse, Attach, remote_vars, IInv
  <1>4. ASSUME NEW f \in present, NEW skipAttach \in BOOLEAN, ParseElement(f, skipAttach)
        PROVE  Shown'
    BY <1>2, <1>4 DEF ParseElement, Attach, remote_vars, IInv
  <1>5. ASSUME NEW f \in Fields, Insert(f) \/ Fill(f) \/ Lose(f)
        PROVE  Shown'
    BY <1>2, <1>5 DEF Insert, Fill, Lose, remote_vars, dom_vars
  <1>6. ASSUME NEW f \in Fields, Type(f)
        PROVE  Shown'
    <2>1. enforced' = enforced
      BY <1>6 DEF Type, dom_vars
    <2>2. CASE attached /\ f \in submitted \cup invalid
      BY <1>1, <1>6, <2>1, <2>2, ElementShows DEF Type
    <2>3. CASE ~(attached /\ f \in submitted \cup invalid)
      BY <1>2, <1>6, <2>1, <2>3 DEF Type, remote_vars
    <2>4. QED
      BY <2>2, <2>3
  <1>7. ASSUME NEW f \in Fields, Leave(f)
        PROVE  Shown'
    BY <1>1, <1>7, ElementShows DEF Leave, dom_vars
  <1>8. ASSUME Submit
        PROVE  Shown'
    <2>1. enforced' = enforced
      BY <1>8 DEF Submit, dom_vars
    <2>2. \/ Form(previous, request, pending, pendingRequest)
          \/ UNCHANGED remote_vars /\ UNCHANGED shown_vars
      BY <1>8 DEF Submit
    <2>3. CASE Form(previous, request, pending, pendingRequest)
      BY <1>1, <2>1, <2>3, FormShows
    <2>4. CASE UNCHANGED remote_vars /\ UNCHANGED shown_vars
      BY <1>2, <2>1, <2>4 DEF remote_vars
    <2>5. QED
      BY <2>2, <2>3, <2>4
  <1>9. ASSUME Reset
        PROVE  Shown'
    <2>1. enforced' = enforced
      BY <1>9 DEF Reset, dom_vars
    <2>2. CASE attached
      <3>1. DOMAIN errors' = {} /\ container' = ResetContainers
        BY <1>9, <2>2 DEF Reset, NoErrors
      <3>2. \A f \in Fields : container'[f].class # "error"
        BY <1>1, <3>1 DEF ResetContainers, Containers
      <3>3. QED
        BY <3>1, <3>2 DEF Shown
    <2>3. CASE ~attached
      BY <1>2, <1>9, <2>1, <2>3 DEF Reset, remote_vars
    <2>4. QED
      BY <2>2, <2>3
  <1>10. ASSUME NEW f \in Fields, Approve(f)
         PROVE  Shown'
    <2>1. enforced' = enforced
      BY <1>10 DEF Approve, dom_vars
    <2>2. CASE formSubmitted /\ Left = 0
      BY <1>1, <1>10, <2>1, <2>2, FormShows DEF Approve
    <2>3. CASE ~(formSubmitted /\ Left = 0)
      <3>1. /\ pending' = pending \ {f} /\ DOMAIN errors' = {} /\ invalid' = invalid \cup {f}
            /\ container' = [container EXCEPT ![f] = OnSuccess(f)] /\ submitted' = submitted
        BY <1>10, <2>3 DEF Approve, NoErrors
      <3>2. QED
        BY <1>1, <2>1, <3>1 DEF Shown, Rechecked, OnSuccess, Containers
    <2>4. QED
      BY <2>2, <2>3
  <1>11. ASSUME NEW f \in Fields, Reject(f)
         PROVE  Shown'
    <2>1. /\ enforced' = enforced /\ submitted' = submitted /\ invalid' = invalid \cup {f}
          /\ pending' = pending \ {f} /\ f \in pending
          /\ errors' = [g \in DOMAIN errors \cup {f} |-> IF g = f THEN "remote" ELSE errors[g]]
          /\ container' = [g \in Fields |-> IF g \in DOMAIN errors' THEN OnError(g, errors'[g])
                                            ELSE container[g]]
      BY <1>1, <1>11 DEF Reject, dom_vars
    <2>2. ASSUME NEW g \in DOMAIN errors'
          PROVE  /\ g \in enforced
                 /\ g \in submitted' \/ (g \in invalid' /\ errors'[g] = "remote")
      BY <1>1, <2>1, <2>2 DEF Shown
    <2>3. ASSUME NEW g \in Fields, container'[g].class = "error"
          PROVE  g \in enforced' /\ Rechecked(g, container[g].text)'
      <3>1. CASE g \in DOMAIN errors'
        <4>1. container'[g] = OnError(g, errors'[g])
          BY <2>1, <3>1
        <4>2. g \in Replaced => container'[g].text = errors'[g]
          BY <4>1 DEF OnError
        <4>3. QED
          BY <2>1, <2>2, <3>1, <4>2 DEF Rechecked
      <3>2. CASE g \notin DOMAIN errors'
        <4>1. container'[g] = container[g] /\ g # f
          BY <2>1, <3>2
        <4>2. QED
          BY <2>1, <2>3, <4>1 DEF Shown, Rechecked
      <3>3. QED
        BY <3>1, <3>2
    <2>4. QED
      BY <2>2, <2>3 DEF Shown
  <1>12. CASE UNCHANGED vars
    BY <1>2, <1>12 DEF vars, shown_vars
  <1>13. QED
    BY <1>3, <1>4, <1>5, <1>6, <1>7, <1>8, <1>9, <1>10, <1>11, <1>12 DEF Next, Ready

\* Whatever is typed, left, submitted, reset and answered, an error that the reader
\* sees is checked again at the next key: the page remembers what it found itself, and
\* what only the server reported is invalid or asked again.
THEOREM ErrorsRechecked == Spec => []ErrorsAreRechecked
  <1>1. Init => Shown
    BY DEF Init, Shown, NoErrors
  <1>2. Shown => ErrorsAreRechecked
    BY DEF Shown, Rechecked, ErrorsAreRechecked
  <1>3. QED
    BY <1>1, <1>2, StepShows, Invariance, PTL DEF Spec
=============================================================================
