------------------------ MODULE AccountsUsersProofs ------------------------
(* Proofs about AccountsUsers, for every set of users, e-mails and requests. *)
EXTENDS AccountsUsers, TLAPS

\* What the program counter of a request says of its arguments and of its user.
ReqOK(r) ==
    /\ busy = r => req[r].pc \in EfCalls
    /\ req[r].op = "other" => req[r].pc = "save"
    /\ req[r].op # "other" => req[r].user \in Users
    /\ req[r].op \in {"create", "update"} => req[r].email \in Emails
    /\ req[r].pc \in {"load", "edit"} => req[r].op \in {"update", "delete"}
    /\ req[r].pc \in {"valid", "mark"} => req[r].op \in {"create", "update"}
    /\ req[r].pc = "retire" => req[r].op = "delete"
    /\ req[r].op \in {"update", "delete"} =>
         /\ table[req[r].user] # None
         /\ req[r].pc # "load" => tracked[req[r].user] # None
    /\ req[r].pc \in {"retire", "publish"} => /\ table[req[r].user] # None
                                             /\ tracked[req[r].user] # None

\* A user that is being created has no row and no instance until it is marked,
\* and no other request knows its Guid.
Fresh(r) ==
    req[r].op = "create" /\ req[r].pc \in {"valid", "mark"} =>
        /\ table[req[r].user] = None
        /\ tracked[req[r].user] = None
        /\ \A q \in Requests \ {r} : req[q] # None => req[q].user # req[r].user

\* From then on it is waiting for its INSERT, or stored.
Marked(r) ==
    req[r].op = "create" /\ req[r].pc = "save" =>
        /\ tracked[req[r].user] # None
        /\ \/ table[req[r].user] # None
           \/ /\ tracked[req[r].user].state = "Added"
              /\ busy = r => req[r].user \in DOMAIN batch

\* What a running save captured knows the same deletions as the row and is known
\* to the tracker.
BatchOK ==
    \A u \in DOMAIN batch :
        /\ u \in Users
        /\ batch[u] \in Row
        /\ tracked[u] # None
        /\ table[u] # None /\ table[u].deleted => batch[u].deleted
        /\ batch[u].deleted => tracked[u].now.deleted

IInv ==
    /\ TypeOK
    /\ TrackerKnowsDeletions
    /\ BatchOK
    /\ \A r \in Requests : req[r] # None => ReqOK(r) /\ Fresh(r) /\ Marked(r)

-----------------------------------------------------------------------------
(* Typing of the pieces the actions are made of                            *)

\* A tracked instance has row values, and a snapshot when it is unchanged.
LEMMA InstanceTyped ==
    ASSUME TypeOK, NEW u \in Users, tracked[u] # None
    PROVE  /\ tracked[u] \in Instance
           /\ tracked[u].now \in Row
           /\ tracked[u].state \in {"Unchanged", "Modified", "Added"}
           /\ tracked[u].state = "Unchanged" => tracked[u].was \in Row
  BY DEF TypeOK, Instance

\* _context.Update makes a Modified instance.
LEMMA UpdatedTyped ==
    ASSUME NEW row \in Row
    PROVE  /\ Updated(row) \in Instance /\ Updated(row) # None
           /\ Updated(row).now = row /\ Updated(row).state = "Modified"
  <1>1. Updated(row) \in [state : {"Modified", "Added"}, now : Row, was : {None}, retired : {FALSE}]
    BY DEF Updated
  <1>2. Updated(row) \in Instance
    BY <1>1, Zenon DEF Instance
  <1>3. Updated(row).now = row /\ Updated(row).state = "Modified"
    BY DEF Updated
  <1>4. QED
    BY <1>2, <1>3, NoneAssumption

\* _context.Add makes an Added one, and so does the seed.
LEMMA AddedTyped ==
    ASSUME NEW row \in Row
    PROVE  [state |-> "Added", now |-> row, was |-> None, retired |-> FALSE] \in Instance
  <1>1. [state |-> "Added", now |-> row, was |-> None, retired |-> FALSE]
           \in [state : {"Modified", "Added"}, now : Row, was : {None}, retired : {FALSE}]
    OBVIOUS
  <1>2. QED
    BY <1>1, Zenon DEF Instance

\* A query's result is the instance there is, or an unchanged one of the row.
LEMMA ResolveTyped ==
    ASSUME TypeOK, NEW u \in Users, table[u] # None
    PROVE  /\ Resolve(u) \in Instance /\ Resolve(u) # None
           /\ tracked[u] # None => Resolve(u) = tracked[u]
           /\ tracked[u] = None => Resolve(u).now = table[u] /\ Resolve(u).state = "Unchanged"
  <1>1. table[u] \in Row
    BY DEF TypeOK
  <1>2. [state |-> "Unchanged", now |-> table[u], was |-> table[u], retired |-> FALSE]
           \in [state : {"Unchanged"}, now : Row, was : Row, retired : BOOLEAN]
    BY <1>1
  <1>3. [state |-> "Unchanged", now |-> table[u], was |-> table[u], retired |-> FALSE] \in Instance
    BY <1>2, Zenon DEF Instance
  <1>4. tracked[u] # None => tracked[u] \in Instance
    BY DEF TypeOK
  <1>5. QED
    BY <1>3, <1>4, NoneAssumption DEF Resolve

\* A retirement leaves the instance its state and every column but Status.
LEMMA RetiredTyped ==
    ASSUME TypeOK, NEW r \in Requests, Retire(r),
           req[r].user \in Users, tracked[req[r].user] # None
    PROVE  /\ tracked' \in [Users -> Instance \cup {None}]
           /\ \A u \in Users :
                /\ tracked[u] = None => tracked'[u] = None
                /\ tracked[u] # None => /\ tracked'[u] # None
                                        /\ tracked'[u].now = tracked[u].now
                                        /\ tracked'[u].was = tracked[u].was
                                        /\ tracked'[u].state = tracked[u].state
           /\ \A u \in Users \ {req[r].user} : tracked'[u] = tracked[u]
  <1>1. CASE UNCHANGED tracked
    BY <1>1 DEF TypeOK
  <1>2. CASE /\ tracked[req[r].user].state = "Unchanged"
             /\ tracked' = [tracked EXCEPT ![req[r].user].retired = TRUE]
    <2>1. PICK u \in Users : u = req[r].user
      OBVIOUS
    <2>2. tracked[u] \in Instance /\ tracked[u].state = "Unchanged" /\ tracked[u] # None
      BY <1>2, <2>1, InstanceTyped
    <2>3. /\ [tracked[u] EXCEPT !.retired = TRUE] \in Instance
          /\ [tracked[u] EXCEPT !.retired = TRUE].now = tracked[u].now
          /\ [tracked[u] EXCEPT !.retired = TRUE].was = tracked[u].was
          /\ [tracked[u] EXCEPT !.retired = TRUE].state = tracked[u].state
      BY <2>2 DEF Instance
    <2>4. tracked' = [tracked EXCEPT ![u] = [tracked[u] EXCEPT !.retired = TRUE]]
      BY <1>2, <2>1
    <2>5. QED
      BY <2>1, <2>2, <2>3, <2>4, NoneAssumption DEF TypeOK
  <1>3. QED
    BY <1>1, <1>2 DEF Retire

\* What a save writes for u is a row that forgets no deletion of the stored row,
\* and claims none the tracker does not know (SaveChanges of a shared context).
LEMMA WriteOfKeepsDeletions ==
    ASSUME TypeOK, TrackerKnowsDeletions, NEW u \in Users, tracked[u] # None
    PROVE  /\ WriteOf(u) \in Row
           /\ table[u] # None /\ table[u].deleted => WriteOf(u).deleted
           /\ WriteOf(u).deleted => tracked[u].now.deleted
  <1>1. /\ tracked[u].now \in Row
        /\ tracked[u].state = "Unchanged" => tracked[u].was \in Row
        /\ table[u] # None => table[u] \in Row
    BY InstanceTyped DEF TypeOK
  <1>2. CASE tracked[u].state # "Unchanged" \/ table[u] = None
    BY <1>1, <1>2 DEF WriteOf, TrackerKnowsDeletions
  <1>3. CASE ~(tracked[u].state # "Unchanged" \/ table[u] = None)
    BY <1>1, <1>3 DEF WriteOf, TrackerKnowsDeletions, Row
  <1>4. QED
    BY <1>2, <1>3

\* A commit stores what was captured or what is there now: it removes no row,
\* revives none and tells the tracker nothing new.
LEMMA CommitKeepsDeletions ==
    ASSUME IInv, NEW late \in SUBSET DOMAIN batch, Commit(late)
    PROVE  /\ table' \in [Users -> Row \cup {None}]
           /\ \A u \in Users :
                /\ u \notin DOMAIN batch => table'[u] = table[u]
                /\ u \in DOMAIN batch => table'[u] # None
                /\ table[u] # None => table'[u] # None
                /\ table[u] # None /\ table[u].deleted => table'[u].deleted
                /\ tracked[u] # None /\ table'[u] # None /\ table'[u].deleted
                     => tracked[u].now.deleted
  <1>1. TypeOK /\ TrackerKnowsDeletions /\ BatchOK
    BY DEF IInv
  <1>2. table' = [u \in Users |-> IF u \notin DOMAIN batch THEN table[u]
                                  ELSE IF u \in late THEN WriteOf(u) ELSE batch[u]]
    BY DEF Commit, Written
  <1>3. \A u \in DOMAIN batch :
           /\ u \in Users
           /\ tracked[u] # None
           /\ table'[u] \in Row
           /\ table[u] # None /\ table[u].deleted => table'[u].deleted
           /\ table'[u].deleted => tracked[u].now.deleted
    BY <1>1, <1>2, WriteOfKeepsDeletions DEF BatchOK
  <1>4. \A u \in Users : u \notin DOMAIN batch => table'[u] = table[u]
    BY <1>2
  <1>5. table' \in [Users -> Row \cup {None}]
    BY <1>1, <1>2, <1>3 DEF TypeOK
  <1>7. QED
    BY <1>1, <1>3, <1>4, <1>5, NoneAssumption DEF TrackerKnowsDeletions

\* An operation that ends leaves nothing captured.
LEMMA NothingTyped == \E S \in SUBSET Users : Nothing \in [S -> Row]
  <1>1. {} \in SUBSET Users /\ Nothing \in [{} -> Row]
    BY DEF Nothing
  <1>2. QED
    BY <1>1

\* The inductive invariant's part about the requests.
ReqsOK == \A r \in Requests : req[r] # None => ReqOK(r) /\ Fresh(r) /\ Marked(r)

-----------------------------------------------------------------------------
(* One lemma per action: it preserves the inductive invariant              *)

\* A creation begins with a Guid nobody else knows.
LEMMA CreateStep == ASSUME IInv, NEW r \in Requests, Create(r) PROVE IInv'
  <1> USE NoneAssumption DEF IInv, Create, Begin, At
  <1>1. TypeOK'
    BY DEF TypeOK, Request, Ops
  <1>3. TrackerKnowsDeletions'
    BY DEF TrackerKnowsDeletions
  <1>4. BatchOK'
    BY DEF BatchOK
  <1>5. ReqsOK'
    BY DEF ReqsOK, ReqOK, EfCalls, Fresh, Marked, TypeOK, Request, Ops
  <1>6. QED
    BY <1>1, <1>3, <1>4, <1>5 DEF ReqsOK

\* An update begins on a stored user.
LEMMA UpdateStep == ASSUME IInv, NEW r \in Requests, Update(r) PROVE IInv'
  <1> USE NoneAssumption DEF IInv, Update, Begin, At
  <1>1. TypeOK'
    BY DEF TypeOK, Request, Ops
  <1>3. TrackerKnowsDeletions'
    BY DEF TrackerKnowsDeletions
  <1>4. BatchOK'
    BY DEF BatchOK
  <1>5. ReqsOK'
    BY DEF ReqsOK, ReqOK, EfCalls, Fresh, Marked, TypeOK, Request, Ops
  <1>6. QED
    BY <1>1, <1>3, <1>4, <1>5 DEF ReqsOK

\* A deletion begins on a stored user.
LEMMA DeleteStep == ASSUME IInv, NEW r \in Requests, Delete(r) PROVE IInv'
  <1> USE NoneAssumption DEF IInv, Delete, Begin, At
  <1>1. TypeOK'
    BY DEF TypeOK, Request, Ops
  <1>3. TrackerKnowsDeletions'
    BY DEF TrackerKnowsDeletions
  <1>4. BatchOK'
    BY DEF BatchOK
  <1>5. ReqsOK'
    BY DEF ReqsOK, ReqOK, EfCalls, Fresh, Marked, TypeOK, Request, Ops
  <1>6. QED
    BY <1>1, <1>3, <1>4, <1>5 DEF ReqsOK

\* Another handler arrives at its SaveChanges.
LEMMA OtherStep == ASSUME IInv, NEW r \in Requests, Other(r) PROVE IInv'
  <1> USE NoneAssumption DEF IInv, Other, Begin, At
  <1>1. TypeOK'
    BY DEF TypeOK, Request, Ops
  <1>3. TrackerKnowsDeletions'
    BY DEF TrackerKnowsDeletions
  <1>4. BatchOK'
    BY DEF BatchOK
  <1>5. ReqsOK'
    BY DEF ReqsOK, ReqOK, EfCalls, Fresh, Marked, TypeOK, Request, Ops
  <1>6. QED
    BY <1>1, <1>3, <1>4, <1>5 DEF ReqsOK

\* What a save captures is a row for each pending user, with the same deletions.
LEMMA CaptureTyped ==
    ASSUME TypeOK, TrackerKnowsDeletions
    PROVE  /\ Pending \in SUBSET Users
           /\ [u \in Pending |-> WriteOf(u)] \in [Pending -> Row]
           /\ \A u \in Pending :
                /\ tracked[u] # None
                /\ table[u] # None /\ table[u].deleted => WriteOf(u).deleted
                /\ WriteOf(u).deleted => tracked[u].now.deleted
  <1>1. Pending \in SUBSET Users
    BY Zenon DEF Pending
  <1>2. \A u \in Pending : WriteOf(u) \in Row
    BY WriteOfKeepsDeletions DEF Pending
  <1>3. \A u \in Pending :
           /\ tracked[u] # None
           /\ table[u] # None /\ table[u].deleted => WriteOf(u).deleted
           /\ WriteOf(u).deleted => tracked[u].now.deleted
    BY WriteOfKeepsDeletions DEF Pending
  <1>4. [u \in Pending |-> WriteOf(u)] \in [Pending -> Row]
    BY <1>2, Zenon
  <1>5. QED
    BY <1>1, <1>3, <1>4, Zenon

\* An EF operation starts; a save captures what is pending.
LEMMA EnterStep == ASSUME IInv, NEW r \in Requests, Enter(r) PROVE IInv'
  <1>a. /\ UNCHANGED <<table, tracked, req>>
        /\ busy = None /\ busy' = r
        /\ probe' = IF At(r, "valid") THEN EmailOf(r) ELSE None
        /\ batch' = IF At(r, "save") THEN [u \in Pending |-> WriteOf(u)] ELSE Nothing
    BY DEF Enter
  <1>b. TypeOK /\ TrackerKnowsDeletions /\ ReqsOK
    BY DEF IInv, ReqsOK
  <1>c. \E S \in SUBSET Users : batch' \in [S -> Row]
    BY <1>a, <1>b, CaptureTyped, NothingTyped
  <1>d. At(r, "valid") => EmailOf(r) \in Emails
    BY <1>b, InstanceTyped DEF ReqsOK, ReqOK, EfCalls, At, EmailOf, Row, TypeOK
  <1>1. TypeOK'
    BY <1>a, <1>b, <1>c, <1>d DEF TypeOK
  <1>3. TrackerKnowsDeletions'
    BY <1>a DEF IInv, TrackerKnowsDeletions
  <1>4. BatchOK'
    <2>1. CASE At(r, "save")
      <3>1. batch' = [u \in Pending |-> WriteOf(u)]
        BY <1>a, <2>1
      <3>2. \A u \in Pending : WriteOf(u) \in Row
        BY <1>b, WriteOfKeepsDeletions DEF Pending
      <3>3. QED
        BY <1>a, <1>b, <3>1, <3>2, CaptureTyped DEF BatchOK
    <2>2. CASE ~At(r, "save")
      BY <1>a, <2>2 DEF BatchOK, Nothing
    <2>3. QED
      BY <2>1, <2>2
  <1>5. ReqsOK'
    <2>1. At(r, "save") => DOMAIN batch' = Pending
      BY <1>a
    <2>2. QED
      BY <1>a, <1>b, <2>1, NoneAssumption
      DEF ReqsOK, ReqOK, EfCalls, Fresh, Marked, TypeOK, Request, Ops, Pending, At, Enter
  <1>6. QED
    BY <1>1, <1>3, <1>4, <1>5 DEF IInv, ReqsOK

\* A collision only forgets the request.
LEMMA CollideStep == ASSUME IInv, NEW r \in Requests, Collide(r) PROVE IInv'
  <1> USE NoneAssumption DEF IInv, Collide, Answer, At
  <1>1. TypeOK'
    BY DEF TypeOK, Request, Ops
  <1>3. TrackerKnowsDeletions'
    BY DEF TrackerKnowsDeletions
  <1>4. BatchOK'
    BY DEF BatchOK
  <1>5. ReqsOK'
    BY DEF ReqsOK, ReqOK, EfCalls, Fresh, Marked, TypeOK, Request, Ops
  <1>6. QED
    BY <1>1, <1>3, <1>4, <1>5 DEF ReqsOK

\* A save with nothing pending: what was marked is stored already.
LEMMA SaveNothingStep == ASSUME IInv, NEW r \in Requests, SaveNothing(r) PROVE IInv'
  <1> USE NoneAssumption DEF IInv, SaveNothing, Goto, At
  <1>1. TypeOK'
    BY DEF TypeOK, Request, Ops
  <1>3. TrackerKnowsDeletions'
    BY DEF TrackerKnowsDeletions
  <1>4. BatchOK'
    BY DEF BatchOK
  <1>5. ReqsOK'
    BY DEF ReqsOK, ReqOK, EfCalls, Fresh, Marked, TypeOK, Request, Ops, Pending
  <1>6. QED
    BY <1>1, <1>3, <1>4, <1>5 DEF ReqsOK

\* A load adds the instance of a live row, or finds the one there is.
LEMMA LoadStep == ASSUME IInv, NEW r \in Requests, Load(r) PROVE IInv'
  <1> DEFINE u == req[r].user
  <1> USE NoneAssumption DEF IInv, Load, Answer, Goto, Leave, At
  <1>a. table[u] # None /\ ~table[u].deleted
           => /\ Resolve(u) \in Instance /\ Resolve(u) # None
              /\ tracked[u] # None => Resolve(u) = tracked[u]
    BY ResolveTyped DEF ReqOK
  <1>1. TypeOK'
    BY <1>a, NothingTyped DEF TypeOK, Request, Ops
  <1>3. TrackerKnowsDeletions'
    BY <1>a DEF TrackerKnowsDeletions, Resolve, ReqOK, TypeOK
  <1>4. BatchOK'
    BY DEF BatchOK, Nothing
  <1>b. u \in Users /\ req[r].op \in {"update", "delete"} /\ req[r] # None
    BY DEF ReqOK
  <1>c. /\ UNCHANGED table /\ busy' = None
        /\ \A v \in Users : tracked[v] # None => tracked'[v] = tracked[v]
        /\ \A v \in Users \ {u} : tracked'[v] = tracked[v]
    BY <1>a, <1>b DEF TypeOK
  <1>d. \A q \in Requests \ {r} : req'[q] = req[q]
    BY DEF TypeOK
  <1>e. \/ req'[r] = None
        \/ /\ req'[r] # None /\ req'[r] = [req[r] EXCEPT !.pc = "edit"]
           /\ table[u] # None /\ tracked'[u] # None
    BY <1>a, <1>b DEF TypeOK, Request
  <1>5. ReqsOK'
    <2>1. ASSUME NEW q \in Requests, req'[q] # None PROVE (ReqOK(q) /\ Fresh(q) /\ Marked(q))'
      <3>1. CASE q = r
        BY <1>b, <1>c, <1>e, <2>1, <3>1 DEF ReqOK, EfCalls, Fresh, Marked, TypeOK, Request
      <3>2. CASE q # r
        <4>1. req'[q] = req[q] /\ ReqOK(q) /\ Fresh(q) /\ Marked(q)
          BY <1>d, <2>1, <3>2
        <4>2. req[q].op # "other" => req[q].user \in Users
          BY <4>1 DEF ReqOK
        <4>3. ReqOK(q)'
          BY <1>c, <4>1, <4>2 DEF ReqOK
        <4>4. Fresh(q)'
          BY <1>b, <1>c, <1>d, <1>e, <2>1, <3>2, <4>1, <4>2 DEF Fresh, TypeOK, Request
        <4>5. Marked(q)'
          BY <1>c, <2>1, <3>2, <4>1, <4>2 DEF Marked
        <4>6. QED
          BY <4>3, <4>4, <4>5
      <3>3. QED
        BY <3>1, <3>2
    <2>2. QED
      BY <2>1 DEF ReqsOK
  <1>6. QED
    BY <1>1, <1>3, <1>4, <1>5 DEF ReqsOK

\* A validation reads only.
LEMMA ValidExistsStep == ASSUME IInv, NEW r \in Requests, ValidExists(r) PROVE IInv'
  <1> USE NoneAssumption DEF IInv, ValidExists, Answer, Goto, Leave, At
  <1>1. TypeOK'
    BY NothingTyped DEF TypeOK, Request, Ops
  <1>3. TrackerKnowsDeletions'
    BY DEF TrackerKnowsDeletions
  <1>4. BatchOK'
    BY DEF BatchOK, Nothing
  <1>5. ReqsOK'
    BY DEF ReqsOK, ReqOK, EfCalls, Fresh, Marked, TypeOK, Request, Ops, Nothing
  <1>6. QED
    BY <1>1, <1>3, <1>4, <1>5 DEF ReqsOK

\* An edit changes the e-mail, or sets IsDeleted, of the shared instance.
LEMMA EditStep == ASSUME IInv, NEW r \in Requests, Edit(r) PROVE IInv'
  <1> DEFINE u == req[r].user
  <1> USE NoneAssumption DEF IInv, Edit, Goto, At
  <1>a. /\ u \in Users
        /\ tracked[u] # None /\ tracked[u] \in Instance /\ tracked[u].now \in Row
        /\ table[u] # None
        /\ req[r].op \in {"update", "delete"}
        /\ req[r].op = "update" => req[r].email \in Emails
    BY InstanceTyped DEF ReqOK, TypeOK
  <1>b. /\ tracked'[u] \in Instance
        /\ tracked[u].now.deleted => tracked'[u].now.deleted
        /\ tracked[u].state = "Added" => tracked'[u].state = "Added" \/ table[u] # None
    <2>1. CASE req[r].op = "update"
      <3>1. tracked'[u] = [tracked[u] EXCEPT !.now.email = req[r].email]
        BY <1>a, <2>1 DEF TypeOK
      <3>2. [tracked[u].now EXCEPT !.email = req[r].email] \in Row
        BY <1>a, <2>1 DEF Row
      <3>3. /\ tracked'[u].now = [tracked[u].now EXCEPT !.email = req[r].email]
            /\ tracked'[u].state = tracked[u].state
            /\ tracked'[u] \in Instance
        BY <1>a, <3>1, <3>2 DEF Instance
      <3>4. tracked'[u].now.deleted = tracked[u].now.deleted
        BY <1>a, <3>3 DEF Row
      <3>5. QED
        BY <1>a, <3>3, <3>4
    <2>2. CASE req[r].op = "delete"
      <3>1. tracked'[u] = Updated([tracked[u].now EXCEPT !.deleted = TRUE])
        BY <1>a, <2>2 DEF TypeOK
      <3>2. [tracked[u].now EXCEPT !.deleted = TRUE] \in Row
        BY <1>a DEF Row
      <3>3. tracked'[u] \in Instance /\ tracked'[u].state = "Modified"
        BY <3>1, <3>2, UpdatedTyped
      <3>4. tracked'[u].now.deleted
        BY <1>a, <3>1, <3>2, UpdatedTyped DEF Row
      <3>5. QED
        BY <1>a, <3>3, <3>4 DEF ReqOK
    <2>3. QED
      BY <1>a, <2>1, <2>2
  <1>c. /\ tracked'[u] # None
        /\ tracked' \in [Users -> Instance \cup {None}]
        /\ \A v \in Users \ {u} : tracked'[v] = tracked[v]
        /\ tracked[u].now.deleted => tracked'[u].now.deleted
    BY <1>a, <1>b DEF TypeOK
  <1>1. TypeOK'
    BY <1>a, <1>c DEF TypeOK, Request, Ops
  <1>3. TrackerKnowsDeletions'
    BY <1>a, <1>c DEF TrackerKnowsDeletions
  <1>4. BatchOK'
    BY <1>a, <1>c DEF BatchOK
  <1>5. ReqsOK'
    BY <1>a, <1>c DEF ReqsOK, ReqOK, EfCalls, Fresh, Marked, TypeOK, Request, Ops
  <1>6. QED
    BY <1>1, <1>3, <1>4, <1>5 DEF ReqsOK

\* A mark makes the instance of the user Added or Modified.
LEMMA MarkStep == ASSUME IInv, NEW r \in Requests, Mark(r) PROVE IInv'
  <1> DEFINE u == req[r].user
  <1> USE NoneAssumption DEF IInv, Mark, Goto, At
  <1>a. /\ u \in Users /\ busy # r
        /\ req[r].op \in {"create", "update"}
        /\ req[r].email \in Emails
    BY DEF ReqOK, EfCalls
  <1>b. /\ tracked'[u] \in Instance
        /\ req[r].op = "create" =>
             /\ tracked'[u].state = "Added" /\ table[u] = None /\ tracked[u] = None
             /\ u \notin DOMAIN batch
        /\ req[r].op = "update" => /\ tracked[u] # None /\ table[u] # None
                                   /\ tracked'[u].now = tracked[u].now
    <2>1. CASE req[r].op = "create"
      <3>1. tracked'[u] = [state |-> "Added", now |-> NewRow(r), was |-> None, retired |-> FALSE]
        BY <1>a, <2>1 DEF TypeOK
      <3>2. NewRow(r) \in Row
        BY <1>a, <2>1 DEF NewRow, Row
      <3>3. tracked'[u] \in Instance /\ tracked'[u].state = "Added"
        BY <3>1, <3>2, AddedTyped
      <3>4. table[u] = None /\ tracked[u] = None
        BY <2>1 DEF Fresh
      <3>5. QED
        BY <2>1, <3>3, <3>4 DEF BatchOK
    <2>2. CASE req[r].op = "update"
      <3>1. tracked[u] # None /\ table[u] # None /\ tracked[u].now \in Row
        BY <1>a, <2>2, InstanceTyped DEF ReqOK
      <3>2. tracked'[u] = Updated(tracked[u].now)
        BY <1>a, <2>2, <3>1 DEF TypeOK
      <3>3. QED
        BY <2>2, <3>1, <3>2, UpdatedTyped
    <2>3. QED
      BY <1>a, <2>1, <2>2
  <1>c. /\ tracked'[u] # None
        /\ tracked' \in [Users -> Instance \cup {None}]
        /\ \A v \in Users \ {u} : tracked'[v] = tracked[v]
    <2>1. \E i : tracked' = [tracked EXCEPT ![u] = i]
      BY Zenon
    <2>2. QED
      BY <1>a, <1>b, <2>1 DEF TypeOK
  <1>1. TypeOK'
    <2>1. /\ req' = [req EXCEPT ![r].pc = "save"]
          /\ req \in [Requests -> Request \cup {None}] /\ req[r] \in Request
          /\ UNCHANGED <<table, busy, probe, batch>>
      BY DEF TypeOK
    <2>2. [req[r] EXCEPT !.pc = "save"] \in Request
      BY <2>1 DEF Request
    <2>t. TypeOK
      OBVIOUS
    <2> HIDE DEF IInv, Mark
    <2>3. QED
      BY <1>c, <2>1, <2>2, <2>t DEF TypeOK
  <1>3. TrackerKnowsDeletions'
    BY <1>a, <1>b, <1>c DEF TrackerKnowsDeletions
  <1>4. BatchOK'
    BY <1>a, <1>b, <1>c DEF BatchOK
  <1>5. ReqsOK'
    <2>1. /\ UNCHANGED <<table, busy, batch>>
          /\ \A q \in Requests \ {r} : req'[q] = req[q]
          /\ req[r] # None /\ req'[r] # None /\ req'[r] = [req[r] EXCEPT !.pc = "save"]
      BY <1>a DEF TypeOK, Request
    <2>a. \A p \in Requests : req'[p] # None => req[p] # None /\ req'[p].user = req[p].user
      BY <1>a, <2>1 DEF TypeOK, Request
    <2>i. TypeOK /\ ReqsOK
      BY DEF ReqsOK
    <2> HIDE DEF IInv, Mark
    <2>2. ASSUME NEW q \in Requests, req'[q] # None PROVE (ReqOK(q) /\ Fresh(q) /\ Marked(q))'
      <3>1. CASE q = r
        <4>1. /\ req[r] \in Request
              /\ req'[r].op = req[r].op /\ req'[r].pc = "save" /\ req'[r].user = u
              /\ req'[r].email = req[r].email
          BY <2>1, <2>i DEF TypeOK, Request
        <4>2. ReqOK(q)'
          BY <1>a, <1>b, <1>c, <2>1, <3>1, <4>1 DEF ReqOK, EfCalls
        <4>3. Fresh(q)' /\ Marked(q)'
          BY <1>a, <1>b, <1>c, <2>1, <3>1, <4>1 DEF Fresh, Marked
        <4>4. QED
          BY <4>2, <4>3
      <3>2. CASE q # r
        <4>1. req'[q] = req[q] /\ ReqOK(q) /\ Fresh(q) /\ Marked(q)
          BY <2>1, <2>2, <2>i, <3>2 DEF ReqsOK
        <4>2. req[q].op # "other" => req[q].user \in Users
          BY <4>1 DEF ReqOK
        <4>3. ReqOK(q)'
          BY <1>a, <1>c, <2>1, <4>1, <4>2 DEF ReqOK
        <4>4. Fresh(q)'
          BY <1>a, <1>b, <1>c, <2>1, <2>a, <2>2, <3>2, <4>1, <4>2 DEF Fresh
        <4>5. Marked(q)'
          BY <1>a, <1>b, <1>c, <2>1, <3>2, <4>1, <4>2 DEF Marked
        <4>6. QED
          BY <4>3, <4>4, <4>5
      <3>3. QED
        BY <3>1, <3>2
    <2>3. QED
      BY <2>2 DEF ReqsOK
  <1>6. QED
    BY <1>1, <1>3, <1>4, <1>5 DEF ReqsOK

\* A retirement changes the status of an instance that is tracked.
LEMMA RetireStep == ASSUME IInv, NEW r \in Requests, Retire(r) PROVE IInv'
  <1> DEFINE u == req[r].user
  <1> USE NoneAssumption DEF IInv, Goto, At
  <1>r. /\ At(r, "retire") /\ Goto(r, "publish")
        /\ UNCHANGED <<table, busy, probe, batch>>
    BY DEF Retire
  <1>a. /\ u \in Users /\ busy # r
        /\ req[r].op = "delete"
        /\ tracked[u] # None /\ tracked[u] \in Instance /\ tracked[u].now \in Row
        /\ table[u] # None
    BY <1>r, InstanceTyped DEF ReqOK, EfCalls
  <1>c. /\ tracked' \in [Users -> Instance \cup {None}]
        /\ \A v \in Users \ {u} : tracked'[v] = tracked[v]
        /\ \A v \in Users : tracked[v] # None
                            => /\ tracked'[v] # None /\ tracked'[v].now = tracked[v].now
                               /\ tracked'[v].state = tracked[v].state
        /\ \A v \in Users : tracked[v] = None => tracked'[v] = None
    BY <1>a, RetiredTyped
  <1>b. tracked'[u] # None /\ tracked'[u].now.deleted = tracked[u].now.deleted
        /\ tracked'[u].state = tracked[u].state
    BY <1>a, <1>c
  <1>1. TypeOK'
    <2>1. req' \in [Requests -> Request \cup {None}]
      BY <1>r, <1>a DEF TypeOK, Request
    <2>2. QED
      BY <1>r, <1>c, <2>1 DEF TypeOK
  <1>3. TrackerKnowsDeletions'
    BY <1>r, <1>a, <1>b, <1>c DEF TrackerKnowsDeletions
  <1>4. BatchOK'
    BY <1>r, <1>a, <1>b, <1>c DEF BatchOK
  <1>5. ReqsOK'
    <2>1. /\ UNCHANGED <<table, busy, batch>>
          /\ \A q \in Requests \ {r} : req'[q] = req[q]
          /\ req[r] # None /\ req'[r] # None /\ req'[r] = [req[r] EXCEPT !.pc = "publish"]
      BY <1>r, <1>a DEF TypeOK, Request
    <2>a. \A p \in Requests : req'[p] # None => req[p] # None /\ req'[p].user = req[p].user
      BY <1>a, <2>1 DEF TypeOK, Request
    <2>2. ASSUME NEW q \in Requests, req'[q] # None PROVE (ReqOK(q) /\ Fresh(q) /\ Marked(q))'
      <3>1. CASE q = r
        <4>1. /\ req'[r].op = "delete" /\ req'[r].pc = "publish"
              /\ req'[r].user = u /\ req'[r].email = req[r].email
          BY <1>a, <2>1 DEF TypeOK, Request
        <4>2. ReqOK(r)'
          BY <1>a, <1>c, <2>1, <4>1 DEF ReqOK, EfCalls
        <4>3. QED
          BY <3>1, <4>1, <4>2 DEF Fresh, Marked
      <3>2. CASE q # r
        <4>1. req'[q] = req[q] /\ ReqOK(q) /\ Fresh(q) /\ Marked(q)
          BY <2>1, <2>2, <3>2
        <4>2. req[q].op # "other" => req[q].user \in Users
          BY <4>1 DEF ReqOK
        <4>3. ReqOK(q)'
          BY <1>a, <1>c, <2>1, <4>1, <4>2 DEF ReqOK
        <4>4. Fresh(q)'
          <5>1. SUFFICES ASSUME req[q].op = "create", req[q].pc \in {"valid", "mark"}
                         PROVE  /\ table'[req[q].user] = None /\ tracked'[req[q].user] = None
                                /\ \A p \in Requests \ {q} : req'[p] # None
                                                            => req'[p].user # req[q].user
            BY <4>1 DEF Fresh
          <5>2. /\ table[req[q].user] = None /\ tracked[req[q].user] = None
                /\ \A p \in Requests \ {q} : req[p] # None => req[p].user # req[q].user
            BY <4>1, <5>1 DEF Fresh
          <5>3. req[q].user \in Users \ {u}
            BY <1>a, <4>2, <5>1, <5>2
          <5>4. QED
            BY <1>c, <2>1, <2>a, <5>2, <5>3
        <4>5. Marked(q)'
          BY <1>a, <1>b, <1>c, <2>1, <3>2, <4>1, <4>2 DEF Marked
        <4>6. QED
          BY <4>3, <4>4, <4>5
      <3>3. QED
        BY <3>1, <3>2
    <2>3. QED
      BY <2>2 DEF ReqsOK
  <1>6. QED
    BY <1>1, <1>3, <1>4, <1>5 DEF ReqsOK

\* The transaction is committed, and its entries accepted.
LEMMA SaveChangesStep == ASSUME IInv, NEW r \in Requests, SaveChanges(r) PROVE IInv'
  <1> USE NoneAssumption
  <1>i. /\ TypeOK /\ BatchOK /\ TrackerKnowsDeletions /\ ReqsOK
        /\ busy = r /\ req[r] # None /\ req[r].pc = "save"
    BY DEF IInv, ReqsOK, SaveChanges, At
  <1>a. PICK late \in SUBSET DOMAIN batch : Commit(late)
    BY DEF SaveChanges
  <1>b. /\ table' \in [Users -> Row \cup {None}]
        /\ \A u \in Users :
             /\ u \notin DOMAIN batch => table'[u] = table[u]
             /\ u \in DOMAIN batch => table'[u] # None
             /\ table[u] # None => table'[u] # None
             /\ tracked[u] # None /\ table'[u] # None /\ table'[u].deleted
                  => tracked[u].now.deleted
    BY <1>a, CommitKeepsDeletions
  <1>c. /\ tracked' \in [Users -> Instance \cup {None}]
        /\ \A u \in Users :
             /\ tracked[u] # None => tracked'[u] # None /\ tracked'[u].now = tracked[u].now
             /\ tracked[u] = None => tracked'[u] = None
             /\ u \notin DOMAIN batch => tracked'[u] = tracked[u]
    <2>1. tracked' = [u \in Users |-> IF u \in DOMAIN batch
                               THEN [state |-> "Unchanged", now |-> tracked[u].now,
                                     was |-> tracked[u].now, retired |-> FALSE]
                               ELSE tracked[u]]
      BY DEF SaveChanges, Accept
    <2>2. \A u \in Users : u \in DOMAIN batch => tracked[u] # None /\ tracked[u].now \in Row
      BY <1>i, InstanceTyped DEF BatchOK
    <2>3. \A u \in Users : u \in DOMAIN batch
                           => /\ tracked'[u] \in Instance
                              /\ tracked'[u].now = tracked[u].now
      BY <2>1, <2>2 DEF Instance
    <2>4. \A u \in Users : u \notin DOMAIN batch => tracked'[u] = tracked[u]
      BY <2>1
    <2>5. QED
      BY <1>i, <2>1, <2>2, <2>3, <2>4 DEF TypeOK
  <1>d. /\ busy' = None /\ probe' = None /\ batch' = Nothing
        /\ \/ req' = [req EXCEPT ![r] = None]
           \/ req' = [req EXCEPT ![r].pc = "retire"] /\ req[r].op = "delete"
           \/ req' = [req EXCEPT ![r].pc = "publish"] /\ req[r].op \notin {"other", "delete"}
    BY DEF SaveChanges, Leave, Answer, Goto
  <1>1. TypeOK'
    BY <1>b, <1>c, <1>d, <1>i, NothingTyped DEF TypeOK, Request
  <1>3. TrackerKnowsDeletions'
    BY <1>b, <1>c DEF TrackerKnowsDeletions
  <1>4. BatchOK'
    BY <1>d DEF BatchOK, Nothing
  <1>5. ReqsOK'
    <2>1. ASSUME NEW q \in Requests, req'[q] # None
          PROVE  (ReqOK(q) /\ Fresh(q) /\ Marked(q))'
      <3>1. /\ req[q] # None /\ ReqOK(q) /\ Fresh(q) /\ Marked(q)
            /\ req'[q].op = req[q].op /\ req'[q].user = req[q].user
            /\ req'[q].email = req[q].email
            /\ q # r => req'[q] = req[q]
            /\ q = r => \/ req'[q].pc = "retire" /\ req[q].op = "delete"
                        \/ req'[q].pc = "publish" /\ req[q].op \notin {"other", "delete"}
        BY <1>d, <1>i, <2>1 DEF ReqsOK, TypeOK, Request
      <3>2. req[q].op # "other" => req[q].user \in Users
        BY <3>1 DEF ReqOK
      <3>3. req[q].op \in Ops /\ req[q].pc \in {"load", "edit", "valid", "mark", "save", "retire", "publish"}
        BY <1>i, <3>1 DEF TypeOK, Request
      <3>4. CASE q # r
        <4>1. ReqOK(q)'
          BY <1>b, <1>c, <1>d, <3>1, <3>2, <3>4 DEF ReqOK
        <4>2. Fresh(q)'
          <5>1. ASSUME req[q].op = "create", req[q].pc \in {"valid", "mark"}
                PROVE  req[q].user \notin DOMAIN batch
            BY <1>i, <3>1, <5>1 DEF Fresh, BatchOK
          <5>2. \A p \in Requests : req'[p] # None => req[p] # None /\ req'[p].user = req[p].user
            BY <1>d, <1>i DEF TypeOK, Request
          <5>3. QED
            BY <1>b, <1>c, <3>1, <3>2, <3>4, <5>1, <5>2 DEF Fresh
        <4>3. Marked(q)'
          BY <1>b, <1>c, <1>d, <3>1, <3>2, <3>4 DEF Marked
        <4>4. QED
          BY <4>1, <4>2, <4>3
      <3>5. CASE q = r
        <4>1. req[r].user \in Users
          BY <3>1, <3>2, <3>5
        <4>2. table'[req[r].user] # None /\ tracked'[req[r].user] # None
          <5>1. req[r].op \in {"update", "delete"}
                  => table[req[r].user] # None /\ tracked[req[r].user] # None
            BY <1>i, <3>1, <3>5 DEF ReqOK
          <5>2. req[r].op = "create"
                  => /\ tracked[req[r].user] # None
                     /\ table[req[r].user] # None \/ req[r].user \in DOMAIN batch
            BY <1>i, <3>1, <3>5 DEF Marked
          <5>3. req[r].op \in {"create", "update", "delete"}
            BY <3>1, <3>3, <3>5 DEF Ops
          <5>4. QED
            BY <1>b, <1>c, <4>1, <5>1, <5>2, <5>3
        <4>3. ReqOK(q)'
          BY <1>d, <3>1, <3>2, <3>5, <4>1, <4>2 DEF ReqOK
        <4>4. Fresh(q)' /\ Marked(q)'
          BY <3>1, <3>5 DEF Fresh, Marked
        <4>5. QED
          BY <4>3, <4>4
      <3>6. QED
        BY <3>4, <3>5
    <2>2. QED
      BY <2>1 DEF ReqsOK
  <1>6. QED
    BY <1>1, <1>b, <1>3, <1>4, <1>5 DEF IInv, ReqsOK

\* A save fails: nothing was written, or everything without the caller knowing.
LEMMA SaveFailsStep == ASSUME IInv, NEW r \in Requests, SaveFails(r) PROVE IInv'
  <1> USE NoneAssumption
  <1>i. /\ TypeOK /\ BatchOK /\ TrackerKnowsDeletions /\ ReqsOK
    BY DEF IInv, ReqsOK
  <1>b. /\ table' \in [Users -> Row \cup {None}]
        /\ \A u \in Users :
             /\ u \notin DOMAIN batch => table'[u] = table[u]
             /\ table[u] # None => table'[u] # None
             /\ tracked[u] # None /\ table'[u] # None /\ table'[u].deleted
                  => tracked[u].now.deleted
    <2>1. CASE UNCHANGED table
      BY <1>i, <2>1 DEF TypeOK, TrackerKnowsDeletions
    <2>2. CASE \E late \in SUBSET DOMAIN batch : Commit(late)
      BY <2>2, CommitKeepsDeletions
    <2>3. QED
      BY <2>1, <2>2 DEF SaveFails
  <1>d. /\ busy' = None /\ probe' = None /\ batch' = Nothing /\ tracked' = tracked
        /\ req' = [req EXCEPT ![r] = None]
    BY DEF SaveFails, Leave, Answer
  <1>1. TypeOK'
    BY <1>b, <1>d, <1>i, NothingTyped DEF TypeOK
  <1>3. TrackerKnowsDeletions'
    BY <1>b, <1>d DEF TrackerKnowsDeletions
  <1>4. BatchOK'
    BY <1>d DEF BatchOK, Nothing
  <1>5. ReqsOK'
    <2>0. \A p \in Requests : req'[p] # None => req'[p] = req[p] /\ req[p] # None
      BY <1>d, <1>i DEF TypeOK
    <2>1. ASSUME NEW q \in Requests, req'[q] # None
          PROVE  (ReqOK(q) /\ Fresh(q) /\ Marked(q))'
      <3>1. req'[q] = req[q] /\ ReqOK(q) /\ Fresh(q) /\ Marked(q)
        BY <1>i, <2>0, <2>1 DEF ReqsOK
      <3>2. req[q].op # "other" => req[q].user \in Users
        BY <3>1 DEF ReqOK
      <3>3. req[q].op = "create" /\ req[q].pc \in {"valid", "mark"}
              => req[q].user \notin DOMAIN batch
        BY <1>i, <3>1 DEF Fresh, BatchOK
      <3>4. QED
        BY <1>b, <1>d, <2>0, <3>1, <3>2, <3>3 DEF ReqOK, Fresh, Marked
    <2>2. QED
      BY <2>1 DEF ReqsOK
  <1>6. QED
    BY <1>1, <1>b, <1>3, <1>4, <1>5 DEF IInv, ReqsOK

\* A publish only forgets the request.
LEMMA PublishStep == ASSUME IInv, NEW r \in Requests, Publish(r) PROVE IInv'
  <1> USE NoneAssumption DEF IInv, Publish, Answer, At
  <1>1. TypeOK'
    BY DEF TypeOK, Request, Ops
  <1>3. TrackerKnowsDeletions'
    BY DEF TrackerKnowsDeletions
  <1>4. BatchOK'
    BY DEF BatchOK
  <1>5. ReqsOK'
    BY DEF ReqsOK, ReqOK, EfCalls, Fresh, Marked, TypeOK, Request, Ops
  <1>6. QED
    BY <1>1, <1>3, <1>4, <1>5 DEF ReqsOK

\* A seeded tracker holds one instance at most, of an account that is not stored.
LEMMA SeededTyped ==
    ASSUME NEW t \in [Users -> Row \cup {None}]
    PROVE  /\ Seeded(t) \in [Users -> Instance \cup {None}]
           /\ \A u \in Users : t[u] # None => Seeded(t)[u] = None
  <1>1. [email |-> DefaultEmail, deleted |-> FALSE] \in Row
    BY DefaultAssumption DEF Row
  <1>2. [state |-> "Added", was |-> None, retired |-> FALSE,
         now |-> [email |-> DefaultEmail, deleted |-> FALSE]] \in Instance
    BY <1>1, AddedTyped
  <1>3. QED
    BY <1>2 DEF Seeded

\* A restart seeds the tracker anew and forgets every request.
LEMMA RestartStep == ASSUME IInv, Restart PROVE IInv'
  <1>b. table' \in [Users -> Row \cup {None}]
    <2>1. CASE UNCHANGED table
      BY <2>1 DEF IInv, TypeOK
    <2>2. CASE \E late \in SUBSET DOMAIN batch : Commit(late)
      BY <2>2, CommitKeepsDeletions
    <2>3. QED
      BY <2>1, <2>2 DEF Restart
  <1>c. /\ tracked' \in [Users -> Instance \cup {None}]
        /\ \A u \in Users : table'[u] # None => tracked'[u] = None
    BY <1>b, SeededTyped DEF Restart
  <1>d. /\ req' = [r \in Requests |-> None]
        /\ busy' = None /\ probe' = None /\ batch' = Nothing
    BY DEF Restart, Leave
  <1>1. TypeOK'
    BY <1>b, <1>c, <1>d, NothingTyped DEF TypeOK
  <1>2. TrackerKnowsDeletions' /\ BatchOK' /\ ReqsOK'
    BY <1>c, <1>d DEF TrackerKnowsDeletions, BatchOK, ReqsOK, Nothing
  <1>3. QED
    BY <1>b, <1>1, <1>2 DEF IInv, ReqsOK

-----------------------------------------------------------------------------
(* The theorems                                                            *)

\* IInv holds initially.
LEMMA InitIInv == Init => IInv
  <1> SUFFICES ASSUME Init PROVE IInv
    OBVIOUS
  <1>1. table \in [Users -> Row \cup {None}] /\ \A u \in Users : table[u] = None
    BY DEF Init
  <1>2. tracked \in [Users -> Instance \cup {None}]
    BY <1>1, SeededTyped DEF Init
  <1>3. QED
    BY <1>1, <1>2, NothingTyped
    DEF Init, IInv, TypeOK, TrackerKnowsDeletions, BatchOK, Nothing

\* Every step keeps IInv.
LEMMA NextIInv == IInv /\ [Next]_vars => IInv'
  <1> SUFFICES ASSUME IInv, [Next]_vars PROVE IInv'
    OBVIOUS
  <1>1. ASSUME NEW r \in Requests, Step(r) PROVE IInv'
    BY <1>1, CreateStep, UpdateStep, DeleteStep, OtherStep, EnterStep, CollideStep,
       SaveNothingStep, LoadStep, ValidExistsStep, EditStep, MarkStep, RetireStep,
       SaveChangesStep, SaveFailsStep, PublishStep DEF Step
  <1>2. CASE Restart
    BY <1>2, RestartStep
  <1>3. CASE UNCHANGED vars
    BY <1>3 DEF vars, IInv, TypeOK, TrackerKnowsDeletions, BatchOK,
       ReqOK, Fresh, Marked
  <1>4. QED
    BY <1>1, <1>2, <1>3 DEF Next

\* The strengthening that carries every theorem below: in particular, what a
\* running save captured is always known to the tracker.
THEOREM Invariance == Spec => []IInv
  BY InitIInv, NextIInv, PTL DEF Spec

\* Every variable keeps its type.
THEOREM TypeCorrect == Spec => []TypeOK
  <1>1. IInv => TypeOK
    BY DEF IInv
  <1>2. QED
    BY <1>1, Invariance, PTL

\* The shared tracker never holds a staler deletion flag than the row.
THEOREM TrackerKnows == Spec => []TrackerKnowsDeletions
  <1>1. IInv => TrackerKnowsDeletions
    BY DEF IInv
  <1>2. QED
    BY <1>1, Invariance, PTL

\* User_Created_Event is published only for stored users.
THEOREM EventsStored == Spec => []EventsAreAboutStoredUsers
  <1>1. IInv => EventsAreAboutStoredUsers
    BY DEF IInv, EventsAreAboutStoredUsers, ReqOK, At
  <1>2. QED
    BY <1>1, Invariance, PTL

\* No step of any request, save, failure or restart revives a deleted user.
THEOREM DeletionFinal == Spec => DeletionIsFinal
  <1>1. IInv /\ [Next]_vars
        => [\A u \in Users : table[u] # None /\ table[u].deleted
                              => table'[u] # None /\ table'[u].deleted]_vars
    <2> SUFFICES ASSUME IInv, Next, NEW u \in Users, table[u] # None, table[u].deleted
                 PROVE  table'[u] # None /\ table'[u].deleted
      OBVIOUS
    <2>1. CASE UNCHANGED table
      BY <2>1
    <2>2. CASE \E late \in SUBSET DOMAIN batch : Commit(late)
      BY <2>2, CommitKeepsDeletions
    <2>3. Next => UNCHANGED table \/ \E late \in SUBSET DOMAIN batch : Commit(late)
      BY DEF Next, Step, Create, Update, Delete, Other, Begin, Enter, Collide, SaveNothing,
         Load, ValidExists, Edit, Mark, Retire, SaveChanges, SaveFails, Publish, Restart
    <2>4. QED
      BY <2>1, <2>2, <2>3
  <1>2. QED
    BY <1>1, Invariance, PTL DEF Spec, DeletionIsFinal

-----------------------------------------------------------------------------
(* A poisoned tracker stays poisoned                                       *)

\* The EF operation that runs belongs to a request that is being served.
BusyServed == busy # None => busy \in Requests /\ req[busy] # None

\* An operation is left in the step that answers its request or moves it on.
LEMMA BusyIsServed == Spec => []BusyServed
  <1>1. Init => BusyServed
    BY DEF Init, BusyServed
  <1>2. IInv /\ BusyServed /\ [Next]_vars => BusyServed'
    <2> SUFFICES ASSUME IInv, BusyServed, [Next]_vars PROVE BusyServed'
      OBVIOUS
    <2> USE NoneAssumption
    <2>t. req \in [Requests -> Request \cup {None}]
      BY DEF IInv, TypeOK
    <2>1. CASE Restart
      BY <2>1 DEF Restart, Leave, BusyServed
    <2>2. CASE UNCHANGED vars
      BY <2>2 DEF vars, BusyServed
    <2>3. ASSUME NEW r \in Requests, Step(r) PROVE BusyServed'
      <3>1. CASE Create(r) \/ Update(r) \/ Delete(r) \/ Other(r)
        BY <2>t, <3>1 DEF Create, Update, Delete, Other, Begin, BusyServed, Request, Ops
      <3>2. CASE Enter(r)
        BY <2>t, <3>2 DEF Enter, BusyServed, At
      <3>3. CASE Collide(r)
        BY <2>t, <3>3 DEF Collide, Answer, BusyServed
      <3>4. CASE SaveNothing(r)
        BY <2>t, <3>4 DEF SaveNothing, Goto, BusyServed
      <3>5. CASE Load(r) \/ ValidExists(r) \/ SaveChanges(r) \/ SaveFails(r)
        BY <3>5 DEF Load, ValidExists, SaveChanges, SaveFails, Leave, BusyServed
      <3>6. CASE Edit(r) \/ Mark(r) \/ Retire(r)
        <4>1. busy' = busy
              /\ \A q \in Requests \ {r} : req'[q] = req[q]
          BY <2>t, <3>6 DEF Edit, Mark, Retire, Goto
        <4>2. busy # r
          BY <3>6 DEF IInv, ReqOK, EfCalls, Edit, Mark, Retire, At
        <4>3. QED
          BY <4>1, <4>2 DEF BusyServed
      <3>7. CASE Publish(r)
        <4>1. busy # r
          BY <3>7 DEF IInv, ReqOK, EfCalls, Publish, At
        <4>2. QED
          BY <2>t, <3>7, <4>1 DEF Publish, Answer, BusyServed
      <3>8. QED
        BY <2>3, <3>1, <3>2, <3>3, <3>4, <3>5, <3>6, <3>7 DEF Step
    <2>4. QED
      BY <2>1, <2>2, <2>3 DEF Next
  <1>3. QED
    BY <1>1, <1>2, Invariance, PTL DEF Spec

\* Whatever a save that captured a doomed row writes, the index refuses it: both
\* rows keep the same e-mail, the captured values or the ones there are now.
LEMMA DoomedCommitRefused ==
    ASSUME IInv, NEW u \in Users, NEW v \in Users, DoomedBy(u, v), u \in DOMAIN batch,
           NEW late \in SUBSET DOMAIN batch
    PROVE  ~Commit(late)
  <1>1. /\ u # v /\ tracked[u] # None /\ tracked[u].state = "Added"
        /\ table[v] # None
        /\ tracked[u].now.email = table[v].email
        /\ tracked[v] # None => tracked[v].now.email = table[v].email
        /\ \A w \in {u, v} \cap DOMAIN batch : batch[w].email = table[v].email
    BY DEF DoomedBy
  <1>2. \A w \in DOMAIN batch : tracked[w] # None /\ batch[w] \in Row
    BY DEF IInv, BatchOK
  <1>3. WriteOf(u) = tracked[u].now /\ tracked[u].now \in Row
    BY <1>1, InstanceTyped DEF IInv, WriteOf
  <1>4. tracked[v] # None => WriteOf(v) \in Row /\ WriteOf(v).email = table[v].email
    <2> SUFFICES ASSUME tracked[v] # None
                 PROVE  WriteOf(v) \in Row /\ WriteOf(v).email = table[v].email
      OBVIOUS
    <2>1. WriteOf(v) \in Row
      BY WriteOfKeepsDeletions DEF IInv
    <2>2. QED
      BY <1>1, <2>1 DEF WriteOf
  <1>5. Written(late)[u] \in Row /\ Written(late)[u].email = table[v].email
    BY <1>1, <1>2, <1>3 DEF Written
  <1>6. Written(late)[v] # None /\ Written(late)[v].email = table[v].email
    <2>1. CASE v \notin DOMAIN batch
      BY <1>1, <2>1 DEF Written
    <2>2. CASE v \in DOMAIN batch /\ v \in late
      BY <1>2, <1>4, <2>2, NoneAssumption DEF Written
    <2>3. CASE v \in DOMAIN batch /\ v \notin late
      BY <1>1, <1>2, <2>3, NoneAssumption DEF Written
    <2>4. QED
      BY <2>1, <2>2, <2>3
  <1>7. QED
    BY <1>1, <1>5, <1>6, NoneAssumption DEF Commit, EmailIndexAccepts

\* A step that leaves the rows, both instances' e-mails and the captured values
\* alone, and puts nobody between load and save of v, keeps v's claim on u.
LEMMA DoomedFrame ==
    ASSUME NEW u \in Users, NEW v \in Users, DoomedBy(u, v),
           UNCHANGED table, tracked'[u] = tracked[u],
           tracked'[v] # None => tracked[v] # None /\ tracked'[v].now.email = tracked[v].now.email,
           \A q \in Requests : req'[q] # None /\ req'[q].user = v
                               => req'[q].pc \notin {"edit", "valid", "mark"},
           \A w \in {u, v} \cap DOMAIN batch' : batch'[w].email = table[v].email,
           busy' # None /\ At(busy, "save")' => u \in DOMAIN batch'
    PROVE  DoomedBy(u, v)'
  BY DEF DoomedBy

\* A request that arrives does not touch the tracker, and edits nobody yet.
LEMMA DoomedArrival ==
    ASSUME IInv, BusyServed, NEW u \in Users, NEW v \in Users, DoomedBy(u, v),
           NEW r \in Requests, Create(r) \/ Update(r) \/ Delete(r) \/ Other(r)
    PROVE  DoomedBy(u, v)' /\ UNCHANGED table
  <1> USE NoneAssumption
  <1>1. /\ req[r] = None
        /\ UNCHANGED <<table, tracked, busy, probe, batch>>
        /\ \A q \in Requests \ {r} : req'[q] = req[q]
    BY DEF IInv, TypeOK, Create, Update, Delete, Other, Begin
  <1>2. req'[r].user = v => req'[r].pc \notin {"edit", "valid", "mark"}
    BY DEF IInv, TypeOK, Create, Update, Delete, Other, Begin, DoomedBy
  <1>3. busy # r
    BY <1>1 DEF BusyServed
  <1>4. busy' # None /\ At(busy, "save")' => u \in DOMAIN batch'
    BY <1>1, <1>3 DEF DoomedBy, At, BusyServed
  <1>5. QED
    BY <1>1, <1>2, <1>4, DoomedFrame DEF DoomedBy

\* A save that starts captures the doomed row too.
LEMMA DoomedEnter ==
    ASSUME IInv, NEW u \in Users, NEW v \in Users, DoomedBy(u, v),
           NEW r \in Requests, Enter(r)
    PROVE  DoomedBy(u, v)' /\ UNCHANGED table
  <1>1. /\ UNCHANGED <<table, tracked, req>> /\ busy' = r
        /\ batch' = IF At(r, "save") THEN [w \in Pending |-> WriteOf(w)] ELSE Nothing
    BY DEF Enter
  <1>2. u \in Pending
    BY DEF Pending, DoomedBy
  <1>3. \A w \in {u, v} \cap Pending : WriteOf(w).email = table[v].email
    BY DEF DoomedBy, WriteOf, Pending
  <1>4. CASE At(r, "save")
    <2>1. batch' = [w \in Pending |-> WriteOf(w)]
      BY <1>1, <1>4
    <2>2. /\ u \in DOMAIN batch'
          /\ \A w \in {u, v} \cap DOMAIN batch' : batch'[w].email = table[v].email
      BY <1>2, <1>3, <2>1
    <2>3. QED
      BY <1>1, <2>2, DoomedFrame DEF DoomedBy
  <1>5. CASE ~At(r, "save")
    <2>1. batch' = Nothing /\ ~At(busy, "save")'
      BY <1>1, <1>5 DEF At
    <2>2. QED
      BY <1>1, <2>1, DoomedFrame DEF DoomedBy, Nothing
  <1>6. QED
    BY <1>4, <1>5

\* A request that is answered outside its operation, or moves on without touching
\* the tracker; a save with nothing pending cannot happen.
LEMMA DoomedPassive ==
    ASSUME IInv, NEW u \in Users, NEW v \in Users, DoomedBy(u, v),
           NEW r \in Requests, Collide(r) \/ SaveNothing(r) \/ Publish(r)
    PROVE  DoomedBy(u, v)' /\ UNCHANGED table
  <1>1. ~SaveNothing(r)
    BY DEF SaveNothing, Pending, DoomedBy
  <1>2. /\ UNCHANGED <<table, tracked, busy, probe, batch>>
        /\ req' = [req EXCEPT ![r] = None]
    BY <1>1 DEF Collide, Publish, Answer
  <1>3. \A q \in Requests : req'[q] # None => req'[q] = req[q]
    BY <1>2 DEF IInv, TypeOK
  <1>4. busy' # None /\ At(busy, "save")' => At(busy, "save")
    BY <1>2 DEF IInv, TypeOK, At
  <1>5. QED
    BY <1>2, <1>3, <1>4, DoomedFrame DEF DoomedBy

\* A query reads: a load finds neither the row that is not there nor the deleted
\* one, and brings another user to the tracker; nobody validates v.
LEMMA DoomedQuery ==
    ASSUME IInv, NEW u \in Users, NEW v \in Users, DoomedBy(u, v),
           NEW r \in Requests, Load(r) \/ ValidExists(r)
    PROVE  DoomedBy(u, v)' /\ UNCHANGED table
  <1> USE NoneAssumption
  <1>1. UNCHANGED table /\ busy' = None /\ batch' = Nothing
    BY DEF Load, ValidExists, Leave
  <1>2. tracked'[u] = tracked[u] /\ tracked'[v] = tracked[v]
    BY DEF IInv, TypeOK, Load, ValidExists, DoomedBy
  <1>3. \A q \in Requests \ {r} : req'[q] = req[q]
    BY DEF IInv, TypeOK, Load, ValidExists, Answer, Goto
  <1>4. req'[r] # None /\ req'[r].user = v => req'[r].pc \notin {"edit", "valid", "mark"}
    BY DEF IInv, TypeOK, Request, Load, ValidExists, Answer, Goto, DoomedBy, At
  <1>5. QED
    BY <1>1, <1>2, <1>3, <1>4, DoomedFrame DEF DoomedBy, Nothing

\* Statements on an instance: u has no row, so it is neither edited nor retired,
\* and no request is creating it any more; nobody edits v, and a retirement of v
\* leaves its e-mail.
LEMMA DoomedEdit ==
    ASSUME IInv, NEW u \in Users, NEW v \in Users, DoomedBy(u, v),
           NEW r \in Requests, Edit(r) \/ Mark(r) \/ Retire(r)
    PROVE  DoomedBy(u, v)' /\ UNCHANGED table
  <1> DEFINE w == req[r].user
  <1> USE NoneAssumption
  <1>1. /\ UNCHANGED <<table, busy, probe, batch>> /\ busy # r
        /\ req[r] # None /\ ReqOK(r) /\ Fresh(r)
    BY DEF IInv, ReqOK, EfCalls, Edit, Mark, Retire, At
  <1>2. w \in Users /\ w # u
    <2>1. req[r].op \in {"create", "update", "delete"} /\ w \in Users
      BY <1>1 DEF ReqOK, Edit, Mark, Retire, At, IInv, TypeOK, Request, Ops
    <2>2. CASE req[r].op = "create"
      BY <1>1, <2>1, <2>2 DEF ReqOK, Fresh, DoomedBy, Edit, Mark, Retire, At
    <2>3. CASE req[r].op \in {"update", "delete"}
      BY <1>1, <2>1, <2>3 DEF ReqOK, DoomedBy
    <2>4. QED
      BY <2>1, <2>2, <2>3
  <1>3. \A x \in Users \ {w} : tracked'[x] = tracked[x]
    BY <1>2 DEF IInv, TypeOK, Edit, Mark, Retire
  <1>4. w = v => Retire(r)
    BY <1>1 DEF DoomedBy, Edit, Mark, At
  <1>5. tracked'[v] # None => tracked[v] # None /\ tracked'[v].now.email = tracked[v].now.email
    <2>1. CASE w # v
      BY <1>3, <2>1
    <2>2. CASE w = v
      <3>1. Retire(r) /\ req[r].user = v /\ TypeOK
        BY <1>4, <2>2 DEF IInv
      <3>2. tracked[v] # None
        BY <1>1, <3>1 DEF ReqOK, Retire, At
      <3>3. QED
        BY <3>1, <3>2, RetiredTyped
    <2>3. QED
      BY <2>1, <2>2
  <1>6. \A q \in Requests \ {r} : req'[q] = req[q]
    BY DEF IInv, TypeOK, Edit, Mark, Retire, Goto
  <1>7. req'[r].user = v => req'[r].pc \notin {"edit", "valid", "mark"}
    <2>1. req'[r].user = w
      BY <1>1 DEF IInv, TypeOK, Request, Edit, Mark, Retire, Goto
    <2>2. Retire(r) => req'[r].pc = "publish"
      BY <1>1 DEF IInv, TypeOK, Request, Retire, Goto
    <2>3. QED
      BY <1>4, <2>1, <2>2
  <1>8. busy' # None /\ At(busy, "save")' => At(busy, "save")
    BY <1>1, <1>6 DEF At, IInv, TypeOK
  <1>9. QED
    BY <1>1, <1>2, <1>3, <1>5, <1>6, <1>7, <1>8, DoomedFrame DEF DoomedBy

\* A save cannot succeed, and a save that fails has written nothing.
LEMMA DoomedSave ==
    ASSUME IInv, NEW u \in Users, NEW v \in Users, DoomedBy(u, v),
           NEW r \in Requests, SaveChanges(r) \/ SaveFails(r)
    PROVE  DoomedBy(u, v)' /\ UNCHANGED table
  <1> USE NoneAssumption
  <1>1. u \in DOMAIN batch
    BY DEF SaveChanges, SaveFails, DoomedBy
  <1>2. ~\E late \in SUBSET DOMAIN batch : Commit(late)
    BY <1>1, DoomedCommitRefused
  <1>3. /\ UNCHANGED <<table, tracked>> /\ busy' = None /\ batch' = Nothing
        /\ req' = [req EXCEPT ![r] = None]
    BY <1>2 DEF SaveChanges, SaveFails, Leave, Answer
  <1>4. \A q \in Requests : req'[q] # None => req'[q] = req[q]
    BY <1>3 DEF IInv, TypeOK
  <1>5. QED
    BY <1>3, <1>4, DoomedFrame DEF DoomedBy, Nothing

\* Once a deleted account was re-created, no step of any request changes a row or
\* takes the doomed instance out of the singleton context: only a restart does
\* (UserHandler.CreateAsync, AccountsContext registered as a singleton).
THEOREM PoisonLasts == Spec => PoisonLastsUntilRestart
  <1>1. IInv /\ BusyServed /\ [Next]_vars
        => [Poisoned => (UNCHANGED table /\ Poisoned') \/ Restart]_vars
    <2> SUFFICES ASSUME IInv, BusyServed, Next, Poisoned, ~Restart
                 PROVE  Poisoned' /\ UNCHANGED table
      OBVIOUS
    <2>1. PICK u \in Users, v \in Users : DoomedBy(u, v)
      BY DEF Poisoned
    <2>2. PICK r \in Requests : Step(r)
      BY DEF Next
    <2>3. DoomedBy(u, v)' /\ UNCHANGED table
      BY <2>1, <2>2, DoomedArrival, DoomedEnter, DoomedPassive, DoomedQuery, DoomedEdit,
         DoomedSave DEF Step
    <2>4. QED
      BY <2>3 DEF Poisoned
  <1>2. QED
    BY <1>1, Invariance, BusyIsServed, PTL DEF Spec, PoisonLastsUntilRestart

-----------------------------------------------------------------------------
(* A clash in the tracker blocks every save                                *)

\* An instance without changes is of a stored account.
UnchangedStored == \A u \in Users : tracked[u] # None /\ tracked[u].state = "Unchanged"
                                    => table[u] # None

\* An instance comes from a row, or becomes unchanged by being saved.
LEMMA UnchangedIsStored == Spec => []UnchangedStored
  <1>1. Init => UnchangedStored
    BY DEF Init, Seeded, UnchangedStored
  <1>2. IInv /\ UnchangedStored /\ [Next]_vars => UnchangedStored'
    <2> SUFFICES ASSUME IInv, UnchangedStored, [Next]_vars,
                        NEW u \in Users, tracked'[u] # None, tracked'[u].state = "Unchanged"
                 PROVE  table'[u] # None
      BY DEF UnchangedStored
    <2>t. /\ tracked \in [Users -> Instance \cup {None}]
          /\ \A w \in Users : tracked[w] # None => tracked[w] \in Instance
      BY DEF IInv, TypeOK
    <2>1. CASE Restart
      BY <2>1 DEF Restart, Seeded
    <2>2. CASE UNCHANGED <<table, tracked>>
      BY <2>2 DEF UnchangedStored
    <2>3. ASSUME NEW r \in Requests, Step(r), ~UNCHANGED <<table, tracked>>
          PROVE  table'[u] # None
      <3>1. CASE Load(r)
        BY <2>t, <3>1, NoneAssumption DEF Load, UnchangedStored
      <3>2. CASE Edit(r) \/ Mark(r) \/ Retire(r)
        <4>1. req[r] # None /\ ReqOK(r) /\ UNCHANGED table
          BY <3>2 DEF IInv, Edit, Mark, Retire, At
        <4>2. CASE u = req[r].user
          <5>1. CASE Edit(r) \/ Retire(r)
            BY <3>2, <4>1, <4>2, <5>1 DEF ReqOK, Edit, Retire, At
          <5>2. CASE Mark(r)
            <6>1. CASE req[r].op = "create"
              BY <2>t, <4>2, <5>2, <6>1 DEF Mark
            <6>2. CASE req[r].op # "create"
              BY <2>t, <4>2, <5>2, <6>2 DEF Mark, Updated
            <6>3. QED
              BY <6>1, <6>2
          <5>3. QED
            BY <3>2, <5>1, <5>2
        <4>3. CASE u # req[r].user
          <5>1. tracked'[u] = tracked[u]
            <6>1. CASE Edit(r) \/ Mark(r)
              <7>1. \E w, i : w # u /\ tracked' = [tracked EXCEPT ![w] = i]
                BY <4>3, <6>1, Zenon DEF Edit, Mark
              <7>2. QED
                BY <2>t, <7>1
            <6>2. CASE Retire(r)
              BY <2>t, <4>3, <6>2 DEF Retire
            <6>3. QED
              BY <3>2, <6>1, <6>2
          <5>2. QED
            BY <4>1, <5>1 DEF UnchangedStored
        <4>4. QED
          BY <4>2, <4>3
      <3>3. CASE SaveChanges(r)
        <4>1. PICK late \in SUBSET DOMAIN batch : Commit(late)
          BY <3>3 DEF SaveChanges
        <4>2. u \notin DOMAIN batch => tracked'[u] = tracked[u]
          BY <3>3 DEF SaveChanges, Accept
        <4>3. QED
          BY <4>1, <4>2, CommitKeepsDeletions DEF UnchangedStored
      <3>4. CASE SaveFails(r)
        <4>1. UNCHANGED tracked /\ \E late \in SUBSET DOMAIN batch : Commit(late)
          BY <2>3, <3>4 DEF SaveFails
        <4>2. QED
          BY <4>1, CommitKeepsDeletions DEF UnchangedStored
      <3>5. QED
        BY <2>3, <3>1, <3>2, <3>3, <3>4
        DEF Step, Create, Update, Delete, Other, Begin, Enter, Collide, SaveNothing,
            ValidExists, Publish
    <2>4. QED
      BY <2>1, <2>2, <2>3 DEF Next, vars
  <1>3. QED
    BY <1>1, <1>2, Invariance, PTL DEF Spec

\* The clash of u and v over e, which a running save has seen.
ClashOver(u, v, e) ==
    /\ Claims(u, e) /\ Claims(v, e)
    /\ \A w \in {u, v} \cap DOMAIN batch : batch[w].email = e
    /\ busy # None /\ At(busy, "save") =>
         \A w \in {u, v} \ DOMAIN batch : table[w] # None /\ table[w].email = e

\* Whatever mixture of captured and present values a save writes, both rows get the
\* e-mail, and the index refuses them.
LEMMA ClashRefused ==
    ASSUME IInv, NEW u \in Users, NEW v \in Users, u # v, NEW e \in Emails, ClashOver(u, v, e),
           busy # None, At(busy, "save"), NEW late \in SUBSET DOMAIN batch
    PROVE  ~Commit(late)
  <1>1. ASSUME NEW w \in {u, v} PROVE Written(late)[w] # None /\ Written(late)[w].email = e
    <2>1. CASE w \notin DOMAIN batch
      BY <1>1, <2>1 DEF Written, ClashOver
    <2>2. CASE w \in DOMAIN batch /\ w \notin late
      BY <1>1, <2>2, NoneAssumption DEF Written, ClashOver, IInv, BatchOK
    <2>3. CASE w \in DOMAIN batch /\ w \in late
      <3>1. tracked[w] # None
        BY <2>3 DEF IInv, BatchOK
      <3>2. WriteOf(w) \in Row
        BY <1>1, <3>1, WriteOfKeepsDeletions DEF IInv
      <3>3. WriteOf(w).email = e
        BY <1>1, <3>1 DEF ClashOver, Claims
      <3>4. QED
        BY <1>1, <2>3, <3>2, <3>3, NoneAssumption DEF Written
    <2>4. QED
      BY <2>1, <2>2, <2>3
  <1>2. QED
    BY <1>1 DEF Commit, EmailIndexAccepts

\* A claim outlives a step that leaves the row alone and gives the instance no other
\* e-mail, be it loaded, marked for an UPDATE or retired.
LEMMA ClaimKept ==
    ASSUME NEW w \in Users, NEW e \in Emails, Claims(w, e), UNCHANGED table,
           \/ tracked'[w] = tracked[w]
           \/ tracked[w] = None /\ tracked'[w] = Resolve(w)
           \/ /\ tracked[w] # None /\ tracked'[w] # None
              /\ tracked'[w].now.email = tracked[w].now.email
              /\ tracked'[w].state # "Unchanged"
           \/ /\ tracked[w] # None /\ tracked'[w] # None
              /\ tracked'[w].now.email = tracked[w].now.email
              /\ tracked'[w].state = tracked[w].state /\ tracked'[w].was = tracked[w].was
    PROVE  Claims(w, e)'
  <1>1. CASE tracked'[w] = tracked[w]
    BY <1>1 DEF Claims, WriteOf
  <1>2. CASE tracked[w] = None /\ tracked'[w] = Resolve(w)
    BY <1>2 DEF Claims, WriteOf, Resolve
  <1>3. CASE /\ tracked[w] # None /\ tracked'[w] # None
             /\ tracked'[w].now.email = tracked[w].now.email
             /\ tracked'[w].state # "Unchanged"
    BY <1>3 DEF Claims, WriteOf
  <1>4. CASE /\ tracked[w] # None /\ tracked'[w] # None
             /\ tracked'[w].now.email = tracked[w].now.email
             /\ tracked'[w].state = tracked[w].state /\ tracked'[w].was = tracked[w].was
    BY <1>4 DEF Claims, WriteOf
  <1>5. QED
    BY <1>1, <1>2, <1>3, <1>4

\* A request that arrives, is answered outside its operation, or goes on from a save
\* with nothing to do: neither tracker nor batch change.
LEMMA ClashPassive ==
    ASSUME IInv, BusyServed, NEW u \in Users, NEW v \in Users, NEW e \in Emails,
           ClashOver(u, v, e), NEW r \in Requests,
           \/ Create(r) \/ Update(r) \/ Delete(r) \/ Other(r)
           \/ Collide(r) \/ SaveNothing(r) \/ Publish(r)
    PROVE  ClashOver(u, v, e)' /\ UNCHANGED table
  <1> USE NoneAssumption
  <1>1. UNCHANGED <<table, tracked, busy, batch>>
    BY DEF Create, Update, Delete, Other, Begin, Collide, SaveNothing, Publish
  <1>2. busy' # None /\ At(busy, "save")' => At(busy, "save")
    <2>1. CASE Create(r) \/ Update(r) \/ Delete(r) \/ Other(r)
      BY <1>1, <2>1 DEF IInv, TypeOK, Create, Update, Delete, Other, Begin, BusyServed, At
    <2>2. CASE Collide(r) \/ Publish(r)
      BY <1>1, <2>2 DEF IInv, TypeOK, Collide, Publish, Answer, BusyServed, At
    <2>3. CASE SaveNothing(r)
      BY <1>1, <2>3 DEF IInv, TypeOK, SaveNothing, Goto, BusyServed, At
    <2>4. QED
      BY <2>1, <2>2, <2>3
  <1>3. \A w \in {u, v} : Claims(w, e)'
    BY <1>1, ClaimKept DEF ClashOver
  <1>4. QED
    BY <1>1, <1>2, <1>3 DEF ClashOver

\* A save that starts captures the clash, but for the side of it that is stored.
LEMMA ClashEnter ==
    ASSUME IInv, UnchangedStored, NEW u \in Users, NEW v \in Users, NEW e \in Emails,
           ClashOver(u, v, e), NEW r \in Requests, Enter(r)
    PROVE  ClashOver(u, v, e)' /\ UNCHANGED table
  <1>1. /\ UNCHANGED <<table, tracked, req>> /\ busy' = r
        /\ batch' = IF At(r, "save") THEN [w \in Pending |-> WriteOf(w)] ELSE Nothing
    BY DEF Enter
  <1>2. \A w \in {u, v} : Claims(w, e) /\ Claims(w, e)'
    BY <1>1, ClaimKept DEF ClashOver
  <1>3. CASE At(r, "save")
    <2>1. batch' = [w \in Pending |-> WriteOf(w)]
      BY <1>1, <1>3
    <2>2. \A w \in {u, v} \cap Pending : batch'[w].email = e
      BY <1>2, <2>1 DEF Claims, Pending
    <2>3. \A w \in {u, v} \ Pending : table[w] # None /\ table[w].email = e
      <3> SUFFICES ASSUME NEW w \in {u, v} \ Pending PROVE table[w] # None /\ table[w].email = e
        OBVIOUS
      <3>1. CASE tracked[w] = None
        BY <1>2, <3>1 DEF Claims
      <3>2. CASE tracked[w] # None
        <4>1. tracked[w].state = "Unchanged" /\ tracked[w].now = tracked[w].was
          BY <3>2 DEF Pending
        <4>2. table[w] # None
          BY <3>2, <4>1 DEF UnchangedStored
        <4>3. QED
          BY <1>2, <3>2, <4>1, <4>2 DEF Claims, WriteOf
      <3>3. QED
        BY <3>1, <3>2
    <2>4. QED
      BY <1>1, <1>2, <2>1, <2>2, <2>3 DEF ClashOver
  <1>4. CASE ~At(r, "save")
    <2>1. batch' = Nothing /\ ~At(busy, "save")'
      BY <1>1, <1>4 DEF At
    <2>2. QED
      BY <1>1, <1>2, <2>1 DEF ClashOver, Nothing
  <1>5. QED
    BY <1>3, <1>4

\* A query reads; what it brings to the tracker is the row.
LEMMA ClashQuery ==
    ASSUME IInv, NEW u \in Users, NEW v \in Users, NEW e \in Emails,
           ClashOver(u, v, e), NEW r \in Requests, Load(r) \/ ValidExists(r)
    PROVE  ClashOver(u, v, e)' /\ UNCHANGED table
  <1>1. UNCHANGED table /\ busy' = None /\ batch' = Nothing
    BY DEF Load, ValidExists, Leave
  <1>2. \A w \in Users : tracked'[w] = tracked[w] \/ (tracked[w] = None /\ tracked'[w] = Resolve(w))
    BY DEF IInv, TypeOK, Load, ValidExists, Resolve
  <1>3. \A w \in {u, v} : Claims(w, e)'
    BY <1>1, <1>2, ClaimKept DEF ClashOver
  <1>4. QED
    BY <1>1, <1>3 DEF ClashOver, Nothing

\* Statements on an instance: a deletion, a mark and a retirement leave its e-mail, a
\* creation marks an account nobody claims for, an update edits another account.
LEMMA ClashEdit ==
    ASSUME IInv, NEW u \in Users, NEW v \in Users, NEW e \in Emails,
           ClashOver(u, v, e), ~Reedits(u, v),
           NEW r \in Requests, Edit(r) \/ Mark(r) \/ Retire(r)
    PROVE  ClashOver(u, v, e)' /\ UNCHANGED table
  <1> USE NoneAssumption
  <1>1. /\ UNCHANGED <<table, busy, probe, batch>> /\ busy # r
        /\ req[r] # None /\ ReqOK(r) /\ Fresh(r)
    BY DEF IInv, ReqOK, EfCalls, Edit, Mark, Retire, At
  <1>w. PICK w \in Users : w = req[r].user
    BY <1>1 DEF ReqOK, Edit, Mark, Retire, At, IInv, TypeOK, Request, Ops
  <1>2. \A q \in Requests \ {r} : req'[q] = req[q]
    BY DEF IInv, TypeOK, Edit, Mark, Retire, Goto
  <1>3. busy' # None /\ At(busy, "save")' => At(busy, "save")
    BY <1>1, <1>2 DEF At, IInv, TypeOK
  <1>4. \A x \in Users \ {w} : tracked'[x] = tracked[x]
    <2>1. CASE Edit(r) \/ Mark(r)
      <3>1. \E i : tracked' = [tracked EXCEPT ![w] = i]
        BY <1>w, <2>1, Zenon DEF Edit, Mark
      <3>2. QED
        BY <3>1 DEF IInv, TypeOK
    <2>2. CASE Retire(r)
      BY <1>w, <2>2 DEF IInv, TypeOK, Retire
    <2>3. QED
      BY <2>1, <2>2
  <1>5. ASSUME w \in {u, v} PROVE Claims(w, e)'
    <2>1. Claims(w, e)
      BY <1>5 DEF ClashOver
    <2>2. ~(Mark(r) /\ req[r].op = "create")
      BY <1>1, <1>w, <2>1 DEF Mark, At, Fresh, Claims
    <2>3. /\ req[r].op \in {"update", "delete"} /\ tracked[w] # None
          /\ tracked[w] \in Instance /\ tracked[w].now \in Row
      <3>1. req[r].op \in {"update", "delete"} /\ tracked[w] # None
        BY <1>1, <1>w, <2>2 DEF ReqOK, Edit, Mark, Retire, At
      <3>2. QED
        BY <1>5, <3>1, InstanceTyped DEF IInv
    <2>4. CASE Edit(r)
      <3>1. req[r].op = "delete"
        BY <1>1, <1>5, <1>w, <2>3, <2>4 DEF Reedits
      <3>2. tracked'[w] = Updated([tracked[w].now EXCEPT !.deleted = TRUE])
        BY <1>5, <1>w, <2>4, <3>1 DEF Edit, IInv, TypeOK
      <3>3. /\ tracked'[w] # None /\ tracked'[w].state # "Unchanged"
            /\ tracked'[w].now.email = tracked[w].now.email
        <4>1. [tracked[w].now EXCEPT !.deleted = TRUE] \in Row
          BY <2>3 DEF Row
        <4>2. [tracked[w].now EXCEPT !.deleted = TRUE].email = tracked[w].now.email
          BY <2>3 DEF Row
        <4>3. QED
          BY <3>2, <4>1, <4>2, UpdatedTyped
      <3>4. QED
        BY <1>1, <1>5, <2>1, <2>3, <3>3, ClaimKept
    <2>5. CASE Mark(r)
      <3>1. tracked'[w] = Updated(tracked[w].now)
        BY <1>5, <1>w, <2>2, <2>5 DEF Mark, IInv, TypeOK
      <3>2. QED
        BY <1>1, <1>5, <2>1, <2>3, <3>1, UpdatedTyped, ClaimKept
    <2>6. CASE Retire(r)
      BY <1>1, <1>5, <1>w, <2>1, <2>3, <2>6, RetiredTyped, ClaimKept DEF IInv
    <2>7. QED
      BY <2>4, <2>5, <2>6
  <1>6. \A x \in {u, v} : Claims(x, e)'
    BY <1>1, <1>4, <1>5, ClaimKept DEF ClashOver
  <1>7. QED
    BY <1>1, <1>3, <1>6 DEF ClashOver

\* A save cannot succeed, and a save that fails has written nothing.
LEMMA ClashSave ==
    ASSUME IInv, NEW u \in Users, NEW v \in Users, u # v, NEW e \in Emails,
           ClashOver(u, v, e), NEW r \in Requests, SaveChanges(r) \/ SaveFails(r)
    PROVE  ClashOver(u, v, e)' /\ UNCHANGED table
  <1>1. ~\E late \in SUBSET DOMAIN batch : Commit(late)
    BY ClashRefused, NoneAssumption DEF SaveChanges, SaveFails
  <1>2. UNCHANGED <<table, tracked>> /\ busy' = None /\ batch' = Nothing
    BY <1>1 DEF SaveChanges, SaveFails, Leave
  <1>3. \A w \in {u, v} : Claims(w, e)'
    BY <1>2, ClaimKept DEF ClashOver
  <1>4. QED
    BY <1>2, <1>3 DEF ClashOver, Nothing

\* A twin, an account whose update was refused or the default account that waits for
\* its first save: while two accounts claim one e-mail in the singleton context no
\* save of any handler changes a row, whatever the refused handlers answered.
THEOREM ClashBlocks == Spec => ClashBlocksSaves
  <1>1. IInv /\ BusyServed /\ UnchangedStored /\ [Next]_vars
        => [\A u, v \in Users :
              Clash(u, v) => (UNCHANGED table /\ Clash(u, v)') \/ Reedits(u, v) \/ Restart]_vars
    <2> SUFFICES ASSUME IInv, BusyServed, UnchangedStored, Next,
                        NEW u \in Users, NEW v \in Users, Clash(u, v),
                        ~Restart, ~Reedits(u, v)
                 PROVE  Clash(u, v)' /\ UNCHANGED table
      OBVIOUS
    <2>1. PICK e \in Emails : ClashOver(u, v, e)
      BY DEF Clash, ClashOver
    <2>2. PICK r \in Requests : Step(r)
      BY DEF Next
    <2>3. u # v
      BY DEF Clash
    <2>4. ClashOver(u, v, e)' /\ UNCHANGED table
      BY <2>1, <2>2, <2>3, ClashPassive, ClashEnter, ClashQuery, ClashEdit, ClashSave DEF Step
    <2>5. QED
      BY <2>3, <2>4 DEF Clash, ClashOver
  <1>2. QED
    BY <1>1, Invariance, BusyIsServed, UnchangedIsStored, PTL DEF Spec, ClashBlocksSaves
=============================================================================
