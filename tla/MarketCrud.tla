----------------------------- MODULE MarketCrud -----------------------------
(***************************************************************************)
(* market.api: CrudController over CrudService over CrudRepository, for    *)
(* one table.  Every statement takes a connection of its own and commits   *)
(* by itself, so a request is three separate statements (find, validate,   *)
(* write) and other requests write in between: the validation query only   *)
(* sees what is committed, and the constraint of the table decides.        *)
(*                                                                         *)
(* The table is a parameter: which keys its rows have, what the service    *)
(* and its query refuse, and what PostgreSQL refuses.                      *)
(***************************************************************************)
CONSTANTS Ids,            \* the Guids rows may get
          Keys,           \* the columns the uniqueness rule looks at
          Requests,       \* the HTTP requests served at the same time
          None,
          Valid(_),       \* the service's check of the dto itself
          Clash(_, _),    \* its query: may a row not have key k beside a live row's?
          Check(_),       \* the CHECK constraint of the table
          Excludes(_, _)  \* its UNIQUE or EXCLUDE constraint, over live rows

Row == [key : Keys, deleted : BOOLEAN]

Request == [op : {"create"}, id : {None}, key : Keys, pc : {"validate", "write"}]
           \cup [op : {"update"}, id : Ids, key : Keys, pc : {"find", "validate", "write"}]
           \cup [op : {"delete"}, id : Ids, key : {None}, pc : {"find", "write"}]

ASSUME NoneAssumption == None \notin Row /\ None \notin Request /\ None \notin Ids

VARIABLES rows,   \* rows[i]: the row with Id i, or None
          req,    \* req[r]: the operation of r and where it is, or None
          raced   \* the validated requests another request wrote in front of

vars == <<rows, req, raced>>

TypeOK ==
    /\ rows \in [Ids -> Row \cup {None}]
    /\ req \in [Requests -> Request \cup {None}]
    /\ raced \in SUBSET Requests

Init ==
    /\ rows = [i \in Ids |-> None]
    /\ req = [r \in Requests |-> None]
    /\ raced = {}

-----------------------------------------------------------------------------
At(r, pc) == req[r] # None /\ req[r].pc = pc

\* WHERE "DeletedAt" IS NULL.
Live(i) == rows[i] # None /\ ~rows[i].deleted

\* Mutant: the migration that adds the UNIQUE or EXCLUDE constraint is missing.
AcceptsChecked(i, k) == Check(k)

\* The table's constraints let the row i have key k.
Accepts(i, k) == Check(k) /\ \A j \in Ids \ {i} : Live(j) => ~Excludes(k, rows[j].key)

Begin(r, op, i, k, pc) ==
    /\ req[r] = None
    /\ req' = [req EXCEPT ![r] = [op |-> op, id |-> i, key |-> k, pc |-> pc]]
    /\ UNCHANGED <<rows, raced>>

Goto(r, pc) == req' = [req EXCEPT ![r].pc = pc] /\ UNCHANGED <<rows, raced>>

Forget(r) == req' = [req EXCEPT ![r] = None]

\* The answer is sent and no row was written.
Answer(r) == Forget(r) /\ raced' = raced \ {r} /\ UNCHANGED rows

\* r wrote row i: who has validated before that has validated something else.
Written(r, i, row) ==
    /\ rows' = [rows EXCEPT ![i] = row]
    /\ raced' = (raced \cup {q \in Requests : At(q, "write")}) \ {r}
    /\ Forget(r)

-----------------------------------------------------------------------------
Post(r) == \E k \in Keys : Begin(r, "create", None, k, "validate")

Put(r) == \E i \in Ids, k \in Keys : Begin(r, "update", i, k, "find")

Remove(r) == \E i \in Ids : Begin(r, "delete", i, None, "find")

\* Mutant: a deletion is validated like an update.
FindThenValidate(r) ==
    /\ At(r, "find")
    /\ IF Live(req[r].id) THEN Goto(r, "validate") ELSE Answer(r)

\* GetByIdAsync; a missing row is a BusinessException (404).
Find(r) ==
    /\ At(r, "find")
    /\ IF Live(req[r].id)
       THEN Goto(r, IF req[r].op = "update" THEN "validate" ELSE "write")
       ELSE Answer(r)

\* The query of ValidateCreate/ValidateUpdate; @IgnoreId is the updated row.
Clashes(r) == \E j \in Ids \ {req[r].id} : Live(j) /\ Clash(req[r].key, rows[j].key)

Validate(r) ==
    /\ At(r, "validate")
    /\ IF Valid(req[r].key) /\ ~Clashes(r) THEN Goto(r, "write") ELSE Answer(r)

\* INSERT under a new Guid.
Insert(r) ==
    /\ At(r, "write") /\ req[r].op = "create"
    /\ \E i \in Ids : /\ rows[i] = None
                      /\ Accepts(i, req[r].key)
                      /\ Written(r, i, [key |-> req[r].key, deleted |-> FALSE])

\* Mutant: UPDATE ... WHERE "Id" = @Id only, with every column of the entity.
ChangeAnyRow(r) ==
    LET i == req[r].id IN
    /\ At(r, "write") /\ req[r].op = "update"
    /\ Accepts(i, req[r].key)
    /\ Written(r, i, [key |-> req[r].key, deleted |-> FALSE])

\* UPDATE ... WHERE "Id" = @Id AND "DeletedAt" IS NULL; a row deleted since the
\* find is left alone and the request is answered 200 all the same.
Change(r) ==
    LET i == req[r].id IN
    /\ At(r, "write") /\ req[r].op = "update"
    /\ \/ /\ Live(i) /\ Accepts(i, req[r].key)
          /\ Written(r, i, [rows[i] EXCEPT !.key = req[r].key])
       \/ ~Live(i) /\ Answer(r)

\* DeleteAsync sets "DeletedAt" on a live row.
SoftDelete(r) ==
    LET i == req[r].id IN
    /\ At(r, "write") /\ req[r].op = "delete"
    /\ \/ Live(i) /\ Written(r, i, [rows[i] EXCEPT !.deleted = TRUE])
       \/ ~Live(i) /\ Answer(r)

Write(r) == Insert(r) \/ Change(r) \/ SoftDelete(r)

\* PostgreSQL refuses the row: 500 and a line in ErrorLog.
Reject(r) ==
    /\ At(r, "write")
    /\ \/ /\ req[r].op = "create"
          /\ \E i \in Ids : rows[i] = None /\ ~Accepts(i, req[r].key)
       \/ /\ req[r].op = "update"
          /\ Live(req[r].id) /\ ~Accepts(req[r].id, req[r].key)
    /\ Answer(r)

\* A statement fails for another reason (500); what a lost acknowledgement
\* leaves behind is a Write.
Fail(r) == req[r] # None /\ Answer(r)

Step(r) == \/ Post(r) \/ Put(r) \/ Remove(r)
           \/ Find(r) \/ Validate(r)
           \/ Write(r) \/ Reject(r) \/ Fail(r)

Next == \E r \in Requests : Step(r)

Spec == Init /\ [][Next]_vars

-----------------------------------------------------------------------------
\* A deleted row keeps its values for good: an update or a second deletion that
\* found it alive does not touch it.
DeletedRowsAreFinal ==
    [][\A i \in Ids : rows[i] # None /\ rows[i].deleted => rows'[i] = rows[i]]_vars

\* The check of the service and the constraint of the table agree: the constraint
\* refuses only a request in front of which another request wrote.
ConstraintIsLastResort == [][\A r \in Requests : Reject(r) => r \in raced]_vars
=============================================================================
