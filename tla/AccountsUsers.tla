--------------------------- MODULE AccountsUsers ---------------------------
(***************************************************************************)
(* accounts.api: UserHandler on top of ONE AccountsContext.                *)
(*                                                                         *)
(* AccountsContext is registered with ServiceLifetime.Singleton while the  *)
(* handlers are transient, so every HTTP request works on the same EF Core *)
(* change tracker.  Three things follow, and all are modelled here:        *)
(*   - a tracking query filters on the committed row but hands back the    *)
(*     instance that is already tracked, with its unsaved values;          *)
(*   - SaveChanges writes whatever ANY request left pending;               *)
(*   - a second EF operation started while one runs throws                 *)
(*     InvalidOperationException (Collide).                                *)
(* A request is a program counter that stops at every await; the           *)
(* in-memory statements between two awaits are steps of their own because  *)
(* requests run on different threads and nothing locks the context.        *)
(* At every start SeedData leaves the default account in the tracker until  *)
(* some request saves.  The administrator's row, which SeedData does save,  *)
(* is left out of Users: it is an account like another.                     *)
(***************************************************************************)
EXTENDS Naturals

CONSTANTS Users,     \* the Guids user rows may get
          Emails,    \* the values of User.Email
          Requests,  \* the HTTP requests served at the same time
          Default,   \* the Guid of the seeded default account
          DefaultEmail,  \* and its e-mail
          None       \* no row, no instance, nothing running

\* The columns of a User the properties tell apart; Name and Password follow
\* Email through every handler, and Status is in the field retired of an instance.
Row == [email : Emails, deleted : BOOLEAN]

\* An instance in the change tracker: its EntityState, the values it has now
\* and the snapshot DetectChanges compares them with (an Added or Modified entity
\* is written whole, so its snapshot no longer matters); retired: its Status differs
\* from the snapshot.
Instance == [state : {"Unchanged"}, now : Row, was : Row, retired : BOOLEAN]
            \cup [state : {"Modified", "Added"}, now : Row, was : {None}, retired : {FALSE}]

Ops == {"create", "update", "delete", "other"}

VARIABLES table,    \* table[u]: the committed row of user u, or None
          tracked,  \* tracked[u]: the instance of u in the shared context, or None
          busy,     \* the request whose EF operation is running, or None
          probe,    \* the e-mail the running ValidExists query was given, or None
          batch,    \* what the running SaveChanges captured: user -> row
          req       \* req[r]: operation, arguments and program counter of r, or None

vars == <<table, tracked, busy, probe, batch, req>>

Request == [op : Ops, user : Users \cup {None}, email : Emails \cup {None},
            pc : {"load", "edit", "valid", "mark", "save", "retire", "publish"}]

ASSUME NoneAssumption ==
    /\ None \notin Users /\ None \notin Emails /\ None \notin Requests
    /\ None \notin Row /\ None \notin Instance /\ None \notin Request

ASSUME DefaultAssumption == Default \in Users /\ DefaultEmail \in Emails

Nothing == [u \in {} |-> None]

TypeOK ==
    /\ table \in [Users -> Row \cup {None}]
    /\ tracked \in [Users -> Instance \cup {None}]
    /\ busy \in Requests \cup {None}
    /\ probe \in Emails \cup {None}
    /\ \E S \in SUBSET Users : batch \in [S -> Row]
    /\ req \in [Requests -> Request \cup {None}]

\* SeedData: a default account without a row is added to the context and not saved.
Seeded(t) ==
    [u \in Users |->
       IF u = Default /\ t[u] = None
       THEN [state |-> "Added", was |-> None, retired |-> FALSE,
             now |-> [email |-> DefaultEmail, deleted |-> FALSE]]
       ELSE None]

Init ==
    /\ table = [u \in Users |-> None]
    /\ tracked = Seeded(table)
    /\ busy = None
    /\ probe = None
    /\ batch = Nothing
    /\ req = [r \in Requests |-> None]

-----------------------------------------------------------------------------
(* Helpers                                                                 *)

At(r, pc) == req[r] # None /\ req[r].pc = pc

Goto(r, pc) == req' = [req EXCEPT ![r].pc = pc]

\* The request is answered, whatever the status code.
Answer(r) == req' = [req EXCEPT ![r] = None]

\* DetectChanges: Added and Modified entries, and the unchanged ones whose
\* values differ from their snapshot, whoever changed them.
Pending == {u \in Users : /\ tracked[u] # None
                          /\ \/ tracked[u].state # "Unchanged"
                             \/ tracked[u].now # tracked[u].was
                             \/ tracked[u].retired}

\* The row the UPDATE or INSERT of u leaves: every column of an entity that was
\* added or passed to Update(), only the detected columns of another.
WriteOf(u) ==
    LET i == tracked[u] IN
    IF i.state # "Unchanged" \/ table[u] = None
    THEN i.now
    ELSE [email   |-> IF i.now.email # i.was.email THEN i.now.email ELSE table[u].email,
          deleted |-> IF i.now.deleted # i.was.deleted THEN i.now.deleted
                                                       ELSE table[u].deleted]

\* Mutant: the index is declared with a filter on IsDeleted.
FilteredEmailIndex(t) ==
    \A u, v \in Users : /\ u # v /\ t[u] # None /\ t[v] # None
                        /\ ~t[u].deleted /\ ~t[v].deleted
                        => t[u].email # t[v].email

\* The unique index on Users.Email has no filter: deleted rows count.
EmailIndexAccepts(t) ==
    \A u, v \in Users : u # v /\ t[u] # None /\ t[v] # None => t[u].email # t[v].email

\* SaveChanges inserts an Added entity: its key must be new to the table.
InsertsAreNew == \A u \in DOMAIN batch : tracked[u].state = "Added" => table[u] = None

\* AcceptAllChanges: the saved entries become Unchanged with the values the
\* instance has by then.
Accept(us) == [u \in Users |-> IF u \in us
                               THEN [state |-> "Unchanged", now |-> tracked[u].now,
                                     was |-> tracked[u].now, retired |-> FALSE]
                               ELSE tracked[u]]

-----------------------------------------------------------------------------
(* Requests arrive                                                         *)

Begin(r, op, u, e, pc) ==
    /\ req[r] = None
    /\ req' = [req EXCEPT ![r] = [op |-> op, user |-> u, email |-> e, pc |-> pc]]
    /\ UNCHANGED <<table, tracked, busy, probe, batch>>

\* POST /User: ToUser gives the new row a fresh Guid.
Create(r) == \E u \in Users, e \in Emails :
    /\ table[u] = None /\ tracked[u] = None
    /\ \A q \in Requests : req[q] # None => req[q].user # u
    /\ Begin(r, "create", u, e, "valid")

\* PUT /User/{id}: Name, Email and Password come from the body.
Update(r) == \E u \in Users, e \in Emails :
    /\ table[u] # None
    /\ Begin(r, "update", u, e, "load")

Delete(r) == \E u \in Users :
    /\ table[u] # None
    /\ Begin(r, "delete", u, None, "load")

\* Any other handler of accounts.api that adds an entity of its own and saves:
\* to the users it is a SaveChanges of whatever is pending.
Other(r) == Begin(r, "other", None, None, "save")

-----------------------------------------------------------------------------
(* The shared context: entering an EF operation, or colliding with one     *)

EfCalls == {"load", "valid", "save"}

EmailOf(r) == IF req[r].op = "create" THEN req[r].email
                                      ELSE tracked[req[r].user].now.email

Enter(r) ==
    /\ \E pc \in EfCalls : At(r, pc)
    /\ busy = None
    /\ At(r, "save") => Pending # {} \/ req[r].op = "other"
    /\ busy' = r
    /\ probe' = IF At(r, "valid") THEN EmailOf(r) ELSE None
    /\ batch' = IF At(r, "save") THEN [u \in Pending |-> WriteOf(u)] ELSE Nothing
    /\ UNCHANGED <<table, tracked, req>>

\* "A second operation was started on this context instance": the controller
\* answers 500, and what the request did to the tracked instance stays.
Collide(r) ==
    /\ \E pc \in EfCalls : At(r, pc)
    /\ busy \notin {None, r}
    /\ At(r, "save") => Pending # {} \/ req[r].op = "other"
    /\ Answer(r)
    /\ UNCHANGED <<table, tracked, busy, probe, batch>>

\* Nothing is pending any more (another request saved it, or took it from the
\* tracker): SaveChanges returns 0 without touching the database.
SaveNothing(r) ==
    /\ At(r, "save") /\ req[r].op # "other"
    /\ Pending = {} /\ busy # r
    /\ Goto(r, IF req[r].op = "delete" THEN "retire" ELSE "publish")
    /\ UNCHANGED <<table, tracked, busy, probe, batch>>

Leave == busy' = None /\ probe' = None /\ batch' = Nothing

-----------------------------------------------------------------------------
(* Queries                                                                 *)

\* FirstOrDefaultAsync(Id == id && !IsDeleted): the filter runs on the row, the
\* result is the tracked instance when there is one.
Resolve(u) == IF tracked[u] # None THEN tracked[u]
              ELSE [state |-> "Unchanged", now |-> table[u], was |-> table[u],
                    retired |-> FALSE]

Load(r) ==
    LET u == req[r].user IN
    /\ busy = r /\ At(r, "load")
    /\ IF table[u] # None /\ ~table[u].deleted
       THEN /\ tracked' = [tracked EXCEPT ![u] = Resolve(u)]
            /\ Goto(r, "edit")
       ELSE Answer(r) /\ UNCHANGED tracked
    /\ Leave
    /\ UNCHANGED table

\* ValidExistsAsync: another row, not deleted, has the e-mail.  The instance of
\* a refused update keeps the refused e-mail.
EmailTaken(u) == \E v \in Users \ {u} : /\ table[v] # None /\ ~table[v].deleted
                                       /\ table[v].email = probe

ValidExists(r) ==
    /\ busy = r /\ At(r, "valid")
    /\ IF EmailTaken(req[r].user) THEN Answer(r) ELSE Goto(r, "mark")
    /\ Leave
    /\ UNCHANGED <<table, tracked>>

-----------------------------------------------------------------------------
(* In-memory statements on the tracked instance                            *)

\* _context.Update(user): every column counts as modified.
Updated(row) == [state |-> "Modified", now |-> row, was |-> None, retired |-> FALSE]

\* Mutant: the mapper copies the whole entity, IsDeleted = false included.
EditOverposts(r) ==
    LET u == req[r].user IN
    /\ At(r, "edit")
    /\ IF req[r].op = "update"
       THEN /\ tracked' = [tracked EXCEPT ![u].now.email = req[r].email,
                                          ![u].now.deleted = FALSE]
            /\ Goto(r, "valid")
       ELSE /\ tracked' = [tracked EXCEPT ![u] = Updated([@.now EXCEPT !.deleted = TRUE])]
            /\ Goto(r, "save")
    /\ UNCHANGED <<table, busy, probe, batch>>

\* user.Update(request), or user.IsDeleted = true; _context.Update(user).
Edit(r) ==
    LET u == req[r].user IN
    /\ At(r, "edit")
    /\ IF req[r].op = "update"
       THEN /\ tracked' = [tracked EXCEPT ![u].now.email = req[r].email]
            /\ Goto(r, "valid")
       ELSE /\ tracked' = [tracked EXCEPT ![u] = Updated([@.now EXCEPT !.deleted = TRUE])]
            /\ Goto(r, "save")
    /\ UNCHANGED <<table, busy, probe, batch>>

\* Mutant: the mapper forgets the e-mail.
NewRowWithoutEmail(r) == [email |-> None, deleted |-> FALSE]

\* ToUser: a new account is not deleted, whatever status the body asks for.
NewRow(r) == [email |-> req[r].email, deleted |-> FALSE]

\* Mutant: the event is published before the save.
PublishFirst(r) ==
    /\ At(r, "mark")
    /\ Goto(r, "publish")
    /\ UNCHANGED <<table, tracked, busy, probe, batch>>

\* _context.Add(user), or _context.Update(user) once the e-mail is validated.
Mark(r) ==
    /\ At(r, "mark")
    /\ tracked' = [tracked EXCEPT ![req[r].user] =
                     IF req[r].op = "create"
                     THEN [state |-> "Added", now |-> NewRow(r), was |-> None,
                           retired |-> FALSE]
                     ELSE Updated(@.now)]
    /\ Goto(r, "save")
    /\ UNCHANGED <<table, busy, probe, batch>>

\* DeleteAsync sets Status to Inactive after its save, on the instance that stays
\* tracked; the account may have been inactive before.
Retire(r) ==
    /\ At(r, "retire")
    /\ \/ UNCHANGED tracked
       \/ /\ tracked[req[r].user].state = "Unchanged"
          /\ tracked' = [tracked EXCEPT ![req[r].user].retired = TRUE]
    /\ Goto(r, "publish")
    /\ UNCHANGED <<table, busy, probe, batch>>

-----------------------------------------------------------------------------
(* SaveChanges                                                             *)

\* One transaction over every captured entry.  A value changed by another thread
\* while the commands were being built may or may not be the one written.
Written(late) == [u \in Users |-> IF u \notin DOMAIN batch THEN table[u]
                                  ELSE IF u \in late THEN WriteOf(u) ELSE batch[u]]

Commit(late) ==
    /\ InsertsAreNew
    /\ EmailIndexAccepts(Written(late))
    /\ table' = Written(late)

SaveChanges(r) ==
    /\ busy = r /\ At(r, "save")
    /\ \E late \in SUBSET DOMAIN batch : Commit(late)
    /\ tracked' = Accept(DOMAIN batch)
    /\ IF req[r].op = "other" THEN Answer(r)
       ELSE Goto(r, IF req[r].op = "delete" THEN "retire" ELSE "publish")
    /\ Leave

\* DbUpdateException (constraint, timeout, lost connection): the entries stay as
\* they are in the tracker; when only the acknowledgement is lost the rows are in.
SaveFails(r) ==
    /\ busy = r /\ At(r, "save")
    /\ \/ UNCHANGED table
       \/ \E late \in SUBSET DOMAIN batch : Commit(late)
    /\ Answer(r)
    /\ Leave
    /\ UNCHANGED tracked

-----------------------------------------------------------------------------
(* After the save                                                          *)

\* PublishAsync returned, or the broker was unreachable (500): the row stays in
\* either case, and nothing repeats a lost publish.
Publish(r) ==
    /\ At(r, "publish")
    /\ Answer(r)
    /\ UNCHANGED <<table, tracked, busy, probe, batch>>

\* The process dies, the tracker and the requests with it, and starts again; a
\* running save has committed or not.
Restart ==
    /\ req' = [r \in Requests |-> None]
    /\ Leave
    /\ \/ UNCHANGED table
       \/ \E late \in SUBSET DOMAIN batch : Commit(late)
    /\ tracked' = Seeded(table')

-----------------------------------------------------------------------------
Step(r) ==
    \/ Create(r) \/ Update(r) \/ Delete(r) \/ Other(r)
    \/ Enter(r) \/ Collide(r) \/ SaveNothing(r)
    \/ Load(r) \/ ValidExists(r)
    \/ Edit(r) \/ Mark(r) \/ Retire(r)
    \/ SaveChanges(r) \/ SaveFails(r)
    \/ Publish(r)

Next == (\E r \in Requests : Step(r)) \/ Restart

Spec == Init /\ [][Next]_vars

-----------------------------------------------------------------------------
(* What survives the shared context                                        *)

\* The identity map never holds an older deletion flag than the row: this is why
\* an update that loaded a user before another request deleted it cannot write
\* IsDeleted = false back (the invariant that DeletionIsFinal is proved from).
TrackerKnowsDeletions ==
    \A u \in Users : /\ table[u] # None /\ table[u].deleted /\ tracked[u] # None
                     => tracked[u].now.deleted

\* A deleted account is never revived: neither by an update that was validated
\* before the deletion, nor by a later save of what it left in the tracker.
DeletionIsFinal ==
    [][\A u \in Users : table[u] # None /\ table[u].deleted
                        => table'[u] # None /\ table'[u].deleted]_vars

\* An event is published only for an account that is stored.
EventsAreAboutStoredUsers ==
    \A r \in Requests : At(r, "publish") => table[req[r].user] # None

\* A tracked, never stored account whose e-mail belongs to a deleted row nobody
\* is changing.
DoomedBy(u, v) ==
    /\ u # v /\ tracked[u] # None /\ tracked[u].state = "Added" /\ table[u] = None
    /\ table[v] # None /\ table[v].deleted
    /\ table[v].email = tracked[u].now.email
    /\ tracked[v] # None => tracked[v].now.email = table[v].email
    /\ \A r \in Requests : req[r] # None /\ req[r].user = v
                           => req[r].pc \notin {"edit", "valid", "mark"}
    /\ \A w \in {u, v} \cap DOMAIN batch : batch[w].email = table[v].email
    /\ busy # None /\ At(busy, "save") => u \in DOMAIN batch

Poisoned == \E u, v \in Users : DoomedBy(u, v)

\* Re-creating a deleted account passes ValidExists and fails on the index; from
\* then on no save of any handler changes a row until the process restarts.
PoisonLastsUntilRestart ==
    [][Poisoned => (UNCHANGED table /\ Poisoned') \/ Restart]_vars

\* The next save will leave w with e-mail e.
Claims(w, e) ==
    IF tracked[w] = None
    THEN table[w] # None /\ table[w].email = e
    ELSE tracked[w].now.email = e /\ WriteOf(w).email = e

\* Two accounts claim one e-mail: a twin, an account refused after UserMap.Update,
\* the default account that waits for its first save.  A save that runs has seen it.
Clash(u, v) ==
    /\ u # v
    /\ \E e \in Emails :
         /\ Claims(u, e) /\ Claims(v, e)
         /\ \A w \in {u, v} \cap DOMAIN batch : batch[w].email = e
         /\ busy # None /\ At(busy, "save") =>
              \A w \in {u, v} \ DOMAIN batch : table[w] # None /\ table[w].email = e

\* UserMap.Update of u or v: what alone can end their clash in a running process.
Reedits(u, v) ==
    \E r \in Requests : req[r] # None /\ req[r].op = "update"
                       /\ req[r].user \in {u, v} /\ Edit(r)

\* While two accounts clash in the tracker nobody's save changes a row, that of any
\* other handler included; neither a refusal nor a deletion ends it, only a further
\* update of one of the two does, or a restart.
ClashBlocksSaves ==
    [][\A u, v \in Users :
         Clash(u, v) => (UNCHANGED table /\ Clash(u, v)') \/ Reedits(u, v) \/ Restart]_vars
=============================================================================
