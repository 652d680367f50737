----------------------------- MODULE FileStore -----------------------------
(***************************************************************************)
(* file.api: a document is a file under Uploads and a row of FileDocument, *)
(* written one after the other with nothing around them.  The process      *)
(* starts by migrating the database (execute, then mark, no transaction)   *)
(* and by seeding the icons, whose rows have fixed ids; then it serves     *)
(* uploads and deletions.  It may die between any two steps.               *)
(***************************************************************************)
EXTENDS Naturals

CONSTANTS Guids,     \* the ids of the uploaded documents, and of every file
          Seeds,     \* the fixed document ids of the seeded icons
          Requests,
          None

Docs == Guids \cup Seeds
Names == Seeds \cup {None}
\* A row: its file, whether it is active, and the icon whose file name it has.
Doc == [file : Guids, active : BOOLEAN, name : Names]

VARIABLES rows,     \* rows[d]: the row of FileDocument with Id d, or None
          disk,     \* the files under Uploads, by the Guid in their name
          schema,   \* how many migrations have been executed
          marked,   \* how many of them database_migrations knows
          proc,     \* "down", a step of the start, or "up"
          seeding,  \* the icons to seed, the one being seeded and its file
          req,      \* req[r]: the request r, or None
          unacked,  \* documents whose INSERT committed without the service knowing
          excused   \* files that a crash or a failed call may leave behind

vars == <<rows, disk, schema, marked, proc, seeding, req, unacked, excused>>

Migrations == 2

Request == [op : {"upload"}, doc : Guids, file : Guids, name : Names,
            pc : {"copy", "insert", "undo"}]
           \cup [op : {"delete"}, doc : Docs, file : Guids \cup {None},
                 pc : {"find", "deactivate", "unlink"}]

ASSUME StoreAssumption == /\ None \notin Doc /\ None \notin Docs /\ None \notin Request
                          /\ Guids \cap Seeds = {}

Idle == [r \in Requests |-> None]
NothingToSeed == [todo |-> {}, icon |-> None, file |-> None]

Init ==
    /\ rows = [d \in Docs |-> None] /\ disk = {}
    /\ schema = 0 /\ marked = 0
    /\ proc = "down" /\ seeding = NothingToSeed /\ req = Idle
    /\ unacked = {} /\ excused = {}

-----------------------------------------------------------------------------
Active(d) == rows[d] # None /\ rows[d].active

\* Some active document has the file name of icon s.
Present(s) == \E d \in Docs : Active(d) /\ rows[d].name = s

\* A Guid no row, file or request has.
New(g) == /\ rows[g] = None /\ g \notin disk /\ seeding.file # g
          /\ \A d \in Docs : rows[d] # None => rows[d].file # g
          /\ \A r \in Requests : req[r] # None => req[r].doc # g /\ req[r].file # g

\* Files that no active row names.
Orphans == {f \in disk : \A d \in Docs : Active(d) => rows[d].file # f}

-----------------------------------------------------------------------------
(* The start                                                               *)

Start ==
    /\ proc = "down" /\ proc' = "execute"
    /\ UNCHANGED <<rows, disk, schema, marked, seeding, req, unacked, excused>>

\* migration.Execute: CREATE TABLE IF NOT EXISTS may be repeated, ADD COLUMN may not.
Execute ==
    /\ proc = "execute" /\ marked < Migrations
    /\ schema = marked \/ marked = 0
    /\ schema' = marked + 1 /\ proc' = "mark"
    /\ UNCHANGED <<rows, disk, marked, seeding, req, unacked, excused>>

\* MarkAsExecuted.
MarkAsExecuted ==
    /\ proc = "mark" /\ marked' = marked + 1 /\ proc' = "execute"
    /\ UNCHANGED <<rows, disk, schema, seeding, req, unacked, excused>>

Migrated ==
    /\ proc = "execute" /\ marked = Migrations
    /\ proc' = "seed" /\ seeding' = [NothingToSeed EXCEPT !.todo = Seeds]
    /\ UNCHANGED <<rows, disk, schema, marked, req, unacked, excused>>

\* GetByAppIdAndNameAsync goes by the name, and sees active rows only.
SkipSeed(s) ==
    /\ proc = "seed" /\ seeding.icon = None /\ s \in seeding.todo /\ Present(s)
    /\ seeding' = [seeding EXCEPT !.todo = @ \ {s}]
    /\ UNCHANGED <<rows, disk, schema, marked, proc, req, unacked, excused>>

\* UploadFileAsync of the icon, under a Guid of its own.
SeedFile(s) == \E f \in Guids :
    /\ proc = "seed" /\ seeding.icon = None /\ s \in seeding.todo /\ ~Present(s)
    /\ New(f)
    /\ disk' = disk \cup {f}
    /\ seeding' = [todo |-> seeding.todo \ {s}, icon |-> s, file |-> f]
    /\ UNCHANGED <<rows, schema, marked, proc, req, unacked, excused>>

\* Mutant: INSERT ... ON CONFLICT (Id) DO UPDATE.
SeedUpsert(s) ==
    /\ proc = "seed" /\ seeding.icon = s
    /\ rows' = [rows EXCEPT ![s] = [file |-> seeding.file, active |-> TRUE, name |-> s]]
    /\ seeding' = [seeding EXCEPT !.icon = None, !.file = None]
    /\ UNCHANGED <<disk, schema, marked, proc, req, unacked, excused>>

\* AddAsync under the fixed id.
SeedRow(s) ==
    /\ proc = "seed" /\ seeding.icon = s /\ rows[s] = None
    /\ rows' = [rows EXCEPT ![s] = [file |-> seeding.file, active |-> TRUE, name |-> s]]
    /\ seeding' = [seeding EXCEPT !.icon = None, !.file = None]
    /\ UNCHANGED <<disk, schema, marked, proc, req, unacked, excused>>

Seeded ==
    /\ proc = "seed" /\ seeding = NothingToSeed /\ proc' = "up"
    /\ UNCHANGED <<rows, disk, schema, marked, seeding, req, unacked, excused>>

\* The process dies, between any two steps or because nothing catches what the
\* start throws; files that no active row names are left behind.
Down ==
    /\ proc' = "down" /\ req' = Idle /\ seeding' = NothingToSeed
    /\ excused' = excused \cup Orphans
    /\ UNCHANGED <<rows, disk, schema, marked, unacked>>

Crash == proc # "down" /\ Down

\* "column already exists", or a duplicate Id in the INSERT of an icon.
StartFails ==
    /\ \/ proc = "execute" /\ marked = 1 /\ schema = 2
       \/ proc = "seed" /\ seeding.icon # None /\ rows[seeding.icon] # None
    /\ Down

-----------------------------------------------------------------------------
(* POST /Upload and POST /Upload/Base64                                    *)

At(r, op, pc) == req[r] # None /\ req[r].op = op /\ req[r].pc = pc
Goto(r, pc) == req' = [req EXCEPT ![r].pc = pc]
Answer(r) == req' = [req EXCEPT ![r] = None]

Upload(r) == \E g \in Guids, n \in Names :
    /\ proc = "up" /\ req[r] = None /\ New(g)
    /\ disk' = disk \cup {g}
    /\ req' = [req EXCEPT ![r] = [op |-> "upload", doc |-> g, file |-> g, name |-> n,
                                  pc |-> "copy"]]
    /\ UNCHANGED <<rows, schema, marked, proc, seeding, unacked, excused>>

Copied(r) ==
    /\ At(r, "upload", "copy") /\ Goto(r, "insert")
    /\ UNCHANGED <<rows, disk, schema, marked, proc, seeding, unacked, excused>>

\* The copy fails: document is still the empty one, so RemoveFile does nothing.
CopyFails(r) ==
    /\ At(r, "upload", "copy") /\ Answer(r)
    /\ excused' = excused \cup {req[r].file}
    /\ UNCHANGED <<rows, disk, schema, marked, proc, seeding, unacked>>

Added(r) == [rows EXCEPT ![req[r].doc] = [file |-> req[r].file, active |-> TRUE,
                                          name |-> req[r].name]]

\* AddAsync.
Insert(r) ==
    /\ At(r, "upload", "insert") /\ Answer(r)
    /\ rows' = Added(r)
    /\ UNCHANGED <<disk, schema, marked, proc, seeding, unacked, excused>>

\* Mutant: the catch answers without RemoveFile.
InsertFailsOnly(r) ==
    /\ At(r, "upload", "insert") /\ Answer(r)
    /\ UNCHANGED <<rows, disk, schema, marked, proc, seeding, unacked, excused>>

\* AddAsync throws, with or without the row being committed.
InsertFails(r) ==
    /\ At(r, "upload", "insert") /\ Goto(r, "undo")
    /\ \/ UNCHANGED <<rows, unacked>>
       \/ rows' = Added(r) /\ unacked' = unacked \cup {req[r].doc}
    /\ UNCHANGED <<disk, schema, marked, proc, seeding, excused>>

\* RemoveFile.
Undo(r) ==
    /\ At(r, "upload", "undo") /\ Answer(r)
    /\ disk' = disk \ {req[r].file}
    /\ UNCHANGED <<rows, schema, marked, proc, seeding, unacked, excused>>

-----------------------------------------------------------------------------
(* DELETE /Upload/{id}                                                     *)

Delete(r) == \E d \in Docs :
    /\ proc = "up" /\ req[r] = None /\ rows[d] # None
    /\ req' = [req EXCEPT ![r] = [op |-> "delete", doc |-> d, file |-> None, pc |-> "find"]]
    /\ UNCHANGED <<rows, disk, schema, marked, proc, seeding, unacked, excused>>

\* Mutant: the file is removed before the row.
FindAndUnlink(r) ==
    LET d == req[r].doc IN
    /\ At(r, "delete", "find") /\ Active(d)
    /\ req' = [req EXCEPT ![r].file = rows[d].file, ![r].pc = "deactivate"]
    /\ disk' = disk \ {rows[d].file}
    /\ UNCHANGED <<rows, schema, marked, proc, seeding, unacked, excused>>

\* GetByIdAsync; the document is gone for whoever asks after the first deletion.
Find(r) ==
    LET d == req[r].doc IN
    /\ At(r, "delete", "find")
    /\ req' = IF Active(d) THEN [req EXCEPT ![r].file = rows[d].file, ![r].pc = "deactivate"]
                           ELSE [req EXCEPT ![r] = None]
    /\ UNCHANGED <<rows, disk, schema, marked, proc, seeding, unacked, excused>>

Deactivated(d) == [rows EXCEPT ![d].active = FALSE]

\* DeleteAsync: Active = FALSE, whatever it was.
Deactivate(r) ==
    /\ At(r, "delete", "deactivate") /\ Goto(r, "unlink")
    /\ rows' = Deactivated(req[r].doc)
    /\ UNCHANGED <<disk, schema, marked, proc, seeding, unacked, excused>>

\* A DeleteAsync that throws leaves the file; when the row was committed nothing
\* will ever remove it, because the document can no longer be found.
DeactivateFails(r) ==
    /\ At(r, "delete", "deactivate") /\ Answer(r)
    /\ rows' \in {rows, Deactivated(req[r].doc)}
    /\ excused' = excused \cup {req[r].file}
    /\ UNCHANGED <<disk, schema, marked, proc, seeding, unacked>>

\* DeleteFileFromDiskAsync; nothing to do when a second deletion was faster.
Unlink(r) ==
    /\ At(r, "delete", "unlink") /\ Answer(r)
    /\ disk' = disk \ {req[r].file}
    /\ UNCHANGED <<rows, schema, marked, proc, seeding, unacked, excused>>

\* File.Delete throws, after a failed INSERT or after the row was deactivated.
UnlinkFails(r) ==
    /\ At(r, "upload", "undo") \/ At(r, "delete", "unlink")
    /\ Answer(r)
    /\ excused' = excused \cup {req[r].file}
    /\ UNCHANGED <<rows, disk, schema, marked, proc, seeding, unacked>>

-----------------------------------------------------------------------------
Serve(r) ==
    \/ Upload(r) \/ Copied(r) \/ CopyFails(r)
    \/ Insert(r) \/ InsertFails(r) \/ Undo(r)
    \/ Delete(r) \/ Find(r)
    \/ Deactivate(r) \/ DeactivateFails(r)
    \/ Unlink(r) \/ UnlinkFails(r)

Next ==
    \/ Start \/ Execute \/ MarkAsExecuted \/ Migrated
    \/ Seeded \/ StartFails
    \/ \E s \in Seeds : SkipSeed(s) \/ SeedFile(s) \/ SeedRow(s)
    \/ \E r \in Requests : Serve(r)
    \/ Crash

Spec == Init /\ [][Next]_vars

-----------------------------------------------------------------------------
\* A document that can be found can be read: its file is there, through crashes,
\* failed calls and concurrent deletions.  The one exception is an INSERT that was
\* committed without an acknowledgement, whose file the catch removes.
FoundDocumentsHaveTheirFile ==
    \A d \in Docs \ unacked : Active(d) => rows[d].file \in disk

\* A file nobody can reach any more was left by a crash or a call that failed; an
\* INSERT that is refused is not among the excuses.
OrphansAreExcused ==
    \A f \in Orphans \ excused :
        \/ seeding.file = f
        \/ \E r \in Requests : req[r] # None /\ req[r].file = f

\* The service cannot start with this database.
Bricked == \/ proc # "mark" /\ marked = 1 /\ schema = 2
           \/ \E s \in Seeds : rows[s] # None /\ ~Present(s)

\* An icon that was deleted (and has no active namesake), or a crash between the
\* second migration and its mark, keeps the service down for good: no number of
\* restarts brings it up again.
BrickedStaysDown == [][Bricked /\ proc # "up" => Bricked' /\ proc' # "up"]_vars
=============================================================================
