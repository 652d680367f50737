---------------------------- MODULE FileStoreProofs ----------------------------
(* Proofs about FileStore, for any number of documents, icons and requests:  *)
(* every file belongs to one row, one upload or the icon being seeded.       *)
EXTENDS FileStore, TLAPS

UploadReq == [op : {"upload"}, doc : Guids, file : Guids, name : Names,
              pc : {"copy", "insert", "undo"}]
DeleteReq == [op : {"delete"}, doc : Docs, file : Guids \cup {None},
              pc : {"find", "deactivate", "unlink"}]
SeedState == [todo : SUBSET Seeds, icon : Seeds \cup {None}, file : Guids \cup {None}]

Typed ==
    /\ rows \in [Docs -> Doc \cup {None}] /\ disk \subseteq Guids
    /\ req \in [Requests -> UploadReq \cup DeleteReq \cup {None}]
    /\ seeding \in SeedState /\ (seeding.icon # None <=> seeding.file # None)

Uploads(r) == req[r] # None /\ req[r].op = "upload"

\* What an upload, or a deletion, says about the rows and the disk.
UploadOK(x) ==
    /\ x.file = x.doc /\ x.file # seeding.file
    /\ x.pc # "undo" => x.file \in disk /\ rows[x.doc] = None
    /\ \A d \in Docs : rows[d] # None /\ rows[d].file = x.file
                       => x.pc = "undo" /\ d \in unacked
DeleteOK(x) ==
    /\ x.pc = "find" => x.file = None
    /\ x.pc # "find" => rows[x.doc] # None /\ rows[x.doc].file = x.file
    /\ x.pc = "unlink" => ~rows[x.doc].active

ReqOK(r) == req[r] # None => /\ req[r].op = "upload" => UploadOK(req[r])
                             /\ req[r].op = "delete" => DeleteOK(req[r])

OneUpload ==
    \A q, r \in Requests : Uploads(q) /\ Uploads(r) /\ req[q].file = req[r].file => q = r

OneRow ==
    /\ \A d, e \in Docs : rows[d] # None /\ rows[e] # None /\ rows[d].file = rows[e].file
                          => d = e
    /\ \A d \in Docs : rows[d] # None => rows[d].file # seeding.file
    /\ seeding.file # None => seeding.file \in disk

\* Nothing is served before the start is complete.
Starts ==
    /\ proc # "up" => \A r \in Requests : req[r] = None
    /\ proc \in {"seed", "up"} => marked = Migrations
    /\ proc # "seed" => seeding = NothingToSeed
    /\ proc = "seed" => \A s \in Seeds : s \in seeding.todo \/ seeding.icon = s \/ Present(s)

IInv == /\ Typed /\ Starts /\ OneRow /\ OneUpload
        /\ \A r \in Requests : ReqOK(r)
        /\ FoundDocumentsHaveTheirFile /\ OrphansAreExcused

-----------------------------------------------------------------------------
\* None is no row and no request.
LEMMA NoneIsNone ==
    /\ None \notin Doc /\ None \notin Docs /\ None \notin Guids /\ None \notin Seeds
    /\ None \notin UploadReq /\ None \notin DeleteReq /\ Guids \subseteq Docs
    /\ \A g \in Guids : g \notin Seeds
  BY StoreAssumption DEF Docs, UploadReq, DeleteReq, Request

\* Nothing is stored yet.
LEMMA InitOK == Init => IInv
  <1> SUFFICES ASSUME Init PROVE IInv
    OBVIOUS
  <1>1. /\ \A d \in Docs : rows[d] = None
        /\ \A r \in Requests : req[r] = None
        /\ disk = {} /\ seeding = NothingToSeed /\ proc = "down"
    BY DEF Init, Idle
  <1>2. Typed
    BY DEF Init, Typed, Idle, NothingToSeed, SeedState
  <1>3. Starts /\ OneRow /\ OneUpload /\ \A r \in Requests : ReqOK(r)
    BY <1>1 DEF Starts, OneRow, OneUpload, Uploads, ReqOK, NothingToSeed
  <1>4. FoundDocumentsHaveTheirFile /\ OrphansAreExcused
    BY <1>1 DEF FoundDocumentsHaveTheirFile, OrphansAreExcused, Active, Orphans
  <1>5. QED
    BY <1>2, <1>3, <1>4 DEF IInv

\* One request becomes y, and the rows stay; files are added, or only y's is removed.
LEMMA Moves ==
    ASSUME IInv, NEW r \in Requests, NEW y \in UploadReq \cup DeleteReq \cup {None},
           req' = [req EXCEPT ![r] = y], proc = "up",
           UNCHANGED <<rows, proc, seeding, unacked, marked>>,
           disk \subseteq disk', disk' \subseteq Guids, excused \subseteq excused',
           ReqOK(r)',
           y # None /\ y.op = "upload" =>
             \A q \in Requests : q # r /\ Uploads(q) => req[q].file # y.file,
           \A f \in disk' \ disk : y # None /\ y.file = f,
           req[r] # None =>
             \/ y # None /\ (y.file = req[r].file \/ req[r].file \notin disk)
             \/ req[r].file \in excused' \/ req[r].file \notin Orphans'
    PROVE  IInv'
  <1>1. req \in [Requests -> UploadReq \cup DeleteReq \cup {None}]
    BY DEF IInv, Typed
  <1>2. req'[r] = y /\ \A q \in Requests \ {r} : req'[q] = req[q]
    BY <1>1
  <1>3. Typed'
    BY <1>1 DEF IInv, Typed
  <1>4. Starts'
    BY DEF IInv, Starts, Present, Active
  <1>5. OneRow'
    BY DEF IInv, OneRow
  <1>6. OneUpload'
    BY <1>2 DEF IInv, OneUpload, Uploads
  <1>7. ASSUME NEW q \in Requests PROVE ReqOK(q)'
    <2>1. CASE q = r
      BY <2>1
    <2>2. CASE q # r
      BY <1>2, <2>2 DEF IInv, ReqOK, UploadOK, DeleteOK
    <2>3. QED
      BY <2>1, <2>2
  <1>8. FoundDocumentsHaveTheirFile'
    BY DEF IInv, FoundDocumentsHaveTheirFile, Active
  <1>9. OrphansAreExcused'
    <2>1. ASSUME NEW f \in Orphans' \ excused'
          PROVE  seeding'.file = f \/ \E q \in Requests : req'[q] # None /\ req'[q].file = f
      <3>1. CASE f \notin disk
        BY <1>2, <2>1, <3>1 DEF Orphans
      <3>2. CASE f \in disk
        <4>1. f \in Orphans \ excused
          BY <2>1, <3>2 DEF Orphans, Active
        <4>2. CASE seeding.file = f
          BY <4>2
        <4>3. ASSUME NEW q \in Requests, req[q] # None, req[q].file = f
              PROVE  req'[q] # None /\ req'[q].file = f
          BY <1>2, <2>1, <3>2, <4>3
        <4>4. QED
          BY <4>1, <4>2, <4>3 DEF IInv, OrphansAreExcused
      <3>3. QED
        BY <3>1, <3>2
    <2>2. QED
      BY <2>1 DEF OrphansAreExcused
  <1>10. QED
    BY <1>3, <1>4, <1>5, <1>6, <1>7, <1>8, <1>9 DEF IInv

\* A request is served only when the start is complete; what it is then.
LEMMA Serving ==
    ASSUME IInv, NEW r \in Requests, req[r] # None
    PROVE  /\ proc = "up" /\ req[r] \in UploadReq \cup DeleteReq
           /\ req[r].op = "upload" => req[r] \in UploadReq /\ UploadOK(req[r])
           /\ req[r].op = "delete" => req[r] \in DeleteReq /\ DeleteOK(req[r])
  <1>1. req[r] \in UploadReq \cup DeleteReq
    BY DEF IInv, Typed
  <1>2. /\ req[r].op = "upload" => req[r] \in UploadReq
        /\ req[r].op = "delete" => req[r] \in DeleteReq
    BY <1>1 DEF UploadReq, DeleteReq
  <1>3. QED
    BY <1>1, <1>2 DEF IInv, Starts, ReqOK

\* The file is made under a Guid nothing has.
LEMMA UploadKeeps == ASSUME IInv, NEW r \in Requests, Upload(r) PROVE IInv'
  <1>1. PICK g \in Guids, n \in Names :
          /\ proc = "up" /\ req[r] = None /\ New(g)
          /\ disk' = disk \cup {g}
          /\ req' = [req EXCEPT ![r] = [op |-> "upload", doc |-> g, file |-> g, name |-> n,
                                        pc |-> "copy"]]
          /\ UNCHANGED <<rows, schema, marked, proc, seeding, unacked, excused>>
    BY DEF Upload
  <1> DEFINE y == [op |-> "upload", doc |-> g, file |-> g, name |-> n, pc |-> "copy"]
  <1>2. /\ y \in UploadReq /\ y.op = "upload" /\ y.pc = "copy" /\ y.doc = g /\ y.file = g
    BY <1>1 DEF UploadReq
  <1>3. req' = [req EXCEPT ![r] = y] /\ disk' \subseteq Guids
    BY <1>1 DEF IInv, Typed
  <1> HIDE DEF y
  <1>4. req'[r] = y /\ y # None
    BY <1>2, <1>3, NoneIsNone DEF IInv, Typed
  <1>5. ReqOK(r)'
    BY <1>1, <1>2, <1>4 DEF ReqOK, UploadOK, New
  <1>6. \A q \in Requests : q # r /\ Uploads(q) => req[q].file # y.file
    BY <1>1, <1>2 DEF New, Uploads
  <1>7. QED
    BY <1>1, <1>2, <1>3, <1>4, <1>5, <1>6, Moves

\* The bytes are there.
LEMMA CopiedKeeps == ASSUME IInv, NEW r \in Requests, Copied(r) PROVE IInv'
  <1> DEFINE y == [req[r] EXCEPT !.pc = "insert"]
  <1>1. /\ req[r] # None /\ req[r].op = "upload" /\ req[r].pc = "copy"
        /\ req' = [req EXCEPT ![r] = y]
        /\ UNCHANGED <<rows, disk, schema, marked, proc, seeding, unacked, excused>>
    BY DEF Copied, At, Goto
  <1>2. proc = "up" /\ req[r] \in UploadReq /\ UploadOK(req[r])
    BY <1>1, Serving
  <1>3. /\ y \in UploadReq /\ y.op = "upload" /\ y.pc = "insert"
        /\ y.doc = req[r].doc /\ y.file = req[r].file
    BY <1>1, <1>2 DEF UploadReq
  <1> HIDE DEF y
  <1>4. req'[r] = y /\ y # None
    BY <1>1, <1>3, NoneIsNone DEF IInv, Typed
  <1>5. ReqOK(r)'
    BY <1>1, <1>2, <1>3, <1>4 DEF ReqOK, UploadOK
  <1>6. \A q \in Requests : q # r /\ Uploads(q) => req[q].file # y.file
    BY <1>1, <1>3 DEF IInv, OneUpload, Uploads
  <1>7. disk' \subseteq Guids
    BY <1>1 DEF IInv, Typed
  <1>8. QED
    BY <1>1, <1>2, <1>3, <1>4, <1>5, <1>6, <1>7, Moves

\* The request is answered and its file, if it stays, is excused.
LEMMA LeavesKeeps ==
    ASSUME IInv, NEW r \in Requests, req[r] # None, Answer(r),
           UNCHANGED <<rows, disk, proc, marked, seeding, unacked>>,
           excused \subseteq excused',
           req[r].file \in excused' \/ req[r].file = None
    PROVE  IInv'
  <1>1. req' = [req EXCEPT ![r] = None] /\ req'[r] = None
    BY DEF Answer, IInv, Typed
  <1>2. proc = "up" /\ disk' \subseteq Guids /\ None \notin disk'
    BY Serving, NoneIsNone DEF IInv, Typed
  <1>3. ReqOK(r)'
    BY <1>1 DEF ReqOK
  <1>4. req[r].file \in excused' \/ req[r].file \notin Orphans'
    BY <1>2 DEF Orphans
  <1> DEFINE y == None
  <1>5. y \in UploadReq \cup DeleteReq \cup {None} /\ y = None /\ req' = [req EXCEPT ![r] = y]
    BY <1>1
  <1> HIDE DEF y
  <1>6. QED
    BY <1>2, <1>3, <1>4, <1>5, Moves

\* A deletion begins with the row somebody saw.
LEMMA DeleteKeeps == ASSUME IInv, NEW r \in Requests, Delete(r) PROVE IInv'
  <1>1. PICK d \in Docs :
          /\ proc = "up" /\ req[r] = None
          /\ req' = [req EXCEPT ![r] = [op |-> "delete", doc |-> d, file |-> None,
                                        pc |-> "find"]]
          /\ UNCHANGED <<rows, disk, schema, marked, proc, seeding, unacked, excused>>
    BY DEF Delete
  <1> DEFINE y == [op |-> "delete", doc |-> d, file |-> None, pc |-> "find"]
  <1>2. y \in DeleteReq /\ y.op = "delete" /\ y.pc = "find" /\ y.file = None
    BY <1>1 DEF DeleteReq
  <1>3. req' = [req EXCEPT ![r] = y] /\ disk' \subseteq Guids
    BY <1>1 DEF IInv, Typed
  <1> HIDE DEF y
  <1>4. req'[r] = y
    BY <1>3 DEF IInv, Typed
  <1>5. ReqOK(r)'
    BY <1>2, <1>4 DEF ReqOK, DeleteOK
  <1>6. QED
    BY <1>1, <1>2, <1>3, <1>5, Moves

\* The row is found, or the deletion is over.
LEMMA FindKeeps == ASSUME IInv, NEW r \in Requests, Find(r) PROVE IInv'
  <1>1. /\ req[r] # None /\ req[r].op = "delete" /\ req[r].pc = "find"
        /\ UNCHANGED <<rows, disk, schema, marked, proc, seeding, unacked, excused>>
    BY DEF Find, At
  <1>2. proc = "up" /\ req[r] \in DeleteReq /\ req[r].file = None /\ req[r].doc \in Docs
    BY <1>1, Serving DEF DeleteOK, DeleteReq
  <1>3. CASE ~Active(req[r].doc)
    BY <1>1, <1>2, <1>3, LeavesKeeps DEF Find, Answer
  <1>4. CASE Active(req[r].doc)
    <2> DEFINE file == rows[req[r].doc].file
               y == [req[r] EXCEPT !.file = file, !.pc = "deactivate"]
    <2>1. rows[req[r].doc] # None /\ file \in Guids
      BY <1>2, <1>4 DEF Active, IInv, Typed, Doc
    <2>2. /\ y \in DeleteReq /\ y.op = "delete" /\ y.pc = "deactivate"
          /\ y.doc = req[r].doc /\ y.file = file
      BY <1>1, <1>2, <2>1 DEF DeleteReq
    <2>3. req' = [req EXCEPT ![r] = y]
      BY <1>4 DEF Find
    <2> HIDE DEF y
    <2>4. req'[r] = y /\ y # None
      BY <2>2, <2>3, NoneIsNone DEF IInv, Typed
    <2>5. ReqOK(r)'
      BY <1>1, <2>1, <2>2, <2>4 DEF ReqOK, DeleteOK
    <2>6. disk' \subseteq Guids /\ None \notin disk
      BY <1>1, NoneIsNone DEF IInv, Typed
    <2>7. QED
      BY <1>1, <1>2, <2>2, <2>3, <2>4, <2>5, <2>6, Moves
  <1>5. QED
    BY <1>3, <1>4

-----------------------------------------------------------------------------
\* The INSERT, acknowledged (y is None) or not (y goes on to undo it).
LEMMA AddsRow ==
    ASSUME IInv, NEW r \in Requests, At(r, "upload", "insert"), rows' = Added(r),
           NEW y \in UploadReq \cup {None}, req' = [req EXCEPT ![r] = y],
           y # None => /\ y.pc = "undo" /\ y.doc = req[r].doc /\ y.file = req[r].file
                       /\ req[r].doc \in unacked',
           unacked \subseteq unacked', UNCHANGED <<disk, proc, marked, seeding, excused>>
    PROVE  IInv'
  <1> DEFINE g == req[r].doc
             row == [file |-> g, active |-> TRUE, name |-> req[r].name]
  <1>1. /\ req[r] # None /\ req[r].op = "upload" /\ req[r].pc = "insert"
        /\ proc = "up" /\ req[r] \in UploadReq /\ UploadOK(req[r])
    BY Serving DEF At
  <1>2. /\ g \in Guids /\ g \in Docs /\ g = req[r].file /\ g \in disk /\ rows[g] = None
        /\ g # seeding.file /\ Uploads(r)
        /\ \A d \in Docs : rows[d] # None => rows[d].file # g
    BY <1>1, NoneIsNone DEF UploadOK, UploadReq, Uploads
  <1>3. row \in Doc
    BY <1>1, <1>2 DEF Doc, UploadReq
  <1>4. row # None /\ row.file = g /\ row.active = TRUE
    BY <1>3, NoneIsNone
  <1>5. rows' = [rows EXCEPT ![g] = row]
    BY <1>2 DEF Added
  <1> HIDE DEF g, row
  <1>6. /\ rows' \in [Docs -> Doc \cup {None}]
        /\ rows'[g] = row /\ \A d \in Docs \ {g} : rows'[d] = rows[d]
    BY <1>2, <1>3, <1>5 DEF IInv, Typed
  <1>7. req'[r] = y /\ \A q \in Requests \ {r} : req'[q] = req[q]
    BY DEF IInv, Typed
  <1>8. Typed'
    BY <1>6 DEF IInv, Typed
  <1>9. Starts'
    BY <1>1 DEF IInv, Starts
  <1>10. OneRow'
    BY <1>2, <1>4, <1>6 DEF IInv, OneRow
  <1>11. OneUpload'
    BY <1>2, <1>7 DEF IInv, OneUpload, Uploads, g
  <1>12. ReqOK(r)'
    <2>1. CASE y = None
      BY <1>7, <2>1 DEF ReqOK
    <2>2. CASE y # None
      <3>1. y.op = "upload" /\ y.doc = g /\ y.file = g /\ y.pc = "undo" /\ g \in unacked'
        BY <1>2, <2>2 DEF UploadReq, g
      <3>2. \A d \in Docs : rows'[d] # None /\ rows'[d].file = g => d = g
        BY <1>2, <1>6
      <3>3. QED
        BY <1>2, <1>7, <3>1, <3>2 DEF ReqOK, UploadOK
    <2>3. QED
      BY <2>1, <2>2
  <1>13. ASSUME NEW q \in Requests \ {r} PROVE ReqOK(q)'
    <2>1. CASE req[q] # None /\ req[q].op = "upload"
      <3>1. UploadOK(req[q]) /\ req[q].doc \in Docs
        BY <2>1, Serving, NoneIsNone DEF UploadReq
      <3>2. req[q].file # g
        BY <1>2, <2>1 DEF IInv, OneUpload, Uploads
      <3>3. req[q].doc # g
        BY <3>1, <3>2 DEF UploadOK
      <3>4. UploadOK(req[q])'
        BY <1>4, <1>6, <1>7, <3>1, <3>2, <3>3 DEF UploadOK
      <3>5. QED
        BY <1>7, <2>1, <3>4 DEF ReqOK
    <2>2. CASE req[q] # None /\ req[q].op = "delete"
      <3>1. DeleteOK(req[q]) /\ req[q].doc \in Docs /\ req[q] \in DeleteReq
        BY <2>2, Serving DEF DeleteReq
      <3>2. req[q].pc # "find" => req[q].doc # g
        BY <1>2, <3>1 DEF DeleteOK
      <3>3. DeleteOK(req[q])'
        BY <1>6, <1>7, <3>1, <3>2 DEF DeleteOK
      <3>4. QED
        BY <1>7, <2>2, <3>3 DEF ReqOK
    <2>3. CASE req[q] = None
      BY <1>7, <2>3 DEF ReqOK
    <2>4. QED
      BY <1>7, <2>1, <2>2, <2>3 DEF ReqOK
  <1>14. FoundDocumentsHaveTheirFile'
    BY <1>2, <1>4, <1>6 DEF IInv, FoundDocumentsHaveTheirFile, Active
  <1>15. OrphansAreExcused'
    <2>1. ASSUME NEW f \in Orphans' \ excused'
          PROVE  seeding'.file = f \/ \E q \in Requests : req'[q] # None /\ req'[q].file = f
      <3>1. f # g
        BY <1>2, <1>4, <1>6, <2>1 DEF Orphans, Active
      <3>2. f \in Orphans \ excused
        BY <1>2, <1>6, <2>1 DEF Orphans, Active
      <3>3. QED
        BY <1>2, <1>7, <3>1, <3>2 DEF IInv, OrphansAreExcused
    <2>2. QED
      BY <2>1 DEF OrphansAreExcused
  <1>16. QED
    BY <1>8, <1>9, <1>10, <1>11, <1>12, <1>13, <1>14, <1>15 DEF IInv

\* The file of the request goes, and so does the request.
LEMMA Removes ==
    ASSUME IInv, NEW r \in Requests, req[r] # None, Answer(r),
           NEW f, f = req[r].file, disk' = disk \ {f}, f # seeding.file,
           \A d \in Docs : Active(d) /\ rows[d].file = f => d \in unacked,
           \A q \in Requests : q # r /\ Uploads(q) /\ req[q].pc # "undo" => req[q].file # f,
           UNCHANGED <<rows, proc, marked, seeding, unacked, excused>>
    PROVE  IInv'
  <1>1. req'[r] = None /\ \A q \in Requests \ {r} : req'[q] = req[q]
    BY DEF Answer, IInv, Typed
  <1>2. Typed'
    BY DEF Answer, IInv, Typed
  <1>3. Starts'
    BY <1>1, Serving DEF IInv, Starts
  <1>4. OneRow' /\ OneUpload'
    BY <1>1 DEF IInv, OneRow, OneUpload, Uploads
  <1>5. ASSUME NEW q \in Requests PROVE ReqOK(q)'
    <2>1. CASE q # r /\ req[q] # None
      <3>1. req[q].op = "upload" => UploadOK(req[q])'
        BY <1>1, <2>1 DEF IInv, ReqOK, UploadOK, Uploads
      <3>2. req[q].op = "delete" => DeleteOK(req[q])'
        BY <1>1, <2>1 DEF IInv, ReqOK, DeleteOK
      <3>3. QED
        BY <1>1, <2>1, <3>1, <3>2 DEF ReqOK
    <2>2. CASE req'[q] = None
      BY <2>2 DEF ReqOK
    <2>3. QED
      BY <1>1, <2>1, <2>2
  <1>6. FoundDocumentsHaveTheirFile'
    BY DEF IInv, FoundDocumentsHaveTheirFile, Active
  <1>7. OrphansAreExcused'
    <2>1. \A h \in Orphans' : h \in Orphans /\ h # f
      BY DEF Orphans, Active
    <2>2. QED
      BY <1>1, <2>1 DEF IInv, OrphansAreExcused
  <1>8. QED
    BY <1>2, <1>3, <1>4, <1>5, <1>6, <1>7 DEF IInv

\* The upload takes its file back: its row, if there is one, was not acknowledged.
LEMMA UndoKeeps == ASSUME IInv, NEW r \in Requests, Undo(r) PROVE IInv'
  <1>1. req[r] # None /\ req[r].op = "upload" /\ req[r].pc = "undo"
    BY DEF Undo, At
  <1>2. UploadOK(req[r])
    BY <1>1, Serving
  <1>3. \A q \in Requests : q # r /\ Uploads(q) => req[q].file # req[r].file
    BY <1>1 DEF IInv, OneUpload, Uploads
  <1>4. QED
    BY <1>1, <1>2, <1>3, Removes DEF Undo, UploadOK, Active

\* The deletion removes the file of a row that is inactive by now.
LEMMA UnlinkKeeps == ASSUME IInv, NEW r \in Requests, Unlink(r) PROVE IInv'
  <1> DEFINE d == req[r].doc
             f == req[r].file
  <1>1. req[r] # None /\ req[r].op = "delete" /\ req[r].pc = "unlink"
    BY DEF Unlink, At
  <1>2. d \in Docs /\ rows[d] # None /\ rows[d].file = f /\ ~rows[d].active
    BY <1>1, Serving DEF DeleteOK, DeleteReq
  <1>3. f # seeding.file /\ \A e \in Docs : ~(Active(e) /\ rows[e].file = f)
    BY <1>2 DEF IInv, OneRow, Active
  <1>4. ASSUME NEW q \in Requests, Uploads(q), req[q].pc # "undo"
        PROVE  req[q].file # f
    BY <1>2, <1>4 DEF IInv, ReqOK, Uploads, UploadOK
  <1>5. QED
    BY <1>1, <1>3, <1>4, Removes DEF Unlink

\* Active = FALSE: the request goes on to the file, or leaves it as an excuse.
LEMMA DropsRow ==
    ASSUME IInv, NEW r \in Requests, At(r, "delete", "deactivate"),
           rows' = Deactivated(req[r].doc),
           NEW y \in DeleteReq \cup {None}, req' = [req EXCEPT ![r] = y],
           y # None => y.pc = "unlink" /\ y.doc = req[r].doc /\ y.file = req[r].file,
           y = None => req[r].file \in excused',
           excused \subseteq excused', UNCHANGED <<disk, proc, marked, seeding, unacked>>
    PROVE  IInv'
  <1> DEFINE d == req[r].doc
             row == [rows[d] EXCEPT !.active = FALSE]
  <1>1. /\ req[r] # None /\ proc = "up" /\ req[r] \in DeleteReq
        /\ d \in Docs /\ rows[d] # None /\ rows[d].file = req[r].file
    BY Serving DEF At, DeleteOK, DeleteReq
  <1>2. rows[d] \in Doc
    BY <1>1 DEF IInv, Typed
  <1>3. row \in Doc /\ row.file = req[r].file /\ row.active = FALSE
    BY <1>1, <1>2 DEF Doc
  <1>4. row # None
    BY <1>3, NoneIsNone
  <1>5. rows' = [rows EXCEPT ![d] = row]
    BY DEF Deactivated
  <1> HIDE DEF d, row
  <1>6. /\ rows' \in [Docs -> Doc \cup {None}]
        /\ rows'[d] = row /\ \A e \in Docs \ {d} : rows'[e] = rows[e]
    BY <1>1, <1>3, <1>5 DEF IInv, Typed
  <1>7. /\ \A e \in Docs : /\ rows'[e] # None <=> rows[e] # None
                           /\ rows[e] # None => rows'[e].file = rows[e].file
        /\ \A e \in Docs : Active(e)' <=> Active(e) /\ e # d
    BY <1>1, <1>3, <1>4, <1>6 DEF Active
  <1>8. req'[r] = y /\ \A q \in Requests \ {r} : req'[q] = req[q]
    BY DEF IInv, Typed
  <1>9. Typed'
    BY <1>6 DEF IInv, Typed
  <1>10. Starts'
    BY <1>1 DEF IInv, Starts
  <1>11. OneRow'
    BY <1>7 DEF IInv, OneRow
  <1>12. y # None => y.op = "delete"
    BY DEF DeleteReq
  <1>13. OneUpload'
    BY <1>8, <1>12 DEF IInv, OneUpload, Uploads
  <1>14. ReqOK(r)'
    <2>1. CASE y = None
      BY <1>8, <2>1 DEF ReqOK
    <2>2. CASE y # None
      <3>1. y.doc = d /\ y.file = req[r].file /\ y.pc = "unlink"
        BY <2>2 DEF d
      <3>2. DeleteOK(y)'
        BY <1>3, <1>4, <1>6, <3>1 DEF DeleteOK
      <3>3. QED
        BY <1>8, <1>12, <2>2, <3>2 DEF ReqOK
    <2>3. QED
      BY <2>1, <2>2
  <1>15. ASSUME NEW q \in Requests \ {r} PROVE ReqOK(q)'
    <2>1. CASE req[q] # None /\ req[q].op = "upload"
      <3>1. UploadOK(req[q]) /\ req[q].doc \in Docs
        BY <2>1, Serving, NoneIsNone DEF UploadReq
      <3>2. UploadOK(req[q])'
        BY <1>7, <1>8, <3>1 DEF UploadOK
      <3>3. QED
        BY <1>8, <2>1, <3>2 DEF ReqOK
    <2>2. CASE req[q] # None /\ req[q].op = "delete"
      <3>1. DeleteOK(req[q]) /\ req[q].doc \in Docs
        BY <2>2, Serving DEF DeleteReq
      <3>2. DeleteOK(req[q])'
        BY <1>3, <1>6, <1>7, <1>8, <3>1 DEF DeleteOK
      <3>3. QED
        BY <1>8, <2>2, <3>2 DEF ReqOK
    <2>3. CASE req[q] = None
      BY <1>8, <2>3 DEF ReqOK
    <2>4. QED
      BY <1>8, <2>1, <2>2, <2>3 DEF ReqOK
  <1>16. FoundDocumentsHaveTheirFile'
    BY <1>7 DEF IInv, FoundDocumentsHaveTheirFile, Active
  <1>17. OrphansAreExcused'
    <2>1. ASSUME NEW f \in Orphans' \ excused'
          PROVE  seeding'.file = f \/ \E q \in Requests : req'[q] # None /\ req'[q].file = f
      <3>1. CASE f = req[r].file
        BY <1>8, <2>1, <3>1
      <3>2. CASE f # req[r].file
        <4>1. f \in Orphans \ excused
          BY <1>1, <1>7, <2>1, <3>2 DEF Orphans, Active
        <4>2. QED
          BY <1>8, <3>2, <4>1 DEF IInv, OrphansAreExcused
      <3>3. QED
        BY <3>1, <3>2
    <2>2. QED
      BY <2>1 DEF OrphansAreExcused
  <1>18. QED
    BY <1>9, <1>10, <1>11, <1>13, <1>14, <1>15, <1>16, <1>17 DEF IInv

\* Each step of a request.
LEMMA ServeKeeps == ASSUME IInv, NEW r \in Requests, Serve(r) PROVE IInv'
  <1>1. ASSUME req[r] # None, req[r].op = "upload", req[r].pc = "insert",
               NEW y, y = [req[r] EXCEPT !.pc = "undo"]
        PROVE  /\ y \in UploadReq /\ y # None /\ y.op = "upload" /\ y.pc = "undo"
               /\ y.doc = req[r].doc /\ y.file = req[r].file
    <2>1. req[r] \in UploadReq
      BY <1>1, Serving
    <2>2. QED
      BY <1>1, <2>1, NoneIsNone DEF UploadReq
  <1>2. CASE Insert(r)
    <2> DEFINE y == None
    <2>1. /\ y \in UploadReq \cup {None} /\ y = None /\ req' = [req EXCEPT ![r] = y]
          /\ At(r, "upload", "insert") /\ rows' = Added(r)
          /\ UNCHANGED <<disk, proc, marked, seeding, unacked, excused>>
      BY <1>2 DEF Insert, Answer
    <2> HIDE DEF y
    <2>2. QED
      BY <2>1, AddsRow
  <1>3. CASE InsertFails(r)
    <2> DEFINE y == [req[r] EXCEPT !.pc = "undo"]
    <2>1. /\ At(r, "upload", "insert") /\ req' = [req EXCEPT ![r] = y]
          /\ \/ UNCHANGED <<rows, unacked>>
             \/ rows' = Added(r) /\ unacked' = unacked \cup {req[r].doc}
          /\ UNCHANGED <<disk, proc, marked, seeding, excused>>
      BY <1>3 DEF InsertFails, Goto
    <2>2. /\ y \in UploadReq /\ y # None /\ y.op = "upload" /\ y.pc = "undo"
          /\ y.doc = req[r].doc /\ y.file = req[r].file
      BY <1>1, <2>1 DEF At
    <2> HIDE DEF y
    <2>3. CASE rows' = Added(r) /\ unacked' = unacked \cup {req[r].doc}
      BY <2>1, <2>2, <2>3, AddsRow
    <2>4. CASE UNCHANGED <<rows, unacked>>
      <3>1. req'[r] = y
        BY <2>1 DEF IInv, Typed
      <3>2. proc = "up" /\ req[r] # None /\ req[r].pc = "insert" /\ UploadOK(req[r])
        BY <2>1, Serving DEF At
      <3>3. ReqOK(r)'
        BY <2>1, <2>2, <2>4, <3>1, <3>2 DEF ReqOK, UploadOK
      <3>4. \A q \in Requests : q # r /\ Uploads(q) => req[q].file # y.file
        BY <2>1, <2>2 DEF IInv, OneUpload, Uploads, At
      <3>5. disk' \subseteq Guids
        BY <2>1 DEF IInv, Typed
      <3>6. QED
        BY <2>1, <2>2, <2>4, <3>2, <3>3, <3>4, <3>5, Moves
    <2>5. QED
      BY <2>1, <2>3, <2>4
  <1>4. CASE Deactivate(r)
    <2> DEFINE y == [req[r] EXCEPT !.pc = "unlink"]
    <2>1. /\ At(r, "delete", "deactivate") /\ req' = [req EXCEPT ![r] = y]
          /\ rows' = Deactivated(req[r].doc)
          /\ UNCHANGED <<disk, proc, marked, seeding, unacked, excused>>
      BY <1>4 DEF Deactivate, Goto
    <2>2. req[r] \in DeleteReq
      BY <2>1, Serving DEF At
    <2>3. y \in DeleteReq /\ y.pc = "unlink" /\ y.doc = req[r].doc /\ y.file = req[r].file
      BY <2>2 DEF DeleteReq
    <2>4. y # None
      BY <2>3, NoneIsNone
    <2> HIDE DEF y
    <2>5. QED
      BY <2>1, <2>3, <2>4, DropsRow
  <1>5. CASE DeactivateFails(r)
    <2> DEFINE y == None
    <2>1. /\ y \in DeleteReq \cup {None} /\ y = None /\ req' = [req EXCEPT ![r] = y]
          /\ At(r, "delete", "deactivate") /\ rows' \in {rows, Deactivated(req[r].doc)}
          /\ excused' = excused \cup {req[r].file}
          /\ UNCHANGED <<disk, proc, marked, seeding, unacked>>
      BY <1>5 DEF DeactivateFails, Answer
    <2> HIDE DEF y
    <2>2. CASE rows' = Deactivated(req[r].doc)
      BY <2>1, <2>2, DropsRow
    <2>3. CASE rows' = rows
      BY <1>5, <2>1, <2>3, LeavesKeeps DEF DeactivateFails, At
    <2>4. QED
      BY <2>1, <2>2, <2>3
  <1>6. CASE CopyFails(r)
    BY <1>6, LeavesKeeps DEF CopyFails, At
  <1>7. CASE UnlinkFails(r)
    BY <1>7, LeavesKeeps DEF UnlinkFails, At
  <1>8. QED
    BY <1>2, <1>3, <1>4, <1>5, <1>6, <1>7, UploadKeeps, CopiedKeeps, UndoKeeps, DeleteKeeps,
       FindKeeps, UnlinkKeeps DEF Serve

-----------------------------------------------------------------------------
\* The start goes on and stores nothing.
LEMMA StartGoes ==
    ASSUME IInv, proc # "up", UNCHANGED <<rows, disk, req, unacked, excused>>,
           seeding' \in SeedState, seeding'.file = seeding.file,
           seeding'.icon # None <=> seeding'.file # None, Starts'
    PROVE  IInv'
  <1>1. Typed'
    BY DEF IInv, Typed
  <1>2. OneRow' /\ OneUpload'
    BY DEF IInv, OneRow, OneUpload, Uploads
  <1>3. \A r \in Requests : req'[r] = None
    BY DEF IInv, Starts
  <1>4. \A r \in Requests : ReqOK(r)'
    BY <1>3 DEF ReqOK
  <1>5. FoundDocumentsHaveTheirFile' /\ OrphansAreExcused'
    BY DEF IInv, FoundDocumentsHaveTheirFile, OrphansAreExcused, Orphans, Active
  <1>6. QED
    BY <1>1, <1>2, <1>4, <1>5 DEF IInv

\* The migrations, and the icons that are there.
LEMMA StartKeeps ==
    ASSUME IInv, \/ Start \/ Execute \/ MarkAsExecuted \/ Migrated \/ Seeded
                 \/ \E s \in Seeds : SkipSeed(s)
    PROVE  IInv'
  <1>1. Starts /\ seeding \in SeedState
    BY DEF IInv, Typed
  <1>2. CASE Start \/ Execute \/ MarkAsExecuted
    <2>1. proc # "up" /\ proc # "seed" /\ proc' \notin {"seed", "up"}
          /\ UNCHANGED <<rows, disk, req, seeding, unacked, excused>>
      BY <1>2 DEF Start, Execute, MarkAsExecuted
    <2>2. Starts'
      BY <1>1, <2>1 DEF Starts
    <2>3. QED
      BY <1>1, <2>1, <2>2, StartGoes DEF IInv, Typed
  <1>3. CASE Migrated
    <2>1. seeding = NothingToSeed
      BY <1>1, <1>3 DEF Migrated, Starts
    <2>2. /\ seeding' = [todo |-> Seeds, icon |-> None, file |-> None]
          /\ proc = "execute" /\ proc' = "seed" /\ marked = Migrations
          /\ UNCHANGED <<rows, disk, req, unacked, excused, marked>>
      BY <1>3 DEF Migrated, NothingToSeed
    <2>3. seeding' \in SeedState /\ seeding'.icon = None
          /\ seeding'.file = None /\ seeding'.file = seeding.file
      BY <2>1, <2>2 DEF SeedState, NothingToSeed
    <2>4. Starts'
      BY <1>1, <2>2 DEF Starts
    <2>5. QED
      BY <2>2, <2>3, <2>4, StartGoes
  <1>4. CASE Seeded
    <2>1. Starts'
      BY <1>1, <1>4 DEF Seeded, Starts
    <2>2. QED
      BY <1>1, <1>4, <2>1, StartGoes DEF Seeded, IInv, Typed
  <1>5. ASSUME NEW s \in Seeds, SkipSeed(s) PROVE IInv'
    <2> DEFINE y == [seeding EXCEPT !.todo = seeding.todo \ {s}]
    <2>1. /\ seeding' = y /\ proc = "seed" /\ Present(s)
          /\ UNCHANGED <<rows, disk, req, marked, proc, unacked, excused>>
      BY <1>5 DEF SkipSeed
    <2>2. y \in SeedState /\ y.todo = seeding.todo \ {s} /\ y.icon = seeding.icon
          /\ y.file = seeding.file
      BY <1>1 DEF SeedState
    <2> HIDE DEF y
    <2>3. \A t \in Seeds : Present(t)' <=> Present(t)
      BY <2>1 DEF Present, Active
    <2>4. Starts'
      BY <1>1, <2>1, <2>2, <2>3 DEF Starts
    <2>5. QED
      BY <2>1, <2>2, <2>4, StartGoes DEF IInv, Typed
  <1>6. QED
    BY <1>2, <1>3, <1>4, <1>5

\* The icon's file comes first.
LEMMA SeedFileKeeps == ASSUME IInv, NEW s \in Seeds, SeedFile(s) PROVE IInv'
  <1>1. PICK f \in Guids :
          /\ proc = "seed" /\ seeding.icon = None /\ s \in seeding.todo /\ New(f)
          /\ disk' = disk \cup {f}
          /\ seeding' = [todo |-> seeding.todo \ {s}, icon |-> s, file |-> f]
          /\ UNCHANGED <<rows, schema, marked, proc, req, unacked, excused>>
    BY DEF SeedFile
  <1>2. /\ Starts /\ seeding \in SeedState /\ \A r \in Requests : req[r] = None
    BY <1>1 DEF IInv, Typed, Starts
  <1>3. /\ seeding' \in SeedState /\ seeding'.icon = s /\ seeding'.file = f
        /\ seeding'.todo = seeding.todo \ {s}
    BY <1>1, <1>2 DEF SeedState
  <1>4. Typed'
    BY <1>1, <1>3, NoneIsNone DEF IInv, Typed
  <1>5. \A t \in Seeds : Present(t)' <=> Present(t)
    BY <1>1 DEF Present, Active
  <1>6. Starts'
    BY <1>1, <1>2, <1>3, <1>5, NoneIsNone DEF Starts
  <1>7. OneRow' /\ OneUpload'
    BY <1>1, <1>2, <1>3 DEF IInv, OneRow, OneUpload, Uploads, New
  <1>8. \A r \in Requests : ReqOK(r)'
    BY <1>1, <1>2 DEF ReqOK
  <1>9. FoundDocumentsHaveTheirFile'
    BY <1>1 DEF IInv, FoundDocumentsHaveTheirFile, Active
  <1>10. OrphansAreExcused'
    <2>1. seeding.file \in {None} \cup Guids
      BY <1>2 DEF SeedState
    <2>2. ASSUME NEW h \in Orphans' \ excused' PROVE h = f
      <3>1. h # f => h \in Orphans \ excused
        BY <1>1, <2>2 DEF Orphans, Active
      <3>2. h # f => h = seeding.file
        BY <1>2, <3>1 DEF IInv, OrphansAreExcused
      <3>3. QED
        BY <1>1, <3>1, <3>2, NoneIsNone DEF Orphans, IInv, Typed
    <2>3. QED
      BY <1>3, <2>2 DEF OrphansAreExcused
  <1>11. QED
    BY <1>4, <1>6, <1>7, <1>8, <1>9, <1>10 DEF IInv

\* Then its row, under an id that no row has.
LEMMA SeedRowKeeps ==
    ASSUME IInv, NEW s \in Seeds, SeedRow(s)
    PROVE  IInv' /\ Present(s)'
                 /\ \A t \in Seeds \ {s} : /\ Present(t)' <=> Present(t)
                                           /\ rows'[t] = rows[t]
  <1> DEFINE row == [file |-> seeding.file, active |-> TRUE, name |-> s]
             y == [seeding EXCEPT !.icon = None, !.file = None]
  <1>1. /\ proc = "seed" /\ seeding.icon = s /\ rows[s] = None /\ rows' = [rows EXCEPT ![s] = row]
        /\ seeding' = y
        /\ UNCHANGED <<disk, schema, marked, proc, req, unacked, excused>>
    BY DEF SeedRow
  <1>2. /\ Starts /\ seeding \in SeedState /\ rows \in [Docs -> Doc \cup {None}] /\ s \in Docs
        /\ \A r \in Requests : req[r] = None
    BY <1>1 DEF IInv, Typed, Starts, Docs
  <1>3. seeding.file \in Guids /\ seeding.file # None /\ seeding.file \in disk
    BY <1>1, <1>2, NoneIsNone DEF SeedState, IInv, Typed, OneRow
  <1>4. row \in Doc /\ row.file = seeding.file /\ row.active = TRUE /\ row.name = s
    BY <1>3 DEF Doc, Names
  <1>5. y \in SeedState /\ y.todo = seeding.todo /\ y.icon = None /\ y.file = None
    BY <1>2 DEF SeedState
  <1> HIDE DEF row, y
  <1>6. row # None
    BY <1>4, NoneIsNone
  <1>7. /\ rows' \in [Docs -> Doc \cup {None}] /\ rows'[s] = row
        /\ \A d \in Docs \ {s} : rows'[d] = rows[d]
    BY <1>1, <1>2, <1>4
  <1>8. Typed'
    BY <1>1, <1>5, <1>7 DEF IInv, Typed
  <1>9. Active(s)' /\ \A d \in Docs \ {s} : Active(d)' <=> Active(d)
    BY <1>4, <1>6, <1>7 DEF Active
  <1>10. Present(s)'
    BY <1>2, <1>4, <1>7, <1>9 DEF Present
  <1>11. ~Active(s)
    BY <1>1 DEF Active
  <1>12. ASSUME NEW t \in Seeds \ {s}
         PROVE  (Present(t)' <=> Present(t)) /\ rows'[t] = rows[t]
    <2>1. rows'[t] = rows[t]
      BY <1>7 DEF Docs
    <2>2. Present(t)' => Present(t)
      BY <1>4, <1>7, <1>9 DEF Present
    <2>3. Present(t) => Present(t)'
      BY <1>7, <1>9, <1>11 DEF Present
    <2>4. QED
      BY <2>1, <2>2, <2>3
  <1>13. Starts'
    BY <1>1, <1>2, <1>5, <1>10, <1>12 DEF Starts
  <1>14. OneRow'
    <2>1. ASSUME NEW d \in Docs, NEW e \in Docs, rows'[d] # None, rows'[e] # None,
                 rows'[d].file = rows'[e].file
          PROVE  d = e
      BY <1>3, <1>4, <1>7, <2>1 DEF IInv, OneRow
    <2>2. \A d \in Docs : rows'[d] # None => rows'[d] \in Doc /\ rows'[d].file \in Guids
      BY <1>7 DEF Doc
    <2>3. \A d \in Docs : rows'[d] # None => rows'[d].file # seeding'.file
      BY <1>1, <1>5, <2>2, NoneIsNone
    <2>4. QED
      BY <1>1, <1>5, <2>1, <2>3 DEF OneRow
  <1>15. OneUpload' /\ \A r \in Requests : ReqOK(r)'
    BY <1>1, <1>2 DEF OneUpload, Uploads, ReqOK
  <1>16. FoundDocumentsHaveTheirFile'
    BY <1>1, <1>3, <1>4, <1>7, <1>9 DEF IInv, FoundDocumentsHaveTheirFile
  <1>17. OrphansAreExcused'
    <2>1. ASSUME NEW f \in Orphans' \ excused' PROVE FALSE
      <3>1. f # seeding.file
        BY <1>2, <1>4, <1>7, <1>9, <2>1 DEF Orphans
      <3>2. f \in Orphans \ excused
        BY <1>1, <1>7, <1>9, <1>11, <2>1 DEF Orphans
      <3>3. QED
        BY <1>2, <3>1, <3>2 DEF IInv, OrphansAreExcused
    <2>2. QED
      BY <2>1 DEF OrphansAreExcused
  <1>18. IInv'
    BY <1>8, <1>13, <1>14, <1>15, <1>16, <1>17 DEF IInv
  <1>19. QED
    BY <1>10, <1>12, <1>18

\* The process forgets its requests; what they leave is excused.
LEMMA DownKeeps == ASSUME IInv, Down PROVE IInv'
  <1>1. /\ proc' = "down" /\ req' = [r \in Requests |-> None]
        /\ seeding' = [todo |-> {}, icon |-> None, file |-> None]
        /\ excused' = excused \cup Orphans
        /\ UNCHANGED <<rows, disk, schema, marked, unacked>>
    BY DEF Down, Idle, NothingToSeed
  <1>2. seeding' \in SeedState /\ seeding'.icon = None /\ seeding'.file = None
        /\ seeding' = NothingToSeed
    BY <1>1 DEF SeedState, NothingToSeed
  <1>3. Typed' /\ Starts'
    BY <1>1, <1>2 DEF IInv, Typed, Starts
  <1>4. \A d \in Docs : rows[d] # None => rows[d].file # None
    BY NoneIsNone DEF IInv, Typed, Doc
  <1>5. OneRow' /\ OneUpload' /\ \A r \in Requests : ReqOK(r)'
    BY <1>1, <1>2, <1>4 DEF IInv, OneRow, OneUpload, Uploads, ReqOK
  <1>6. FoundDocumentsHaveTheirFile' /\ OrphansAreExcused'
    BY <1>1 DEF IInv, FoundDocumentsHaveTheirFile, OrphansAreExcused, Orphans, Active
  <1>7. QED
    BY <1>3, <1>5, <1>6 DEF IInv

\* The invariant is inductive.
LEMMA NextOK == IInv /\ [Next]_vars => IInv'
  <1> SUFFICES ASSUME IInv, [Next]_vars PROVE IInv'
    OBVIOUS
  <1>1. CASE Next
    BY <1>1, StartKeeps, SeedFileKeeps, SeedRowKeeps, DownKeeps, ServeKeeps
       DEF Next, StartFails, Crash
  <1>2. CASE UNCHANGED vars
    BY <1>2 DEF vars, IInv, Typed, Starts, OneRow, OneUpload, Uploads, ReqOK, UploadOK, DeleteOK,
       FoundDocumentsHaveTheirFile, OrphansAreExcused, Orphans, Present, Active
  <1>3. QED
    BY <1>1, <1>2

\* The invariant always holds.
LEMMA Invariance == Spec => []IInv
  <1>1. Init => IInv
    BY InitOK
  <1>2. IInv /\ [Next]_vars => IInv'
    BY NextOK
  <1>3. QED
    BY <1>1, <1>2, PTL DEF Spec

\* Whatever crashes, fails or is deleted at the same time, a document that can be
\* found has its file, unless its INSERT was committed without an acknowledgement.
THEOREM DocumentsHaveFiles == Spec => []FoundDocumentsHaveTheirFile
  <1>1. IInv => FoundDocumentsHaveTheirFile
    BY DEF IInv
  <1>2. QED
    BY <1>1, Invariance, PTL

\* No file is left behind but by a crash or a call that failed.
THEOREM NoOtherOrphans == Spec => []OrphansAreExcused
  <1>1. IInv => OrphansAreExcused
    BY DEF IInv
  <1>2. QED
    BY <1>1, Invariance, PTL

\* A half-marked migration and an icon whose document was deleted survive every
\* restart: no sequence of them brings the service up.
THEOREM BrickedForGood == Spec => BrickedStaysDown
  <1>1. ASSUME IInv, [Next]_vars, Bricked, proc # "up"
        PROVE  Bricked' /\ proc' # "up"
    <2>1. Starts /\ \A r \in Requests : req[r] = None
      BY <1>1 DEF IInv, Starts
    <2>2. ASSUME NEW r \in Requests, Serve(r) PROVE proc = "up"
      BY <2>1, <2>2 DEF Serve, Upload, Copied, CopyFails, Insert, InsertFails, Undo, Delete,
         Find, Deactivate, DeactivateFails, Unlink, UnlinkFails, At
    <2>3. CASE proc # "mark" /\ marked = 1 /\ schema = 2
      BY <1>1, <2>1, <2>2, <2>3 DEF Next, Start, Execute, MarkAsExecuted, Migrated, SkipSeed,
         SeedFile, SeedRow, Seeded, StartFails, Crash, Down, vars, Bricked, Starts, Migrations
    <2>4. ASSUME NEW s \in Seeds, rows[s] # None, ~Present(s)
          PROVE  Bricked' /\ proc' # "up"
      <3>1. proc' # "up"
        <4>1. CASE Seeded
          BY <2>1, <2>4, <4>1, NoneIsNone DEF Seeded, Starts, NothingToSeed
        <4>2. CASE ~Seeded
          BY <1>1, <2>2, <4>2 DEF Next, Start, Execute, MarkAsExecuted, Migrated, SkipSeed,
             SeedFile, SeedRow, StartFails, Crash, Down, vars
        <4>3. QED
          BY <4>1, <4>2
      <3>2. rows'[s] # None /\ ~Present(s)'
        <4>1. ASSUME NEW t \in Seeds, SeedRow(t)
              PROVE  rows'[s] # None /\ ~Present(s)'
          <5>1. s # t
            BY <2>4, <4>1 DEF SeedRow
          <5>2. QED
            BY <1>1, <2>4, <4>1, <5>1, SeedRowKeeps
        <4>2. CASE UNCHANGED rows
          BY <2>4, <4>2 DEF Present, Active
        <4>3. QED
          BY <1>1, <2>2, <4>1, <4>2 DEF Next, Start, Execute, MarkAsExecuted, Migrated, SkipSeed,
             SeedFile, Seeded, StartFails, Crash, Down, vars
      <3>3. QED
        BY <3>1, <3>2 DEF Bricked
    <2>5. QED
      BY <1>1, <2>3, <2>4 DEF Bricked
  <1>2. IInv /\ [Next]_vars => [Bricked /\ proc # "up" => Bricked' /\ proc' # "up"]_vars
    BY <1>1
  <1>3. QED
    BY <1>2, Invariance, PTL DEF Spec, BrickedStaysDown
=============================================================================
