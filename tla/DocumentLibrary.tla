--------------------------- MODULE DocumentLibrary ---------------------------
(***************************************************************************)
(* The documents of the knowledge bases from the outside: uploads that     *)
(* write a raw file and then a row, and the calls that take a document out *)
(* of force, because it has expired, is deleted, or is replaced by another *)
(* one.  The document of upload u has the id u.                            *)
(***************************************************************************)
EXTENDS Naturals, FiniteSets, FiniteSetsExt

CONSTANTS
  Docs,        \* ids of the uploads and of their documents
  Kbs,         \* knowledge bases
  Contents,    \* contents of files, as their hashes tell them apart
  Windows,     \* from when, and until when, a document may be in force
  Changes,     \* calls of the life cycle use case
  Requests,    \* what they ask for: document, reason, replacement
  MaxNow,      \* bound: last reading of the clock
  MaxFaults,   \* bound: crashes, cancelled requests and errors
  Nobody

Reasons == {"expired", "replaced", "deleted"}
Never == MaxNow + 1

ASSUME LibraryAssumption ==
  /\ Docs \subseteq Nat /\ IsFiniteSet(Docs)
  /\ Nobody \notin Docs \cup Changes \cup Contents \cup Kbs
  /\ MaxNow \in Nat /\ MaxFaults \in Nat
  /\ Windows \subseteq (0 .. MaxNow) \X (1 .. Never)
  /\ Requests \subseteq Docs \X Reasons \X (Docs \cup {Nobody})

VARIABLES
  up,      \* uploads: where they are, what they carry, from when it is in force
  disk,    \* uploads with a raw file
  rows,    \* committed rows of documents
  unsure,  \* uploads whose commit was made and reported as failed
  change,  \* life cycle calls
  lock,    \* holder of the row lock of a document
  now,
  faults

vars == <<up, disk, rows, unsure, change, lock, now, faults>>
library == <<disk, rows, unsure>>

Live == {"scheduled", "active"}
UploadSteps == {"new", "writing", "insert", "inserted", "committed",
                "raised", "done", "failed", "gone"}
ChangeSteps == {"new", "lock", "write", "done", "refused"}
Upload == [at : UploadSteps, kb : Kbs \cup {Nobody}, content : Contents \cup {Nobody},
           from : 0 .. MaxNow, until : 1 .. Never, committed : BOOLEAN]
Row == [life : Live \cup Reasons, active : Contents \cup {Nobody},
        storage : {"active", "archiving"}, indexed : BOOLEAN, by : Docs \cup {Nobody}]
Change == [at : ChangeSteps, doc : Docs, reason : Reasons, by : Docs \cup {Nobody},
           sees : SUBSET Docs]

TypeOK ==
  /\ up \in [Docs -> Upload] /\ disk \subseteq Docs /\ unsure \subseteq Docs
  /\ DOMAIN rows \subseteq Docs /\ \A d \in DOMAIN rows : rows[d] \in Row
  /\ DOMAIN change \subseteq Changes /\ \A c \in DOMAIN change : change[c] \in Change
  /\ lock \in [Docs -> Changes \cup {Nobody}]
  /\ now \in 0 .. MaxNow /\ faults \in 0 .. MaxFaults

Init ==
  /\ up = [u \in Docs |-> [at |-> "new", kb |-> Nobody, content |-> Nobody,
                           from |-> 0, until |-> Never, committed |-> FALSE]]
  /\ disk = {} /\ rows = << >> /\ unsure = {} /\ change = << >>
  /\ lock = [d \in Docs |-> Nobody]
  /\ now = 0 /\ faults = 0

At(u, step) == up[u].at = step
Go(u, step) == up' = [up EXCEPT ![u].at = step]
Fault == faults < MaxFaults /\ faults' = faults + 1
Stored == DOMAIN rows
With(d, row) == [e \in Stored \cup {d} |-> IF e = d THEN row ELSE rows[e]]

(***************************************************************************)
(* Uploads.                                                                *)
(***************************************************************************)
\* The file is refused by its name or type before anything is written.
Refuse(u) ==
  /\ At(u, "new")
  /\ Go(u, "failed")
  /\ UNCHANGED <<library, change, lock, now, faults>>

Receive(u, kb, content, window) ==
  /\ At(u, "new")
  /\ up' = [up EXCEPT ![u] = [at |-> "writing", kb |-> kb, content |-> content,
                              from |-> window[1], until |-> window[2], committed |-> FALSE]]
  /\ disk' = disk \cup {u}
  /\ UNCHANGED <<rows, unsure, change, lock, now, faults>>

\* Too long, empty, or not to be written.
WriteFails(u) ==
  /\ At(u, "writing")
  /\ Go(u, "raised")
  /\ UNCHANGED <<library, change, lock, now, faults>>

Duplicates(u) == {d \in Stored : up[d].kb = up[u].kb /\ rows[d].active = up[u].content}

\* The file is complete and hashed: is there a document with its content?
FindDuplicate(u) ==
  /\ At(u, "writing")
  /\ Go(u, IF Duplicates(u) = {} THEN "insert" ELSE "raised")
  /\ UNCHANGED <<library, change, lock, now, faults>>

\* The unique key of content waits for an insert that has not ended.
Insert(u) ==
  /\ At(u, "insert")
  /\ \A v \in Docs : ~(At(v, "inserted") /\ up[v].kb = up[u].kb /\ up[v].content = up[u].content)
  /\ Go(u, IF Duplicates(u) = {} THEN "inserted" ELSE "raised")
  /\ UNCHANGED <<library, change, lock, now, faults>>

\* Mutant: the life cycle status is set to the status of the pipeline.
LifeIsStatus(u) == "uploaded"
InitialLife(u) == IF up[u].from > now THEN "scheduled" ELSE "active"
NewRow(u) == [life |-> InitialLife(u), active |-> up[u].content, storage |-> "active",
              indexed |-> FALSE, by |-> Nobody]

Commit(u) ==
  /\ At(u, "inserted")
  /\ rows' = With(u, NewRow(u))
  /\ up' = [up EXCEPT ![u].at = "committed", ![u].committed = TRUE]
  /\ UNCHANGED <<disk, unsure, change, lock, now, faults>>

CommitFails(u) ==
  /\ At(u, "inserted") /\ Fault
  /\ Go(u, "raised")
  /\ UNCHANGED <<library, change, lock, now>>

\* The connection is lost after the server has committed.
CommitUnknown(u) ==
  /\ At(u, "inserted") /\ Fault
  /\ rows' = With(u, NewRow(u)) /\ unsure' = unsure \cup {u}
  /\ Go(u, "raised")
  /\ UNCHANGED <<disk, change, lock, now>>

Answer(u) ==
  /\ At(u, "committed")
  /\ Go(u, "done")
  /\ UNCHANGED <<library, change, lock, now, faults>>

\* The session cannot be closed.
CloseFails(u) ==
  /\ At(u, "committed") /\ Fault
  /\ Go(u, "raised")
  /\ UNCHANGED <<library, change, lock, now>>

\* Mutant: the error handler forgets what has been committed.
DropFile(u) == disk \ {u}
\* An error before the commit takes the raw file with it.
FilesAfter(u) == IF up[u].committed THEN disk ELSE disk \ {u}

Cleanup(u) ==
  /\ At(u, "raised")
  /\ disk' = FilesAfter(u)
  /\ Go(u, "failed")
  /\ UNCHANGED <<rows, unsure, change, lock, now, faults>>

\* A request that is cancelled while it reads, a process that ends, a file
\* that cannot be removed: no handler runs, the transaction is rolled back.
Vanish(u) ==
  /\ up[u].at \in {"writing", "insert", "inserted", "committed", "raised"}
  /\ Fault
  /\ Go(u, "gone")
  /\ UNCHANGED <<library, change, lock, now>>

\* The pipeline ends with the document in the vector store.
Index(d) ==
  /\ d \in Stored /\ lock[d] = Nobody
  /\ rows[d].life \in Live /\ rows[d].storage = "active" /\ ~rows[d].indexed
  /\ rows' = [rows EXCEPT ![d].indexed = TRUE]
  /\ UNCHANGED <<up, disk, unsure, change, lock, now, faults>>

(***************************************************************************)
(* Life cycle calls: locks in the order of ids, checks, one update.        *)
(***************************************************************************)
\* The locking read returns the rows that are there when it starts.
Request(c, doc, reason, by) ==
  /\ c \notin DOMAIN change
  /\ change' = [x \in DOMAIN change \cup {c} |->
       IF x = c THEN [at |-> "lock", doc |-> doc, reason |-> reason, by |-> by,
                      sees |-> ({doc, by} \ {Nobody}) \cap Stored]
       ELSE change[x]]
  /\ UNCHANGED <<up, library, lock, now, faults>>

In(c, step) == c \in DOMAIN change /\ change[c].at = step
Held(c) == {d \in Docs : lock[d] = c}
\* Mutant: the replacement is not locked.
LocksDocument(c) == {change[c].doc} \cap change[c].sees
Locks(c) == IF change[c].reason = "replaced" THEN change[c].sees ELSE LocksDocument(c)
Missing(c) == Locks(c) \ Held(c)
NextToLock(c) == Min(Missing(c))

LockRow(c) ==
  /\ In(c, "lock") /\ Missing(c) /= {}
  /\ lock[NextToLock(c)] = Nobody
  /\ lock' = [lock EXCEPT ![NextToLock(c)] = c]
  /\ UNCHANGED <<up, library, change, now, faults>>

\* _validate_replacement
Replaces(by, doc) ==
  /\ by /= doc /\ up[by].kb = up[doc].kb
  /\ rows[by].indexed /\ rows[by].life = "active" /\ rows[by].storage = "active"
  /\ up[by].from <= now /\ now < up[by].until

Same(c) == LET k == change[c] IN
  k.doc \in k.sees /\ rows[k.doc].life = k.reason
  /\ (k.reason = "replaced" => rows[k.doc].by = k.by)
Allowed(c) == LET k == change[c] IN
  k.doc \in k.sees /\ rows[k.doc].life \in Live
  /\ (k.reason = "replaced" => k.by \in k.sees /\ Replaces(k.by, k.doc))

Unlocked(c) == [d \in Docs |-> IF lock[d] = c THEN Nobody ELSE lock[d]]

\* The row is as requested already, or the request is refused.
AnswerNow(c) ==
  /\ In(c, "lock") /\ Missing(c) = {} /\ (Same(c) \/ ~Allowed(c))
  /\ change' = [change EXCEPT ![c].at = IF Same(c) THEN "done" ELSE "refused"]
  /\ lock' = Unlocked(c)
  /\ UNCHANGED <<up, library, now, faults>>

Validate(c) ==
  /\ In(c, "lock") /\ Missing(c) = {} /\ Allowed(c)
  /\ change' = [change EXCEPT ![c].at = "write"]
  /\ UNCHANGED <<up, library, lock, now, faults>>

Deactivate(c) ==
  /\ In(c, "write")
  /\ LET k == change[c] IN
       rows' = [rows EXCEPT ![k.doc] = [rows[k.doc] EXCEPT
         !.life = k.reason, !.active = Nobody, !.storage = "archiving",
         !.by = IF k.reason = "replaced" THEN k.by ELSE @]]
  /\ change' = [change EXCEPT ![c].at = "done"]
  /\ lock' = Unlocked(c)
  /\ UNCHANGED <<up, disk, unsure, now, faults>>

\* An error, or the end of the process: the transaction is rolled back.
RollBack(c) ==
  /\ In(c, "lock") \/ In(c, "write")
  /\ Fault
  /\ change' = [change EXCEPT ![c].at = "refused"]
  /\ lock' = Unlocked(c)
  /\ UNCHANGED <<up, library, now>>

Tick ==
  /\ now < MaxNow
  /\ now' = now + 1
  /\ UNCHANGED <<up, library, change, lock, faults>>

\* Nothing is left to do.
Finished ==
  /\ \A u \in Docs : up[u].at \in {"done", "failed", "gone"}
  /\ DOMAIN change = Changes /\ \A c \in Changes : change[c].at \in {"done", "refused"}
  /\ UNCHANGED vars

UploadStep(u) ==
  \/ Refuse(u)
  \/ \E kb \in Kbs, content \in Contents, window \in Windows : Receive(u, kb, content, window)
  \/ WriteFails(u) \/ FindDuplicate(u) \/ Insert(u)
  \/ Commit(u) \/ CommitFails(u) \/ CommitUnknown(u)
  \/ Answer(u) \/ CloseFails(u) \/ Cleanup(u) \/ Vanish(u)

ChangeStep(c) ==
  \/ \E r \in Requests : Request(c, r[1], r[2], r[3])
  \/ LockRow(c) \/ AnswerNow(c) \/ Validate(c) \/ Deactivate(c) \/ RollBack(c)

Next ==
  \/ \E u \in Docs : UploadStep(u)
  \/ \E d \in Docs : Index(d)
  \/ \E c \in Changes : ChangeStep(c)
  \/ Tick
  \/ Finished

Spec == Init /\ [][Next]_vars

(***************************************************************************)
(* Properties.                                                             *)
(***************************************************************************)
\* Whoever follows replaced_by reaches a document that nobody has replaced:
\* replacements are indexed documents of the same knowledge base and form no
\* circle, although each is checked by a call of its own
\* (change_lifecycle.py:164).
ReplacementsLead ==
  LET Replaced == {d \in Stored : rows[d].life = "replaced"} IN
  /\ \A d \in Replaced : /\ rows[d].by \in Stored /\ up[rows[d].by].kb = up[d].kb
                         /\ rows[rows[d].by].indexed
  /\ \A circle \in (SUBSET Replaced) \ {{}} : \E d \in circle : rows[d].by \notin circle

\* A row has its raw file, unless its commit was reported as failed; a raw
\* file has a row or an upload that works on it, unless its request vanished
\* (upload_document.py:378-438).
FilesAndRows ==
  /\ Stored \ unsure \subseteq disk
  /\ \A u \in disk \ Stored :
       up[u].at \in {"writing", "insert", "inserted", "raised", "gone"}
=============================================================================
