------------------------ MODULE DocumentLibraryProofs ------------------------
(***************************************************************************)
(* What DocumentLibrary guarantees for any number of uploads and of calls, *)
(* any requests, any clock and any number of faults.                       *)
(***************************************************************************)
EXTENDS DocumentLibraryInv, TLAPS

-----------------------------------------------------------------------------
(* The pieces of a step.                                                   *)

\* An upload has gone on.
LEMMA Went ==
  ASSUME TypeOK, NEW u \in Docs, NEW step \in UploadSteps, Go(u, step)
  PROVE  /\ up' \in [Docs -> Upload]
         /\ up'[u].at = step /\ up'[u].committed = up[u].committed
         /\ \A v \in Docs : up'[v].kb = up[v].kb
         /\ \A v \in Docs : v /= u => up'[v] = up[v]
<1>1. up \in [Docs -> Upload]
  BY DEF TypeOK
<1>2. up' = [up EXCEPT ![u] = [up[u] EXCEPT !.at = step]]
  BY DEF Go
<1>3. [up[u] EXCEPT !.at = step] \in Upload
  BY <1>1 DEF Upload
<1>4. up' \in [Docs -> Upload] /\ \A v \in Docs : v /= u => up'[v] = up[v]
  BY <1>1, <1>2, <1>3
<1>5. up'[u] = [up[u] EXCEPT !.at = step]
  BY <1>1, <1>2
<1>6. up'[u].at = step /\ up'[u].committed = up[u].committed /\ up'[u].kb = up[u].kb
  BY <1>1, <1>5 DEF Upload
<1>. QED  BY <1>4, <1>6

\* A row has been committed.
LEMMA Stores ==
  ASSUME TypeOK, NEW u \in Docs, rows' = With(u, NewRow(u))
  PROVE  /\ Stored' = Stored \cup {u}
         /\ rows'[u] \in Row /\ rows'[u].life \in Live
         /\ \A d \in Stored : d /= u => rows'[d] = rows[d]
<1>1. up[u] \in Upload
  BY DEF TypeOK
<1>2. NewRow(u) \in Row /\ NewRow(u).life \in Live
  BY <1>1 DEF NewRow, InitialLife, Row, Live, Upload
<1>3. /\ Stored' = Stored \cup {u} /\ rows'[u] = NewRow(u)
      /\ \A d \in Stored : d /= u => rows'[d] = rows[d]
  BY DEF With, Stored
<1>. QED  BY <1>2, <1>3

Turn(c, step) == change' = [change EXCEPT ![c].at = step]

\* A call has gone on.
LEMMA Turned ==
  ASSUME TypeOK, NEW c \in DOMAIN change, NEW step \in ChangeSteps, Turn(c, step)
  PROVE  /\ DOMAIN change' = DOMAIN change
         /\ \A x \in DOMAIN change : change'[x] \in Change
         /\ change'[c].at = step /\ change'[c].doc = change[c].doc
         /\ change'[c].reason = change[c].reason /\ change'[c].by = change[c].by
         /\ change'[c].sees = change[c].sees
         /\ \A x \in DOMAIN change : x /= c => change'[x] = change[x]
<1>1. \A x \in DOMAIN change : change[x] \in Change
  BY DEF TypeOK
<1>2. change' = [change EXCEPT ![c] = [change[c] EXCEPT !.at = step]]
  BY DEF Turn
<1>3. [change[c] EXCEPT !.at = step] \in Change
  BY <1>1 DEF Change
<1>4. /\ DOMAIN change' = DOMAIN change
      /\ change'[c] = [change[c] EXCEPT !.at = step]
      /\ \A x \in DOMAIN change : x /= c => change'[x] = change[x]
  BY <1>2
<1>5. /\ change'[c].at = step /\ change'[c].doc = change[c].doc
      /\ change'[c].reason = change[c].reason /\ change'[c].by = change[c].by
      /\ change'[c].sees = change[c].sees
  BY <1>1, <1>4 DEF Change
<1>. QED  BY <1>1, <1>3, <1>4, <1>5

\* A call has let go of its locks.
LEMMA LetsGo ==
  ASSUME TypeOK, NEW c \in Changes, lock' = Unlocked(c)
  PROVE  /\ lock' \in [Docs -> Changes \cup {Nobody}]
         /\ \A x \in Changes : x /= c => Held(x)' = Held(x)
<1>1. lock \in [Docs -> Changes \cup {Nobody}] /\ Nobody \notin Changes
  BY LibraryAssumption DEF TypeOK
<1>2. lock' \in [Docs -> Changes \cup {Nobody}]
  BY <1>1 DEF Unlocked
<1>3. ASSUME NEW x \in Changes, x /= c
      PROVE  Held(x)' = Held(x)
  BY <1>1, <1>3 DEF Unlocked, Held
<1>. QED  BY <1>2, <1>3

\* A row lock has been taken.
LEMMA Locking ==
  ASSUME TypeOK, NEW c \in Changes, LockRow(c)
  PROVE  /\ lock' \in [Docs -> Changes \cup {Nobody}]
         /\ \A x \in Changes : Held(x) \subseteq Held(x)'
<1>. DEFINE n == NextToLock(c)
<1>1. lock \in [Docs -> Changes \cup {Nobody}] /\ Nobody \notin Changes
  BY LibraryAssumption DEF TypeOK
<1>2. lock[n] = Nobody /\ lock' = [lock EXCEPT ![n] = c]
  BY DEF LockRow
<1>. HIDE DEF n
<1>3. lock' \in [Docs -> Changes \cup {Nobody}]
  BY <1>1, <1>2
<1>4. ASSUME NEW x \in Changes, NEW d \in Docs, lock[d] = x
      PROVE  lock'[d] = x
  BY <1>1, <1>2, <1>4
<1>. QED  BY <1>3, <1>4 DEF Held

LEMMA Received ==
  ASSUME TypeOK, NEW u \in Docs, NEW kb \in Kbs, NEW content \in Contents,
         NEW window \in Windows, Receive(u, kb, content, window)
  PROVE  /\ up' \in [Docs -> Upload]
         /\ up'[u].at = "writing" /\ up'[u].committed = FALSE
         /\ \A v \in Docs : v /= u => up'[v] = up[v]
<1>. DEFINE new == [at |-> "writing", kb |-> kb, content |-> content,
                    from |-> window[1], until |-> window[2], committed |-> FALSE]
<1>1. window[1] \in 0 .. MaxNow /\ window[2] \in 1 .. Never
  BY LibraryAssumption
<1>2. new \in Upload
  BY <1>1 DEF Upload, UploadSteps
<1>3. up \in [Docs -> Upload] /\ up' = [up EXCEPT ![u] = new]
  BY DEF TypeOK, Receive
<1>4. new.at = "writing" /\ new.committed = FALSE
  OBVIOUS
<1>. HIDE DEF new
<1>. QED  BY <1>2, <1>3, <1>4

\* The commit of an upload is known to it.
LEMMA Committed ==
  ASSUME TypeOK, NEW u \in Docs, Commit(u)
  PROVE  /\ up' \in [Docs -> Upload]
         /\ up'[u].at = "committed" /\ up'[u].committed = TRUE
         /\ \A v \in Docs : up'[v].kb = up[v].kb
         /\ \A v \in Docs : v /= u => up'[v] = up[v]
<1>. DEFINE new == [[up[u] EXCEPT !.at = "committed"] EXCEPT !.committed = TRUE]
<1>1. up \in [Docs -> Upload]
  BY DEF TypeOK
<1>2. new \in Upload /\ new.at = "committed" /\ new.committed = TRUE /\ new.kb = up[u].kb
  BY <1>1 DEF Upload, UploadSteps
<1>3. up' = [up EXCEPT ![u] = new]
  BY <1>1 DEF Commit
<1>. HIDE DEF new
<1>. QED  BY <1>1, <1>2, <1>3

\* A document has been taken out of force.
LEMMA Retired ==
  ASSUME TypeOK, CheckedInv, NEW c \in Changes, Deactivate(c)
  PROVE  /\ c \in DOMAIN change /\ change[c].doc \in Stored
         /\ Stored' = Stored
         /\ rows'[change[c].doc] \in Row
         /\ rows'[change[c].doc].life = change[c].reason
         /\ rows'[change[c].doc].indexed = rows[change[c].doc].indexed
         /\ change[c].reason = "replaced" => rows'[change[c].doc].by = change[c].by
         /\ \A d \in Stored : d /= change[c].doc => rows'[d] = rows[d]
<1>. DEFINE d == change[c].doc
            k == change[c]
            new == [rows[d] EXCEPT !.life = k.reason, !.active = Nobody, !.storage = "archiving",
                                   !.by = IF k.reason = "replaced" THEN k.by ELSE @]
<1>1. c \in DOMAIN change /\ k.at = "write" /\ k \in Change
  BY DEF Deactivate, In, TypeOK
<1>2. d \in Stored /\ rows[d] \in Row
  BY <1>1 DEF CheckedInv, TypeOK, Stored
<1>3. rows' = [rows EXCEPT ![d] = new]
  BY DEF Deactivate
<1>4. new \in Row /\ new.life = k.reason /\ new.indexed = rows[d].indexed
      /\ (k.reason = "replaced" => new.by = k.by)
  BY <1>1, <1>2 DEF Row, Change, Live, Reasons
<1>. HIDE DEF new
<1>5. Stored' = Stored /\ rows'[d] = new /\ \A e \in Stored : e /= d => rows'[e] = rows[e]
  BY <1>2, <1>3 DEF Stored
<1>. QED  BY <1>1, <1>2, <1>4, <1>5

\* A document has been indexed.
LEMMA Indexed ==
  ASSUME TypeOK, NEW d \in Docs, Index(d)
  PROVE  /\ d \in Stored /\ Stored' = Stored
         /\ rows'[d] \in Row /\ rows'[d].indexed = TRUE
         /\ rows'[d].life = rows[d].life /\ rows'[d].by = rows[d].by
         /\ \A e \in Stored : e /= d => rows'[e] = rows[e]
<1>. DEFINE new == [rows[d] EXCEPT !.indexed = TRUE]
<1>1. d \in Stored /\ rows[d] \in Row
  BY DEF Index, TypeOK, Stored
<1>2. rows' = [rows EXCEPT ![d] = new]
  BY DEF Index
<1>3. new \in Row /\ new.indexed = TRUE /\ new.life = rows[d].life /\ new.by = rows[d].by
  BY <1>1 DEF Row
<1>. HIDE DEF new
<1>. QED  BY <1>1, <1>2, <1>3 DEF Stored

-----------------------------------------------------------------------------
(* Types.                                                                  *)

LEMMA TypesStart == Init => TypeOK
<1>. SUFFICES ASSUME Init PROVE TypeOK
  OBVIOUS
<1>1. Never \in 1 .. Never /\ 0 \in 0 .. MaxNow /\ 0 \in 0 .. MaxFaults
  BY LibraryAssumption DEF Never
<1>2. up \in [Docs -> Upload]
  BY <1>1 DEF Init, Upload, UploadSteps
<1>3. DOMAIN rows = {} /\ DOMAIN change = {}
  BY DEF Init
<1>. QED  BY <1>1, <1>2, <1>3 DEF Init, TypeOK

LEMMA TypesStay == TypeOK /\ CheckedInv /\ [Next]_vars => TypeOK'
<1>. SUFFICES ASSUME TypeOK, CheckedInv, [Next]_vars
     PROVE  TypeOK'
  OBVIOUS
<1>1. /\ up \in [Docs -> Upload] /\ disk \subseteq Docs /\ unsure \subseteq Docs
      /\ Stored \subseteq Docs /\ \A d \in Stored : rows[d] \in Row
      /\ DOMAIN change \subseteq Changes /\ \A c \in DOMAIN change : change[c] \in Change
      /\ lock \in [Docs -> Changes \cup {Nobody}]
      /\ now \in 0 .. MaxNow /\ faults \in 0 .. MaxFaults
  BY DEF TypeOK, Stored
<1>2. Fault => faults' \in 0 .. MaxFaults
  BY <1>1, LibraryAssumption DEF Fault
<1>3. ASSUME NEW u \in Docs, UploadStep(u)
      PROVE  TypeOK'
  <2>1. ASSUME NEW kb \in Kbs, NEW content \in Contents, NEW window \in Windows,
               Receive(u, kb, content, window)
        PROVE  TypeOK'
    <3>1. up' \in [Docs -> Upload]
      BY <2>1, Received
    <3>. QED  BY <1>1, <2>1, <3>1 DEF Receive, TypeOK, library
  <2>2. ASSUME NEW step \in UploadSteps, Go(u, step),
               UNCHANGED <<change, lock, now>>,
               disk' \subseteq Docs, unsure' \subseteq Docs, faults' \in 0 .. MaxFaults,
               Stored' \subseteq Docs, \A d \in Stored' : rows'[d] \in Row
        PROVE  TypeOK'
    <3>1. up' \in [Docs -> Upload]
      BY <2>2, Went
    <3>. QED  BY <1>1, <2>2, <3>1 DEF TypeOK, Stored
  <2>3. CASE Commit(u)
    <3>1. Stored' \subseteq Docs /\ \A d \in Stored' : rows'[d] \in Row
      BY <1>1, <2>3, Stores DEF Commit
    <3>2. up' \in [Docs -> Upload]
      BY <2>3, Committed
    <3>. QED  BY <1>1, <2>3, <3>1, <3>2 DEF Commit, TypeOK, Stored
  <2>4. CASE CommitUnknown(u)
    <3>1. Stored' \subseteq Docs /\ \A d \in Stored' : rows'[d] \in Row
      BY <1>1, <2>4, Stores DEF CommitUnknown
    <3>. QED  BY <1>1, <1>2, <2>2, <2>4, <3>1 DEF CommitUnknown, UploadSteps
  <2>5. CASE \/ Refuse(u) \/ WriteFails(u) \/ FindDuplicate(u) \/ Insert(u) \/ CommitFails(u)
             \/ Answer(u) \/ CloseFails(u) \/ Cleanup(u) \/ Vanish(u)
    BY <1>1, <1>2, <2>2, <2>5
       DEF Refuse, WriteFails, FindDuplicate, Insert, CommitFails, Answer, CloseFails, Cleanup,
           FilesAfter, Vanish, library, Stored, UploadSteps
  <2>. QED  BY <1>3, <2>1, <2>3, <2>4, <2>5 DEF UploadStep
<1>4. ASSUME NEW d \in Docs, Index(d)
      PROVE  TypeOK'
  <2>1. Stored' \subseteq Docs /\ \A e \in Stored' : rows'[e] \in Row
    BY <1>1, <1>4, Indexed
  <2>. QED  BY <1>1, <1>4, <2>1 DEF Index, TypeOK, Stored
<1>5. ASSUME NEW c \in Changes, ChangeStep(c)
      PROVE  TypeOK'
  <2>1. ASSUME NEW r \in Requests, Request(c, r[1], r[2], r[3])
        PROVE  TypeOK'
    <3>1. /\ r[1] \in Docs /\ r[2] \in Reasons /\ r[3] \in Docs \cup {Nobody}
      BY LibraryAssumption
    <3>2. /\ DOMAIN change' = DOMAIN change \cup {c}
          /\ \A x \in DOMAIN change : change'[x] = change[x]
          /\ change'[c] = [at |-> "lock", doc |-> r[1], reason |-> r[2], by |-> r[3],
                           sees |-> ({r[1], r[3]} \ {Nobody}) \cap Stored]
      BY <2>1 DEF Request
    <3>3. change'[c] \in Change
      BY <1>1, <3>1, <3>2 DEF Change, ChangeSteps
    <3>. QED  BY <1>1, <2>1, <3>2, <3>3 DEF Request, library, TypeOK, Stored
  <2>2. CASE LockRow(c)
    BY <1>1, <2>2, Locking DEF LockRow, library, TypeOK, Stored
  <2>3. ASSUME NEW step \in ChangeSteps, c \in DOMAIN change, Turn(c, step),
               UNCHANGED <<up, disk, unsure, now>>, faults' \in 0 .. MaxFaults,
               \/ lock' = lock
               \/ lock' = Unlocked(c),
               Stored' \subseteq Docs, \A d \in Stored' : rows'[d] \in Row
        PROVE  TypeOK'
    <3>1. DOMAIN change' = DOMAIN change /\ \A x \in DOMAIN change : change'[x] \in Change
      BY <2>3, Turned
    <3>2. lock' \in [Docs -> Changes \cup {Nobody}]
      BY <1>1, <2>3, LetsGo
    <3>. QED  BY <1>1, <2>3, <3>1, <3>2 DEF TypeOK, Stored
  <2>4. CASE AnswerNow(c)
    BY <1>1, <2>3, <2>4 DEF AnswerNow, In, Turn, ChangeSteps, library, Stored
  <2>5. CASE Validate(c)
    BY <1>1, <2>3, <2>5 DEF Validate, In, Turn, ChangeSteps, library, Stored
  <2>6. CASE RollBack(c)
    BY <1>1, <1>2, <2>3, <2>6 DEF RollBack, In, Turn, ChangeSteps, library, Stored
  <2>7. CASE Deactivate(c)
    <3>1. Stored' \subseteq Docs /\ \A d \in Stored' : rows'[d] \in Row
      BY <1>1, <2>7, Retired
    <3>2. Turn(c, "done") /\ c \in DOMAIN change /\ lock' = Unlocked(c)
          /\ UNCHANGED <<up, disk, unsure, now, faults>>
      BY <2>7 DEF Deactivate, In, Turn
    <3>. QED  BY <1>1, <2>3, <3>1, <3>2 DEF ChangeSteps
  <2>. QED  BY <1>5, <2>1, <2>2, <2>4, <2>5, <2>6, <2>7 DEF ChangeStep
<1>6. CASE Tick
  BY <1>1, <1>6, LibraryAssumption DEF Tick, TypeOK, library, Stored
<1>7. CASE UNCHANGED vars
  BY <1>1, <1>7 DEF vars, TypeOK, Stored
<1>. QED  BY <1>3, <1>4, <1>5, <1>6, <1>7 DEF Next, Finished

-----------------------------------------------------------------------------
(* Files and rows.                                                         *)

\* What UploadInv says of one upload.
Kept(u) ==
  /\ up[u].at \in Open => ~up[u].committed /\ u \notin Stored /\ (At(u, "new") <=> u \notin disk)
  /\ up[u].at \in {"committed", "done"} => up[u].committed
  /\ up[u].committed => u \in Stored \cap disk
  /\ u \in Stored \ unsure => up[u].committed

Files(u) ==
  /\ u \in Stored \ unsure => u \in disk
  /\ u \in disk \ Stored => up[u].at \in {"writing", "insert", "inserted", "raised", "gone"}

\* The second is the first seen from outside, except for a vanished request.
LEMMA FilesByUpload ==
  /\ UploadInv <=> \A u \in Docs : Kept(u)
  /\ TypeOK => (FilesAndRows <=> \A u \in Docs : Files(u))
<1>1. UploadInv <=> \A u \in Docs : Kept(u)
  BY DEF UploadInv, Kept
<1>2. TypeOK => (FilesAndRows <=> \A u \in Docs : Files(u))
  BY DEF FilesAndRows, Files, TypeOK, Stored
<1>. QED  BY <1>1, <1>2

\* A step that leaves an upload, its file and its row alone.
Apart(u) ==
  /\ up'[u].at = up[u].at /\ up'[u].committed = up[u].committed
  /\ u \in Stored' <=> u \in Stored
  /\ u \in disk' <=> u \in disk
  /\ u \in unsure' <=> u \in unsure

LEMMA ApartKept ==
  ASSUME NEW u \in Docs, Kept(u), Files(u), Apart(u)
  PROVE  Kept(u)' /\ Files(u)'
BY DEF Kept, Files, Apart, At, Open

Remain == \A v \in Docs : Kept(v)' /\ Files(v)'

LEMMA FilesStay ==
  ASSUME TypeOK, CheckedInv, UploadInv, FilesAndRows, [Next]_vars
  PROVE  UploadInv' /\ FilesAndRows'
<1>1. TypeOK'
  BY TypesStay
<1>2. \A u \in Docs : Kept(u) /\ Files(u)
  BY FilesByUpload
<1>3. ASSUME UNCHANGED <<up, disk, unsure>>, Stored' = Stored
      PROVE  Remain
  BY <1>2, <1>3, ApartKept DEF Apart, Remain
<1>4. ASSUME NEW u \in Docs, UploadStep(u)
      PROVE  Remain
  <2>1. ASSUME NEW kb \in Kbs, NEW content \in Contents, NEW window \in Windows,
               Receive(u, kb, content, window)
        PROVE  Remain
    <3>1. /\ up'[u].at = "writing" /\ up'[u].committed = FALSE
          /\ \A v \in Docs : v /= u => up'[v] = up[v]
      BY <2>1, Received
    <3>2. /\ At(u, "new") /\ disk' = disk \cup {u} /\ Stored' = Stored /\ unsure' = unsure
      BY <2>1 DEF Receive, Stored
    <3>3. Kept(u)' /\ Files(u)'
      BY <1>2, <3>1, <3>2 DEF Kept, Files, At, Open
    <3>. QED  BY <1>2, <3>1, <3>2, <3>3, ApartKept DEF Apart, Remain
  <2>2. ASSUME NEW step \in UploadSteps, Go(u, step)
        PROVE  /\ up'[u].at = step /\ up'[u].committed = up[u].committed
               /\ \A v \in Docs : v /= u => up'[v] = up[v]
    BY <2>2, Went
  <2>3. CASE Refuse(u)
    <3>1. up'[u].at = "failed"
      BY <2>2, <2>3 DEF Refuse, UploadSteps
    <3>2. up[u].at = "new" /\ Go(u, "failed") /\ disk' = disk /\ Stored' = Stored /\ unsure' = unsure
      BY <2>3 DEF Refuse, At, library, Stored
    <3>3. Kept(u)' /\ Files(u)'
      BY <1>2, <2>2, <3>1, <3>2 DEF Kept, Files, At, Open, UploadSteps
    <3>. QED  BY <1>2, <2>2, <3>2, <3>3, ApartKept DEF Apart, Remain, UploadSteps
  <2>4. ASSUME NEW step \in {"insert", "inserted", "raised", "gone"}, Go(u, step),
               UNCHANGED library,
               \/ up[u].at \in {"writing", "insert", "inserted"}
               \/ up[u].at \in {"committed", "raised"} /\ step \in {"raised", "gone"}
        PROVE  Remain
    <3>1. Stored' = Stored /\ disk' = disk /\ unsure' = unsure
      BY <2>4 DEF library, Stored
    <3>2. /\ up'[u].at = step /\ up'[u].committed = up[u].committed
          /\ \A v \in Docs : v /= u => up'[v] = up[v]
      BY <2>2, <2>4 DEF UploadSteps
    <3>3. Kept(u)' /\ Files(u)'
      BY <1>2, <2>4, <3>1, <3>2 DEF Kept, Files, At, Open
    <3>. QED  BY <1>2, <3>1, <3>2, <3>3, ApartKept DEF Apart, Remain
  <2>5. CASE \/ WriteFails(u) \/ FindDuplicate(u) \/ Insert(u) \/ CommitFails(u)
             \/ CloseFails(u) \/ Vanish(u)
    BY <2>4, <2>5 DEF WriteFails, FindDuplicate, Insert, CommitFails, CloseFails, Vanish, At, library
  <2>6. CASE Answer(u)
    <3>1. /\ up[u].at = "committed" /\ Go(u, "done")
          /\ disk' = disk /\ Stored' = Stored /\ unsure' = unsure
      BY <2>6 DEF Answer, At, library, Stored
    <3>2. /\ up'[u].at = "done" /\ up'[u].committed = up[u].committed
          /\ \A v \in Docs : v /= u => up'[v] = up[v]
      BY <2>2, <3>1 DEF UploadSteps
    <3>3. Kept(u)' /\ Files(u)'
      BY <1>2, <3>1, <3>2 DEF Kept, Files, At, Open
    <3>. QED  BY <1>2, <3>1, <3>2, <3>3, ApartKept DEF Apart, Remain
  <2>7. CASE Cleanup(u)
    <3>1. /\ up[u].at = "raised" /\ Go(u, "failed") /\ disk' = FilesAfter(u)
          /\ Stored' = Stored /\ unsure' = unsure
      BY <2>7 DEF Cleanup, At, Stored
    <3>2. /\ up'[u].at = "failed" /\ up'[u].committed = up[u].committed
          /\ \A v \in Docs : v /= u => up'[v] = up[v]
      BY <2>2, <3>1 DEF UploadSteps
    <3>3. Kept(u)' /\ Files(u)'
      BY <1>2, <3>1, <3>2 DEF Kept, Files, At, Open, FilesAfter
    <3>4. \A v \in Docs : v /= u => (v \in disk' <=> v \in disk)
      BY <3>1 DEF FilesAfter
    <3>. QED  BY <1>2, <3>1, <3>2, <3>3, <3>4, ApartKept DEF Apart, Remain
  <2>8. CASE Commit(u)
    <3>1. /\ up[u].at = "inserted" /\ rows' = With(u, NewRow(u))
          /\ disk' = disk /\ unsure' = unsure
      BY <2>8 DEF Commit, At
    <3>2. /\ up'[u].at = "committed" /\ up'[u].committed = TRUE
          /\ \A v \in Docs : v /= u => up'[v] = up[v]
      BY <2>8, Committed
    <3>3. Stored' = Stored \cup {u}
      BY <3>1, Stores
    <3>4. Kept(u)' /\ Files(u)'
      BY <1>2, <3>1, <3>2, <3>3 DEF Kept, Files, At, Open
    <3>. QED  BY <1>2, <3>1, <3>2, <3>3, <3>4, ApartKept DEF Apart, Remain
  <2>9. CASE CommitUnknown(u)
    <3>1. /\ up[u].at = "inserted" /\ rows' = With(u, NewRow(u)) /\ Go(u, "raised")
          /\ disk' = disk /\ unsure' = unsure \cup {u}
      BY <2>9 DEF CommitUnknown, At
    <3>2. /\ up'[u].at = "raised" /\ up'[u].committed = up[u].committed
          /\ \A v \in Docs : v /= u => up'[v] = up[v]
      BY <2>2, <3>1 DEF UploadSteps
    <3>3. Stored' = Stored \cup {u}
      BY <3>1, Stores
    <3>4. Kept(u)' /\ Files(u)'
      BY <1>2, <3>1, <3>2, <3>3 DEF Kept, Files, At, Open
    <3>. QED  BY <1>2, <3>1, <3>2, <3>3, <3>4, ApartKept DEF Apart, Remain
  <2>. QED  BY <1>4, <2>1, <2>3, <2>5, <2>6, <2>7, <2>8, <2>9 DEF UploadStep
<1>5. ASSUME NEW d \in Docs, Index(d)
      PROVE  Remain
  BY <1>3, <1>5, Indexed DEF Index
<1>6. ASSUME NEW c \in Changes, ChangeStep(c)
      PROVE  Remain
  <2>1. CASE Deactivate(c)
    BY <1>3, <2>1, Retired DEF Deactivate
  <2>2. CASE ~Deactivate(c)
    BY <1>3, <1>6, <2>2
       DEF ChangeStep, Request, LockRow, AnswerNow, Validate, RollBack, library, Stored
  <2>. QED  BY <2>1, <2>2
<1>7. ASSUME Tick PROVE Remain
  BY <1>3, <1>7 DEF Tick, library, Stored
<1>8. ASSUME UNCHANGED vars PROVE Remain
  BY <1>3, <1>8 DEF vars, Stored
<1>9. Remain
  BY <1>4, <1>5, <1>6, <1>7, <1>8 DEF Next, Finished
<1>10. UploadInv'
  BY <1>9 DEF Remain, UploadInv, Kept
<1>11. FilesAndRows'
  BY <1>1, <1>9 DEF Remain, FilesAndRows, Files, TypeOK, Stored
<1>. QED  BY <1>10, <1>11

-----------------------------------------------------------------------------
(* Replacements.                                                           *)

Replaced == {d \in Stored : rows[d].life = "replaced"}
Leads ==
  \A d \in Replaced : /\ rows[d].by \in Stored /\ up[rows[d].by].kb = up[d].kb
                      /\ rows[rows[d].by].indexed
NoCircle == \A circle \in (SUBSET Replaced) \ {{}} : \E d \in circle : rows[d].by \notin circle

LEMMA Parts == ReplacementsLead <=> Leads /\ NoCircle
BY DEF ReplacementsLead, Leads, NoCircle, Replaced

\* What all steps but a deactivation leave of a row.
SameRow(d) ==
  /\ d \in Stored' /\ up'[d].kb = up[d].kb
  /\ rows'[d].life = rows[d].life /\ rows'[d].by = rows[d].by
  /\ rows[d].indexed => rows'[d].indexed

LEMMA LeadStays ==
  ASSUME ReplacementsLead, \A d \in Stored : SameRow(d),
         \A d \in Stored' : d \notin Stored => rows'[d].life /= "replaced"
  PROVE  ReplacementsLead'
<1>1. Leads /\ NoCircle
  BY Parts
<1>2. Replaced' = Replaced /\ \A d \in Replaced : rows'[d].by = rows[d].by
  BY DEF Replaced, SameRow
<1>3. Leads'
  BY <1>1, <1>2 DEF Leads, SameRow, Replaced
<1>4. NoCircle'
  BY <1>1, <1>2 DEF NoCircle
<1>. QED  BY <1>3, <1>4 DEF ReplacementsLead, Leads, NoCircle, Replaced

\* The replacement is in force when the document that it replaces is taken
\* out, so a circle that the document closes would not contain its own next.
LEMMA LeadGrows ==
  ASSUME ReplacementsLead, Stored' = Stored, NEW doc \in Stored, NEW by \in Stored,
         up' = up,
         rows[doc].life \in Live,
         rows'[doc].life = "replaced", rows'[doc].by = by,
         rows'[doc].indexed = rows[doc].indexed,
         by /= doc, rows[by].life = "active", rows[by].indexed, up[by].kb = up[doc].kb,
         \A d \in Stored : d /= doc => rows'[d] = rows[d]
  PROVE  ReplacementsLead'
<1>1. Leads /\ NoCircle
  BY Parts
<1>2. Replaced' = Replaced \cup {doc} /\ doc \notin Replaced /\ by \notin Replaced'
  BY DEF Replaced, Live
<1>3. \A d \in Replaced : rows'[d] = rows[d]
  BY <1>2 DEF Replaced
<1>4. \A d \in Stored : rows[d].indexed => rows'[d].indexed
  OBVIOUS
<1>5. Leads'
  <2>1. ASSUME NEW d \in Replaced'
        PROVE  /\ rows'[d].by \in Stored' /\ up'[rows'[d].by].kb = up'[d].kb
               /\ rows'[rows'[d].by].indexed
    <3>1. CASE d = doc
      BY <1>4, <3>1
    <3>2. CASE d /= doc
      <4>1. d \in Replaced
        BY <1>2, <2>1, <3>2
      <4>. QED  BY <1>1, <1>3, <1>4, <4>1 DEF Leads
    <3>. QED  BY <3>1, <3>2
  <2>. QED  BY <2>1 DEF Leads
<1>6. NoCircle'
  <2>1. ASSUME NEW circle \in (SUBSET Replaced') \ {{}}
        PROVE  \E d \in circle : rows'[d].by \notin circle
    <3>1. by \notin circle
      BY <1>2, <2>1
    <3>2. CASE doc \in circle
      BY <3>1, <3>2
    <3>3. CASE doc \notin circle
      <4>1. circle \in (SUBSET Replaced) \ {{}}
        BY <1>2, <2>1, <3>3
      <4>2. PICK d \in circle : rows[d].by \notin circle
        BY <1>1, <4>1 DEF NoCircle
      <4>. QED  BY <1>3, <4>1, <4>2
    <3>. QED  BY <3>2, <3>3
  <2>. QED  BY <2>1 DEF NoCircle
<1>. QED  BY <1>5, <1>6 DEF ReplacementsLead, Leads, NoCircle, Replaced

\* What CheckedInv says of one call.
Checked(c) ==
  LET k == change[c] IN
  /\ k.sees \subseteq Stored
  /\ k.at = "write" =>
       /\ Locks(c) \subseteq Held(c)
       /\ k.doc \in k.sees /\ rows[k.doc].life \in Live
       /\ k.reason = "replaced" =>
            /\ k.by \in k.sees /\ k.by /= k.doc /\ up[k.by].kb = up[k.doc].kb
            /\ rows[k.by].indexed /\ rows[k.by].life = "active"

\* A call that stays as it is and keeps its locks, while the rows stay.
LEMMA CheckedStays ==
  ASSUME TypeOK, NEW c \in DOMAIN change, Checked(c), c \in DOMAIN change',
         change'[c] = change[c], Held(c) \subseteq Held(c)', Stored \subseteq Stored',
         \A d \in Stored : change[c].at = "write" /\ d \in Locks(c) => SameRow(d)
  PROVE  Checked(c)'
<1>1. change[c] \in Change
  BY DEF TypeOK
<1>2. CASE change[c].at /= "write"
  BY <1>2 DEF Checked
<1>3. CASE change[c].at = "write"
  <2>1. change[c].doc \in Locks(c)
    BY <1>3 DEF Checked, Locks, LocksDocument
  <2>2. Locks(c)' = Locks(c)
    BY DEF Locks, LocksDocument
  <2>3. change[c].doc \in Stored /\ SameRow(change[c].doc)
    BY <1>3, <2>1 DEF Checked
  <2>4. change[c].reason = "replaced" => change[c].by \in Stored /\ SameRow(change[c].by)
    BY <1>3 DEF Checked, Locks
  <2>. QED  BY <1>3, <2>2, <2>3, <2>4 DEF Checked, SameRow
<1>. QED  BY <1>2, <1>3

LEMMA RowsStay ==
  ASSUME TypeOK, UploadInv, CheckedInv, [Next]_vars, \A c \in Changes : ~Deactivate(c)
  PROVE  /\ \A d \in Stored : SameRow(d)
         /\ \A d \in Stored' : d \notin Stored => rows'[d].life /= "replaced"
<1>. DEFINE Stay == /\ \A d \in Stored : SameRow(d)
                    /\ \A d \in Stored' : d \notin Stored => rows'[d].life /= "replaced"
<1>1. Stored \subseteq Docs
  BY DEF TypeOK, Stored
<1>2. ASSUME UNCHANGED <<up, rows>>
      PROVE  Stay
  BY <1>2 DEF SameRow, Stored
<1>3. ASSUME NEW u \in Docs, UploadStep(u)
      PROVE  Stay
  <2>1. ASSUME NEW kb \in Kbs, NEW content \in Contents, NEW window \in Windows,
               Receive(u, kb, content, window)
        PROVE  Stay
    <3>1. rows' = rows /\ up[u].at = "new"
      BY <2>1 DEF Receive, At
    <3>2. u \notin Stored
      BY <3>1 DEF UploadInv, Open
    <3>3. \A d \in Stored : up'[d] = up[d]
      BY <1>1, <2>1, <3>2, Received
    <3>. QED  BY <3>1, <3>3 DEF SameRow, Stored
  <2>2. ASSUME NEW step \in UploadSteps, Go(u, step), rows' = rows
        PROVE  Stay
    <3>1. \A d \in Stored : up'[d].kb = up[d].kb
      BY <1>1, <2>2, Went
    <3>. QED  BY <2>2, <3>1 DEF SameRow, Stored
  <2>3. ASSUME up[u].at = "inserted", rows' = With(u, NewRow(u)),
               \A d \in Docs : up'[d].kb = up[d].kb
        PROVE  Stay
    <3>1. /\ Stored' = Stored \cup {u} /\ rows'[u].life \in Live
          /\ \A d \in Stored : d /= u => rows'[d] = rows[d]
      BY <2>3, Stores
    <3>2. u \notin Stored
      BY <2>3 DEF UploadInv, Open
    <3>. QED  BY <1>1, <2>3, <3>1, <3>2 DEF SameRow, Live
  <2>4. ASSUME Commit(u) \/ CommitUnknown(u)
        PROVE  Stay
    <3>1. \A d \in Docs : up'[d].kb = up[d].kb
      BY <2>4, Committed, Went DEF CommitUnknown, UploadSteps
    <3>. QED  BY <2>3, <2>4, <3>1 DEF Commit, CommitUnknown, At
  <2>5. ASSUME \/ Refuse(u) \/ WriteFails(u) \/ FindDuplicate(u) \/ Insert(u) \/ CommitFails(u)
               \/ Answer(u) \/ CloseFails(u) \/ Cleanup(u) \/ Vanish(u)
        PROVE  Stay
    BY <2>2, <2>5
       DEF Refuse, WriteFails, FindDuplicate, Insert, CommitFails, Answer, CloseFails, Cleanup,
           Vanish, library, UploadSteps
  <2>. HIDE DEF Stay
  <2>. QED  BY <1>3, <2>1, <2>4, <2>5 DEF UploadStep
<1>4. ASSUME NEW d \in Docs, Index(d)
      PROVE  Stay
  <2>1. up' = up
    BY <1>4 DEF Index
  <2>. QED  BY <1>4, <2>1, Indexed DEF SameRow
<1>5. ASSUME NEW c \in Changes, ChangeStep(c)
      PROVE  Stay
  BY <1>2, <1>5 DEF ChangeStep, Request, LockRow, AnswerNow, Validate, RollBack, library
<1>6. ASSUME Tick \/ UNCHANGED vars
      PROVE  Stay
  BY <1>2, <1>6 DEF Tick, vars, library
<1>. HIDE DEF Stay
<1>7. Stay
  BY <1>3, <1>4, <1>5, <1>6 DEF Next, Finished
<1>. QED  BY <1>7 DEF Stay

LEMMA CheckedInvStays ==
  ASSUME TypeOK, UploadInv, CheckedInv, [Next]_vars
  PROVE  CheckedInv'
<1>. DEFINE Fine == \A c \in DOMAIN change' : Checked(c)'
<1>1. \A c \in DOMAIN change : Checked(c)
  BY DEF CheckedInv, Checked
<1>2. DOMAIN change \subseteq Changes /\ \A c \in DOMAIN change : change[c] \in Change
  BY DEF TypeOK
<1>3. (\A c \in Changes : ~Deactivate(c)) => \A d \in Stored : SameRow(d)
  BY RowsStay
<1>4. (\A d \in Stored : SameRow(d)) => Stored \subseteq Stored'
  BY DEF SameRow
<1>5. ASSUME \A d \in Stored : SameRow(d),
             UNCHANGED change, \A c \in Changes : Held(c) \subseteq Held(c)'
      PROVE  Fine
  BY <1>1, <1>2, <1>4, <1>5, CheckedStays
<1>6. UNCHANGED lock => \A c \in Changes : Held(c) \subseteq Held(c)'
  BY DEF Held
<1>7. ASSUME NEW c \in Changes, NEW step \in ChangeSteps, c \in DOMAIN change, Turn(c, step),
             UNCHANGED <<up, library>>, lock' = lock \/ lock' = Unlocked(c),
             step = "write" => lock' = lock /\ Missing(c) = {} /\ Allowed(c)
      PROVE  Fine
  <2>1. /\ DOMAIN change' = DOMAIN change
        /\ change'[c].at = step /\ change'[c].doc = change[c].doc
        /\ change'[c].reason = change[c].reason /\ change'[c].by = change[c].by
        /\ change'[c].sees = change[c].sees
        /\ \A x \in DOMAIN change : x /= c => change'[x] = change[x]
    BY <1>7, Turned
  <2>2. Stored' = Stored /\ \A d \in Stored : SameRow(d)
    BY <1>7 DEF SameRow, library, Stored
  <2>3. \A x \in Changes : x /= c => Held(x) \subseteq Held(x)'
    BY <1>6, <1>7, LetsGo
  <2>4. ASSUME NEW x \in DOMAIN change, x /= c
        PROVE  Checked(x)'
    BY <1>1, <1>2, <2>1, <2>2, <2>3, <2>4, CheckedStays
  <2>5. Checked(c)'
    <3>1. change'[c].sees \subseteq Stored'
      BY <1>1, <1>7, <2>1, <2>2 DEF Checked
    <3>2. CASE step /= "write"
      BY <2>1, <3>1, <3>2 DEF Checked
    <3>3. CASE step = "write"
      <4>1. Locks(c)' = Locks(c) /\ Held(c)' = Held(c) /\ Locks(c) \subseteq Held(c)
        BY <1>7, <2>1, <3>3 DEF Locks, LocksDocument, Held, Missing
      <4>2. change[c].doc \in change[c].sees /\ rows[change[c].doc].life \in Live
        BY <1>7, <3>3 DEF Allowed
      <4>3. change[c].reason = "replaced" =>
              /\ change[c].by \in change[c].sees /\ change[c].by /= change[c].doc
              /\ up[change[c].by].kb = up[change[c].doc].kb
              /\ rows[change[c].by].indexed /\ rows[change[c].by].life = "active"
        BY <1>7, <3>3 DEF Allowed, Replaces
      <4>4. up' = up /\ rows' = rows
        BY <1>7 DEF library
      <4>. QED  BY <2>1, <3>1, <4>1, <4>2, <4>3, <4>4 DEF Checked
    <3>. QED  BY <3>2, <3>3
  <2>. QED  BY <2>1, <2>4, <2>5
<1>8. ASSUME NEW u \in Docs, UploadStep(u), \A c \in Changes : ~Deactivate(c)
      PROVE  Fine
  <2>1. UNCHANGED <<change, lock>>
    BY <1>8 DEF UploadStep, Refuse, Receive, WriteFails, FindDuplicate, Insert, Commit,
                CommitFails, CommitUnknown, Answer, CloseFails, Cleanup, Vanish
  <2>. QED  BY <1>3, <1>5, <1>6, <1>8, <2>1
<1>9. ASSUME NEW d \in Docs, Index(d), \A c \in Changes : ~Deactivate(c)
      PROVE  Fine
  BY <1>3, <1>5, <1>6, <1>9 DEF Index
<1>10. ASSUME Tick \/ UNCHANGED vars, \A c \in Changes : ~Deactivate(c)
       PROVE  Fine
  BY <1>3, <1>5, <1>6, <1>10 DEF Tick, vars
<1>11. ASSUME NEW c \in Changes, NEW r \in Requests, Request(c, r[1], r[2], r[3])
       PROVE  Fine
  <2>1. /\ c \notin DOMAIN change /\ DOMAIN change' = DOMAIN change \cup {c}
        /\ \A x \in DOMAIN change : change'[x] = change[x]
        /\ change'[c] = [at |-> "lock", doc |-> r[1], reason |-> r[2], by |-> r[3],
                         sees |-> ({r[1], r[3]} \ {Nobody}) \cap Stored]
        /\ UNCHANGED <<up, library, lock>>
    BY <1>11 DEF Request
  <2>2. Stored' = Stored /\ \A d \in Stored : SameRow(d)
    BY <2>1 DEF SameRow, library, Stored
  <2>3. \A x \in DOMAIN change : Checked(x)'
    BY <1>1, <1>2, <1>6, <2>1, <2>2, CheckedStays
  <2>4. Checked(c)'
    BY <2>1, <2>2 DEF Checked
  <2>. QED  BY <2>1, <2>3, <2>4
<1>12. ASSUME NEW c \in Changes, LockRow(c)
       PROVE  Fine
  <2>1. UNCHANGED change /\ \A d \in Stored : SameRow(d)
    BY <1>12 DEF LockRow, library, SameRow, Stored
  <2>. QED  BY <1>5, <1>12, <2>1, Locking
<1>13. ASSUME NEW c \in Changes, AnswerNow(c) \/ Validate(c) \/ RollBack(c)
       PROVE  Fine
  BY <1>7, <1>13 DEF AnswerNow, Validate, RollBack, In, Turn, ChangeSteps
<1>14. ASSUME NEW c \in Changes, Deactivate(c)
       PROVE  Fine
  <2>1. /\ c \in DOMAIN change /\ change[c].at = "write" /\ Turn(c, "done")
        /\ lock' = Unlocked(c) /\ up' = up
    BY <1>14 DEF Deactivate, In, Turn
  <2>2. /\ DOMAIN change' = DOMAIN change /\ change'[c].at = "done"
        /\ change'[c].sees = change[c].sees
        /\ \A x \in DOMAIN change : x /= c => change'[x] = change[x]
    BY <2>1, Turned DEF ChangeSteps
  <2>3. /\ Stored' = Stored /\ change[c].doc \in Held(c)
        /\ \A d \in Stored : d /= change[c].doc => rows'[d] = rows[d]
    BY <1>1, <1>14, <2>1, Retired DEF Checked, Locks, LocksDocument
  <2>4. ASSUME NEW x \in DOMAIN change, x /= c
        PROVE  Checked(x)'
    <3>1. change[x].at = "write" => change[c].doc \notin Locks(x)
      BY <1>1, <2>3, <2>4 DEF Checked, Held
    <3>2. \A d \in Stored : change[x].at = "write" /\ d \in Locks(x) => SameRow(d)
      BY <2>1, <2>3, <3>1 DEF SameRow
    <3>3. Held(x) \subseteq Held(x)'
      BY <1>2, <2>1, <2>4, LetsGo
    <3>. QED  BY <1>1, <2>2, <2>3, <2>4, <3>2, <3>3, CheckedStays
  <2>5. Checked(c)'
    BY <1>1, <2>1, <2>2, <2>3 DEF Checked
  <2>. QED  BY <2>2, <2>4, <2>5
<1>. HIDE DEF Fine
<1>15. Fine
  BY <1>8, <1>9, <1>10, <1>11, <1>12, <1>13, <1>14 DEF Next, Finished, ChangeStep
<1>. QED  BY <1>15 DEF Fine, CheckedInv, Checked

LEMMA LeadInvStays ==
  ASSUME TypeOK, UploadInv, CheckedInv, ReplacementsLead, [Next]_vars
  PROVE  ReplacementsLead'
<1>1. CASE \A c \in Changes : ~Deactivate(c)
  BY <1>1, RowsStay, LeadStays
<1>2. ASSUME NEW c \in Changes, Deactivate(c)
      PROVE  ReplacementsLead'
  <2>. DEFINE doc == change[c].doc
  <2>1. /\ c \in DOMAIN change /\ doc \in Stored /\ Stored' = Stored
        /\ rows'[doc].life = change[c].reason /\ rows'[doc].indexed = rows[doc].indexed
        /\ change[c].reason = "replaced" => rows'[doc].by = change[c].by
        /\ \A d \in Stored : d /= doc => rows'[d] = rows[d]
    BY <1>2, Retired
  <2>2. up' = up /\ change[c].at = "write"
    BY <1>2 DEF Deactivate, In
  <2>3. /\ rows[doc].life \in Live
        /\ change[c].reason = "replaced" =>
             /\ change[c].by \in Stored /\ change[c].by /= doc /\ up[change[c].by].kb = up[doc].kb
             /\ rows[change[c].by].indexed /\ rows[change[c].by].life = "active"
    BY <2>1, <2>2 DEF CheckedInv
  <2>4. CASE change[c].reason = "replaced"
    BY <2>1, <2>2, <2>3, <2>4, LeadGrows
  <2>5. CASE change[c].reason /= "replaced"
    <3>1. /\ doc \notin Replaced /\ Replaced' = Replaced
          /\ \A d \in Stored : rows[d].indexed => rows'[d].indexed
          /\ \A d \in Replaced : rows'[d] = rows[d]
      BY <2>1, <2>3, <2>5 DEF Replaced, Live
    <3>2. Leads /\ NoCircle
      BY Parts
    <3>3. Leads'
      BY <2>1, <2>2, <3>1, <3>2 DEF Leads
    <3>4. NoCircle'
      BY <3>1, <3>2 DEF NoCircle
    <3>. QED  BY <3>3, <3>4 DEF ReplacementsLead, Leads, NoCircle, Replaced
  <2>. QED  BY <2>4, <2>5
<1>. QED  BY <1>1, <1>2

-----------------------------------------------------------------------------
(* The theorems.                                                           *)

\* At the start there is neither a file nor a row nor a call.
LEMMA Starts == Init => IInv
<1>. SUFFICES ASSUME Init PROVE IInv
  OBVIOUS
<1>1. TypeOK
  BY TypesStart
<1>2. Stored = {} /\ DOMAIN change = {} /\ disk = {} /\ unsure = {}
  BY DEF Init, Stored
<1>3. \A u \in Docs : up[u].at = "new" /\ up[u].committed = FALSE
  BY DEF Init
<1>4. UploadInv
  BY <1>2, <1>3 DEF UploadInv, Open, At
<1>5. FilesAndRows /\ CheckedInv
  BY <1>2 DEF FilesAndRows, CheckedInv
<1>6. ReplacementsLead
  BY <1>2 DEF ReplacementsLead
<1>. QED  BY <1>1, <1>4, <1>5, <1>6 DEF IInv

\* The uploads' stages and what the calls have checked (DocumentLibraryInv)
\* are inductive together with the two properties: an upload keeps its file
\* from its first byte to its commit, and what a call has read under its locks
\* is what it writes on.
THEOREM Invariance == Spec => []IInv
<1>1. IInv /\ [Next]_vars => IInv'
  BY TypesStay, FilesStay, CheckedInvStays, LeadInvStays DEF IInv
<1>. QED  BY <1>1, Starts, PTL DEF Spec

\* Uploads, rows, calls and locks keep their types
\* (upload_document.py, change_lifecycle.py).
THEOREM TypeCorrect == Spec => []TypeOK
<1>1. IInv => TypeOK
  BY DEF IInv
<1>. QED  BY <1>1, Invariance, PTL

\* A row has its file unless its commit was reported as failed, and a file has
\* a row, an upload that works on it, or a request that vanished, whatever
\* fails between the write and the commit (upload_document.py:378-438).
THEOREM FilesHaveRows == Spec => []FilesAndRows
<1>1. IInv => FilesAndRows
  BY DEF IInv
<1>. QED  BY <1>1, Invariance, PTL

\* Chains of replacements end, within the knowledge base and with indexed
\* documents, for any number of concurrent calls: each locks both documents
\* before it checks that the replacement is in force
\* (change_lifecycle.py:164).
THEOREM ReplacementsEnd == Spec => []ReplacementsLead
<1>1. IInv => ReplacementsLead
  BY DEF IInv
<1>. QED  BY <1>1, Invariance, PTL
=============================================================================
