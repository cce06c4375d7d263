------------------------ MODULE DocumentLibraryInv ------------------------
(***************************************************************************)
(* What makes the properties of DocumentLibrary inductive: how far an      *)
(* upload has come says what it has left behind, and what a call has       *)
(* checked stays so until it writes, because it holds the locks.           *)
(***************************************************************************)
EXTENDS DocumentLibrary

Open == {"new", "writing", "insert", "inserted"}

\* An upload that has not reached its commit has a file once it has begun and
\* no row; one that has committed knows it, and keeps both.
UploadInv ==
  \A u \in Docs :
    /\ up[u].at \in Open => ~up[u].committed /\ u \notin Stored /\ (At(u, "new") <=> u \notin disk)
    /\ up[u].at \in {"committed", "done"} => up[u].committed
    /\ up[u].committed => u \in Stored \cap disk
    /\ u \in Stored \ unsure => up[u].committed

\* A call that is about to write holds its locks, and what it has checked of
\* the rows under them is still so.
CheckedInv ==
  \A c \in DOMAIN change :
    LET k == change[c] IN
    /\ k.sees \subseteq Stored
    /\ k.at = "write" =>
         /\ Locks(c) \subseteq Held(c)
         /\ k.doc \in k.sees /\ rows[k.doc].life \in Live
         /\ k.reason = "replaced" =>
              /\ k.by \in k.sees /\ k.by /= k.doc /\ up[k.by].kb = up[k.doc].kb
              /\ rows[k.by].indexed /\ rows[k.by].life = "active"

IInv == TypeOK /\ UploadInv /\ FilesAndRows /\ CheckedInv /\ ReplacementsLead
=============================================================================
