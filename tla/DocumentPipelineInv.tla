------------------------- MODULE DocumentPipelineInv -------------------------
(***************************************************************************)
(* The inductive invariants of DocumentPipeline.                           *)
(***************************************************************************)
EXTENDS DocumentPipeline

Claimed(o) == ex[o].at \notin {"new", "start"}

\* The claim of o is over: o will never own the document again.
Past(o) == Claimed(o) /\ ~Owns(o)

\* An indexing knows the chunks it has marked.
MarkedInv ==
  \A o \in Indexings :
    ex[o].at \in {"fence", "check", "work", "finalize"} => ex[o].of /= NoOne

\* Who owns the document has claimed it and is not done; the status is the one
\* of its work until a compensator marks it.  A chunking is freed with its mark.
OwnerInv ==
  doc.op /= NoOne =>
    /\ Claimed(doc.op) /\ ~At(doc.op, "done")
    /\ doc.status = Working(doc.op) \/ (doc.op \notin Chunkings /\ doc.status = "failed")

\* A compensator that waits for the fence of an indexing, or is past the check
\* behind the fence, undoes an operation that owns the document no more, or owns
\* it as failed.  So does every other, unless its operation claims after it.
CallInv ==
  \A c \in Compensators :
    /\ co[c].at /= "idle" => /\ OpOf(c) \in Ops /\ ~At(OpOf(c), "new")
                             /\ task[OpOf(c)] /= "running"
    /\ co[c].at \in {"fence", "verify", "undo", "free"} => OpOf(c) \notin Chunkings
    /\ co[c].at = "verify" => OpOf(c) \in Processes
    /\ co[c].at \in {"undo", "free"} => Past(OpOf(c))
    /\ co[c].at = "fence" /\ OpOf(c) \in Indexings => Past(OpOf(c))
    /\ co[c].at \in {"fence", "verify"} /\ OpOf(c) \notin late => ~Owns(OpOf(c))

\* An operation that is closed while it owns the document has claimed too late.
PursuedInv == \A o \in Ops : doc.op = o /\ task[o] = "closed" => o \in late

\* The artifacts of a completed process are no more touched, and are there when
\* it completes.
ArtifactInv ==
  /\ \A o \in rows : /\ Claimed(o) /\ doc.op /= o
                     /\ {<<o, "cleaned">>, <<o, "secondary">>} \subseteq files
  /\ \A o \in Processes : Owns(o) =>
       /\ At(o, "tidy") => <<o, "cleaned">> \in files
       /\ At(o, "finalize") => {<<o, "cleaned">>, <<o, "secondary">>} \subseteq files
  /\ \A c \in Compensators :
       co[c].at \in {"undo", "free"} => OpOf(c) \notin rows

\* The chunks that an indexing has marked stay as they are while it owns the
\* document, and its compensator knows them.
ChunkInv ==
  /\ doc.op \in Indexings => chunks = [by |-> ex[doc.op].of, vector |-> "indexing"]
  /\ chunks.vector = "indexing" => doc.op \in Indexings
  /\ chunks.vector = "indexed" <=> doc.status = "indexed"
  /\ \A c \in Compensators :
       co[c].at \in {"fence", "undo", "free"} /\ OpOf(c) \in Indexings
         => co[c].of = ex[OpOf(c)].of

BaseInv ==
  TypeOK /\ MarkedInv /\ OwnerInv /\ CallInv /\ PursuedInv /\ ArtifactInv /\ ChunkInv

-----------------------------------------------------------------------------
(* What the fences are for.                                                *)

Fenced(o) == o \notin Chunkings /\ ex[o].at \in {"check", "work", "promote", "tidy"}

\* As long as no lock is lost, who is behind a fence holds it, and an executor
\* that was checked there stays the owner.
FenceInv ==
  lost = 0 =>
    /\ \A o \in Ops : Fenced(o) =>
         /\ fence[FenceOf(o)] = o
         /\ ~At(o, "check") => doc.op = o
    /\ \A c \in Compensators :
         co[c].at \in {"verify", "undo", "free"} => fence[FenceOf(OpOf(c))] = c

\* Nothing of an operation is left when its compensator frees the document.
UndoneInv ==
  lost = 0 =>
    \A c \in Compensators : co[c].at = "free" =>
      /\ OpOf(c) \in Processes => \A f \in files : f[1] /= OpOf(c)
      /\ OpOf(c) \in Indexings => \A p \in points : p[1] /= co[c].of

-----------------------------------------------------------------------------
(* What an indexed document needs.                                         *)

\* Two prepared calls for one indexing are known to history.
OverlapInv ==
  /\ \A i \in twice : Claimed(i)
  /\ \A c, d \in Compensators :
       /\ co[c].at \in {"fence", "undo", "free"} /\ co[d].at \in {"fence", "undo", "free"}
       /\ OpOf(c) = OpOf(d) /\ OpOf(c) \in Indexings \ twice
       => c = d

Vectors(k, n) == {k} \X (1 .. n)

\* Vectors of these chunks may be deleted by the later of two calls.
Spoilt(k) == \E i \in twice : ex[i].of = k

\* The vectors of the batches an owner has behind it are in the store, and its
\* compensator is the only one to delete them.
VectorInv ==
  /\ doc.status = "indexed" /\ ~Spoilt(chunks.by)
       => Vectors(chunks.by, Batches) \subseteq points
  /\ \A o \in Indexings : Owns(o) /\ ~Spoilt(ex[o].of) =>
       /\ Vectors(ex[o].of, ex[o].batch - 1) \subseteq points
       /\ At(o, "finalize") => Vectors(ex[o].of, Batches) \subseteq points
  /\ \A c \in Compensators :
       co[c].at \in {"fence", "undo", "free"} /\ OpOf(c) \in Indexings \ twice
         => doc.op = OpOf(c) /\ doc.status = "failed"

IInv == BaseInv /\ FenceInv /\ UndoneInv /\ OverlapInv /\ VectorInv
=============================================================================
