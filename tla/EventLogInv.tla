----------------------------- MODULE EventLogInv -----------------------------
(***************************************************************************)
(* The inductive invariant of EventLog: a line that is ended stays, so     *)
(* that what a query found at first is found by every later scan unless it *)
(* was destroyed, and what its pages have left behind they have returned.  *)
(***************************************************************************)
EXTENDS EventLog

\* A call has an event at hand while it is to be written; it knows how it ended
\* as soon as its transaction is over, for good.
CallInv ==
  \A c \in Calls :
    /\ call[c].event /= NoEvent <=> At(c, "starting") \/ At(c, "closing")
    /\ call[c].event /= NoEvent =>
         /\ call[c].event.call = c
         /\ call[c].event.kind = IF At(c, "starting") THEN "started" ELSE call[c].end
    /\ call[c].at \in {"begin", "starting", "operating"} => call[c].end = "none"
    /\ call[c].at \in {"ending", "closing"} => call[c].end \in Ends
    /\ call[c].end = "succeeded" => call[c].effect

\* The writes of the calls of a source that are over: of the first event, of the last.
Spent(s) ==
  {ce \in Calls \X BOOLEAN :
     /\ call[ce[1]].source = s
     /\ IF ce[2] THEN At(ce[1], "over") ELSE ~(At(ce[1], "begin") \/ At(ce[1], "starting"))}

\* A file tells the truth and has at most one line for each write.
FileInv ==
  \A s \in Sources :
    /\ Len(files[s]) <= Cardinality(Spent(s))
    /\ \A n \in Lines(files[s]) :
         LET text == files[s][n].text IN text.kind \in Ends => text.kind = call[text.call].end

\* Where an event was seen it still stands, or nothing can be read any more: each
\* line has one event at most.  A line that had its line feed stays.
Seen == query.found \cup query.existed \cup ToSet(query.returned)
LineOf(f) == files[f.source][f.line]
Stands(f) == LineOf(f).text = f.event

SeenInv ==
  query /= NoQuery =>
    /\ query.rest \subseteq query.sources
    /\ IsFiniteSet(query.found)
    /\ \A f \in Seen :
         /\ f.source \in query.sources /\ f.line \in DOMAIN files[f.source]
         /\ Stands(f) \/ Destroyed(f)
         /\ Matches(query, f.event)
         /\ f.event.kind \in Ends => f.event.kind = call[f.event.call].end
    /\ \A f, g \in Seen : f.source = g.source /\ f.line = g.line => f.event = g.event
    /\ \A f \in query.existed \ query.loose : Stands(f) /\ LineOf(f).ended

\* A scan misses nothing that still stands, and the pages leave nothing behind.
Standing == {f \in query.existed : ~Destroyed(f)}

PageInv ==
  query /= NoQuery =>
    /\ query.at = "scanning" =>
         /\ \A f \in Standing : f.source \notin query.rest => f \in query.found
         /\ query.paged \/ query.returned = << >>
    /\ query.paged =>
         \A k \in DOMAIN query.returned, n \in DOMAIN query.returned :
           k < n => Before(query.returned[n], query.returned[k])
    /\ query.paged /\ query.returned /= << >> =>
         \A f \in Standing :
           Before(f, Last(query.returned)) \/ f \in ToSet(query.returned)
    /\ query.at = "answered" /\ ~query.more => Standing \subseteq ToSet(query.returned)

IInv == TypeOK /\ CallInv /\ FileInv /\ SeenInv /\ PageInv
=============================================================================
