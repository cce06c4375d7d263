------------------------------ MODULE EventLog ------------------------------
(***************************************************************************)
(* The JSONL logs as the only memory of what was done: operations append   *)
(* an event when they begin and one when they end, queries read the files  *)
(* page by page, or as a time line, while others go on writing.            *)
(***************************************************************************)
EXTENDS Naturals, Sequences, FiniteSets, SequencesExt, Sorting

CONSTANTS
  Calls,     \* audited tool calls and stage operations
  Writers,   \* which log each of them may write to: calls |-> sources
  EventId,   \* call, is it the end? |-> event_id, of which only the order matters
  Documents, \* the sources of document events, in the order they are read
  Filters,   \* what is asked for: calls, and the time they begin with
  PageLimit, TimelineLimit,  \* events of an answer
  MaxTime,   \* bound on the clock
  MaxFaults  \* bound on failing, torn and abandoned writes

AgentTool == "agent_tool"
Sources == ToSet(Documents) \cup {AgentTool}
Rank(source) == IF source = AgentTool THEN 0 ELSE CHOOSE n \in DOMAIN Documents : Documents[n] = source
Times == 0 .. MaxTime

ASSUME LogAssumption ==
  /\ IsFiniteSet(Calls)
  /\ PageLimit \in Nat \ {0} /\ TimelineLimit \in Nat \ {0} /\ MaxTime \in Nat /\ MaxFaults \in Nat
  /\ Documents \in Seq(ToSet(Documents)) /\ AgentTool \notin ToSet(Documents)
  /\ EventId \in [Calls \X BOOLEAN -> Nat]
  /\ Writers \subseteq [Calls -> Sources]
  /\ Filters \subseteq [calls : SUBSET Calls, from : Times]

VARIABLES
  now,       \* UTC clock
  files,     \* source |-> lines of its file
  call,      \* call |-> source, progress, event at hand, effect on the database
  faults,    \* faults so far
  query      \* the query that is running

vars == <<now, files, call, faults, query>>

Ends == {"succeeded", "rejected", "failed"}
Event == [call : Calls, kind : {"started"} \cup Ends, created_at : Times]
\* What is not an event: it is not JSON, or not even UTF-8.
Broken == {"garbled", "undecodable"}
\* Has the line got its line feed?  An event may be there without.
Line == [text : Event \cup [kind : Broken], ended : BOOLEAN]
NoEvent == [kind |-> "none"]
Call == [source : Sources, effect : BOOLEAN, end : Ends \cup {"none"}, event : Event \cup {NoEvent},
         at : {"begin", "starting", "operating", "ending", "closing", "over"}]
\* An event as it was found: the line breaks the last ties.
Found == [event : Event, source : Sources, line : 1 .. 2 * Cardinality(Calls)]
NoQuery == [at |-> "idle"]
Query == [at : {"scanning", "answered"}, paged : BOOLEAN, failures : BOOLEAN,
          filter : Filters, sources : SUBSET Sources,
          rest : SUBSET Sources, found : SUBSET Found, returned : Seq(Found),
          more : BOOLEAN,
         existed : SUBSET Found,  \* history: what could be read when it was asked
         loose : SUBSET Found]    \* history: which of these had no line feed

TypeOK ==
  /\ now \in Times /\ faults \in 0 .. MaxFaults
  /\ files \in [Sources -> Seq(Line)]
  /\ call \in [Calls -> Call]
  /\ query /= NoQuery => query \in Query /\ (query.paged \/ Len(query.returned) <= TimelineLimit)

Init ==
  /\ now = 0 /\ faults = 0
  /\ files = [s \in Sources |-> << >>]
  /\ \E w \in Writers :
       call = [c \in Calls |-> [source |-> w[c], effect |-> FALSE, end |-> "none",
                               event |-> NoEvent, at |-> "begin"]]
  /\ query = NoQuery

Tick ==
  /\ now < MaxTime
  /\ now' = now + 1
  /\ UNCHANGED <<files, call, faults, query>>

(***************************************************************************)
(* Writing.                                                                *)
(***************************************************************************)
At(c, place) == call[c].at = place
AfterWrite(c) == IF At(c, "starting") THEN "operating" ELSE "over"

\* The event gets its time before the file is opened.
Stamp(c) ==
  /\ At(c, "begin") \/ At(c, "ending")
  /\ call' = [call EXCEPT
       ![c].event = [call |-> c, created_at |-> now,
                     kind |-> IF At(c, "begin") THEN "started" ELSE call[c].end],
       ![c].at = IF At(c, "begin") THEN "starting" ELSE "closing"]
  /\ UNCHANGED <<now, files, faults, query>>

Ended(c) == call' = [call EXCEPT ![c].at = AfterWrite(c), ![c].event = NoEvent]

\* A line without a line feed swallows the next one: {...}{...} is no JSON.
Joined(first, second) ==
  [text |-> [kind |-> IF "undecodable" \in {first.text.kind, second.text.kind}
                      THEN "undecodable" ELSE "garbled"],
   ended |-> second.ended]

Appended(file, line) ==
  IF file = << >> \/ Last(file).ended THEN Append(file, line)
  ELSE [file EXCEPT ![Len(file)] = Joined(@, line)]

Writes(c, line) ==
  /\ At(c, "starting") \/ At(c, "closing")
  /\ files' = [files EXCEPT ![call[c].source] = Appended(@, line)]
  /\ Ended(c)
  /\ UNCHANGED <<now, query>>

Write(c) == Writes(c, [text |-> call[c].event, ended |-> TRUE]) /\ UNCHANGED faults

\* A full disk: the writer answers FALSE, and nobody asks.  If only the line feed
\* is missing, the event can be read, until the next write.
WriteTorn(c, text) ==
  /\ faults < MaxFaults
  /\ faults' = faults + 1
  /\ Writes(c, [text |-> text, ended |-> FALSE])

WriteFails(c) ==
  /\ At(c, "starting") \/ At(c, "closing")
  /\ faults < MaxFaults
  /\ faults' = faults + 1
  /\ Ended(c)
  /\ UNCHANGED <<now, files, query>>

\* The process ends.
Dies(c) ==
  /\ ~At(c, "over")
  /\ faults < MaxFaults
  /\ faults' = faults + 1
  /\ call' = [call EXCEPT ![c].at = "over", ![c].event = NoEvent]
  /\ UNCHANGED <<now, files, query>>

\* How the audit calls the end of an operation.  Any 4xx is "rejected", also when
\* it comes after a transaction that was committed, as that of a claim is.
Verdicts(effect) == IF effect THEN Ends ELSE Ends \ {"succeeded"}

\* The transactions of the operation are committed, none or some or all.
Operate(c, end, effect) ==
  /\ At(c, "operating")
  /\ end \in Verdicts(effect)
  /\ call' = [call EXCEPT ![c].end = end, ![c].effect = effect, ![c].at = "ending"]
  /\ UNCHANGED <<now, files, faults, query>>

(***************************************************************************)
(* Reading.                                                                *)
(***************************************************************************)
Key(f) == <<f.event.created_at, EventId[f.event.call, f.event.kind /= "started"], Rank(f.source), f.line>>
Before(f, g) ==
  LET a == Key(f)
      b == Key(g)
  IN  \E n \in 1 .. 4 : a[n] < b[n] /\ \A k \in 1 .. n - 1 : a[k] = b[k]
\* Mutant: the cursor keeps only the time.
BeforeInTime(f, g) == f.event.created_at < g.event.created_at
Beyond(f, cursor) == Before(f, cursor)

IsFailure(event) == event.kind = "failed"
DocumentPredicate(q, event) == event.call \in q.filter.calls /\ (q.failures => IsFailure(event))
AuditPredicate(q, event) == event.call \in q.filter.calls
Matches(q, event) ==
  /\ q.filter.from <= event.created_at
  /\ IF AgentTool \in q.sources THEN AuditPredicate(q, event) ELSE DocumentPredicate(q, event)

Lines(file) == {n \in DOMAIN file : file[n].text.kind \notin Broken}
ReadFile(q, s) ==
  {f \in {[event |-> files[s][n].text, source |-> s, line |-> n] : n \in Lines(files[s])} :
     Matches(q, f.event)}

Readable(q) == UNION {ReadFile(q, s) : s \in q.sources}
Loose(f) == ~files[f.source][f.line].ended

Asks(q) ==
  /\ query = NoQuery
  /\ query' = [q EXCEPT !.existed = Readable(q), !.loose = {f \in Readable(q) : Loose(f)}]
  /\ UNCHANGED <<now, files, call, faults>>

Asked(paged, failures, filter, sources) ==
  [at |-> "scanning", paged |-> paged, failures |-> failures, filter |-> filter,
   sources |-> sources, rest |-> sources, found |-> {}, returned |-> << >>,
   more |-> FALSE, existed |-> {}, loose |-> {}]

QueryDocumentBusinessLogs(filter, failures) == Asks(Asked(TRUE, failures, filter, ToSet(Documents)))
GetDocumentExecutionTimeline(filter) == Asks(Asked(FALSE, FALSE, filter, ToSet(Documents)))
GetDocumentTimeline(filter) == Asks(Asked(FALSE, FALSE, filter, ToSet(Documents)))
GetDocumentFailureTimeline(filter) == Asks(Asked(FALSE, TRUE, filter, ToSet(Documents)))
QueryAgentToolAudits(filter) == Asks(Asked(TRUE, FALSE, filter, {AgentTool}))
GetToolTimeline(filter) == Asks(Asked(FALSE, FALSE, filter, {AgentTool}))

Scanning == query /= NoQuery /\ query.at = "scanning"
NextSource == CHOOSE s \in query.rest : \A t \in query.rest : Rank(s) <= Rank(t)
Undecodable(file) == \E n \in DOMAIN file : file[n].text.kind = "undecodable"

ReadSource ==
  /\ Scanning /\ query.rest /= {} /\ ~Undecodable(files[NextSource])
  /\ query' = [query EXCEPT !.rest = @ \ {NextSource},
                            !.found = @ \cup ReadFile(query, NextSource)]
  /\ UNCHANGED <<now, files, call, faults>>

\* UnicodeDecodeError is no OSError: every query of the source fails.
ReadFails ==
  /\ Scanning /\ query.rest /= {} /\ Undecodable(files[NextSource])
  /\ query' = NoQuery
  /\ UNCHANGED <<now, files, call, faults>>

\* Newest first for pages, oldest first for a time line.
Order(q) == {fg \in q.found \X q.found : IF q.paged THEN Before(fg[2], fg[1]) ELSE Before(fg[1], fg[2])}
\* The cursor is the last event that was returned.
Remaining(q) == {f \in q.found : q.returned = << >> \/ Beyond(f, Last(q.returned))}
Rest(q) == SortedBy(Remaining(q), Order(q))
Limit(q) == IF q.paged THEN PageLimit ELSE TimelineLimit
HasMore(q) == Len(Rest(q)) > Limit(q)
\* Mutant: the event that shows that there is more is returned with the page.
PageAndOne(q) == IF HasMore(q) THEN SubSeq(Rest(q), 1, Limit(q) + 1) ELSE Rest(q)
Page(q) ==
  LET rest == Rest(q) IN IF Len(rest) > Limit(q) THEN SubSeq(rest, 1, Limit(q)) ELSE rest

Answer ==
  /\ Scanning /\ query.rest = {}
  /\ query' = [query EXCEPT !.returned = @ \o Page(query), !.found = {},
                            !.more = HasMore(query), !.at = "answered"]
  /\ UNCHANGED <<now, files, call, faults>>

\* With the cursor of the last page.
NextPage ==
  /\ query /= NoQuery /\ query.at = "answered" /\ query.paged /\ query.more
  /\ query' = [query EXCEPT !.at = "scanning", !.rest = query.sources]
  /\ UNCHANGED <<now, files, call, faults>>

Invocations(q) == {f.event.call : f \in ToSet(q.returned)}
\* Mutant: an end that was read before its beginning is overwritten by it.
OutcomeIfStarted(q, c) ==
  LET of == SelectSeq(q.returned, LAMBDA f : f.event.call = c)
  IN  IF of = << >> \/ Last(of).event.kind = "started" THEN "none" ELSE Last(of).event.kind
Outcome(q, c) ==
  LET ends == {f \in ToSet(q.returned) : f.event.call = c /\ f.event.kind \in Ends}
  IN  IF ends = {} THEN "none" ELSE (CHOOSE f \in ends : TRUE).event.kind

WriterStep(c) ==
  \/ Stamp(c) \/ Write(c) \/ WriteFails(c) \/ Dies(c)
  \/ \E text \in {call[c].event} \cup [kind : Broken] : WriteTorn(c, text)
  \/ \E end \in Ends, effect \in BOOLEAN : Operate(c, end, effect)

DocumentQuery(filter) ==
  \/ \E failures \in BOOLEAN : QueryDocumentBusinessLogs(filter, failures)
  \/ GetDocumentExecutionTimeline(filter) \/ GetDocumentTimeline(filter)
  \/ GetDocumentFailureTimeline(filter)
AuditQuery(filter) == QueryAgentToolAudits(filter) \/ GetToolTimeline(filter)
QueryStep == \E filter \in Filters : DocumentQuery(filter) \/ AuditQuery(filter)

Next ==
  \/ Tick
  \/ \E c \in Calls : WriterStep(c)
  \/ QueryStep \/ ReadSource \/ ReadFails \/ Answer \/ NextPage

Spec == Init /\ [][Next]_vars

(***************************************************************************)
(* Properties.                                                             *)
(***************************************************************************)
Answered == query /= NoQuery /\ query.at = "answered"

\* Another write has made the line of an event unreadable.
Destroyed(f) == files[f.source][f.line].text.kind \in Broken

\* Who follows the cursors to the last page while the log grows, also with
\* events whose time is older than the cursor, has seen every event that
\* matched when the first page was asked for, newest first, and none twice
\* (jsonl_repository.py:96-136); only an event that had no line feed then may be
\* missing, when a later write was glued to it (jsonl_writer.py:54-60).
PagesComplete ==
  Answered /\ query.paged =>
    /\ \A k \in DOMAIN query.returned, n \in DOMAIN query.returned :
         k < n => Before(query.returned[n], query.returned[k])
    /\ ~query.more =>
         \A f \in query.existed : f \in ToSet(query.returned) \/ (f \in query.loose /\ Destroyed(f))

\* A time line tells how each call it shows has ended, whatever order the
\* clock has given to its events, and says of none that it has succeeded whose
\* effect is not in the database; unless it says that it is cut off, no end is
\* missing that was in the log, but for one without a line feed that was
\* destroyed since (query_service.py:277-318, 552-631).
TimelineTellsTheTruth ==
  Answered /\ ~query.paged =>
    /\ \A c \in Invocations(query) :
         /\ Outcome(query, c) \in {"none", call[c].end}
         /\ Outcome(query, c) = "succeeded" => call[c].effect
    /\ ~query.more =>
         \A f \in query.existed :
           \/ f.event.kind \in Ends => Outcome(query, f.event.call) = f.event.kind
           \/ f \in query.loose /\ Destroyed(f)
=============================================================================
