----------------------------- MODULE MCEventLog -----------------------------
(***************************************************************************)
(* Two operations, of two stages or tools, and a query at any moment.      *)
(***************************************************************************)
EXTENDS EventLogInv, TLC

CONSTANTS c1, c2

MCDocuments == <<"process", "index">>

\* Two tools, or two stages of a document.
MCWriters == {[c \in Calls |-> AgentTool], c1 :> "process" @@ c2 :> "index"}
MCFilters == [calls : {{c1, c2}}, from : {0}]

\* What is written after the last answer changes nothing that is checked.
UntilAnswered == Answered => query.more /\ query.paged

\* Two faults together where they meet: in one file, and one has torn a line.
Torn(line) == ~line.ended \/ line.text.kind \in Broken
FaultsMeet == faults = 2 => \E n \in DOMAIN files[AgentTool] : Torn(files[AgentTool][n])

\* Of events of the same time, the end of c1 comes before both beginnings.
MCEventId == (<<c1, TRUE>> :> 1) @@ (<<c2, FALSE>> :> 2) @@ (<<c1, FALSE>> :> 3) @@ (<<c2, TRUE>> :> 4)
=============================================================================
