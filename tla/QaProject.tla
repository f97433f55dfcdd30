------------------------------- MODULE QaProject -------------------------------
(*****************************************************************************)
(* The server of one project: payloads are ingested (main.py, ingestion.py,  *)
(* seed.py) by concurrent callers and its data is analysed (qa_agent.py,     *)
(* risk_snapshot_service.py), one analysis at a time; SnapshotStore is about *)
(* several at once.  With autoflush off and SQLite each SELECT of an analysis*)
(* is a transaction of its own, so that payloads are loaded in between; its  *)
(* rows are written under one lock, from the flush to the commit.            *)
(*                                                                           *)
(* A payload is the name of a dataset.  All payloads are of one project, and *)
(* their rows are held by its name in data.  The ingestion log is the        *)
(* sequence of its rows by finished_at.                                      *)
(*****************************************************************************)
EXTENDS EvidenceChain, Sequences

CONSTANTS
  Datasets,      \* the payloads, a function from their names
  AsOf,          \* values of as_of; Null leaves the date to the server
  Callers,       \* threads serving the ingestion endpoints
  NoData,        \* no project in the tables
  NoDraft,       \* no analysis under way
  MaxAnalyses,   \* bound: snapshots stored
  MaxIngestions  \* bound: ingestion calls

Payloads == DOMAIN Datasets
ScopesOf(d) == IdsOf(d.sprints) \cup {Null}
Scopes == UNION {ScopesOf(Datasets[p]) : p \in Payloads}

\* An analysis under way: what it is of, the payloads it has read a table of, and
\* the snapshot it is going to name as the one before, once that is looked up.
Drafts == [sprint : Scopes, reference : Nat, seen : Seq(Payloads), link : SUBSET (0..MaxAnalyses)]

ASSUME QaProjectAssumption ==
  /\ NoData \notin Payloads /\ NoDraft \notin Drafts
  /\ \A p \in Payloads : IsDataset(Datasets[p])
  /\ AsOf \subseteq Nat
  /\ MaxAnalyses \in Nat /\ MaxIngestions \in Nat

VARIABLES
  data,        \* the payload in the tables
  snapshots,   \* rows of risk_analyses
  analyses,    \* snapshots stored so far: the clock of analyzed_at
  draft,       \* the analysis under way
  overtaken,   \* history: the analyses, by analyzed_at, that a load fell into
  logs,        \* rows of ingestion_logs
  calls,       \* ingestion calls so far
  pc,          \* where each caller is
  job          \* its payload and what it has found out

analysisVars == <<snapshots, analyses, draft, overtaken>>
serverVars == <<data, analysisVars>>
ingestVars == <<logs, calls, pc, job>>
projectVars == <<data, analysisVars, ingestVars>>

\* The columns of IngestionLog anything is decided by; ofProject is whether
\* project_id is set.
Log(ofProject, status, reference) ==
  [ofProject |-> ofProject, status |-> status, reference |-> reference]

NoJob == [payload |-> NoData, reset |-> FALSE, existing |-> FALSE, status |-> "none"]

ProjectInit ==
  /\ data = NoData
  /\ snapshots = {}
  /\ analyses = 0
  /\ draft = NoDraft
  /\ overtaken = {}
  /\ logs = <<>>
  /\ calls = 0
  /\ pc = [c \in Callers |-> "idle"]
  /\ job = [c \in Callers |-> NoJob]
--------------------------------------------------------------------------------
(* Ingestion.                                                                  *)

\* The endpoint validates the payload before it touches the tables.
Begin(c) == pc[c] = "idle" /\ calls < MaxIngestions /\ calls' = calls + 1

\* A refused payload leaves a failed log that belongs to no project.
Refuse(c, payload) ==
  /\ Begin(c)
  /\ Verdict(Datasets[payload]) = "refused"
  /\ logs' = Append(logs, Log(FALSE, "failed", Null))
  /\ UNCHANGED <<serverVars, pc, job>>

\* The KeyError of the validation is none of the errors that are caught, and
\* leaves no log.
Unhandled(c, payload) ==
  /\ Begin(c)
  /\ Verdict(Datasets[payload]) = "unhandled"
  /\ UNCHANGED <<serverVars, logs, pc, job>>

\* seed_dataset looks the project up, outside the transaction that loads it.
LookUp(c, payload, reset) ==
  /\ Begin(c)
  /\ Verdict(Datasets[payload]) = "valid"
  /\ pc' = [pc EXCEPT ![c] = "seeding"]
  /\ job' = [job EXCEPT ![c] = [payload |-> payload, reset |-> reset,
                                existing |-> data # NoData, status |-> "none"]]
  /\ UNCHANGED <<serverVars, logs>>

ToLog(c, status) ==
  /\ pc' = [pc EXCEPT ![c] = "logging"]
  /\ job' = [job EXCEPT ![c].status = status]

EndCall(c) ==
  /\ pc' = [pc EXCEPT ![c] = "idle"]
  /\ job' = [job EXCEPT ![c] = NoJob]

Skip(c) ==
  /\ pc[c] = "seeding"
  /\ job[c].existing /\ ~job[c].reset
  /\ ToLog(c, "skipped")
  /\ UNCHANGED <<serverVars, logs, calls>>

\* What the schema leaves unchecked and the tables insist on.
RowsAreUnique(d) ==
  /\ UniqueIds(d.testResults) /\ UniqueIds(d.metrics)
  /\ Cardinality({commit.sha : commit \in d.commits}) = Cardinality(d.commits)

\* Nor can the project be inserted when it has come to be there meanwhile.
LoadFails(c) ==
  \/ ~RowsAreUnique(Datasets[job[c].payload])
  \/ ~job[c].existing /\ data # NoData

\* The snapshots go with the older data, but an analysis under way goes on.
ClearSnapshots ==
  /\ snapshots' = {}
  /\ overtaken' = IF draft = NoDraft THEN {} ELSE {analyses + 1}
  /\ UNCHANGED <<analyses, draft>>

\* Faults: the reset leaves the snapshots, or the logs of the older data.
LoadKeepingSnapshots(c) ==
  /\ pc[c] = "seeding"
  /\ job[c].existing => job[c].reset
  /\ ~LoadFails(c)
  /\ data' = job[c].payload
  /\ logs' = IF job[c].existing
             THEN [i \in DOMAIN logs |-> [logs[i] EXCEPT !.ofProject = FALSE]] ELSE logs
  /\ ToLog(c, "success")
  /\ UNCHANGED <<analysisVars, calls>>

LoadKeepingLogs(c) ==
  /\ pc[c] = "seeding"
  /\ job[c].existing => job[c].reset
  /\ ~LoadFails(c)
  /\ data' = job[c].payload
  /\ ClearSnapshots
  /\ ToLog(c, "success")
  /\ UNCHANGED <<logs, calls>>

\* _clear_project detaches the logs and deletes everything else of the project;
\* the new rows are committed with that.
Load(c) ==
  /\ pc[c] = "seeding"
  /\ job[c].existing => job[c].reset
  /\ ~LoadFails(c)
  /\ data' = job[c].payload
  /\ ClearSnapshots
  /\ logs' = IF job[c].existing
             THEN [i \in DOMAIN logs |-> [logs[i] EXCEPT !.ofProject = FALSE]] ELSE logs
  /\ ToLog(c, "success")
  /\ UNCHANGED calls

\* An IntegrityError rolls everything back and leaves the endpoint.
LoadError(c) ==
  /\ pc[c] = "seeding"
  /\ job[c].existing => job[c].reset
  /\ LoadFails(c)
  /\ EndCall(c)
  /\ UNCHANGED <<serverVars, logs, calls>>

\* The log is committed on its own; a skipped payload's has its date as well.
WriteLog(c) ==
  /\ pc[c] = "logging"
  /\ logs' = Append(logs, Log(TRUE, job[c].status, Datasets[job[c].payload].reference))
  /\ EndCall(c)
  /\ UNCHANGED <<serverVars, calls>>

\* The process dies, or the commit of the log fails.
Die(c) ==
  /\ pc[c] # "idle"
  /\ EndCall(c)
  /\ UNCHANGED <<serverVars, logs, calls>>

Ingest(c) ==
  \/ \E payload \in Payloads :
       \/ Refuse(c, payload) \/ Unhandled(c, payload)
       \/ \E reset \in BOOLEAN : LookUp(c, payload, reset)
  \/ Skip(c) \/ Load(c) \/ LoadError(c) \/ WriteLog(c) \/ Die(c)
--------------------------------------------------------------------------------
(* Analysis.                                                                   *)

LogsOfProject ==
  {i \in DOMAIN logs : logs[i].ofProject /\ logs[i].status \in {"success", "skipped"}}

\* The latest of some moments as a date, if there is one.
LatestDay(moments) == IF moments = {} THEN {} ELSE {Day(Max(moments))}

GuessedDate(d) ==
  IF d.metrics # {} THEN LatestDay({m.measured : m \in d.metrics})
  ELSE IF d.builds # {} THEN LatestDay({b.started : b \in d.builds})
  ELSE LatestDay({t.updated : t \in d.tickets})

\* _latest_reference_date; none is a 422.
LatestReferenceDate ==
  IF LogsOfProject # {} THEN {logs[Max(LogsOfProject)].reference}
  ELSE GuessedDate(Datasets[data])

\* POST /risks/analyze begins: the project and the sprint are there, and there is
\* a date.  (A load among these SELECTs is as if the caller had named the date.)
BeginAnalysis(sprint, asOf) ==
  /\ draft = NoDraft /\ analyses < MaxAnalyses
  /\ data # NoData
  /\ sprint \in ScopesOf(Datasets[data])
  /\ \E reference \in IF asOf # Null THEN {asOf} ELSE LatestReferenceDate :
       draft' = [sprint |-> sprint, reference |-> reference, seen |-> <<>>, link |-> {}]
  /\ UNCHANGED <<data, snapshots, analyses, overtaken, ingestVars>>

\* Six tables are read, one SELECT each; seen are the payloads they were read of.
TablesRead(seen) ==
  LET OfTable(i) == Datasets[seen[i]]
  IN  [tickets |-> OfTable(1).tickets, builds |-> OfTable(2).builds,
       metrics |-> OfTable(3).metrics, sprints |-> OfTable(4).sprints,
       testResults |-> OfTable(5).testResults, pullRequests |-> OfTable(6).pullRequests]

ReadTable ==
  /\ draft # NoDraft /\ Len(draft.seen) < 6
  /\ draft' = [draft EXCEPT !.seen = Append(@, data)]
  /\ UNCHANGED <<data, snapshots, analyses, overtaken, ingestVars>>

\* What is computed of them.
Drafted == Assessment(TablesRead(draft.seen), draft.sprint, draft.reference)

AlreadyStored(result) == \E row \in snapshots : row.result = result

\* It has not been stored before; the latest snapshot of the scope is looked up.
LinkSnapshot ==
  /\ draft # NoDraft /\ Len(draft.seen) = 6 /\ draft.link = {}
  /\ ~AlreadyStored(Drafted)
  /\ LET earlier == OfScope(snapshots, draft.sprint)
     IN  draft' = [draft EXCEPT !.link =
                     {IF earlier = {} THEN Null ELSE LatestRow(earlier).analyzedAt}]
  /\ UNCHANGED <<data, snapshots, analyses, overtaken, ingestVars>>

\* The primary key and the foreign keys of the new rows.
Insertable(result, previous) ==
  /\ ~AlreadyStored(result)
  /\ previous \in {Null} \cup {row.analyzedAt : row \in snapshots}
  /\ {result.sprint} \cup {f.sprint : f \in result.findings} \subseteq ScopesOf(Datasets[data])

\* The rows are written with their evidence, which must not be of a later date.
\* (When the tables read are not those of the data, the evidence is found partly
\* in the one, partly in the other, and may be either.)
InsertSnapshot ==
  /\ draft # NoDraft /\ draft.link # {}
  /\ (\A i \in 1..6 : draft.seen[i] = data) => EvidenceIsDated(Drafted, Datasets[data])
  /\ \E previous \in draft.link :
       /\ Insertable(Drafted, previous)
       /\ snapshots' = snapshots \cup {Row(analyses + 1, previous, Drafted)}
  /\ analyses' = analyses + 1
  /\ draft' = NoDraft
  /\ UNCHANGED <<data, overtaken, ingestVars>>

\* The answer is a snapshot stored before or an error, or the process dies.
EndAnalysis ==
  /\ draft # NoDraft
  /\ draft' = NoDraft
  /\ overtaken' = overtaken \ {analyses + 1}
  /\ UNCHANGED <<data, snapshots, analyses, ingestVars>>

Analyses ==
  \/ \E sprint \in Scopes, asOf \in AsOf : BeginAnalysis(sprint, asOf)
  \/ ReadTable \/ LinkSnapshot \/ InsertSnapshot \/ EndAnalysis

ProjectNext == Analyses \/ \E c \in Callers : Ingest(c)

ProjectSpec == ProjectInit /\ [][ProjectNext]_projectVars
--------------------------------------------------------------------------------
(* Properties.                                                                 *)

\* The snapshots of analyses that no load fell into.
Current == {row \in snapshots : row.analyzedAt \notin overtaken}

\* The numbers of a snapshot are in the ranges that the constructor of
\* DecisionSignals insists on, so only a coverage the payload brought along can
\* make a brief fail.
ProjectTypeOK ==
  /\ data \in Payloads \cup {NoData}
  /\ analyses \in 0..MaxAnalyses /\ calls \in 0..MaxIngestions
  /\ \A row \in snapshots :
       /\ row.analyzedAt \in 1..analyses /\ row.previous \in 0..(row.analyzedAt - 1)
       /\ SignalsAreValid([Signals(Datasets[data], row.result) EXCEPT !.testCoverage = {}])
  /\ overtaken \subseteq 1..(analyses + 1)
  /\ draft \in Drafts \cup {NoDraft}
  /\ logs \in Seq([ofProject : BOOLEAN, status : {"success", "skipped", "failed"}, reference : Nat])
  /\ pc \in [Callers -> {"idle", "seeding", "logging"}]

\* The two advisers never contradict each other on a release, however many risks
\* wait for a decision: the release the Decision Brief suggests is one the risk
\* summary does not hold back, and what the summary forbids the brief forbids.
AdvisersAgree ==
  \A row \in snapshots :
    LET suggested == Suggestion(Datasets[data], row.result)
        ready == ReleaseReadiness(row.result, Cardinality(row.result.findings))
    IN  /\ suggested = "GO" => ready = "GO"
        /\ ready = "NO-GO" => suggested \in {"NO_GO", "error"}

\* A GO is never suggested on data that is missing, stale or untested, nor when a
\* failed build or a coverage below 70 has not been made up for in its sprint,
\* though the signals of a project hold one coverage and no build.
GoIsClean ==
  \A row \in Current :
    LET d == Datasets[data]
        c == Context(d, row.result.sprint, row.result.reference)
    IN  Suggestion(d, row.result) = "GO" =>
          /\ TestedBuilds(c, d) = VisibleBuilds(c)
          /\ IsFresh(BuildMoments(c), c) /\ IsFresh(CoverageMoments(c), c)
          /\ \A b \in VisibleBuilds(c) : b.status = "failed" =>
               \E other \in VisibleBuilds(c) :
                 other.sprint = b.sprint /\ other.started >= b.started /\ other.status # "failed"
          /\ \A m \in VisibleCoverages(c) : m.value < 70 =>
               \E other \in VisibleCoverages(c) :
                 other.sprint = m.sprint /\ other.measured >= m.measured /\ other.value >= 70

\* What is only left to age gets no better: a later analysis that sees the same
\* builds and coverages has no lower score and no higher confidence.
AgeingNeverImproves ==
  \A row, other \in Current :
    LET Seen(r) == Context(Datasets[data], r.result.sprint, r.result.reference)
    IN  /\ row.result.sprint = other.result.sprint
        /\ row.result.reference < other.result.reference
        /\ VisibleBuilds(Seen(row)) = VisibleBuilds(Seen(other))
        /\ VisibleCoverages(Seen(row)) = VisibleCoverages(Seen(other))
        => /\ row.result.score <= other.result.score
           /\ row.result.confidence >= other.result.confidence

\* The changes of the factors explain the change of the score: rounding leaves
\* at most a tenth of a point between their sum and it.
DeltasExplainScores ==
  \A row, other \in snapshots :
    LET comparison == CompareSnapshots(row, {other}, snapshots)
        explained == MapThenSumSet(LAMBDA policy : comparison.changes[policy],
                                   DOMAIN comparison.changes)
    IN  row.result.sprint = other.result.sprint =>
          \A delta \in comparison.delta : explained - 10 * delta \in (-10)..10

\* The evidence of a stored risk holds the row the risk was found in, is all
\* connected to the risk, and lacks nothing but the test results of builds, which
\* the snapshot then reports as incomplete.
EvidenceIsWhole ==
  \A row \in Current : \A risk \in row.result.findings :
    LET chain == EvidenceOf(risk, Datasets[data])
        Closed(group) == \A edge \in chain.edges : edge[1] \in group <=> edge[2] \in group
    IN  /\ \E node \in chain.nodes : node.type = risk.type /\ node.id = risk.source
        /\ chain.edges \subseteq chain.nodes \X chain.nodes
        /\ \A group \in SUBSET chain.nodes :
             RiskNode \in group /\ Closed(group) => group = chain.nodes
        /\ \A link \in chain.missing :
             /\ link.relation = "build_to_test_result"
             /\ "test_results_incomplete" \in row.result.missing

\* The daily reports of a period tell the same story as its weekly report: their
\* deltas add up to its change of the score, and the risks they call new and
\* resolved are its own but for those already there at its first date or still
\* there at its last.  (With snapshots no load fell into, one of each date.)
ReportsTelescope ==
  \A sprint \in Scopes :
    LET rows == OfScope(snapshots, sprint)
        dates == {row.result.reference : row \in rows}
        d == Datasets[data]
    IN  rows \subseteq Current => \A start, end \in dates : start < end =>
          LET weekly == WeeklyReport(d, rows, start, end)
              later == {day \in dates : start < day /\ day <= end}
              daily == [day \in later |-> DailyReport(d, rows, day)]
          IN  /\ \A day \in later : daily[day].riskDelta # {}
              /\ MapThenSumSet(LAMBDA day : CHOOSE n \in daily[day].riskDelta : TRUE, later)
                    = weekly.scoreChange
              /\ weekly.newRisks = (UNION {daily[day].newRisks : day \in later})
                                     \ RiskKeys(d, OnDate(rows, start))
              /\ weekly.resolvedRisks = (UNION {daily[day].resolvedRisks : day \in later})
                                          \ RiskKeys(d, OnDate(rows, end))

\* The overview as of the date of a snapshot shows what its findings are about:
\* every blocked or overdue ticket of a finding, at least the failed builds of
\* the longest streak, and the coverage the advice is based on, if the scope has
\* no simultaneous coverages and none that is later.
OverviewCoversSnapshots ==
  \A row \in Current :
    LET d == Datasets[data]
        s == row.result
        overview == ProjectOverview(d, s.sprint, s.reference)
        Sources(policy) == {f.source : f \in {f \in s.findings : f.policy = policy}}
        coverages == {m \in InScope(d.metrics, s.sprint) : m.name = "test_coverage"}
    IN  /\ Sources("QA-BLOCKED-LONG") \subseteq overview.blockedTickets
        /\ Sources("QA-TICKET-OVERDUE") \subseteq overview.overdueTickets
        /\ \A f \in s.findings :
             f.policy = "QA-PIPELINE-FAILED" => f.value <= overview.failedBuilds
        /\ (\A m, other \in coverages : m.measured = other.measured => m = other)
             /\ (\A m \in coverages : Day(m.measured) <= s.reference)
             => overview.testCoverage = TestCoverage(d, s)

\* Whatever was loaded, skipped or lost in between, the stored snapshots are what
\* an analysis of the data that is there now gives: the id of one of them is
\* never met with another result (SnapshotConsistencyError).  Only a load that
\* falls into an analysis can leave a snapshot of older data, or of parts of two.
SnapshotsAreOfTheData ==
  \A row \in Current :
    /\ data # NoData
    /\ row.result = Assessment(Datasets[data], row.result.sprint, row.result.reference)

\* An analysis without as_of is made at the reference date of the data, also
\* after a reset, unless a payload has been skipped since; when the log was lost
\* the date guessed from builds or metrics is at least no later than that.
\* (Of ingestions one at a time.)
DefaultDateIsThatOfTheData ==
  data # NoData =>
    LET d == Datasets[data]
    IN  IF LogsOfProject = {}
        THEN d.metrics \cup d.builds # {} => \A day \in LatestReferenceDate : day <= d.reference
        ELSE logs[Max(LogsOfProject)].status = "success" => LatestReferenceDate = {d.reference}
================================================================================
