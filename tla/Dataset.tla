-------------------------------- MODULE Dataset --------------------------------
(*****************************************************************************)
(* The dataset of one project: its tables (models.py) and the rules a        *)
(* payload is held to before it is loaded (schemas.py, dataset_validation.py)*)
(*                                                                           *)
(* Ids are positive numbers, ordered like the strings they stand for, and a  *)
(* nullable column holds Null when it is empty.  Dates are days; a datetime  *)
(* is a moment in half-days (UTC), so that a ticket may be blocked at noon.  *)
(*****************************************************************************)
EXTENDS Integers, FiniteSets

Null == 0
Keys == Nat \ {Null}
Days == Nat \ {Null}
Moments == {m \in Nat : m >= 2}

\* The moments of a payload are in UTC.  (SQLite stores one of another offset as
\* its wall-clock time without the offset; such payloads are not modelled.)
\* The date of a datetime, 00:00 of a date, and the last moment of a date.
Day(moment) == moment \div 2
Midnight(day) == 2 * day
ReferenceDayEnd(day) == 2 * day + 1

Sprints == [id : Keys, status : STRING, start : Days, end : Days]

Tickets ==
  [id : Keys, sprint : Nat, type : STRING, status : STRING, priority : STRING,
   points : Nat, created : Moments, updated : Moments, due : Nat,
   blockedSince : Nat, closed : Nat]

\* A commit is known by its sha.
Commits == [sha : Keys, ticket : Nat, committed : Moments]

PullRequests == [id : Keys, ticket : Nat, created : Moments, merged : Nat]

Builds ==
  [id : Keys, sprint : Nat, pullRequest : Nat, sha : Keys, status : STRING,
   pipeline : STRING, started : Moments, finished : Nat]

TestResults == [id : Keys, build : Keys, executed : Moments]

\* test_coverage, the only metric the code reads, is in percents, here whole ones;
\* nothing keeps a payload from giving another number.
Metrics == [id : Keys, sprint : Nat, name : STRING, value : Int, measured : Moments]

\* The tables of a payload, which are as finite as the file they are read from.
IsDataset(d) ==
  /\ d.reference \in Days
  /\ d.sprints \subseteq Sprints
  /\ d.tickets \subseteq Tickets
  /\ d.commits \subseteq Commits
  /\ d.pullRequests \subseteq PullRequests
  /\ d.builds \subseteq Builds
  /\ d.testResults \subseteq TestResults
  /\ d.metrics \subseteq Metrics
  /\ \A table \in {"sprints", "tickets", "commits", "pullRequests", "builds",
                   "testResults", "metrics"} : IsFiniteSet(d[table])
--------------------------------------------------------------------------------
(* DemoDataset.validate_references.                                            *)

IdsOf(rows) == {row.id : row \in rows}
UniqueIds(rows) == Cardinality(IdsOf(rows)) = Cardinality(rows)
OptionalReference(references, rows) == references \ {Null} \subseteq IdsOf(rows)

\* The sprint of a metric is not among the references that are checked.
ReferencesResolve(d) ==
  /\ UniqueIds(d.sprints) /\ UniqueIds(d.tickets)
  /\ UniqueIds(d.pullRequests) /\ UniqueIds(d.builds)
  /\ OptionalReference({t.sprint : t \in d.tickets}, d.sprints)
  /\ OptionalReference({c.ticket : c \in d.commits}, d.tickets)
  /\ OptionalReference({p.ticket : p \in d.pullRequests}, d.tickets)
  /\ OptionalReference({b.sprint : b \in d.builds}, d.sprints)
  /\ OptionalReference({b.pullRequest : b \in d.builds}, d.pullRequests)
  /\ {r.build : r \in d.testResults} \subseteq IdsOf(d.builds)
--------------------------------------------------------------------------------
(* validate_dataset_consistency.                                               *)

InsideSprint(moment, id, d) ==
  \A s \in d.sprints : s.id = id => s.start <= Day(moment) /\ Day(moment) <= s.end

TicketConsistent(t) ==
  /\ t.created <= t.updated
  /\ t.blockedSince # Null => t.created <= t.blockedSince
  /\ t.closed # Null => t.created <= t.closed

PullRequestConsistent(p) == p.merged # Null => p.created <= p.merged

\* A build, its pull request, its commit and their ticket, in one sprint and in
\* the order in which they must have happened.
ChainConsistent(b, d) ==
  \E p \in d.pullRequests, c \in d.commits, t \in d.tickets :
    /\ p.id = b.pullRequest /\ c.sha = b.sha
    /\ p.ticket = t.id /\ c.ticket = t.id
    /\ b.sprint = t.sprint
    /\ c.committed <= p.created /\ p.created <= b.started
    /\ \A moment \in {c.committed, p.created, b.started} :
         InsideSprint(moment, b.sprint, d)

BuildConsistent(b, d) ==
  /\ ChainConsistent(b, d)
  /\ b.finished # Null => b.started <= b.finished /\ b.finished <= ReferenceDayEnd(d.reference)
  /\ b.started <= ReferenceDayEnd(d.reference)

Finish(b) == IF b.finished # Null THEN b.finished ELSE b.started

TestResultConsistent(r, d) ==
  \E b \in d.builds :
    /\ b.id = r.build
    /\ Finish(b) <= r.executed
    /\ r.executed <= ReferenceDayEnd(d.reference)
    /\ InsideSprint(r.executed, b.sprint, d)

MetricConsistent(m, d) ==
  /\ m.measured <= ReferenceDayEnd(d.reference)
  /\ m.sprint # Null => InsideSprint(m.measured, m.sprint, d)

DatasetConsistent(d) ==
  /\ \A s \in d.sprints : s.start <= s.end
  /\ \A t \in d.tickets : TicketConsistent(t)
  /\ \A p \in d.pullRequests : PullRequestConsistent(p)
  /\ \A b \in d.builds : BuildConsistent(b, d)
  /\ \A r \in d.testResults : TestResultConsistent(r, d)
  /\ \A m \in d.metrics : MetricConsistent(m, d)

\* sprints[...] is looked up with a sprint that may be missing: that of a build
\* whose ticket has none, or that of a metric.  The KeyError is none of the
\* errors a validator turns into a refusal.
LookupFails(d) ==
  \/ \E b \in d.builds : b.sprint = Null
  \/ \E m \in d.metrics : m.sprint \notin IdsOf(d.sprints) \cup {Null}

\* validate_payload: what becomes of a payload.  (Whichever fault comes first
\* in the file decides when there are several; refusals are put first here.)
Verdict(d) ==
  IF ~ReferencesResolve(d) \/ ~DatasetConsistent(d) THEN "refused"
  ELSE IF LookupFails(d) THEN "unhandled" ELSE "valid"
================================================================================
