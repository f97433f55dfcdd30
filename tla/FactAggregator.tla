---------------------------- MODULE FactAggregator ----------------------------
(*****************************************************************************)
(* What an analysis looks at (QAAgent.analyze) and the facts it draws from it*)
(* (fact_aggregator.py): one per blocked ticket, overdue ticket or open      *)
(* critical bug, one per sprint with builds, one per sprint with a coverage. *)
(*****************************************************************************)
EXTENDS Dataset

\* The rows of the scope: a sprint, or the whole project when it is Null.
InScope(rows, sprint) == {row \in rows : sprint = Null \/ row.sprint = sprint}

\* RuleContext.
Context(d, sprint, reference) ==
  [reference |-> reference, sprint |-> sprint, sprints |-> d.sprints,
   tickets |-> InScope(d.tickets, sprint), builds |-> InScope(d.builds, sprint),
   metrics |-> InScope(d.metrics, sprint)]

\* A fact; activeHigh is the attribute active_high_priority, which only the
\* facts of a ticket have.
Fact(metric, value, type, row, observed, activeHigh) ==
  [metric |-> metric, value |-> value, type |-> type, source |-> row.id,
   sprint |-> row.sprint, observed |-> observed, activeHigh |-> activeHigh]

Flag(condition) == {IF condition THEN 1 ELSE 0}
--------------------------------------------------------------------------------
(* Tickets: those created by the reference date, with the status they have now.*)

VisibleTickets(c) == {t \in c.tickets : Day(t.created) <= c.reference}

ActiveHighPriority(t, c) ==
  /\ t.priority \in {"high", "critical"}
  /\ \E s \in c.sprints : s.id = t.sprint /\ s.status = "active"

BlockedHours(t, c) == 12 * (Midnight(c.reference) - t.blockedSince)

BlockedFacts(c) ==
  {Fact("blocked_hours", BlockedHours(t, c), "ticket", t, t.blockedSince,
        Flag(ActiveHighPriority(t, c))) :
     t \in {t \in VisibleTickets(c) : t.status = "blocked" /\ t.blockedSince # Null}}

\* Fault: tickets that are done are overdue as well.
OverdueFactsOfAll(c) ==
  {Fact("overdue_days", c.reference - t.due, "ticket", t, t.updated,
        Flag(ActiveHighPriority(t, c))) :
     t \in {t \in VisibleTickets(c) : t.due # Null}}

OverdueFacts(c) ==
  {Fact("overdue_days", c.reference - t.due, "ticket", t, t.updated,
        Flag(ActiveHighPriority(t, c))) :
     t \in {t \in VisibleTickets(c) : t.status # "done" /\ t.due # Null}}

CriticalBugFacts(c) ==
  {Fact("open_critical_bug", 1, "ticket", t, t.updated, Flag(ActiveHighPriority(t, c))) :
     t \in {t \in VisibleTickets(c) :
              t.type = "bug" /\ t.priority = "critical" /\ t.status # "done"}}

TicketFacts(c) == BlockedFacts(c) \cup OverdueFacts(c) \cup CriticalBugFacts(c)
--------------------------------------------------------------------------------
(* Builds: for each sprint the latest one and the failures it ends.            *)

VisibleBuilds(c) == {b \in c.builds : Day(b.started) <= c.reference}

\* By started_at, then by id: the order in which the query returns them.
StartedAfter(b, other) ==
  \/ b.started > other.started
  \/ b.started = other.started /\ b.id > other.id

IsLatestBuild(b, builds) == \A other \in builds : ~StartedAfter(other, b)

\* The failed builds that nothing but failures follows.
FailureStreak(builds) ==
  Cardinality({b \in builds :
    \A other \in builds : other = b \/ StartedAfter(other, b) => other.status = "failed"})

BuildFacts(c) ==
  LET OfSprint(b) == {other \in VisibleBuilds(c) : other.sprint = b.sprint}
  IN  {Fact("consecutive_failed_builds", FailureStreak(OfSprint(b)), "build", b, b.started, {}) :
         b \in {b \in VisibleBuilds(c) : IsLatestBuild(b, OfSprint(b))}}
--------------------------------------------------------------------------------
(* Metrics: for each sprint the latest coverage, the first of simultaneous ones*)

VisibleCoverages(c) ==
  {m \in c.metrics : m.name = "test_coverage" /\ Day(m.measured) <= c.reference}

MeasuredBefore(m, other) ==
  \/ m.measured < other.measured
  \/ m.measured = other.measured /\ m.id > other.id

\* Fault: only the latest coverage of all sprints is looked at.
LatestCoverageOfAll(c) ==
  {m \in VisibleCoverages(c) : \A other \in VisibleCoverages(c) : ~MeasuredBefore(m, other)}

LatestCoverages(c) ==
  {m \in VisibleCoverages(c) :
     \A other \in VisibleCoverages(c) :
       other.sprint = m.sprint => ~MeasuredBefore(m, other)}

MetricFacts(c) ==
  {Fact("coverage_percent", m.value, "metric", m, m.measured, {}) : m \in LatestCoverages(c)}

CollectFacts(c) == TicketFacts(c) \cup BuildFacts(c) \cup MetricFacts(c)
================================================================================
