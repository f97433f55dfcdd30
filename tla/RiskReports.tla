------------------------------ MODULE RiskReports ------------------------------
(*****************************************************************************)
(* What is told of the snapshots of a project: the delta between two         *)
(* (risk_delta_service.py), the daily and the weekly report                  *)
(* (report_service.py) and the overview of the data (project_service.py).    *)
(*                                                                           *)
(* A row of risk_analyses is an assessment with the moment it was made,      *)
(* analyzedAt, which is distinct for each and stands for its id; previous is *)
(* that of the snapshot it is linked to.                                     *)
(*****************************************************************************)
EXTENDS DecisionEngine

Row(analyzedAt, previous, result) ==
  [analyzedAt |-> analyzedAt, previous |-> previous, result |-> result]

OfScope(rows, sprint) == {row \in rows : row.result.sprint = sprint}

\* analysis_history: by analyzed_at; the reports go by date first.
LatestRow(rows) ==
  CHOOSE row \in rows : \A other \in rows : other.analyzedAt <= row.analyzedAt

Precedes(row, other) ==
  \/ row.result.reference < other.result.reference
  \/ /\ row.result.reference = other.result.reference
     /\ row.analyzedAt < other.analyzedAt

FirstByDate(rows) == CHOOSE row \in rows : \A other \in rows : ~Precedes(other, row)
LastByDate(rows) == CHOOSE row \in rows : \A other \in rows : ~Precedes(row, other)
--------------------------------------------------------------------------------
(* compare_snapshots.  A missing snapshot is the empty set.                    *)

ContributionIn(rows, policy) ==
  MapThenSumSet(LAMBDA row : row.result.contributions[policy], rows)

\* Without a snapshot to compare with, the one the row is linked to is taken.
ComparedWith(current, previous, rows) ==
  IF previous # {} THEN previous
  ELSE {row \in rows : row.analyzedAt = current.previous}

\* The change of each factor; in the code those that are 0 are only counted.
FactorDeltas(current, base) ==
  [policy \in DOMAIN current.result.contributions |->
     ContributionIn({current}, policy) - ContributionIn(base, policy)]

\* Fault: the older score is rounded to whole points.
ScoreDeltaOfPoints(current, base) ==
  {current.result.score - 10 * (row.result.score \div 10) : row \in base}

ScoreDelta(current, base) == {current.result.score - row.result.score : row \in base}

CompareSnapshots(current, previous, rows) ==
  LET base == ComparedWith(current, previous, rows)
  IN  [base |-> base, delta |-> ScoreDelta(current, base),
       changes |-> FactorDeltas(current, base)]
--------------------------------------------------------------------------------
(* stable_risk_key: the identity of a risk from one snapshot to the next.      *)

StableSource(d, risk) ==
  IF risk.policy = "QA-PIPELINE-FAILED"
    THEN {b.pipeline : b \in {b \in d.builds : b.id = risk.source}}
  ELSE IF risk.policy = "QA-COVERAGE-LOW" THEN {risk.sprint} ELSE {risk.source}

StableRiskKey(d, risk) == <<risk.policy, risk.type, StableSource(d, risk)>>

RiskKeys(d, rows) ==
  {StableRiskKey(d, risk) : risk \in UNION {row.result.findings : row \in rows}}

\* _risk_map: of the risks with one key the last by priority and source.
RiskWithKey(d, row, key) ==
  LET risks == {risk \in row.result.findings : StableRiskKey(d, risk) = key}
      After(risk, other) ==
        \/ FindingPriority(risk) > FindingPriority(other)
        \/ FindingPriority(risk) = FindingPriority(other) /\ risk.source > other.source
  IN  CHOOSE risk \in risks : \A other \in risks : ~After(other, risk)
--------------------------------------------------------------------------------
(* daily_report and weekly_report of the snapshots of one scope.               *)

OnDate(rows, day) == {row \in rows : row.result.reference = day}
Within(rows, start, end) ==
  {row \in rows : row.result.reference >= start /\ row.result.reference <= end}

\* Fault: the day before is looked for, not the last day with a snapshot.
DayBefore(rows, day) == OnDate(rows, day - 1)

\* The last snapshot of an earlier date, if there is one.
Earlier(rows, day) ==
  LET earlier == {row \in rows : row.result.reference < day}
  IN  IF earlier = {} THEN {} ELSE {LastByDate(earlier)}

Aggravated(d, current, previous, changes) ==
  {key \in RiskKeys(d, {current}) \cap RiskKeys(d, previous) :
     LET risk == RiskWithKey(d, current, key)
     IN  \/ changes[risk.policy] > 0 /\ ContributionIn(previous, risk.policy) > 0
         \/ \E row \in previous :
              FindingPriority(risk) < FindingPriority(RiskWithKey(d, row, key))}

\* Defined when the date has a snapshot (404 otherwise).
DailyReport(d, rows, day) ==
  LET current == LastByDate(OnDate(rows, day))
      previous == Earlier(rows, day)
      comparison == CompareSnapshots(current, previous, rows)
  IN  [snapshot |-> current.analyzedAt, riskDelta |-> comparison.delta,
       newRisks |-> RiskKeys(d, {current}) \ RiskKeys(d, previous),
       resolvedRisks |-> RiskKeys(d, previous) \ RiskKeys(d, {current}),
       aggravatedRisks |-> Aggravated(d, current, previous, comparison.changes),
       suggestedDecision |-> Suggestion(d, current.result)]

\* Defined when the period has two snapshots (404 otherwise, 422 when it ends
\* before it starts).
WeeklyReport(d, rows, start, end) ==
  LET shown == Within(rows, start, end)
      keys == RiskKeys(d, shown)
  IN  [scoreChange |-> LastByDate(shown).result.score - FirstByDate(shown).result.score,
       newRisks |-> keys \ RiskKeys(d, {FirstByDate(shown)}),
       resolvedRisks |-> keys \ RiskKeys(d, {LastByDate(shown)}),
       persistentRisks |-> {key \in keys : \A row \in shown : key \in RiskKeys(d, {row})},
       suggestedNextDecision |-> Suggestion(d, LastByDate(shown).result)]
--------------------------------------------------------------------------------
(* project_overview as of a date: of the tables as they are, whatever the date *)

ProjectOverview(d, sprint, asOf) ==
  LET tickets == InScope(d.tickets, sprint)
      coverages == {m \in InScope(d.metrics, sprint) : m.name = "test_coverage"}
      done == {t \in tickets : t.status = "done"}
      points(rows) == MapThenSumSet(LAMBDA t : t.points, rows)
  IN  [doneTickets |-> IdsOf(done),
       progress |-> IF points(tickets) = 0 THEN 0
                    ELSE Round(1000 * points(done), points(tickets)),
       blockedTickets |-> IdsOf({t \in tickets : t.status = "blocked"}),
       overdueTickets |-> IdsOf({t \in tickets \ done : t.due # Null /\ t.due < asOf}),
       failedBuilds |-> Cardinality({b \in InScope(d.builds, sprint) : b.status = "failed"}),
       testCoverage |->
         {m.value : m \in {m \in coverages : \A other \in coverages :
            other.measured < m.measured
              \/ (other.measured = m.measured /\ other.id >= m.id)}}]
================================================================================
