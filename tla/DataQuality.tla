------------------------------ MODULE DataQuality ------------------------------
(*****************************************************************************)
(* How far the data of a scope can be trusted (data_quality_service.py), and *)
(* what an analysis has computed when it goes on to store it.                *)
(*                                                                           *)
(* Confidence, coverage and freshness are in hundredths.                     *)
(*****************************************************************************)
EXTENDS QaScoring

FreshnessDays == 14

\* A sprint is not older than its end.
ScopeReferenceDate(c) ==
  Min({c.reference} \cup {s.end : s \in {s \in c.sprints : s.id = c.sprint}})

BuildMoments(c) == {b.started : b \in VisibleBuilds(c)}
CoverageMoments(c) == {m.measured : m \in VisibleCoverages(c)}

\* By the latest of some moments, if there is one.
IsStale(moments, c) ==
  moments # {} /\ ScopeReferenceDate(c) - Day(Max(moments)) > FreshnessDays
IsFresh(moments, c) == moments # {} /\ ~IsStale(moments, c)

TestedBuilds(c, d) ==
  {b \in VisibleBuilds(c) : \E r \in d.testResults : r.build = b.id}

ReviewedBuilds(c, d) ==
  {b \in VisibleBuilds(c) : \E p \in d.pullRequests : p.id = b.pullRequest}

Codes(condition, code) == IF condition THEN {code} ELSE {}

\* Every ticket of the scope counts, those created later included.
MissingInformation(c, d) ==
  LET builds == VisibleBuilds(c)
  IN  UNION {Codes(c.tickets = {}, "tickets_missing"),
             Codes(builds = {}, "builds_missing"),
             Codes(builds = {}, "test_results_missing"),
             Codes(TestedBuilds(c, d) # builds, "test_results_incomplete"),
             Codes(VisibleCoverages(c) = {}, "coverage_metric_missing"),
             Codes(ReviewedBuilds(c, d) # builds, "build_pr_relations_incomplete")}

StaleInformation(c) ==
  Codes(IsStale(BuildMoments(c), c), "builds_stale")
    \cup Codes(IsStale(CoverageMoments(c), c), "coverage_metric_stale")

One(condition) == IF condition THEN 1 ELSE 0

\* Fault: the test results are counted, not the builds they are of.
TestedByResults(c, d) == Cardinality({r \in d.testResults : r.build \in IdsOf(VisibleBuilds(c))})

Tested(c, d) == Cardinality(TestedBuilds(c, d))

\* Shares are over the number of builds.  Sources, freshness and relations weigh
\* .6, .2 and .2, shared by four, two and two components.
Quality(c, d) ==
  LET builds == Max({Cardinality(VisibleBuilds(c)), 1})
      tested == Tested(c, d)
      relations == tested + Cardinality(ReviewedBuilds(c, d))
      present == One(c.tickets # {}) + One(VisibleBuilds(c) # {}) + One(VisibleCoverages(c) # {})
      sources == present * builds + tested
      fresh == One(IsFresh(BuildMoments(c), c)) + One(IsFresh(CoverageMoments(c), c))
  IN  [freshness |-> 50 * fresh,
       confidence |-> Round(15 * sources + 10 * fresh * builds + 10 * relations, builds),
       evidenceCoverage |-> Round(100 * (sources + 2 * relations), 8 * builds)]
--------------------------------------------------------------------------------
\* What QAAgent.analyze hands to persist_snapshot.
Assessment(d, sprint, reference) ==
  LET c == Context(d, sprint, reference)
      findings == EvaluateRules(c)
      contributions == Contributions(findings)
      quality == Quality(c, d)
  IN  [sprint |-> sprint, reference |-> reference,
       facts |-> CollectFacts(c), findings |-> findings,
       contributions |-> contributions, score |-> Score(contributions),
       severity |-> ScoreSeverity(Score(contributions)),
       confidence |-> quality.confidence,
       evidenceCoverage |-> quality.evidenceCoverage,
       freshness |-> quality.freshness,
       missing |-> MissingInformation(c, d), stale |-> StaleInformation(c)]
================================================================================
