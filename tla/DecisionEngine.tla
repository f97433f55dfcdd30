----------------------------- MODULE DecisionEngine -----------------------------
(*****************************************************************************)
(* The advice given on a snapshot: the suggested decision of a Decision Brief*)
(* (decision_domain.py, decision_signal_service.py, decision_engine.py) and  *)
(* the release readiness of the risk summary (release_readiness_service.py). *)
(*                                                                           *)
(* Scores are in tenths, ratios in hundredths, coverages in percents.        *)
(*****************************************************************************)
EXTENDS DataQuality

\* DecisionThresholds, the default ones: the program gives no others.
Thresholds ==
  [goMaxRiskScore |-> 250, conditionalMaxRiskScore |-> 600, minimumConfidence |-> 60,
   minimumEvidenceCoverage |-> 70, minimumDataFreshness |-> 60, minimumTestCoverage |-> 70]

\* The latest coverage of the scope by its date, as the tables hold it now; of
\* simultaneous ones the last.  The set is empty when there is none.
TestCoverage(d, s) ==
  LET candidates == {m \in InScope(d.metrics, s.sprint) :
                       m.name = "test_coverage" /\ Day(m.measured) <= s.reference}
      After(m, other) == m.measured > other.measured
                           \/ (m.measured = other.measured /\ m.id > other.id)
  IN  {m.value : m \in {m \in candidates : \A other \in candidates : ~After(other, m)}}

CriticalRisks(s) == {risk \in s.findings : risk.severity = "critical"}
PoliciesOf(risks) == {risk.policy : risk \in risks}

\* signals_from_snapshot; the risks of an analysis are all open.
Signals(d, s) ==
  [riskScore |-> s.score, confidence |-> s.confidence,
   evidenceCoverage |-> s.evidenceCoverage, dataFreshness |-> s.freshness,
   blockingRisks |-> CriticalRisks(s), violatedPolicies |-> PoliciesOf(s.findings),
   blockingPolicies |-> PoliciesOf(CriticalRisks(s)),
   testCoverage |-> TestCoverage(d, s), missing |-> s.missing, stale |-> s.stale]

\* DecisionSignals.__post_init__.
SignalsAreValid(signals) ==
  /\ signals.riskScore \in 0..1000
  /\ signals.confidence \in 0..100
  /\ signals.evidenceCoverage \in 0..100
  /\ signals.dataFreshness \in 0..100
  /\ signals.testCoverage \subseteq 0..100
--------------------------------------------------------------------------------
(* evaluate_decision: the rules that are triggered, and what they suggest.     *)

Blockers(signals) ==
  UNION {Codes(signals.blockingRisks # {}, "NO_GO_BLOCKING_RISK"),
         Codes(signals.blockingRisks # {}, "NO_GO_CRITICAL_RISK"),
         Codes(signals.blockingPolicies # {}, "NO_GO_BLOCKING_POLICY"),
         Codes("QA-PIPELINE-FAILED" \in signals.blockingPolicies, "NO_GO_CRITICAL_CI_FAILURE"),
         Codes("QA-CRITICAL-BUG-OPEN" \in signals.violatedPolicies, "NO_GO_OPEN_CRITICAL_BUG")}

InformationGaps(signals) ==
  UNION {Codes(signals.confidence < Thresholds.minimumConfidence, "INSUFFICIENT_LOW_CONFIDENCE"),
         Codes(signals.evidenceCoverage < Thresholds.minimumEvidenceCoverage,
               "INSUFFICIENT_EVIDENCE_COVERAGE"),
         Codes(signals.dataFreshness < Thresholds.minimumDataFreshness,
               "INSUFFICIENT_DATA_FRESHNESS"),
         Codes(signals.testCoverage = {}, "INSUFFICIENT_TEST_COVERAGE_MISSING"),
         Codes(signals.missing # {}, "INSUFFICIENT_MISSING_INFORMATION")}

HighScore(signals) ==
  Codes(signals.riskScore > Thresholds.conditionalMaxRiskScore, "NO_GO_HIGH_RISK_SCORE")

Conditions(signals) ==
  UNION {Codes(signals.riskScore > Thresholds.goMaxRiskScore, "CONDITIONAL_ELEVATED_RISK_SCORE"),
         Codes(signals.violatedPolicies # {}, "CONDITIONAL_POLICY_VIOLATIONS"),
         Codes(\E value \in signals.testCoverage : value < Thresholds.minimumTestCoverage,
               "CONDITIONAL_LOW_TEST_COVERAGE"),
         Codes("QA-BLOCKED-LONG" \in signals.violatedPolicies, "CONDITIONAL_BLOCKED_TICKETS"),
         Codes("QA-TICKET-OVERDUE" \in signals.violatedPolicies, "CONDITIONAL_OVERDUE_TICKETS"),
         Codes(signals.stale # {}, "CONDITIONAL_STALE_INFORMATION")}

QADecision == {"GO", "GO_WITH_CONDITIONS", "NO_GO", "INSUFFICIENT_INFORMATION"}

\* Fault: information is asked for first.
InformationFirst(signals) ==
  IF InformationGaps(signals) # {} THEN "INSUFFICIENT_INFORMATION"
  ELSE IF Blockers(signals) # {} \/ HighScore(signals) # {} THEN "NO_GO"
  ELSE IF Conditions(signals) # {} THEN "GO_WITH_CONDITIONS" ELSE "GO"

\* The first group of rules that has one decides.
EvaluateDecision(signals) ==
  IF Blockers(signals) # {} THEN "NO_GO"
  ELSE IF InformationGaps(signals) # {} THEN "INSUFFICIENT_INFORMATION"
  ELSE IF HighScore(signals) # {} THEN "NO_GO"
  ELSE IF Conditions(signals) # {} THEN "GO_WITH_CONDITIONS" ELSE "GO"

\* What a Decision Brief, a report or a review gets; the ValueError of a signal
\* out of its range leaves all three endpoints.
Suggestion(d, s) ==
  IF SignalsAreValid(Signals(d, s)) THEN EvaluateDecision(Signals(d, s)) ELSE "error"
--------------------------------------------------------------------------------
(* release_readiness.                                                          *)

MinimumConfidence == 70
EssentialMissingCodes ==
  {"tickets_missing", "builds_missing", "test_results_missing", "coverage_metric_missing"}

\* pending counts the risks without a decision.
ReleaseReadiness(s, pending) ==
  IF s.confidence < MinimumConfidence \/ s.missing \cap EssentialMissingCodes # {}
    THEN "INSUFFICIENT INFORMATION"
  ELSE IF CriticalRisks(s) # {} THEN "NO-GO"
  ELSE IF s.severity \in {"medium", "high"} \/ pending > 0 THEN "GO WITH CONDITIONS" ELSE "GO"
================================================================================
