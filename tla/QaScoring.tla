------------------------------- MODULE QaScoring -------------------------------
(*****************************************************************************)
(* The score of a set of findings (qa_scoring.py).                           *)
(*                                                                           *)
(* Contributions are in hundredths, scores in tenths.  round() on a binary   *)
(* float takes a half up or down: HalvesUp says for which quotients it goes  *)
(* up.                                                                       *)
(*****************************************************************************)
EXTENDS PolicyEvaluator

CONSTANT HalvesUp

ASSUME HalvesUpAssumption == HalvesUp \subseteq Nat

\* round(n / d) for n >= 0 and d > 0.
Round(n, d) ==
  LET quotient == n \div d
      rest == 2 * (n % d)
  IN  IF rest > d \/ (rest = d /\ quotient \in HalvesUp) THEN quotient + 1 ELSE quotient
--------------------------------------------------------------------------------
(* calculate_risk_score.                                                       *)

OfPolicy(policy, findings) == {f \in findings : f.policy = policy.id}

\* The greatest signal and a bonus for each further finding.
Signal(policy, findings) ==
  IF findings = {} THEN 0
  ELSE Clamp(Max({f.signal : f \in findings}) + policy.bonus * (Cardinality(findings) - 1))

Contributions(findings) ==
  [id \in {policy.id : policy \in Enabled} |->
     LET policy == CHOOSE policy \in Enabled : policy.id = id
     IN  Round(100 * policy.weight * Signal(policy, OfPolicy(policy, findings)), Scale)]

TotalOf(contributions) ==
  MapThenSumSet(LAMBDA id : contributions[id], DOMAIN contributions)

Score(contributions) ==
  LET total == TotalOf(contributions)
  IN  Round(IF total > 10000 THEN 10000 ELSE total, 10)

ScoreSeverity(score) ==
  IF score >= 700 THEN "critical" ELSE IF score >= 450 THEN "high"
  ELSE IF score >= 200 THEN "medium" ELSE "low"

\* finding_priority and finding_score.
FindingPriority(f) == 4 - SeverityRank[f.severity]
FindingScore(f) == 25 * (1 + SeverityRank[f.severity])
================================================================================
