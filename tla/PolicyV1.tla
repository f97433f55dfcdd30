-------------------------------- MODULE PolicyV1 --------------------------------
(* policies/qa-rules-v1.0.json, the policy file the server loads.               *)
EXTENDS Integers

LOCAL Condition(metric, operator, value) ==
  [metric |-> metric, operator |-> operator, isList |-> FALSE, values |-> {value}]

LOCAL Override(metric, operator, value, severity) ==
  [condition |-> Condition(metric, operator, value), severity |-> severity]

\* What the five have in common; a bonus of .15 is 756 of 5040.
LOCAL Policy(id, entity, severity, weight, condition, strategy, divisor, overrides) ==
  [id |-> id, entity |-> entity, severity |-> severity, weight |-> weight,
   condition |-> condition, strategy |-> strategy, divisor |-> divisor,
   baseline |-> IF strategy = "distance_below" THEN condition.values ELSE {},
   bonus |-> 756, overrides |-> overrides, enabled |-> TRUE]

QaRulesV1 ==
  {Policy("QA-BLOCKED-LONG", "ticket", "high", 20,
          Condition("blocked_hours", "greater_than", 72), "ratio", 144,
          {Override("active_high_priority", "equal", 1, "critical")}),
   Policy("QA-TICKET-OVERDUE", "ticket", "medium", 15,
          Condition("overdue_days", "greater_than", 0), "ratio", 7,
          {Override("active_high_priority", "equal", 1, "high")}),
   Policy("QA-CRITICAL-BUG-OPEN", "ticket", "critical", 25,
          Condition("open_critical_bug", "equal", 1), "boolean", 1, {}),
   Policy("QA-PIPELINE-FAILED", "build", "high", 25,
          Condition("consecutive_failed_builds", "greater_than", 0), "ratio", 2,
          {Override("consecutive_failed_builds", "greater_or_equal", 2, "critical")}),
   Policy("QA-COVERAGE-LOW", "metric", "high", 15,
          Condition("coverage_percent", "less_than", 70), "distance_below", 30,
          {Override("coverage_percent", "less_than", 50, "critical")})}
================================================================================
