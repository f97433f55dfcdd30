---------------------------- MODULE PolicyEvaluator ----------------------------
(*****************************************************************************)
(* Policies as code: what a policy file may say (policy_models.py,           *)
(* policy_loader.py) and how a policy turns facts into findings              *)
(* (policy_evaluator.py).                                                    *)
(*                                                                           *)
(* A signal between 0 and 1 is a number of 1/Scale, which every divisor of   *)
(* qa-rules-v1.0 divides; booleans are 0 and 1.                              *)
(*****************************************************************************)
EXTENDS FactAggregator, FiniteSetsExt

CONSTANT Policies  \* PolicySet.policies

Scale == 5040

Severity == {"low", "medium", "high", "critical"}
SeverityRank == [low |-> 0, medium |-> 1, high |-> 2, critical |-> 3]

EntityByMetric ==
  [blocked_hours |-> "ticket", overdue_days |-> "ticket",
   open_critical_bug |-> "ticket", consecutive_failed_builds |-> "build",
   coverage_percent |-> "metric"]

Collections == {"in", "not_in"}
Operators == Collections \cup
  {"equal", "not_equal", "greater_than", "greater_or_equal", "less_than", "less_or_equal"}
--------------------------------------------------------------------------------
(* The validators of the policy file.                                          *)

\* A scalar is a list of one value that is not a list.
ConditionIsValid(condition) ==
  /\ condition.operator \in Operators
  /\ condition.metric \in DOMAIN EntityByMetric \cup {"active_high_priority"}
  /\ condition.isList <=> condition.operator \in Collections
  /\ ~condition.isList => Cardinality(condition.values) = 1

PolicyIsValid(policy) ==
  /\ ConditionIsValid(policy.condition)
  /\ policy.condition.metric \in DOMAIN EntityByMetric
  /\ policy.entity = EntityByMetric[policy.condition.metric]
  /\ policy.severity \in Severity
  /\ policy.weight \in 0..100
  /\ policy.strategy \in {"ratio", "boolean", "distance_below"}
  /\ policy.divisor \in Nat \ {0}
  /\ policy.strategy = "distance_below" => policy.baseline # {}
  /\ policy.bonus \in 0..Scale
  /\ \A override \in policy.overrides :
       ConditionIsValid(override.condition) /\ override.severity \in Severity

\* semantic_fingerprint: what the policy detects, whatever it is called.
Semantics(policy) ==
  <<policy.entity, policy.condition, policy.strategy, policy.divisor,
    policy.baseline, policy.bonus, policy.overrides>>

Enabled == {policy \in Policies : policy.enabled}

\* get_policy_set raises PolicyConfigurationError otherwise.
PolicySetAssumption ==
  /\ Policies # {} /\ IsFiniteSet(Policies)
  /\ \A policy \in Policies : PolicyIsValid(policy)
  /\ \A a, b \in Policies : a.id = b.id => a = b
  /\ MapThenSumSet(LAMBDA policy : policy.weight, Enabled) <= 100
  /\ \A a, b \in Enabled : Semantics(a) = Semantics(b) => a = b

ASSUME PolicySetIsValid == PolicySetAssumption

\* Of this model only: signals are whole numbers of 1/Scale, like baselines.
ASSUME ScaleAssumption ==
  \A policy \in Policies : Scale % policy.divisor = 0 /\ policy.baseline \subseteq Int
--------------------------------------------------------------------------------
(* evaluate_policy.                                                            *)

\* _matches on a value that is there.
Compares(actual, condition) ==
  LET Is(Test(_)) == \E expected \in condition.values : Test(expected)
  IN  \/ condition.operator \in {"equal", "in"} /\ actual \in condition.values
      \/ condition.operator \in {"not_equal", "not_in"} /\ actual \notin condition.values
      \/ condition.operator = "greater_than" /\ Is(LAMBDA v : actual > v)
      \/ condition.operator = "greater_or_equal" /\ Is(LAMBDA v : actual >= v)
      \/ condition.operator = "less_than" /\ Is(LAMBDA v : actual < v)
      \/ condition.operator = "less_or_equal" /\ Is(LAMBDA v : actual <= v)

\* Fact.value_for: the values a fact has for a metric, none or one.
ValueFor(fact, metric) ==
  IF metric = fact.metric THEN {fact.value}
  ELSE IF metric = "active_high_priority" THEN fact.activeHigh ELSE {}

Matches(fact, condition) ==
  \E actual \in ValueFor(fact, condition.metric) : Compares(actual, condition)

\* The severity of the policy, raised by the overrides that match.
SeverityOf(policy, fact) ==
  LET candidates == {policy.severity} \cup
        {override.severity : override \in
           {o \in policy.overrides : Matches(fact, o.condition)}}
  IN  CHOOSE severity \in candidates :
        \A other \in candidates : SeverityRank[other] <= SeverityRank[severity]

\* Fault: what is out of the range counts for nothing.
Dropped(value) == IF value \in 0..Scale THEN value ELSE 0

Clamp(value) == IF value < 0 THEN 0 ELSE IF value > Scale THEN Scale ELSE value

\* Only the critical bug has a boolean value, the others are floats.
Normalize(policy, fact) ==
  LET distance == IF policy.strategy = "distance_below"
                  THEN (CHOOSE baseline \in policy.baseline : TRUE) - fact.value
                  ELSE fact.value
  IN  Clamp(IF policy.strategy = "boolean"
            THEN IF fact.metric = "open_critical_bug" THEN fact.value * Scale ELSE 0
            ELSE distance * (Scale \div policy.divisor))

Finding(policy, fact) ==
  [policy |-> policy.id, severity |-> SeverityOf(policy, fact), type |-> fact.type,
   source |-> fact.source, sprint |-> fact.sprint, value |-> fact.value,
   observed |-> fact.observed, signal |-> Normalize(policy, fact)]

EvaluatePolicy(policy, facts) ==
  IF ~policy.enabled THEN {}
  ELSE {Finding(policy, fact) : fact \in
          {f \in facts : f.metric = policy.condition.metric /\ Compares(f.value, policy.condition)}}

\* evaluate_rules; the order of the list is that of the risks it becomes.
EvaluateRules(c) ==
  LET facts == CollectFacts(c)
  IN  UNION {EvaluatePolicy(policy, facts) : policy \in Policies}
================================================================================
