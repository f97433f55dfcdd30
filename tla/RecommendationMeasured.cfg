\* Two observers beside the whole human workflow of one risk, four snapshots over three days.
SPECIFICATION OutcomesSpec
CONSTANTS
  k1 = k1
  k2 = k2
  Keys = {k1}
  MaxSnapshots = 4
  RefDate <- MCRefDate
  TextColumns = {"title"}
  OperationalColumns = {}
  Values = {"proposed", "edited"}
  Original <- MCOriginal
  HumanRoles = {"QA_MANAGER"}
  Null = Null
  Observers = {o1, o2}
  PolicyOf <- MCPolicyOf
  Level <- MCLevel
  Incomplete <- MCIncomplete
SYMMETRY ObserverSymmetry
INVARIANTS
  TypeOK
  LogRebuildsRecommendation
  TextChangesAreModifications
  LogFollowsSightings
  OutcomeFollowsHumanDecision
  ResultIsRepeatable
  NoImprovementMeansStillViolated
PROPERTIES
  BaselineIsFinal
