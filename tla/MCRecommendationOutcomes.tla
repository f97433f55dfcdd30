---------------------- MODULE MCRecommendationOutcomes ----------------------
(* Two risks of two policies, measured by two observers, for TLC.            *)
EXTENDS RecommendationOutcomes, TLC

CONSTANTS k1, k2

\* The second and third snapshots are of the same day.
MCRefDate == [s \in Snapshots |-> IF s <= 2 THEN s ELSE s - 1]

MCOriginal == [c \in Columns |-> "proposed"]

MCPolicyOf == [k \in Keys |-> IF k = k1 THEN "OVERDUE" ELSE "COVERAGE"]

\* The first policy gets better and worse, the second only worse.
MCLevel == [s \in Snapshots |->
              [policy \in Policies |->
                 IF policy = "OVERDUE" THEN 3 - (s % 3) ELSE s]]

MCIncomplete == {4} \cap Snapshots

ObserverSymmetry == Permutations(Observers)
=============================================================================
