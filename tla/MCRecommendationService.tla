---------------------- MODULE MCRecommendationService ----------------------
(* A small instance of RecommendationService for TLC.                        *)
EXTENDS RecommendationService

CONSTANTS k1, k2

\* The second and third snapshots are of the same day.
MCRefDate == [s \in Snapshots |-> IF s <= 2 THEN s ELSE s - 1]

MCOriginal == [c \in Columns |-> "proposed"]
==============================================================================
