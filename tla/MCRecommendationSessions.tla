----------------------- MODULE MCRecommendationSessions -----------------------
(* Two concurrent requests on one recommendation for TLC.                      *)
EXTENDS RecommendationSessions, TLC

MCOriginal == [c \in Columns |-> "proposed"]

SessionSymmetry == Permutations(Sessions)
================================================================================
