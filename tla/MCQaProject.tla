------------------------------ MODULE MCQaProject ------------------------------
(* The project with the real policies, over the datasets of MCDatasets.        *)
EXTENDS QaProject, MCDatasets, PolicyV1, TLC

\* Halves are rounded up here, down there, as on binary floats.
MCHalvesUp == {h \in 0..10000 : h % 2 = 1}

AssessedDatasets ==
  [healthy |-> Healthy, uneven |-> Uneven, waiting |-> Waiting, ailing |-> Ailing, bare |-> Bare,
   strained |-> Strained, excessive |-> Excessive]

\* Two good ones, which differ in every table, and bad ones of every kind.
IngestedDatasets ==
  [ailing |-> Ailing, excessive |-> Excessive, orphaned |-> Orphaned,
   early |-> Early, stray |-> Stray, doubled |-> Doubled]
--------------------------------------------------------------------------------
VARIABLE overlapped  \* whether two ingestions have been under way at once

MCInit == ProjectInit /\ overlapped = FALSE

SeenNext ==
  /\ ProjectNext
  /\ overlapped' = (overlapped \/ Cardinality({c \in Callers : pc'[c] # "idle"}) > 1)

\* ProjectSpec, and whether ingestions have met.
SeenSpec == MCInit /\ [][SeenNext]_<<projectVars, overlapped>>

\* An analysis sees nothing of an ingestion but its load (and a date its log has not
\* given yet, as when that log is lost), so its steps are only taken between them.
MCNext == SeenNext /\ (draft' # draft => \A c \in Callers : pc[c] = "idle")

MCSpec == MCInit /\ [][MCNext]_<<projectVars, overlapped>>

\* Callers differ in nothing but their name.
Symmetry == Permutations(Callers)

\* DefaultDateIsThatOfTheData as long as ingestions are made one at a time.
DefaultDateOfLoneIngestions == ~overlapped => DefaultDateIsThatOfTheData
================================================================================
