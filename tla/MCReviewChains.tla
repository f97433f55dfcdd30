----------------------------- MODULE MCReviewChains -----------------------------
(* Two datasets that suggest different decisions, and users seen apart.        *)
EXTENDS ReviewChains, MCDatasets, PolicyV1, TLC

MCHalvesUp == {h \in 0..10000 : h % 2 = 1}

ReviewedDatasets == [healthy |-> Healthy, waiting |-> Waiting]

VARIABLE overlapped  \* whether two answers have been linked or dated at once

MCInit == ReviewInit /\ overlapped = FALSE

SeenNext ==
  /\ ReviewNext
  /\ overlapped' = (overlapped \/ Cardinality({u \in Users : stage'[u] \in {"linked", "dated"}}) > 1)

\* ReviewSpec, and whether answers have met.
SeenSpec == MCInit /\ [][SeenNext]_<<projectVars, reviewVars, overlapped>>

\* Steps that neither read nor write what the others write need not be interleaved
\* with them: those of an ingestion around its load (every analysis names its date),
\* and, for the users, those of an analysis before it writes.  (Of the two loads of
\* the run at most one falls into an analysis, so that reading can be put before or
\* after what users do.)
IngestionsAtOnce == \A c \in Callers : pc[c] = "idle"
ReadingAtOnce == draft # NoDraft => draft.link # {}

MCNext ==
  /\ SeenNext
  /\ draft' # draft \/ stage' # stage => IngestionsAtOnce
  /\ stage' # stage => ReadingAtOnce

MCSpec == MCInit /\ [][MCNext]_<<projectVars, reviewVars, overlapped>>

\* ChainsAreSound, and ChainsAreLinear as long as answers are given one at a time.
ChainsAreKept == ChainsAreSound /\ (~overlapped => ChainsAreLinear)

\* Users differ in nothing but their name.
Symmetry == Permutations(Users)
================================================================================
