----------------------------- MODULE MCSnapshotStore -----------------------------
(* SnapshotStore with a memory of whether its requests have met.                *)
EXTENDS SnapshotStore, TLC

VARIABLE overlapped  \* whether two requests have been under way at once

MCInit == Init /\ overlapped = FALSE

MCNext ==
  /\ Next
  /\ overlapped' = (overlapped \/ Cardinality({p \in Requests : pc'[p] # "idle"}) > 1)

MCSpec == MCInit /\ [][MCNext]_<<vars, overlapped>>

\* ChainIsLinear as long as the analyses of a scope are made one at a time.
ChainOfLoneRequests == ~overlapped => ChainIsLinear

\* Requests, contents and dates differ in nothing but their name.
Symmetry == Permutations(Requests) \cup Permutations(Facts) \cup Permutations(Dates)
================================================================================
