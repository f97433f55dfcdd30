---------------------------- MODULE MCHistorySeed ----------------------------
(* The seven-day HISTORY of app/novashop_history.py for TLC.                   *)
EXTENDS HistorySeed

CONSTANTS OVERDUE, COVERAGE, BLOCKED, PIPELINE, BUG

MCRefDate == [s \in Snapshots |-> s]

MCHistoryKeys ==
  [s \in Snapshots |->
     CASE s = 1 -> {OVERDUE, COVERAGE}
       [] s = 2 -> {OVERDUE, BLOCKED, COVERAGE}
       [] s = 3 -> {OVERDUE, BLOCKED, PIPELINE, COVERAGE}
       [] s = 4 -> {OVERDUE, BLOCKED, PIPELINE, BUG}
       [] s = 5 -> {OVERDUE, PIPELINE, BUG}
       [] s = 6 -> {OVERDUE, PIPELINE}
       [] s = 7 -> {OVERDUE}]

MCOriginal == [c \in Columns |-> "proposed"]
-----------------------------------------------------------------------------
VARIABLE overlapped  \* whether two calls have been under way at once

MCInit == SeedInit /\ overlapped = FALSE

MCNext ==
  /\ SeedNext
  /\ overlapped' = (overlapped \/
       Cardinality({p \in Seeders : pc'[p] \notin {"idle", "done", "failed"}}) > 1)

MCSpec == MCInit /\ [][MCNext]_<<seedVars, overlapped>> /\ Fairness

\* SeedIsComplete as long as no call meets another or dies half-way, however often
\* the replay is repeated.
SeedIsCompleteUnlessDisturbed == ~overlapped /\ failures = 0 => SeedIsComplete

\* The contract RecommendationService states for its caller: as long as no call
\* meets another, wherever it dies and however often it is repeated, a replay is
\* seen from the tables to store snapshots and to sync them in date order.
LoneSyncsInDateOrder == Init /\ [][overlapped' \/ Next]_vars
==============================================================================
