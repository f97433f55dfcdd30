------------------------------ MODULE HistorySeed ------------------------------
(*****************************************************************************)
(* seed_novashop_history (app/novashop_history.py) replaying the built-in    *)
(* history into the tables of RecommendationService: for each day it looks   *)
(* the snapshot up, commits it with its risks, and syncs the recommendations *)
(* in a transaction of their own.  Several requests may replay it at once    *)
(* and any of them may die between two steps; a new call starts over.        *)
(*                                                                           *)
(* A sync reads the tables first and writes when it commits: view[p] is what *)
(* seeder p has read.  Writes are serialised by SQLite and a transaction     *)
(* only waits for its lock when it flushes, after its reads.                 *)
(*****************************************************************************)
EXTENDS RecommendationService

CONSTANTS
  Seeders,      \* sessions calling seed_novashop_history
  HistoryKeys,  \* HISTORY: the risk keys of each day
  MaxFailures   \* bound: seeders that die in the middle of a call

\* HISTORY has one snapshot per day.
ASSUME HistoryAssumption ==
  /\ HistoryKeys \in [Snapshots -> SUBSET Keys]
  /\ \A s, t \in Snapshots : s < t => RefDate[s] < RefDate[t]

VARIABLES
  pc,          \* next step of each seeder
  day,         \* the day it is replaying
  previousId,  \* its previous_id (0: None)
  view,        \* the rows its sync has read
  previousOf,  \* previous_snapshot_id of each stored snapshot
  failures

seederVars == <<pc, day, previousId, view, failures>>
seedVars == <<vars, seederVars, previousOf>>

NoView == [status |-> [r \in Ids |-> "ABSENT"], lastSeen |-> [r \in Ids |-> 0],
           resolvedBy |-> [r \in Ids |-> 0], count |-> [r \in Ids |-> 0]]

CurrentRows == [status |-> status, lastSeen |-> lastSeen,
                resolvedBy |-> resolvedBy, count |-> observationCount]

\* The sync's choices, made on the rows that seeder p has read.
View(p) == INSTANCE RecommendationService
             WITH status <- view[p].status, lastSeen <- view[p].lastSeen,
                  resolvedBy <- view[p].resolvedBy,
                  observationCount <- view[p].count

Goto(p, from, to) == pc[p] = from /\ pc' = [pc EXCEPT ![p] = to]

SeedInit ==
  /\ Init
  /\ pc = [p \in Seeders |-> "idle"]
  /\ day = [p \in Seeders |-> 1]
  /\ previousId = [p \in Seeders |-> 0]
  /\ view = [p \in Seeders |-> NoView]
  /\ previousOf = [s \in Snapshots |-> 0]
  /\ failures = 0

\* A call, the first one or a repeated one.
Call(p) ==
  /\ Goto(p, "idle", "lookup")
  /\ day' = [day EXCEPT ![p] = 1]
  /\ previousId' = [previousId EXCEPT ![p] = 0]
  /\ UNCHANGED <<vars, view, previousOf, failures>>

\* Faults: the link to the previous day is lost, the sync of a stored day is done
\* again.
PassOverUnlinked(p) ==
  /\ day[p] \in 1..published
  /\ Goto(p, "lookup", "lookup")
  /\ day' = [day EXCEPT ![p] = @ + 1]
  /\ UNCHANGED <<vars, previousId, view, previousOf, failures>>

PassOverWithSync(p) ==
  /\ day[p] \in 1..published
  /\ Goto(p, "lookup", "read")
  /\ UNCHANGED <<vars, day, previousId, view, previousOf, failures>>

\* The snapshot of the day is there: it is passed over, sync included.
PassOver(p) ==
  /\ day[p] \in 1..published
  /\ Goto(p, "lookup", "lookup")
  /\ previousId' = [previousId EXCEPT ![p] = day[p]]
  /\ day' = [day EXCEPT ![p] = @ + 1]
  /\ UNCHANGED <<vars, view, previousOf, failures>>

Missing(p) ==
  /\ day[p] \in Snapshots /\ day[p] > published
  /\ Goto(p, "lookup", "insert")
  /\ UNCHANGED <<vars, day, previousId, view, previousOf, failures>>

Return(p) ==
  /\ day[p] \notin Snapshots
  /\ Goto(p, "lookup", "done")
  /\ UNCHANGED <<vars, day, previousId, view, previousOf, failures>>

\* Fault: the sync is left out.
InsertWithoutSync(p) ==
  /\ Goto(p, "insert", "lookup")
  /\ day[p] = published + 1
  /\ Publish(HistoryKeys[day[p]])
  /\ previousOf' = [previousOf EXCEPT ![day[p]] = previousId[p]]
  /\ UNCHANGED <<day, previousId, view, failures>>

\* The snapshot, its contributions and its risks are committed.
InsertSnapshot(p) ==
  /\ Goto(p, "insert", "read")
  /\ day[p] = published + 1
  /\ Publish(HistoryKeys[day[p]])
  /\ previousOf' = [previousOf EXCEPT ![day[p]] = previousId[p]]
  /\ UNCHANGED <<day, previousId, view, failures>>

\* Fault: the insertion is tried again for ever.
InsertRetry(p) ==
  /\ Goto(p, "insert", "insert")
  /\ day[p] <= published
  /\ UNCHANGED <<vars, day, previousId, view, previousOf, failures>>

\* Another session has inserted it since the lookup: IntegrityError.
InsertConflict(p) ==
  /\ Goto(p, "insert", "failed")
  /\ day[p] <= published
  /\ UNCHANGED <<vars, day, previousId, view, previousOf, failures>>

\* The SELECTs of sync_recommendations_for_snapshot.
ReadRows(p) ==
  /\ Goto(p, "read", "sync")
  /\ view' = [view EXCEPT ![p] = CurrentRows]
  /\ UNCHANGED <<vars, day, previousId, previousOf, failures>>

\* Its flush and commit, on rows that may have changed since.  The ids it
\* creates are free, since only the call that stored the day syncs it: were one
\* taken, the call would be stuck here, which CallEnds excludes.
CommitSync(p) ==
  LET s == day[p] IN
  /\ Goto(p, "sync", "lookup")
  /\ View(p)!Created(s) \cap Episodes = {}
  /\ SyncWrites(s, View(p)!Created(s), View(p)!Sighted(s),
                View(p)!Resolved(s), view[p].count)
  /\ synced' = s
  /\ previousId' = [previousId EXCEPT ![p] = s]
  /\ day' = [day EXCEPT ![p] = @ + 1]
  /\ view' = [view EXCEPT ![p] = NoView]
  /\ UNCHANGED <<snapshotVars, previousOf, failures>>

\* The session dies: server stopped, database locked for longer than the
\* timeout, any exception.  What it had not committed is rolled back.
Fail(p) ==
  /\ pc[p] \in {"lookup", "insert", "read", "sync"}
  /\ failures < MaxFailures
  /\ failures' = failures + 1
  /\ pc' = [pc EXCEPT ![p] = "failed"]
  /\ view' = [view EXCEPT ![p] = NoView]
  /\ UNCHANGED <<vars, day, previousId, previousOf>>

\* The caller may call again, after a failure or not.  (Without reset: an ingestion
\* with it clears the project and its snapshots before it replays.)
Again(p) ==
  /\ pc[p] \in {"done", "failed"}
  /\ pc' = [pc EXCEPT ![p] = "idle"]
  /\ UNCHANGED <<vars, day, previousId, view, previousOf, failures>>

\* A call that has started runs on to its end.
Run(p) ==
  \/ PassOver(p) \/ Missing(p) \/ Return(p)
  \/ InsertSnapshot(p) \/ InsertConflict(p)
  \/ ReadRows(p) \/ CommitSync(p)

SeedNext == \E p \in Seeders : Call(p) \/ Run(p) \/ Fail(p) \/ Again(p)

SeedSpec == SeedInit /\ [][SeedNext]_seedVars

Fairness == \A p \in Seeders : WF_seedVars(Run(p))

FairSeedSpec == SeedSpec /\ Fairness
-----------------------------------------------------------------------------
(* Properties.                                                               *)

\* The snapshots are stored in date order, each linked to the day before it,
\* however many sessions replay the history and wherever they die.
HistoryIsLinked ==
  \A s \in 1..published : previousOf[s] = s - 1 /\ openKeys[s] = HistoryKeys[s]

\* A call comes to an end, and one that succeeds leaves every day stored.
CallEnds ==
  \A p \in Seeders :
    pc[p] = "lookup" ~> \/ pc[p] = "failed"
                        \/ pc[p] = "done" /\ published = MaxSnapshots

\* After a call that succeeded, with no other one in progress, the
\* recommendations are those of the whole history: every day is covered by a
\* recommendation for each of its risks, which counts each sighting.
SeedIsComplete ==
  (\E p \in Seeders : pc[p] = "done") /\ (\A p \in Seeders : pc[p] \in {"done", "idle"}) =>
    \A s \in Snapshots : \A k \in HistoryKeys[s] :
      \E r \in Episodes :
        /\ KeyOf(r) = k
        /\ s \in SourceOf(r)..lastSeen[r]
        /\ observationCount[r] =
             Cardinality({t \in SourceOf(r)..lastSeen[r] : k \in HistoryKeys[t]})

================================================================================
