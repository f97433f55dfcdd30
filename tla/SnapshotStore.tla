----------------------------- MODULE SnapshotStore -----------------------------
(*****************************************************************************)
(* POST /risks/analyze for one scope (QAAgent.analyze, persist_snapshot):    *)
(* requests served by concurrent threads turn the facts of the moment into   *)
(* an immutable snapshot linked to the latest one, while the dataset of the  *)
(* project may be loaded anew, which deletes its snapshots.                  *)
(*                                                                           *)
(* The id of a snapshot is a digest of its input, so the input stands for    *)
(* it; the result is a function of the input and of the policies, which a    *)
(* running server never changes.  With SQLite and autoflush off the SELECTs  *)
(* run outside any transaction, and the rows are written under one lock from *)
(* the first flush to the commit: that is one step here, and a duplicate     *)
(* shows at its flush.                                                       *)
(*****************************************************************************)
EXTENDS Naturals, FiniteSets

CONSTANTS
  Requests,  \* threads serving the endpoint
  Facts,     \* contents of the dataset, as far as the policies see it
  Dates,     \* values of as_of
  MaxClock,  \* bound: analyses started
  None       \* previous_snapshot_id NULL, and the empty local of a request

Inputs == [facts : Facts, date : Dates]

ASSUME SnapshotStoreAssumption == MaxClock \in Nat /\ None \notin Inputs

VARIABLES
  facts,  \* the dataset
  store,  \* rows of risk_analyses of the scope
  clock,  \* datetime.now(), one tick per analysis
  pc,     \* where each request is
  job     \* the row it is building

vars == <<facts, store, clock, pc, job>>

Rows == [id : Inputs, analyzedAt : 1..MaxClock, previous : Inputs \cup {None}]

StoredIds(rows) == {row.id : row \in rows}

\* latest_analysis: the greatest analyzed_at.
IsLatest(row) ==
  row \in store /\ \A other \in store : other.analyzedAt <= row.analyzedAt
--------------------------------------------------------------------------------

Init ==
  /\ facts \in Facts
  /\ store = {}
  /\ clock = 0
  /\ pc = [p \in Requests |-> "idle"]
  /\ job = [p \in Requests |-> None]

\* seed_dataset(reset=True): the snapshots of the project go with its data.
Reset(new) ==
  /\ facts' = new
  /\ store' = {}
  /\ UNCHANGED <<clock, pc, job>>

\* analyzed_at is taken first, then the facts are read and fingerprinted.
Capture(p, date) ==
  /\ pc[p] = "idle"
  /\ clock < MaxClock
  /\ clock' = clock + 1
  /\ pc' = [pc EXCEPT ![p] = "captured"]
  /\ job' = [job EXCEPT ![p] = [id |-> [facts |-> facts, date |-> date],
                                analyzedAt |-> clock + 1, previous |-> None]]
  /\ UNCHANGED <<facts, store>>

\* The same input has been analysed before: its snapshot is the answer.
Answer(p) ==
  /\ pc[p] = "captured"
  /\ job[p].id \in StoredIds(store)
  /\ pc' = [pc EXCEPT ![p] = "idle"]
  /\ job' = [job EXCEPT ![p] = None]
  /\ UNCHANGED <<facts, store, clock>>

Miss(p) ==
  /\ pc[p] = "captured"
  /\ job[p].id \notin StoredIds(store)
  /\ pc' = [pc EXCEPT ![p] = "missing"]
  /\ UNCHANGED <<facts, store, clock, job>>

\* Fault: the snapshots are sorted in the other direction.
LinkToOldest(p) ==
  /\ pc[p] = "missing"
  /\ pc' = [pc EXCEPT ![p] = "linked"]
  /\ \/ store = {} /\ UNCHANGED job
     \/ \E row \in store :
          /\ \A other \in store : row.analyzedAt <= other.analyzedAt
          /\ job' = [job EXCEPT ![p].previous = row.id]
  /\ UNCHANGED <<facts, store, clock>>

Link(p) ==
  /\ pc[p] = "missing"
  /\ pc' = [pc EXCEPT ![p] = "linked"]
  /\ \/ store = {} /\ UNCHANGED job
     \/ \E row \in store :
          IsLatest(row) /\ job' = [job EXCEPT ![p].previous = row.id]
  /\ UNCHANGED <<facts, store, clock>>

\* Fault: the table has no foreign key on previous_snapshot_id.
Unconstrained(row) == row.id \notin StoredIds(store)

\* The primary key and the foreign key of the new row.
Insertable(row) ==
  /\ row.id \notin StoredIds(store)
  /\ row.previous \in StoredIds(store) \cup {None}

\* Fault: a row with the same id is replaced.
InsertOrReplace(p) ==
  /\ pc[p] = "linked"
  /\ job[p].previous \in StoredIds(store) \cup {None}
  /\ store' = {row \in store : row.id # job[p].id} \cup {job[p]}
  /\ pc' = [pc EXCEPT ![p] = "idle"]
  /\ job' = [job EXCEPT ![p] = None]
  /\ UNCHANGED <<facts, clock>>

Insert(p) ==
  /\ pc[p] = "linked"
  /\ Insertable(job[p])
  /\ store' = store \cup {job[p]}
  /\ pc' = [pc EXCEPT ![p] = "idle"]
  /\ job' = [job EXCEPT ![p] = None]
  /\ UNCHANGED <<facts, clock>>

\* IntegrityError from session.flush().  The handler that answers with the
\* snapshot stored meanwhile only surrounds session.commit(), so the error
\* leaves the endpoint.
Error(p) ==
  /\ pc[p] = "linked"
  /\ ~Insertable(job[p])
  /\ pc' = [pc EXCEPT ![p] = "error"]
  /\ UNCHANGED <<facts, store, clock, job>>

\* The error has been answered; the thread serves another request.
AnswerError(p) ==
  /\ pc[p] = "error"
  /\ pc' = [pc EXCEPT ![p] = "idle"]
  /\ job' = [job EXCEPT ![p] = None]
  /\ UNCHANGED <<facts, store, clock>>

Next ==
  \/ \E new \in Facts : Reset(new)
  \/ \E p \in Requests :
       \/ \E date \in Dates : Capture(p, date)
       \/ Answer(p) \/ Miss(p) \/ Link(p)
       \/ Insert(p) \/ Error(p) \/ AnswerError(p)

Spec == Init /\ [][Next]_vars
--------------------------------------------------------------------------------
(* Properties.                                                                 *)

\* Every row and every row in the making has its columns.
TypeOK ==
  /\ facts \in Facts
  /\ store \subseteq Rows
  /\ clock \in 0..MaxClock
  /\ pc \in [Requests -> {"idle", "captured", "missing", "linked", "error"}]
  /\ job \in [Requests -> Rows \cup {None}]
  /\ \A p \in Requests : pc[p] # "idle" => job[p] \in Rows

\* previous_snapshot_id names a snapshot of the scope that is still there, also
\* when the data was loaded anew between the reading and the insertion.
LinksAreStored == \A row \in store : row.previous \in StoredIds(store) \cup {None}

\* Following previous_snapshot_id ends: in every group of snapshots there is
\* one linked to none of the group, however the requests interleave.
HistoryHasNoLoop ==
  \A group \in SUBSET store :
    group # {} => \E row \in group : row.previous \notin StoredIds(group)

\* A new snapshot is linked to the one before it: in the order of analyzed_at
\* each is linked to its predecessor.
ChainIsLinear ==
  \A row \in store :
    LET earlier == {other \in store : other.analyzedAt < row.analyzedAt}
    IN  \/ earlier = {} /\ row.previous = None
        \/ \E other \in earlier :
             /\ \A third \in earlier : third.analyzedAt <= other.analyzedAt
             /\ row.previous = other.id

\* A request that loses the race for a snapshot is answered with it.
LoserReusesSnapshot ==
  \A p \in Requests : pc[p] = "error" => job[p].id \notin StoredIds(store)
================================================================================
