------------------------- MODULE RecommendationService -------------------------
(*****************************************************************************)
(* The governed recommendations of app/recommendation_service.py, for one    *)
(* scope (project_id, sprint_id) and with every request served alone, from   *)
(* its first SELECT to its commit.  RecommendationSessions drops that        *)
(* serialisation; HistorySeed drops the chronological order of the syncs.    *)
(*                                                                           *)
(* A snapshot (table risk_analyses) is its rank in the order of analyzed_at; *)
(* it is immutable and carries its reference_date and the stable keys of its *)
(* open risks.  An episode (table recommendations) is identified, like       *)
(* _id("REC", analysis.id, key), by the snapshot that created it and its     *)
(* risk key.  A column of the table is a variable, a function of the id.     *)
(*****************************************************************************)
EXTENDS Naturals, Sequences, FiniteSets, RecommendationWorkflow

CONSTANTS
  Keys,           \* stable risk keys (stable_risk_key)
  MaxSnapshots,   \* bound: snapshots stored in the scope
  RefDate,        \* reference_date of each snapshot
  Original,       \* the payload a new recommendation takes from its risk
  HumanRoles,     \* actor_role values a request carries
  Null            \* SQL NULL

Snapshots == 1..MaxSnapshots
Ids == Snapshots \X Keys

\* The history replays its days in order, several snapshots may share a day.
ASSUME ConstantsAssumption ==
  /\ MaxSnapshots \in Nat
  /\ RefDate \in [Snapshots -> Nat]
  /\ \A s, t \in Snapshots : s <= t => RefDate[s] <= RefDate[t]
  /\ Original \in Payloads

VARIABLES
  published,         \* number of snapshots stored
  openKeys,          \* keys of the open risks of each stored snapshot
  synced,            \* last snapshot given to sync_recommendations_for_snapshot
  status,            \* Recommendation.status, "ABSENT" for a row not inserted
  lastSeen,          \* Recommendation.last_seen_snapshot_id (0: no row)
  resolvedBy,        \* Recommendation.resolved_snapshot_id (0: NULL)
  observationCount,  \* Recommendation.observation_count
  payload,           \* title, description, justification, due_date, assigned_to
  log                \* RecommendationTransition rows of each id, by sequence

snapshotVars == <<published, openKeys>>
episodeVars == <<lastSeen, resolvedBy, observationCount>>
lifecycleVars == <<status, payload, log>>
vars == <<snapshotVars, synced, episodeVars, lifecycleVars>>

\* A row of recommendation_transitions.
Transition == [from : RecommendationStatus \cup {"NONE"},
               to : RecommendationStatus,
               role : HumanRoles \cup {"SYSTEM"},
               snapshot : Snapshots,
               previous : Payloads \cup {Null},
               resulting : Payloads]

-----------------------------------------------------------------------------
(* Reading the episodes.                                                     *)

SourceOf(r) == r[1]
KeyOf(r) == r[2]

Episodes == {r \in Ids : status[r] # "ABSENT"}

Unresolved(r) == resolvedBy[r] = 0

\* The episode with the greatest (created_at, id) among those of its key;
\* created_at is the analyzed_at of the source snapshot.
IsLatestEpisode(r) ==
  /\ r \in Episodes
  /\ \A q \in Episodes : KeyOf(q) = KeyOf(r) => SourceOf(q) <= SourceOf(r)

\* Faults in the three sets below: a resolved row is reused; a row already seen
\* on s is not; only the id tells a new recommendation; the absence of a risk
\* later the same day, or at any date, resolves; a repeated sync counts again;
\* two snapshots of a day count as one.
ReusedThoughResolved(s) ==
  {r \in Episodes : KeyOf(r) \in openKeys[s] /\ IsLatestEpisode(r)}

ReusedIfNotSeen(s) ==
  {r \in Episodes : /\ KeyOf(r) \in openKeys[s]
                    /\ IsLatestEpisode(r)
                    /\ Unresolved(r)
                    /\ lastSeen[r] # s}

\* The three outcomes of a sync of snapshot s.
Reused(s) == {r \in Episodes : /\ KeyOf(r) \in openKeys[s]
                               /\ IsLatestEpisode(r)
                               /\ Unresolved(r)}

CreatedUnlessStored(s) == ({s} \X openKeys[s]) \ Episodes

Created(s) ==
  {s} \X {k \in openKeys[s] : \A r \in Reused(s) : KeyOf(r) # k}

ResolvedSameDay(s) == {r \in Episodes : /\ KeyOf(r) \notin openKeys[s]
                                        /\ Unresolved(r)
                                        /\ lastSeen[r] < s
                                        /\ RefDate[lastSeen[r]] <= RefDate[s]}

ResolvedAtOnce(s) == {r \in Episodes : KeyOf(r) \notin openKeys[s] /\ Unresolved(r)}

Resolved(s) == {r \in Episodes : /\ KeyOf(r) \notin openKeys[s]
                                 /\ Unresolved(r)
                                 /\ RefDate[lastSeen[r]] < RefDate[s]}

SeenAgain(s) == Reused(s)

SeenOncePerDay(s) == {r \in Reused(s) : RefDate[lastSeen[r]] # RefDate[s]}

Seen(s) == {r \in Reused(s) : lastSeen[r] # s}

\* Fault: a new row is inserted without them.
SightedIfKnown(s) == Seen(s)

\* The rows whose last_seen_* columns the sync sets.
Sighted(s) == Created(s) \cup Seen(s)

-----------------------------------------------------------------------------
(* The operations.                                                           *)

Init ==
  /\ published = 0
  /\ openKeys = [s \in Snapshots |-> {}]
  /\ synced = 0
  /\ status = [r \in Ids |-> "ABSENT"]
  /\ lastSeen = [r \in Ids |-> 0]
  /\ resolvedBy = [r \in Ids |-> 0]
  /\ observationCount = [r \in Ids |-> 0]
  /\ payload = [r \in Ids |-> Original]
  /\ log = [r \in Ids |-> <<>>]

\* A snapshot and its risks are committed, before and apart from the sync.
Publish(keys) ==
  /\ published < MaxSnapshots
  /\ published' = published + 1
  /\ openKeys' = [openKeys EXCEPT ![published + 1] = keys]
  /\ UNCHANGED <<synced, episodeVars, lifecycleVars>>

\* _append_transition by SYSTEM for a new episode.
ProposalRow(s) == [from |-> "NONE", to |-> "PROPOSED", role |-> "SYSTEM",
                   snapshot |-> s, previous |-> Null, resulting |-> Original]

\* What a sync of s writes once it has read which rows to create, to see again
\* and to resolve, and how often they had been observed.
SyncWrites(s, created, sighted, resolved, counts) ==
  /\ status' = [r \in Ids |-> IF r \in created THEN "PROPOSED" ELSE status[r]]
  /\ payload' = [r \in Ids |-> IF r \in created THEN Original ELSE payload[r]]
  /\ log' = [r \in Ids |-> IF r \in created THEN <<ProposalRow(s)>> ELSE log[r]]
  /\ lastSeen' = [r \in Ids |-> IF r \in sighted THEN s ELSE lastSeen[r]]
  /\ observationCount' = [r \in Ids |->
       IF r \in created THEN 1
       ELSE IF r \in sighted THEN counts[r] + 1 ELSE observationCount[r]]
  /\ resolvedBy' = [r \in Ids |->
       IF r \in created THEN 0
       ELSE IF r \in resolved THEN s ELSE resolvedBy[r]]

\* sync_recommendations_for_snapshot(s).  Its caller goes through the history
\* in date order, so s is never before a snapshot already synced; it may be
\* the same one again, and stored snapshots may have been passed over.  An
\* id already taken makes the flush fail and the whole sync roll back.
Sync(s) ==
  /\ s \in 1..published
  /\ synced <= s
  /\ Created(s) \cap Episodes = {}
  /\ synced' = s
  /\ SyncWrites(s, Created(s), Sighted(s), Resolved(s), observationCount)
  /\ UNCHANGED snapshotVars

\* Faults: the payload is recorded after the change; the snapshot recorded is
\* the latest one stored.
TransitionRowAfterwards(r, to, role, new) ==
  [from |-> status[r], to |-> to, role |-> role, snapshot |-> lastSeen[r],
   previous |-> new, resulting |-> new]

TransitionRowOfNewest(r, to, role, new) ==
  [from |-> status[r], to |-> to, role |-> role, snapshot |-> published,
   previous |-> payload[r], resulting |-> new]

\* _append_transition for a human request: the payload before and after it.
TransitionRow(r, to, role, new) ==
  [from |-> status[r], to |-> to, role |-> role, snapshot |-> lastSeen[r],
   previous |-> payload[r], resulting |-> new]

\* transition_recommendation.  A refused request changes nothing.  The row's
\* sequence, max(sequence) + 1, is its place in the log.
TransitionRecommendation(r, to, role, comment, new) ==
  /\ r \in Episodes
  /\ to \in AllowedTransitions[status[r]]
  /\ CommentGiven(to, comment)
  /\ PayloadChange(to, payload[r], new)
  /\ status' = [status EXCEPT ![r] = to]
  /\ payload' = [payload EXCEPT ![r] = new]
  /\ log' = [log EXCEPT ![r] = Append(@, TransitionRow(r, to, role, new))]
  /\ UNCHANGED <<snapshotVars, synced, episodeVars>>

Next ==
  \/ \E keys \in SUBSET Keys : Publish(keys)
  \/ \E s \in Snapshots : Sync(s)
  \/ \E r \in Ids, to \in RecommendationStatus, role \in HumanRoles,
        comment \in BOOLEAN, new \in Payloads :
       TransitionRecommendation(r, to, role, comment, new)

Spec == Init /\ [][Next]_vars

-----------------------------------------------------------------------------
(* Properties.                                                               *)

\* Every column holds values of its type, and only inserted rows have a log.
TypeOK ==
  /\ published \in 0..MaxSnapshots
  /\ openKeys \in [Snapshots -> SUBSET Keys]
  /\ synced \in 0..published
  /\ status \in [Ids -> RecommendationStatus \cup {"ABSENT"}]
  /\ lastSeen \in [Ids -> 0..MaxSnapshots]
  /\ resolvedBy \in [Ids -> 0..MaxSnapshots]
  /\ observationCount \in [Ids -> Nat]
  /\ payload \in [Ids -> Payloads]
  /\ log \in [Ids -> Seq(Transition)]
  /\ \A r \in Episodes : lastSeen[r] \in Snapshots

\* A risk has at most one unresolved recommendation, whatever appears,
\* disappears and comes back (sync_recommendations_for_snapshot only looks at
\* the latest episode of a key before it creates another).
OneActiveEpisode ==
  \A q, r \in Episodes :
    KeyOf(q) = KeyOf(r) /\ Unresolved(q) /\ Unresolved(r) => q = r

\* After a sync the unresolved recommendations are those of the risks that its
\* snapshot shows, seen on it, and those last seen on the same day or later.
ActiveMirrorsSynced ==
  synced # 0 =>
    /\ \A k \in openKeys[synced] :
         \E r \in Episodes : KeyOf(r) = k /\ Unresolved(r) /\ lastSeen[r] = synced
    /\ \A r \in Episodes : Unresolved(r) /\ KeyOf(r) \notin openKeys[synced]
                             => RefDate[lastSeen[r]] >= RefDate[synced]

\* A recommendation is resolved by a snapshot of a later day than the last one
\* that showed its risk, and only by one that does not show it.
ResolutionIsLater ==
  \A r \in Episodes : ~Unresolved(r) =>
    /\ RefDate[lastSeen[r]] < RefDate[resolvedBy[r]]
    /\ KeyOf(r) \notin openKeys[resolvedBy[r]]
    /\ KeyOf(r) \in openKeys[lastSeen[r]]

\* A sync of the latest snapshot, or of any later one, never meets an id that
\* is already taken: the deterministic ids cannot make it fail.
SyncNeverCollides ==
  \A s \in Snapshots : synced <= s /\ s <= published => Created(s) \cap Episodes = {}

\* The inductive invariant behind the four properties above: a row lies
\* between its source, its last sighting and the last sync, and of the rows of
\* a key all but the latest are resolved.
EpisodeOrder ==
  \A r \in Episodes :
    /\ SourceOf(r) <= lastSeen[r]
    /\ lastSeen[r] <= synced
    /\ resolvedBy[r] <= synced
    /\ KeyOf(r) \in openKeys[lastSeen[r]]

OnlyLatestUnresolved ==
  \A q, r \in Episodes :
    KeyOf(q) = KeyOf(r) /\ SourceOf(q) < SourceOf(r) => ~Unresolved(q)

EpisodeInv == TypeOK /\ EpisodeOrder /\ ResolutionIsLater /\ OnlyLatestUnresolved

\* observation_count counts each snapshot once, however often it is synced.
EachSnapshotCountedOnce ==
  \A r \in Episodes :
    observationCount[r] <=
      Cardinality({s \in SourceOf(r)..lastSeen[r] : KeyOf(r) \in openKeys[s]})

\* The log alone rebuilds the recommendation: it starts with the proposal,
\* each row takes up the status and the payload where the previous one left
\* them by an allowed transition, and the last one gives the current ones.
LogRebuildsRecommendation ==
  \A r \in Episodes :
    LET trail == log[r]
        last == trail[Len(trail)]
    IN  /\ Len(trail) > 0
        /\ trail[1].from = "NONE" /\ trail[1].to = "PROPOSED"
        /\ trail[1].resulting = Original
        /\ \A i \in 2..Len(trail) :
             /\ trail[i].from = trail[i - 1].to
             /\ trail[i].to \in AllowedTransitions[trail[i].from]
             /\ trail[i].previous = trail[i - 1].resulting
        /\ last.to = status[r]
        /\ last.resulting = payload[r]

\* A title, description or justification that differs from the proposed one was
\* changed by a MODIFIED transition: neither the start of the work nor a later
\* sync can slip one in.
TextChangesAreModifications ==
  \A r \in Episodes : \A c \in TextColumns :
    payload[r][c] # Original[c] =>
      \E i \in 1..Len(log[r]) :
        log[r][i].to = "MODIFIED" /\ log[r][i].resulting[c] # log[r][i].previous[c]

\* The snapshots a log refers to are those of the sightings: in order, from
\* the source snapshot to the last one seen, each showing the risk.
LogFollowsSightings ==
  \A r \in Episodes :
    /\ log[r][1].snapshot = SourceOf(r)
    /\ \A i \in 1..Len(log[r]) :
         /\ KeyOf(r) \in openKeys[log[r][i].snapshot]
         /\ log[r][i].snapshot <= lastSeen[r]
         /\ \A j \in 1..i : log[r][j].snapshot <= log[r][i].snapshot

\* A resolved episode is closed for good: no sync reopens it, moves its
\* resolution or counts another sighting.
ResolvedIsFinal ==
  [][\A r \in Episodes : ~Unresolved(r) =>
       /\ resolvedBy'[r] = resolvedBy[r]
       /\ lastSeen'[r] = lastSeen[r]
       /\ observationCount'[r] = observationCount[r]]_vars

-----------------------------------------------------------------------------
(* The episodes of each risk key, seen through RiskEpisodes: the table with   *)
(* its scans for the latest and for the unresolved rows implements one timeline of    *)
(* sightings per key.                                                         *)

ActiveIds(k) == {r \in Episodes : KeyOf(r) = k /\ Unresolved(r)}

ActiveEpisode ==
  [k \in Keys |->
     IF ActiveIds(k) = {} THEN [source |-> 0, seen |-> 0]
     ELSE LET r == CHOOSE r \in ActiveIds(k) : TRUE
          IN [source |-> SourceOf(r), seen |-> lastSeen[r]]]

ClosedEpisodes ==
  [k \in Keys |->
     {[source |-> SourceOf(r), seen |-> lastSeen[r], resolved |-> resolvedBy[r]] :
        r \in {q \in Episodes : KeyOf(q) = k /\ ~Unresolved(q)}}]

Timeline == INSTANCE RiskEpisodes
              WITH active <- ActiveEpisode, closed <- ClosedEpisodes

ImplementsRiskEpisodes == Timeline!Spec
================================================================================
