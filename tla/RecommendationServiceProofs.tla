--------------------- MODULE RecommendationServiceProofs ---------------------
(****************************************************************************)
(* Theorems about RecommendationService for every set of keys, number of    *)
(* snapshots and non-decreasing reference dates: type correctness, one      *)
(* active episode per risk, resolution by a later day only, syncs whose     *)
(* deterministic ids never collide, open recommendations that mirror the    *)
(* last synced snapshot, sightings counted once, and the refinement of one  *)
(* timeline of episodes per risk.                                           *)
(****************************************************************************)
EXTENDS RecommendationService, FiniteSetTheorems, TLAPS

-----------------------------------------------------------------------------
(* What the three kinds of step do to the set of rows.                       *)

\* Ids are pairs of a snapshot and a key; two with equal parts are equal.
LEMMA IdParts ==
  ASSUME NEW q \in Ids, NEW r \in Ids
  PROVE  /\ SourceOf(r) \in Snapshots
         /\ KeyOf(r) \in Keys
         /\ SourceOf(q) = SourceOf(r) /\ KeyOf(q) = KeyOf(r) => q = r
  BY DEF Ids, SourceOf, KeyOf

\* A sync only creates ids of its own snapshot, for keys that it shows.
LEMMA CreatedIds ==
  ASSUME TypeOK, NEW s \in 1..published
  PROVE  /\ s \in Snapshots
         /\ Created(s) \subseteq Ids
         /\ \A r \in Created(s) : /\ SourceOf(r) = s
                                  /\ KeyOf(r) \in openKeys[s]
                                  /\ \A q \in Reused(s) : KeyOf(q) # KeyOf(r)
<1>1. s \in Snapshots
  BY ConstantsAssumption DEF TypeOK, Snapshots
<1>2. QED
  BY <1>1 DEF TypeOK, Created, Ids, SourceOf, KeyOf

\* A sync adds the created rows and removes none.
LEMMA SyncEpisodes ==
  ASSUME TypeOK, NEW s \in Snapshots, Sync(s)
  PROVE  Episodes' = Episodes \cup Created(s)
<1>1. s \in 1..published /\ Created(s) \subseteq Ids
  BY CreatedIds DEF Sync, SyncWrites
<1>2. QED
  BY <1>1 DEF Sync, SyncWrites, Episodes

\* A transition keeps the set of rows.
LEMMA TransitionEpisodes ==
  ASSUME TypeOK, NEW r \in Ids, NEW to \in RecommendationStatus,
         NEW role, NEW comment, NEW new,
         TransitionRecommendation(r, to, role, comment, new)
  PROVE  Episodes' = Episodes
BY DEF TypeOK, TransitionRecommendation, Episodes, RecommendationStatus

-----------------------------------------------------------------------------
(* Type correctness.                                                         *)

LEMMA PublishTypeOK ==
  ASSUME TypeOK, NEW keys \in SUBSET Keys, Publish(keys)
  PROVE  TypeOK'
BY ConstantsAssumption
   DEF TypeOK, Publish, episodeVars, lifecycleVars, Snapshots, Episodes

LEMMA SyncTypeOK ==
  ASSUME TypeOK, NEW s \in Snapshots, Sync(s)
  PROVE  TypeOK'
<1>1. /\ s \in 1..published
      /\ Created(s) \subseteq Ids
  BY CreatedIds DEF Sync, SyncWrites
<1>2. ProposalRow(s) \in Transition
  BY ConstantsAssumption DEF ProposalRow, Transition, RecommendationStatus
<1>3. /\ published' \in 0..MaxSnapshots
      /\ openKeys' \in [Snapshots -> SUBSET Keys]
      /\ synced' \in 0..published'
      /\ payload' \in [Ids -> Payloads]
  BY <1>1, ConstantsAssumption DEF TypeOK, Sync, SyncWrites, snapshotVars
<1>4. status' \in [Ids -> RecommendationStatus \cup {"ABSENT"}]
  BY DEF TypeOK, Sync, SyncWrites, RecommendationStatus
<1>5. /\ lastSeen' \in [Ids -> 0..MaxSnapshots]
      /\ resolvedBy' \in [Ids -> 0..MaxSnapshots]
      /\ observationCount' \in [Ids -> Nat]
  BY ConstantsAssumption DEF TypeOK, Sync, SyncWrites, Sighted, Snapshots
<1>6. log' \in [Ids -> Seq(Transition)]
  <2>1. <<ProposalRow(s)>> \in Seq(Transition)
    BY <1>2
  <2>2. QED
    BY <2>1 DEF TypeOK, Sync, SyncWrites
<1>7. \A r \in Episodes' : lastSeen'[r] \in Snapshots
  BY <1>1, SyncEpisodes DEF TypeOK, Sync, SyncWrites, Sighted, Episodes
<1>8. QED
  BY <1>3, <1>4, <1>5, <1>6, <1>7 DEF TypeOK

LEMMA TransitionTypeOK ==
  ASSUME TypeOK, NEW r \in Ids, NEW to \in RecommendationStatus,
         NEW role \in HumanRoles, NEW comment \in BOOLEAN, NEW new \in Payloads,
         TransitionRecommendation(r, to, role, comment, new)
  PROVE  TypeOK'
<1> DEFINE row == TransitionRow(r, to, role, new)
<1>1. r \in Episodes /\ status[r] \in RecommendationStatus /\ lastSeen[r] \in Snapshots
  BY DEF TypeOK, TransitionRecommendation, Episodes
<1>2. row \in Transition
  BY <1>1 DEF TypeOK, Transition, TransitionRow
<1>3. log' \in [Ids -> Seq(Transition)]
  <2>1. Append(log[r], row) \in Seq(Transition)
    BY <1>2 DEF TypeOK
  <2>2. log' = [log EXCEPT ![r] = Append(log[r], row)]
    BY DEF TransitionRecommendation
  <2>3. QED
    BY <2>1, <2>2 DEF TypeOK
<1>4. Episodes' = Episodes
  BY TransitionEpisodes
<1>5. QED
  BY <1>3, <1>4
     DEF TypeOK, TransitionRecommendation, snapshotVars, episodeVars

LEMMA NextTypeOK == TypeOK /\ [Next]_vars => TypeOK'
<1> SUFFICES ASSUME TypeOK, [Next]_vars PROVE TypeOK'
  OBVIOUS
<1>1. ASSUME NEW keys \in SUBSET Keys, Publish(keys) PROVE TypeOK'
  BY <1>1, PublishTypeOK
<1>2. ASSUME NEW s \in Snapshots, Sync(s) PROVE TypeOK'
  BY <1>2, SyncTypeOK
<1>3. ASSUME NEW r \in Ids, NEW to \in RecommendationStatus, NEW role \in HumanRoles,
             NEW comment \in BOOLEAN, NEW new \in Payloads,
             TransitionRecommendation(r, to, role, comment, new)
      PROVE  TypeOK'
  BY <1>3, TransitionTypeOK
<1>4. CASE UNCHANGED vars
  BY <1>4 DEF TypeOK, vars, snapshotVars, episodeVars, lifecycleVars, Episodes
<1>5. QED
  BY <1>1, <1>2, <1>3, <1>4 DEF Next

LEMMA InitTypeOK == Init => TypeOK
BY ConstantsAssumption DEF Init, TypeOK, Episodes

\* Every column always holds values of its type, for any constants.
THEOREM TypeCorrectness == Spec => []TypeOK
BY InitTypeOK, NextTypeOK, PTL DEF Spec

-----------------------------------------------------------------------------
(* The inductive invariant of the episodes.                                  *)

\* A sighting of a key with an unresolved row is a sighting of that row: it is
\* the latest of its key, so a sync reuses it.
LEMMA UnresolvedIsReused ==
  ASSUME EpisodeInv, NEW s \in 1..published,
         NEW r \in Episodes, KeyOf(r) \in openKeys[s], Unresolved(r)
  PROVE  r \in Reused(s)
<1>1. SUFFICES ASSUME NEW q \in Episodes, KeyOf(q) = KeyOf(r)
               PROVE  SourceOf(q) <= SourceOf(r)
  BY DEF Reused, IsLatestEpisode
<1>2. ~(SourceOf(r) < SourceOf(q))
  BY <1>1 DEF EpisodeInv, OnlyLatestUnresolved
<1>3. SourceOf(q) \in Nat /\ SourceOf(r) \in Nat
  BY IdParts, ConstantsAssumption DEF Episodes, Snapshots
<1>4. QED
  BY <1>2, <1>3

\* A row that a sync of s or later would create is not there yet: were it
\* there it would be unresolved and reused, or resolved on the day of s.
LEMMA CreatedIsNew ==
  ASSUME EpisodeInv, NEW s \in 1..published, synced <= s
  PROVE  Created(s) \cap Episodes = {}
<1>1. SUFFICES ASSUME NEW r \in Created(s), r \in Episodes
               PROVE  FALSE
  OBVIOUS
<1>2. TypeOK
  BY DEF EpisodeInv
<1>3. /\ s \in Snapshots
      /\ SourceOf(r) = s
      /\ KeyOf(r) \in openKeys[s]
      /\ r \notin Reused(s)
  BY <1>1, <1>2, CreatedIds
<1>4. ~Unresolved(r)
  BY <1>1, <1>3, UnresolvedIsReused
<1>5. /\ lastSeen[r] \in Snapshots
      /\ s <= lastSeen[r] /\ lastSeen[r] <= synced
      /\ resolvedBy[r] \in 0..MaxSnapshots /\ resolvedBy[r] <= synced
      /\ synced \in Nat
      /\ r \in Ids
  BY <1>1, <1>2, <1>3, ConstantsAssumption
     DEF EpisodeInv, EpisodeOrder, TypeOK, Episodes
<1>6. /\ resolvedBy[r] \in Snapshots /\ resolvedBy[r] <= s
      /\ RefDate[lastSeen[r]] < RefDate[resolvedBy[r]]
  BY <1>1, <1>3, <1>4, <1>5, ConstantsAssumption
     DEF EpisodeInv, ResolutionIsLater, Unresolved, Snapshots
<1>7. /\ RefDate[resolvedBy[r]] <= RefDate[s]
      /\ RefDate[s] <= RefDate[lastSeen[r]]
      /\ RefDate[s] \in Nat
      /\ RefDate[lastSeen[r]] \in Nat
      /\ RefDate[resolvedBy[r]] \in Nat
  BY <1>3, <1>5, <1>6, ConstantsAssumption
<1>8. QED
  BY <1>6, <1>7

\* What a sync leaves in each column, row by row.
LEMMA SyncRows ==
  ASSUME EpisodeInv, NEW s \in Snapshots, Sync(s)
  PROVE  /\ \A r \in Created(s) : lastSeen'[r] = s /\ resolvedBy'[r] = 0
         /\ \A r \in Episodes :
              /\ lastSeen'[r] = IF r \in Reused(s) THEN s ELSE lastSeen[r]
              /\ resolvedBy'[r] = IF r \in Resolved(s) THEN s ELSE resolvedBy[r]
<1>1. /\ TypeOK
      /\ s \in 1..published
      /\ synced <= s
  BY DEF EpisodeInv, Sync, SyncWrites
<1>2. /\ Created(s) \subseteq Ids
      /\ Created(s) \cap Episodes = {}
      /\ Created(s) \cap Resolved(s) = {}
      /\ Episodes \subseteq Ids
  BY <1>1, CreatedIds, CreatedIsNew DEF Resolved, Episodes
<1>3. ASSUME NEW r \in Created(s)
      PROVE  lastSeen'[r] = s /\ resolvedBy'[r] = 0
  BY <1>2, <1>3 DEF Sync, SyncWrites, Sighted
<1>4. ASSUME NEW r \in Episodes
      PROVE  /\ lastSeen'[r] = IF r \in Reused(s) THEN s ELSE lastSeen[r]
             /\ resolvedBy'[r] = IF r \in Resolved(s) THEN s ELSE resolvedBy[r]
  <2>1. r \in Ids /\ r \notin Created(s)
    BY <1>2, <1>4
  <2>2. QED
    BY <2>1 DEF Sync, SyncWrites, Sighted, Seen
<1>5. QED
  BY <1>3, <1>4

LEMMA InitEpisodeInv == Init => EpisodeInv
BY InitTypeOK
   DEF Init, EpisodeInv, EpisodeOrder, ResolutionIsLater, OnlyLatestUnresolved,
       Episodes

\* Storing a snapshot leaves the rows and every synced snapshot as they are.
LEMMA PublishEpisodeInv ==
  ASSUME EpisodeInv, NEW keys \in SUBSET Keys, Publish(keys)
  PROVE  EpisodeInv'
<1>1. TypeOK /\ TypeOK' /\ Episodes' = Episodes
  BY PublishTypeOK DEF EpisodeInv, Publish, Episodes, lifecycleVars
<1>2. \A t \in Snapshots : t <= synced => openKeys'[t] = openKeys[t]
  BY <1>1, ConstantsAssumption DEF TypeOK, Publish, Snapshots
<1>3. \A r \in Episodes :
        /\ lastSeen[r] \in Snapshots
        /\ openKeys'[lastSeen[r]] = openKeys[lastSeen[r]]
  BY <1>1, <1>2 DEF EpisodeInv, EpisodeOrder, TypeOK
<1>4. \A r \in Episodes : ~Unresolved(r) =>
        openKeys'[resolvedBy[r]] = openKeys[resolvedBy[r]]
  <2> SUFFICES ASSUME NEW r \in Episodes, ~Unresolved(r)
               PROVE  openKeys'[resolvedBy[r]] = openKeys[resolvedBy[r]]
    OBVIOUS
  <2>1. resolvedBy[r] \in Snapshots /\ resolvedBy[r] <= synced
    BY <1>1, ConstantsAssumption
       DEF EpisodeInv, EpisodeOrder, TypeOK, Episodes, Unresolved, Snapshots
  <2>2. QED
    BY <1>2, <2>1
<1>5. UNCHANGED <<synced, episodeVars>>
  BY DEF Publish
<1>6. EpisodeOrder'
  BY <1>1, <1>3, <1>5 DEF EpisodeInv, EpisodeOrder, episodeVars
<1>7. ResolutionIsLater'
  BY <1>1, <1>3, <1>4, <1>5
     DEF EpisodeInv, ResolutionIsLater, Unresolved, episodeVars
<1>8. OnlyLatestUnresolved'
  BY <1>1, <1>5 DEF EpisodeInv, OnlyLatestUnresolved, Unresolved, episodeVars
<1>9. QED
  BY <1>1, <1>6, <1>7, <1>8 DEF EpisodeInv

LEMMA SyncEpisodeInv ==
  ASSUME EpisodeInv, NEW s \in Snapshots, Sync(s)
  PROVE  EpisodeInv'
<1>1. /\ TypeOK /\ TypeOK'
      /\ s \in 1..published
      /\ synced <= s /\ synced' = s
      /\ openKeys' = openKeys
  BY SyncTypeOK DEF EpisodeInv, Sync, SyncWrites, snapshotVars
<1>2. /\ Episodes' = Episodes \cup Created(s)
      /\ Episodes \subseteq Ids
      /\ Created(s) \subseteq Ids
      /\ \A r \in Created(s) : SourceOf(r) = s /\ KeyOf(r) \in openKeys[s]
      /\ \A r \in Created(s) : \A q \in Reused(s) : KeyOf(q) # KeyOf(r)
  BY <1>1, SyncEpisodes, CreatedIds DEF Episodes
<1>3. /\ \A r \in Created(s) : lastSeen'[r] = s /\ resolvedBy'[r] = 0
      /\ \A r \in Episodes :
           /\ lastSeen'[r] = IF r \in Reused(s) THEN s ELSE lastSeen[r]
           /\ resolvedBy'[r] = IF r \in Resolved(s) THEN s ELSE resolvedBy[r]
  BY SyncRows
<1>4. \A r \in Episodes : /\ SourceOf(r) \in Nat
                          /\ lastSeen[r] \in Nat
                          /\ resolvedBy[r] \in Nat
                          /\ SourceOf(r) <= synced
                          /\ synced \in Nat
                          /\ s \in Nat
  <2>1. s \in Nat /\ synced \in Nat
    BY <1>1, ConstantsAssumption DEF TypeOK, Snapshots
  <2> SUFFICES ASSUME NEW r \in Episodes
               PROVE  /\ SourceOf(r) \in Nat
                      /\ lastSeen[r] \in Nat
                      /\ resolvedBy[r] \in Nat
                      /\ SourceOf(r) <= synced
    BY <2>1
  <2>2. r \in Ids /\ SourceOf(r) \in Nat
    BY <1>2, IdParts, ConstantsAssumption DEF Snapshots
  <2>3. lastSeen[r] \in Nat /\ resolvedBy[r] \in Nat
    BY <1>1, <2>2, ConstantsAssumption DEF TypeOK
  <2>4. SourceOf(r) <= lastSeen[r] /\ lastSeen[r] <= synced
    BY DEF EpisodeInv, EpisodeOrder
  <2>5. QED
    BY <2>1, <2>2, <2>3, <2>4
<1>5. EpisodeOrder'
  <2> SUFFICES ASSUME NEW r \in Episodes'
               PROVE  /\ SourceOf(r) <= lastSeen'[r]
                      /\ lastSeen'[r] <= s
                      /\ resolvedBy'[r] <= s
                      /\ KeyOf(r) \in openKeys[lastSeen'[r]]
    BY <1>1 DEF EpisodeOrder, SourceOf, KeyOf
  <2>1. CASE r \in Created(s)
    BY <1>1, <1>2, <1>3, <2>1
  <2>2. CASE r \in Episodes
    BY <1>1, <1>3, <1>4, <2>2 DEF EpisodeInv, EpisodeOrder, Reused
  <2>3. QED
    BY <1>2, <2>1, <2>2
<1>6. ResolutionIsLater'
  <2> SUFFICES ASSUME NEW r \in Episodes', resolvedBy'[r] # 0
               PROVE  /\ RefDate[lastSeen'[r]] < RefDate[resolvedBy'[r]]
                      /\ KeyOf(r) \notin openKeys[resolvedBy'[r]]
                      /\ KeyOf(r) \in openKeys[lastSeen'[r]]
    BY <1>1 DEF ResolutionIsLater, Unresolved, KeyOf
  <2>1. r \in Episodes
    BY <1>2, <1>3
  <2>2. CASE r \in Resolved(s)
    <3>1. r \notin Reused(s)
      BY <2>2 DEF Resolved, Reused
    <3>2. QED
      BY <1>3, <2>1, <2>2, <3>1 DEF EpisodeInv, EpisodeOrder, Resolved
  <2>3. CASE r \notin Resolved(s)
    <3>1. ~Unresolved(r) /\ r \notin Reused(s)
      BY <1>3, <2>1, <2>3 DEF Unresolved, Reused
    <3>2. QED
      BY <1>3, <2>1, <2>3, <3>1 DEF EpisodeInv, ResolutionIsLater
  <2>4. QED
    BY <2>2, <2>3
<1>7. OnlyLatestUnresolved'
  <2> SUFFICES ASSUME NEW q \in Episodes', NEW r \in Episodes',
                      KeyOf(q) = KeyOf(r), SourceOf(q) < SourceOf(r)
               PROVE  resolvedBy'[q] # 0
    BY DEF OnlyLatestUnresolved, Unresolved, KeyOf, SourceOf
  <2>1. q \in Episodes
    \* A row created by this sync has no source after it.
    BY <1>1, <1>2, <1>4
  <2>2. resolvedBy[q] # 0 => resolvedBy'[q] # 0
    BY <1>1, <1>3, <2>1
  <2>3. CASE r \in Episodes
    BY <2>1, <2>2, <2>3 DEF EpisodeInv, OnlyLatestUnresolved, Unresolved
  <2>4. CASE r \in Created(s)
    <3>1. q \notin Reused(s) /\ KeyOf(q) \in openKeys[s]
      BY <1>2, <2>4
    <3>2. ~Unresolved(q)
      BY <1>1, <2>1, <3>1, UnresolvedIsReused
    <3>3. QED
      BY <2>2, <3>2 DEF Unresolved
  <2>5. QED
    BY <1>2, <2>3, <2>4
<1>8. QED
  BY <1>1, <1>5, <1>6, <1>7 DEF EpisodeInv

\* A human transition disturbs no column the invariant speaks of but status,
\* and does not change which rows exist.
LEMMA TransitionEpisodeInv ==
  ASSUME EpisodeInv, NEW r \in Ids, NEW to \in RecommendationStatus,
         NEW role \in HumanRoles, NEW comment \in BOOLEAN, NEW new \in Payloads,
         TransitionRecommendation(r, to, role, comment, new)
  PROVE  EpisodeInv'
<1>1. TypeOK /\ TypeOK' /\ Episodes' = Episodes
  BY TransitionTypeOK, TransitionEpisodes DEF EpisodeInv
<1>2. UNCHANGED <<published, openKeys, synced, lastSeen, resolvedBy>>
  BY DEF TransitionRecommendation, snapshotVars, episodeVars
<1>3. QED
  BY <1>1, <1>2
     DEF EpisodeInv, EpisodeOrder, ResolutionIsLater, OnlyLatestUnresolved, Unresolved

LEMMA NextEpisodeInv == EpisodeInv /\ [Next]_vars => EpisodeInv'
<1> SUFFICES ASSUME EpisodeInv, [Next]_vars PROVE EpisodeInv'
  OBVIOUS
<1>1. ASSUME NEW keys \in SUBSET Keys, Publish(keys) PROVE EpisodeInv'
  BY <1>1, PublishEpisodeInv
<1>2. ASSUME NEW s \in Snapshots, Sync(s) PROVE EpisodeInv'
  BY <1>2, SyncEpisodeInv
<1>3. ASSUME NEW r \in Ids, NEW to \in RecommendationStatus, NEW role \in HumanRoles,
             NEW comment \in BOOLEAN, NEW new \in Payloads,
             TransitionRecommendation(r, to, role, comment, new)
      PROVE  EpisodeInv'
  BY <1>3, TransitionEpisodeInv
<1>4. CASE UNCHANGED vars
  <2>1. TypeOK'
    BY <1>4, NextTypeOK DEF EpisodeInv
  <2>2. QED
    BY <1>4, <2>1
       DEF EpisodeInv, EpisodeOrder, ResolutionIsLater, OnlyLatestUnresolved,
           Unresolved, Episodes, vars, snapshotVars, episodeVars, lifecycleVars
<1>5. QED
  BY <1>1, <1>2, <1>3, <1>4 DEF Next

\* The order of the episodes of each key holds in every state.
THEOREM EpisodesInvariant == Spec => []EpisodeInv
BY InitEpisodeInv, NextEpisodeInv, PTL DEF Spec

-----------------------------------------------------------------------------
(* The properties.                                                           *)

\* Two unresolved rows of a key would both be its latest.
LEMMA EpisodeInvImpliesOneActive == EpisodeInv => OneActiveEpisode
<1> SUFFICES ASSUME EpisodeInv, NEW q \in Episodes, NEW r \in Episodes,
                    KeyOf(q) = KeyOf(r), Unresolved(q), Unresolved(r)
             PROVE  q = r
  BY DEF OneActiveEpisode
<1>1. ~(SourceOf(q) < SourceOf(r)) /\ ~(SourceOf(r) < SourceOf(q))
  BY DEF EpisodeInv, OnlyLatestUnresolved
<1>2. SourceOf(q) \in Nat /\ SourceOf(r) \in Nat /\ q \in Ids /\ r \in Ids
  BY IdParts, ConstantsAssumption DEF Episodes, Snapshots
<1>3. SourceOf(q) = SourceOf(r)
  BY <1>1, <1>2
<1>4. QED
  BY <1>2, <1>3, IdParts

\* For any constants, a risk never has two unresolved recommendations.
THEOREM OneActiveEpisodeHolds == Spec => []OneActiveEpisode
BY EpisodeInvImpliesOneActive, EpisodesInvariant, PTL

\* For any constants, a recommendation is resolved only by a snapshot of a
\* later day than its last sighting that no longer shows its risk.
THEOREM ResolutionIsLaterHolds == Spec => []ResolutionIsLater
<1>1. EpisodeInv => ResolutionIsLater
  BY DEF EpisodeInv
<1>2. QED
  BY <1>1, EpisodesInvariant, PTL

\* For any constants, no sync in date order, repeated or not, meets an id that
\* a recommendation already has.
THEOREM SyncNeverCollidesHolds == Spec => []SyncNeverCollides
<1>1. EpisodeInv => SyncNeverCollides
  <2> SUFFICES ASSUME EpisodeInv, NEW s \in Snapshots, synced <= s, s <= published
               PROVE  Created(s) \cap Episodes = {}
    BY DEF SyncNeverCollides
  <2>1. s \in 1..published
    BY ConstantsAssumption DEF EpisodeInv, TypeOK, Snapshots
  <2>2. QED
    BY <2>1, CreatedIsNew
<1>2. QED
  BY <1>1, EpisodesInvariant, PTL

\* For any constants, a resolved recommendation stays as its resolution left it.
THEOREM ResolvedIsFinalHolds == Spec => ResolvedIsFinal
<1>1. ASSUME EpisodeInv, [Next]_vars, NEW r \in Episodes, ~Unresolved(r)
      PROVE  /\ resolvedBy'[r] = resolvedBy[r]
             /\ lastSeen'[r] = lastSeen[r]
             /\ observationCount'[r] = observationCount[r]
  <2>1. ASSUME NEW s \in Snapshots, Sync(s)
        PROVE  /\ resolvedBy'[r] = resolvedBy[r]
               /\ lastSeen'[r] = lastSeen[r]
               /\ observationCount'[r] = observationCount[r]
    <3>1. r \in Ids /\ r \notin Created(s)
      BY <1>1, <2>1 DEF Sync, SyncWrites, Episodes
    <3>2. r \notin Seen(s) /\ r \notin Resolved(s)
      BY <1>1 DEF Seen, Reused, Resolved
    <3>3. QED
      BY <2>1, <3>1, <3>2 DEF Sync, SyncWrites, Sighted
  <2>2. ASSUME NEW keys \in SUBSET Keys, Publish(keys) PROVE UNCHANGED episodeVars
    BY <2>2 DEF Publish
  <2>3. ASSUME NEW q \in Ids, NEW to \in RecommendationStatus, NEW role \in HumanRoles,
               NEW comment \in BOOLEAN, NEW new \in Payloads,
               TransitionRecommendation(q, to, role, comment, new)
        PROVE  UNCHANGED episodeVars
    BY <2>3 DEF TransitionRecommendation
  <2>4. CASE UNCHANGED vars
    BY <2>4 DEF vars, episodeVars
  <2>5. QED
    BY <1>1, <2>1, <2>2, <2>3, <2>4 DEF Next, episodeVars
<1>2. EpisodeInv /\ [Next]_vars =>
        [\A r \in Episodes : ~Unresolved(r) =>
           /\ resolvedBy'[r] = resolvedBy[r]
           /\ lastSeen'[r] = lastSeen[r]
           /\ observationCount'[r] = observationCount[r]]_vars
  BY <1>1
<1>3. QED
  BY <1>2, EpisodesInvariant, PTL DEF Spec, ResolvedIsFinal

-----------------------------------------------------------------------------
(* The open recommendations and the snapshot last synced.                    *)

\* A sync leaves a row seen on its snapshot for each risk that it shows, and
\* open rows of other risks only if they were seen no earlier than its day.
LEMMA SyncMirrors ==
  ASSUME EpisodeInv, NEW s \in Snapshots, Sync(s)
  PROVE  ActiveMirrorsSynced'
<1>1. /\ TypeOK /\ s \in 1..published
      /\ synced' = s /\ openKeys' = openKeys
      /\ Episodes' = Episodes \cup Created(s)
      /\ Created(s) \subseteq Ids /\ Episodes \subseteq Ids
  BY SyncEpisodes, CreatedIds DEF EpisodeInv, Sync, snapshotVars, Episodes
<1>2. /\ \A r \in Created(s) : lastSeen'[r] = s /\ resolvedBy'[r] = 0
      /\ \A r \in Episodes :
           /\ lastSeen'[r] = IF r \in Reused(s) THEN s ELSE lastSeen[r]
           /\ resolvedBy'[r] = IF r \in Resolved(s) THEN s ELSE resolvedBy[r]
  BY SyncRows
<1>3. ASSUME NEW k \in openKeys[s]
      PROVE  \E r \in Episodes' : KeyOf(r) = k /\ resolvedBy'[r] = 0 /\ lastSeen'[r] = s
  <2>1. CASE \E r \in Reused(s) : KeyOf(r) = k
    <3>1. PICK r \in Reused(s) : KeyOf(r) = k
      BY <2>1
    <3>2. r \in Episodes /\ Unresolved(r) /\ r \notin Resolved(s)
      BY <3>1 DEF Reused, Resolved
    <3> QED
      BY <1>1, <1>2, <3>1, <3>2 DEF Unresolved
  <2>2. CASE \A r \in Reused(s) : KeyOf(r) # k
    <3>1. <<s, k>> \in Created(s) /\ KeyOf(<<s, k>>) = k
      BY <2>2 DEF Created, KeyOf
    <3> QED
      BY <1>1, <1>2, <3>1
  <2> QED
    BY <2>1, <2>2
<1>4. ASSUME NEW r \in Episodes', resolvedBy'[r] = 0, KeyOf(r) \notin openKeys[s]
      PROVE  RefDate[lastSeen'[r]] >= RefDate[s]
  <2>1. r \in Episodes /\ r \notin Reused(s)
    BY <1>1, <1>4, CreatedIds DEF Reused
  <2>2. r \notin Resolved(s)
    BY <1>1, <1>2, <1>4, <2>1, ConstantsAssumption DEF Snapshots
  <2>3. Unresolved(r) /\ lastSeen'[r] = lastSeen[r]
    BY <1>2, <1>4, <2>1, <2>2 DEF Unresolved
  <2>4. ~(RefDate[lastSeen[r]] < RefDate[s])
    BY <1>4, <2>1, <2>2, <2>3 DEF Resolved
  <2>5. RefDate[lastSeen[r]] \in Nat /\ RefDate[s] \in Nat
    BY <1>1, <2>1, ConstantsAssumption DEF TypeOK
  <2> QED
    BY <2>3, <2>4, <2>5
<1> QED
  BY <1>1, <1>3, <1>4 DEF ActiveMirrorsSynced, Unresolved, KeyOf

\* A step that is no sync leaves the rows and the synced snapshot as they are.
LEMMA OthersKeepEpisodes ==
  ASSUME EpisodeInv, [Next]_vars, \A s \in Snapshots : ~Sync(s)
  PROVE  /\ Episodes' = Episodes
         /\ UNCHANGED <<synced, episodeVars>>
         /\ \A t \in Snapshots : t <= synced => openKeys'[t] = openKeys[t]
<1>1. /\ TypeOK /\ published \in Nat
      /\ synced \in Nat /\ synced <= published
      /\ \A t \in Snapshots : t \in Nat
  BY ConstantsAssumption DEF EpisodeInv, TypeOK, Snapshots
<1>2. ASSUME NEW keys \in SUBSET Keys, Publish(keys)
      PROVE  /\ Episodes' = Episodes
             /\ UNCHANGED <<synced, episodeVars>>
             /\ \A t \in Snapshots : t <= synced => openKeys'[t] = openKeys[t]
  BY <1>1, <1>2 DEF Publish, Episodes, lifecycleVars, TypeOK
<1>3. ASSUME NEW r \in Ids, NEW to \in RecommendationStatus, NEW role \in HumanRoles,
             NEW comment \in BOOLEAN, NEW new \in Payloads,
             TransitionRecommendation(r, to, role, comment, new)
      PROVE  Episodes' = Episodes /\ UNCHANGED <<snapshotVars, synced, episodeVars>>
  BY <1>1, <1>3, TransitionEpisodes DEF TransitionRecommendation
<1>4. CASE UNCHANGED vars
  BY <1>4 DEF vars, Episodes, lifecycleVars, snapshotVars
<1> QED
  BY <1>2, <1>3, <1>4 DEF Next, snapshotVars

\* For any constants, the open recommendations are those of the risks of the
\* snapshot last synced, and those last seen on its day or later.
THEOREM ActiveMirrorsSyncedHolds == Spec => []ActiveMirrorsSynced
<1>1. Init => ActiveMirrorsSynced
  BY DEF Init, ActiveMirrorsSynced
<1>2. EpisodeInv /\ ActiveMirrorsSynced /\ [Next]_vars => ActiveMirrorsSynced'
  <2> SUFFICES ASSUME EpisodeInv, ActiveMirrorsSynced, [Next]_vars
               PROVE  ActiveMirrorsSynced'
    OBVIOUS
  <2>1. CASE \E s \in Snapshots : Sync(s)
    BY <2>1, SyncMirrors
  <2>2. CASE \A s \in Snapshots : ~Sync(s)
    <3>1. /\ Episodes' = Episodes /\ UNCHANGED <<synced, episodeVars>>
          /\ \A t \in Snapshots : t <= synced => openKeys'[t] = openKeys[t]
      BY <2>2, OthersKeepEpisodes
    <3>2. synced # 0 => synced \in Snapshots /\ synced <= synced
      BY ConstantsAssumption DEF EpisodeInv, TypeOK, Snapshots
    <3> QED
      BY <3>1, <3>2 DEF ActiveMirrorsSynced, Unresolved, episodeVars
  <2> QED
    BY <2>1, <2>2
<1> QED
  BY <1>1, <1>2, EpisodesInvariant, PTL DEF Spec

-----------------------------------------------------------------------------
(* The count of sightings.                                                   *)

SightingsUpTo(r, keys, last) == {s \in SourceOf(r)..last : KeyOf(r) \in keys[s]}

\* The sightings up to a later snapshot that shows the risk are one more at least.
LEMMA OneMoreSighting ==
  ASSUME NEW r, NEW keys, NEW first \in Int, SourceOf(r) = first,
         NEW last \in Int, NEW s \in Int, last < s, first <= s, KeyOf(r) \in keys[s]
  PROVE  /\ Cardinality(SightingsUpTo(r, keys, last)) \in Nat
         /\ Cardinality(SightingsUpTo(r, keys, s)) \in Nat
         /\ Cardinality(SightingsUpTo(r, keys, last)) + 1
              <= Cardinality(SightingsUpTo(r, keys, s))
<1> DEFINE old == SightingsUpTo(r, keys, last)
           new == SightingsUpTo(r, keys, s)
<1>1. old \subseteq first..last /\ new \subseteq first..s
  BY DEF SightingsUpTo
<1>2. IsFiniteSet(old) /\ IsFiniteSet(new)
  BY <1>1, FS_Interval, FS_Subset
<1>3. s \notin old /\ old \cup {s} \subseteq new
  BY DEF SightingsUpTo
<1> HIDE DEF old, new
<1>4. Cardinality(old \cup {s}) = Cardinality(old) + 1
  BY <1>2, <1>3, FS_AddElement
<1>5. Cardinality(old \cup {s}) <= Cardinality(new)
  BY <1>2, <1>3, FS_Subset
<1>6. Cardinality(old) \in Nat /\ Cardinality(new) \in Nat
  BY <1>2, FS_CardinalityType
<1> QED
  BY <1>4, <1>5, <1>6 DEF old, new

\* A sync counts a sighting only on a snapshot after the last one seen.
LEMMA SyncCountsOnce ==
  ASSUME EpisodeInv, EachSnapshotCountedOnce, NEW s \in Snapshots, Sync(s)
  PROVE  EachSnapshotCountedOnce'
<1>1. /\ TypeOK /\ s \in 1..published /\ synced <= s /\ openKeys' = openKeys
      /\ Episodes' = Episodes \cup Created(s)
      /\ Created(s) \subseteq Ids /\ Episodes \subseteq Ids
      /\ Created(s) \cap Episodes = {}
  BY SyncEpisodes, CreatedIds, CreatedIsNew DEF EpisodeInv, Sync, snapshotVars, Episodes
<1> SUFFICES ASSUME NEW r \in Episodes'
             PROVE  observationCount'[r] <= Cardinality(SightingsUpTo(r, openKeys, lastSeen'[r]))
  BY <1>1 DEF EachSnapshotCountedOnce, SightingsUpTo, SourceOf, KeyOf
<1>2. s \in Int /\ SourceOf(r) \in Int /\ r \in Ids
  BY <1>1, IdParts, ConstantsAssumption DEF Snapshots
<1>3. CASE r \in Created(s)
  <2>1. observationCount'[r] = 1 /\ lastSeen'[r] = s /\ SourceOf(r) = s
        /\ KeyOf(r) \in openKeys[s]
    BY <1>1, <1>2, <1>3, SyncRows, CreatedIds DEF Sync, SyncWrites
  <2>2. SightingsUpTo(r, openKeys, s) = {s}
    BY <1>2, <2>1 DEF SightingsUpTo
  <2>3. Cardinality(SightingsUpTo(r, openKeys, s)) = 1
    BY <2>2, FS_Singleton
  <2> QED
    BY <2>1, <2>3
<1>4. CASE r \in Episodes
  <2>1. /\ r \notin Created(s)
        /\ lastSeen'[r] = IF r \in Reused(s) THEN s ELSE lastSeen[r]
    BY <1>1, <1>4, SyncRows
  <2>2. /\ lastSeen[r] \in Int /\ SourceOf(r) <= lastSeen[r] /\ lastSeen[r] <= s
        /\ observationCount[r] \in Nat
    BY <1>1, <1>2, <1>4, ConstantsAssumption
       DEF EpisodeInv, EpisodeOrder, TypeOK, Snapshots
  <2>3. observationCount[r] <= Cardinality(SightingsUpTo(r, openKeys, lastSeen[r]))
    BY <1>4 DEF EachSnapshotCountedOnce, SightingsUpTo
  <2>4. CASE r \in Seen(s)
    <3>1. /\ observationCount'[r] = observationCount[r] + 1 /\ lastSeen'[r] = s
          /\ lastSeen[r] < s /\ KeyOf(r) \in openKeys[s]
      BY <1>2, <2>1, <2>2, <2>4 DEF Sync, SyncWrites, Sighted, Seen, Reused
    <3>2. /\ Cardinality(SightingsUpTo(r, openKeys, lastSeen[r])) \in Nat
          /\ Cardinality(SightingsUpTo(r, openKeys, s)) \in Nat
          /\ Cardinality(SightingsUpTo(r, openKeys, lastSeen[r])) + 1
               <= Cardinality(SightingsUpTo(r, openKeys, s))
      BY <1>2, <2>2, <3>1, OneMoreSighting
    <3> QED
      BY <2>2, <2>3, <3>1, <3>2
  <2>5. CASE r \notin Seen(s)
    <3>1. observationCount'[r] = observationCount[r] /\ lastSeen'[r] = lastSeen[r]
      BY <1>2, <1>4, <2>1, <2>5 DEF Sync, SyncWrites, Sighted, Seen
    <3> QED
      BY <2>3, <3>1
  <2> QED
    BY <2>4, <2>5
<1> QED
  BY <1>1, <1>3, <1>4

\* For any constants, a recommendation has counted at most the snapshots between
\* its first and its last sighting that show its risk, each once.
THEOREM EachSnapshotCountedOnceHolds == Spec => []EachSnapshotCountedOnce
<1>1. Init => EachSnapshotCountedOnce
  BY DEF Init, EachSnapshotCountedOnce, Episodes
<1>2. EpisodeInv /\ EachSnapshotCountedOnce /\ [Next]_vars => EachSnapshotCountedOnce'
  <2> SUFFICES ASSUME EpisodeInv, EachSnapshotCountedOnce, [Next]_vars
               PROVE  EachSnapshotCountedOnce'
    OBVIOUS
  <2>1. CASE \E s \in Snapshots : Sync(s)
    BY <2>1, SyncCountsOnce
  <2>2. CASE \A s \in Snapshots : ~Sync(s)
    <3>1. /\ Episodes' = Episodes /\ UNCHANGED <<synced, episodeVars>>
          /\ \A t \in Snapshots : t <= synced => openKeys'[t] = openKeys[t]
      BY <2>2, OthersKeepEpisodes
    <3> SUFFICES ASSUME NEW r \in Episodes
                 PROVE  observationCount[r]
                          <= Cardinality({s \in SourceOf(r)..lastSeen[r] : KeyOf(r) \in openKeys'[s]})
      BY <3>1 DEF EachSnapshotCountedOnce, episodeVars, SourceOf, KeyOf
    <3>2. /\ SourceOf(r) \in Snapshots /\ lastSeen[r] \in Snapshots
          /\ lastSeen[r] <= synced /\ synced \in Nat
      BY IdParts, ConstantsAssumption DEF EpisodeInv, EpisodeOrder, TypeOK, Episodes
    <3>3. \A s \in SourceOf(r)..lastSeen[r] : s \in Snapshots /\ s <= synced
      BY <3>2, ConstantsAssumption DEF Snapshots
    <3>4. {s \in SourceOf(r)..lastSeen[r] : KeyOf(r) \in openKeys'[s]}
            = {s \in SourceOf(r)..lastSeen[r] : KeyOf(r) \in openKeys[s]}
      BY <3>1, <3>3
    <3> QED
      BY <3>4 DEF EachSnapshotCountedOnce
  <2> QED
    BY <2>1, <2>2
<1> QED
  BY <1>1, <1>2, EpisodesInvariant, PTL DEF Spec

-----------------------------------------------------------------------------
(* The table implements the timelines of RiskEpisodes: the unresolved row of *)
(* a key is its open episode, the resolved ones are its closed episodes, a   *)
(* sync is an observation and a human transition changes nothing.            *)

OpenOf(r, seen) == [source |-> SourceOf(r), seen |-> seen[r]]

ClosedOf(r, seen, resolved) ==
  [source |-> SourceOf(r), seen |-> seen[r], resolved |-> resolved[r]]

-----------------------------------------------------------------------------
(* Reading the timelines from the table.                                         *)

\* The open episode of a key is that of its one unresolved row.
LEMMA ActiveEpisodeOfRow ==
  ASSUME EpisodeInv, NEW k \in Keys
  PROVE  /\ ActiveIds(k) = {} => ActiveEpisode[k] = Timeline!NoEpisode
         /\ \A r \in ActiveIds(k) : /\ ActiveIds(k) = {r}
                                    /\ ActiveEpisode[k] = OpenOf(r, lastSeen)
                                    /\ ActiveEpisode[k] # Timeline!NoEpisode
<1>1. CASE ActiveIds(k) = {}
  BY <1>1 DEF ActiveEpisode, Timeline!NoEpisode
<1>2. ASSUME NEW r \in ActiveIds(k)
      PROVE  /\ ActiveIds(k) = {r}
             /\ ActiveEpisode[k] = OpenOf(r, lastSeen)
             /\ ActiveEpisode[k] # Timeline!NoEpisode
  <2>1. OneActiveEpisode
    BY EpisodeInvImpliesOneActive
  <2>2. ActiveIds(k) = {r}
    BY <2>1 DEF ActiveIds, OneActiveEpisode
  <2>3. ActiveEpisode[k] = OpenOf(r, lastSeen)
    BY <2>2 DEF ActiveEpisode, OpenOf
  <2>4. SourceOf(r) # 0
    BY IdParts, ConstantsAssumption DEF ActiveIds, Episodes, Snapshots
  <2> QED
    BY <2>2, <2>3, <2>4 DEF OpenOf, Timeline!NoEpisode
<1> QED
  BY <1>1, <1>2

\* The same of the state that a step leads to, when one row at most is unresolved.
LEMMA NextActiveEpisodeOfRow ==
  ASSUME NEW k \in Keys
  PROVE  /\ ActiveIds(k)' = {} => ActiveEpisode'[k] = Timeline!NoEpisode
         /\ \A r : ActiveIds(k)' = {r} => ActiveEpisode'[k] = OpenOf(r, lastSeen')
  BY DEF ActiveEpisode, OpenOf, Timeline!NoEpisode, SourceOf

\* A step that changes none of the columns the timelines are read from leaves them.
LEMMA SameTimelines ==
  ASSUME Episodes' = Episodes, UNCHANGED episodeVars
  PROVE  UNCHANGED <<ActiveEpisode, ClosedEpisodes>>
<1>1. \A k \in Keys : ActiveIds(k)' = ActiveIds(k)
  BY DEF ActiveIds, Unresolved, KeyOf, episodeVars
<1>2. lastSeen' = lastSeen /\ resolvedBy' = resolvedBy
  BY DEF episodeVars
<1>3. ActiveEpisode' = ActiveEpisode
  BY <1>1, <1>2 DEF ActiveEpisode, SourceOf
<1>4. ClosedEpisodes' = ClosedEpisodes
  BY <1>2 DEF ClosedEpisodes, Unresolved, KeyOf, SourceOf
<1> QED
  BY <1>3, <1>4

-----------------------------------------------------------------------------
(* A sync is an observation of its snapshot.                                     *)

\* The rows of a key that a sync leaves unresolved.
LEMMA SyncActiveIds ==
  ASSUME EpisodeInv, NEW s \in Snapshots, Sync(s), NEW k \in Keys
  PROVE  ActiveIds(k)' =
           {r \in Created(s) : KeyOf(r) = k} \cup (ActiveIds(k) \ Resolved(s))
<1>1. /\ Episodes' = Episodes \cup Created(s)
      /\ \A r \in Created(s) : resolvedBy'[r] = 0
      /\ \A r \in Episodes :
           resolvedBy'[r] = IF r \in Resolved(s) THEN s ELSE resolvedBy[r]
  BY SyncEpisodes, SyncRows DEF EpisodeInv
<1>2. s # 0
  BY ConstantsAssumption DEF Snapshots
<1> QED
  BY <1>1, <1>2 DEF ActiveIds, Unresolved, KeyOf

\* The open episode of each key follows its risk.
LEMMA SyncFollows ==
  ASSUME EpisodeInv, NEW s \in Snapshots, Sync(s), NEW k \in Keys
  PROVE  ActiveEpisode'[k] = Timeline!Following(k, s)
<1>1. s \in 1..published /\ TypeOK
  BY DEF Sync, EpisodeInv
<1>2. /\ \A r \in Created(s) : lastSeen'[r] = s
      /\ \A r \in Episodes : lastSeen'[r] = IF r \in Reused(s) THEN s ELSE lastSeen[r]
  BY SyncRows
<1> DEFINE new == {r \in Created(s) : KeyOf(r) = k}
<1>3. ActiveIds(k)' = new \cup (ActiveIds(k) \ Resolved(s))
  BY SyncActiveIds
<1>4. CASE k \in openKeys[s] /\ ActiveIds(k) = {}
  <2>1. new = {<<s, k>>}
    BY <1>4 DEF Created, KeyOf, Reused, ActiveIds
  <2>2. ActiveIds(k)' = {<<s, k>>}
    BY <1>3, <1>4, <2>1
  <2>3. ActiveEpisode'[k] = [source |-> s, seen |-> s]
    <3>1. lastSeen'[<<s, k>>] = s
      BY <1>2, <2>1
    <3>2. ActiveEpisode'[k] = OpenOf(<<s, k>>, lastSeen')
      BY <2>2, NextActiveEpisodeOfRow
    <3> QED
      BY <3>1, <3>2 DEF OpenOf, SourceOf
  <2>4. ActiveEpisode[k] = Timeline!NoEpisode
    BY <1>4, ActiveEpisodeOfRow
  <2> QED
    BY <1>4, <2>3, <2>4 DEF Timeline!Following, Timeline!Over
<1>5. ASSUME k \in openKeys[s], NEW r \in ActiveIds(k)
      PROVE  ActiveEpisode'[k] = Timeline!Following(k, s)
  <2>1. r \in Episodes /\ KeyOf(r) = k /\ Unresolved(r)
    BY <1>5 DEF ActiveIds
  <2>2. r \in Reused(s) /\ r \notin Resolved(s)
    BY <1>1, <1>5, <2>1, UnresolvedIsReused DEF Resolved
  <2>3. new = {}
    BY <2>1, <2>2 DEF Created, KeyOf
  <2>4. ActiveIds(k)' = {r} /\ ActiveEpisode[k] # Timeline!NoEpisode
        /\ ActiveEpisode[k] = OpenOf(r, lastSeen)
    BY <1>3, <1>5, <2>2, <2>3, ActiveEpisodeOfRow
  <2>5. ActiveEpisode'[k] = [source |-> SourceOf(r), seen |-> s]
    BY <1>2, <2>1, <2>2, <2>4, NextActiveEpisodeOfRow DEF OpenOf
  <2>6. Timeline!Following(k, s) = [ActiveEpisode[k] EXCEPT !.seen = s]
    BY <1>5, <2>4 DEF Timeline!Following, Timeline!Over
  <2>7. [ActiveEpisode[k] EXCEPT !.seen = s] = [source |-> SourceOf(r), seen |-> s]
    BY <2>4 DEF OpenOf
  <2> QED
    BY <2>5, <2>6, <2>7
<1>6. CASE k \notin openKeys[s] /\ ActiveIds(k) = {}
  <2>1. ActiveIds(k)' = {}
    BY <1>3, <1>6 DEF Created, KeyOf
  <2> QED
    BY <1>6, <2>1, ActiveEpisodeOfRow, NextActiveEpisodeOfRow
       DEF Timeline!Following, Timeline!Over
<1>7. ASSUME k \notin openKeys[s], NEW r \in ActiveIds(k)
      PROVE  ActiveEpisode'[k] = Timeline!Following(k, s)
  <2>1. r \in Episodes /\ KeyOf(r) = k /\ Unresolved(r) /\ r \notin Reused(s)
    BY <1>7 DEF ActiveIds, Reused
  <2>2. new = {}
    BY <1>7 DEF Created, KeyOf
  <2>3. /\ ActiveIds(k) = {r} /\ ActiveEpisode[k] # Timeline!NoEpisode
        /\ ActiveEpisode[k] = OpenOf(r, lastSeen)
    BY <1>7, ActiveEpisodeOfRow
  <2>4. Timeline!Over(k, s) <=> r \in Resolved(s)
    BY <1>7, <2>1, <2>3 DEF Timeline!Over, Resolved, OpenOf
  <2>5. CASE r \in Resolved(s)
    <3>1. ActiveIds(k)' = {}
      BY <1>3, <2>2, <2>3, <2>5
    <3> QED
      BY <1>7, <2>4, <2>5, <3>1, NextActiveEpisodeOfRow DEF Timeline!Following
  <2>6. CASE r \notin Resolved(s)
    <3>1. ActiveIds(k)' = {r}
      BY <1>3, <2>2, <2>3, <2>6
    <3>2. ActiveEpisode'[k] = OpenOf(r, lastSeen') /\ lastSeen'[r] = lastSeen[r]
      BY <1>2, <2>1, <3>1, NextActiveEpisodeOfRow
    <3> QED
      BY <1>7, <2>3, <2>4, <2>6, <3>2 DEF Timeline!Following, OpenOf
  <2> QED
    BY <2>5, <2>6
<1> QED
  BY <1>4, <1>5, <1>6, <1>7

\* The closed episodes of each key are kept, and the open one joins them when it
\* is over.
LEMMA SyncCloses ==
  ASSUME EpisodeInv, NEW s \in Snapshots, Sync(s), NEW k \in Keys
  PROVE  ClosedEpisodes'[k] = ClosedEpisodes[k] \cup Timeline!Closing(k, s)
<1>1. /\ TypeOK /\ s \in 1..published /\ s # 0
      /\ Episodes' = Episodes \cup Created(s)
      /\ \A r \in Created(s) : resolvedBy'[r] = 0
      /\ \A r \in Episodes :
           /\ lastSeen'[r] = IF r \in Reused(s) THEN s ELSE lastSeen[r]
           /\ resolvedBy'[r] = IF r \in Resolved(s) THEN s ELSE resolvedBy[r]
  BY SyncEpisodes, SyncRows, ConstantsAssumption DEF EpisodeInv, Sync, Snapshots
<1> DEFINE before == {r \in Episodes : KeyOf(r) = k /\ resolvedBy[r] # 0}
           over == {r \in Resolved(s) : KeyOf(r) = k}
           after == {r \in Episodes' : KeyOf(r) = k /\ resolvedBy'[r] # 0}
<1>2. after = before \cup over
  BY <1>1 DEF Resolved, Unresolved
<1>3. \A r \in before : ClosedOf(r, lastSeen', resolvedBy') = ClosedOf(r, lastSeen, resolvedBy)
  BY <1>1 DEF ClosedOf, Reused, Resolved, Unresolved
<1>4. \A r \in over : ClosedOf(r, lastSeen', resolvedBy')
                        = [source |-> SourceOf(r), seen |-> lastSeen[r], resolved |-> s]
  BY <1>1 DEF ClosedOf, Reused, Resolved
<1>5. /\ ClosedEpisodes[k] = {ClosedOf(r, lastSeen, resolvedBy) : r \in before}
      /\ ClosedEpisodes'[k] = {ClosedOf(r, lastSeen', resolvedBy') : r \in after}
  BY DEF ClosedEpisodes, ClosedOf, Unresolved, KeyOf, SourceOf
<1>6. Timeline!Closing(k, s) = {[source |-> SourceOf(r), seen |-> lastSeen[r], resolved |-> s] :
                                  r \in over}
  <2>1. CASE ActiveIds(k) = {}
    <3>1. over = {}
      BY <2>1 DEF Resolved, ActiveIds
    <3>2. ~Timeline!Over(k, s)
      BY <2>1, ActiveEpisodeOfRow DEF Timeline!Over
    <3> QED
      BY <3>1, <3>2 DEF Timeline!Closing
  <2>2. ASSUME NEW r \in ActiveIds(k)
        PROVE  Timeline!Closing(k, s) =
                 {[source |-> SourceOf(q), seen |-> lastSeen[q], resolved |-> s] : q \in over}
    <3>1. /\ ActiveIds(k) = {r} /\ ActiveEpisode[k] # Timeline!NoEpisode
          /\ ActiveEpisode[k] = OpenOf(r, lastSeen)
          /\ r \in Episodes /\ KeyOf(r) = k /\ Unresolved(r)
      BY ActiveEpisodeOfRow DEF ActiveIds
    <3>2. over = IF Timeline!Over(k, s) THEN {r} ELSE {}
      BY <3>1 DEF Timeline!Over, Resolved, OpenOf, ActiveIds
    <3> QED
      BY <3>1, <3>2 DEF Timeline!Closing, OpenOf
  <2> QED
    BY <2>1, <2>2
<1> HIDE DEF before, over, after
<1> QED
  BY <1>2, <1>3, <1>4, <1>5, <1>6

-----------------------------------------------------------------------------
(* The refinement.                                                               *)

\* The empty table is the empty timelines.
LEMMA InitImplements == Init => Timeline!Init
<1> SUFFICES ASSUME Init PROVE Timeline!Init
  OBVIOUS
<1>1. Episodes = {}
  BY DEF Init, Episodes
<1>2. \A k \in Keys : ActiveIds(k) = {}
  BY <1>1 DEF ActiveIds
<1>3. ActiveEpisode = [k \in Keys |-> Timeline!NoEpisode]
  BY <1>2 DEF ActiveEpisode, Timeline!NoEpisode
<1>4. ClosedEpisodes = [k \in Keys |-> {}]
  BY <1>1 DEF ClosedEpisodes
<1> QED
  BY <1>3, <1>4 DEF Init, Timeline!Init, Snapshots, Timeline!Snapshots

\* Every step is a step of the timelines or leaves them alone.
LEMMA NextImplements ==
  ASSUME EpisodeInv, [Next]_vars
  PROVE  [Timeline!Next]_(Timeline!vars)
<1>1. ASSUME NEW s \in Snapshots, Sync(s) PROVE Timeline!Observe(s)
  <2>1. s \in 1..published /\ synced <= s /\ synced' = s /\ UNCHANGED <<published, openKeys>>
    BY <1>1 DEF Sync, snapshotVars
  <2>2. ActiveEpisode' = [k \in Keys |-> Timeline!Following(k, s)]
    <3>1. \A k \in Keys : ActiveEpisode'[k] = Timeline!Following(k, s)
      BY <1>1, SyncFollows
    <3>2. ActiveEpisode' = [k \in Keys |-> ActiveEpisode'[k]]
      BY DEF ActiveEpisode
    <3> QED
      BY <3>1, <3>2
  <2>3. ClosedEpisodes' = [k \in Keys |-> ClosedEpisodes[k] \cup Timeline!Closing(k, s)]
    <3>1. \A k \in Keys : ClosedEpisodes'[k] = ClosedEpisodes[k] \cup Timeline!Closing(k, s)
      BY <1>1, SyncCloses
    <3>2. ClosedEpisodes' = [k \in Keys |-> ClosedEpisodes'[k]]
      BY DEF ClosedEpisodes
    <3> QED
      BY <3>1, <3>2
  <2> QED
    BY <2>1, <2>2, <2>3 DEF Timeline!Observe
<1>2. ASSUME NEW keys \in SUBSET Keys, Publish(keys) PROVE Timeline!Publish(keys)
  <2>1. Episodes' = Episodes /\ UNCHANGED episodeVars
    BY <1>2 DEF Publish, Episodes, lifecycleVars
  <2> QED
    BY <1>2, <2>1, SameTimelines DEF Publish, Timeline!Publish
<1>3. ASSUME NEW r \in Ids, NEW to \in RecommendationStatus, NEW role \in HumanRoles,
             NEW comment \in BOOLEAN, NEW new \in Payloads,
             TransitionRecommendation(r, to, role, comment, new)
      PROVE  UNCHANGED Timeline!vars
  <2>1. Episodes' = Episodes /\ UNCHANGED <<snapshotVars, synced, episodeVars>>
    BY <1>3, TransitionEpisodes DEF TransitionRecommendation, EpisodeInv
  <2> QED
    BY <2>1, SameTimelines DEF Timeline!vars, snapshotVars
<1>4. CASE UNCHANGED vars
  <2>1. Episodes' = Episodes /\ UNCHANGED <<snapshotVars, synced, episodeVars>>
    BY <1>4 DEF vars, Episodes, lifecycleVars
  <2> QED
    BY <2>1, SameTimelines DEF Timeline!vars, snapshotVars
<1> QED
  BY <1>1, <1>2, <1>3, <1>4 DEF Next, Timeline!Next, Snapshots, Timeline!Snapshots

\* For any constants, the table of recommendations, with its scans for the latest
\* and the unresolved rows, behaves as one timeline of episodes for each risk.
THEOREM ImplementsRiskEpisodesHolds == Spec => ImplementsRiskEpisodes
<1>1. EpisodeInv /\ [Next]_vars => [Timeline!Next]_(Timeline!vars)
  BY NextImplements
<1> QED
  BY <1>1, InitImplements, EpisodesInvariant, PTL
     DEF Spec, ImplementsRiskEpisodes, Timeline!Spec
==============================================================================
