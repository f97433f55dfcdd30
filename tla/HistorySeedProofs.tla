--------------------------- MODULE HistorySeedProofs ---------------------------
(****************************************************************************)
(* Theorems about the replay of the history for any number of sessions, any *)
(* history and any number of failures: each stored snapshot is linked to    *)
(* the day before it; a call that meets no other one is seen by the tables  *)
(* as a run of RecommendationService; and when none has died either, the    *)
(* recommendations are those of the whole history.                          *)
(****************************************************************************)
EXTENDS MCHistorySeed, RecommendationServiceProofs

-----------------------------------------------------------------------------
(* The links, whatever the sessions do to each other.                        *)

Steps == {"idle", "lookup", "insert", "read", "sync", "done", "failed"}

SeedTypeOK ==
  /\ published \in 0..MaxSnapshots
  /\ openKeys \in [Snapshots -> SUBSET Keys]
  /\ pc \in [Seeders -> Steps]
  /\ day \in [Seeders -> 1..(MaxSnapshots + 1)]
  /\ previousId \in [Seeders -> Nat]
  /\ previousOf \in [Snapshots -> Nat]
  /\ failures \in Nat

\* A call is at most one day ahead of what is stored, and carries the id of the
\* day before the one it looks up.
CallsFollowDays ==
  \A p \in Seeders :
    /\ pc[p] \in {"lookup", "insert"} => previousId[p] = day[p] - 1 /\ day[p] <= published + 1
    /\ pc[p] \in {"read", "sync"} => day[p] <= published
    /\ pc[p] = "done" => published = MaxSnapshots

\* The inductive invariant behind HistoryIsLinked.
SeedInv == SeedTypeOK /\ CallsFollowDays /\ HistoryIsLinked

LEMMA SeedInitInv == SeedInit => SeedInv
BY ConstantsAssumption
   DEF SeedInit, Init, SeedInv, SeedTypeOK, CallsFollowDays, HistoryIsLinked, Steps, Snapshots

\* The snapshot that a call stores is that of its day, after all the others.
LEMMA InsertKeepsLinks ==
  ASSUME SeedInv, NEW p \in Seeders, InsertSnapshot(p)
  PROVE  SeedInv'
<1>1. /\ pc[p] = "insert" /\ pc' = [pc EXCEPT ![p] = "read"]
      /\ day[p] = published + 1 /\ published < MaxSnapshots
      /\ published' = published + 1
      /\ openKeys' = [openKeys EXCEPT ![published + 1] = HistoryKeys[day[p]]]
      /\ previousOf' = [previousOf EXCEPT ![day[p]] = previousId[p]]
      /\ UNCHANGED <<day, previousId, failures>>
  BY DEF InsertSnapshot, Goto, Publish
<1>2. /\ published \in 0..MaxSnapshots /\ MaxSnapshots \in Nat
      /\ day[p] \in Snapshots
  BY <1>1, ConstantsAssumption DEF SeedInv, SeedTypeOK, Snapshots
<1>3. HistoryKeys[day[p]] \in SUBSET Keys
  BY <1>2, HistoryAssumption
<1>4. SeedTypeOK'
  BY <1>1, <1>2, <1>3 DEF SeedInv, SeedTypeOK, Steps, Snapshots
<1>5. CallsFollowDays'
  BY <1>1, <1>2 DEF SeedInv, SeedTypeOK, CallsFollowDays
<1>6. HistoryIsLinked'
  <2>1. previousId[p] = day[p] - 1
    BY <1>1 DEF SeedInv, CallsFollowDays
  <2>2. /\ previousOf'[day[p]] = day[p] - 1
        /\ openKeys'[day[p]] = HistoryKeys[day[p]]
    BY <1>1, <1>2, <2>1 DEF SeedInv, SeedTypeOK
  <2>3. ASSUME NEW s \in 1..published
        PROVE  s \in Snapshots /\ previousOf'[s] = previousOf[s] /\ openKeys'[s] = openKeys[s]
    BY <1>1, <1>2 DEF SeedInv, SeedTypeOK, Snapshots
  <2>4. \A s \in 1..published' : s \in 1..published \/ s = day[p]
    BY <1>1, <1>2
  <2> QED
    BY <2>2, <2>3, <2>4 DEF SeedInv, HistoryIsLinked
<1> QED
  BY <1>4, <1>5, <1>6 DEF SeedInv

\* No other step changes what is stored.
LEMMA OthersKeepSnapshots ==
  ASSUME SeedNext, \A p \in Seeders : ~InsertSnapshot(p)
  PROVE  UNCHANGED <<published, openKeys, previousOf>>
BY DEF SeedNext, Run, Call, PassOver, Missing, Return, InsertConflict, ReadRows, CommitSync,
       Fail, Again, vars, snapshotVars

LEMMA OthersKeepLinks ==
  ASSUME SeedInv, SeedNext, \A p \in Seeders : ~InsertSnapshot(p)
  PROVE  SeedInv'
<1>1. UNCHANGED <<published, openKeys, previousOf>>
  BY OthersKeepSnapshots
<1>2. /\ published \in 0..MaxSnapshots /\ MaxSnapshots \in Nat
      /\ \A p \in Seeders : /\ day[p] \in 1..(MaxSnapshots + 1)
                            /\ day[p] \in Snapshots <=> day[p] <= MaxSnapshots
  BY ConstantsAssumption DEF SeedInv, SeedTypeOK, Snapshots
<1>3. SeedTypeOK' /\ CallsFollowDays'
  <2> SUFFICES ASSUME NEW p \in Seeders, Call(p) \/ Run(p) \/ Fail(p) \/ Again(p)
               PROVE  SeedTypeOK' /\ CallsFollowDays'
    BY DEF SeedNext
  <2>1. CASE Call(p)
    BY <1>1, <1>2, <2>1 DEF Call, Goto, SeedInv, SeedTypeOK, CallsFollowDays, Steps
  <2>2. CASE PassOver(p)
    BY <1>1, <1>2, <2>2 DEF PassOver, Goto, SeedInv, SeedTypeOK, CallsFollowDays, Steps
  <2>3. CASE Missing(p)
    BY <1>1, <1>2, <2>3 DEF Missing, Goto, SeedInv, SeedTypeOK, CallsFollowDays, Steps
  <2>4. CASE Return(p)
    BY <1>1, <1>2, <2>4 DEF Return, Goto, SeedInv, SeedTypeOK, CallsFollowDays, Steps
  <2>5. CASE InsertConflict(p)
    BY <1>1, <1>2, <2>5 DEF InsertConflict, Goto, SeedInv, SeedTypeOK, CallsFollowDays, Steps
  <2>6. CASE ReadRows(p)
    BY <1>1, <1>2, <2>6 DEF ReadRows, Goto, SeedInv, SeedTypeOK, CallsFollowDays, Steps
  <2>7. CASE CommitSync(p)
    BY <1>1, <1>2, <2>7 DEF CommitSync, Goto, SeedInv, SeedTypeOK, CallsFollowDays, Steps
  <2>8. CASE Fail(p)
    BY <1>1, <1>2, <2>8 DEF Fail, SeedInv, SeedTypeOK, CallsFollowDays, Steps
  <2>9. CASE Again(p)
    BY <1>1, <1>2, <2>9 DEF Again, SeedInv, SeedTypeOK, CallsFollowDays, Steps
  <2> QED
    BY <2>1, <2>2, <2>3, <2>4, <2>5, <2>6, <2>7, <2>8, <2>9 DEF Run
<1>4. HistoryIsLinked'
  BY <1>1 DEF SeedInv, HistoryIsLinked
<1> QED
  BY <1>3, <1>4 DEF SeedInv

LEMMA SeedNextInv == SeedInv /\ [SeedNext]_seedVars => SeedInv'
<1> SUFFICES ASSUME SeedInv, [SeedNext]_seedVars PROVE SeedInv'
  OBVIOUS
<1>1. CASE SeedNext
  BY <1>1, InsertKeepsLinks, OthersKeepLinks
<1>2. CASE UNCHANGED seedVars
  BY <1>2 DEF seedVars, vars, snapshotVars, seederVars, SeedInv, SeedTypeOK, CallsFollowDays,
              HistoryIsLinked
<1> QED
  BY <1>1, <1>2

\* However many sessions replay whatever history, and wherever they die, the
\* snapshots stored are those of its first days, each with the risks of its day and
\* linked to the day before.
THEOREM HistoryIsLinkedHolds == SeedSpec => []HistoryIsLinked
<1>1. SeedInv => HistoryIsLinked
  BY DEF SeedInv
<1> QED
  BY <1>1, SeedInitInv, SeedNextInv, PTL DEF SeedSpec

-----------------------------------------------------------------------------
(* Calls that meet no other one.                                             *)

\* A sync that has read the rows as they are makes the choices of Sync.
LEMMA ViewIsCurrent ==
  ASSUME NEW p \in Seeders, view[p] = CurrentRows, NEW s \in Snapshots
  PROVE  /\ View(p)!Created(s) = Created(s)
         /\ View(p)!Sighted(s) = Sighted(s)
         /\ View(p)!Resolved(s) = Resolved(s)
<1>1. /\ view[p].status = status /\ view[p].lastSeen = lastSeen
      /\ view[p].resolvedBy = resolvedBy /\ view[p].count = observationCount
  BY DEF CurrentRows
<1>2. View(p)!Ids = Ids
  BY DEF View!Ids, View!Snapshots, Ids, Snapshots
<1>3. View(p)!Episodes = Episodes
  BY <1>1, <1>2 DEF View!Episodes, Episodes
<1>4. View(p)!Reused(s) = Reused(s)
  BY <1>1, <1>3 DEF View!Reused, Reused, View!IsLatestEpisode, IsLatestEpisode,
                    View!Unresolved, Unresolved, View!KeyOf, KeyOf, View!SourceOf, SourceOf
<1>5. View(p)!Created(s) = Created(s)
  BY <1>4 DEF View!Created, Created, View!KeyOf, KeyOf
<1>6. View(p)!Seen(s) = Seen(s)
  BY <1>1, <1>4 DEF View!Seen, Seen
<1>7. View(p)!Sighted(s) = Sighted(s)
  BY <1>5, <1>6 DEF View!Sighted, Sighted
<1>8. View(p)!Resolved(s) = Resolved(s)
  BY <1>1, <1>3 DEF View!Resolved, Resolved, View!Unresolved, Unresolved, View!KeyOf, KeyOf
<1> QED
  BY <1>5, <1>7, <1>8

LEMMA TwoAreMoreThanOne ==
  ASSUME NEW p, NEW q, p # q
  PROVE  Cardinality({p, q}) > 1
<1>1. IsFiniteSet({p}) /\ Cardinality({p}) = 1
  BY FS_Singleton
<1>2. Cardinality({p} \cup {q}) = 2
  BY <1>1, FS_AddElement
<1>3. {p} \cup {q} = {p, q}
  OBVIOUS
<1> QED
  BY <1>2, <1>3

Calling == {p \in Seeders : pc[p] \notin {"idle", "done", "failed"}}

\* A call alone has stored the last snapshot when it comes to sync it, and has read
\* the rows as they still are when it commits.
LoneCallIsCurrent ==
  /\ \A p, q \in Calling : p = q
  /\ \A p \in Calling : /\ pc[p] \in {"read", "sync"} => day[p] = published
                        /\ pc[p] = "sync" => view[p] = CurrentRows

\* The inductive invariant of calls that have not met.
LoneInv ==
  /\ SeedInv
  /\ DOMAIN view = Seeders
  /\ ~overlapped => LoneCallIsCurrent /\ EpisodeInv

\* A step is that of one session, which moves only its own program counter.
LEMMA OneSessionMoves ==
  ASSUME SeedTypeOK, SeedNext
  PROVE  \E p \in Seeders : \A q \in Seeders : q # p => pc'[q] = pc[q]
<1>1. PICK p \in Seeders : \E next \in Steps : pc' = [pc EXCEPT ![p] = next]
  BY DEF SeedNext, Run, Call, PassOver, Missing, Return, InsertSnapshot, InsertConflict,
         ReadRows, CommitSync, Fail, Again, Goto, Steps
<1> QED
  BY <1>1 DEF SeedTypeOK

\* As long as no two calls are under way, a step is that of the only one.
LEMMA StaysAlone ==
  ASSUME SeedTypeOK, LoneCallIsCurrent, MCNext, ~overlapped'
  PROVE  \A p, q \in Calling' : p = q
<1> SUFFICES ASSUME NEW p \in Calling', NEW q \in Calling', p # q PROVE FALSE
  OBVIOUS
<1>1. PICK r \in Seeders : \A s \in Seeders : s # r => pc'[s] = pc[s]
  BY OneSessionMoves DEF MCNext
<1>2. Calling' \subseteq Calling \cup {r}
  BY <1>1 DEF Calling
<1>3. Calling' = {p, q}
  BY <1>2 DEF LoneCallIsCurrent
<1>4. Cardinality(Calling') > 1
  BY <1>3, TwoAreMoreThanOne
<1> QED
  BY <1>4 DEF MCNext, Calling

\* The sync of a call alone is a Sync of RecommendationService.
LEMMA LoneCommitIsSync ==
  ASSUME SeedInv, LoneCallIsCurrent, EpisodeInv, NEW p \in Seeders, CommitSync(p)
  PROVE  day[p] \in Snapshots /\ day[p] = published /\ Sync(day[p])
<1>1. p \in Calling /\ pc[p] = "sync"
  BY DEF CommitSync, Goto, Calling
<1>2. /\ day[p] = published /\ view[p] = CurrentRows
      /\ day[p] \in 1..published /\ day[p] \in Snapshots /\ synced <= day[p]
  BY <1>1, ConstantsAssumption
     DEF LoneCallIsCurrent, SeedInv, SeedTypeOK, EpisodeInv, TypeOK, Snapshots
<1>3. /\ View(p)!Created(day[p]) = Created(day[p])
      /\ View(p)!Sighted(day[p]) = Sighted(day[p])
      /\ View(p)!Resolved(day[p]) = Resolved(day[p])
      /\ view[p].count = observationCount
  BY <1>2, ViewIsCurrent DEF CurrentRows
<1> QED
  BY <1>2, <1>3 DEF CommitSync, Sync

\* A step of a call alone is seen from the tables as one of RecommendationService.
LEMMA LoneStepIsNext ==
  ASSUME SeedInv, LoneCallIsCurrent, EpisodeInv, SeedNext
  PROVE  [Next]_vars
<1>1. ASSUME NEW p \in Seeders, InsertSnapshot(p) PROVE Next
  <2>1. Publish(HistoryKeys[day[p]]) /\ day[p] \in Snapshots
    BY <1>1, ConstantsAssumption
       DEF InsertSnapshot, Publish, SeedInv, SeedTypeOK, Snapshots
  <2>2. HistoryKeys[day[p]] \in SUBSET Keys
    BY <2>1, HistoryAssumption
  <2> QED
    BY <2>1, <2>2 DEF Next
<1>2. ASSUME NEW p \in Seeders, CommitSync(p) PROVE Next
  BY <1>2, LoneCommitIsSync DEF Next
<1>3. ASSUME \A p \in Seeders : ~InsertSnapshot(p) /\ ~CommitSync(p) PROVE UNCHANGED vars
  BY <1>3 DEF SeedNext, Run, Call, PassOver, Missing, Return, InsertConflict, ReadRows, Fail, Again
<1> QED
  BY <1>1, <1>2, <1>3

\* A call alone keeps to what is stored and to the rows it has read.
LEMMA LoneCallStaysCurrent ==
  ASSUME LoneInv, MCNext, ~overlapped'
  PROVE  LoneCallIsCurrent'
<1>1. /\ ~overlapped /\ LoneCallIsCurrent /\ EpisodeInv /\ SeedInv /\ SeedTypeOK /\ SeedNext
      /\ DOMAIN view = Seeders /\ DOMAIN pc = Seeders /\ DOMAIN day = Seeders
  BY DEF LoneInv, MCNext, SeedInv, SeedTypeOK
<1>2. \A p, q \in Calling' : p = q
  BY <1>1, StaysAlone
<1> SUFFICES ASSUME NEW q \in Calling', pc'[q] \in {"read", "sync"}
             PROVE  /\ day'[q] = published'
                    /\ pc'[q] = "sync" => view'[q] = CurrentRows'
  BY <1>2 DEF LoneCallIsCurrent
<1>3. q \in Seeders
  BY DEF Calling
<1>4. PICK p \in Seeders : Call(p) \/ Run(p) \/ Fail(p) \/ Again(p)
  BY <1>1 DEF SeedNext
<1>5. CASE p # q
  <2>1. pc'[q] = pc[q] /\ q \in Calling
    BY <1>1, <1>3, <1>4, <1>5
       DEF Run, Call, PassOver, Missing, Return, InsertSnapshot, InsertConflict, ReadRows,
           CommitSync, Fail, Again, Goto, Calling
  <2>2. p \notin Calling
    BY <1>1, <1>5, <2>1 DEF LoneCallIsCurrent
  <2>3. Call(p) \/ Again(p)
    BY <1>4, <2>2
       DEF Run, PassOver, Missing, Return, InsertSnapshot, InsertConflict, ReadRows,
           CommitSync, Fail, Goto, Calling
  <2>4. day'[q] = day[q] /\ UNCHANGED <<vars, view>>
    BY <1>1, <1>3, <1>5, <2>3 DEF Call, Again
  <2> QED
    BY <1>1, <2>1, <2>4
       DEF LoneCallIsCurrent, CurrentRows, vars, snapshotVars, episodeVars, lifecycleVars
<1>6. CASE p = q
  <2>1. CASE InsertSnapshot(q)
    BY <1>1, <1>3, <2>1 DEF InsertSnapshot, Goto, Publish
  <2>2. CASE ReadRows(q)
    <3>1. q \in Calling /\ pc[q] = "read"
      BY <1>3, <2>2 DEF ReadRows, Goto, Calling
    <3> QED
      BY <1>1, <1>3, <2>2, <3>1
         DEF ReadRows, LoneCallIsCurrent, CurrentRows, vars, snapshotVars, episodeVars,
             lifecycleVars
  <2>3. CASE ~InsertSnapshot(q) /\ ~ReadRows(q)
    <3>1. pc'[q] \notin {"read", "sync"}
      BY <1>1, <1>3, <1>4, <1>6, <2>3
         DEF Run, Call, PassOver, Missing, Return, InsertConflict, CommitSync, Fail, Again, Goto
    <3> QED
      BY <3>1
  <2> QED
    BY <2>1, <2>2, <2>3
<1> QED
  BY <1>5, <1>6

LEMMA NextLoneInv == LoneInv /\ [MCNext]_<<seedVars, overlapped>> => LoneInv'
<1> SUFFICES ASSUME LoneInv, [MCNext]_<<seedVars, overlapped>> PROVE LoneInv'
  OBVIOUS
<1>1. SeedInv'
  BY SeedNextInv DEF LoneInv, MCNext
<1>2. CASE MCNext
  <2>1. DOMAIN view' = Seeders
    BY <1>2 DEF MCNext, SeedNext, Run, Call, PassOver, Missing, Return, InsertSnapshot,
                InsertConflict, ReadRows, CommitSync, Fail, Again, LoneInv
  <2>2. ASSUME ~overlapped' PROVE LoneCallIsCurrent' /\ EpisodeInv'
    <3>1. SeedInv /\ LoneCallIsCurrent /\ EpisodeInv /\ SeedNext
      BY <1>2, <2>2 DEF LoneInv, MCNext
    <3> QED
      BY <1>2, <2>2, <3>1, LoneCallStaysCurrent, LoneStepIsNext, NextEpisodeInv
  <2> QED
    BY <1>1, <2>1, <2>2 DEF LoneInv
<1>3. CASE UNCHANGED <<seedVars, overlapped>>
  <2>1. UNCHANGED <<vars, pc, day, view, overlapped>>
    BY <1>3 DEF seedVars, seederVars
  <2>2. EpisodeInv => EpisodeInv'
    BY <2>1, NextEpisodeInv
  <2>3. LoneCallIsCurrent => LoneCallIsCurrent'
    BY <2>1 DEF LoneCallIsCurrent, Calling, CurrentRows, vars, snapshotVars, episodeVars,
                lifecycleVars
  <2> QED
    BY <1>1, <2>1, <2>2, <2>3 DEF LoneInv
<1> QED
  BY <1>2, <1>3

LEMMA InitLoneInv == MCInit => LoneInv
<1> SUFFICES ASSUME MCInit PROVE LoneInv
  OBVIOUS
<1>1. SeedInv /\ EpisodeInv
  BY SeedInitInv, InitEpisodeInv DEF MCInit, SeedInit
<1>2. LoneCallIsCurrent /\ DOMAIN view = Seeders
  BY DEF MCInit, SeedInit, LoneCallIsCurrent, Calling
<1> QED
  BY <1>1, <1>2 DEF LoneInv

\* Of any history, as long as no call meets another, the tables see a run of
\* RecommendationService: snapshots stored, and synced in date order, wherever
\* the call dies and however often it is repeated.
THEOREM LoneSyncsInDateOrderHolds == MCSpec => LoneSyncsInDateOrder
<1>1. MCInit => Init
  BY DEF MCInit, SeedInit
<1>2. LoneInv /\ [MCNext]_<<seedVars, overlapped>> => [overlapped' \/ Next]_vars
  <2> SUFFICES ASSUME LoneInv, [MCNext]_<<seedVars, overlapped>>, ~overlapped'
               PROVE  [Next]_vars
    OBVIOUS
  <2>1. CASE MCNext
    BY <2>1, LoneStepIsNext DEF LoneInv, MCNext
  <2>2. CASE UNCHANGED <<seedVars, overlapped>>
    BY <2>2 DEF seedVars
  <2> QED
    BY <2>1, <2>2
<1> QED
  BY <1>1, <1>2, InitLoneInv, NextLoneInv, PTL DEF MCSpec, LoneSyncsInDateOrder

-----------------------------------------------------------------------------
(* Calls that meet no other one and never die.                               *)

\* Up to the day last synced each risk shown is covered by a recommendation, each
\* recommendation has counted its sightings, and an open one has missed none.
CompleteUpToSynced ==
  /\ \A s \in 1..synced : \A k \in openKeys[s] :
       \E r \in Episodes : KeyOf(r) = k /\ SourceOf(r) <= s /\ s <= lastSeen[r]
  /\ \A r \in Episodes :
       observationCount[r] = Cardinality(SightingsUpTo(r, openKeys, lastSeen[r]))
  /\ \A r \in Episodes : Unresolved(r) =>
       \A s \in 1..synced : lastSeen[r] < s => KeyOf(r) \notin openKeys[s]

\* The sightings up to the next day that shows the risk are one more.
LEMMA OneSightingMore ==
  ASSUME NEW r, NEW keys, NEW first \in Int, SourceOf(r) = first,
         NEW last \in Int, NEW s \in Int, last < s, first <= s, KeyOf(r) \in keys[s],
         \A t \in Int : last < t /\ t < s => KeyOf(r) \notin keys[t]
  PROVE  Cardinality(SightingsUpTo(r, keys, s)) = Cardinality(SightingsUpTo(r, keys, last)) + 1
<1> DEFINE old == SightingsUpTo(r, keys, last)
<1>1. SightingsUpTo(r, keys, s) = old \cup {s} /\ s \notin old
  BY DEF SightingsUpTo
<1>2. old \subseteq first..last
  BY DEF SightingsUpTo
<1>3. IsFiniteSet(old)
  BY <1>2, FS_Interval, FS_Subset
<1> HIDE DEF old
<1>4. Cardinality(old \cup {s}) = Cardinality(old) + 1
  BY <1>1, <1>3, FS_AddElement
<1> QED
  BY <1>1, <1>4 DEF old

\* The sync of the next day brings the recommendations up to it.
LEMMA NextDayIsCovered ==
  ASSUME EpisodeInv, CompleteUpToSynced, NEW s \in Snapshots, Sync(s), s = synced + 1
  PROVE  CompleteUpToSynced'
<1>1. /\ TypeOK /\ s \in 1..published /\ s \in Int /\ synced \in Nat
      /\ synced' = s /\ openKeys' = openKeys
      /\ Episodes' = Episodes \cup Created(s)
      /\ Created(s) \subseteq Ids /\ Episodes \subseteq Ids
      /\ Created(s) \cap Episodes = {}
  <2>1. /\ TypeOK /\ s \in 1..published
        /\ synced' = s /\ openKeys' = openKeys
        /\ Created(s) \cap Episodes = {}
    BY DEF EpisodeInv, Sync, snapshotVars
  <2>2. s \in Int /\ synced \in Nat /\ Episodes \subseteq Ids
    BY <2>1, ConstantsAssumption DEF TypeOK, Snapshots, Episodes
  <2> QED
    BY <2>1, <2>2, SyncEpisodes, CreatedIds
<1>2. /\ \A r \in Created(s) : lastSeen'[r] = s /\ resolvedBy'[r] = 0
      /\ \A r \in Episodes :
           /\ lastSeen'[r] = IF r \in Reused(s) THEN s ELSE lastSeen[r]
           /\ resolvedBy'[r] = IF r \in Resolved(s) THEN s ELSE resolvedBy[r]
  BY SyncRows
<1>3. \A r \in Episodes : /\ lastSeen[r] \in Nat /\ lastSeen[r] <= synced
                          /\ SourceOf(r) \in Nat /\ SourceOf(r) <= lastSeen[r]
  BY <1>1, IdParts, ConstantsAssumption DEF EpisodeInv, EpisodeOrder, TypeOK, Snapshots
<1>4. ASSUME NEW t \in 1..s, NEW k \in openKeys[t]
      PROVE  \E r \in Episodes' : KeyOf(r) = k /\ SourceOf(r) <= t /\ t <= lastSeen'[r]
  <2>1. CASE t \in 1..synced
    <3>1. PICK r \in Episodes : KeyOf(r) = k /\ SourceOf(r) <= t /\ t <= lastSeen[r]
      BY <1>4, <2>1 DEF CompleteUpToSynced
    <3> QED
      BY <1>1, <1>2, <1>3, <3>1
  <2>2. CASE t = s
    <3>1. PICK r \in Episodes' : KeyOf(r) = k /\ lastSeen'[r] = s
      BY <1>1, <1>4, <2>2, SyncMirrors, ConstantsAssumption
         DEF ActiveMirrorsSynced, KeyOf, Snapshots
    <3>2. SourceOf(r) <= lastSeen'[r]
      BY <3>1, SyncEpisodeInv DEF EpisodeInv, EpisodeOrder, SourceOf
    <3> QED
      BY <1>1, <2>2, <3>1, <3>2
  <2> QED
    BY <1>1, <2>1, <2>2
<1>5. ASSUME NEW r \in Episodes'
      PROVE  observationCount'[r] = Cardinality(SightingsUpTo(r, openKeys, lastSeen'[r]))
  <2>1. CASE r \in Created(s)
    <3>1. observationCount'[r] = 1 /\ lastSeen'[r] = s /\ SourceOf(r) = s
          /\ KeyOf(r) \in openKeys[s]
      BY <1>1, <1>2, <2>1, CreatedIds DEF Sync, SyncWrites
    <3>2. SightingsUpTo(r, openKeys, s) = {s}
      BY <1>1, <3>1 DEF SightingsUpTo
    <3> QED
      BY <3>1, <3>2, FS_Singleton
  <2>2. CASE r \in Reused(s)
    <3>1. /\ r \in Episodes /\ r \notin Created(s) /\ Unresolved(r)
          /\ KeyOf(r) \in openKeys[s] /\ r \in Seen(s)
      BY <1>1, <1>3, <2>2 DEF Reused, Seen
    <3>2. observationCount'[r] = observationCount[r] + 1 /\ lastSeen'[r] = s
      BY <1>1, <1>2, <2>2, <3>1 DEF Sync, SyncWrites, Sighted
    <3>3. \A t \in Int : lastSeen[r] < t /\ t < s => KeyOf(r) \notin openKeys[t]
      BY <1>1, <1>3, <3>1 DEF CompleteUpToSynced
    <3>4. Cardinality(SightingsUpTo(r, openKeys, s))
            = Cardinality(SightingsUpTo(r, openKeys, lastSeen[r])) + 1
      <4> DEFINE first == SourceOf(r)
                 last == lastSeen[r]
      <4>1. first \in Int /\ last \in Int /\ last < s /\ first <= s
        BY <1>1, <1>3, <3>1
      <4> QED
        BY <1>1, <3>1, <3>3, <4>1, OneSightingMore
    <3> QED
      BY <3>1, <3>2, <3>4 DEF CompleteUpToSynced
  <2>3. CASE r \in Episodes /\ r \notin Reused(s)
    <3>1. observationCount'[r] = observationCount[r] /\ lastSeen'[r] = lastSeen[r]
      BY <1>1, <1>2, <2>3 DEF Sync, SyncWrites, Sighted, Seen
    <3> QED
      BY <2>3, <3>1 DEF CompleteUpToSynced
  <2> QED
    BY <1>1, <2>1, <2>2, <2>3 DEF Reused
<1>6. ASSUME NEW r \in Episodes', resolvedBy'[r] = 0, NEW t \in 1..s, lastSeen'[r] < t
      PROVE  KeyOf(r) \notin openKeys[t]
  <2>1. r \in Episodes /\ r \notin Reused(s) /\ lastSeen'[r] = lastSeen[r]
    BY <1>1, <1>2, <1>6
  <2>2. Unresolved(r)
    BY <1>1, <1>2, <1>6, <2>1 DEF Unresolved
  <2>3. KeyOf(r) \notin openKeys[s]
    BY <1>1, <2>1, <2>2, UnresolvedIsReused
  <2> QED
    BY <1>1, <1>6, <2>1, <2>2, <2>3 DEF CompleteUpToSynced
<1> QED
  BY <1>1, <1>4, <1>5, <1>6
     DEF CompleteUpToSynced, SightingsUpTo, Unresolved, KeyOf, SourceOf

\* No other step changes what is covered up to the day last synced.
LEMMA OthersKeepComplete ==
  ASSUME EpisodeInv, CompleteUpToSynced, [Next]_vars, \A s \in Snapshots : ~Sync(s)
  PROVE  CompleteUpToSynced'
<1>1. /\ Episodes' = Episodes /\ UNCHANGED <<synced, lastSeen, resolvedBy, observationCount>>
      /\ \A t \in Snapshots : t <= synced => openKeys'[t] = openKeys[t]
  BY OthersKeepEpisodes DEF episodeVars
<1>2. \A t \in 1..synced : openKeys'[t] = openKeys[t]
  BY <1>1, ConstantsAssumption DEF EpisodeInv, TypeOK, Snapshots
<1>3. ASSUME NEW r \in Episodes
      PROVE  SightingsUpTo(r, openKeys', lastSeen[r]) = SightingsUpTo(r, openKeys, lastSeen[r])
  <2>1. /\ SourceOf(r) \in Snapshots /\ lastSeen[r] \in Snapshots
        /\ lastSeen[r] <= synced /\ synced \in Nat
    BY IdParts, ConstantsAssumption DEF EpisodeInv, EpisodeOrder, TypeOK, Episodes
  <2>2. \A t \in SourceOf(r)..lastSeen[r] : t \in 1..synced
    BY <2>1, ConstantsAssumption DEF Snapshots
  <2> QED
    BY <1>2, <2>2 DEF SightingsUpTo
<1>4. \A r \in Episodes : SightingsUpTo(r, openKeys, lastSeen[r])' = SightingsUpTo(r, openKeys, lastSeen[r])
  BY <1>1, <1>3 DEF SightingsUpTo, SourceOf, KeyOf
<1> QED
  BY <1>1, <1>2, <1>4 DEF CompleteUpToSynced, Unresolved, KeyOf, SourceOf

Syncing == {p \in Seeders : pc[p] \in {"read", "sync"}}

\* The inductive invariant of calls that have neither met nor died: all that is
\* stored is synced, but for the day that is about to be.
UndisturbedInv ==
  /\ LoneInv
  /\ ~overlapped /\ failures = 0 =>
       /\ CompleteUpToSynced
       /\ Syncing = {} => synced = published
       /\ Syncing # {} => synced = published - 1

\* A step of a call that has met no other and does not die.
LEMMA UndisturbedStep ==
  ASSUME UndisturbedInv, MCNext, ~overlapped', failures' = 0
  PROVE  /\ CompleteUpToSynced'
         /\ Syncing' = {} => synced' = published'
         /\ Syncing' # {} => synced' = published' - 1
<1>1. /\ SeedInv /\ SeedTypeOK /\ LoneCallIsCurrent /\ EpisodeInv /\ SeedNext
      /\ DOMAIN pc = Seeders /\ failures \in Nat /\ ~overlapped
  BY DEF UndisturbedInv, LoneInv, SeedInv, SeedTypeOK, MCNext
<1>2. failures = 0 /\ \A p \in Seeders : ~Fail(p)
  BY <1>1 DEF SeedNext, Call, Run, PassOver, Missing, Return, InsertSnapshot, InsertConflict,
              ReadRows, CommitSync, Fail, Again
<1>3. /\ CompleteUpToSynced
      /\ Syncing = {} => synced = published
      /\ Syncing # {} => synced = published - 1
  BY <1>1, <1>2 DEF UndisturbedInv
<1>4. /\ published \in Nat /\ synced \in Nat
      /\ \A s \in Snapshots : s \in Nat
  BY <1>1, ConstantsAssumption DEF EpisodeInv, TypeOK, Snapshots
<1>5. [Next]_vars
  BY <1>1, LoneStepIsNext
<1>6. CASE \E p \in Seeders : CommitSync(p)
  <2>1. PICK p \in Seeders : CommitSync(p)
    BY <1>6
  <2>2. /\ pc[p] = "sync" /\ pc' = [pc EXCEPT ![p] = "lookup"] /\ p \in Syncing
        /\ published' = published /\ synced' = day[p]
    BY <2>1 DEF CommitSync, Goto, Syncing, snapshotVars
  <2>3. day[p] \in Snapshots /\ day[p] = published /\ Sync(day[p])
    BY <1>1, <2>1, LoneCommitIsSync
  <2>4. day[p] = synced + 1
    BY <1>3, <1>4, <2>2, <2>3
  <2>5. CompleteUpToSynced'
    BY <1>1, <1>3, <2>3, <2>4, NextDayIsCovered
  <2>6. Syncing' = {}
    <3> SUFFICES ASSUME NEW q \in Syncing' PROVE FALSE
      OBVIOUS
    <3>1. q # p /\ q \in Calling /\ p \in Calling
      BY <1>1, <2>2 DEF Syncing, Calling
    <3> QED
      BY <1>1, <3>1 DEF LoneCallIsCurrent
  <2> QED
    BY <2>2, <2>3, <2>5, <2>6
<1>7. CASE \A p \in Seeders : ~CommitSync(p)
  <2>1. UNCHANGED <<synced, lastSeen, status>>
    BY <1>1, <1>7
       DEF SeedNext, Call, Run, PassOver, Missing, Return, InsertSnapshot, InsertConflict,
           ReadRows, Fail, Again, Publish, vars, episodeVars, lifecycleVars
  <2>2. CompleteUpToSynced'
    <3>1. CASE \A s \in Snapshots : ~Sync(s)
      BY <1>1, <1>3, <1>5, <3>1, OthersKeepComplete
    <3>2. ASSUME \A p \in Seeders : ~InsertSnapshot(p) PROVE UNCHANGED vars
      BY <1>1, <1>7, <3>2 DEF SeedNext, Call, Run, PassOver, Missing, Return, InsertConflict,
                              ReadRows, Fail, Again
    <3>3. UNCHANGED vars => CompleteUpToSynced'
      BY <1>3 DEF vars, snapshotVars, episodeVars, lifecycleVars, CompleteUpToSynced,
                  SightingsUpTo, Episodes, Unresolved, KeyOf, SourceOf
    <3>4. ASSUME NEW p \in Seeders, InsertSnapshot(p) PROVE \A s \in Snapshots : ~Sync(s)
      BY <1>4, <3>4 DEF InsertSnapshot, Publish, Sync, snapshotVars
    <3> QED
      BY <3>1, <3>2, <3>3, <3>4
  <2>3. CASE \E p \in Seeders : InsertSnapshot(p)
    <3>1. PICK p \in Seeders : InsertSnapshot(p)
      BY <2>3
    <3>2. /\ pc[p] = "insert" /\ pc' = [pc EXCEPT ![p] = "read"]
          /\ published' = published + 1
      BY <3>1 DEF InsertSnapshot, Goto, Publish
    <3>3. Syncing = {}
      BY <1>1, <3>2 DEF Syncing, Calling, LoneCallIsCurrent
    <3>4. p \in Syncing'
      BY <1>1, <3>2 DEF Syncing
    <3> QED
      BY <1>3, <1>4, <2>1, <2>2, <3>2, <3>3, <3>4
  <2>4. CASE \A p \in Seeders : ~InsertSnapshot(p)
    <3>1. published' = published
      BY <1>1, <2>4, OthersKeepSnapshots
    <3>2. Syncing' = Syncing
      BY <1>1, <1>2, <1>7, <2>4
         DEF SeedNext, Call, Run, PassOver, Missing, Return, InsertConflict, ReadRows, Again,
             Goto, Syncing
    <3> QED
      BY <1>3, <2>1, <2>2, <3>1, <3>2
  <2> QED
    BY <2>3, <2>4
<1> QED
  BY <1>6, <1>7

LEMMA NextUndisturbedInv ==
  UndisturbedInv /\ [MCNext]_<<seedVars, overlapped>> => UndisturbedInv'
<1> SUFFICES ASSUME UndisturbedInv, [MCNext]_<<seedVars, overlapped>> PROVE UndisturbedInv'
  OBVIOUS
<1>1. LoneInv'
  BY NextLoneInv DEF UndisturbedInv
<1>2. CASE MCNext
  BY <1>1, <1>2, UndisturbedStep DEF UndisturbedInv
<1>3. CASE UNCHANGED <<seedVars, overlapped>>
  BY <1>1, <1>3
     DEF UndisturbedInv, seedVars, vars, snapshotVars, episodeVars, lifecycleVars, seederVars,
         Syncing, CompleteUpToSynced, SightingsUpTo, Episodes, Unresolved, KeyOf, SourceOf
<1> QED
  BY <1>2, <1>3

\* After a call that succeeded, and with none in progress, all of it is there.
LEMMA CompleteAtTheEnd == UndisturbedInv => SeedIsCompleteUnlessDisturbed
<1> SUFFICES ASSUME UndisturbedInv, ~overlapped, failures = 0,
                    \E p \in Seeders : pc[p] = "done",
                    \A p \in Seeders : pc[p] \in {"done", "idle"},
                    NEW s \in Snapshots, NEW k \in HistoryKeys[s]
             PROVE  \E r \in Episodes :
                      /\ KeyOf(r) = k
                      /\ s \in SourceOf(r)..lastSeen[r]
                      /\ observationCount[r] =
                           Cardinality({t \in SourceOf(r)..lastSeen[r] : k \in HistoryKeys[t]})
  BY DEF SeedIsCompleteUnlessDisturbed, SeedIsComplete
<1>1. /\ SeedInv /\ EpisodeInv /\ CompleteUpToSynced
      /\ Syncing = {} /\ synced = published
  BY DEF UndisturbedInv, LoneInv, Syncing
<1>2. published = MaxSnapshots
  BY <1>1 DEF SeedInv, CallsFollowDays
<1>3. \A t \in Snapshots : openKeys[t] = HistoryKeys[t]
  BY <1>1, <1>2 DEF SeedInv, HistoryIsLinked, Snapshots
<1>4. PICK r \in Episodes : KeyOf(r) = k /\ SourceOf(r) <= s /\ s <= lastSeen[r]
  BY <1>1, <1>2, <1>3 DEF CompleteUpToSynced, Snapshots
<1>5. /\ SourceOf(r) \in Snapshots /\ lastSeen[r] \in Snapshots /\ MaxSnapshots \in Nat
  BY <1>1, IdParts, ConstantsAssumption DEF EpisodeInv, TypeOK, Episodes
<1>6. \A t \in SourceOf(r)..lastSeen[r] : t \in Snapshots
  BY <1>5 DEF Snapshots
<1>7. SightingsUpTo(r, openKeys, lastSeen[r])
        = {t \in SourceOf(r)..lastSeen[r] : k \in HistoryKeys[t]}
  BY <1>3, <1>4, <1>6 DEF SightingsUpTo
<1>8. s \in SourceOf(r)..lastSeen[r]
  BY <1>4, <1>5 DEF Snapshots
<1> QED
  BY <1>1, <1>4, <1>7, <1>8 DEF CompleteUpToSynced

\* Of any history, however often it is replayed: as long as no call meets another
\* or dies, a call that has ended leaves a recommendation for every risk of every
\* day, which has counted each of its sightings.
THEOREM SeedIsCompleteUnlessDisturbedHolds == MCSpec => []SeedIsCompleteUnlessDisturbed
<1>1. MCInit => UndisturbedInv
  <2> SUFFICES ASSUME MCInit PROVE UndisturbedInv
    OBVIOUS
  <2>1. Syncing = {} /\ synced = published /\ published = 0 /\ Episodes = {}
    BY DEF MCInit, SeedInit, Init, Syncing, Episodes
  <2> QED
    BY <2>1, InitLoneInv DEF UndisturbedInv, CompleteUpToSynced
<1> QED
  BY <1>1, NextUndisturbedInv, CompleteAtTheEnd, PTL DEF MCSpec

=============================================================================
