---------------------- MODULE RecommendationOutcomesProofs ----------------------
(*****************************************************************************)
(* The log of the recommendations and the outcomes measured from it, for     *)
(* every set of keys, snapshots, roles, observers, policies and levels.  A   *)
(* log only grows at its end and a published snapshot never changes, so a    *)
(* measure that was right when an observer read the rows is right for ever.  *)
(*****************************************************************************)
EXTENDS RecommendationOutcomes, RecommendationServiceProofs, WellFoundedInduction

--------------------------------------------------------------------------------
(* What a step does to one row.                                                  *)

\* A sync of its source snapshot has just inserted it.
RowIsNew(r) ==
  /\ r \notin Episodes
  /\ log'[r] = <<ProposalRow(SourceOf(r))>>
  /\ status'[r] = "PROPOSED" /\ payload'[r] = Original
  /\ lastSeen'[r] = SourceOf(r)
  /\ KeyOf(r) \in openKeys'[SourceOf(r)]

\* It is kept, seen again perhaps.
RowIsKept(r) ==
  /\ r \in Episodes
  /\ log'[r] = log[r] /\ status'[r] = status[r] /\ payload'[r] = payload[r]
  /\ lastSeen[r] <= lastSeen'[r]

\* A human moves it.
RowMoves(r) ==
  /\ r \in Episodes
  /\ lastSeen'[r] = lastSeen[r]
  /\ \E to \in AllowedTransitions[status[r]], role \in HumanRoles, new \in Payloads :
       /\ PayloadChange(to, payload[r], new)
       /\ log'[r] = Append(log[r], TransitionRow(r, to, role, new))
       /\ status'[r] = to /\ payload'[r] = new

\* A sync inserts rows and leaves the logs of the others as they are.
LEMMA SyncRowSteps ==
  ASSUME EpisodeInv, NEW s \in Snapshots, Sync(s), NEW r \in Episodes'
  PROVE  RowIsNew(r) \/ RowIsKept(r)
<1>1. /\ TypeOK /\ s \in 1..published /\ openKeys' = openKeys
      /\ synced <= s
      /\ Episodes' = Episodes \cup Created(s)
      /\ Created(s) \subseteq Ids /\ Episodes \subseteq Ids
      /\ Created(s) \cap Episodes = {}
  BY SyncEpisodes, CreatedIds, CreatedIsNew DEF EpisodeInv, Sync, snapshotVars, Episodes
<1>2. CASE r \in Created(s)
  <2>1. /\ lastSeen'[r] = s /\ SourceOf(r) = s /\ KeyOf(r) \in openKeys[s]
    BY <1>1, <1>2, SyncRows, CreatedIds
  <2>2. log'[r] = <<ProposalRow(s)>> /\ status'[r] = "PROPOSED" /\ payload'[r] = Original
    BY <1>1, <1>2 DEF Sync, SyncWrites
  <2> QED
    BY <1>1, <1>2, <2>1, <2>2 DEF RowIsNew
<1>3. CASE r \in Episodes
  <2>1. log'[r] = log[r] /\ status'[r] = status[r] /\ payload'[r] = payload[r]
    BY <1>1, <1>3 DEF Sync, SyncWrites
  <2>2. lastSeen'[r] = IF r \in Reused(s) THEN s ELSE lastSeen[r]
    BY <1>3, SyncRows
  <2>3. lastSeen[r] <= synced
    BY <1>3 DEF EpisodeInv, EpisodeOrder
  <2>4. lastSeen[r] \in Nat /\ synced \in Nat /\ s \in Nat
    BY <1>1, <1>3, ConstantsAssumption DEF TypeOK, Snapshots
  <2>5. lastSeen[r] <= lastSeen'[r]
    BY <1>1, <2>2, <2>3, <2>4
  <2> QED
    BY <1>3, <2>1, <2>5 DEF RowIsKept
<1> QED
  BY <1>1, <1>2, <1>3

\* A human transition moves one row.
LEMMA TransitionRowSteps ==
  ASSUME TypeOK, NEW q \in Ids, NEW to \in RecommendationStatus,
         NEW role \in HumanRoles, NEW comment \in BOOLEAN, NEW new \in Payloads,
         TransitionRecommendation(q, to, role, comment, new), NEW r \in Episodes'
  PROVE  RowIsKept(r) \/ RowMoves(r)
<1>1. r \in Episodes /\ r \in Ids /\ lastSeen' = lastSeen /\ lastSeen[r] \in Nat
  BY TransitionEpisodes, ConstantsAssumption
     DEF TransitionRecommendation, episodeVars, Episodes, TypeOK, Snapshots
<1>2. CASE r = q
  <2>1. /\ to \in AllowedTransitions[status[r]] /\ PayloadChange(to, payload[r], new)
        /\ log'[r] = Append(log[r], TransitionRow(r, to, role, new))
        /\ status'[r] = to /\ payload'[r] = new
    BY <1>1, <1>2 DEF TransitionRecommendation, TypeOK
  <2> QED
    BY <1>1, <2>1 DEF RowMoves
<1>3. CASE r # q
  BY <1>1, <1>3 DEF RowIsKept, TransitionRecommendation, TypeOK
<1> QED
  BY <1>2, <1>3

\* The snapshots published before a step are as they were after it.
LEMMA PublishedStays ==
  ASSUME TypeOK, [Next]_vars
  PROVE  /\ published \in Nat /\ published' \in Nat /\ published <= published'
         /\ published <= MaxSnapshots
         /\ \A t \in 1..published : openKeys'[t] = openKeys[t]
<1>1. published \in Nat /\ published <= MaxSnapshots
  BY ConstantsAssumption DEF TypeOK
<1>2. ASSUME NEW keys \in SUBSET Keys, Publish(keys)
      PROVE  /\ published' = published + 1
             /\ \A t \in 1..published : openKeys'[t] = openKeys[t]
  BY <1>1, <1>2, ConstantsAssumption DEF Publish, TypeOK, Snapshots
<1>3. ASSUME NEW s \in Snapshots, Sync(s) PROVE UNCHANGED snapshotVars
  BY <1>3 DEF Sync
<1>4. ASSUME NEW r \in Ids, NEW to \in RecommendationStatus, NEW role \in HumanRoles,
             NEW comment \in BOOLEAN, NEW new \in Payloads,
             TransitionRecommendation(r, to, role, comment, new)
      PROVE  UNCHANGED snapshotVars
  BY <1>4 DEF TransitionRecommendation
<1>5. CASE UNCHANGED vars
  BY <1>1, <1>5 DEF vars, snapshotVars
<1> QED
  BY <1>1, <1>2, <1>3, <1>4, <1>5 DEF Next, snapshotVars

\* Every step inserts, keeps or moves each row that it leaves, and removes none.
LEMMA EveryRowStep ==
  ASSUME EpisodeInv, [Next]_vars
  PROVE  /\ Episodes \subseteq Episodes'
         /\ \A r \in Episodes' : RowIsNew(r) \/ RowIsKept(r) \/ RowMoves(r)
<1>1. TypeOK /\ \A r \in Episodes : lastSeen[r] \in Nat
  BY ConstantsAssumption DEF EpisodeInv, TypeOK, Snapshots
<1>2. ASSUME NEW keys \in SUBSET Keys, Publish(keys)
      PROVE  Episodes' = Episodes /\ \A r \in Episodes : RowIsKept(r)
  BY <1>1, <1>2 DEF Publish, Episodes, lifecycleVars, episodeVars, RowIsKept
<1>3. ASSUME NEW s \in Snapshots, Sync(s)
      PROVE  Episodes \subseteq Episodes' /\ \A r \in Episodes' : RowIsNew(r) \/ RowIsKept(r)
  BY <1>1, <1>3, SyncEpisodes, SyncRowSteps
<1>4. ASSUME NEW q \in Ids, NEW to \in RecommendationStatus, NEW role \in HumanRoles,
             NEW comment \in BOOLEAN, NEW new \in Payloads,
             TransitionRecommendation(q, to, role, comment, new)
      PROVE  Episodes \subseteq Episodes' /\ \A r \in Episodes' : RowIsKept(r) \/ RowMoves(r)
  BY <1>1, <1>4, TransitionEpisodes, TransitionRowSteps
<1>5. CASE UNCHANGED vars
  <2>1. Episodes' = Episodes /\ \A r \in Episodes : RowIsKept(r)
    BY <1>1, <1>5 DEF vars, Episodes, lifecycleVars, episodeVars, RowIsKept
  <2> QED
    BY <2>1
<1> QED
  BY <1>2, <1>3, <1>4, <1>5 DEF Next
--------------------------------------------------------------------------------
(* The log, row by row.                                                          *)

\* The log of one row rebuilds it.
Rebuilds(r) ==
  /\ Len(log[r]) > 0
  /\ log[r][1].from = "NONE" /\ log[r][1].to = "PROPOSED"
  /\ log[r][1].resulting = Original
  /\ \A i \in 2..Len(log[r]) :
       /\ log[r][i].from = log[r][i - 1].to
       /\ log[r][i].to \in AllowedTransitions[log[r][i].from]
       /\ log[r][i].previous = log[r][i - 1].resulting
  /\ log[r][Len(log[r])].to = status[r]
  /\ log[r][Len(log[r])].resulting = payload[r]

TextChangeIsLogged(r) ==
  \A c \in TextColumns : payload[r][c] # Original[c] =>
    \E i \in 1..Len(log[r]) :
      log[r][i].to = "MODIFIED" /\ log[r][i].resulting[c] # log[r][i].previous[c]

\* The log of one row refers to its sightings in order.
Follows(r) ==
  /\ log[r][1].snapshot = SourceOf(r)
  /\ \A i \in 1..Len(log[r]) :
       /\ KeyOf(r) \in openKeys[log[r][i].snapshot]
       /\ log[r][i].snapshot <= lastSeen[r]
       /\ \A j \in 1..i : log[r][j].snapshot <= log[r][i].snapshot

\* The inductive invariant of the log.
LogInv ==
  \A r \in Episodes : Rebuilds(r) /\ TextChangeIsLogged(r) /\ Follows(r)

\* What is known of the log of a row.
LEMMA LogOfRow ==
  ASSUME TypeOK, NEW r \in Episodes
  PROVE  /\ r \in Ids /\ log[r] \in Seq(Transition) /\ Len(log[r]) \in Nat
         /\ \A i \in 1..Len(log[r]) : log[r][i].snapshot \in Snapshots
<1>1. r \in Ids /\ log[r] \in Seq(Transition)
  BY DEF TypeOK, Episodes
<1>2. \A t \in Transition : t.snapshot \in Snapshots
  BY DEF Transition
<1>3. Len(log[r]) \in Nat /\ \A i \in 1..Len(log[r]) : log[r][i] \in Transition
  BY <1>1
<1> QED
  BY <1>1, <1>2, <1>3

\* What appending a row does to a log.
LEMMA AppendedLog ==
  ASSUME NEW trail \in Seq(Transition), NEW row
  PROVE  /\ Len(Append(trail, row)) = Len(trail) + 1
         /\ Len(trail) \in Nat
         /\ \A i \in 1..Len(trail) : Append(trail, row)[i] = trail[i]
         /\ Append(trail, row)[Len(trail) + 1] = row
  OBVIOUS

\* A row that has just been inserted.
LEMMA NewRowIsLogged ==
  ASSUME EpisodeInv, NEW r \in Ids, RowIsNew(r)
  PROVE  Rebuilds(r)' /\ TextChangeIsLogged(r)' /\ Follows(r)'
<1>1. /\ log'[r] = <<ProposalRow(SourceOf(r))>>
      /\ Len(log'[r]) = 1 /\ log'[r][1] = ProposalRow(SourceOf(r))
      /\ SourceOf(r) \in Nat
  BY IdParts, ConstantsAssumption DEF RowIsNew, Snapshots
<1>2. Rebuilds(r)'
  BY <1>1 DEF RowIsNew, Rebuilds, ProposalRow
<1>3. TextChangeIsLogged(r)'
  BY DEF RowIsNew, TextChangeIsLogged
<1>4. Follows(r)'
  BY <1>1 DEF RowIsNew, Follows, ProposalRow, SourceOf, KeyOf
<1> QED
  BY <1>2, <1>3, <1>4

\* A row that is kept.
LEMMA KeptRowIsLogged ==
  ASSUME EpisodeInv, LogInv, [Next]_vars, NEW r \in Ids, RowIsKept(r), TypeOK'
  PROVE  Rebuilds(r)' /\ TextChangeIsLogged(r)' /\ Follows(r)'
<1>1. Rebuilds(r) /\ TextChangeIsLogged(r) /\ Follows(r) /\ TypeOK /\ r \in Episodes
  BY DEF LogInv, RowIsKept, EpisodeInv
<1>2. Rebuilds(r)' /\ TextChangeIsLogged(r)'
  BY <1>1 DEF RowIsKept, Rebuilds, TextChangeIsLogged
<1>3. Follows(r)'
  <2>1. /\ Len(log[r]) \in Nat
        /\ \A i \in 1..Len(log[r]) : log[r][i].snapshot \in Snapshots
    BY <1>1, LogOfRow
  <2>2. lastSeen[r] \in Nat /\ lastSeen'[r] \in Nat /\ lastSeen[r] <= published
        /\ published \in Nat
    BY <1>1, ConstantsAssumption DEF TypeOK, Snapshots, EpisodeInv, EpisodeOrder
  <2>3. \A i \in 1..Len(log[r]) :
          /\ log[r][i].snapshot \in 1..published
          /\ log[r][i].snapshot <= lastSeen'[r]
          /\ KeyOf(r) \in openKeys[log[r][i].snapshot]
          /\ \A j \in 1..i : log[r][j].snapshot <= log[r][i].snapshot
    BY <1>1, <2>1, <2>2, ConstantsAssumption DEF Follows, RowIsKept, Snapshots
  <2>4. \A t \in 1..published : openKeys'[t] = openKeys[t]
    BY <1>1, PublishedStays
  <2>5. log'[r] = log[r] /\ log[r][1].snapshot = SourceOf(r)
    BY <1>1 DEF RowIsKept, Follows
  <2> QED
    BY <2>3, <2>4, <2>5 DEF Follows, SourceOf, KeyOf
<1> QED
  BY <1>2, <1>3

\* A row that a human moves: the new transition starts where the last one ended.
LEMMA MovedRowIsLogged ==
  ASSUME EpisodeInv, LogInv, [Next]_vars, NEW r \in Ids, RowMoves(r)
  PROVE  Rebuilds(r)' /\ TextChangeIsLogged(r)' /\ Follows(r)'
<1>1. Rebuilds(r) /\ TextChangeIsLogged(r) /\ Follows(r) /\ TypeOK /\ r \in Episodes
  BY DEF LogInv, RowMoves, EpisodeInv
<1>2. PICK to \in AllowedTransitions[status[r]], role \in HumanRoles, new \in Payloads :
        /\ PayloadChange(to, payload[r], new)
        /\ log'[r] = Append(log[r], TransitionRow(r, to, role, new))
        /\ status'[r] = to /\ payload'[r] = new
  BY DEF RowMoves
<1> DEFINE row == TransitionRow(r, to, role, new)
           n == Len(log[r])
<1>3. /\ Len(log'[r]) = n + 1 /\ n \in Nat /\ n > 0
      /\ \A i \in 1..n : log'[r][i] = log[r][i]
      /\ log'[r][n + 1] = row
  BY <1>1, <1>2, LogOfRow, AppendedLog DEF Rebuilds
<1>4. /\ row.from = status[r] /\ row.to = to /\ row.snapshot = lastSeen[r]
      /\ row.previous = payload[r] /\ row.resulting = new
  BY DEF TransitionRow
<1> HIDE DEF row
<1>5. Rebuilds(r)'
  <2>1. log'[r][1] = log[r][1]
    BY <1>3
  <2>2. ASSUME NEW i \in 2..(n + 1)
        PROVE  /\ log'[r][i].from = log'[r][i - 1].to
               /\ log'[r][i].to \in AllowedTransitions[log'[r][i].from]
               /\ log'[r][i].previous = log'[r][i - 1].resulting
    <3>1. i - 1 \in 1..n /\ (i \in 2..n \/ i = n + 1)
      BY <1>3
    <3>2. log'[r][i - 1] = log[r][i - 1]
      BY <1>3, <3>1
    <3>3. CASE i \in 2..n
      BY <1>1, <1>3, <3>2, <3>3 DEF Rebuilds
    <3>4. CASE i = n + 1
      <4>1. log'[r][i] = row /\ log'[r][i - 1] = log[r][n]
        BY <1>3, <3>2, <3>4
      <4> QED
        BY <1>1, <1>2, <1>4, <4>1 DEF Rebuilds
    <3> QED
      BY <3>1, <3>3, <3>4
  <2>3. /\ log'[r][1].from = "NONE" /\ log'[r][1].to = "PROPOSED"
        /\ log'[r][1].resulting = Original
    BY <1>1, <2>1 DEF Rebuilds
  <2>4. log'[r][n + 1].to = status'[r] /\ log'[r][n + 1].resulting = payload'[r]
    BY <1>2, <1>3, <1>4
  <2>5. Len(log'[r]) = n + 1 /\ Len(log'[r]) > 0
    BY <1>3
  <2> HIDE DEF n
  <2> QED
    BY <2>2, <2>3, <2>4, <2>5 DEF Rebuilds
<1>6. TextChangeIsLogged(r)'
  <2> SUFFICES ASSUME NEW c \in TextColumns, new[c] # Original[c]
               PROVE  \E i \in 1..(n + 1) :
                        /\ log'[r][i].to = "MODIFIED"
                        /\ log'[r][i].resulting[c] # log'[r][i].previous[c]
    BY <1>2, <1>3 DEF TextChangeIsLogged
  <2>1. CASE to = "MODIFIED" /\ new[c] # payload[r][c]
    BY <1>3, <1>4, <2>1
  <2>2. CASE ~(to = "MODIFIED" /\ new[c] # payload[r][c])
    <3>1. payload[r][c] # Original[c]
      BY <1>2, <2>2 DEF PayloadChange
    <3>2. PICK i \in 1..n :
            log[r][i].to = "MODIFIED" /\ log[r][i].resulting[c] # log[r][i].previous[c]
      BY <1>1, <3>1 DEF TextChangeIsLogged
    <3> QED
      BY <1>3, <3>2
  <2> QED
    BY <2>1, <2>2
<1>7. Follows(r)'
  <2>1. /\ lastSeen[r] \in Nat /\ lastSeen[r] \in 1..published /\ lastSeen'[r] = lastSeen[r]
        /\ published \in Nat /\ KeyOf(r) \in openKeys[lastSeen[r]]
    BY <1>1, ConstantsAssumption
       DEF TypeOK, Snapshots, EpisodeInv, EpisodeOrder, RowMoves
  <2>2. \A t \in 1..published : openKeys'[t] = openKeys[t]
    BY <1>1, PublishedStays
  <2>3. \A i \in 1..n : /\ log'[r][i].snapshot \in 1..published
                        /\ log'[r][i].snapshot <= lastSeen[r]
                        /\ KeyOf(r) \in openKeys[log'[r][i].snapshot]
                        /\ \A j \in 1..i : log'[r][j].snapshot <= log'[r][i].snapshot
    <3>1. \A i \in 1..n : \A j \in 1..i : log'[r][j] = log[r][j] /\ log'[r][i] = log[r][i]
      BY <1>3
    <3>2. ASSUME NEW i \in 1..n
          PROVE  /\ log[r][i].snapshot \in 1..published
                 /\ log[r][i].snapshot <= lastSeen[r]
                 /\ KeyOf(r) \in openKeys[log[r][i].snapshot]
                 /\ \A j \in 1..i : log[r][j].snapshot <= log[r][i].snapshot
      <4>1. log[r][i].snapshot \in Snapshots
        BY <1>1, LogOfRow
      <4>2. /\ log[r][i].snapshot <= lastSeen[r]
            /\ KeyOf(r) \in openKeys[log[r][i].snapshot]
            /\ \A j \in 1..i : log[r][j].snapshot <= log[r][i].snapshot
        BY <1>1 DEF Follows
      <4> QED
        BY <2>1, <4>1, <4>2, ConstantsAssumption DEF Snapshots
    <3>3. \A i \in 1..n : i \in 1..i /\ log'[r][i] = log[r][i]
      BY <1>3
    <3> HIDE DEF n
    <3> QED
      BY <3>1, <3>2, <3>3
  <2>4. ASSUME NEW i \in 1..(n + 1)
        PROVE  /\ KeyOf(r) \in openKeys'[log'[r][i].snapshot]
               /\ log'[r][i].snapshot <= lastSeen[r]
               /\ \A j \in 1..i : log'[r][j].snapshot <= log'[r][i].snapshot
    <3>1. CASE i \in 1..n
      BY <2>2, <2>3, <3>1
    <3>2. CASE i = n + 1
      <4>1. log'[r][i].snapshot = lastSeen[r]
        BY <1>3, <1>4, <3>2
      <4>2. \A j \in 1..i : j \in 1..n \/ j = i
        BY <1>3, <3>2
      <4> QED
        BY <2>1, <2>2, <2>3, <4>1, <4>2
    <3> QED
      BY <1>3, <3>1, <3>2
  <2>5. log'[r][1].snapshot = SourceOf(r)
    BY <1>1, <1>3 DEF Follows
  <2> QED
    BY <1>3, <2>1, <2>4, <2>5 DEF Follows, SourceOf, KeyOf
<1> QED
  BY <1>5, <1>6, <1>7

\* Every step keeps the invariant of the log.
LEMMA NextLogInv == EpisodeInv /\ LogInv /\ [Next]_vars => LogInv'
<1> SUFFICES ASSUME EpisodeInv, LogInv, [Next]_vars, NEW r \in Episodes'
             PROVE  Rebuilds(r)' /\ TextChangeIsLogged(r)' /\ Follows(r)'
  BY DEF LogInv
<1>1. TypeOK' /\ r \in Ids
  BY NextEpisodeInv DEF EpisodeInv, Episodes
<1>2. RowIsNew(r) \/ RowIsKept(r) \/ RowMoves(r)
  BY EveryRowStep
<1> QED
  BY <1>1, <1>2, NewRowIsLogged, KeptRowIsLogged, MovedRowIsLogged

LEMMA InitLogInv == Init => LogInv
  BY DEF Init, LogInv, Episodes

\* The log of every recommendation rebuilds it and follows its sightings.
THEOREM LogInvariant == Spec => [](EpisodeInv /\ LogInv)
  BY InitEpisodeInv, NextEpisodeInv, InitLogInv, NextLogInv, PTL DEF Spec

\* The observers only read what the other steps write.
LEMMA OutcomesRefineService ==
  /\ OutcomesInit => Init
  /\ [OutcomesNext]_outcomeVars => [Next]_vars
  BY DEF OutcomesInit, OutcomesNext, outcomeVars, Observe, Store, StoreConflict

THEOREM OutcomesSpecIsService == OutcomesSpec => Spec
  BY OutcomesRefineService, PTL DEF OutcomesSpec, Spec

\* For any constants, a log read alone gives the status and the payload of its
\* recommendation, each of its rows continuing the one before.
THEOREM LogRebuildsRecommendationHolds == OutcomesSpec => []LogRebuildsRecommendation
<1>1. LogInv => LogRebuildsRecommendation
  BY DEF LogInv, Rebuilds, LogRebuildsRecommendation
<1> QED
  BY <1>1, LogInvariant, OutcomesSpecIsService, PTL

\* For any constants, a text that differs from the proposed one was modified by a
\* logged transition.
THEOREM TextChangesAreModificationsHolds == OutcomesSpec => []TextChangesAreModifications
<1>1. LogInv => TextChangesAreModifications
  BY DEF LogInv, TextChangeIsLogged, TextChangesAreModifications
<1> QED
  BY <1>1, LogInvariant, OutcomesSpecIsService, PTL

\* For any constants, the snapshots of a log are sightings of its risk, in order,
\* the first being the source and none after the last one seen.
THEOREM LogFollowsSightingsHolds == OutcomesSpec => []LogFollowsSightings
<1>1. LogInv => LogFollowsSightings
  BY DEF LogInv, Follows, LogFollowsSightings
<1> QED
  BY <1>1, LogInvariant, OutcomesSpecIsService, PTL

--------------------------------------------------------------------------------
(* The first human validation.                                                   *)

\* The order of the natural numbers, as the library's theorems take it.
LessThan == {p \in Nat \X Nat : p[1] < p[2]}

LEMMA LessThanWellFounded == IsWellFoundedOn(LessThan, Nat)
  BY NatLessThanWellFounded DEF OpToRel, LessThan

\* A nonempty set of natural numbers has a least element.
LEMMA LeastExists ==
  ASSUME NEW S \in SUBSET Nat, S # {}
  PROVE  \E i \in S : \A j \in S : i <= j
<1>1. PICK i \in S : \A j \in S : ~(<<j, i>> \in LessThan)
  BY WFMin, LessThanWellFounded
<1>2. \A j \in S : ~(j < i)
  BY <1>1 DEF LessThan
<1>3. \A j \in S : i \in Nat /\ j \in Nat
  OBVIOUS
<1>4. \A j \in S : i <= j
  BY <1>2, <1>3
<1> QED
  BY <1>4

\* The place in the log of the first human validation.
FirstValidation(r) ==
  CHOOSE i \in HumanValidations(r) : \A j \in HumanValidations(r) : i <= j

LEMMA FirstValidationIsLeast ==
  ASSUME TypeOK, NEW r \in Episodes, HumanValidations(r) # {}
  PROVE  /\ FirstValidation(r) \in HumanValidations(r)
         /\ \A j \in HumanValidations(r) : FirstValidation(r) <= j
         /\ Baseline(r) = log[r][FirstValidation(r)].snapshot
<1>1. HumanValidations(r) \in SUBSET Nat
  BY LogOfRow DEF HumanValidations
<1>2. \E i \in HumanValidations(r) : \A j \in HumanValidations(r) : i <= j
  BY <1>1, LeastExists
<1>3. Baseline(r) = log[r][FirstValidation(r)].snapshot
  BY DEF Baseline, FirstValidation
<1> QED
  BY <1>2, <1>3 DEF FirstValidation

\* A step adds at most a validation after those of the log.
LEMMA ValidationsGrow ==
  ASSUME EpisodeInv, [Next]_vars, NEW r \in Episodes
  PROVE  /\ Len(log[r]) \in Nat /\ HumanValidations(r) \subseteq 1..Len(log[r])
         /\ \A i \in 1..Len(log[r]) : log'[r][i] = log[r][i]
         /\ HumanValidations(r) \subseteq HumanValidations(r)'
         /\ HumanValidations(r)' \subseteq HumanValidations(r) \cup {Len(log[r]) + 1}
<1>1. TypeOK /\ log[r] \in Seq(Transition) /\ Len(log[r]) \in Nat
  BY LogOfRow DEF EpisodeInv
<1>2. RowIsKept(r) \/ RowMoves(r)
  BY EveryRowStep DEF RowIsNew
<1>3. CASE RowIsKept(r)
  BY <1>1, <1>3 DEF RowIsKept, HumanValidations, IsHumanValidation
<1>4. CASE RowMoves(r)
  <2>1. PICK row : log'[r] = Append(log[r], row)
    BY <1>4 DEF RowMoves
  <2>2. /\ Len(log'[r]) = Len(log[r]) + 1
        /\ \A i \in 1..Len(log[r]) : log'[r][i] = log[r][i]
    BY <1>1, <2>1, AppendedLog
  <2>3. /\ 1..Len(log'[r]) = 1..Len(log[r]) \cup {Len(log[r]) + 1}
        /\ HumanValidations(r) \subseteq 1..Len(log[r])
    BY <1>1, <2>2 DEF HumanValidations
  <2> QED
    BY <1>1, <2>2, <2>3 DEF HumanValidations, IsHumanValidation
<1> QED
  BY <1>2, <1>3, <1>4

\* The first human validation of a row stays the first.
LEMMA BaselineStays ==
  ASSUME EpisodeInv, [Next]_vars, NEW r \in Episodes, HumanValidations(r) # {}
  PROVE  /\ HumanValidations(r)' # {}
         /\ Baseline(r)' = Baseline(r)
<1> DEFINE first == FirstValidation(r)
<1>1. TypeOK /\ TypeOK' /\ r \in Episodes'
  BY NextEpisodeInv, EveryRowStep DEF EpisodeInv
<1>2. /\ first \in HumanValidations(r)
      /\ \A j \in HumanValidations(r) : first <= j
      /\ Baseline(r) = log[r][first].snapshot
  BY <1>1, FirstValidationIsLeast
<1>3. /\ Len(log[r]) \in Nat /\ HumanValidations(r) \subseteq 1..Len(log[r])
      /\ \A i \in 1..Len(log[r]) : log'[r][i] = log[r][i]
      /\ HumanValidations(r) \subseteq HumanValidations(r)'
      /\ HumanValidations(r)' \subseteq HumanValidations(r) \cup {Len(log[r]) + 1}
  BY ValidationsGrow
<1> HIDE DEF first
<1>4. first \in HumanValidations(r)' /\ \A j \in HumanValidations(r)' : first <= j
  BY <1>2, <1>3
<1>5. \A i \in HumanValidations(r)' :
        (\A j \in HumanValidations(r)' : i <= j) => i = first
  <2> SUFFICES ASSUME NEW i \in HumanValidations(r)', i <= first, first <= i
               PROVE  i = first
    BY <1>4
  <2>1. i \in Nat /\ first \in Nat
    BY <1>2, <1>3
  <2> QED
    BY <2>1
<1>6. first = CHOOSE i \in HumanValidations(r)' : \A j \in HumanValidations(r)' : i <= j
  BY <1>4, <1>5
<1>7. Baseline(r)' = log'[r][first].snapshot
  BY <1>6 DEF Baseline
<1> QED
  BY <1>2, <1>3, <1>4, <1>7

\* For any constants, the first human validation of a recommendation, once logged,
\* gives the same baseline for ever.
THEOREM BaselineIsFinalHolds == OutcomesSpec => BaselineIsFinal
<1>1. ASSUME EpisodeInv, [Next]_vars
      PROVE  \A r \in Episodes : HumanValidations(r) # {} => Baseline(r)' = Baseline(r)
  BY <1>1, BaselineStays
<1>2. EpisodeInv /\ [OutcomesNext]_outcomeVars
        => [\A r \in Episodes : HumanValidations(r) # {} => Baseline(r)' = Baseline(r)]_outcomeVars
  BY <1>1, OutcomesRefineService
<1> QED
  BY <1>2, EpisodesInvariant, OutcomesSpecIsService, PTL DEF OutcomesSpec, BaselineIsFinal

--------------------------------------------------------------------------------
(* The measures.                                                                 *)

\* A measure is that of a validated row, against a published snapshot of a later
\* day than its baseline's.
MeasureIsRight(o) ==
  /\ o.rec \in Episodes
  /\ HumanValidations(o.rec) # {}
  /\ o.baseline = Baseline(o.rec)
  /\ o.observed \in Later(o.baseline)
  /\ o.status = Assess(o.rec, o.baseline, o.observed)

\* The inductive invariant of the outcomes, stored and about to be.
OutcomesInv ==
  /\ DOMAIN measure = Observers
  /\ \A o \in outcomes : MeasureIsRight(o)
  /\ \A p \in Observers : measure[p] # Null => MeasureIsRight(measure[p])

\* The baseline is a published snapshot that shows the risk.
LEMMA BaselineShowsRisk ==
  ASSUME EpisodeInv, LogInv, NEW r \in Episodes, HumanValidations(r) # {}
  PROVE  /\ Baseline(r) \in 1..published
         /\ KeyOf(r) \in openKeys[Baseline(r)]
         /\ \E i \in 1..Len(log[r]) : /\ IsHumanValidation(log[r][i])
                                      /\ log[r][i].snapshot = Baseline(r)
<1>1. TypeOK
  BY DEF EpisodeInv
<1>2. /\ FirstValidation(r) \in HumanValidations(r)
      /\ Baseline(r) = log[r][FirstValidation(r)].snapshot
  BY <1>1, FirstValidationIsLeast
<1>3. /\ FirstValidation(r) \in 1..Len(log[r])
      /\ IsHumanValidation(log[r][FirstValidation(r)])
  BY <1>2 DEF HumanValidations
<1>4. /\ Baseline(r) \in Snapshots
      /\ KeyOf(r) \in openKeys[Baseline(r)]
      /\ Baseline(r) <= lastSeen[r]
  BY <1>1, <1>2, <1>3, LogOfRow DEF LogInv, Follows
<1>5. /\ lastSeen[r] \in Nat /\ lastSeen[r] <= synced
      /\ synced \in Nat /\ synced <= published /\ published \in Nat
  BY <1>1, ConstantsAssumption DEF EpisodeInv, EpisodeOrder, TypeOK, Snapshots
<1>6. Baseline(r) \in 1..published
  BY <1>4, <1>5, ConstantsAssumption DEF Snapshots
<1> QED
  BY <1>2, <1>3, <1>4, <1>6

\* A measure of snapshots that do not change does not change.
LEMMA AssessStays ==
  ASSUME NEW r, NEW before, NEW after,
         openKeys'[before] = openKeys[before], openKeys'[after] = openKeys[after]
  PROVE  Assess(r, before, after)' = Assess(r, before, after)
<1>1. ASSUME NEW s \in {before, after}
      PROVE  /\ OpenPolicies(s)' = OpenPolicies(s)
             /\ \A policy \in Policies : Contribution(s, policy)' = Contribution(s, policy)
             /\ Score(s)' = Score(s)
  <2>1. OpenPolicies(s)' = OpenPolicies(s)
    BY DEF OpenPolicies
  <2>2. \A policy \in Policies : Contribution(s, policy)' = Contribution(s, policy)
    BY <2>1 DEF Contribution
  <2>3. Score(s)' = Score(s)
    BY <2>2 DEF Score
  <2> QED
    BY <2>1, <2>2, <2>3
<1>2. Contribution(after, PolicyOf[KeyOf(r)])' = Contribution(after, PolicyOf[KeyOf(r)])
  BY <1>1 DEF Contribution
<1>3. Contribution(before, PolicyOf[KeyOf(r)])' = Contribution(before, PolicyOf[KeyOf(r)])
  BY <1>1 DEF Contribution
<1> QED
  BY <1>1, <1>2, <1>3 DEF Assess, PolicyImproved, KeyOf

\* No step of the service makes a right measure wrong.
LEMMA MeasureStaysRight ==
  ASSUME EpisodeInv, LogInv, [Next]_vars, NEW o, MeasureIsRight(o)
  PROVE  MeasureIsRight(o)'
<1>1. /\ o.rec \in Episodes /\ HumanValidations(o.rec) # {}
      /\ o.baseline = Baseline(o.rec) /\ o.observed \in Later(o.baseline)
      /\ o.status = Assess(o.rec, o.baseline, o.observed)
  BY DEF MeasureIsRight
<1>2. /\ published \in Nat /\ published' \in Nat /\ published <= published'
      /\ \A t \in 1..published : openKeys'[t] = openKeys[t]
  BY PublishedStays DEF EpisodeInv
<1>3. o.rec \in Episodes' /\ HumanValidations(o.rec)' # {} /\ o.baseline = Baseline(o.rec)'
  BY <1>1, EveryRowStep, BaselineStays
<1>4. o.baseline \in 1..published /\ o.observed \in 1..published
  BY <1>1, BaselineShowsRisk DEF Later
<1>5. o.observed \in Later(o.baseline)'
  BY <1>1, <1>2 DEF Later
<1>6. Assess(o.rec, o.baseline, o.observed)' = Assess(o.rec, o.baseline, o.observed)
  BY <1>2, <1>4, AssessStays
<1> QED
  BY <1>1, <1>3, <1>5, <1>6 DEF MeasureIsRight

\* A request measures a right outcome, and what it stores is what it has measured.
LEMMA NextOutcomesInv ==
  EpisodeInv /\ LogInv /\ OutcomesInv /\ [OutcomesNext]_outcomeVars => OutcomesInv'
<1> SUFFICES ASSUME EpisodeInv, LogInv, OutcomesInv, [OutcomesNext]_outcomeVars
             PROVE  OutcomesInv'
  OBVIOUS
<1>1. \A o : MeasureIsRight(o) => MeasureIsRight(o)'
  BY MeasureStaysRight, OutcomesRefineService
<1>2. CASE UNCHANGED <<outcomes, measure>>
  BY <1>1, <1>2 DEF OutcomesInv
<1>3. ASSUME NEW p \in Observers, NEW r \in Ids, NEW s \in Snapshots, Observe(p, r, s)
      PROVE  OutcomesInv'
  <2>1. PICK o : o = [rec |-> r, baseline |-> Baseline(r), observed |-> s,
                      status |-> Assess(r, Baseline(r), s)]
    OBVIOUS
  <2>2. measure' = [measure EXCEPT ![p] = o] /\ outcomes' = outcomes
    BY <1>3, <2>1 DEF Observe
  <2>3. MeasureIsRight(o)
    BY <1>3, <2>1 DEF MeasureIsRight, Observe
  <2> QED
    BY <1>1, <2>2, <2>3 DEF OutcomesInv
<1>4. ASSUME NEW p \in Observers, Store(p) PROVE OutcomesInv'
  <2>1. /\ outcomes' = outcomes \cup {measure[p]} /\ measure[p] # Null
        /\ DOMAIN measure' = Observers
        /\ \A q \in Observers : measure'[q] # Null => measure'[q] = measure[q]
    BY <1>4 DEF Store, OutcomesInv
  <2> QED
    BY <1>1, <2>1 DEF OutcomesInv
<1>5. ASSUME NEW p \in Observers, StoreConflict(p) PROVE OutcomesInv'
  <2>1. /\ outcomes' = outcomes /\ DOMAIN measure' = Observers
        /\ \A q \in Observers : measure'[q] # Null => measure'[q] = measure[q]
    BY <1>5 DEF StoreConflict, OutcomesInv
  <2> QED
    BY <1>1, <2>1 DEF OutcomesInv
<1> QED
  BY <1>2, <1>3, <1>4, <1>5 DEF OutcomesNext, outcomeVars

\* Every outcome, stored or about to be, is a right measure of its baseline.
THEOREM OutcomesInvariant == OutcomesSpec => [](EpisodeInv /\ LogInv /\ OutcomesInv)
<1>1. OutcomesInit => OutcomesInv
  BY DEF OutcomesInit, OutcomesInv
<1> QED
  BY <1>1, NextOutcomesInv, LogInvariant, OutcomesSpecIsService, PTL DEF OutcomesSpec

\* For any constants, an outcome is measured from the snapshot of a logged decision
\* of a human, on a snapshot of a later day.
THEOREM OutcomeFollowsHumanDecisionHolds == OutcomesSpec => []OutcomeFollowsHumanDecision
<1>1. EpisodeInv /\ LogInv /\ OutcomesInv => OutcomeFollowsHumanDecision
  <2> SUFFICES ASSUME EpisodeInv, LogInv, OutcomesInv, NEW o \in outcomes
               PROVE  /\ \E i \in 1..Len(log[o.rec]) :
                           /\ log[o.rec][i].to \in {"ACCEPTED", "MODIFIED"}
                           /\ log[o.rec][i].role # "SYSTEM"
                           /\ log[o.rec][i].snapshot = o.baseline
                      /\ RefDate[o.baseline] < RefDate[o.observed]
    BY DEF OutcomeFollowsHumanDecision
  <2>1. MeasureIsRight(o)
    BY DEF OutcomesInv
  <2>2. \E i \in 1..Len(log[o.rec]) : /\ IsHumanValidation(log[o.rec][i])
                                      /\ log[o.rec][i].snapshot = o.baseline
    BY <2>1, BaselineShowsRisk DEF MeasureIsRight
  <2> QED
    BY <2>1, <2>2 DEF MeasureIsRight, Later, IsHumanValidation
<1> QED
  BY <1>1, OutcomesInvariant, PTL

\* For any constants, measuring an outcome again, whenever it is done, gives what is
\* stored and what is about to be.
THEOREM ResultIsRepeatableHolds == OutcomesSpec => []ResultIsRepeatable
<1>1. OutcomesInv => ResultIsRepeatable
  <2> SUFFICES ASSUME OutcomesInv,
                      NEW o \in outcomes
                                  \cup {measure[p] : p \in {q \in Observers : measure[q] # Null}}
               PROVE  /\ o.baseline = Baseline(o.rec)
                      /\ o.status = Assess(o.rec, Baseline(o.rec), o.observed)
    BY DEF ResultIsRepeatable
  <2>1. MeasureIsRight(o)
    BY DEF OutcomesInv
  <2> QED
    BY <2>1 DEF MeasureIsRight
<1> QED
  BY <1>1, OutcomesInvariant, PTL

\* For any constants, an outcome without improvement is that of a risk whose policy
\* was violated on the baseline and still is, as much.
THEOREM NoImprovementMeansStillViolatedHolds ==
  OutcomesSpec => []NoImprovementMeansStillViolated
<1>1. EpisodeInv /\ LogInv /\ OutcomesInv => NoImprovementMeansStillViolated
  <2> SUFFICES ASSUME EpisodeInv, LogInv, OutcomesInv, NEW o \in outcomes,
                      o.status = "NO_IMPROVEMENT_OBSERVED"
               PROVE  /\ PolicyOf[KeyOf(o.rec)]
                           \in OpenPolicies(o.baseline) \cap OpenPolicies(o.observed)
                      /\ Contribution(o.baseline, PolicyOf[KeyOf(o.rec)])
                           <= Contribution(o.observed, PolicyOf[KeyOf(o.rec)])
    BY DEF NoImprovementMeansStillViolated
  <2> DEFINE policy == PolicyOf[KeyOf(o.rec)]
  <2>1. MeasureIsRight(o)
    BY DEF OutcomesInv
  <2>2. ~PolicyImproved(policy, o.baseline, o.observed)
    BY <2>1 DEF MeasureIsRight, Assess
  <2>3. /\ o.baseline \in 1..published /\ KeyOf(o.rec) \in openKeys[o.baseline]
        /\ o.rec \in Ids
    BY <2>1, BaselineShowsRisk DEF MeasureIsRight, Episodes
  <2>4. policy \in OpenPolicies(o.baseline) \cap OpenPolicies(o.observed)
    BY <2>2, <2>3 DEF OpenPolicies, PolicyImproved
  <2>5. /\ o.baseline \in Snapshots /\ o.observed \in Snapshots
        /\ KeyOf(o.rec) \in Keys
    BY <2>1, <2>3, IdParts, ConstantsAssumption
       DEF EpisodeInv, TypeOK, MeasureIsRight, Later, Snapshots
  <2>6. \A s \in {o.baseline, o.observed} : Contribution(s, policy) \in Nat
    BY <2>5, OutcomesAssumption DEF Contribution, Policies
  <2> QED
    BY <2>2, <2>4, <2>6 DEF PolicyImproved
<1> QED
  BY <1>1, OutcomesInvariant, PTL
=================================================================================
