-------------------------- MODULE SnapshotStoreProofs --------------------------
(*****************************************************************************)
(* The links between snapshots, for any number of requests, datasets and     *)
(* dates.  A new row is linked to a row of the table or to none, and no row  *)
(* is linked to it yet, since its id is new: so it closes no loop.  Requests *)
(* that do not meet, by the memory of MCSnapshotStore, form one chain.       *)
(*****************************************************************************)
EXTENDS MCSnapshotStore, FiniteSetTheorems, TLAPS

\* The initial state has its types.
LEMMA InitTypeOK == Init => TypeOK
  BY SnapshotStoreAssumption DEF Init, TypeOK

\* Every step keeps the columns within their types.
LEMMA NextTypeOK == TypeOK /\ [Next]_vars => TypeOK'
<1> SUFFICES ASSUME TypeOK, [Next]_vars PROVE TypeOK'
  OBVIOUS
<1> USE SnapshotStoreAssumption DEF TypeOK
<1>1. ASSUME NEW new \in Facts, Reset(new) PROVE TypeOK'
  BY <1>1 DEF Reset
<1>2. ASSUME NEW p \in Requests, NEW date \in Dates, Capture(p, date)
      PROVE TypeOK'
  <2> DEFINE row == [id |-> [facts |-> facts, date |-> date],
                     analyzedAt |-> clock + 1, previous |-> None]
  <2>1. row \in Rows
    BY <1>2 DEF Capture, Rows, Inputs
  <2>2. /\ job' = [job EXCEPT ![p] = row]
        /\ pc' = [pc EXCEPT ![p] = "captured"]
        /\ clock' = clock + 1 /\ clock < MaxClock
        /\ UNCHANGED <<facts, store>>
    BY <1>2 DEF Capture
  <2> QED
    BY <2>1, <2>2
<1>3. ASSUME NEW p \in Requests, Answer(p) PROVE TypeOK'
  BY <1>3 DEF Answer
<1>4. ASSUME NEW p \in Requests, Miss(p) PROVE TypeOK'
  BY <1>4 DEF Miss
<1>5. ASSUME NEW p \in Requests, Link(p) PROVE TypeOK'
  <2>1. CASE UNCHANGED job
    BY <1>5, <2>1 DEF Link
  <2>2. CASE \E row \in store : job' = [job EXCEPT ![p].previous = row.id]
    <3>1. PICK row \in store : job' = [job EXCEPT ![p].previous = row.id]
      BY <2>2
    <3>2. job[p] \in Rows /\ row \in Rows
      BY <1>5 DEF Link
    <3>3. [job[p] EXCEPT !.previous = row.id] \in Rows
      BY <3>2 DEF Rows
    <3>4. job' = [job EXCEPT ![p] = [job[p] EXCEPT !.previous = row.id]]
      BY <3>1
    <3> QED
      BY <1>5, <3>3, <3>4 DEF Link
  <2> QED
    BY <1>5, <2>1, <2>2 DEF Link
<1>6. ASSUME NEW p \in Requests, Insert(p) PROVE TypeOK'
  BY <1>6 DEF Insert
<1>7. ASSUME NEW p \in Requests, Error(p) PROVE TypeOK'
  BY <1>7 DEF Error
<1>8. ASSUME NEW p \in Requests, AnswerError(p) PROVE TypeOK'
  BY <1>8 DEF AnswerError
<1>9. CASE UNCHANGED vars
  BY <1>9 DEF vars
<1> QED
  BY <1>1, <1>2, <1>3, <1>4, <1>5, <1>6, <1>7, <1>8, <1>9 DEF Next

\* The table only changes when it is emptied or when one row is inserted that
\* meets its constraints.
LEMMA StoreSteps ==
  ASSUME TypeOK, [Next]_vars
  PROVE  \/ store' = store
         \/ store' = {}
         \/ \E row \in Rows : Insertable(row) /\ store' = store \cup {row}
<1>1. ASSUME NEW p \in Requests, Insert(p)
      PROVE  \E row \in Rows : Insertable(row) /\ store' = store \cup {row}
  <2>1. job[p] \in Rows
    BY <1>1 DEF Insert, TypeOK
  <2> QED
    BY <1>1, <2>1 DEF Insert
<1> QED
  BY <1>1 DEF Next, vars, Reset, Capture, Answer, Miss, Link, Error, AnswerError

\* Both properties of the links are kept together: the row inserted is new, so
\* none of the rows there is linked to it.
LinksInv == TypeOK /\ LinksAreStored /\ HistoryHasNoLoop

LEMMA NextLinksInv == LinksInv /\ [Next]_vars => LinksInv'
<1> SUFFICES ASSUME TypeOK, LinksAreStored, HistoryHasNoLoop, [Next]_vars
             PROVE  LinksAreStored' /\ HistoryHasNoLoop'
  BY NextTypeOK DEF LinksInv
<1>1. CASE store' = store
  BY <1>1 DEF LinksAreStored, HistoryHasNoLoop, StoredIds
<1>2. CASE store' = {}
  BY <1>2 DEF LinksAreStored, HistoryHasNoLoop, StoredIds
<1>3. CASE \E row \in Rows : Insertable(row) /\ store' = store \cup {row}
  <2>1. PICK new \in Rows : Insertable(new) /\ store' = store \cup {new}
    BY <1>3
  <2>2. LinksAreStored'
    BY <2>1 DEF LinksAreStored, Insertable, StoredIds
  <2>3. new.id \notin StoredIds(store) \cup {None}
    BY <2>1, SnapshotStoreAssumption DEF Insertable, Rows
  <2>4. new.previous \in StoredIds(store) \cup {None}
    BY <2>1 DEF Insertable
  <2>5. HistoryHasNoLoop'
    <3> SUFFICES ASSUME NEW group \in SUBSET store', group # {}
                 PROVE  \E row \in group : row.previous \notin StoredIds(group)
      BY DEF HistoryHasNoLoop, StoredIds
    <3> DEFINE rest == group \ {new}
    <3>1. rest \in SUBSET store /\ group \subseteq rest \cup {new}
      BY <2>1
    <3>2. CASE rest = {}
      <4>1. group = {new}
        BY <3>2
      <4>2. StoredIds(group) = {new.id}
        BY <4>1 DEF StoredIds
      <4>3. new.previous # new.id
        BY <2>3, <2>4
      <4> QED
        BY <4>1, <4>2, <4>3
    <3>3. CASE rest # {}
      <4>1. PICK row \in rest : row.previous \notin StoredIds(rest)
        BY <3>1, <3>3 DEF HistoryHasNoLoop
      <4>2. row.previous \in StoredIds(store) \cup {None}
        BY <3>1 DEF LinksAreStored
      <4>3. row.previous # new.id
        BY <2>3, <4>2
      <4>4. StoredIds(group) \subseteq StoredIds(rest) \cup {new.id}
        BY <3>1 DEF StoredIds
      <4>5. row.previous \notin StoredIds(group)
        BY <4>1, <4>3, <4>4
      <4> QED
        BY <4>5
    <3> QED
      BY <3>2, <3>3
  <2> QED
    BY <2>2, <2>5
<1> QED
  BY <1>1, <1>2, <1>3, StoreSteps

LEMMA InitLinksInv == Init => LinksInv
  BY InitTypeOK DEF Init, LinksInv, LinksAreStored, HistoryHasNoLoop

\* The table of snapshots keeps its types, whatever the requests do.
THEOREM TypeCorrectness == Spec => []TypeOK
  BY InitTypeOK, NextTypeOK, PTL DEF Spec

LEMMA LinksInvariant == Spec => []LinksInv
  BY InitLinksInv, NextLinksInv, PTL DEF Spec

\* previous_snapshot_id always names a stored snapshot, for any number of
\* concurrent analyses and reloads of the data.
THEOREM LinksAreStoredHolds == Spec => []LinksAreStored
<1>1. LinksInv => LinksAreStored
  BY DEF LinksInv
<1> QED
  BY <1>1, LinksInvariant, PTL

\* The snapshots linked by previous_snapshot_id never form a loop.
THEOREM HistoryHasNoLoopHolds == Spec => []HistoryHasNoLoop
<1>1. LinksInv => HistoryHasNoLoop
  BY DEF LinksInv
<1> QED
  BY <1>1, LinksInvariant, PTL
--------------------------------------------------------------------------------
(* Requests that are served one at a time.                                      *)

Busy == {p \in Requests : pc[p] # "idle"}

\* Two elements are more than one, without anything being known to be finite.
LEMMA TwoAreMoreThanOne ==
  ASSUME NEW p, NEW q, p # q
  PROVE  Cardinality({p, q}) > 1
<1>1. IsFiniteSet({p}) /\ Cardinality({p}) = 1
  BY FS_Singleton
<1>2. Cardinality({p} \cup {q}) = 2
  BY <1>1, FS_AddElement
<1>3. {p} \cup {q} = {p, q}
  OBVIOUS
<1> QED
  BY <1>2, <1>3

\* What a lone request builds is later than all that is stored, and once linked it
\* is linked to the latest, unless the table has been emptied.
LoneRequestIsLast ==
  /\ \A row \in store : row.analyzedAt <= clock
  /\ \A p, q \in Busy : p = q
  /\ \A p \in Busy :
       /\ job[p].analyzedAt = clock
       /\ \A row \in store : row.analyzedAt < clock
       /\ pc[p] = "linked" /\ store # {} =>
            \E row \in store : IsLatest(row) /\ job[p].previous = row.id

\* The inductive invariant of requests that have not met.
LoneInv == TypeOK /\ (~overlapped => LoneRequestIsLast /\ ChainIsLinear)

\* As long as no two requests are under way, a step is that of the only one.
LEMMA StaysAlone ==
  ASSUME TypeOK, LoneRequestIsLast, MCNext, ~overlapped'
  PROVE  \A p, q \in Busy' : p = q
<1> SUFFICES ASSUME NEW p \in Busy', NEW q \in Busy', p # q PROVE FALSE
  OBVIOUS
<1>1. \/ pc' = pc
      \/ \E r \in Requests : \E next : pc' = [pc EXCEPT ![r] = next]
  BY DEF MCNext, Next, Reset, Capture, Answer, Miss, Link, Insert, Error, AnswerError
<1>2. PICK r : \A s \in Requests : s # r => pc'[s] = pc[s]
  BY <1>1 DEF TypeOK
<1>3. Busy' \subseteq Busy \cup {r}
  BY <1>2 DEF Busy
<1>4. Busy' = {p, q}
  BY <1>3 DEF LoneRequestIsLast
<1>5. Cardinality(Busy') > 1
  BY <1>4, TwoAreMoreThanOne
<1> QED
  BY <1>5 DEF MCNext, Busy

\* The row that a lone request inserts continues the chain.
LEMMA InsertContinuesChain ==
  ASSUME TypeOK, LoneRequestIsLast, ChainIsLinear, NEW p \in Requests, Insert(p)
  PROVE  ChainIsLinear'
<1> DEFINE new == job[p]
<1>1. /\ store' = store \cup {new} /\ Insertable(new)
      /\ p \in Busy /\ pc[p] = "linked"
  BY DEF Insert, Busy
<1>2. /\ new.analyzedAt = clock /\ clock \in Nat
      /\ \A row \in store : row.analyzedAt < clock /\ row.analyzedAt \in Nat
  BY <1>1, SnapshotStoreAssumption DEF LoneRequestIsLast, TypeOK, Rows
<1>3. \/ store = {} /\ new.previous = None
      \/ \E row \in store : IsLatest(row) /\ new.previous = row.id
  BY <1>1 DEF LoneRequestIsLast, Insertable, StoredIds
<1> HIDE DEF new
<1> SUFFICES ASSUME NEW row \in store'
             PROVE  LET earlier == {other \in store' : other.analyzedAt < row.analyzedAt}
                    IN  \/ earlier = {} /\ row.previous = None
                        \/ \E other \in earlier :
                             /\ \A third \in earlier : third.analyzedAt <= other.analyzedAt
                             /\ row.previous = other.id
  BY DEF ChainIsLinear
<1> DEFINE earlier == {other \in store' : other.analyzedAt < row.analyzedAt}
<1>4. CASE row \in store
  <2>1. earlier = {other \in store : other.analyzedAt < row.analyzedAt}
    BY <1>1, <1>2, <1>4
  <2> QED
    BY <1>4, <2>1 DEF ChainIsLinear
<1>5. CASE row = new
  <2>1. earlier = store
    BY <1>1, <1>2, <1>5
  <2> QED
    BY <1>3, <1>5, <2>1 DEF IsLatest
<1> QED
  BY <1>1, <1>4, <1>5

\* Every step of requests that do not meet keeps the chain.
LEMMA NextLoneInv == LoneInv /\ [MCNext]_<<vars, overlapped>> => LoneInv'
<1> SUFFICES ASSUME LoneInv, [MCNext]_<<vars, overlapped>> PROVE LoneInv'
  OBVIOUS
<1>1. TypeOK /\ TypeOK'
  BY NextTypeOK DEF LoneInv, MCNext, vars
<1>2. CASE UNCHANGED <<vars, overlapped>>
  BY <1>1, <1>2 DEF LoneInv, LoneRequestIsLast, ChainIsLinear, IsLatest, Busy, vars
<1>3. ASSUME MCNext, ~overlapped' PROVE LoneRequestIsLast' /\ ChainIsLinear'
  <2>1. ~overlapped /\ Next
    BY <1>3 DEF MCNext
  <2>2. LoneRequestIsLast /\ ChainIsLinear
    BY <2>1 DEF LoneInv
  <2>3. \A p, q \in Busy' : p = q
    BY <1>1, <1>3, <2>2, StaysAlone
  <2>4. \A row \in store : row.analyzedAt \in Nat
    BY <1>1, SnapshotStoreAssumption DEF TypeOK, Rows
  <2>5. clock \in Nat
    BY <1>1, SnapshotStoreAssumption DEF TypeOK
  <2>6. ASSUME NEW new \in Facts, Reset(new) PROVE LoneRequestIsLast' /\ ChainIsLinear'
    BY <2>2, <2>3, <2>6 DEF Reset, LoneRequestIsLast, ChainIsLinear, Busy
  <2>7. ASSUME NEW p \in Requests, NEW date \in Dates, Capture(p, date)
        PROVE  LoneRequestIsLast' /\ ChainIsLinear'
    <3>1. /\ store' = store /\ clock' = clock + 1
          /\ pc'[p] = "captured" /\ job'[p].analyzedAt = clock + 1
      BY <1>1, <2>7 DEF Capture, TypeOK
    <3>2. Busy' = {p}
      BY <2>3, <3>1 DEF Busy
    <3>3. LoneRequestIsLast'
      BY <2>2, <2>3, <2>4, <2>5, <3>1, <3>2 DEF LoneRequestIsLast
    <3> QED
      BY <2>2, <3>1, <3>3 DEF ChainIsLinear
  <2>8. ASSUME NEW p \in Requests, Insert(p) PROVE LoneRequestIsLast' /\ ChainIsLinear'
    <3>1. p \in Busy /\ Busy' = {} /\ clock' = clock /\ store' = store \cup {job[p]}
      BY <1>1, <2>2, <2>3, <2>8 DEF Insert, Busy, LoneRequestIsLast, TypeOK
    <3>2. LoneRequestIsLast'
      BY <2>2, <2>4, <2>5, <3>1 DEF LoneRequestIsLast
    <3> QED
      BY <1>1, <2>2, <2>8, <3>2, InsertContinuesChain
  <2>9. ASSUME NEW p \in Requests, Link(p) PROVE LoneRequestIsLast' /\ ChainIsLinear'
    <3>1. /\ store' = store /\ clock' = clock /\ p \in Busy /\ p \in Busy'
          /\ job[p] \in Rows
      BY <1>1, <2>9 DEF Link, Busy, TypeOK
    <3>2. Busy = {p} /\ Busy' = {p}
      BY <2>2, <2>3, <3>1 DEF LoneRequestIsLast
    <3>3. \/ store = {} /\ job' = job
          \/ \E row \in store : IsLatest(row) /\ job' = [job EXCEPT ![p].previous = row.id]
      BY <2>9 DEF Link
    <3>4. job'[p].analyzedAt = clock
      BY <1>1, <2>2, <3>1, <3>3 DEF LoneRequestIsLast, TypeOK, Rows
    <3>5. store # {} => \E row \in store : IsLatest(row) /\ job'[p].previous = row.id
      BY <1>1, <3>1, <3>3 DEF TypeOK, Rows
    <3>6. LoneRequestIsLast'
      BY <2>2, <2>3, <3>1, <3>2, <3>4, <3>5 DEF LoneRequestIsLast, IsLatest
    <3> QED
      BY <2>2, <3>1, <3>6 DEF ChainIsLinear
  <2>10. ASSUME NEW p \in Requests, Miss(p) \/ Error(p)
         PROVE LoneRequestIsLast' /\ ChainIsLinear'
    <3>1. /\ store' = store /\ clock' = clock /\ job' = job /\ Busy' = Busy
          /\ pc'[p] # "linked" /\ \A q \in Requests : q # p => pc'[q] = pc[q]
      BY <1>1, <2>10 DEF Miss, Error, Busy, TypeOK
    <3> QED
      BY <2>2, <3>1 DEF LoneRequestIsLast, ChainIsLinear, IsLatest, Busy
  <2>11. ASSUME NEW p \in Requests, Answer(p) \/ AnswerError(p)
         PROVE LoneRequestIsLast' /\ ChainIsLinear'
    <3>1. p \in Busy /\ Busy' = {} /\ clock' = clock /\ store' = store
      BY <1>1, <2>2, <2>3, <2>11 DEF Answer, AnswerError, Busy, LoneRequestIsLast, TypeOK
    <3> QED
      BY <2>2, <3>1 DEF LoneRequestIsLast, ChainIsLinear
  <2> QED
    BY <2>1, <2>6, <2>7, <2>8, <2>9, <2>10, <2>11 DEF Next
<1> QED
  BY <1>1, <1>2, <1>3 DEF LoneInv

\* However many requests are made one after another, with reloads and errors in
\* between, the snapshots of the scope form one chain.
THEOREM ChainOfLoneRequestsHolds == MCSpec => []ChainOfLoneRequests
<1>1. MCInit => LoneInv
  BY InitTypeOK DEF MCInit, Init, LoneInv, LoneRequestIsLast, ChainIsLinear, Busy
<1>2. LoneInv => ChainOfLoneRequests
  BY DEF LoneInv, ChainOfLoneRequests
<1> QED
  BY <1>1, <1>2, NextLoneInv, PTL DEF MCSpec
================================================================================
