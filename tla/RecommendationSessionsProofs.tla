---------------------- MODULE RecommendationSessionsProofs ----------------------
(*****************************************************************************)
(* The journal of one recommendation, for any number of sessions, payloads   *)
(* and sightings.  No lock is taken between the reading of the row and the   *)
(* commit; the argument is that the unique constraint on the sequence makes  *)
(* the numbers 1, 2, ... n, so a session whose number is still free at its   *)
(* commit has numbered its transition after the whole journal.               *)
(*****************************************************************************)
EXTENDS RecommendationSessions, FiniteSetTheorems, TLAPS

\* The columns of the row and of the journal, and what each session holds.
SessionsTypeOK ==
  /\ row \in Rows
  /\ journal \subseteq Transitions
  /\ pc \in [Sessions -> {"idle", "validated", "numbered"}]
  /\ DOMAIN read = Sessions /\ DOMAIN request = Sessions
  /\ \A p \in Sessions : pc[p] # "idle" => read[p] \in Rows /\ request[p] \in Requests

\* The journal is numbered from 1 without a gap or a duplicate.
JournalIsNumbered ==
  /\ IsFiniteSet(journal)
  /\ Cardinality(journal) \in Nat \ {0}
  /\ \A t \in journal : t.sequence \in 1..Cardinality(journal)
  /\ \A n \in 1..Cardinality(journal) : \E t \in journal : t.sequence = n
  /\ \A t, u \in journal : t.sequence = u.sequence => t = u

\* The status a session has read was reached by a transition, and the number it
\* has taken is after it, and next to one of the journal.
ReadingsAreLogged ==
  \A p \in Sessions :
    /\ pc[p] = "validated" => \E t \in journal : t.to = read[p].status
    /\ pc[p] = "numbered" =>
         /\ \E t \in journal : t.sequence + 1 = request[p].sequence
         /\ \E t \in journal : t.to = read[p].status /\ t.sequence < request[p].sequence

\* The inductive invariant.
JournalInv ==
  /\ SessionsTypeOK /\ JournalIsNumbered /\ ReadingsAreLogged
  /\ StatusIsLastLogged /\ FromStatusWasReached
--------------------------------------------------------------------------------
(* Types.                                                                        *)

\* The initial row and journal have their types.
LEMMA InitSessionsTypeOK == Init => SessionsTypeOK
  BY SessionsAssumption
     DEF Init, SessionsTypeOK, Rows, Transitions, RecommendationStatus

\* What a commit writes has its type.
LEMMA CommitTypes ==
  ASSUME SessionsTypeOK, NEW p \in Sessions, pc[p] = "numbered",
         request[p].sequence \in Nat \ {0}
  PROVE  UpdatedRow(p) \in Rows /\ NewTransition(p) \in Transitions
<1>1. row \in Rows /\ read[p] \in Rows /\ request[p] \in Requests
  BY DEF SessionsTypeOK
<1>2. UpdatedPayload(p) \in Payloads
  BY <1>1 DEF UpdatedPayload, Rows, Requests, Payloads
<1>3. UpdatedRow(p) \in Rows
  BY <1>1, <1>2 DEF UpdatedRow, Rows, Requests
<1>4. NewTransition(p) \in Transitions
  BY <1>1 DEF NewTransition, Transitions, Rows, Requests
<1> QED
  BY <1>3, <1>4

\* A session that ends forgets what it has read.
LEMMA EndTypes ==
  ASSUME SessionsTypeOK, NEW p \in Sessions, End(p),
         row' \in Rows, journal' \subseteq Transitions
  PROVE  SessionsTypeOK'
  BY DEF SessionsTypeOK, End

\* Every step keeps the types.
LEMMA NextSessionsTypeOK ==
  ASSUME SessionsTypeOK, ReadingsAreLogged, [Next]_vars
  PROVE  SessionsTypeOK'
<1>1. ASSUME Sight PROVE SessionsTypeOK'
  <2>1. row' \in Rows
    BY <1>1, SessionsAssumption DEF Sight, SessionsTypeOK, Rows
  <2> QED
    BY <1>1, <2>1 DEF Sight, SessionsTypeOK
<1>2. ASSUME NEW p \in Sessions, NEW to \in RecommendationStatus, NEW comment \in BOOLEAN,
             NEW new \in Payloads, Validate(p, to, comment, new)
      PROVE  SessionsTypeOK'
  <2>1. [to |-> to, payload |-> new, sequence |-> 0] \in Requests
    BY DEF Requests
  <2> QED
    BY <1>2, <2>1 DEF Validate, SessionsTypeOK
<1>3. ASSUME NEW p \in Sessions, Number(p) PROVE SessionsTypeOK'
  <2>1. PICK last \in journal : request' = [request EXCEPT ![p].sequence = last.sequence + 1]
    BY <1>3 DEF Number
  <2>2. request[p] \in Requests /\ last.sequence \in Nat
    BY <1>3 DEF Number, SessionsTypeOK, Transitions
  <2>3. [request[p] EXCEPT !.sequence = last.sequence + 1] \in Requests
    BY <2>2 DEF Requests
  <2> QED
    BY <1>3, <2>1, <2>3 DEF Number, SessionsTypeOK
<1>4. ASSUME NEW p \in Sessions, Commit(p) PROVE SessionsTypeOK'
  <2>1. pc[p] = "numbered" /\ End(p) /\ row' = UpdatedRow(p)
        /\ journal' = journal \cup {NewTransition(p)}
    BY <1>4 DEF Commit
  <2>2. request[p].sequence \in Nat \ {0}
    BY <2>1 DEF ReadingsAreLogged, SessionsTypeOK, Transitions
  <2>3. UpdatedRow(p) \in Rows /\ NewTransition(p) \in Transitions
    BY <2>1, <2>2, CommitTypes
  <2>4. row' \in Rows /\ journal' \subseteq Transitions
    BY <2>1, <2>3 DEF SessionsTypeOK
  <2> QED
    BY <2>1, <2>4, EndTypes
<1>5. ASSUME NEW p \in Sessions, Conflict(p) PROVE SessionsTypeOK'
  BY <1>5, EndTypes DEF Conflict, SessionsTypeOK
<1>6. CASE UNCHANGED vars
  BY <1>6 DEF vars, SessionsTypeOK
<1> QED
  BY <1>1, <1>2, <1>3, <1>4, <1>5, <1>6 DEF Next
--------------------------------------------------------------------------------
(* The journal.                                                                  *)

\* The journal has a last transition.
LEMMA LastOfJournal ==
  ASSUME JournalIsNumbered
  PROVE  \E t \in journal : IsLast(t)
  BY DEF JournalIsNumbered, IsLast

\* A number that is still free at the commit is the next of the whole journal.
LEMMA FreeNumberIsNext ==
  ASSUME JournalIsNumbered, ReadingsAreLogged, NEW p \in Sessions,
         pc[p] = "numbered", ~SequenceTaken(p)
  PROVE  request[p].sequence = Cardinality(journal) + 1
<1>1. PICK t \in journal : t.sequence + 1 = request[p].sequence
  BY DEF ReadingsAreLogged
<1>2. t.sequence \in 1..Cardinality(journal) /\ Cardinality(journal) \in Nat
  BY DEF JournalIsNumbered
<1>3. request[p].sequence \notin 1..Cardinality(journal)
  BY DEF JournalIsNumbered, SequenceTaken
<1> QED
  BY <1>1, <1>2, <1>3

\* What a commit leaves of the journal: one more transition, the next in number.
LEMMA CommitAppends ==
  ASSUME JournalInv, NEW p \in Sessions, Commit(p)
  PROVE  /\ journal' = journal \cup {NewTransition(p)}
         /\ NewTransition(p).sequence = Cardinality(journal) + 1
         /\ Cardinality(journal') = Cardinality(journal) + 1
         /\ JournalIsNumbered'
<1> DEFINE new == NewTransition(p)
<1>1. /\ journal' = journal \cup {new}
      /\ new.sequence = Cardinality(journal) + 1
  BY FreeNumberIsNext DEF JournalInv, Commit, NewTransition
<1>2. /\ IsFiniteSet(journal) /\ Cardinality(journal) \in Nat \ {0}
      /\ \A t \in journal : t.sequence \in 1..Cardinality(journal)
  BY DEF JournalInv, JournalIsNumbered
<1>3. new \notin journal
  BY <1>1, <1>2
<1>4. IsFiniteSet(journal') /\ Cardinality(journal') = Cardinality(journal) + 1
  BY <1>1, <1>2, <1>3, FS_AddElement
<1>5. /\ \A n \in 1..Cardinality(journal) : \E t \in journal : t.sequence = n
      /\ \A t, u \in journal : t.sequence = u.sequence => t = u
  BY DEF JournalInv, JournalIsNumbered
<1> HIDE DEF new
<1>6. /\ Cardinality(journal') \in Nat \ {0}
      /\ \A t \in journal' : t.sequence \in 1..Cardinality(journal')
  <2>1. Cardinality(journal') \in Nat \ {0}
    BY <1>2, <1>4
  <2>2. \A t \in journal : t.sequence \in 1..(Cardinality(journal) + 1)
    BY <1>2
  <2>3. new.sequence \in 1..(Cardinality(journal) + 1)
    BY <1>1, <1>2
  <2> QED
    BY <1>1, <1>4, <2>1, <2>2, <2>3
<1>7. \A n \in 1..Cardinality(journal') : \E t \in journal' : t.sequence = n
  <2> TAKE n \in 1..Cardinality(journal')
  <2>1. n \in 1..Cardinality(journal) \/ n = Cardinality(journal) + 1
    BY <1>2, <1>4
  <2> QED
    BY <2>1, <1>1, <1>5
<1>8. \A t, u \in journal' : t.sequence = u.sequence => t = u
  <2>1. \A t \in journal : t.sequence # new.sequence
    BY <1>1, <1>2
  <2> QED
    BY <2>1, <1>1, <1>5
<1>9. JournalIsNumbered'
  BY <1>4, <1>6, <1>7, <1>8 DEF JournalIsNumbered
<1> QED
  BY <1>1, <1>4, <1>9 DEF new

\* A step that leaves row and journal alone keeps what is said of them alone.
LEMMA SameJournal ==
  ASSUME JournalInv, row'.status = row.status, journal' = journal
  PROVE  JournalIsNumbered' /\ StatusIsLastLogged' /\ FromStatusWasReached'
  BY DEF JournalInv, JournalIsNumbered, StatusIsLastLogged, FromStatusWasReached, IsLast

\* The journal starts with the proposal.
LEMMA InitJournalInv == Init => JournalInv
<1> SUFFICES ASSUME Init PROVE JournalInv
  OBVIOUS
<1> DEFINE first == [sequence |-> 1, from |-> "NONE", to |-> "PROPOSED", snapshot |-> 1,
                     previous |-> Null, resulting |-> Original]
<1>1. journal = {first} /\ first.sequence = 1 /\ first.to = "PROPOSED" /\ row.status = "PROPOSED"
  BY DEF Init
<1> HIDE DEF first
<1>2. IsFiniteSet(journal) /\ Cardinality(journal) = 1
  BY <1>1, FS_Singleton
<1>3. JournalIsNumbered
  BY <1>1, <1>2 DEF JournalIsNumbered
<1>4. StatusIsLastLogged /\ FromStatusWasReached
  BY <1>1 DEF StatusIsLastLogged, FromStatusWasReached
<1>5. ReadingsAreLogged
  BY DEF Init, ReadingsAreLogged
<1> QED
  BY <1>3, <1>4, <1>5, InitSessionsTypeOK DEF JournalInv

\* A request that is validated has read a status that the journal gave, and one
\* that is numbered takes the number after the last.
LEMMA ReadingKeepsLogged ==
  ASSUME JournalInv, NEW p \in Sessions,
         \/ \E to \in RecommendationStatus, comment \in BOOLEAN, new \in Payloads :
              Validate(p, to, comment, new)
         \/ Number(p)
  PROVE  ReadingsAreLogged'
<1>1. PICK last \in journal : IsLast(last)
  BY LastOfJournal DEF JournalInv
<1>2. ASSUME NEW to, NEW comment, NEW new, Validate(p, to, comment, new)
      PROVE  ReadingsAreLogged'
  <2>1. /\ journal' = journal
        /\ pc' = [pc EXCEPT ![p] = "validated"] /\ read' = [read EXCEPT ![p] = row]
        /\ \A q \in Sessions : q # p => request'[q] = request[q]
    BY <1>2 DEF Validate, JournalInv, SessionsTypeOK
  <2>2. last.to = row.status
    BY <1>1 DEF JournalInv, StatusIsLastLogged
  <2> QED
    BY <2>1, <2>2 DEF JournalInv, SessionsTypeOK, ReadingsAreLogged
<1>3. CASE Number(p)
  <2>1. PICK top \in journal :
          IsLast(top) /\ request' = [request EXCEPT ![p].sequence = top.sequence + 1]
    BY <1>3 DEF Number
  <2>2. /\ journal' = journal /\ read' = read
        /\ pc[p] = "validated" /\ pc' = [pc EXCEPT ![p] = "numbered"]
    BY <1>3 DEF Number
  <2>3. request[p] \in Requests /\ \A t \in journal : t.sequence \in Nat
    BY <2>2 DEF JournalInv, SessionsTypeOK, Transitions
  <2>4. request'[p].sequence = top.sequence + 1
    BY <2>1, <2>3 DEF JournalInv, SessionsTypeOK, Requests
  <2>5. \A t \in journal : t.sequence < request'[p].sequence
    BY <2>1, <2>3, <2>4 DEF IsLast
  <2>6. \E t \in journal : t.to = read[p].status
    BY <2>2 DEF JournalInv, ReadingsAreLogged
  <2>7. \A q \in Sessions : q # p => request'[q] = request[q] /\ pc'[q] = pc[q]
    BY <2>1, <2>2 DEF JournalInv, SessionsTypeOK
  <2>8. pc'[p] = "numbered"
    BY <2>2 DEF JournalInv, SessionsTypeOK
  <2> QED
    BY <2>1, <2>2, <2>4, <2>5, <2>6, <2>7, <2>8 DEF JournalInv, ReadingsAreLogged
<1> QED
  BY <1>2, <1>3

\* What the sessions have read stays logged when one of them ends, as the journal
\* loses nothing.
LEMMA EndKeepsLogged ==
  ASSUME JournalInv, NEW p \in Sessions, End(p), journal \subseteq journal'
  PROVE  ReadingsAreLogged'
<1>1. /\ pc'[p] = "idle"
      /\ \A q \in Sessions :
           q # p => pc'[q] = pc[q] /\ read'[q] = read[q] /\ request'[q] = request[q]
  BY DEF End, JournalInv, SessionsTypeOK
<1> QED
  BY <1>1 DEF JournalInv, ReadingsAreLogged

\* Every step keeps the invariant.
LEMMA NextJournalInv == JournalInv /\ [Next]_vars => JournalInv'
<1> SUFFICES ASSUME JournalInv, [Next]_vars PROVE JournalInv'
  OBVIOUS
<1>1. SessionsTypeOK'
  BY NextSessionsTypeOK DEF JournalInv
<1>2. CASE Sight
  <2>1. row'.status = row.status
    BY <1>2 DEF Sight, JournalInv, SessionsTypeOK, Rows
  <2>2. ReadingsAreLogged'
    BY <1>2 DEF Sight, JournalInv, ReadingsAreLogged
  <2> QED
    BY <1>1, <1>2, <2>1, <2>2, SameJournal DEF Sight, JournalInv
<1>3. ASSUME NEW p \in Sessions, NEW to \in RecommendationStatus, NEW comment \in BOOLEAN,
             NEW new \in Payloads, Validate(p, to, comment, new)
      PROVE  JournalInv'
  <2>1. ReadingsAreLogged'
    BY <1>3, ReadingKeepsLogged
  <2> QED
    BY <1>1, <1>3, <2>1, SameJournal DEF Validate, JournalInv
<1>4. ASSUME NEW p \in Sessions, Number(p) PROVE JournalInv'
  BY <1>1, <1>4, ReadingKeepsLogged, SameJournal DEF Number, JournalInv
<1>5. ASSUME NEW p \in Sessions, Conflict(p) PROVE JournalInv'
  <2>1. ReadingsAreLogged'
    BY <1>5, EndKeepsLogged DEF Conflict
  <2> QED
    BY <1>1, <1>5, <2>1, SameJournal DEF Conflict, JournalInv
<1>6. ASSUME NEW p \in Sessions, Commit(p) PROVE JournalInv'
  <2> DEFINE new == NewTransition(p)
  <2>1. /\ journal' = journal \cup {new}
        /\ new.sequence = Cardinality(journal) + 1
        /\ Cardinality(journal') = Cardinality(journal) + 1
        /\ JournalIsNumbered'
    BY <1>6, CommitAppends
  <2>2. pc[p] = "numbered" /\ End(p) /\ row' = UpdatedRow(p)
    BY <1>6 DEF Commit
  <2>3. ReadingsAreLogged'
    BY <2>1, <2>2, EndKeepsLogged
  <2>4. new.from = read[p].status /\ new.to = request[p].to
    BY DEF NewTransition
  <2>5. row'.status = new.to
    BY <2>2, <2>4 DEF UpdatedRow, JournalInv, SessionsTypeOK, Rows
  <2>6. \A t \in journal : t.sequence \in 1..Cardinality(journal)
    BY DEF JournalInv, JournalIsNumbered
  <2>7. Cardinality(journal) \in Nat
    BY DEF JournalInv, JournalIsNumbered
  <2>8. StatusIsLastLogged'
    <3> SUFFICES ASSUME NEW t \in journal', IsLast(t)' PROVE t.to = row'.status
      BY DEF StatusIsLastLogged
    <3>1. t.sequence = Cardinality(journal) + 1
      BY <2>1, <2>6, <2>7 DEF IsLast
    <3>2. t = new
      BY <2>1, <2>6, <2>7, <3>1
    <3> QED
      BY <2>5, <3>2
  <2>9. \E u \in journal : u.to = new.from /\ u.sequence < new.sequence
    BY <2>2, <2>4 DEF JournalInv, ReadingsAreLogged, NewTransition
  <2>10. FromStatusWasReached'
    BY <2>1, <2>9 DEF JournalInv, FromStatusWasReached
  <2> QED
    BY <1>1, <2>1, <2>3, <2>8, <2>10 DEF JournalInv
<1>7. CASE UNCHANGED vars
  <2>1. ReadingsAreLogged'
    BY <1>7 DEF vars, JournalInv, ReadingsAreLogged
  <2> QED
    BY <1>1, <1>7, <2>1, SameJournal DEF vars, JournalInv
<1> QED
  BY <1>2, <1>3, <1>4, <1>5, <1>6, <1>7 DEF Next
--------------------------------------------------------------------------------
(* The properties.                                                               *)

\* The journal is numbered, in step with the row, in every state.
THEOREM JournalInvariant == Spec => []JournalInv
  BY InitJournalInv, NextJournalInv, PTL DEF Spec

\* For any number of sessions, the recommendation has the status that its last
\* transition gave it.
THEOREM StatusIsLastLoggedHolds == Spec => []StatusIsLastLogged
<1>1. JournalInv => StatusIsLastLogged
  BY DEF JournalInv
<1> QED
  BY <1>1, JournalInvariant, PTL

\* For any number of sessions, a transition starts from a status that an earlier
\* one had reached.
THEOREM FromStatusWasReachedHolds == Spec => []FromStatusWasReached
<1>1. JournalInv => FromStatusWasReached
  BY DEF JournalInv
<1> QED
  BY <1>1, JournalInvariant, PTL

\* For any columns and any number of sessions that merge them, each column has the
\* value that the last transition to give it one says it has.
THEOREM JournalExplainsPayloadHolds == Spec => []JournalExplainsPayload
<1>1. Init => JournalExplainsPayload
  BY SessionsAssumption DEF Init, JournalExplainsPayload, Gives
<1>2. JournalInv /\ JournalExplainsPayload /\ [Next]_vars => JournalExplainsPayload'
  <2> SUFFICES ASSUME JournalInv, JournalExplainsPayload, [Next]_vars
               PROVE  JournalExplainsPayload'
    OBVIOUS
  <2>1. ASSUME row'.payload = row.payload, journal' = journal
        PROVE  JournalExplainsPayload'
    BY <2>1 DEF JournalExplainsPayload, Gives
  <2>2. CASE Sight
    <3>1. row'.payload = row.payload
      BY <2>2 DEF Sight, JournalInv, SessionsTypeOK, Rows
    <3> QED
      BY <2>1, <2>2, <3>1 DEF Sight
  <2>3. ASSUME NEW p \in Sessions, Commit(p) PROVE JournalExplainsPayload'
    <3> DEFINE new == NewTransition(p)
    <3>1. row'.payload = UpdatedPayload(p)
      BY <2>3 DEF Commit, UpdatedRow, JournalInv, SessionsTypeOK, Rows
    <3>2. /\ journal' = journal \cup {new}
          /\ new.sequence = Cardinality(journal) + 1
      BY <2>3, CommitAppends
    <3>3. /\ Cardinality(journal) \in Nat
          /\ \A t \in journal : t.sequence \in 1..Cardinality(journal)
      BY DEF JournalInv, JournalIsNumbered
    <3>4. \A t \in journal' : t.sequence <= new.sequence
      BY <3>2, <3>3
    <3>5. /\ new.from \in RecommendationStatus
          /\ new.previous = read[p].payload /\ new.resulting = request[p].payload
      BY <2>3 DEF Commit, NewTransition, JournalInv, SessionsTypeOK, Rows
    <3>6. \A c : Gives(new, c) <=> request[p].payload[c] # read[p].payload[c]
      BY <3>5 DEF Gives, RecommendationStatus
    <3> HIDE DEF new
    <3> SUFFICES ASSUME NEW c \in Columns
                 PROVE  \E t \in journal' :
                          /\ Gives(t, c) /\ t.resulting[c] = row'.payload[c]
                          /\ \A u \in journal' : Gives(u, c) => u.sequence <= t.sequence
      BY DEF JournalExplainsPayload, Gives
    <3>7. CASE Gives(new, c)
      <4>1. row'.payload[c] = new.resulting[c]
        BY <3>1, <3>5, <3>6, <3>7 DEF UpdatedPayload
      <4> QED
        BY <3>2, <3>4, <3>7, <4>1
    <3>8. CASE ~Gives(new, c)
      <4>1. row'.payload[c] = row.payload[c]
        BY <3>1, <3>6, <3>8 DEF UpdatedPayload
      <4> QED
        BY <3>2, <3>8, <4>1 DEF JournalExplainsPayload
    <3> QED
      BY <3>7, <3>8
  <2> QED
    BY <2>1, <2>2, <2>3 DEF Next, vars, Validate, Number, Conflict
<1> QED
  BY <1>1, <1>2, JournalInvariant, PTL DEF Spec

\* For any number of sessions, the journal only grows, by the next number.
THEOREM JournalIsAppendOnlyHolds == Spec => JournalIsAppendOnly
<1>1. ASSUME JournalInv, [Next]_vars
      PROVE  /\ journal \subseteq journal'
             /\ \A t \in journal' \ journal : t.sequence = Cardinality(journal) + 1
  <2>1. ASSUME NEW p \in Sessions, Commit(p)
        PROVE  /\ journal \subseteq journal'
               /\ \A t \in journal' \ journal : t.sequence = Cardinality(journal) + 1
    BY <1>1, <2>1, CommitAppends
  <2> QED
    BY <1>1, <2>1 DEF Next, vars, Sight, Validate, Number, Conflict
<1> QED
  BY <1>1, JournalInvariant, PTL DEF Spec, JournalIsAppendOnly

\* For any number of sessions, no commit undoes a sighting made since it read.
THEOREM SightingsAreKeptHolds == Spec => SightingsAreKept
<1>1. ASSUME JournalInv, [Next]_vars
      PROVE  row'.lastSeen >= row.lastSeen
  <2>1. row \in Rows /\ row.lastSeen \in Nat
    BY <1>1, SessionsAssumption DEF JournalInv, SessionsTypeOK, Rows
  <2>2. CASE Sight
    BY <2>1, <2>2 DEF Sight, Rows
  <2>3. ASSUME NEW p \in Sessions, Commit(p) PROVE row'.lastSeen = row.lastSeen
    BY <2>1, <2>3 DEF Commit, UpdatedRow, Rows
  <2>4. CASE row' = row
    BY <2>1, <2>4
  <2> QED
    BY <1>1, <2>1, <2>2, <2>3, <2>4 DEF Next, vars, Validate, Number, Conflict
<1> QED
  BY <1>1, JournalInvariant, PTL DEF Spec, SightingsAreKept
================================================================================
