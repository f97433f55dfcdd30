------------------------ MODULE RecommendationSessions ------------------------
(****************************************************************************)
(* transition_recommendation as concurrent requests run it.  FastAPI serves *)
(* each request in a thread with a Session of its own; with autoflush off   *)
(* the row and the greatest sequence are read outside any transaction, and  *)
(* the UPDATE of the row and the INSERT of its transition are one SQLite    *)
(* transaction at the final commit.  Nothing is locked and nothing is read  *)
(* again in between: only the unique constraint on (recommendation_id,      *)
(* sequence) can refuse a commit.                                           *)
(*                                                                          *)
(* One recommendation is modelled: the requests on two do not interact.     *)
(****************************************************************************)
EXTENDS Naturals, FiniteSets, RecommendationWorkflow

CONSTANTS
  Sessions,      \* threads serving requests
  Original,      \* the payload of the proposal
  MaxSightings,  \* bound: snapshots on which syncs see the risk
  Null           \* SQL NULL, and the empty local of an idle session

ASSUME SessionsAssumption ==
  /\ Original \in Payloads
  /\ MaxSightings \in Nat \ {0}

VARIABLES
  row,      \* the recommendation: status, payload, last seen snapshot
  journal,  \* its committed transitions
  pc,       \* where each session's request is
  read,     \* the row it has read
  request   \* the status it asks for, the payload it has built, its sequence

vars == <<row, journal, pc, read, request>>

Rows == [status : RecommendationStatus, payload : Payloads, lastSeen : 1..MaxSightings]

Requests == [to : RecommendationStatus, payload : Payloads, sequence : Nat]

Transitions == [sequence : Nat \ {0},
                from : RecommendationStatus \cup {"NONE"},
                to : RecommendationStatus,
                snapshot : 1..MaxSightings,
                previous : Payloads \cup {Null},
                resulting : Payloads]

IsLast(t) == t \in journal /\ \A u \in journal : u.sequence <= t.sequence
-------------------------------------------------------------------------------

\* The recommendation has just been proposed by a sync.
Init ==
  /\ row = [status |-> "PROPOSED", payload |-> Original, lastSeen |-> 1]
  /\ journal = {[sequence |-> 1, from |-> "NONE", to |-> "PROPOSED", snapshot |-> 1,
                 previous |-> Null, resulting |-> Original]}
  /\ pc = [p \in Sessions |-> "idle"]
  /\ read = [p \in Sessions |-> Null]
  /\ request = [p \in Sessions |-> Null]

\* The row is read and the request validated against it; a refused request
\* ends there.
Validate(p, to, comment, new) ==
  /\ pc[p] = "idle"
  /\ to \in AllowedTransitions[row.status]
  /\ CommentGiven(to, comment)
  /\ PayloadChange(to, row.payload, new)
  /\ pc' = [pc EXCEPT ![p] = "validated"]
  /\ read' = [read EXCEPT ![p] = row]
  /\ request' = [request EXCEPT ![p] = [to |-> to, payload |-> new, sequence |-> 0]]
  /\ UNCHANGED <<row, journal>>

\* _append_transition reads the greatest sequence, in a statement of its own.
Number(p) ==
  /\ pc[p] = "validated"
  /\ pc' = [pc EXCEPT ![p] = "numbered"]
  /\ \E last \in journal :
       /\ IsLast(last)
       /\ request' = [request EXCEPT ![p].sequence = last.sequence + 1]
  /\ UNCHANGED <<row, journal, read>>

\* Fault: from_status is read after the row has been given its new status.
NewTransitionAfterUpdate(p) ==
  [sequence |-> request[p].sequence,
   from |-> request[p].to,
   to |-> request[p].to,
   snapshot |-> read[p].lastSeen,
   previous |-> read[p].payload,
   resulting |-> request[p].payload]

\* The transition that session p adds to the journal.
NewTransition(p) ==
  [sequence |-> request[p].sequence,
   from |-> read[p].status,
   to |-> request[p].to,
   snapshot |-> read[p].lastSeen,
   previous |-> read[p].payload,
   resulting |-> request[p].payload]

\* Fault: the columns the session has not changed are written as it read them.
PayloadAsBuilt(p) == request[p].payload

\* The UPDATE sets the columns whose value the session has changed, each on its
\* own, and leaves the others as the row has them by now.
UpdatedPayload(p) ==
  [c \in Columns |-> IF request[p].payload[c] # read[p].payload[c]
                     THEN request[p].payload[c] ELSE row.payload[c]]

\* Fault: every column is written as it was read.
WholeRow(p) == [read[p] EXCEPT !.status = request[p].to, !.payload = request[p].payload]

UpdatedRow(p) == [row EXCEPT !.status = request[p].to, !.payload = UpdatedPayload(p)]

\* Fault: the table has no unique constraint.
SequenceUnchecked(p) == FALSE

SequenceTaken(p) == \E t \in journal : t.sequence = request[p].sequence

End(p) ==
  /\ pc' = [pc EXCEPT ![p] = "idle"]
  /\ read' = [read EXCEPT ![p] = Null]
  /\ request' = [request EXCEPT ![p] = Null]

Commit(p) ==
  /\ pc[p] = "numbered"
  /\ ~SequenceTaken(p)
  /\ row' = UpdatedRow(p)
  /\ journal' = journal \cup {NewTransition(p)}
  /\ End(p)

\* Fault: the row is committed before its transition.
ConflictAfterUpdate(p) ==
  /\ pc[p] = "numbered"
  /\ SequenceTaken(p)
  /\ row' = UpdatedRow(p)
  /\ End(p)
  /\ UNCHANGED journal

\* IntegrityError: the whole transaction is rolled back.
Conflict(p) ==
  /\ pc[p] = "numbered"
  /\ SequenceTaken(p)
  /\ End(p)
  /\ UNCHANGED <<row, journal>>

\* A sync sees the risk on the next snapshot.
Sight ==
  /\ row.lastSeen < MaxSightings
  /\ row' = [row EXCEPT !.lastSeen = @ + 1]
  /\ UNCHANGED <<journal, pc, read, request>>

Next ==
  \/ Sight
  \/ \E p \in Sessions :
       \/ \E to \in RecommendationStatus, comment \in BOOLEAN, new \in Payloads :
            Validate(p, to, comment, new)
       \/ Number(p)
       \/ Commit(p)
       \/ Conflict(p)

Spec == Init /\ [][Next]_vars
-------------------------------------------------------------------------------
(* Properties that the unique constraint is enough for.                        *)

\* The status of the recommendation is the one its last transition gave it:
\* a session whose number was taken meanwhile has not moved the status either.
StatusIsLastLogged == \A t \in journal : IsLast(t) => t.to = row.status

\* The status a transition starts from had been reached by an earlier one.
FromStatusWasReached ==
  \A t \in journal : t.sequence > 1 =>
    \E u \in journal : u.sequence < t.sequence /\ u.to = t.from

\* The transitions that have given a column its value: the proposal, and those
\* whose payload differs in it from the one they started from.
Gives(t, c) == t.from = "NONE" \/ t.resulting[c] # t.previous[c]

\* Whatever the requests that go through change at once, a column has the value
\* that the last transition to give it one says it has.  (No single transition
\* need hold the whole payload, nor even the title and the description of the
\* row: the UPDATE merges the columns of two sessions, the journal does not.)
JournalExplainsPayload ==
  \A c \in Columns : \E t \in journal :
    /\ Gives(t, c) /\ t.resulting[c] = row.payload[c]
    /\ \A u \in journal : Gives(u, c) => u.sequence <= t.sequence

\* A committed transition is never changed nor removed, and only the next number
\* is ever added: 1, 2, 3... without a gap or a duplicate, whatever the order in
\* which the sessions read, number and commit.
JournalIsAppendOnly ==
  [][/\ journal \subseteq journal'
     /\ \A t \in journal' \ journal : t.sequence = Cardinality(journal) + 1]_vars

\* A human request never undoes the sighting that a sync has recorded meanwhile.
SightingsAreKept == [][row'.lastSeen >= row.lastSeen]_vars
-------------------------------------------------------------------------------
(* What the repository states and concurrent requests break.                   *)

\* REJECTED and COMPLETED are terminal.
TerminalIsFinal ==
  [][row.status \in {"REJECTED", "COMPLETED"} => row'.status = row.status]_vars
===============================================================================
