------------------------------ MODULE ReviewChains ------------------------------
(*****************************************************************************)
(* The human answers to a snapshot: reviews of its Decision Brief            *)
(* (decision_brief_service.py) and decisions on its risks                    *)
(* (risk_decision_service.py), while the project of QaProject is analysed and*)
(* loaded anew.                                                              *)
(*                                                                           *)
(* Each run of the dashboard's script, that of a submit included, fetches the*)
(* latest brief and posts its snapshot_id; other clients answer whatever they*)
(* have fetched before.  The id of a snapshot is a digest of its input, so   *)
(* its result stands for it: it is the same when the same data is loaded and *)
(* analysed again.  The answers to a snapshot, or to a risk of it, are linked*)
(* by previous.  With autoflush off the SELECTs of a request are not in the  *)
(* transaction of its insertion.                                             *)
(*****************************************************************************)
EXTENDS QaProject

CONSTANTS
  Users,       \* clients: runs of the dashboard's script or others of the API
  NoAnswer,    \* no answer in hand
  MaxAnswers   \* bound: answers dated

VARIABLES
  reviews,    \* rows of qa_decision_reviews
  decisions,  \* rows of risk_decisions
  answers,    \* answers dated so far: the clock of created_at
  stage,      \* where each user is
  work        \* the row it is building

reviewVars == <<reviews, decisions, answers, stage, work>>

ASSUME ReviewAssumption == MaxAnswers \in Nat

\* previous is the created_at of the row before; the subject is a snapshot, or a
\* risk of one.  What is answered makes no difference to how rows are linked.
Answer(subject, createdAt, previous) ==
  [subject |-> subject, createdAt |-> createdAt, previous |-> previous]

OnSnapshot(result) == [snapshot |-> result, risk |-> {}]
OnRisk(result, risk) == [snapshot |-> result, risk |-> {risk}]

OfSubject(rows, subject) == {row \in rows : row.subject = subject}

\* The latest by created_at, Null when there is none.
LatestAnswer(rows) ==
  IF rows = {} THEN Null ELSE Max({row.createdAt : row \in rows})

IsStored(result, rows) == \E row \in rows : row.result = result

ReviewInit ==
  /\ ProjectInit
  /\ reviews = {} /\ decisions = {}
  /\ answers = 0
  /\ stage = [u \in Users |-> "idle"]
  /\ work = [u \in Users |-> NoAnswer]
--------------------------------------------------------------------------------

\* Fault: the foreign keys do not cascade.
KeepAnswers(rows, left) == rows

\* ON DELETE CASCADE: with a snapshot and its risks go the answers to them.
Cascade(rows, left) == {row \in rows : IsStored(row.subject.snapshot, left)}

ProjectStep ==
  /\ ProjectNext
  /\ reviews' = Cascade(reviews, snapshots')
  /\ decisions' = Cascade(decisions, snapshots')
  /\ UNCHANGED <<answers, stage, work>>

Advance(u, next, row) ==
  /\ stage' = [stage EXCEPT ![u] = next]
  /\ work' = [work EXCEPT ![u] = row]
  /\ UNCHANGED <<projectVars, reviews, decisions>>

\* The latest snapshot of a scope is fetched, with its brief or its risks.
Fetch(u, sprint) ==
  /\ stage[u] = "idle"
  /\ OfScope(snapshots, sprint) # {}
  /\ LET s == LatestRow(OfScope(snapshots, sprint)).result
     IN  Advance(u, "fetched", Answer(OnSnapshot(s), Null, Null))
  /\ UNCHANGED answers

\* The human does not answer, or the snapshot is gone by then: a 404.
Leave(u) ==
  /\ stage[u] = "fetched"
  /\ Advance(u, "idle", NoAnswer)
  /\ UNCHANGED answers

\* review_decision finds the snapshot that is posted.
FindSnapshot(u) ==
  /\ stage[u] = "fetched"
  /\ IsStored(work[u].subject.snapshot, snapshots)
  /\ Advance(u, "found", work[u])
  /\ UNCHANGED answers

\* Then reads its rows to make its brief again, which must hold a suggestion; of
\* rows that are gone by then it finds some or none.
ReadBrief(u) ==
  /\ stage[u] = "found"
  /\ LET s == work[u].subject.snapshot
     IN  IsStored(s, snapshots) => Suggestion(Datasets[data], s) # "error"
  /\ Advance(u, "read", work[u])
  /\ UNCHANGED answers

\* An error ends the request.
BriefFails(u) ==
  /\ stage[u] = "found"
  /\ LET s == work[u].subject.snapshot
     IN  IsStored(s, snapshots) => Suggestion(Datasets[data], s) = "error"
  /\ Advance(u, "idle", NoAnswer)
  /\ UNCHANGED answers

\* create_decision finds the risk that is posted.
ReadRisk(u, risk) ==
  LET s == work[u].subject.snapshot
  IN  /\ stage[u] = "fetched"
      /\ risk \in s.findings /\ IsStored(s, snapshots)
      /\ Advance(u, "read", Answer(OnRisk(s, risk), Null, Null))
      /\ UNCHANGED answers

IsReview(row) == row.subject.risk = {}

RowsFor(row) == IF IsReview(row) THEN reviews ELSE decisions

\* Fault: the latest answer to any snapshot or risk is taken for the one before.
LinkToAny(u) ==
  /\ stage[u] = "read"
  /\ Advance(u, "linked", Answer(work[u].subject, Null, LatestAnswer(RowsFor(work[u]))))
  /\ UNCHANGED answers

\* The latest answer to the snapshot or the risk is looked up.
Link(u) ==
  /\ stage[u] = "read"
  /\ LET earlier == OfSubject(RowsFor(work[u]), work[u].subject)
     IN  Advance(u, "linked", Answer(work[u].subject, Null, LatestAnswer(earlier)))
  /\ UNCHANGED answers

\* Then the answer is dated.
Date(u) ==
  /\ stage[u] = "linked" /\ answers < MaxAnswers
  /\ answers' = answers + 1
  /\ Advance(u, "dated", Answer(work[u].subject, answers + 1, work[u].previous))

\* The foreign keys of a new row: its snapshot or risk, and the row before.
Referable(row, rows) ==
  /\ IsStored(row.subject.snapshot, snapshots)
  /\ row.previous \in {Null} \cup {other.createdAt : other \in rows}

FinishAnswer(u) ==
  /\ stage[u] = "dated"
  /\ stage' = [stage EXCEPT ![u] = "idle"]
  /\ work' = [work EXCEPT ![u] = NoAnswer]
  /\ UNCHANGED <<projectVars, answers>>

\* Fault: one review is kept for each snapshot.
ReplaceReview(u) ==
  /\ FinishAnswer(u)
  /\ IsReview(work[u]) /\ Referable(work[u], reviews)
  /\ reviews' = (reviews \ OfSubject(reviews, work[u].subject)) \cup {work[u]}
  /\ UNCHANGED decisions

CommitReview(u) ==
  /\ FinishAnswer(u)
  /\ IsReview(work[u]) /\ Referable(work[u], reviews)
  /\ reviews' = reviews \cup {work[u]}
  /\ UNCHANGED decisions

CommitDecision(u) ==
  /\ FinishAnswer(u)
  /\ ~IsReview(work[u]) /\ Referable(work[u], decisions)
  /\ decisions' = decisions \cup {work[u]}
  /\ UNCHANGED reviews

\* An IntegrityError: the request fails and nothing is stored.
AnswerFails(u) ==
  /\ FinishAnswer(u)
  /\ ~Referable(work[u], RowsFor(work[u]))
  /\ UNCHANGED <<reviews, decisions>>

Read(u) ==
  \/ FindSnapshot(u) \/ ReadBrief(u) \/ BriefFails(u)
  \/ /\ stage[u] = "fetched"
     /\ \E risk \in work[u].subject.snapshot.findings : ReadRisk(u, risk)

UserStep(u) ==
  \/ \E sprint \in Scopes : Fetch(u, sprint)
  \/ Leave(u) \/ Read(u) \/ Link(u) \/ Date(u)
  \/ CommitReview(u) \/ CommitDecision(u) \/ AnswerFails(u)

ReviewNext == ProjectStep \/ \E u \in Users : UserStep(u)

ReviewSpec == ReviewInit /\ [][ReviewNext]_<<projectVars, reviewVars>>
--------------------------------------------------------------------------------
(* Properties.                                                                 *)

\* Every answer is about a snapshot that is there: one read before a reset is
\* stored after it only if its snapshot has been stored again, and no answer
\* outlives the snapshot it is about.
AnswersHaveTheirSnapshot ==
  \A row \in reviews \cup decisions : IsStored(row.subject.snapshot, snapshots)

\* However the requests interleave, the row an answer is linked to is an earlier
\* one on the same subject, never one on another or one that is gone.
ChainsAreSound ==
  \A rows \in {reviews, decisions} : \A row \in rows :
    row.previous # Null =>
      \E other \in OfSubject(rows, row.subject) :
        other.createdAt = row.previous /\ other.createdAt < row.createdAt

\* Of answers given one at a time each is linked to the one before it, so that
\* the chain of a subject leads from the latest answer to all the others.
ChainsAreLinear ==
  \A rows \in {reviews, decisions} : \A row \in rows :
    row.previous = LatestAnswer(
      {other \in OfSubject(rows, row.subject) : other.createdAt < row.createdAt})

\* What a human has answered is neither changed nor lost as long as its snapshot
\* is there.
AnswersStay ==
  [][\A row \in reviews \cup decisions :
       row \in reviews' \cup decisions' \/ ~IsStored(row.subject.snapshot, snapshots')]_<<projectVars, reviewVars>>
================================================================================
