--------------------------- MODULE ReviewChainsProofs ---------------------------
(*****************************************************************************)
(* The answers of humans, for any number of users, payloads and answers.     *)
(* Between the reading of the latest answer, the dating of the new one and   *)
(* its insertion other answers are inserted and rows are deleted by a reset. *)
(* What keeps a chain sound is that created_at is never used again: the row a*)
(* pending answer refers to can be gone by then, but never be one on another *)
(* subject.  When the requests of MCReviewChains come one at a time, nothing *)
(* branches either.                                                          *)
(* The last part is about what is answered: the brief is made again when an  *)
(* answer is stored, and suggests the same of the same result, because that  *)
(* holds the facts the suggestion is made of.                                *)
(*****************************************************************************)
EXTENDS MCReviewChains, QaProjectProofs

Committed == reviews \cup decisions
Linked(u) == stage[u] \in {"linked", "dated"}
Dated(u) == stage[u] = "dated"

\* created_at tells all answers apart, those not yet inserted included.
DatesAreDistinct ==
  /\ \A row \in Committed : row.createdAt \in 1..answers
  /\ \A row, other \in Committed : row.createdAt = other.createdAt => row = other
  /\ \A u \in Users : Dated(u) =>
       /\ work[u].createdAt \in 1..answers
       /\ \A row \in Committed : row.createdAt # work[u].createdAt
  /\ \A u, v \in Users :
       Dated(u) /\ Dated(v) /\ work[u].createdAt = work[v].createdAt => u = v

\* An answer in hand refers to an earlier one that has been committed, and if it is
\* still there it is on the same subject.
LinksAreSound ==
  \A u \in Users : Linked(u) =>
    /\ work[u].previous \in 0..answers
    /\ Dated(u) => work[u].previous < work[u].createdAt
    /\ \A row \in Committed :
         row.createdAt = work[u].previous => row.subject = work[u].subject
    /\ \A v \in Users : Dated(v) => work[u].previous # work[v].createdAt

Stages == {"idle", "fetched", "found", "read", "linked", "dated"}

\* The inductive invariant.
ChainInv ==
  /\ answers \in Nat
  /\ stage \in [Users -> Stages] /\ DOMAIN work = Users
  /\ DatesAreDistinct /\ LinksAreSound
  /\ ChainsAreSound
--------------------------------------------------------------------------------
(* What the steps do to the answers.                                           *)

\* The latest of some answers is one of them, or Null.
LEMMA LatestAnswerIsOne ==
  ASSUME NEW n \in Nat, NEW rows, \A row \in rows : row.createdAt \in 1..n
  PROVE  \/ LatestAnswer(rows) = Null
         \/ \E row \in rows : row.createdAt = LatestAnswer(rows)
<1> DEFINE S == {row.createdAt : row \in rows}
<1>1. CASE rows = {}
  BY <1>1 DEF LatestAnswer
<1>2. CASE rows # {}
  <2>1. S \in SUBSET (1..n)
    OBVIOUS
  <2>2. S # {}
    BY <1>2
  <2>3. Max(S) \in S
    <3>1. S \in SUBSET Int
      OBVIOUS
    <3> HIDE DEF S
    <3>2. IsFiniteSet(S)
      BY <2>1, IntervalIsFinite
    <3> QED
      BY <2>2, <3>1, <3>2, MaxIsElement
  <2>4. LatestAnswer(rows) = Max(S)
    BY <1>2 DEF LatestAnswer
  <2> QED
    BY <2>3, <2>4
<1> QED
  BY <1>1, <1>2

\* What comes before the latest answer is looked up.
LEMMA AdvanceKeepsChains ==
  ASSUME ChainInv, NEW u \in Users, ~Linked(u), NEW next \in Stages \ {"linked", "dated"},
         NEW row, Advance(u, next, row), answers' = answers
  PROVE  ChainInv'
<1> USE DEF ChainInv
<1>1. /\ answers \in Nat /\ stage' = [stage EXCEPT ![u] = next]
      /\ work' = [work EXCEPT ![u] = row]
      /\ reviews' = reviews /\ decisions' = decisions /\ Committed' = Committed
  BY DEF Advance, Committed
<1>2. /\ ~Linked(u)' /\ ~Dated(u)' /\ ~Dated(u)
      /\ \A v \in Users : v # u => /\ (Linked(v)' <=> Linked(v)) /\ (Dated(v)' <=> Dated(v))
                                 /\ work'[v] = work[v]
  BY <1>1 DEF Linked, Dated
<1>3. DatesAreDistinct'
  BY <1>1, <1>2 DEF DatesAreDistinct
<1>4. LinksAreSound'
  BY <1>1, <1>2 DEF LinksAreSound
<1>5. ChainsAreSound'
  BY <1>1 DEF ChainsAreSound, OfSubject
<1> QED
  BY <1>1, <1>3, <1>4, <1>5 DEF Stages

\* The latest answer to a subject has been committed and is on it.
LEMMA LinkKeepsChains ==
  ASSUME ChainInv, NEW u \in Users, Link(u)
  PROVE  ChainInv'
<1> USE DEF ChainInv
<1> DEFINE rows == RowsFor(work[u])
           latest == LatestAnswer(OfSubject(rows, work[u].subject))
           row == Answer(work[u].subject, Null, latest)
<1>1. /\ answers' = answers /\ answers \in Nat /\ stage[u] = "read"
      /\ stage' = [stage EXCEPT ![u] = "linked"] /\ work' = [work EXCEPT ![u] = row]
      /\ reviews' = reviews /\ decisions' = decisions /\ Committed' = Committed
  BY DEF Link, Advance, Committed
<1>2. /\ Linked(u)' /\ ~Dated(u)' /\ ~Dated(u)
      /\ work'[u].previous = latest /\ work'[u].subject = work[u].subject
      /\ \A v \in Users : v # u => /\ (Linked(v)' <=> Linked(v)) /\ (Dated(v)' <=> Dated(v))
                                 /\ work'[v] = work[v]
  BY <1>1 DEF Linked, Dated, Answer
<1>3. \/ latest = 0
      \/ \E other \in OfSubject(rows, work[u].subject) : other.createdAt = latest
  <2>1. \A other \in OfSubject(rows, work[u].subject) : other.createdAt \in 1..answers
    BY DEF DatesAreDistinct, OfSubject, Committed, RowsFor
  <2> QED
    BY <1>1, <2>1, LatestAnswerIsOne DEF Null
<1> HIDE DEF row, latest
<1> DEFINE IsBefore(date) ==
      /\ date \in 0..answers
      /\ \A other \in Committed : other.createdAt = date => other.subject = work[u].subject
      /\ \A v \in Users : Dated(v) => date # work[v].createdAt
<1>4. IsBefore(latest)
  <2>1. CASE latest = 0
    BY <1>1, <2>1 DEF DatesAreDistinct
  <2>2. ASSUME NEW other \in OfSubject(rows, work[u].subject), other.createdAt = latest
        PROVE  IsBefore(latest)
    <3>1. other \in Committed /\ other.subject = work[u].subject
      BY DEF OfSubject, Committed, RowsFor
    <3> QED
      BY <1>1, <2>2, <3>1 DEF DatesAreDistinct
  <2> QED
    BY <1>3, <2>1, <2>2
<1>5. DatesAreDistinct'
  BY <1>1, <1>2 DEF DatesAreDistinct
<1>6. LinksAreSound'
  BY <1>1, <1>2, <1>4 DEF LinksAreSound
<1>7. ChainsAreSound'
  BY <1>1 DEF ChainsAreSound, OfSubject
<1> QED
  BY <1>1, <1>5, <1>6, <1>7 DEF Stages

\* A row is dated after all there is and all it can refer to.
LEMMA DateKeepsChains ==
  ASSUME ChainInv, NEW u \in Users, Date(u)
  PROVE  ChainInv'
<1> USE DEF ChainInv
<1> DEFINE row == Answer(work[u].subject, answers + 1, work[u].previous)
<1>1. /\ answers' = answers + 1 /\ answers \in Nat /\ stage[u] = "linked"
      /\ stage' = [stage EXCEPT ![u] = "dated"] /\ work' = [work EXCEPT ![u] = row]
      /\ reviews' = reviews /\ decisions' = decisions /\ Committed' = Committed
  BY DEF Date, Advance, Committed
<1>2. /\ Linked(u) /\ Dated(u)'
      /\ work'[u].previous = work[u].previous /\ work'[u].subject = work[u].subject
      /\ \A v \in Users : v # u => /\ (Linked(v)' <=> Linked(v)) /\ (Dated(v)' <=> Dated(v))
                                 /\ work'[v] = work[v]
  BY <1>1 DEF Linked, Dated, Answer
<1>3. work'[u].createdAt = answers + 1
  BY <1>1 DEF Answer
<1> HIDE DEF row
<1>5. DatesAreDistinct'
  BY <1>1, <1>2, <1>3 DEF DatesAreDistinct
<1>6. LinksAreSound'
  BY <1>1, <1>2, <1>3 DEF LinksAreSound
<1>7. ChainsAreSound'
  BY <1>1 DEF ChainsAreSound, OfSubject
<1> QED
  BY <1>1, <1>5, <1>6, <1>7 DEF Stages

\* A row that is committed, or not, leaves the dates distinct and the links of the
\* others sound.
LEMMA FinishKeepsDates ==
  ASSUME ChainInv, NEW u \in Users, Dated(u), FinishAnswer(u),
         Committed' \subseteq Committed \cup {work[u]}
  PROVE  /\ answers' \in Nat /\ DOMAIN work' = Users
         /\ stage' \in [Users -> Stages]
         /\ DatesAreDistinct' /\ LinksAreSound'
<1> USE DEF ChainInv
<1>1. /\ answers' = answers /\ answers \in Nat
      /\ stage' = [stage EXCEPT ![u] = "idle"] /\ work' = [work EXCEPT ![u] = NoAnswer]
  BY DEF FinishAnswer
<1>2. /\ ~Linked(u)' /\ ~Dated(u)'
      /\ \A v \in Users : v # u => /\ (Linked(v)' <=> Linked(v)) /\ (Dated(v)' <=> Dated(v))
                                 /\ work'[v] = work[v]
  BY <1>1 DEF Linked, Dated
<1>3. DatesAreDistinct'
  BY <1>1, <1>2 DEF DatesAreDistinct
<1>4. LinksAreSound'
  BY <1>1, <1>2 DEF LinksAreSound, Linked, Dated
<1> QED
  BY <1>1, <1>3, <1>4 DEF Stages

\* The foreign key of a new row leads to an earlier answer on its subject.
LEMMA CommitKeepsChains ==
  ASSUME ChainInv, NEW u \in Users, Dated(u), NEW rows \in {reviews, decisions},
         Referable(work[u], rows), NEW row \in rows \cup {work[u]}, row.previous # Null
  PROVE  \E other \in OfSubject(rows \cup {work[u]}, row.subject) :
           other.createdAt = row.previous /\ other.createdAt < row.createdAt
<1> USE DEF ChainInv
<1>1. CASE row \in rows
  BY <1>1 DEF ChainsAreSound, OfSubject
<1>2. CASE row = work[u]
  <2>1. PICK other \in rows : other.createdAt = work[u].previous
    BY <1>2 DEF Referable
  <2>2. other \in Committed
    BY DEF Committed
  <2>3. other.subject = work[u].subject /\ work[u].previous < work[u].createdAt
    BY <2>1, <2>2 DEF LinksAreSound, Linked, Dated
  <2> QED
    BY <1>2, <2>1, <2>3 DEF OfSubject
<1> QED
  BY <1>1, <1>2

\* A reset deletes all the answers to a subject or none.
LEMMA CascadeKeepsChains ==
  ASSUME ChainInv, ProjectStep PROVE ChainInv'
<1> USE DEF ChainInv
<1>1. /\ reviews' = Cascade(reviews, snapshots') /\ decisions' = Cascade(decisions, snapshots')
      /\ answers' = answers /\ stage' = stage /\ work' = work
  BY DEF ProjectStep
<1>2. Committed' \subseteq Committed
  BY <1>1 DEF Committed, Cascade
<1>3. DatesAreDistinct'
  BY <1>1, <1>2 DEF DatesAreDistinct, Linked, Dated
<1>4. LinksAreSound'
  BY <1>1, <1>2 DEF LinksAreSound, Linked, Dated
<1>5. ASSUME NEW rows \in {reviews, decisions}, NEW row \in Cascade(rows, snapshots'),
             row.previous # Null
      PROVE  \E other \in OfSubject(Cascade(rows, snapshots'), row.subject) :
               other.createdAt = row.previous /\ other.createdAt < row.createdAt
  BY <1>5 DEF ChainsAreSound, Cascade, OfSubject
<1>6. ChainsAreSound'
  BY <1>1, <1>5 DEF ChainsAreSound, OfSubject
<1> QED
  BY <1>1, <1>3, <1>4, <1>6
--------------------------------------------------------------------------------
(* The invariant.                                                              *)

\* No answers, nothing to be unsound.
LEMMA InitChains == ReviewInit => ChainInv
  BY DEF ReviewInit, ChainInv, DatesAreDistinct, LinksAreSound, ChainsAreSound, Committed,
         Linked, Dated, Stages

\* What a user does before the latest answer is looked up.
LEMMA OtherStepsAdvance ==
  ASSUME NEW u \in Users, (\E sprint \in Scopes : Fetch(u, sprint)) \/ Leave(u) \/ Read(u)
  PROVE  \E next \in {"idle", "fetched", "found", "read"} : \E row :
           ~Linked(u) /\ Advance(u, next, row) /\ answers' = answers
<1>1. ASSUME NEW sprint \in Scopes, Fetch(u, sprint)
      PROVE  \E row : ~Linked(u) /\ Advance(u, "fetched", row) /\ answers' = answers
  BY <1>1 DEF Fetch, Linked
<1>2. ASSUME Leave(u) \/ BriefFails(u)
      PROVE  \E row : ~Linked(u) /\ Advance(u, "idle", row) /\ answers' = answers
  BY <1>2 DEF Leave, BriefFails, Linked
<1>3. ASSUME FindSnapshot(u)
      PROVE  \E row : ~Linked(u) /\ Advance(u, "found", row) /\ answers' = answers
  BY <1>3 DEF FindSnapshot, Linked
<1>4. ASSUME NEW risk, ReadBrief(u) \/ ReadRisk(u, risk)
      PROVE  \E row : ~Linked(u) /\ Advance(u, "read", row) /\ answers' = answers
  BY <1>4 DEF ReadBrief, ReadRisk, Linked
<1> QED
  BY <1>1, <1>2, <1>3, <1>4 DEF Read

\* What a user does before it commits.
LEMMA UserKeepsChains ==
  ASSUME ChainInv, NEW u \in Users, UserStep(u),
         ~CommitReview(u), ~CommitDecision(u), ~AnswerFails(u)
  PROVE  ChainInv'
<1>1. CASE Link(u)
  BY <1>1, LinkKeepsChains
<1>2. CASE Date(u)
  BY <1>2, DateKeepsChains
<1>3. CASE (\E sprint \in Scopes : Fetch(u, sprint)) \/ Leave(u) \/ Read(u)
  BY <1>3, OtherStepsAdvance, AdvanceKeepsChains DEF Stages
<1> QED
  BY <1>1, <1>2, <1>3 DEF UserStep

\* Every step keeps the chains sound.
LEMMA NextChains ==
  ASSUME ChainInv, [ReviewNext]_<<projectVars, reviewVars>> PROVE ChainInv'
<1> USE DEF ChainInv
<1>1. CASE ProjectStep
  BY <1>1, CascadeKeepsChains
<1>2. CASE UNCHANGED <<projectVars, reviewVars>>
  BY <1>2 DEF reviewVars, DatesAreDistinct, LinksAreSound, ChainsAreSound, OfSubject, Committed,
              Linked, Dated
<1>3. ASSUME NEW u \in Users, CommitReview(u)
      PROVE  ChainInv'
  <2>1. /\ Dated(u) /\ FinishAnswer(u) /\ Referable(work[u], reviews)
        /\ reviews' = reviews \cup {work[u]} /\ decisions' = decisions
    BY <1>3 DEF CommitReview, FinishAnswer, Dated
  <2>2. Committed' \subseteq Committed \cup {work[u]}
    BY <2>1 DEF Committed
  <2>3. ChainsAreSound'
    BY <2>1, CommitKeepsChains DEF ChainsAreSound, OfSubject
  <2> QED
    BY <2>1, <2>2, <2>3, FinishKeepsDates
<1>4. ASSUME NEW u \in Users, CommitDecision(u)
      PROVE  ChainInv'
  <2>1. /\ Dated(u) /\ FinishAnswer(u) /\ Referable(work[u], decisions)
        /\ decisions' = decisions \cup {work[u]} /\ reviews' = reviews
    BY <1>4 DEF CommitDecision, FinishAnswer, Dated
  <2>2. Committed' \subseteq Committed \cup {work[u]}
    BY <2>1 DEF Committed
  <2>3. ChainsAreSound'
    BY <2>1, CommitKeepsChains DEF ChainsAreSound, OfSubject
  <2> QED
    BY <2>1, <2>2, <2>3, FinishKeepsDates
<1>5. ASSUME NEW u \in Users, AnswerFails(u)
      PROVE  ChainInv'
  <2>1. Dated(u) /\ FinishAnswer(u) /\ reviews' = reviews /\ decisions' = decisions
    BY <1>5 DEF AnswerFails, FinishAnswer, Dated
  <2>2. Committed' \subseteq Committed \cup {work[u]} /\ ChainsAreSound'
    BY <2>1 DEF Committed, ChainsAreSound, OfSubject
  <2> QED
    BY <2>1, <2>2, FinishKeepsDates
<1>6. ASSUME NEW u \in Users, UserStep(u) PROVE ChainInv'
  BY <1>3, <1>4, <1>5, <1>6, UserKeepsChains
<1> QED
  BY <1>1, <1>2, <1>6 DEF ReviewNext

\* The invariant holds in every state.
THEOREM ChainInvariant == ReviewSpec => []ChainInv
<1>1. ChainInv /\ [ReviewNext]_<<projectVars, reviewVars>> => ChainInv'
  BY NextChains
<1> QED
  BY InitChains, <1>1, PTL DEF ReviewSpec

\* However requests, crashes, analyses and resets interleave, the row an answer is
\* linked to is an earlier answer to the same snapshot or risk.
THEOREM ChainsAreSoundHolds == ReviewSpec => []ChainsAreSound
<1>1. ChainInv => ChainsAreSound
  BY DEF ChainInv
<1> QED
  BY ChainInvariant, <1>1, PTL
--------------------------------------------------------------------------------
(* Answers and the snapshots they are about.                                   *)

\* What a step does to the answers: it adds one, or deletes those to snapshots
\* that are deleted.
LEMMA AnswersChange ==
  ASSUME [ReviewNext]_<<projectVars, reviewVars>>
  PROVE  \/ /\ reviews' = Cascade(reviews, snapshots')
            /\ decisions' = Cascade(decisions, snapshots')
         \/ /\ snapshots' = snapshots
            /\ reviews \subseteq reviews' /\ decisions \subseteq decisions'
            /\ \A row \in Committed' \ Committed : IsStored(row.subject.snapshot, snapshots)
<1> USE DEF projectVars, analysisVars, reviewVars, Committed
<1>1. CASE ProjectStep
  BY <1>1 DEF ProjectStep
<1>2. CASE UNCHANGED <<snapshots, reviews, decisions>>
  BY <1>2
<1>3. ASSUME NEW u \in Users, UserStep(u)
      PROVE  \/ UNCHANGED <<snapshots, reviews, decisions>>
             \/ CommitReview(u) \/ CommitDecision(u)
  BY <1>3 DEF UserStep, Read, Fetch, Leave, FindSnapshot, ReadBrief, BriefFails, ReadRisk,
              Link, Date, Advance, AnswerFails, FinishAnswer
<1>4. ASSUME NEW u \in Users, CommitReview(u) \/ CommitDecision(u)
      PROVE  /\ snapshots' = snapshots
             /\ reviews \subseteq reviews' /\ decisions \subseteq decisions'
             /\ Committed' \subseteq Committed \cup {work[u]}
             /\ IsStored(work[u].subject.snapshot, snapshots)
  BY <1>4 DEF CommitReview, CommitDecision, FinishAnswer, Referable
<1> QED
  BY <1>1, <1>2, <1>3, <1>4 DEF ReviewNext

\* Nothing a human has answered is changed or lost while its snapshot is there.
THEOREM AnswersStayHolds == ReviewSpec => AnswersStay
<1>1. ASSUME [ReviewNext]_<<projectVars, reviewVars>>
      PROVE  \A row \in reviews \cup decisions :
               row \in reviews' \cup decisions' \/ ~IsStored(row.subject.snapshot, snapshots')
  BY <1>1, AnswersChange DEF Cascade
<1> QED
  BY <1>1, PTL DEF ReviewSpec, AnswersStay

\* An answer is inserted or kept only with its snapshot.
LEMMA AnswersStayStored ==
  ASSUME AnswersHaveTheirSnapshot, [ReviewNext]_<<projectVars, reviewVars>>
  PROVE  AnswersHaveTheirSnapshot'
<1> SUFFICES ASSUME NEW row \in Committed'
             PROVE  IsStored(row.subject.snapshot, snapshots)'
  BY DEF AnswersHaveTheirSnapshot, Committed
<1>1. CASE reviews' = Cascade(reviews, snapshots') /\ decisions' = Cascade(decisions, snapshots')
  BY <1>1 DEF Cascade, Committed, IsStored
<1>2. CASE /\ snapshots' = snapshots
           /\ \A other \in Committed' \ Committed : IsStored(other.subject.snapshot, snapshots)
  BY <1>2 DEF AnswersHaveTheirSnapshot, Committed, IsStored
<1> QED
  BY <1>1, <1>2, AnswersChange

\* No answer is stored without the snapshot it is about, nor outlives it, whatever is
\* loaded anew.
THEOREM AnswersHaveTheirSnapshotHolds == ReviewSpec => []AnswersHaveTheirSnapshot
<1>1. ReviewInit => AnswersHaveTheirSnapshot
  BY DEF ReviewInit, AnswersHaveTheirSnapshot, Committed
<1>2. AnswersHaveTheirSnapshot /\ [ReviewNext]_<<projectVars, reviewVars>> => AnswersHaveTheirSnapshot'
  BY AnswersStayStored
<1> QED
  BY <1>1, <1>2, PTL DEF ReviewSpec
--------------------------------------------------------------------------------
(* Answers given one at a time.                                                *)

\* Each row is linked to the one before it on its subject.
IsLinear(rows) ==
  \A row \in rows :
    row.previous = LatestAnswer(
      {other \in OfSubject(rows, row.subject) : other.createdAt < row.createdAt})

\* The row refers to the latest on its subject, unless there is none any more.
Follows(row, rows) ==
  LET earlier == OfSubject(rows, row.subject)
  IN  earlier = {} \/ row.previous = LatestAnswer(earlier)

\* The only answer in hand follows the latest on its subject, and once dated it is
\* the last.
LoneAnswerIsLast ==
  /\ \A u, v \in Users : Linked(u) /\ Linked(v) => u = v
  /\ \A u \in Users : Linked(u) =>
       /\ Dated(u) => work[u].createdAt = answers
       /\ Follows(work[u], RowsFor(work[u]))

\* The inductive invariant of answers that have not met.
LoneInv ==
  ChainInv /\ (~overlapped => LoneAnswerIsLast /\ IsLinear(reviews) /\ IsLinear(decisions))

\* The row after all the others continues the chain of its subject.
LEMMA LastContinuesChain ==
  ASSUME NEW rows, IsLinear(rows), NEW new, new.createdAt \in Nat,
         \A row \in rows : row.createdAt \in Nat /\ row.createdAt < new.createdAt,
         new.previous = LatestAnswer(OfSubject(rows, new.subject))
  PROVE  IsLinear(rows \cup {new})
<1> DEFINE Before(table, row) ==
      {other \in OfSubject(table, row.subject) : other.createdAt < row.createdAt}
<1>1. Before(rows \cup {new}, new) = OfSubject(rows, new.subject)
  BY DEF OfSubject
<1>2. \A row \in rows : Before(rows \cup {new}, row) = Before(rows, row)
  BY DEF OfSubject
<1>3. \A row \in rows : row.previous = LatestAnswer(Before(rows, row))
  BY DEF IsLinear
<1> QED
  BY <1>1, <1>2, <1>3 DEF IsLinear

\* A reset takes the whole chain of a subject with it.
LEMMA CascadeKeepsLinear ==
  ASSUME NEW rows, IsLinear(rows), NEW left
  PROVE  IsLinear(Cascade(rows, left))
<1> SUFFICES ASSUME NEW row \in Cascade(rows, left)
             PROVE  row.previous = LatestAnswer(
                      {other \in OfSubject(Cascade(rows, left), row.subject) :
                         other.createdAt < row.createdAt})
  BY DEF IsLinear
<1>1. row \in rows /\ OfSubject(Cascade(rows, left), row.subject) = OfSubject(rows, row.subject)
  BY DEF Cascade, OfSubject
<1> QED
  BY <1>1 DEF IsLinear

\* As long as no two answers are under way, a step is that of the only one.
LEMMA StaysAlone ==
  ASSUME ChainInv, LoneAnswerIsLast, SeenNext, ~overlapped'
  PROVE  \A u, v \in Users : Linked(u)' /\ Linked(v)' => u = v
<1> SUFFICES ASSUME NEW p \in Users, NEW q \in Users, Linked(p)', Linked(q)', p # q
             PROVE  FALSE
  OBVIOUS
<1> DEFINE inHand == {u \in Users : stage[u] \in {"linked", "dated"}}
<1>1. stage' = stage \/ \E u \in Users : \E next : stage' = [stage EXCEPT ![u] = next]
  BY DEF SeenNext, ReviewNext, ProjectStep, UserStep, Read, Fetch, Leave, FindSnapshot, ReadBrief,
         BriefFails, ReadRisk, Link, Date, Advance, CommitReview, CommitDecision, AnswerFails,
         FinishAnswer
<1>2. \E u : \A v \in Users : v # u => stage'[v] = stage[v]
  BY <1>1 DEF ChainInv
<1>3. \E u : inHand' \subseteq inHand \cup {u}
  BY <1>2
<1>4. inHand' = {p, q}
  BY <1>3 DEF LoneAnswerIsLast, Linked
<1>5. Cardinality(inHand') > 1
  BY <1>4, TwoAreMoreThanOne
<1> QED
  BY <1>5 DEF SeenNext

\* An answer alone that can be inserted refers to the latest on its subject.
LEMMA LoneCommitIsLast ==
  ASSUME ChainInv, LoneAnswerIsLast, NEW u \in Users, Dated(u),
         Referable(work[u], RowsFor(work[u])), IsLinear(RowsFor(work[u]))
  PROVE  IsLinear(RowsFor(work[u]) \cup {work[u]})
<1> DEFINE rows == RowsFor(work[u])
           earlier == OfSubject(rows, work[u].subject)
<1>1. (\A row \in rows : row \in Committed) /\ Linked(u)
  BY DEF RowsFor, Committed, Linked, Dated
<1>2. /\ work[u].createdAt = answers /\ answers \in Nat
      /\ \A row \in rows : row.createdAt \in Nat /\ row.createdAt < work[u].createdAt
  BY <1>1 DEF ChainInv, DatesAreDistinct, LoneAnswerIsLast
<1>3. work[u].previous = LatestAnswer(earlier)
  <2> SUFFICES ASSUME earlier = {}
               PROVE  work[u].previous = Null
    BY <1>1 DEF LoneAnswerIsLast, Follows, LatestAnswer
  <2>1. \A row \in rows : row.createdAt # work[u].previous
    BY <1>1 DEF ChainInv, LinksAreSound, OfSubject
  <2> QED
    BY <2>1 DEF Referable
<1> QED
  BY <1>2, <1>3, LastContinuesChain

\* While the tables stay as they are, what is said of a row depends on what it holds.
LEMMA SameTablesSameRows ==
  ASSUME reviews' = reviews, decisions' = decisions
  PROVE  /\ IsLinear(reviews) => IsLinear(reviews)'
         /\ IsLinear(decisions) => IsLinear(decisions)'
         /\ \A row : RowsFor(row)' = RowsFor(row)
BY DEF IsLinear, OfSubject, LatestAnswer, RowsFor

\* A step of answers that have not met.
LEMMA LoneAnswersKeepInv ==
  ASSUME ChainInv, ChainInv', SeenNext, ~overlapped',
         LoneAnswerIsLast, IsLinear(reviews), IsLinear(decisions)
  PROVE  LoneAnswerIsLast' /\ IsLinear(reviews)' /\ IsLinear(decisions)'
<1> DEFINE Kept == LoneAnswerIsLast' /\ IsLinear(reviews)' /\ IsLinear(decisions)'
<1>1. \A u, v \in Users : Linked(u)' /\ Linked(v)' => u = v
  BY StaysAlone
<1>2. DOMAIN stage = Users /\ DOMAIN work = Users
  BY DEF ChainInv
<1>3. ASSUME ProjectStep
      PROVE  Kept
  <2>1. /\ reviews' = Cascade(reviews, snapshots') /\ decisions' = Cascade(decisions, snapshots')
        /\ answers' = answers /\ stage' = stage /\ work' = work
    BY <1>3 DEF ProjectStep
  <2>2. IsLinear(reviews') /\ IsLinear(decisions')
    BY <2>1, CascadeKeepsLinear
  <2>3. \A u \in Users : RowsFor(work[u])' = Cascade(RowsFor(work[u]), snapshots')
    BY <2>1 DEF RowsFor, IsReview
  <2>4. ASSUME NEW rows, NEW row, Follows(row, rows)
        PROVE  Follows(row, Cascade(rows, snapshots'))
    <3>1. \/ OfSubject(Cascade(rows, snapshots'), row.subject) = {}
          \/ OfSubject(Cascade(rows, snapshots'), row.subject) = OfSubject(rows, row.subject)
      BY DEF Cascade, OfSubject
    <3> QED
      BY <2>4, <3>1 DEF Follows
  <2>5. \A u \in Users : (Linked(u)' <=> Linked(u)) /\ (Dated(u)' <=> Dated(u))
    BY <2>1 DEF Linked, Dated
  <2>6. \A u \in Users : Linked(u) => Follows(work[u], RowsFor(work[u])')
    <3> SUFFICES ASSUME NEW u \in Users, Linked(u)
                 PROVE  Follows(work[u], RowsFor(work[u])')
      OBVIOUS
    <3>1. Follows(work[u], RowsFor(work[u]))
      BY DEF LoneAnswerIsLast
    <3> QED
      BY <2>3, <2>4, <3>1
  <2>7. LoneAnswerIsLast'
    BY <1>1, <2>1, <2>5, <2>6 DEF LoneAnswerIsLast
  <2> QED
    BY <2>2, <2>7 DEF IsLinear, OfSubject, LatestAnswer
<1>4. ASSUME NEW u \in Users, Link(u)
      PROVE  Kept
  <2> DEFINE earlier == OfSubject(RowsFor(work[u]), work[u].subject)
  <2>1. /\ reviews' = reviews /\ decisions' = decisions /\ ~Dated(u)' /\ Linked(u)'
        /\ work'[u].subject = work[u].subject /\ work'[u].previous = LatestAnswer(earlier)
    BY <1>2, <1>4 DEF Link, Advance, Answer, Linked, Dated
  <2>2. \A v \in Users : Linked(v)' => v = u
    BY <1>1, <2>1
  <2>3. RowsFor(work[u])' = RowsFor(work[u])
    BY <2>1 DEF RowsFor, IsReview
  <2>4. Follows(work'[u], RowsFor(work[u])')
    BY <2>1, <2>3 DEF Follows
  <2>5. LoneAnswerIsLast'
    BY <2>1, <2>2, <2>4 DEF LoneAnswerIsLast
  <2> QED
    BY <2>1, <2>5, SameTablesSameRows
<1>5. ASSUME NEW u \in Users, Date(u)
      PROVE  Kept
  <2>1. /\ reviews' = reviews /\ decisions' = decisions /\ Linked(u) /\ Linked(u)'
        /\ answers' = answers + 1 /\ work'[u].createdAt = answers + 1
        /\ work'[u].subject = work[u].subject /\ work'[u].previous = work[u].previous
    BY <1>2, <1>5 DEF Date, Advance, Answer, Linked
  <2>2. \A v \in Users : Linked(v)' => v = u
    BY <1>1, <2>1
  <2>3. RowsFor(work[u])' = RowsFor(work[u])
    BY <2>1 DEF RowsFor, IsReview
  <2>4. Follows(work'[u], RowsFor(work[u])')
    BY <2>1, <2>3 DEF Follows, LoneAnswerIsLast
  <2>5. LoneAnswerIsLast'
    BY <2>1, <2>2, <2>4 DEF LoneAnswerIsLast
  <2> QED
    BY <2>1, <2>5, SameTablesSameRows
<1>6. ASSUME NEW u \in Users, FinishAnswer(u)
      PROVE  LoneAnswerIsLast'
  <2>1. stage' = [stage EXCEPT ![u] = "idle"] /\ Linked(u)
    BY <1>6 DEF FinishAnswer, Linked
  <2>2. \A v \in Users : ~Linked(v)'
    BY <1>2, <2>1 DEF Linked, LoneAnswerIsLast
  <2> QED
    BY <2>2 DEF LoneAnswerIsLast
<1>7. ASSUME NEW u \in Users, NEW next \in {"idle", "fetched", "found", "read"}, NEW row,
             Advance(u, next, row), answers' = answers
      PROVE  Kept
  <2>1. /\ reviews' = reviews /\ decisions' = decisions /\ ~Linked(u)'
        /\ \A v \in Users : v # u => /\ (Linked(v)' <=> Linked(v)) /\ (Dated(v)' <=> Dated(v))
                                   /\ work'[v] = work[v]
    BY <1>2, <1>7 DEF Advance, Linked, Dated
  <2>2. \A v \in Users : Linked(v)' =>
          Linked(v) /\ (Dated(v)' <=> Dated(v)) /\ work'[v] = work[v]
    BY <2>1
  <2>3. ASSUME NEW v \in Users, Linked(v)'
        PROVE  RowsFor(work[v])' = RowsFor(work[v])
    BY <2>1, <2>2, <2>3 DEF RowsFor, IsReview
  <2>4. LoneAnswerIsLast'
    BY <1>1, <1>7, <2>2, <2>3 DEF LoneAnswerIsLast
  <2> QED
    BY <2>1, <2>4, SameTablesSameRows
<1>8. ASSUME NEW u \in Users, UserStep(u)
      PROVE  Kept
  <2> USE DEF RowsFor
  <2>1. CASE CommitReview(u)
    <3>1. /\ FinishAnswer(u) /\ Dated(u) /\ RowsFor(work[u]) = reviews
          /\ Referable(work[u], reviews)
          /\ reviews' = reviews \cup {work[u]} /\ decisions' = decisions
      BY <2>1 DEF CommitReview, FinishAnswer, Dated
    <3>2. IsLinear(reviews')
      BY <3>1, LoneCommitIsLast
    <3> QED
      BY <1>6, <3>1, <3>2 DEF IsLinear, OfSubject, LatestAnswer
  <2>2. CASE CommitDecision(u)
    <3>1. /\ FinishAnswer(u) /\ Dated(u) /\ RowsFor(work[u]) = decisions
          /\ Referable(work[u], decisions)
          /\ decisions' = decisions \cup {work[u]} /\ reviews' = reviews
      BY <2>2 DEF CommitDecision, FinishAnswer, Dated
    <3>2. IsLinear(decisions')
      BY <3>1, LoneCommitIsLast
    <3> QED
      BY <1>6, <3>1, <3>2 DEF IsLinear, OfSubject, LatestAnswer
  <2>3. CASE AnswerFails(u)
    <3>1. FinishAnswer(u) /\ reviews' = reviews /\ decisions' = decisions
      BY <2>3 DEF AnswerFails
    <3> QED
      BY <1>6, <3>1, SameTablesSameRows
  <2>4. CASE Link(u) \/ Date(u)
    BY <1>4, <1>5, <2>4
  <2>5. ASSUME (\E sprint \in Scopes : Fetch(u, sprint)) \/ Leave(u) \/ Read(u)
        PROVE  \E next \in {"idle", "fetched", "found", "read"} : \E row :
                 Advance(u, next, row) /\ answers' = answers
    BY <2>5, OtherStepsAdvance
  <2>6. CASE (\E sprint \in Scopes : Fetch(u, sprint)) \/ Leave(u) \/ Read(u)
    BY <1>7, <2>5, <2>6
  <2> QED
    BY <1>8, <2>1, <2>2, <2>3, <2>4, <2>6 DEF UserStep
<1> QED
  BY <1>3, <1>8 DEF SeenNext, ReviewNext

\* However requests, crashes, analyses and resets interleave, an answer is linked to
\* an earlier one on its subject, and as long as answers are given one at a time to
\* the one right before it.
THEOREM ChainsAreKeptHolds == SeenSpec => []ChainsAreKept
<1>1. MCInit => LoneInv
  <2> SUFFICES ASSUME MCInit PROVE LoneInv
    OBVIOUS
  <2>1. ChainInv /\ reviews = {} /\ decisions = {} /\ \A u \in Users : ~Linked(u)
    BY InitChains DEF MCInit, ReviewInit, Linked
  <2> QED
    BY <2>1 DEF LoneInv, LoneAnswerIsLast, IsLinear
<1>2. LoneInv /\ [SeenNext]_<<projectVars, reviewVars, overlapped>> => LoneInv'
  <2> SUFFICES ASSUME LoneInv, [SeenNext]_<<projectVars, reviewVars, overlapped>> PROVE LoneInv'
    OBVIOUS
  <2>1. ChainInv /\ ChainInv'
    BY NextChains DEF LoneInv, SeenNext
  <2>2. CASE SeenNext
    <3>1. ~overlapped' => ~overlapped
      BY <2>2 DEF SeenNext
    <3> QED
      BY <2>1, <2>2, <3>1, LoneAnswersKeepInv DEF LoneInv
  <2>3. CASE UNCHANGED <<projectVars, reviewVars, overlapped>>
    BY <2>1, <2>3
       DEF LoneInv, reviewVars, LoneAnswerIsLast, Linked, Dated, RowsFor, IsReview, IsLinear, OfSubject, LatestAnswer
  <2> QED
    BY <2>2, <2>3
<1>3. LoneInv => ChainsAreKept
  BY DEF LoneInv, ChainInv, ChainsAreKept, ChainsAreLinear, IsLinear
<1> QED
  BY <1>1, <1>2, <1>3, PTL DEF SeenSpec
--------------------------------------------------------------------------------
(* What is suggested of a snapshot.                                            *)

\* No payload has two coverages of a sprint measured at the same moment.  Of two the
\* facts of a snapshot hold the first and a brief looks at the last, and the result
\* of an analysis no longer tells which coverage a suggestion was made with.
CoveragesAreApart ==
  \A p \in Payloads : \A m, other \in Datasets[p].metrics :
    m.name = "test_coverage" /\ other.name = "test_coverage"
      /\ m.sprint = other.sprint /\ m.measured = other.measured => m = other

CoverageFacts(s) == {f \in s.facts : f.metric = "coverage_percent"}

\* The latest of the coverages that are facts.
FactAfter(f, g) == f.observed > g.observed \/ (f.observed = g.observed /\ f.source > g.source)
CoverageOfFacts(s) ==
  {f.value : f \in {f \in CoverageFacts(s) : \A g \in CoverageFacts(s) : ~FactAfter(g, f)}}

CoverageFact(m) == Fact("coverage_percent", m.value, "metric", m, m.measured, {})

\* The facts on coverages are those of the latest one of each sprint.
LEMMA CoverageFactsAreLatest ==
  ASSUME NEW d, NEW sprint, NEW reference
  PROVE  CoverageFacts(Assessment(d, sprint, reference))
           = {CoverageFact(m) : m \in LatestCoverages(Context(d, sprint, reference))}
<1> DEFINE c == Context(d, sprint, reference)
<1>1. Assessment(d, sprint, reference).facts = CollectFacts(c)
  BY DEF Assessment
<1> HIDE DEF c
<1>2. \A f \in TicketFacts(c) \cup BuildFacts(c) : f.metric # "coverage_percent"
  BY MetricsOfFacts DEF TicketFacts
<1>3. \A f \in MetricFacts(c) : f.metric = "coverage_percent"
  BY MetricsOfFacts
<1>4. CoverageFacts(Assessment(d, sprint, reference)) = MetricFacts(c)
  BY <1>1, <1>2, <1>3 DEF CoverageFacts, CollectFacts
<1>5. MetricFacts(c) = {CoverageFact(m) : m \in LatestCoverages(c)}
  BY DEF MetricFacts, CoverageFact
<1> QED
  BY <1>4, <1>5 DEF c

\* The coverage a brief looks at is the latest of those the snapshot has as facts,
\* whatever the tables hold by now.
LEMMA CoverageIsOfTheFacts ==
  ASSUME CoveragesAreApart, NEW p \in Payloads, NEW sprint, NEW reference \in Nat
  PROVE  LET s == Assessment(Datasets[p], sprint, reference)
         IN  TestCoverage(Datasets[p], s) = CoverageOfFacts(s)
<1> DEFINE d == Datasets[p]
           s == Assessment(d, sprint, reference)
           c == Context(d, sprint, reference)
           After(m, other) == m.measured > other.measured
                                \/ (m.measured = other.measured /\ m.id > other.id)
           facts == CoverageFacts(s)
           visible == VisibleCoverages(c)
           latest == LatestCoverages(c)
<1>1. /\ IsFiniteSet(visible) /\ visible \subseteq d.metrics
      /\ \A m \in visible : /\ m.measured \in Nat /\ m.id \in Nat
                            /\ m.name = "test_coverage"
  <2>1. visible \subseteq d.metrics
    BY DEF VisibleCoverages, Context, InScope
  <2>2. IsFiniteSet(d.metrics) /\ d.metrics \subseteq Metrics
    BY TablesAreFinite
  <2>3. IsFiniteSet(visible)
    BY <2>1, <2>2, FS_Subset
  <2> QED
    BY <2>1, <2>2, <2>3 DEF VisibleCoverages, Metrics, Moments, Keys
<1>2. \A m, other \in visible : m.sprint = other.sprint /\ m.measured = other.measured => m = other
  BY <1>1 DEF CoveragesAreApart
<1>3. TestCoverage(d, s) = {m.value : m \in {m \in visible : \A other \in visible : ~After(other, m)}}
  <2>1. s.sprint = sprint /\ s.reference = reference
    BY DEF Assessment
  <2>2. {m \in InScope(d.metrics, sprint) : m.name = "test_coverage" /\ Day(m.measured) <= reference}
          = visible
    BY DEF VisibleCoverages, Context
  <2> HIDE DEF s, visible
  <2> QED
    BY <2>1, <2>2 DEF TestCoverage
<1>4. /\ latest \subseteq visible
      /\ \A m \in visible :
           (\A other \in visible : other.sprint = m.sprint => ~MeasuredBefore(m, other)) => m \in latest
  BY DEF LatestCoverages
<1>5. facts = {CoverageFact(m) : m \in latest}
  BY CoverageFactsAreLatest
<1>6. \A m : /\ CoverageFact(m).observed = m.measured /\ CoverageFact(m).source = m.id
             /\ CoverageFact(m).value = m.value
  BY DEF CoverageFact, Fact
<1>7. CoverageOfFacts(s) = {f.value : f \in {f \in facts : \A g \in facts : ~FactAfter(g, f)}}
  BY DEF CoverageOfFacts
<1>8. \A m, other \in visible : FactAfter(CoverageFact(m), CoverageFact(other)) <=> After(m, other)
  BY <1>6 DEF FactAfter
<1> HIDE DEF s, c, facts, visible, latest
<1>9. ASSUME NEW m \in visible, \A other \in visible : ~After(other, m)
      PROVE  /\ CoverageFact(m) \in facts
             /\ \A g \in facts : ~FactAfter(g, CoverageFact(m))
  <2>1. m \in latest
    BY <1>1, <1>2, <1>4, <1>9 DEF MeasuredBefore
  <2> QED
    BY <1>4, <1>5, <1>8, <1>9, <2>1
<1>10. ASSUME NEW m \in latest, \A g \in facts : ~FactAfter(g, CoverageFact(m)),
              NEW other \in visible, After(other, m)
       PROVE  FALSE
  <2> DEFINE rows == {x \in visible : x.sprint = other.sprint}
             measured == [x \in rows |-> x.measured]
             id == [x \in rows |-> 0 - x.id]
  <2>1. rows \in SUBSET visible /\ other \in rows
    OBVIOUS
  <2>2. IsFiniteSet(rows)
    BY <1>1, <2>1, FS_Subset
  <2>3. measured \in [rows -> Int] /\ id \in [rows -> Int]
    BY <1>1
  <2>4. PICK last \in rows : \A y \in rows :
          measured[y] < measured[last] \/ (measured[y] = measured[last] /\ id[y] <= id[last])
    <3> HIDE DEF measured, id, rows
    <3> QED
      BY <2>1, <2>2, <2>3, LastExists
  <2>5. \A y \in rows : ~MeasuredBefore(last, y) /\ last.measured >= y.measured
    BY <1>1, <2>4 DEF MeasuredBefore
  <2>6. last \in latest /\ last \in visible /\ last.sprint = other.sprint
    BY <1>4, <2>5
  <2>7. ~After(last, m)
    BY <1>4, <1>5, <1>8, <1>10, <2>6
  <2>8. last.measured >= other.measured /\ m \in visible
    BY <1>4, <2>5
  <2>9. last = other
    BY <1>1, <1>2, <1>10, <2>6, <2>7, <2>8
  <2> QED
    BY <1>10, <2>7, <2>9
<1> QED
  BY <1>3, <1>4, <1>5, <1>6, <1>7, <1>9, <1>10 DEF s

\* A suggestion that was made on a result with the data it is of.
IsComputed(suggested, s) ==
  \E p \in Payloads :
    /\ s.reference \in Nat
    /\ s = Assessment(Datasets[p], s.sprint, s.reference)
    /\ suggested = Suggestion(Datasets[p], s)

\* Of payloads without simultaneous coverages: the brief of a snapshot suggests the
\* same whenever it is made, also when its tables have been loaded anew meanwhile and
\* hold other rows, as long as they give the same snapshot.
THEOREM SameResultSameSuggestion ==
  ASSUME CoveragesAreApart, NEW s, NEW one, NEW other, IsComputed(one, s), IsComputed(other, s)
  PROVE  one = other
<1>1. PICK p \in Payloads : /\ s.reference \in Nat
                           /\ s = Assessment(Datasets[p], s.sprint, s.reference)
                           /\ one = Suggestion(Datasets[p], s)
  BY DEF IsComputed
<1>2. PICK q \in Payloads : /\ s = Assessment(Datasets[q], s.sprint, s.reference)
                           /\ other = Suggestion(Datasets[q], s)
  BY DEF IsComputed
<1>3. TestCoverage(Datasets[p], s) = CoverageOfFacts(s)
  BY <1>1, CoverageIsOfTheFacts
<1>4. TestCoverage(Datasets[q], s) = CoverageOfFacts(s)
  BY <1>1, <1>2, CoverageIsOfTheFacts
<1>5. Signals(Datasets[p], s) = Signals(Datasets[q], s)
  BY <1>3, <1>4 DEF Signals
<1> QED
  BY <1>1, <1>2, <1>5 DEF Suggestion
================================================================================
