----------------------- MODULE RecommendationWorkflow -----------------------
(***************************************************************************)
(* The tables of the governed workflow (app/recommendation_service.py and  *)
(* app/recommendation_domain.py): which status may follow which, and what  *)
(* each request may change.                                                *)
(***************************************************************************)

CONSTANTS
  TextColumns,         \* title, description, justification
  OperationalColumns,  \* assigned_to, due_date
  Values               \* values of a column

Columns == TextColumns \cup OperationalColumns

Payloads == [Columns -> Values]

RecommendationStatus ==
  {"PROPOSED", "ACCEPTED", "MODIFIED", "REJECTED", "IN_PROGRESS", "COMPLETED"}

AllowedTransitions ==
  [PROPOSED    |-> {"ACCEPTED", "MODIFIED", "REJECTED"},
   ACCEPTED    |-> {"IN_PROGRESS", "COMPLETED"},
   MODIFIED    |-> {"IN_PROGRESS", "COMPLETED"},
   IN_PROGRESS |-> {"COMPLETED"},
   REJECTED    |-> {},
   COMPLETED   |-> {}]

\* A comment is compulsory when rejecting and when completing.
CommentGiven(to, comment) == to \in {"REJECTED", "COMPLETED"} => comment

\* Fault: starting the work may rewrite the text as well.
PayloadChangeUnchecked(to, old, new) ==
  to \in {"MODIFIED", "IN_PROGRESS"} \/ new = old

\* What the request's "changes" may do to the payload: anything for MODIFIED,
\* the operational columns only for IN_PROGRESS, otherwise they are ignored.
PayloadChange(to, old, new) ==
  \/ to = "MODIFIED"
  \/ to = "IN_PROGRESS" /\ \A c \in TextColumns : new[c] = old[c]
  \/ new = old
=============================================================================
