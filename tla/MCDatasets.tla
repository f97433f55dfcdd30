------------------------------- MODULE MCDatasets -------------------------------
(* Datasets for the model checker.                                              *)
EXTENDS Dataset

Sprint(id, status, start, end) ==
  [id |-> id, status |-> status, start |-> start, end |-> end]

\* A ticket of sprint 1 created on the first day and last changed on the second.
Ticket(id, type, status, priority) ==
  [id |-> id, sprint |-> 1, type |-> type, status |-> status, priority |-> priority,
   points |-> id, created |-> 2, updated |-> 4, due |-> Null, blockedSince |-> Null,
   closed |-> Null]

Commit(sha, ticket) == [sha |-> sha, ticket |-> ticket, committed |-> 4]
PullRequest(id, ticket) == [id |-> id, ticket |-> ticket, created |-> 5, merged |-> Null]

Build(id, sprint, change, status, started) ==
  [id |-> id, sprint |-> sprint, pullRequest |-> change, sha |-> change, status |-> status,
   pipeline |-> "main", started |-> started, finished |-> started + 1]

TestRun(id, build, executed) == [id |-> id, build |-> build, executed |-> executed]

Coverage(id, sprint, value, measured) ==
  [id |-> id, sprint |-> sprint, name |-> "test_coverage", value |-> value, measured |-> measured]

\* Nothing is wrong with it until it is stale.
Healthy ==
  [reference |-> 9, sprints |-> {Sprint(1, "active", 1, 40)},
   tickets |-> {Ticket(1, "story", "done", "medium")},
   commits |-> {Commit(1, 1)}, pullRequests |-> {PullRequest(1, 1)},
   builds |-> {Build(1, 1, 1, "success", 8)},
   testResults |-> {TestRun(1, 1, 9), TestRun(2, 1, 9)}, metrics |-> {Coverage(1, 1, 80, 10)}]

\* A ticket falls due after the reference date.
Waiting ==
  [Healthy EXCEPT !.tickets = {[Ticket(1, "story", "todo", "medium") EXCEPT !.due = 8]}]

\* A second sprint has a coverage that is too low, measured before that of the first.
Uneven ==
  [Healthy EXCEPT !.sprints = {Sprint(1, "active", 1, 40), Sprint(2, "planned", 1, 40)},
                  !.metrics = {Coverage(1, 1, 80, 10), Coverage(2, 2, 60, 9)}]

\* Every policy is violated sooner or later, in two sprints with one pipeline; the
\* last build of the first has no test results.
Ailing ==
  [reference |-> 9,
   sprints |-> {Sprint(1, "active", 1, 40), Sprint(2, "planned", 1, 12)},
   tickets |->
     {[Ticket(1, "story", "blocked", "high") EXCEPT !.blockedSince = 6],
      [Ticket(2, "bug", "todo", "critical") EXCEPT !.sprint = 2, !.created = 16, !.updated = 17],
      [Ticket(3, "task", "todo", "low") EXCEPT !.due = 7]},
   commits |-> {Commit(1, 1), Commit(2, 2)},
   pullRequests |-> {PullRequest(1, 1), [PullRequest(2, 2) EXCEPT !.merged = 6]},
   builds |-> {Build(1, 1, 1, "success", 8), Build(2, 1, 1, "failed", 12),
               Build(3, 1, 1, "failed", 16), Build(4, 2, 2, "failed", 10)},
   testResults |-> {TestRun(1, 1, 9), TestRun(2, 2, 13), TestRun(4, 4, 11)},
   metrics |-> {Coverage(1, 1, 71, 8), Coverage(2, 1, 66, 12), Coverage(3, 2, 45, 14)}]

\* Tickets only, one of them changed after the reference date.
Bare ==
  [reference |-> 9, sprints |-> {Sprint(1, "active", 1, 40)},
   tickets |-> {[Ticket(1, "bug", "todo", "critical") EXCEPT !.updated = 24]},
   commits |-> {}, pullRequests |-> {}, builds |-> {}, testResults |-> {}, metrics |-> {}]

\* A coverage that is no percentage.
Excessive == [Healthy EXCEPT !.reference = 7, !.metrics = {Coverage(1, 1, 120, 10)}]

\* A score of more than 60 without a critical risk; two coverages at one moment.
Strained ==
  [Ailing EXCEPT
     !.tickets = {[Ticket(1, "story", "blocked", "medium") EXCEPT !.blockedSince = 4, !.due = 2],
                  [Ticket(2, "task", "done", "low") EXCEPT !.sprint = 2, !.due = 3]},
     !.builds = {Build(1, 1, 1, "failed", 8), Build(4, 2, 2, "failed", 10)},
     !.testResults = {TestRun(1, 1, 9), TestRun(4, 4, 11)},
     !.metrics = {Coverage(1, 1, 50, 10), Coverage(2, 2, 50, 10), Coverage(3, 2, 90, 10)}]

\* Refused: a build has no commit, or comes after the reference date.
Orphaned == [Healthy EXCEPT !.commits = {}]
Early == [Healthy EXCEPT !.reference = 3]

\* Neither refused nor loaded: a metric of no sprint there is, and a test result
\* that is there twice.
Stray == [Healthy EXCEPT !.metrics = {Coverage(1, 2, 80, 10)}]
Doubled == [Healthy EXCEPT !.testResults = {TestRun(1, 1, 9), TestRun(1, 1, 10)}]
================================================================================
