------------------------------ MODULE EvidenceChain ------------------------------
(*****************************************************************************)
(* The evidence of a risk (evidence_service.py): the row of the tables it was*)
(* found in and the tickets, commits, pull requests, builds and test results *)
(* reached from there, with the links that lead to nothing.                  *)
(*                                                                           *)
(* An edge is a pair of nodes; its relation and label are left out, as only  *)
(* where it leads is told apart.                                             *)
(*****************************************************************************)
EXTENDS RiskReports

\* _entity_node: the row and the moment it is dated by.
Node(type, id, observed) == [type |-> type, id |-> id, observed |-> observed]

RiskNode == Node("risk", Null, Null)
TicketNode(t) == Node("ticket", t.id, t.updated)
PullRequestNode(p) ==
  Node("pull_request", p.id, IF p.merged # Null THEN p.merged ELSE p.created)
CommitNode(c) == Node("commit", c.sha, c.committed)
BuildNode(b) == Node("build", b.id, Finish(b))
TestNode(r) == Node("test_result", r.id, r.executed)
MetricNode(m) == Node("metric", m.id, m.measured)

MissingLink(relation, source) == [relation |-> relation, source |-> source]

\* A part of a chain, and what several parts make together.
Part(nodes, edges, missing) == [nodes |-> nodes, edges |-> edges, missing |-> missing]
Together(parts) ==
  Part(UNION {part.nodes : part \in parts}, UNION {part.edges : part \in parts},
       UNION {part.missing : part \in parts})
Nothing(relation, source) == Part({}, {}, {MissingLink(relation, source)})

RowsWithId(rows, id) == {row \in rows : row.id = id}
--------------------------------------------------------------------------------
(* link_build, one part for each of its lookups.                               *)

TicketOfPullRequest(p, d) ==
  LET tickets == RowsWithId(d.tickets, p.ticket)
  IN  IF tickets = {} THEN Nothing("pull_request_to_ticket", p.id)
      ELSE Part({TicketNode(t) : t \in tickets},
                {<<TicketNode(t), PullRequestNode(p)>> : t \in tickets}, {})

PullRequestOfBuild(b, d) ==
  LET pullRequests == RowsWithId(d.pullRequests, b.pullRequest)
  IN  IF pullRequests = {} THEN Nothing("build_to_pull_request", b.id)
      ELSE Together({Part({PullRequestNode(p)}, {<<PullRequestNode(p), BuildNode(b)>>}, {}) :
                       p \in pullRequests}
                      \cup {TicketOfPullRequest(p, d) : p \in pullRequests})

CommitOfBuild(b, d) ==
  LET commits == {c \in d.commits : c.sha = b.sha}
  IN  IF commits = {} THEN Nothing("build_to_commit", b.id)
      ELSE Part({CommitNode(c) : c \in commits},
                {<<CommitNode(c), BuildNode(b)>> : c \in commits}
                  \cup {<<PullRequestNode(p), CommitNode(c)>> :
                          p \in RowsWithId(d.pullRequests, b.pullRequest), c \in commits}, {})

TestsOfBuild(b, d) ==
  LET results == {r \in d.testResults : r.build = b.id}
  IN  IF results = {} THEN Nothing("build_to_test_result", b.id)
      ELSE Part({TestNode(r) : r \in results},
                {<<BuildNode(b), TestNode(r)>> : r \in results}, {})

LinkBuild(b, d) ==
  Together({Part({BuildNode(b)}, {}, {}), PullRequestOfBuild(b, d), CommitOfBuild(b, d),
            TestsOfBuild(b, d)})
--------------------------------------------------------------------------------
(* build_evidence_chain, by the type of the source of the risk.                *)

ChainOfTicket(t, d) ==
  LET commits == {c \in d.commits : c.ticket = t.id}
      pullRequests == {p \in d.pullRequests : p.ticket = t.id}
      builds == {b \in d.builds : b.pullRequest \in IdsOf(pullRequests)}
  IN  Together({Part({TicketNode(t)} \cup {CommitNode(c) : c \in commits}
                                     \cup {PullRequestNode(p) : p \in pullRequests},
                     {<<TicketNode(t), RiskNode>>}
                       \cup {<<TicketNode(t), CommitNode(c)>> : c \in commits}
                       \cup {<<TicketNode(t), PullRequestNode(p)>> : p \in pullRequests}, {})}
                 \cup {LinkBuild(b, d) : b \in builds})

\* Fault: the pull request of the build is left out.
ChainOfCommit(b, d) ==
  Together({Part({BuildNode(b)}, {<<BuildNode(b), RiskNode>>}, {}), CommitOfBuild(b, d),
            TestsOfBuild(b, d)})

ChainOfBuild(b, d) ==
  Together({Part({}, {<<BuildNode(b), RiskNode>>}, {}), LinkBuild(b, d)})

ChainOfMetric(m) == Part({MetricNode(m)}, {<<MetricNode(m), RiskNode>>}, {})

SourceChain(risk, d) ==
  IF risk.type = "ticket"
    THEN {ChainOfTicket(t, d) : t \in RowsWithId(d.tickets, risk.source)}
  ELSE IF risk.type = "build"
    THEN {ChainOfBuild(b, d) : b \in RowsWithId(d.builds, risk.source)}
  ELSE {ChainOfMetric(m) : m \in RowsWithId(d.metrics, risk.source)}

EvidenceOf(risk, d) ==
  Together({Part({RiskNode}, {}, {})} \cup
    (IF SourceChain(risk, d) = {} THEN {Nothing("risk_to_source", risk.source)}
     ELSE SourceChain(risk, d)))

\* persist_risk_evidence stores every node but that of the risk.
EvidenceRows(risk, d) == EvidenceOf(risk, d).nodes \ {RiskNode}

\* validate_snapshot_evidence: otherwise the analysis fails and nothing of it
\* is stored.
EvidenceIsDated(s, d) ==
  \A risk \in s.findings : \A node \in EvidenceRows(risk, d) :
    node.observed <= ReferenceDayEnd(s.reference)
================================================================================
