# Formal verification of the AI QA Project Copilot

TLA+ modules, TLC configurations and TLAPS proofs for the copilot: how a project's
data is loaded and judged, what is advised on it, how humans answer, and the
governed recommendations that follow and are measured. Source files are named
relative to the repository root; the services are the modules of `app/`.

## The system

FastAPI serves every request in a thread with a SQLAlchemy `Session` of its own
(`app/db.py`: `autoflush=False`, `expire_on_commit=False`) on SQLite by default.
With pysqlite a SELECT runs outside any transaction; a transaction begins at the
first flush and holds the write lock until the commit. So what a handler has
*read* may be stale when it *writes*, while what it writes is atomic. Nothing in
the code takes a lock; only unique, primary and foreign keys refuse a commit.

| Part | State | Operations | Talks to | Module |
|---|---|---|---|---|
| Seed and ingestion (`seed.py`, `ingestion.py`) | dataset tables, `ingestion_logs` | validate, load, reset, skip, log | deletes everything else of the project on reset | `QaProject` |
| Dataset validation (`schemas.py`, `dataset_validation.py`) | none | accept or refuse a payload | ingestion, snapshot store | `Dataset` |
| Facts, policies, score, data quality (`fact_aggregator.py`, `policy_*.py`, `qa_scoring.py`, `data_quality_service.py`) | none | pure | QA agent | `FactAggregator`, `PolicyEvaluator`, `PolicyV1`, `QaScoring`, `DataQuality` |
| QA agent (`qa_agent.py`) | none | choose the date, read a scope, compute, persist | all of the above, snapshot store | `QaProject`, `SnapshotStore` |
| Snapshot store (`risk_snapshot_service.py`, `risk_repository.py`) | `risk_analyses` with contributions, risks and evidence, linked by `previous_snapshot_id` | persist, latest, history | called by the QA agent | `SnapshotStore` |
| Evidence (`evidence_service.py`) | evidence rows | chain of a risk, persisted with it | snapshot store, API | `EvidenceChain` |
| Decision engine, readiness (`decision_*.py`, `release_readiness_service.py`) | none | pure | briefs, summaries, reports | `DecisionEngine` |
| Deltas, reports, overview (`risk_delta_service.py`, `report_service.py`, `project_service.py`) | none | read only | API, dashboard | `RiskReports` |
| Reviews and risk decisions (`decision_brief_service.py`, `risk_decision_service.py`, dashboard forms) | `qa_decision_reviews`, `risk_decisions`, both chained | fetch, review, decide | snapshots, decision engine | `ReviewChains` |
| Recommendations (`recommendation_service.py`, `recommendation_domain.py`) | `recommendations` (episode of a risk), `recommendation_transitions` (journal) | sync of a snapshot, transition by a human | history seed, API | `RecommendationWorkflow`, `RecommendationService`, `RecommendationSessions`, `RiskEpisodes` |
| Demonstration history (`novashop_history.py`) | none of its own | replay seven days: look up, commit the snapshot, sync | called by `seed.py` at every ingestion | `HistorySeed` |
| Outcomes (`recommendation_outcome_service.py`) | `recommendation_outcomes` | measure and store once | journal, snapshots, risks | `RecommendationOutcomes` |
| Report rendering, API models, migrations, most of the dashboard, tools | none | presentation, I/O | | |

What makes each part correct:

* **Ingestion** - the tables, the snapshots no load fell into and the default date are
  of one and the same payload, whatever was refused, skipped, reset or lost in between.
* **Judgement** - a score, its parts and its severity are bounded; the same data seen
  later never looks better; a GO is never given on what is missing, stale or failing.
* **Advice** - the two advisers of a release, the reports, the deltas, the evidence
  and the overview say compatible things of one snapshot.
* **Answers** - append-only chains, each about a snapshot or a risk that is there.
* **Snapshot store** - one row per input, a chain without gaps or loops.
* **Recommendations** - one open recommendation per risk, reused while the risk
  lasts and closed only by a later day; the journal alone tells the story; what a
  human has decided is not undone by a machine or by a race.
* **History** - a replay, however often repeated or wherever interrupted, leaves
  the days linked and each with its recommendations.
* **Outcomes** - measured from the first human validation against a later day,
  stored once and reproducible.

What is hard in this code: reads before a transaction used after it; one operation
in several commits; several definitions of "latest", "visible" and "stale" that must
agree; rounding and clamping; a sync whose correctness depends on the order its
caller calls it in; reappearing risks; several snapshots of one day; deterministic
ids met again after a reset. `PROJECT.json` lists every such hazard at its line.

## Plan

Modelled, in this order: recommendations with their abstract timelines, the history
seed, concurrent requests, the snapshot store, outcomes; then the judgement from the
dataset to the snapshot, decision engine and readiness, reports, evidence, the
project with its ingestion, and the human answers.

What would come next: the priority of new recommendations and the recommendation counts of the reports.

## The modules

The judgement is a chain of modules of operators, each extending the one before:

**Dataset** - the tables of one project and the rules of `schemas.py` and
`dataset_validation.py`. Ids are numbers, datetimes half-days, dates days. `Verdict`
tells an accepted payload from a refused one and from one whose validation raises a
`KeyError` nobody catches. The datetimes of a payload are taken to be in UTC.

**FactAggregator** - `Context` is what the agent reads for a scope and a date;
`CollectFacts` the facts of tickets, builds and metrics visible at that date. The
latest build of a pipeline and the latest coverage of a sprint are chosen as the code
sorts them, ties included.

**PolicyEvaluator**, **PolicyV1** - the validators of the policy file as an
assumption on the constant `Policies`, `evaluate_policy`, and the policies of
`qa-rules-v1.0.json`.

**QaScoring** - signals, contributions in hundredths and the score in tenths. Python's
`round` on a binary float takes a half up or down; `HalvesUp` is the set of quotients it
takes up, a constant, and no property depends on it beyond a tenth.

**DataQuality** - missing and stale information, the coverage, freshness and confidence;
`Assessment` is what an analysis has computed when it goes on to store it.

**DecisionEngine** - `Signals` of a stored snapshot, `EvaluateDecision`, and
`ReleaseReadiness`. A value the constructor of the signals refuses gives "error".

**RiskReports** - rows of `risk_analyses`, `CompareSnapshots`, `DailyReport`,
`WeeklyReport` and `ProjectOverview`.

**EvidenceChain** - nodes, edges and missing links of a risk.

**QaProject** - the server of one project as a state machine: ingestion calls by
concurrent callers, from the validation (`Refuse`, `Unhandled`, `LookUp`) over the
transaction that loads (`Load`, `Skip`, `LoadError`) to the log committed on its own
(`WriteLog`), each of which may be the last before a crash (`Die`); and analyses of any
scope at any date. One analysis is under way at a time, `draft`, and `SnapshotStore` is
about several. It chooses its date (`BeginAnalysis`), reads six tables with a SELECT each
(`ReadTable`), looks for its result and for the latest snapshot (`LinkSnapshot`), and only
then writes, under the lock (`InsertSnapshot`), or ends without (`EndAnalysis`). A load may
fall between any two of these, so a snapshot can be of older data or of the tables of two
payloads; `overtaken` is a history variable that remembers which, and `Current` are the
others. A payload is the name of a dataset.

**ReviewChains** - `QaProject` with users. `Fetch` gets the latest snapshot of a scope: each
run of the dashboard's script does, the one that handles a submit included, and posts the
`snapshot_id` of that brief, whatever its page showed before; a client of the API may answer
long after. Then come the steps of the request: the snapshot or the risk is found
(`FindSnapshot`, `ReadRisk`), for a review the brief is made again (`ReadBrief`, `BriefFails`),
the latest answer is looked up (`Link`), the new one is dated (`Date`) and inserted under the
foreign keys (`CommitReview`, `CommitDecision`, or `AnswerFails` on the integrity error).
`Cascade` is what a reset deletes. The id of a snapshot digests its input, so a request that
read before a reset can meet its snapshot again when the same data has been loaded and analysed
anew. What is answered (the suggestion, the final decision, the status) is left out:
it follows from the request and the snapshot, and no later row depends on it.

The recommendations are a second family of modules:

**RecommendationWorkflow** - the tables of the workflow: statuses, allowed
transitions, compulsory comments, and what each request may change. A payload gives each
of its columns a value: `TextColumns` (title, description, justification) and
`OperationalColumns` (assigned_to, due_date), two groups which requests may change differently.

**RecommendationService** - one scope (project, sprint), every request served
alone. A snapshot is its rank by `analyzed_at`, with a reference date and the
stable keys of its open risks; an episode is `<<source snapshot, key>>`, which is
what `_id("REC", ...)` digests; each column is a function of the id. `Publish`
stores a snapshot; `Sync` is `sync_recommendations_for_snapshot` to its commit;
`TransitionRecommendation` is `transition_recommendation`. Sync is only called in
the order of snapshots (equal or later): that is the contract of its one caller,
and `HistorySeed` checks it rather than assuming it (`LoneSyncsInDateOrder`). A
snapshot may be passed over and never synced, as those of `/risks/analyze` are.
Refused requests change nothing and are no action. Timestamps other than the order
of snapshots, priorities, severities and wording are left out.

**RiskEpisodes** - what the recommendations promise: one timeline of episodes per
risk. `RecommendationService!ImplementsRiskEpisodes` maps the unresolved row of a
key to its open episode, the resolved ones to its closed episodes.

**HistorySeed** - the replay loop with a program counter per caller. A sync is its
reading (`ReadRows`) and its commit (`CommitSync`), which writes what follows from
the reading: the operators of `RecommendationService` are instantiated on the rows
that were read (`View`). `Fail` is the end of a session anywhere; what it had not
committed is lost. `Again` is the next ingestion, without reset: one with it deletes the
snapshots and recommendations first and so starts the same replay from nothing.

**RecommendationSessions** - one recommendation, several sessions:
`transition_recommendation` split where it lets others in, at the reading of the
row (`Validate`), of the greatest sequence (`Number`) and at the commit (`Commit`
or, when the sequence is taken, `Conflict`). The UPDATE sets each column the session has
changed and no other (`UpdatedPayload`), so payloads of two sessions merge column by column.
`Sight` is a sync.

**RecommendationOutcomes** - observers beside `RecommendationService`. The reads of
a measure are one step because nobody changes what they read
(`BaselineIsFinal`). A snapshot's contribution for a violated policy is a constant,
0 when the policy is not violated; the score is their sum. Any later snapshot may
be observed: the newest, which is the default, is one of them.

**SnapshotStore** - concurrent `POST /risks/analyze` on one scope. The id of a
snapshot digests its input, so the input stands for it. `Capture` takes
`analyzed_at` and reads the facts, `Answer`/`Miss` look the id up, `Link` reads the
latest snapshot, `Insert` writes the row, its risks and its evidence in one
transaction; `Error` is the integrity error of the flush. `Reset` loads the dataset
anew and deletes the snapshots. An invalid evidence date rolls the whole insertion
back and ends the request: it leaves the table as it was and is no action.

`MC*` modules give the constants values; `*Proofs` modules hold the theorems. Those whose theorems
speak of requests that come one at a time extend the `MC` module that remembers whether two have
met, and use none of the values it gives: `IngestionProofs`, `HistorySeedProofs`, `SnapshotStoreProofs` and
`ReviewChainsProofs`. Definitions commented *Fault* are plausible errors in the code, used to show that
each property can fail.

## The runs

Passing:

| Run | Bounds | Shows |
|---|---|---|
| `episodes` | 2 risks, 5 snapshots over 4 days, no human | one open recommendation per risk, sightings counted once, resolutions later and final, and the refinement to timelines |
| `history` | 2 callers, the first 4 real days and 5 risks, 2 failures | linked days, completeness of a replay left alone, syncs in date order, every call ends |
| `concurrent_transitions` | 2 sessions, columns title, description and due_date with 2 values each, 2 sightings, symmetry of sessions | an append-only journal without gap, status in step with it, each column of the payload explained by it, sightings kept |
| `measured` | 2 observers, 1 risk, 4 snapshots over 3 days, the fourth incomplete, one column of 2 values, 1 role | the journal rebuilds the recommendation and follows the sightings through resolution and reappearance; outcomes rest on a human decision on an earlier day and are reproducible |
| `snapshots` | 3 requests at once, 2 contents, 3 dates, 4 analyses, reloads | links never dangle or loop; analyses made one at a time form one chain |
| `assessment` | 7 datasets, 4 dates, project and sprints, 3 snapshots, 1 ingestion, the real policies | bounds, the agreement of the advisers, what a GO means, ageing, deltas, evidence, daily against weekly reports, the overview |
| `ingestion` | 2 callers, 6 payloads (refused, unhandled, unloadable and good), 3 calls, deaths anywhere, 2 analyses at the default date, symmetry of callers | snapshots are of the data unless a load fell into their analysis; the default date is of the data |
| `reviews` | 2 users, 2 datasets, the default date, 2 snapshots, 2 ingestions, 2 answers, symmetry of users | no answer without its snapshot, chains are sound, and linear for answers one at a time; nothing is lost with its snapshot still there |

Why the bounds are enough. An episode needs at most a source, a sighting, an absence
and a return: four snapshots; the fifth lets a second episode be resolved in its
turn, and two of them share a day because dates are compared strictly. Two keys
show that risks do not disturb one another. Two sessions suffice for every lost
update of one row; three requests let two snapshots be inserted while a third holds
a stale reading. Two failures let a repeated call die too; the fourth day of the history
is the first that proposes, repeats and resolves at once. A human request is not
tied to the order of snapshots, so in `measured` one role and one column of text with two
values cover what the guards tell apart; `concurrent_transitions` has two columns of text, which is
what two sessions need to leave a row whose title and description no transition holds together, and one
operational column.

The seven datasets are chosen so that every policy, every decision of both advisers and every missing or
stale code of the pure modules occurs: healthy data that only ages, a date that passes, a second
sprint that does worse than the first, every policy violated in two sprints, tickets without
builds, a high score without a critical risk with two coverages of one moment, and a coverage that is no
percentage. The dates lie before the data, at the reference date, just past the freshness limit and far
beyond it. Three snapshots make a week with a day in the middle.
Three ingestions are a load, a reset or a skip, and a second caller that meets them: in `ingestion` a load may fall
between any two steps of an analysis, and the second analysis is stored beside the rows of the first or finds what the
reset left. Its two good payloads differ in every table, so that a mixed reading is of both, and in their sprints, so that a
mixed snapshot may be refused by the foreign key.

Three runs do not interleave steps that neither read nor write what the others do. In `assessment` and `ingestion` an analysis
takes its steps while no ingestion is under way, so that a whole ingestion falls between two of them (`MCNext` of `MCQaProject`): of
an ingestion an analysis sees the load, and a date that its log has not given yet, as when that log is lost. In `reviews`,
moreover, no user moves while an ingestion is under way, nor while an analysis reads its tables (`IngestionsAtOnce`,
`ReadingAtOnce` of `MCReviewChains`), because users see nothing of these before they write. A load is still taken between any two
steps of an analysis or of a request, and an insertion between any two of a request. The theorems are about every interleaving.

Bounds in guards: `MaxSnapshots`, `MaxSightings`, `MaxClock`, `MaxFailures`, `MaxAnalyses`,
`MaxIngestions`, `MaxAnswers`. The constraint that requests come one at a time, where a property
needs it, is not in the guards: `overlapped` in the MC module remembers whether two have met, and
the property is stated for the states in which they have not.

Violated, each a disagreement between the code and what the repository says of it:

| Run | What happens |
|---|---|
| `concurrent_terminal` | a request validated before a rejection is committed after it: REJECTED is not terminal |
| `history_interrupted` | a crash between the commit of a day and its sync is never made up for |
| `history_race` | two replays at once create two open recommendations for one risk |
| `snapshot_duplicate` | the loser of two identical analyses gets an error: the handler surrounds the commit, the error is raised by the flush |

### What the models show besides

No text of the repository says otherwise of these, so no run calls them wrong.

* Two requests that change different columns both succeed and their columns merge, so that the title and
  the description of a recommendation may be a pair no row of the journal holds. Each column still has
  the value the last transition that changed it gave (`JournalExplainsPayload`).
* A load that falls into an analysis leaves a snapshot of the older data, or of the tables of two payloads,
  beside the newer data, and later briefs are computed from it. `SnapshotsAreOfTheData` and the properties of what a
  snapshot means are stated for the others (`Current`); the advisers agree on all of them.
* A submit of the dashboard answers the latest brief, which may be another than the one on the page when
  an analysis has been stored since; a review that says CONFIRMED then takes over the newer suggestion. A
  property about what the author was shown would be false of this code, and none is stated. What remains is that
  the same snapshot never suggests two different things (`SameResultSameSuggestion`).
* Two analyses at once may be linked to the same predecessor, or both to none, and so may two answers to one
  subject: `ChainIsLinear` and `ChainsAreLinear` hold for one request at a time only.
* The readiness ignores stale data. Healthy data thirty days old is a GO of the risk summary and
  `INSUFFICIENT_INFORMATION` of the brief; the advisers never contradict each other the other way
  round (`AdvisersAgree`). The engine's condition for stale data cannot be reached, because a lower
  freshness has stopped it before.
* Nothing keeps a coverage in 0..100. One above makes the constructor of the signals raise, so the
  brief, the reports and the review of that snapshot fail; `ProjectTypeOK` shows that it is the only
  number of a snapshot that can.
* The ticket and pull request dates are not held to the reference date, so a dataset may be accepted
  and then fail to be analysed (`EvidenceIsDated`); nor are test result and metric ids and commit
  shas held to be unique before they are inserted (`RowsAreUnique`).
* Of two coverages of one moment the facts keep the one with the first id, the signals the last:
  `OverviewCoversSnapshots` and `SameResultSameSuggestion` are stated for distinct moments.
* The log of a skipped payload gives its date to the next analysis of the older data;
  `DefaultDateOfLoneIngestions` is stated for logs of loads. A daily report without an earlier day is
  compared with the linked snapshot, perhaps of a later day.

`CHECK_DEADLOCK FALSE` stands where the system stops: a rejected or completed recommendation
on the last sighting in `RecommendationSessions`, and calls, analyses and answers used up in the
runs of `QaProject` and `ReviewChains`.

### Fairness

Only `HistorySeed` states liveness. `Fairness` assumes weak fairness of each
step of a call that has started: a thread of the server runs on until it returns or
raises. Nobody is bound to call, to call again or to fail, and each step stays
enabled until taken, so weak fairness is enough. Failures are bounded.
`FairSeedSpec` is the specification with it; the run adds the same condition to
its own next-state relation.

## The proofs

Every theorem holds for all values of the constants that satisfy the assumptions stated with
them; a run shows the same property on a small instance. The assumptions are those the
code makes or enforces: `ConstantsAssumption` (finitely many ranks, reference dates that never decrease with
the rank, a well-typed original payload), `SessionsAssumption`, `SnapshotStoreAssumption`,
`PolicySetIsValid` (what `get_policy_set` refuses otherwise), `QaProjectAssumption` (payloads are datasets,
with finite tables; dates and bounds are numbers), `ScaleAssumption` and `HalvesUpAssumption` of the
numbers of the model. TLC evaluates them in every run. Four theorems have a hypothesis of their own, named
below; the policies of `qa-rules-v1.0.json`, with which the runs are made, satisfy those about policies.

**RecommendationServiceProofs** - `EpisodeInv` is the inductive invariant.
`OneActiveEpisode` alone is not inductive: nothing in it says that the scan for the
*latest* row finds the unresolved one. `OnlyLatestUnresolved` does; it is kept
because a new row is only created when the latest one is resolved or missing
(`UnresolvedIsReused`, `CreatedIsNew`), and its source is the synced snapshot, which
`EpisodeOrder` puts after every other (`synced` is never passed). `ResolutionIsLater`
needs the sightings to show the risk, also in `EpisodeOrder`. From it follow
`OneActiveEpisodeHolds`, `ResolutionIsLaterHolds`, `SyncNeverCollidesHolds`, `ActiveMirrorsSyncedHolds`,
`EachSnapshotCountedOnceHolds` and the action property `ResolvedIsFinalHolds`; `TypeCorrectness` stands by itself.
`ImplementsRiskEpisodesHolds` maps every step to one of the timelines: `Publish` shows risks, a `Sync` opens, sees
or resolves in every timeline at once, and a transition by a human is a stutter.

**RecommendationOutcomesProofs** - `LogInv` says of each journal that its rows continue one another, give the
status and payload of the row when played from the proposal, and name sightings in order. It is proved for
`RecommendationService` and carries over because observers write nothing the others read
(`OutcomesSpecIsService`). A journal only grows at its end and a published snapshot never changes, so the first
human validation, and with it the baseline, is final (`BaselineIsFinalHolds`); `OutcomesInv` then keeps what an
observer has measured right from its reading to its commit and for ever after.

**RecommendationSessionsProofs** - `JournalInv`: the sequences of the journal are 1..n without gap, by the unique
constraint, so a session whose number is still free at its commit numbered after the whole journal. This is why
`StatusIsLastLogged` survives requests that read before others commit, while
`TerminalIsFinal` does not. `JournalExplainsPayloadHolds` adds the payload, column by column: a commit writes a column if
and only if its transition records a change of it, and that transition is the last of the journal.

**SnapshotStoreProofs** - a new row is linked to a
stored row or to none (`Insertable`), and since its id is new no stored row is linked
to it. `LinksAreStored` and `HistoryHasNoLoop` are kept together, because the second
needs the first to know that nobody points at an id not yet stored. For requests that do not meet, `LoneInv` adds
that the only one under way holds the last row of the chain (`ChainOfLoneRequestsHolds`).

**HistorySeedProofs** - `SeedInv` ties the day each call is at to the days stored and gives `HistoryIsLinkedHolds`,
with crashes and any number of callers. While no call meets another, what a call has read is what the tables hold
(`LoneInv`, `ViewIsCurrent`), so its two-step sync is a `Sync` of `RecommendationService`: `LoneSyncsInDateOrderHolds` makes
the contract that service was specified under a theorem about its caller. `UndisturbedInv` adds that
everything up to `synced` has its recommendations, which holds only until a call dies between a commit and its sync
(run `history_interrupted`).

**QaProjectProofs** - `ProjectInv` holds through every interleaving of callers, crashes and the steps of an analysis.
Every snapshot, and the one being drafted, is the assessment of tables that have been read of loaded payloads
(`SnapshotsAreOfReadings`, `DraftIsKnown`). Unless a load fell into the analysis these are all of the data that is
there: what replaces the data deletes the snapshots in the same transaction and marks the analysis under way as
overtaken. That is `SnapshotsAreOfTheDataHolds`, and the theorems that compare a snapshot with the tables, `GoIsCleanHolds`,
`EvidenceIsWholeHolds`, `OverviewCoversSnapshotsHolds`, `AgeingNeverImprovesHolds` and `ReportsTelescopeHolds`, are
about these snapshots; `ProjectTypeOKHolds`, `AdvisersAgreeHolds` and `DeltasExplainScoresHolds` are about all. The
rest is about one assessment, for every payload and every valid set of policies: signals, scores and shares stay in range
(`ScoreBounded`, `QualityBounded`), which gives `ProjectTypeOKHolds`; `AdvisersAgreeHolds` compares the two chains of
conditions; `DeltasExplainScoresHolds` needs that the enabled weights add up to at most 100, so that no score is cut
off, and that totals are linear whatever their order. `GoIsCleanHolds` has the hypothesis
`HasReleasePolicies`: some enabled policy asks for `consecutive_failed_builds > 0` and some enabled policy for
`coverage_percent < 70`, as those of `qa-rules-v1.0.json` do. Without them a GO says nothing of builds.
`OverviewCoversSnapshotsHolds` has the hypothesis `PoliciesAreAsNamed`: the overview filters by what a ticket or build is,
the snapshot by the policies with the names the property cites, and the two meet when these ask for what their names say.
`EvidenceIsWholeHolds` needs `EvidenceInv`: the data were validated, and so was the payload a seeding has in hand, so every
build hangs on its pull request and every ticket on its sprint; and the evidence stored with a snapshot
is dated, so a build without test results is one whose results the analysis could not have seen.
`ReportsTelescopeHolds` needs `ReportInv`: no two snapshots hold one result (`RowsAreApart`), because an analysis that gives a
stored result again stores none. A scope whose snapshots are all `Current` then has one snapshot per date, and a daily report compares the
snapshot of its day with that of the date just before; the sums and unions of the days telescope from date to date
(`DifferencesTelescope`, `NewOnesAppear`, `ResolvedOnesGo`), the last two from the first or last day
that would be a counterexample. `AgeingNeverImprovesHolds` has the hypothesis `PoliciesWorsenWithAge`: the enabled policies on hours
blocked and days overdue ask for more than a number and do not weigh by the distance below one. Every finding
then has one of its own in the later analysis with at least its signal (`MadeUpFor`), so neither the greatest signal
nor the number of findings of a policy falls, and rounding keeps the order; what was stale stays stale, and
freshness is all that confidence can lose. That tickets have ids of their own comes from `EvidenceInv`.

**IngestionProofs** - for ingestions made one at a time, `LoneInv` follows a call from its look-up to its log; between the
transaction and the log committed on its own a crash may lose the log, never make it wrong
(`DefaultDateOfLoneIngestionsHolds`).

**ReviewChainsProofs** - from no assumption on the payloads, and for every interleaving: an answer is linked to the
latest one read before, and until it is inserted others are inserted and resets delete rows, so that nothing
in the tables says what the link will lead to. `ChainInv` adds what does: `created_at` tells all
answers apart, dated ones not yet inserted included (`DatesAreDistinct`), and an answer in hand refers to a
date that no other in hand has and that a committed one has only on the same subject
(`LinksAreSound`). With it the foreign key at the insertion gives `ChainsAreSoundHolds`. For answers given one at a
time (`overlapped` in `SeenSpec`) the one in hand is the last and follows the latest on its subject unless a reset has
deleted them all (`Follows`, `LoneAnswerIsLast`), which gives linear chains (`ChainsAreKeptHolds`).
`AnswersStayHolds` and `AnswersHaveTheirSnapshotHolds` follow from what any step does to the tables
(`AnswersChange`): an answer is inserted under the foreign key to its snapshot and goes with it.
`SameResultSameSuggestion` is about the brief that is made again for a review, perhaps after other data has been loaded
and analysed to the same snapshot: the id of a snapshot digests its facts, and what the suggestion is computed from is
among them. It has the hypothesis `CoveragesAreApart`: no sprint has two coverages of one moment. With two, the facts hold
the first and the brief, computed again from the tables, looks at the last, which is not among the facts.

Sums and the choice of a latest row need induction over data. The library's induction theorems take an operator
as a parameter, which the installed provers cannot instantiate; `LeastExists`, `NumbersByInduction` and
`SubsetsByInduction` state it over sets instead, from the well-foundedness of the natural numbers, and
`MaxIsElement`, `TotalIsSum`, `TotalBounded` and `TotalRenamed` rest on them.

Only model-checked: the liveness of the replay (`CallEnds`), which fairness puts out of the prover's reach. Every other
property that a passing run checks is a theorem.

## Not modelled

Report rendering, the layout of the dashboard, migrations, tools and the declarations
of the API are layout, I/O and declarations. The computation of digests is left out: an id
stands for what it digests, and collisions of SHA-256 are ignored. The parsing of JSON and CSV text
ends at a payload. Of the reports, the lists of recommendations and the counts of human decisions are left
out, of the recommendations their priority, which only sorts them. The project's own payload
risks and reports and its expected anomalies take part in nothing that is decided. A request
that names its own role `SYSTEM` is not explored: no text of the repository says what should happen.
What a review or a decision decides is left out of the chains, and a replay of the demonstration history by an
ingestion with reset out of `HistorySeed`. A datetime with another offset than UTC, which SQLite stores as its
wall-clock time without the offset, is not modelled.
