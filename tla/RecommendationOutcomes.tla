------------------------- MODULE RecommendationOutcomes -------------------------
(*****************************************************************************)
(* GET /recommendations/{id}/outcome (app/recommendation_outcome_service.py) *)
(* beside the syncs and the human requests: observers measure what became of *)
(* a risk between the snapshot of its first human validation and a later     *)
(* one, and store the measure once.                                          *)
(*                                                                           *)
(* An observer's SELECTs are one step: the rows they read (the first         *)
(* validation, snapshots) are never changed by anyone, which BaselineIsFinal *)
(* checks.  Between them and the commit anything may happen.                 *)
(*****************************************************************************)
EXTENDS RecommendationService, Functions

CONSTANTS
  Observers,    \* threads serving the endpoint
  PolicyOf,     \* policy_id of each risk key
  Level,        \* contribution of each policy to a snapshot where it is violated
  Incomplete    \* snapshots with missing information

Policies == {PolicyOf[k] : k \in Keys}

ASSUME OutcomesAssumption ==
  /\ Level \in [Snapshots -> [Policies -> Nat \ {0}]]
  /\ Incomplete \subseteq Snapshots

VARIABLES
  outcomes,  \* rows of recommendation_outcomes
  measure    \* what each observer is about to insert, Null when it is idle

outcomeVars == <<vars, outcomes, measure>>

Outcomes ==
  [rec : Ids, baseline : Snapshots, observed : Snapshots,
   status : {"IMPROVEMENT_OBSERVED", "NO_IMPROVEMENT_OBSERVED", "INSUFFICIENT_DATA"}]
---------------------------------------------------------------------------------

\* _policies and _contributions of a snapshot, and its score: the contributions
\* of the violated policies (the cap at 100 is left out).
OpenPolicies(s) == {PolicyOf[k] : k \in openKeys[s]}

Contribution(s, policy) == IF policy \in OpenPolicies(s) THEN Level[s][policy] ELSE 0

Score(s) == SumFunction([policy \in Policies |-> Contribution(s, policy)])

\* _human_baseline_transition looks for the first of these.
IsHumanValidation(t) == t.to \in {"ACCEPTED", "MODIFIED"} /\ t.role # "SYSTEM"

HumanValidations(r) == {i \in 1..Len(log[r]) : IsHumanValidation(log[r][i])}

\* Faults: the snapshot on which the risk was last seen, or that of the last
\* transition.
LastSighting(r) == lastSeen[r]

LastTransition(r) == log[r][Len(log[r])].snapshot

\* The snapshot of the first human validation.
Baseline(r) == log[r][CHOOSE i \in HumanValidations(r) :
                        \A j \in HumanValidations(r) : i <= j].snapshot

\* Fault: a snapshot stored after the baseline, be it of the same day.
LaterStored(s) == {t \in 1..published : s < t}

\* _observed_snapshot: the one the request names, or else the newest, must have
\* a later reference date.
Later(s) == {t \in 1..published : RefDate[s] < RefDate[t]}

PolicyImproved(policy, before, after) ==
  \/ policy \in OpenPolicies(before) \ OpenPolicies(after)
  \/ Contribution(after, policy) < Contribution(before, policy)

\* Fault: the two snapshots are swapped.
AssessSwapped(r, before, after) ==
  IF {before, after} \cap Incomplete # {} THEN "INSUFFICIENT_DATA"
  ELSE IF \/ Score(before) < Score(after)
          \/ PolicyImproved(PolicyOf[KeyOf(r)], after, before)
       THEN "IMPROVEMENT_OBSERVED" ELSE "NO_IMPROVEMENT_OBSERVED"

\* _observation_from_snapshots.
Assess(r, before, after) ==
  IF {before, after} \cap Incomplete # {} THEN "INSUFFICIENT_DATA"
  ELSE IF \/ Score(after) < Score(before)
          \/ PolicyImproved(PolicyOf[KeyOf(r)], before, after)
       THEN "IMPROVEMENT_OBSERVED" ELSE "NO_IMPROVEMENT_OBSERVED"

Measured(r, s) == \E o \in outcomes : o.rec = r /\ o.observed = s
---------------------------------------------------------------------------------

OutcomesInit ==
  /\ Init
  /\ outcomes = {}
  /\ measure = [p \in Observers |-> Null]

\* The SELECTs of recommendation_outcome.  Without a human validation or a later
\* snapshot the answer is NOT_YET_MEASURABLE, a pair already measured is
\* answered from its row, and nothing is stored.
Observe(p, r, s) ==
  /\ measure[p] = Null
  /\ r \in Episodes
  /\ HumanValidations(r) # {}
  /\ s \in Later(Baseline(r))
  /\ ~Measured(r, s)
  /\ measure' = [measure EXCEPT ![p] =
       [rec |-> r, baseline |-> Baseline(r), observed |-> s,
        status |-> Assess(r, Baseline(r), s)]]
  /\ UNCHANGED <<vars, outcomes>>

Store(p) ==
  /\ measure[p] # Null
  /\ ~Measured(measure[p].rec, measure[p].observed)
  /\ outcomes' = outcomes \cup {measure[p]}
  /\ measure' = [measure EXCEPT ![p] = Null]
  /\ UNCHANGED vars

\* Another observer has stored the pair meanwhile: the unique constraint and the
\* deterministic id refuse the row, and the error leaves the endpoint.
StoreConflict(p) ==
  /\ measure[p] # Null
  /\ Measured(measure[p].rec, measure[p].observed)
  /\ measure' = [measure EXCEPT ![p] = Null]
  /\ UNCHANGED <<vars, outcomes>>

OutcomesNext ==
  \/ Next /\ UNCHANGED <<outcomes, measure>>
  \/ \E p \in Observers :
       \/ \E r \in Ids, s \in Snapshots : Observe(p, r, s)
       \/ Store(p) \/ StoreConflict(p)

OutcomesSpec == OutcomesInit /\ [][OutcomesNext]_outcomeVars
---------------------------------------------------------------------------------
(* Properties.                                                                  *)

\* What is stored is measured from a decision that a human took, on a snapshot
\* of a later day than the one the human had seen.
OutcomeFollowsHumanDecision ==
  \A o \in outcomes :
    /\ \E i \in 1..Len(log[o.rec]) :
         /\ log[o.rec][i].to \in {"ACCEPTED", "MODIFIED"}
         /\ log[o.rec][i].role # "SYSTEM"
         /\ log[o.rec][i].snapshot = o.baseline
    /\ RefDate[o.baseline] < RefDate[o.observed]

\* Measuring again gives what is stored, and what is about to be: neither a sync
\* nor a transition nor a new snapshot changes a past measure.
ResultIsRepeatable ==
  \A o \in outcomes \cup {measure[p] : p \in {q \in Observers : measure[q] # Null}} :
    /\ o.baseline = Baseline(o.rec)
    /\ o.status = Assess(o.rec, Baseline(o.rec), o.observed)

\* The absence of an improvement means that the policy of the recommendation was
\* violated on the baseline and still is, as much: a risk that is gone is never
\* reported as not improved.
NoImprovementMeansStillViolated ==
  \A o \in outcomes : o.status = "NO_IMPROVEMENT_OBSERVED" =>
    LET policy == PolicyOf[KeyOf(o.rec)]
    IN  /\ policy \in OpenPolicies(o.baseline) \cap OpenPolicies(o.observed)
        /\ Contribution(o.baseline, policy) <= Contribution(o.observed, policy)

\* The first human validation of a recommendation stays the first.
BaselineIsFinal ==
  [][\A r \in Episodes : HumanValidations(r) # {} => Baseline(r)' = Baseline(r)]_outcomeVars
=================================================================================
