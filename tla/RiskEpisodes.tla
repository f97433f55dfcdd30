---------------------------- MODULE RiskEpisodes ----------------------------
(***************************************************************************)
(* What the recommendations promise about risks, as one timeline per risk  *)
(* key: an episode opens when the risk appears, follows it from snapshot   *)
(* to snapshot while it lasts, and closes on the first snapshot of a later *)
(* day that no longer shows it.  A risk that comes back opens a new one.   *)
(* RecommendationService implements it with rows of a table.               *)
(***************************************************************************)
EXTENDS Naturals

CONSTANTS Keys, MaxSnapshots, RefDate

Snapshots == 1..MaxSnapshots

VARIABLES
  published, openKeys,  \* the snapshots stored, with their open risks
  synced,               \* the last one the timelines take into account
  active,               \* the open episode of each key (source 0: none)
  closed                \* the closed episodes of each key

vars == <<published, openKeys, synced, active, closed>>

NoEpisode == [source |-> 0, seen |-> 0]

Init ==
  /\ published = 0
  /\ openKeys = [s \in Snapshots |-> {}]
  /\ synced = 0
  /\ active = [k \in Keys |-> NoEpisode]
  /\ closed = [k \in Keys |-> {}]

Publish(keys) ==
  /\ published < MaxSnapshots
  /\ published' = published + 1
  /\ openKeys' = [openKeys EXCEPT ![published + 1] = keys]
  /\ UNCHANGED <<synced, active, closed>>

\* Snapshot s no longer shows the risk of the open episode of k, on a later day.
Over(k, s) ==
  /\ active[k] # NoEpisode
  /\ k \notin openKeys[s]
  /\ RefDate[active[k].seen] < RefDate[s]

\* The next episode of k: opened, seen again, closed or left alone.
Following(k, s) ==
  CASE k \in openKeys[s] /\ active[k] = NoEpisode -> [source |-> s, seen |-> s]
    [] k \in openKeys[s] /\ active[k] # NoEpisode -> [active[k] EXCEPT !.seen = s]
    [] Over(k, s)                                 -> NoEpisode
    [] OTHER                                      -> active[k]

Closing(k, s) ==
  IF Over(k, s)
  THEN {[source |-> active[k].source, seen |-> active[k].seen, resolved |-> s]}
  ELSE {}

Observe(s) ==
  /\ s \in 1..published
  /\ synced <= s
  /\ synced' = s
  /\ active' = [k \in Keys |-> Following(k, s)]
  /\ closed' = [k \in Keys |-> closed[k] \cup Closing(k, s)]
  /\ UNCHANGED <<published, openKeys>>

Next ==
  \/ \E keys \in SUBSET Keys : Publish(keys)
  \/ \E s \in Snapshots : Observe(s)

Spec == Init /\ [][Next]_vars
=============================================================================
