---------------------------- MODULE IngestionProofs ----------------------------
(*****************************************************************************)
(* The date of an analysis without as_of, for any payloads, policies and     *)
(* number of calls: as long as no two ingestions meet, it is the reference   *)
(* date of the data, or, when the log has been lost or detached, none after  *)
(* it.  The invariant follows a call from its look-up to its log.            *)
(*****************************************************************************)
EXTENDS MCQaProject, QaProjectProofs

Busy == {c \in Callers : pc[c] # "idle"}

IsSuccess(log) == log.ofProject /\ log.status = "success"

\* What a call alone has found out is still so: it has looked up whether there is a
\* project, and what it is about to log has been loaded, or been there before.
LoneCallIsCurrent ==
  /\ \A c, o \in Busy : c = o
  /\ \A c \in Busy :
       /\ Verdict(Datasets[job[c].payload]) = "valid"
       /\ pc[c] = "seeding" => (job[c].existing <=> data # NoData)
       /\ pc[c] = "logging" => data # NoData
       /\ pc[c] = "logging" /\ job[c].status = "success" => job[c].payload = data

\* The logs that belong to the project are of payloads given since it was loaded, and
\* those of a success are of the one that is loaded.
LogsAreOfTheData ==
  /\ data = NoData => \A i \in DOMAIN logs : ~logs[i].ofProject
  /\ data # NoData =>
       /\ Verdict(Datasets[data]) = "valid"
       /\ \A i \in DOMAIN logs :
            IsSuccess(logs[i]) => logs[i].reference = Datasets[data].reference

LoneInv == LoneCallIsCurrent /\ LogsAreOfTheData

IngestionInv == ProjectInv /\ (~overlapped => LoneInv)
--------------------------------------------------------------------------------
(* The property follows from the invariant.                                    *)

\* The latest of moments up to the end of a day is on that day or before.
LEMMA LatestDayBounded ==
  ASSUME NEW moments \in SUBSET Nat, IsFiniteSet(moments), NEW reference \in Nat,
         \A m \in moments : m <= ReferenceDayEnd(reference)
  PROVE  \A day \in LatestDay(moments) : day <= reference
<1> SUFFICES ASSUME NEW day \in LatestDay(moments) PROVE day <= reference
  OBVIOUS
<1>1. moments # {} /\ day = Day(Max(moments))
  BY DEF LatestDay
<1>2. Max(moments) \in moments
  <2>1. moments \in SUBSET Int
    OBVIOUS
  <2> QED
    BY <1>1, <2>1, MaxIsElement
<1>3. Max(moments) \in Nat /\ Max(moments) <= 2 * reference + 1
  BY <1>2 DEF ReferenceDayEnd
<1> DEFINE latest == Max(moments)
<1> HIDE DEF latest
<1>4. latest \in Nat /\ latest <= 2 * reference + 1 => latest \div 2 <= reference
  OBVIOUS
<1> QED
  BY <1>1, <1>3, <1>4 DEF Day, latest

\* What a valid payload has measured or built is not of a later day than its own.
LEMMA GuessIsNoLater ==
  ASSUME NEW p \in Payloads, Verdict(Datasets[p]) = "valid",
         Datasets[p].metrics \cup Datasets[p].builds # {}
  PROVE  \A day \in GuessedDate(Datasets[p]) : day <= Datasets[p].reference
<1> DEFINE d == Datasets[p]
           measured == [m \in d.metrics |-> m.measured]
           started == [b \in d.builds |-> b.started]
<1>1. /\ IsFiniteSet(d.builds) /\ d.builds \subseteq Builds
      /\ IsFiniteSet(d.metrics) /\ d.metrics \subseteq Metrics
      /\ d.reference \in Nat
  BY TablesAreFinite
<1>2. DatasetConsistent(d)
  BY DEF Verdict
<1> HIDE DEF d
<1>3. /\ \A m \in d.metrics : measured[m] \in Nat /\ measured[m] <= ReferenceDayEnd(d.reference)
      /\ \A b \in d.builds : started[b] \in Nat /\ started[b] <= ReferenceDayEnd(d.reference)
  BY <1>1, <1>2 DEF Builds, Metrics, Moments, DatasetConsistent, MetricConsistent, BuildConsistent
<1>4. /\ measured = [m \in d.metrics |-> measured[m]]
      /\ started = [b \in d.builds |-> started[b]]
      /\ {m.measured : m \in d.metrics} = {measured[m] : m \in d.metrics}
      /\ {b.started : b \in d.builds} = {started[b] : b \in d.builds}
  OBVIOUS
<1> HIDE DEF measured, started
<1>5. /\ IsFiniteSet({measured[m] : m \in d.metrics})
      /\ IsFiniteSet({started[b] : b \in d.builds})
  BY <1>1, <1>4, ImageIsFinite
<1>6. /\ {measured[m] : m \in d.metrics} \in SUBSET Nat
      /\ {started[b] : b \in d.builds} \in SUBSET Nat
  BY <1>3
<1>7. /\ \A moment \in {measured[m] : m \in d.metrics} : moment <= ReferenceDayEnd(d.reference)
      /\ \A moment \in {started[b] : b \in d.builds} : moment <= ReferenceDayEnd(d.reference)
  BY <1>3
<1>8. /\ \A day \in LatestDay({measured[m] : m \in d.metrics}) : day <= d.reference
      /\ \A day \in LatestDay({started[b] : b \in d.builds}) : day <= d.reference
  BY <1>1, <1>5, <1>6, <1>7, LatestDayBounded
<1>9. d.metrics \cup d.builds # {}
  BY DEF d
<1> QED
  BY <1>4, <1>8, <1>9 DEF GuessedDate, d

LEMMA InvImpliesDefaultDate == IngestionInv => DefaultDateOfLoneIngestions
<1> SUFFICES ASSUME IngestionInv, ~overlapped, data # NoData
             PROVE  DefaultDateIsThatOfTheData
  BY DEF DefaultDateOfLoneIngestions, DefaultDateIsThatOfTheData
<1>1. /\ logs \in Seq(LogRows) /\ data \in Payloads
      /\ Verdict(Datasets[data]) = "valid"
      /\ \A i \in DOMAIN logs : IsSuccess(logs[i]) => logs[i].reference = Datasets[data].reference
  BY DEF IngestionInv, ProjectInv, AnalysisInv, LoneInv, LogsAreOfTheData
<1>2. CASE LogsOfProject = {}
  <2>1. LatestReferenceDate = GuessedDate(Datasets[data])
    BY <1>2 DEF LatestReferenceDate
  <2> QED
    BY <1>1, <1>2, <2>1, GuessIsNoLater DEF DefaultDateIsThatOfTheData
<1>3. CASE LogsOfProject # {}
  <2>1. LogsOfProject \in SUBSET (1..Len(logs)) /\ Len(logs) \in Nat
    BY <1>1 DEF LogsOfProject
  <2>2. IsFiniteSet(LogsOfProject)
    BY <2>1, IntervalIsFinite
  <2>3. Max(LogsOfProject) \in LogsOfProject
    <3>1. LogsOfProject \in SUBSET Int
      BY <2>1
    <3> QED
      BY <1>3, <2>2, <3>1, MaxIsElement
  <2>4. logs[Max(LogsOfProject)].status = "success" =>
          logs[Max(LogsOfProject)].reference = Datasets[data].reference
    BY <1>1, <2>3 DEF LogsOfProject, IsSuccess
  <2> QED
    BY <1>3, <2>4 DEF DefaultDateIsThatOfTheData, LatestReferenceDate
<1> QED
  BY <1>2, <1>3
--------------------------------------------------------------------------------
(* The invariant.                                                              *)

\* A step moves no more than one caller.
LEMMA OthersStay ==
  ASSUME JobsAreKnown, NEW c \in Callers, Ingest(c), NEW o \in Callers, o # c
  PROVE  pc'[o] = pc[o] /\ job'[o] = job[o]
BY DEF Ingest, Refuse, Unhandled, LookUp, Skip, Load, LoadError, WriteLog, Die, ToLog, EndCall,
       JobsAreKnown

\* As long as no two calls are under way, a step is that of the only one.
LEMMA StaysAlone ==
  ASSUME JobsAreKnown, \A c, o \in Busy : c = o, SeenNext, ~overlapped'
  PROVE  \A c, o \in Busy' : c = o
<1> SUFFICES ASSUME NEW p \in Busy', NEW q \in Busy', p # q PROVE FALSE
  OBVIOUS
<1>1. pc' = pc \/ \E c \in Callers : Ingest(c)
  BY DEF SeenNext, ProjectNext, Analyses, BeginAnalysis, ReadTable, LinkSnapshot, InsertSnapshot,
         EndAnalysis, ingestVars
<1>2. \/ pc' = pc
      \/ \E c \in Callers : \A o \in Callers : o # c => pc'[o] = pc[o]
  BY <1>1, OthersStay
<1>3. \E c : Busy' \subseteq Busy \cup {c}
  BY <1>2 DEF Busy
<1>4. Busy' = {p, q}
  BY <1>3
<1>5. Cardinality(Busy') > 1
  BY <1>4, TwoAreMoreThanOne
<1> QED
  BY <1>5 DEF SeenNext, Busy

\* A log that is added is the last row, a log that is detached is of no project.
LEMMA RowsOfLonger ==
  ASSUME logs \in Seq(LogRows), NEW log
  PROVE  \A i \in DOMAIN Append(logs, log) :
           \/ i \in DOMAIN logs /\ Append(logs, log)[i] = logs[i]
           \/ Append(logs, log)[i] = log
OBVIOUS

\* The step of a call, the only one before and after.
LEMMA LoneCallKeepsInv ==
  ASSUME ProjectInv, LoneInv, NEW c \in Callers, Ingest(c), \A p, q \in Busy' : p = q
  PROVE  LoneInv'
<1>1. /\ JobsAreKnown /\ DOMAIN job = Callers /\ DOMAIN pc = Callers
      /\ logs \in Seq(LogRows) /\ data \in Payloads \cup {NoData}
      /\ LoneCallIsCurrent /\ LogsAreOfTheData /\ NoData \notin Payloads
  BY QaProjectAssumption DEF ProjectInv, AnalysisInv, JobsAreKnown, LoneInv, QaProjectAssumption
<1>2. \A o \in Callers \ {c} : pc'[o] = pc[o] /\ job'[o] = job[o]
  BY <1>1, OthersStay
<1>3. ASSUME data' = data, logs' = logs PROVE LogsAreOfTheData'
  BY <1>1, <1>3 DEF LogsAreOfTheData, IsSuccess
<1>4. ASSUME c \in Busy' PROVE Busy' = {c}
  BY <1>4
<1>5. ASSUME c \notin Busy', data' = data PROVE LoneCallIsCurrent'
  <2> SUFFICES ASSUME NEW o \in Busy'
               PROVE  /\ Verdict(Datasets[job'[o].payload]) = "valid"
                      /\ pc'[o] = "seeding" => (job'[o].existing <=> data # NoData)
                      /\ pc'[o] = "logging" => data # NoData
                      /\ pc'[o] = "logging" /\ job'[o].status = "success"
                           => job'[o].payload = data
    BY <1>5 DEF LoneCallIsCurrent
  <2>1. o \in Busy /\ pc'[o] = pc[o] /\ job'[o] = job[o]
    BY <1>2, <1>5 DEF Busy
  <2> QED
    BY <1>1, <2>1 DEF LoneCallIsCurrent
<1>6. ASSUME NEW payload \in Payloads, Refuse(c, payload) PROVE LoneInv'
  <2>1. /\ data' = data /\ pc' = pc /\ c \notin Busy'
        /\ logs' = Append(logs, Log(FALSE, "failed", Null))
    BY <1>6 DEF Refuse, Begin, serverVars, Busy
  <2>2. LogsAreOfTheData'
    BY <1>1, <2>1, RowsOfLonger DEF LogsAreOfTheData, IsSuccess, Log
  <2> QED
    BY <1>5, <2>1, <2>2 DEF LoneInv
<1>7. ASSUME NEW payload \in Payloads, Unhandled(c, payload) PROVE LoneInv'
  <2>1. data' = data /\ logs' = logs /\ c \notin Busy'
    BY <1>7 DEF Unhandled, Begin, serverVars, Busy
  <2> QED
    BY <1>3, <1>5, <2>1 DEF LoneInv
<1>8. ASSUME NEW payload \in Payloads, NEW reset \in BOOLEAN, LookUp(c, payload, reset)
      PROVE  LoneInv'
  <2>1. /\ data' = data /\ logs' = logs
        /\ pc'[c] = "seeding" /\ job'[c].payload = payload
        /\ job'[c].existing = (data # NoData) /\ Verdict(Datasets[payload]) = "valid"
    BY <1>1, <1>8 DEF LookUp, serverVars
  <2>2. Busy' = {c}
    BY <1>4, <2>1 DEF Busy
  <2>3. LoneCallIsCurrent'
    BY <2>1, <2>2 DEF LoneCallIsCurrent
  <2> QED
    BY <1>3, <2>1, <2>3 DEF LoneInv
<1>9. ASSUME Skip(c) PROVE LoneInv'
  <2>1. /\ data' = data /\ logs' = logs /\ c \in Busy /\ pc[c] = "seeding" /\ job[c].existing
        /\ pc'[c] = "logging" /\ job'[c].payload = job[c].payload /\ job'[c].status = "skipped"
    BY <1>1, <1>9 DEF Skip, ToLog, serverVars, Busy
  <2>2. Busy' = {c}
    BY <1>4, <2>1 DEF Busy
  <2>3. LoneCallIsCurrent'
    BY <1>1, <2>1, <2>2 DEF LoneCallIsCurrent
  <2> QED
    BY <1>3, <2>1, <2>3 DEF LoneInv
<1>10. ASSUME Load(c) PROVE LoneInv'
  <2>1. /\ pc[c] = "seeding" /\ c \in Busy /\ data' = job[c].payload /\ data' \in Payloads
        /\ pc'[c] = "logging" /\ job'[c].payload = job[c].payload
        /\ ~job[c].existing => logs' = logs
        /\ job[c].existing =>
             logs' = [i \in DOMAIN logs |-> [logs[i] EXCEPT !.ofProject = FALSE]]
    BY <1>1, <1>10 DEF Load, ToLog, Busy, JobsAreKnown
  <2>2. Busy' = {c} /\ Verdict(Datasets[job[c].payload]) = "valid" /\ data' # NoData
    BY <1>1, <1>4, <2>1 DEF Busy, LoneCallIsCurrent
  <2>3. LoneCallIsCurrent'
    BY <2>1, <2>2 DEF LoneCallIsCurrent
  <2>4. \A i \in DOMAIN logs' : ~logs'[i].ofProject
    <3>1. CASE job[c].existing
      <4>1. \A i \in DOMAIN logs : logs[i] \in LogRows
        BY <1>1
      <4> QED
        BY <2>1, <3>1, <4>1 DEF LogRows
    <3>2. CASE ~job[c].existing
      BY <1>1, <2>1, <3>2 DEF LoneCallIsCurrent, LogsAreOfTheData
    <3> QED
      BY <3>1, <3>2
  <2>5. LogsAreOfTheData'
    BY <2>1, <2>2, <2>4 DEF LogsAreOfTheData, IsSuccess
  <2> QED
    BY <2>3, <2>5 DEF LoneInv
<1>11. ASSUME WriteLog(c) PROVE LoneInv'
  <2>1. /\ data' = data /\ pc[c] = "logging" /\ c \in Busy /\ c \notin Busy'
        /\ logs' = Append(logs, Log(TRUE, job[c].status, Datasets[job[c].payload].reference))
    BY <1>1, <1>11 DEF WriteLog, EndCall, serverVars, Busy
  <2>2. data # NoData /\ (job[c].status = "success" => job[c].payload = data)
    BY <1>1, <2>1 DEF LoneCallIsCurrent
  <2>3. LogsAreOfTheData'
    BY <1>1, <2>1, <2>2, RowsOfLonger DEF LogsAreOfTheData, IsSuccess, Log
  <2> QED
    BY <1>5, <2>1, <2>3 DEF LoneInv
<1>12. ASSUME LoadError(c) \/ Die(c) PROVE LoneInv'
  <2>1. data' = data /\ logs' = logs /\ c \notin Busy'
    BY <1>1, <1>12 DEF LoadError, Die, EndCall, serverVars, Busy
  <2> QED
    BY <1>3, <1>5, <2>1 DEF LoneInv
<1> QED
  BY <1>6, <1>7, <1>8, <1>9, <1>10, <1>11, <1>12 DEF Ingest

LEMMA NextIngestionInv ==
  IngestionInv /\ [SeenNext]_<<projectVars, overlapped>> => IngestionInv'
<1> SUFFICES ASSUME IngestionInv, [SeenNext]_<<projectVars, overlapped>> PROVE IngestionInv'
  OBVIOUS
<1>1. ProjectInv /\ ProjectInv'
  BY ProjectStepInv DEF IngestionInv, SeenNext
<1>2. ASSUME LoneInv, UNCHANGED <<data, logs, pc, job>> PROVE LoneInv'
  BY <1>2 DEF LoneInv, LoneCallIsCurrent, LogsAreOfTheData, Busy, IsSuccess
<1>3. CASE SeenNext
  <2> SUFFICES ASSUME ~overlapped' PROVE LoneInv'
    BY <1>1 DEF IngestionInv
  <2>1. ~overlapped /\ LoneInv
    BY <1>3 DEF SeenNext, IngestionInv
  <2>2. CASE Analyses
    BY <1>2, <2>1, <2>2 DEF Analyses, BeginAnalysis, ReadTable, LinkSnapshot, InsertSnapshot,
                            EndAnalysis, ingestVars
  <2>3. ASSUME NEW c \in Callers, Ingest(c) PROVE LoneInv'
    <3>1. \A p, q \in Busy' : p = q
      BY <1>1, <1>3, <2>1, StaysAlone DEF ProjectInv, LoneInv, LoneCallIsCurrent
    <3> QED
      BY <1>1, <2>1, <2>3, <3>1, LoneCallKeepsInv
  <2> QED
    BY <1>3, <2>2, <2>3 DEF SeenNext, ProjectNext
<1>4. CASE UNCHANGED <<projectVars, overlapped>>
  BY <1>1, <1>2, <1>4 DEF IngestionInv, projectVars, ingestVars
<1> QED
  BY <1>3, <1>4

\* For any payloads and any number of calls, reset, skipped, failed or cut short, made
\* one at a time: an analysis without as_of is made at the reference date of the data
\* when the latest log is of its loading; with no log it is made at none after it.
THEOREM DefaultDateOfLoneIngestionsHolds == SeenSpec => []DefaultDateOfLoneIngestions
<1>1. MCInit => IngestionInv
  <2> SUFFICES ASSUME MCInit PROVE IngestionInv
    OBVIOUS
  <2>1. ProjectInv
    BY ProjectInitInv DEF MCInit
  <2>2. Busy = {} /\ logs = <<>> /\ data = NoData
    BY DEF MCInit, ProjectInit, Busy
  <2> QED
    BY <2>1, <2>2 DEF IngestionInv, LoneInv, LoneCallIsCurrent, LogsAreOfTheData
<1> QED
  BY <1>1, NextIngestionInv, InvImpliesDefaultDate, PTL DEF SeenSpec
================================================================================
