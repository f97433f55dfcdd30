SPECIFICATION MCSpec
CONSTANTS
  Policies <- QaRulesV1
  HalvesUp <- MCHalvesUp
  Datasets <- AssessedDatasets
  AsOf = {0, 5, 12, 30}
  Callers = {c1}
  NoData = NoData
  NoDraft = NoDraft
  MaxAnalyses = 3
  MaxIngestions = 1
INVARIANTS
  ProjectTypeOK
  AdvisersAgree
  GoIsClean
  AgeingNeverImproves
  DeltasExplainScores
  EvidenceIsWhole
  OverviewCoversSnapshots
  ReportsTelescope
CHECK_DEADLOCK FALSE
