SPECIFICATION MCSpec
CONSTANTS
  Policies <- QaRulesV1
  HalvesUp <- MCHalvesUp
  Datasets <- IngestedDatasets
  AsOf = {0}
  Callers = {c1, c2}
  NoData = NoData
  NoDraft = NoDraft
  MaxAnalyses = 2
  MaxIngestions = 3
INVARIANTS
  SnapshotsAreOfTheData
  DefaultDateOfLoneIngestions
SYMMETRY Symmetry
CHECK_DEADLOCK FALSE
