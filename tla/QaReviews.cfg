SPECIFICATION MCSpec
CONSTANTS
  Policies <- QaRulesV1
  HalvesUp <- MCHalvesUp
  Datasets <- ReviewedDatasets
  AsOf = {0}
  Callers = {c1}
  NoData = NoData
  NoDraft = NoDraft
  MaxAnalyses = 2
  MaxIngestions = 2
  Users = {u1, u2}
  NoAnswer = NoAnswer
  MaxAnswers = 2
INVARIANTS
  AnswersHaveTheirSnapshot
  ChainsAreKept
PROPERTIES
  AnswersStay
SYMMETRY Symmetry
CHECK_DEADLOCK FALSE
