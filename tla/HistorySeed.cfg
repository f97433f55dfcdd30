\* Two callers replay the first four days, and two calls die anywhere.
SPECIFICATION MCSpec
CONSTANTS
  OVERDUE = OVERDUE
  COVERAGE = COVERAGE
  BLOCKED = BLOCKED
  PIPELINE = PIPELINE
  BUG = BUG
  Keys = {OVERDUE, COVERAGE, BLOCKED, PIPELINE, BUG}
  MaxSnapshots = 4
  RefDate <- MCRefDate
  HistoryKeys <- MCHistoryKeys
  TextColumns = {"title"}
  OperationalColumns = {"due_date"}
  Values = {"proposed"}
  Original <- MCOriginal
  HumanRoles = {}
  Null = Null
  Seeders = {s1, s2}
  MaxFailures = 2
INVARIANTS
  HistoryIsLinked
  SeedIsCompleteUnlessDisturbed
PROPERTIES
  LoneSyncsInDateOrder
  CallEnds
