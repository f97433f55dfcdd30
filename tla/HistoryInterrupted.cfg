SPECIFICATION MCSpec
CONSTANTS
  OVERDUE = OVERDUE
  COVERAGE = COVERAGE
  BLOCKED = BLOCKED
  PIPELINE = PIPELINE
  BUG = BUG
  Keys = {OVERDUE, COVERAGE, BLOCKED, PIPELINE, BUG}
  MaxSnapshots = 3
  RefDate <- MCRefDate
  HistoryKeys <- MCHistoryKeys
  TextColumns = {"title"}
  OperationalColumns = {"due_date"}
  Values = {"proposed"}
  Original <- MCOriginal
  HumanRoles = {}
  Null = Null
  Seeders = {s1}
  MaxFailures = 1
INVARIANTS
  SeedIsComplete
