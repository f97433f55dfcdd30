\* Two risk keys through appearance, recurrence and resolution; no human request.
SPECIFICATION Spec
CONSTANTS
  k1 = k1
  k2 = k2
  Keys = {k1, k2}
  MaxSnapshots = 5
  RefDate <- MCRefDate
  TextColumns = {"title"}
  OperationalColumns = {"due_date"}
  Values = {"proposed"}
  Original <- MCOriginal
  HumanRoles = {}
  Null = Null
INVARIANTS
  OneActiveEpisode
  ActiveMirrorsSynced
  ResolutionIsLater
  EachSnapshotCountedOnce
  SyncNeverCollides
PROPERTIES
  ResolvedIsFinal
  ImplementsRiskEpisodes
