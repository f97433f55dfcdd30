SPECIFICATION Spec
CONSTANTS
  Sessions = {p1, p2}
  TextColumns = {"title", "description"}
  OperationalColumns = {"due_date"}
  Values = {"proposed", "edited"}
  Original <- MCOriginal
  MaxSightings = 2
  Null = Null
SYMMETRY SessionSymmetry
INVARIANTS
  StatusIsLastLogged
  FromStatusWasReached
  JournalExplainsPayload
PROPERTIES
  JournalIsAppendOnly
  SightingsAreKept
\* A rejected or completed recommendation takes no further request.
CHECK_DEADLOCK FALSE
