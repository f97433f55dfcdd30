\* Three requests at once, two contents of the dataset, three dates.
SPECIFICATION MCSpec
CONSTANTS
  Requests = {p1, p2, p3}
  Facts = {f1, f2}
  Dates = {d1, d2, d3}
  MaxClock = 4
  None = None
SYMMETRY Symmetry
INVARIANTS
  ChainOfLoneRequests
  LinksAreStored
  HistoryHasNoLoop
