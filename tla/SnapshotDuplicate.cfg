\* Two requests at once.
SPECIFICATION Spec
CONSTANTS
  Requests = {p1, p2}
  Facts = {f1}
  Dates = {d1, d2}
  MaxClock = 4
  None = None
INVARIANTS
  LoserReusesSnapshot
