SPECIFICATION Spec
CONSTANTS
  Requests = {r1, r2, r3}
  Endpoints = {"llm", "jev"}
  Keys = {k1, k2}
  Models = {m1, m2}
  NoKey = none
  Unnamed = unnamed
  Other = other
  NoRequest = norequest
  MaxModels = 1
  MaxLabels = 1
  Capacity = 2
CONSTRAINT Small
SYMMETRY Interchangeable
INVARIANTS InFlightIsExact BooksBalance RecentIsLatest
