SPECIFICATION Spec
CONSTANTS
  c1 = c1  c2 = c2  c3 = c3  p1 = p1  p2 = p2  s1 = s1  s2 = s2
  r1 = r1  r2 = r2  b1 = b1  b2 = b2
  Call <- Calls2
  Process = {p1}
  Session = {s1}
  Request = {r1}
  Bundle = {b1}
  Postgres = TRUE
  HasMemory = FALSE
  DrainLimit = 1
  Faults <- AllFaults
SYMMETRY Symmetry
INVARIANT StoreErrorChangesNothing
