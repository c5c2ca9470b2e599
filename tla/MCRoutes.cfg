\* Two projects and two domains, on either platform.
SPECIFICATION Spec
CONSTANTS
  p1 = p1
  p2 = p2
  d1 = d1
  d2 = d2
  Project = {p1, p2}
  Domain = {d1, d2}
SYMMETRY Symmetric
INVARIANTS
  Remembered
PROPERTIES
  ClaimKept
  RouteKept
CHECK_DEADLOCK FALSE
