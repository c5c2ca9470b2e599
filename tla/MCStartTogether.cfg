\* Two daemons start together on a fresh home.
SPECIFICATION Spec
CONSTANTS
  d1 = d1
  d2 = d2
  r = r
  door = door
  None = None
  Broken = Broken
  Loader = {d1, d2}
  Rotator = {r}
  Door = {door}
  MaxCalls = 2
  MaxLeafs = 0
  MaxFaults = 0
INVARIANTS
  StartTogether
CHECK_DEADLOCK FALSE
