\* Two daemons start, the authority is rotated twice, the front door serves.
SPECIFICATION Spec
CONSTANTS
  d1 = d1
  d2 = d2
  r = r
  door = door
  None = None
  Broken = Broken
  Loader = {d1, d2}
  Rotator = {r}
  Door = {door}
  MaxCalls = 3
  MaxLeafs = 1
  MaxFaults = 1
INVARIANTS
  TypeOK
  RotatedRemembered
  ServedVerifies
PROPERTIES
  NeverReplaced
  FollowsRoot
CHECK_DEADLOCK FALSE
