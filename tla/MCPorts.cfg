\* One program, two ports, two addresses, two rewrites by an older program; a
\* write of either file may fail.
SPECIFICATION BusySpec
CONSTANTS
  p1 = p1
  p2 = p2
  None = None
  Pid = {p1}
  Name = {"db"}
  Ip = {10, 11}
  Public = {80}
  Mine <- TwoAlone
  MaxStrips = 2
  MaxSets = 2
  Faults = TRUE
INVARIANTS
  TypeOK
PROPERTIES
  Healed
CHECK_DEADLOCK FALSE
