\* Two programs, one of them without a registry, and a stranger at the resolver's
\* socket.
SPECIFICATION Spec
CONSTANTS
  p1 = p1
  p2 = p2
  p3 = p3
  Stranger = Stranger
  None = None
  Pid = {p1, p2}
  NoRegistry = {p2}
  LeavesSocket = TRUE
  MaxBreaks = 1
INVARIANTS
  TypeOK
  
  ClosedIsUnrecorded
PROPERTIES
  RecordedBeforeBound
  FreePortIsTaken
  TakenIsServed
  ClosedLetsGo
CHECK_DEADLOCK FALSE
