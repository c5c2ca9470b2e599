\* Two programs take turns at one name while the daemon reads the files: one listens
\* on a port of it, the other has the front door.
SPECIFICATION CSpec
CONSTANTS
  p1 = p1
  p2 = p2
  None = None
  Pid = {p1, p2}
  Name = {"db"}
  Ip = {10}
  Public = {80}
  Mine <- OneListens
  Gateway = 1
  ClientPort = {11, 31, 80}
  FrontDoor = 80
  Doors = {p2}
  MaxStrips = 0
  MaxSets = 1
  Faults = FALSE
INVARIANTS
  NoForeignPorts
  TableCurrent
  TableOwn
  AnswersReturn
PROPERTIES
  DeadForgotten
CHECK_DEADLOCK FALSE
