\* Two programs, two qualified names that hash to one slot and a well-known one.
SPECIFICATION Spec
CONSTANTS
  p1 = p1
  p2 = p2
  p3 = p3
  aws = aws
  db = db
  web = web
  None = None
  Octet = 4
  BlockThirds = 2
  ApexBase = 2
  DynamicBase = 3
  Apex = {aws}
  Qualified = {db, web}
  ApexOffset <- SmallApexOffset
  Hash <- Collide
  Pid = {p1, p2}
  Recycled = {}
  Version <- SameVersion
  Dir <- OneEach
  Asked = {1, 5}
  Target = {t1}
  Cert = {}
  Stack = {}
INVARIANTS
  TypeOK
  OwnAddress
  ViewAgrees
  UpdateSafe
PROPERTIES
  ImplementsZone
CHECK_DEADLOCK FALSE
SYMMETRY Programs
