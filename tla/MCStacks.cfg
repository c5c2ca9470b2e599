\* Three programs, two of one project and one with a newer format; two pids are
\* used again.
SPECIFICATION Spec
CONSTANTS
  p1 = p1
  p2 = p2
  p3 = p3
  aws = aws
  db = db
  web = web
  None = None
  Octet = 4
  BlockThirds = 2
  ApexBase = 2
  DynamicBase = 3
  Apex = {aws}
  Qualified = {}
  ApexOffset <- SmallApexOffset
  Hash <- Collide
  Pid = {p1, p2, p3}
  Recycled = {p1, p2}
  Version <- WithNewer
  Dir <- TwoShare
  Asked = {}
  Target = {}
  Cert = {"own"}
  Stack = {"shop"}
PROPERTIES
  StackStays
  FormatNeverLowered
CHECK_DEADLOCK FALSE
