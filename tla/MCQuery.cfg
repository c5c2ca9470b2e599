\* A client here and one away; a name of the zone, a domain and a wildcard over it.
SPECIFICATION Spec
CONSTANTS
  here = here
  away = away
  isp = isp
  slow = slow
  stub = stub
  None = None
  NoHost = NoHost
  Label = {"*", "dev", "acme", "com", "sqs", "aws", "doze"}
  Suffix = "doze"
  Star = "*"
  Client = {here, away}
  Here = {here}
  Host <- Hosts
  Want <- Wants
  Name <- Names
  Tier <- Tiers
  Server = {isp, slow, stub}
  Stub = {stub}
  Config <- Lists
  Says <- Answers
  RelayTTL = 2
  MaxSwitch = 1
INVARIANTS
  OwnsMostSpecific
  OnlyOthersLeave
  RelayedCapped
PROPERTIES
  Answered
  Reached
CHECK_DEADLOCK FALSE
