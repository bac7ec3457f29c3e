\* Expected to fail: see the comment of the property.
SPECIFICATION Spec
CONSTANTS
  s1 = s1
  s2 = s2
  s3 = s3
  c1 = c1
  c2 = c2
  c3 = c3
  a = a
  b = b
  Common = Common
  Null = Null
  Servers = {s1, s2}
  Clients = {c1, c2}
  ChannelNames = {Common, a}
  Neighbours <- Complete
  Home <- Spread
  Username <- OwnNames
  PrefixPairs <- NoPrefix
  Ids = {1, 2}
  FreshIds = TRUE
  MaxIds = 3
  Min1 = 1
  Min2 = 2
  Commands = {"join", "leave"}
  Rejoin = FALSE
  MaxCommands = 2
  Faults = {}
  MaxFaults = 0
  Timing = "still"
  MaxQueue = 1
PROPERTIES
  LeaveRemovesNamed
CHECK_DEADLOCK FALSE
