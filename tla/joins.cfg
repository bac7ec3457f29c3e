\* A triangle; a channel is created on two sides at once, Common is left.
SPECIFICATION FairSpec
CONSTANTS
  s1 = s1
  s2 = s2
  s3 = s3
  c1 = c1
  c2 = c2
  c3 = c3
  a = a
  b = b
  Common = Common
  Null = Null
  Servers = {s1, s2, s3}
  Clients = {c1, c2}
  ChannelNames = {Common, a}
  Neighbours <- Complete
  Home <- Spread
  Username <- OwnNames
  PrefixPairs <- NoPrefix
  Ids = {1, 2}
  FreshIds = TRUE
  MaxIds = 3
  Min1 = 1
  Min2 = 2
  Commands = {"join", "leave"}
  Rejoin = FALSE
  MaxCommands = 1
  Faults = {}
  MaxFaults = 0
  Timing = "still"
  MaxQueue = 1
INVARIANTS
  JoinBroadcast
PROPERTIES
  TrafficEnds
