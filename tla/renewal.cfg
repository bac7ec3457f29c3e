\* Expected to fail: see the comment of the property.
SPECIFICATION FairSpec
CONSTANTS
  s1 = s1
  s2 = s2
  s3 = s3
  c1 = c1
  c2 = c2
  c3 = c3
  a = a
  b = b
  Common = Common
  Null = Null
  Servers = {s1, s2}
  Clients = {c1}
  ChannelNames = {Common, a}
  Neighbours <- Complete
  Home <- Spread
  Username <- OwnNames
  PrefixPairs <- NoPrefix
  Ids = {1}
  FreshIds = TRUE
  MaxIds = 3
  Min1 = 1
  Min2 = 2
  Commands = {"say"}
  Rejoin = FALSE
  MaxCommands = 1
  Faults = {}
  MaxFaults = 0
  Timing = "prompt"
  MaxQueue = 1
PROPERTIES
  JoinsRenewed
CHECK_DEADLOCK FALSE
