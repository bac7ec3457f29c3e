\* The line of start_servers.sh with a user at each end; three Says on two channels.
SPECIFICATION Spec
CONSTANTS
  s1 = s1
  s2 = s2
  s3 = s3
  c1 = c1
  c2 = c2
  c3 = c3
  a = a
  b = b
  Common = Common
  Null = Null
  Servers = {s1, s2, s3}
  Clients = {c1, c2}
  ChannelNames = {Common, a}
  Neighbours <- Line
  Home <- Ends
  Username <- OwnNames
  PrefixPairs <- NoPrefix
  Ids = {1, 2, 3}
  FreshIds = TRUE
  MaxIds = 3
  Min1 = 1
  Min2 = 2
  Commands = {"say", "join", "switch", "list"}
  Rejoin = FALSE
  MaxCommands = 2
  Faults = {}
  MaxFaults = 0
  Timing = "still"
  MaxQueue = 1
INVARIANTS
  NobodyDies
PROPERTIES
  LeaveMeansNobodyUnlessCut
  PassedOnUnlessCut
