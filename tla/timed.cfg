\* Minutes pass, servers and network keep up, users join and say, one server may
\* be killed.
SPECIFICATION FairSpec
CONSTANTS
  s1 = s1
  s2 = s2
  s3 = s3
  c1 = c1
  c2 = c2
  c3 = c3
  a = a
  b = b
  Common = Common
  Null = Null
  Servers = {s1, s2}
  Clients = {c1, c2}
  ChannelNames = {Common, a}
  Neighbours <- Complete
  Home <- Spread
  Username <- OwnNames
  PrefixPairs <- NoPrefix
  Ids = {1}
  FreshIds = TRUE
  MaxIds = 3
  Min1 = 1
  Min2 = 2
  Commands = {"join", "say"}
  Rejoin = FALSE
  MaxCommands = 2
  Faults = {"kill"}
  MaxFaults = 1
  Timing = "prompt"
  MaxQueue = 1
INVARIANTS
  LiveStayFresh
PROPERTIES
  DeadForgotten
  CutLinksComeBack
