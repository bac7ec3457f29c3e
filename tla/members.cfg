\* Two clients of s1 and one of s2 join and leave channels and log out.
SPECIFICATION Spec
CONSTANTS
  s1 = s1
  s2 = s2
  s3 = s3
  c1 = c1
  c2 = c2
  c3 = c3
  a = a
  b = b
  Common = Common
  Null = Null
  Servers = {s1, s2}
  Clients = {c1, c2, c3}
  ChannelNames = {Common, a}
  Neighbours <- Complete
  Home <- TwoAndOne
  Username <- OwnNames
  PrefixPairs <- NoPrefix
  Ids = {1, 2}
  FreshIds = TRUE
  MaxIds = 3
  Min1 = 1
  Min2 = 2
  Commands = {"join", "leave", "logout"}
  Rejoin = FALSE
  MaxCommands = 2
  Faults = {}
  MaxFaults = 0
  Timing = "still"
  MaxQueue = 1
INVARIANTS
  MembersAgree
  NoNameTwice
  PointersAreLive
  WhoFits
SYMMETRY TwoAlike
CHECK_DEADLOCK FALSE
