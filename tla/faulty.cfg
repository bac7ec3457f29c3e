\* Everything at once: two users of one name, any command, one fault of any
\* kind, a clock that does not wait, ids that repeat, two ids and room for one.
SPECIFICATION Spec
CONSTANTS
  s1 = s1
  s2 = s2
  s3 = s3
  c1 = c1
  c2 = c2
  c3 = c3
  a = a
  b = b
  Common = Common
  Null = Null
  Servers = {s1, s2}
  Clients = {c1, c2}
  ChannelNames = {Common, a}
  Neighbours <- Complete
  Home <- Spread
  Username <- SameName
  PrefixPairs <- NoPrefix
  Ids = {1, 2}
  FreshIds = FALSE
  MaxIds = 1
  Min1 = 1
  Min2 = 2
  Commands = {"join", "leave", "say", "who", "logout"}
  Rejoin = TRUE
  MaxCommands = 1
  Faults = {"kill", "loss", "duplication", "overtaking", "lostRequest"}
  MaxFaults = 1
  Timing = "loose"
  MaxQueue = 0
INVARIANTS
  TypeOK
  RelayOnce
PROPERTIES
  GossipSpec
CHECK_DEADLOCK FALSE
