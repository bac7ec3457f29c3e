---------------------------- MODULE ChatSystem_proofs ----------------------------
(***************************************************************************)
(* Theorems about the whole system, for any federation, any clients and    *)
(* any faults: its state is well formed, no server accepts the Say of a    *)
(* neighbour twice within the reach of recent_ids, and a Say that was      *)
(* forwarded arrives when the network loses nothing.                       *)
(***************************************************************************)
EXTENDS ChatProperties, ChatServer_proofs

SessOK == sess \in [Clients -> Session]

\* TypeOK, regrouped by what the handlers set.
LEMMA TypeOKParts == TypeOK <=> ServerOK /\ SessOK /\ faults \in 0 .. MaxFaults
<1> DEFINE Counted == \A s \in Servers :
                        /\ WellCounted(all_users[s])
                        /\ \A i \in DOMAIN chans[s] : WellCounted(chans[s][i].users)
                        /\ \A t \in Servers : WellCounted(subs[s][t])
<1>1. TypeOK <=> ServerTypeOK /\ SessOK /\ faults \in 0 .. MaxFaults /\ Counted
  BY DEF TypeOK, SessOK
<1>2. ServerTypeOK /\ Counted => ServerOK
  BY DEF ServerTypeOK, ServerOK, LoopOK, UsersOK, LogOK, GoodChannels, GoodSubs, GoodSubsOf, Outgoing
<1>3. ServerOK => ServerTypeOK /\ Counted
  BY DEF ServerTypeOK, ServerOK, LoopOK, UsersOK, LogOK, GoodChannels, GoodSubs, GoodSubsOf, Outgoing
<1> QED
  BY <1>1, <1>2, <1>3

\* The initial tables.
LEMMA InitOK == Init => ServerOK /\ SessOK /\ faults \in 0 .. MaxFaults
<1> SUFFICES ASSUME Init PROVE ServerOK /\ SessOK /\ faults \in 0 .. MaxFaults
  OBVIOUS
<1>1. EmptyArray \in CountedArrays(Pointers) /\ EmptyArray \in CountedArrays(Clients)
      /\ EmptyArray \in CountedArrays(Subscription) /\ WellCounted(EmptyArray)
  BY DEF EmptyArray, CountedArrays, WellCounted
<1>2. create_channel(Common) \in Channel /\ create_channel(Common).users = EmptyArray
  BY <1>1, ChannelsAssumption DEF create_channel, Channel
<1>3. GoodChannels(<<create_channel(Common)>>)
  BY <1>1, <1>2 DEF GoodChannels
<1>4. [chan |-> Common, age |-> 0] \in Subscription
  BY ChannelsAssumption, AdjacentServersAssumption DEF Subscription
<1>5. GoodSubs(OneEntry([chan |-> Common, age |-> 0])) /\ GoodSubs(EmptyArray)
  BY <1>1, <1>4 DEF GoodSubs, OneEntry, CountedArrays, WellCounted
<1>6. \A s \in Servers : chans[s] = <<create_channel(Common)>>
  BY DEF Init, ServerInit
<1>7. \A s, t \in Servers : GoodSubs(subs[s][t])
  <2>1. \A s, t \in Servers : subs[s][t] = OneEntry([chan |-> Common, age |-> 0])
                              \/ subs[s][t] = EmptyArray
    BY DEF Init, ServerInit
  <2> QED
    BY <1>5, <2>1
<1>8. LoopOK
  <2>1. chans \in [Servers -> Seq(Channel)]
    BY <1>3 DEF Init, ServerInit, GoodChannels
  <2>2. subs = [s \in Servers |-> [t \in Servers |-> subs[s][t]]]
    BY DEF Init, ServerInit
  <2>3. subs \in [Servers -> [Servers -> CountedArrays(Subscription)]]
    BY <1>7, <2>2 DEF GoodSubs
  <2>4. alive \in [Servers -> BOOLEAN] /\ net \in [Servers -> Outgoing]
        /\ dropped \in [Servers -> [Servers -> SUBSET ChannelNames]]
    BY DEF Init, ServerInit, Outgoing
  <2> QED
    BY <1>3, <1>6, <1>7, <2>1, <2>3, <2>4 DEF LoopOK, GoodSubsOf
<1>9. UsersOK /\ LogOK
  BY <1>1 DEF Init, ServerInit, UsersOK, LogOK
<1>10. SessOK /\ faults \in 0 .. MaxFaults
  BY ChannelsAssumption, ChatSystemAssumption DEF Init, SessOK, Session
<1> QED
  BY <1>8, <1>9, <1>10 DEF ServerOK

\* A variable that does not change stays well formed.
LEMMA SameServerOK ==
  ASSUME ServerOK, UNCHANGED serverVars
  PROVE  ServerOK'
BY DEF serverVars, ServerOK, LoopOK, UsersOK, LogOK, GoodSubsOf

\* The servers' side of a command: its request is handled, lost, or nobody is there.
LEMMA CommandOK ==
  ASSUME ServerOK, faults \in 0 .. MaxFaults, NEW c \in Clients
  PROVE  /\ UNCHANGED serverVars => ServerOK'
         /\ UNCHANGED faults \/ LostRequest => faults' \in 0 .. MaxFaults
         /\ LostRequest => ServerOK'
         /\ Home[c] \in Servers
BY SameServerOK, ChatSystemAssumption DEF LostRequest

\* A session after a command.
LEMMA SessionTypes ==
  ASSUME SessOK, NEW c \in Clients
  PROVE  /\ sess[c] \in Session
         /\ sess[c].typed < MaxCommands => Typed(c) \in 0 .. MaxCommands
         /\ \A r \in Session : sess' = [sess EXCEPT ![c] = r] => SessOK'
<1>1. sess[c] \in Session
  BY DEF SessOK
<1>2. sess[c].typed < MaxCommands => Typed(c) \in 0 .. MaxCommands
  BY <1>1, ChatSystemAssumption DEF Session, Typed
<1>3. \A r \in Session : sess' = [sess EXCEPT ![c] = r] => SessOK'
  BY DEF SessOK
<1> QED
  BY <1>1, <1>2, <1>3

\* A client has a server, and speaks on a channel there is.
LEMMA SessionPlace ==
  ASSUME SessOK, NEW c \in Clients
  PROVE  Home[c] \in Servers /\ sess[c].active \in ChannelNames /\ Common \in ChannelNames
<1>1. sess[c] \in Session
  BY SessionTypes
<1>2. sess[c].active \in ChannelNames
  BY <1>1 DEF Session
<1>3. Home[c] \in Servers
  BY ChatSystemAssumption
<1>4. Common \in ChannelNames
  BY ChannelsAssumption
<1> QED
  BY <1>2, <1>3, <1>4

\* Clients.
LEMMA ClientStepOK ==
  ASSUME ServerOK, SessOK, faults \in 0 .. MaxFaults, NEW c \in Clients, ClientStep(c)
  PROVE  ServerOK' /\ SessOK' /\ faults' \in 0 .. MaxFaults
<1> DEFINE All == ServerOK' /\ SessOK' /\ faults' \in 0 .. MaxFaults
<1>0. sess[c] \in Session /\ sess[c].joined \in Seq(ChannelNames) /\ sess[c].active \in ChannelNames
  BY SessionTypes DEF Session
<1>1. CASE Login(c)
  <2>1. SessOK'
    BY <1>0, <1>1 DEF Login, SessOK, Session
  <2> QED
    BY <1>1, <2>1, CommandOK, LoginOK DEF Login, Handled
<1>2. CASE JoinCommon(c)
  <2>1. SessOK'
    BY <1>0, <1>2 DEF JoinCommon, SessOK, Session
  <2> QED
    BY <1>2, <2>1, CommandOK, JoinOK, ChannelsAssumption DEF JoinCommon, Handled
<1>3. ASSUME NEW ch \in ChannelNames, JoinCommand(c, ch) PROVE All
  <2>1. Typed(c) \in 0 .. MaxCommands /\ Append(sess[c].joined, ch) \in Seq(ChannelNames)
    BY <1>0, <1>3, SessionTypes DEF JoinCommand, Types
  <2>2. SessOK'
    BY <1>0, <1>3, <2>1 DEF JoinCommand, SessOK, Session
  <2> QED
    BY <1>3, <2>2, CommandOK, JoinOK DEF JoinCommand, Handled
<1>4. ASSUME NEW ch \in ChannelNames, LeaveCommand(c, ch) PROVE All
  <2> DEFINE i == SelectInSeq(sess[c].joined, LAMBDA name : name = ch)
             I == {k \in 1 .. Len(sess[c].joined) : sess[c].joined[k] = ch}
  <2>1. Typed(c) \in 0 .. MaxCommands
    BY <1>4, SessionTypes DEF LeaveCommand, Types
  <2>2. I \in SUBSET (1 .. Len(sess[c].joined)) /\ Len(sess[c].joined) \in Nat
    BY <1>0
  <2>3. i = (IF I # {} THEN Min(I) ELSE 0) /\ i # 0
    BY <1>4 DEF LeaveCommand, SelectInSeq
  <2>4. i \in 1 .. Len(sess[c].joined)
    BY <2>2, <2>3, MinOfPositions
  <2>5. sess' = [sess EXCEPT ![c].joined = RemoveAt(sess[c].joined, i),
                    ![c].active = IF <<ch, @>> \in PrefixPairs THEN Common ELSE @,
                    ![c].typed = Typed(c)]
        /\ (Handled(c, LeaveRequest(Home[c], c, ch)) \/ LostRequest)
    BY <1>4 DEF LeaveCommand
  <2> HIDE DEF i, I
  <2>6. RemoveAt(sess[c].joined, i) \in Seq(ChannelNames)
    BY <1>0, <2>4 DEF RemoveAt
  <2>7. SessOK'
    BY <1>0, <2>1, <2>5, <2>6, ChannelsAssumption DEF SessOK, Session
  <2> QED
    BY <2>5, <2>7, CommandOK, LeaveOK DEF Handled
<1>5. ASSUME NEW ch \in ChannelNames, SwitchCommand(c, ch) PROVE All
  <2>1. Typed(c) \in 0 .. MaxCommands
    BY <1>5, SessionTypes DEF SwitchCommand, Types
  <2>2. SessOK'
    BY <1>0, <1>5, <2>1 DEF SwitchCommand, SessOK, Session
  <2> QED
    BY <1>5, <2>2, CommandOK DEF SwitchCommand
<1>6. ASSUME NEW id \in Ids, SayCommand(c, id) PROVE All
  <2>1. Typed(c) \in 0 .. MaxCommands
    BY <1>6, SessionTypes DEF SayCommand, Types
  <2>2. SessOK'
    BY <1>0, <1>6, <2>1 DEF SayCommand, SessOK, Session
  <2> QED
    BY <1>0, <1>6, <2>2, CommandOK, SayOK DEF SayCommand, Handled
<1>7. ASSUME NEW ch \in ChannelNames, WhoCommand(c, ch) PROVE All
  <2>1. Typed(c) \in 0 .. MaxCommands
    BY <1>7, SessionTypes DEF WhoCommand, Types
  <2>2. SessOK'
    BY <1>0, <1>7, <2>1 DEF WhoCommand, SessOK, Session
  <2> QED
    BY <1>7, <2>2, CommandOK, WhoOK DEF WhoCommand, Handled
<1>8. CASE ListCommand(c)
  <2>1. Typed(c) \in 0 .. MaxCommands
    BY <1>8, SessionTypes DEF ListCommand, Types
  <2>2. SessOK'
    BY <1>0, <1>8, <2>1 DEF ListCommand, SessOK, Session
  <2> QED
    BY <1>8, <2>2, CommandOK, ListOK DEF ListCommand, Handled
<1>9. CASE LogoutCommand(c)
  <2>1. SessOK'
    BY <1>0, <1>9 DEF LogoutCommand, SessOK, Session
  <2> QED
    BY <1>9, <2>1, CommandOK, LogoutOK DEF LogoutCommand, Handled
<1> QED
  BY <1>1, <1>2, <1>3, <1>4, <1>5, <1>6, <1>7, <1>8, <1>9 DEF ClientStep

\* A datagram fault is a fault and changes one link.
LEMMA FaultOK ==
  ASSUME ServerOK, SessOK, faults \in 0 .. MaxFaults, NEW s \in Servers, NEW t \in Servers,
         ServerKilled(s) \/ DatagramLost(s, t) \/ DatagramDuplicated(s, t) \/ DatagramOvertaken(s, t)
  PROVE  ServerOK' /\ SessOK' /\ faults' \in 0 .. MaxFaults
<1>1. SessOK' /\ faults' \in 0 .. MaxFaults
  BY ChatSystemAssumption
     DEF ServerKilled, DatagramLost, DatagramDuplicated, DatagramOvertaken, Fault, SessOK
<1>2. CASE ServerKilled(s)
  BY <1>1, <1>2, DiesOK DEF ServerKilled, Kill
<1>3. CASE ~ServerKilled(s)
  BY <1>1, <1>3, DatagramFaultsOK DEF DatagramLost, DatagramDuplicated, DatagramOvertaken
<1> QED
  BY <1>2, <1>3

\* Every step.
LEMMA NextOK ==
  ASSUME ServerOK, SessOK, faults \in 0 .. MaxFaults, [Next]_vars
  PROVE  ServerOK' /\ SessOK' /\ faults' \in 0 .. MaxFaults
<1>1. CASE UNCHANGED vars
  BY <1>1, SameServerOK DEF vars, SessOK
<1>2. ASSUME NEW c \in Clients, ClientStep(c) PROVE ServerOK' /\ SessOK' /\ faults' \in 0 .. MaxFaults
  BY <1>2, ClientStepOK
<1>3. ASSUME NEW s \in Servers, NEW t \in Servers, ServerReceive(s, t)
      PROVE  ServerOK' /\ SessOK' /\ faults' \in 0 .. MaxFaults
  BY <1>3, ReceiveOK DEF ServerReceive, SessOK
<1>4. ASSUME NEW s \in Servers, ServerIdle(s)
      PROVE  ServerOK' /\ SessOK' /\ faults' \in 0 .. MaxFaults
  BY <1>4, IdleOK DEF ServerIdle, SessOK
<1>5. CASE TimePasses
  BY <1>5, TickOK DEF TimePasses, SessOK
<1>6. CASE Next
  BY <1>2, <1>3, <1>4, <1>5, <1>6, FaultOK DEF Next
<1> QED
  BY <1>1, <1>6

\* Every table of every server keeps the shape of its C object: a count that is
\* below zero never comes with an entry the loops could see, whatever users type,
\* whatever is lost, duplicated or overtaken, and whoever dies.
THEOREM TypeCorrect == Spec => []TypeOK
<1> DEFINE Inv == ServerOK /\ SessOK /\ faults \in 0 .. MaxFaults
<1>1. Init => Inv
  BY InitOK
<1>2. Inv /\ [Next]_vars => Inv'
  BY NextOK
<1>3. Inv => TypeOK
  BY TypeOKParts
<1> QED
  BY <1>1, <1>2, <1>3, PTL DEF Spec

--------------------------------------------------------------------------------
(* Says *)

\* The Say of an entry is under way to all it was forwarded to.
Forwarded(s, e) == \A t \in e.fwd : alive'[t] => Say(e.chan, e.id) \in Range(net'[s][t])

\* What a step of a server may do to the log of s: nothing, or one entry more,
\* whose copies it sends, and none that came from a neighbour and has a recent id.
LogStep(s) ==
  \/ log'[s] = log[s]
  \/ \E e \in LogEntry :
       /\ log'[s] = Append(log[s], e)
       /\ ~e.own => e.id \notin RecentIds(s)
       /\ Forwarded(s, e)

\* Handlers that do not accept a Say leave all logs alone.
LEMMA LogKept ==
  ASSUME UNCHANGED log, NEW s
  PROVE  LogStep(s)
BY DEF LogStep

\* One message to each of T.
LEMMA SentToEach ==
  ASSUME NEW s \in Servers, NEW T \in SUBSET Servers, NEW m, Sent(s, ToEach(T, m))
  PROVE  \A t \in T : alive'[t] => m \in Range(net'[s][t])
<1>1. \A t \in T : m \in Range(ToEach(T, m)[t])
  BY DEF ToEach, Range
<1> QED
  BY <1>1 DEF Sent

\* The Say of a client.
LEMMA SayLogs ==
  ASSUME ServerOK, NEW s \in Servers, NEW c \in Clients, NEW ch \in ChannelNames, NEW id \in Ids,
         SayRequest(s, c, ch, id), NEW p \in Servers
  PROVE  LogStep(p)
<1> DEFINE fwd == SubscribersIn(SweptSubs(s), s, ch)
           entry == [id |-> id, chan |-> ch, own |-> TRUE, fwd |-> fwd,
                     to |-> UsersOf(s, ch).items]
<1>1. CASE Dies(s)
  BY <1>1, LogKept DEF Dies
<1>2. CASE ~Dies(s)
  <2>1. /\ log' = [log EXCEPT ![s] = Append(log[s], entry)]
        /\ Resub(s, net, chans[s], SweptSubs(s), NoneTold, ToEach(fwd, Say(ch, id)))
    BY <1>2 DEF SayRequest
  <2>2. fwd \in SUBSET Servers
    BY ChatServerAssumption DEF SubscribersIn
  <2>3. UsersOf(s, ch).items \in Seq(Pointers)
    BY UsersOfGood DEF ServerOK, GoodUsers, CountedArrays
  <2>4. entry \in LogEntry /\ entry.own
    BY <2>2, <2>3 DEF LogEntry
  <2>6. Sent(s, ToEach(fwd, Say(ch, id)))
    <3>1. ToEach(fwd, Say(ch, id)) \in Outgoing
      BY MessageTypes, SendingTypes
    <3> QED
      BY <2>1, <3>1, RequestFacts, ResubOK
  <2>7. Forwarded(s, entry)
    BY <2>2, <2>6, SentToEach DEF Forwarded
  <2> HIDE DEF entry
  <2>5. log'[p] = log[p] \/ (p = s /\ log'[p] = Append(log[p], entry))
    BY <2>1 DEF ServerOK, LogOK
  <2> QED
    BY <2>4, <2>5, <2>7 DEF LogStep
<1> QED
  BY <1>1, <1>2

\* The Say of a neighbour: has_id comes first.
LEMMA ServSayLogs ==
  ASSUME ServerOK, NEW s \in Servers, NEW t \in Servers, NEW nw \in [Servers -> Outgoing],
         NEW ch \in ChannelNames, NEW id \in Ids, ServSay(s, t, nw, ch, id), NEW p \in Servers
  PROVE  LogStep(p)
<1> DEFINE fwd == ForwardTo(SweptSubs(s), s, t, ch)
           Entry(to, servers) == [id |-> id, chan |-> ch, own |-> FALSE, to |-> to, fwd |-> servers]
<1>1. CASE UNCHANGED log
  BY <1>1, LogKept
<1>2. ASSUME NEW to \in Seq(Pointers), NEW servers \in SUBSET Servers, MayMissId(s, id),
             \A u \in servers : alive'[u] => Say(ch, id) \in Range(net'[s][u]),
             log' = [log EXCEPT ![s] = Append(log[s], Entry(to, servers))]
      PROVE  LogStep(p)
  <2>1. Entry(to, servers) \in LogEntry /\ Entry(to, servers).id = id
    BY DEF LogEntry
  <2>2. log'[p] = log[p] \/ (p = s /\ log'[p] = Append(log[p], Entry(to, servers)))
    BY <1>2 DEF ServerOK, LogOK
  <2>3. Forwarded(s, Entry(to, servers))
    BY <1>2 DEF Forwarded
  <2> HIDE DEF Entry
  <2> QED
    BY <1>2, <2>1, <2>2, <2>3 DEF LogStep, MayMissId
<1>3. UsersOf(s, ch).items \in Seq(Pointers) /\ <<>> \in Seq(Pointers)
  BY UsersOfGood DEF ServerOK, GoodUsers, CountedArrays
<1>4. fwd \in SUBSET Servers /\ {} \in SUBSET Servers
  BY ChatServerAssumption DEF ForwardTo, SubscribersIn
<1>5. \/ UNCHANGED log
      \/ /\ MayMissId(s, id)
         /\ \/ log' = [log EXCEPT ![s] = Append(log[s], Entry(<<>>, {}))]
            \/ /\ log' = [log EXCEPT ![s] = Append(log[s], Entry(UsersOf(s, ch).items, fwd))]
               /\ Resub(s, nw, chans[s], SweptSubs(s), NoneTold, ToEach(fwd, Say(ch, id)))
  BY DEF ServSay, Dies
<1>6. ASSUME Resub(s, nw, chans[s], SweptSubs(s), NoneTold, ToEach(fwd, Say(ch, id)))
      PROVE  \A u \in fwd : alive'[u] => Say(ch, id) \in Range(net'[s][u])
  <2>1. ToEach(fwd, Say(ch, id)) \in Outgoing
    BY MessageTypes, SendingTypes
  <2>2. Sent(s, ToEach(fwd, Say(ch, id)))
    BY <1>6, <2>1, RequestFacts, ResubOK
  <2> QED
    BY <1>4, <2>2, SentToEach
<1> HIDE DEF fwd, Entry
<1> QED
  BY <1>1, <1>2, <1>3, <1>4, <1>5, <1>6

\* Every step.
LEMMA NextLogs ==
  ASSUME ServerOK, SessOK, [Next]_vars, NEW p \in Servers
  PROVE  LogStep(p)
<1>1. CASE UNCHANGED log
  BY <1>1, LogKept
<1>2. ASSUME NEW c \in Clients, NEW id \in Ids, SayCommand(c, id) PROVE LogStep(p)
  <2>1. sess[c].active \in ChannelNames /\ Home[c] \in Servers
    BY SessionTypes, ChatSystemAssumption DEF Session
  <2>2. UNCHANGED log \/ SayRequest(Home[c], c, sess[c].active, id)
    BY <1>2 DEF SayCommand, Handled, LostRequest, serverVars
  <2> QED
    BY <2>1, <2>2, SayLogs, LogKept
<1>3. ASSUME NEW s \in Servers, NEW t \in Servers, ServerReceive(s, t) PROVE LogStep(p)
  <2> DEFINE m == Head(net[t][s])
             nw == [net EXCEPT ![t][s] = Tail(@)]
  <2>1. m \in Message /\ nw \in [Servers -> Outgoing]
    BY <1>3, ReadTypes DEF ServerReceive, Receive
  <2>2. m.chan \in ChannelNames /\ (m.type = "say" => m.id \in Ids)
    BY <2>1 DEF Message
  <2>3. UNCHANGED log \/ (m.type = "say" /\ ServSay(s, t, nw, m.chan, m.id))
    BY <1>3 DEF ServerReceive, Receive, ServJoin, ServLeave, Dies
  <2> HIDE DEF m, nw
  <2> QED
    BY <2>1, <2>2, <2>3, ServSayLogs, LogKept
<1>4. ASSUME NEW c \in Clients, ClientStep(c), ~\E id \in Ids : SayCommand(c, id) PROVE UNCHANGED log
  BY <1>4 DEF ClientStep, Login, JoinCommon, JoinCommand, LeaveCommand, SwitchCommand, WhoCommand,
              ListCommand, LogoutCommand, Handled, LostRequest, LoginRequest, JoinRequest,
              LeaveRequest, WhoRequest, ListRequest, LogoutRequest, LogoutKnown, LogoutUnknown,
              Dies, serverVars
<1>5. ASSUME NEW s \in Servers, NEW t \in Servers,
             \/ ServerIdle(s) \/ ServerKilled(s) \/ DatagramLost(s, t)
             \/ DatagramDuplicated(s, t) \/ DatagramOvertaken(s, t) \/ TimePasses
      PROVE  UNCHANGED log
  BY <1>5 DEF ServerIdle, Idle, ServerKilled, Kill, Dies, DatagramLost, Lose, DatagramDuplicated,
              Duplicate, DatagramOvertaken, Overtake, TimePasses, Tick
<1>6. CASE UNCHANGED vars
  BY <1>1, <1>6 DEF vars, serverVars
<1>7. CASE Next
  BY <1>1, <1>2, <1>3, <1>4, <1>5, <1>7 DEF Next
<1> QED
  BY <1>6, <1>7

\* The ids of the last MAX_IDS entries are recent.
LEMMA RecentEntries ==
  ASSUME LogOK, NEW s \in Servers, NEW i \in DOMAIN log[s], Len(log[s]) - i < MaxIds
  PROVE  log[s][i].id \in RecentIds(s)
<1> DEFINE n == Len(log[s])
           last == SubSeq(log[s], n - MaxIds + 1, n)
<1>1. log[s] \in Seq(LogEntry) /\ n \in Nat /\ i \in 1 .. n /\ MaxIds \in Nat \ {0}
  BY ChatServerAssumption DEF LogOK
<1>2. CASE n <= MaxIds
  BY <1>1, <1>2 DEF RecentIds, IdsOf
<1>3. CASE n > MaxIds
  <2> DEFINE k == i - (n - MaxIds)
  <2>1. k \in 1 .. MaxIds
    BY <1>1, <1>3
  <2>2. Len(last) = MaxIds /\ last[k] = log[s][i]
    BY <1>1, <1>3, <2>1
  <2>3. k \in DOMAIN last
    BY <1>1, <1>3, <2>1
  <2>4. RecentIds(s) = IdsOf(last)
    BY <1>1, <1>3 DEF RecentIds
  <2> HIDE DEF last, k
  <2> QED
    BY <2>2, <2>3, <2>4 DEF IdsOf
<1> QED
  BY <1>1, <1>2, <1>3

\* A server accepts the Say of a neighbour only if none of the last MAX_IDS it
\* accepted had that id, however the servers are connected and whatever happens
\* to datagrams, processes and clocks.  The invariant is inductive together with
\* the type of the log.
THEOREM AtMostOnce == Spec => []RelayOnce
<1> DEFINE Inv == ServerOK /\ SessOK /\ faults \in 0 .. MaxFaults
<1>1. Init => Inv /\ RelayOnce
  BY InitOK DEF Init, ServerInit, RelayOnce
<1>2. Inv /\ RelayOnce /\ [Next]_vars => Inv' /\ RelayOnce'
  <2> SUFFICES ASSUME Inv, RelayOnce, [Next]_vars PROVE Inv' /\ RelayOnce'
    OBVIOUS
  <2>1. Inv'
    BY NextOK
  <2>2. SUFFICES ASSUME NEW s \in Servers, NEW i \in DOMAIN log'[s], NEW j \in DOMAIN log'[s],
                        i < j, log'[s][i].id = log'[s][j].id, ~log'[s][j].own
                 PROVE  j - i > MaxIds
    BY <2>1 DEF RelayOnce
  <2>3. LogStep(s)
    BY NextLogs
  <2>4. log[s] \in Seq(LogEntry) /\ DOMAIN log[s] = 1 .. Len(log[s]) /\ Len(log[s]) \in Nat
    BY DEF ServerOK, LogOK
  <2>5. CASE log'[s] = log[s]
    BY <2>2, <2>5 DEF RelayOnce
  <2>6. ASSUME NEW e \in LogEntry, log'[s] = Append(log[s], e),
               ~e.own => e.id \notin RecentIds(s)
        PROVE  j - i > MaxIds
    <3>1. i \in 1 .. Len(log[s]) + 1 /\ j \in 1 .. Len(log[s]) + 1
      BY <2>4, <2>6
    <3>2. CASE j <= Len(log[s])
      <4>1. log'[s][i] = log[s][i] /\ log'[s][j] = log[s][j]
        BY <2>2, <2>4, <2>6, <3>1, <3>2
      <4> QED
        BY <2>2, <2>4, <3>1, <3>2, <4>1 DEF RelayOnce
    <3>3. CASE j = Len(log[s]) + 1
      <4>1. i \in DOMAIN log[s] /\ log'[s][i] = log[s][i] /\ log'[s][j] = e
        BY <2>2, <2>4, <2>6, <3>1, <3>3
      <4>2. log[s][i].id \notin RecentIds(s)
        BY <2>2, <2>6, <4>1
      <4>3. ~(Len(log[s]) - i < MaxIds)
        BY <4>1, <4>2, RecentEntries DEF ServerOK
      <4> QED
        BY <2>4, <3>3, <4>1, <4>3, ChatServerAssumption
    <3> QED
      BY <2>4, <3>1, <3>2, <3>3
  <2> QED
    BY <2>3, <2>5, <2>6 DEF LogStep
<1> QED
  BY <1>1, <1>2, PTL DEF Spec

--------------------------------------------------------------------------------
(* A Say that was forwarded is on its link until the neighbour reads it, and a *)
(* neighbour that reads it has its id, records it, or dies                    *)

\* Server t is done with a Say of that id: it has it, or its recent_ids is full.
Accounted(t, id) == id \in Ids_of(t) \/ OverRuns(t)

\* No Say under way to a process that lives on vanishes unaccounted for.
SaysKept ==
  \A p, q \in Servers, ch \in ChannelNames, id \in Ids :
    alive'[q] =>
      /\ alive[q]
      /\ InFlight(p, q, Say(ch, id)) => InFlight(p, q, Say(ch, id))' \/ Accounted(q, id)'

\* What the array holds was recorded.
LEMMA RecentIdsRecorded ==
  ASSUME LogOK, NEW s \in Servers
  PROVE  RecentIds(s) \subseteq Ids_of(s)
<1> DEFINE n == Len(log[s])
           last == SubSeq(log[s], n - MaxIds + 1, n)
<1>1. log[s] \in Seq(LogEntry) /\ n \in Nat /\ MaxIds \in Nat \ {0}
  BY ChatServerAssumption DEF LogOK
<1>2. CASE n <= MaxIds
  BY <1>2 DEF RecentIds, Ids_of
<1>3. CASE n > MaxIds
  <2>1. \A k \in DOMAIN last : k + (n - MaxIds) \in DOMAIN log[s] /\ last[k] = log[s][k + (n - MaxIds)]
    BY <1>1, <1>3
  <2>2. RecentIds(s) = IdsOf(last)
    BY <1>1, <1>3 DEF RecentIds
  <2> HIDE DEF last
  <2> QED
    BY <2>1, <2>2 DEF IdsOf, Ids_of
<1> QED
  BY <1>1, <1>2, <1>3

\* The one entry more is recorded, and nothing that was is forgotten.
LEMMA LogGrows ==
  ASSUME LogOK, NEW s \in Servers, LogStep(s)
  PROVE  /\ Len(log'[s]) \in Nat /\ Len(log'[s]) >= Len(log[s])
         /\ Ids_of(s) \subseteq Ids_of(s)'
         /\ \A i \in DOMAIN log[s] : i \in DOMAIN log'[s] /\ log'[s][i] = log[s][i]
<1>1. log[s] \in Seq(LogEntry) /\ Len(log[s]) \in Nat /\ DOMAIN log[s] = 1 .. Len(log[s])
  BY DEF LogOK
<1>2. \A i \in DOMAIN log[s] : i \in DOMAIN log'[s] /\ log'[s][i] = log[s][i]
  BY <1>1 DEF LogStep
<1>3. Len(log'[s]) \in Nat /\ Len(log'[s]) >= Len(log[s])
  BY <1>1 DEF LogStep
<1>4. Ids_of(s) \subseteq Ids_of(s)'
  BY <1>2 DEF Ids_of, IdsOf
<1> QED
  BY <1>2, <1>3, <1>4

\* A server that reads a Say and lives on is done with it.
LEMMA ServSayAccounts ==
  ASSUME ServerOK, NEW s \in Servers, NEW t \in Servers, NEW nw, NEW ch, NEW id,
         ServSay(s, t, nw, ch, id), alive'[s]
  PROVE  Accounted(s, id)'
<1> DEFINE Entry(to, servers) == [id |-> id, chan |-> ch, own |-> FALSE, to |-> to, fwd |-> servers]
<1>1. ~Dies(s)
  BY DEF Dies, ServerOK, LoopOK
<1>2. CASE MayHaveId(s, id) /\ UNCHANGED log
  BY <1>2, RecentIdsRecorded DEF MayHaveId, Accounted, OverRuns, Ids_of, ServerOK
<1>3. ASSUME NEW e, e.id = id, log' = [log EXCEPT ![s] = Append(log[s], e)]
      PROVE  Accounted(s, id)'
  <2>1. log[s] \in Seq(LogEntry) /\ log'[s] = Append(log[s], e)
    BY <1>3 DEF ServerOK, LogOK
  <2>2. Len(log[s]) + 1 \in DOMAIN log'[s] /\ log'[s][Len(log[s]) + 1] = e
    BY <2>1
  <2> QED
    BY <1>3, <2>2 DEF Accounted, Ids_of, IdsOf
<1>4. \/ MayHaveId(s, id) /\ UNCHANGED log
      \/ log' = [log EXCEPT ![s] = Append(log[s], Entry(<<>>, {}))]
      \/ \E to, servers : log' = [log EXCEPT ![s] = Append(log[s], Entry(to, servers))]
  BY <1>1 DEF ServSay
<1>5. \A to, servers : Entry(to, servers).id = id
  OBVIOUS
<1> HIDE DEF Entry
<1> QED
  BY <1>2, <1>3, <1>4, <1>5

\* A step in which no datagram disappears.
LEMMA KeptSays ==
  ASSUME Kept(net)
  PROVE  SaysKept
BY DEF Kept, SaysKept, InFlight

\* A step in which one is read.
LEMMA ReceiveKeepsSays ==
  ASSUME ServerOK, NEW s \in Servers, NEW t \in Servers, Receive(s, t)
  PROVE  SaysKept
<1> DEFINE m == Head(net[t][s])
           nw == [net EXCEPT ![t][s] = Tail(@)]
<1>1. Kept(nw)
  BY ReceiveOK
<1>2. net[t][s] \in Seq(Message) /\ net[t][s] # <<>>
  BY DEF Receive, ServerOK, LoopOK, Outgoing
<1>3. \A p, q \in Servers : p # t \/ q # s => nw[p][q] = net[p][q]
  BY DEF ServerOK, LoopOK, Outgoing
<1>4. nw[t][s] = Tail(net[t][s])
  BY DEF ServerOK, LoopOK, Outgoing
<1>5. \A x \in Range(net[t][s]) : x = m \/ x \in Range(Tail(net[t][s]))
  <2> SUFFICES ASSUME NEW k \in 1 .. Len(net[t][s]), k # 1
               PROVE  net[t][s][k] \in Range(Tail(net[t][s]))
    BY <1>2 DEF Range
  <2>1. k - 1 \in DOMAIN Tail(net[t][s]) /\ Tail(net[t][s])[k - 1] = net[t][s][k]
    BY <1>2
  <2> QED
    BY <2>1 DEF Range
<1> SUFFICES ASSUME NEW p \in Servers, NEW q \in Servers, NEW ch \in ChannelNames, NEW id \in Ids,
                    alive'[q]
             PROVE  /\ alive[q]
                    /\ InFlight(p, q, Say(ch, id)) => InFlight(p, q, Say(ch, id))' \/ Accounted(q, id)'
  BY DEF SaysKept
<1>6. alive[q] /\ Range(nw[p][q]) \subseteq Range(net'[p][q])
  BY <1>1 DEF Kept
<1>7. CASE p # t \/ q # s
  BY <1>3, <1>6, <1>7 DEF InFlight
<1>8. CASE p = t /\ q = s
  <2>1. ASSUME Say(ch, id) = m PROVE Accounted(s, id)'
    <3>1. m.type = "say" /\ m.chan = ch /\ m.id = id
      BY <2>1 DEF Say
    <3>2. ServSay(s, t, nw, ch, id)
      BY <3>1 DEF Receive
    <3> QED
      BY <1>8, <3>2, ServSayAccounts
  <2> HIDE DEF m, nw
  <2> QED
    BY <1>4, <1>5, <1>6, <1>8, <2>1 DEF InFlight
<1> QED
  BY <1>7, <1>8

\* Every step, as long as nothing is lost.
LEMMA NextKeepsSays ==
  ASSUME "loss" \notin Faults, ServerOK, SessOK, [Next]_vars
  PROVE  SaysKept
<1>1. UNCHANGED <<alive, net>> => Kept(net)
  BY DEF Kept
<1>2. ASSUME NEW c \in Clients, ClientStep(c) PROVE Kept(net)
  <2>1. Home[c] \in Servers /\ sess[c].active \in ChannelNames /\ Common \in ChannelNames
    BY SessionPlace
  <2>2. \/ UNCHANGED <<alive, net>>
        \/ LoginRequest(Home[c], c) \/ ListRequest(Home[c]) \/ LogoutRequest(Home[c], c)
        \/ \E ch \in ChannelNames : \/ JoinRequest(Home[c], c, ch) \/ LeaveRequest(Home[c], c, ch)
                                    \/ WhoRequest(Home[c], ch)
        \/ \E id \in Ids : SayRequest(Home[c], c, sess[c].active, id)
    BY <1>2, <2>1 DEF ClientStep, Login, JoinCommon, JoinCommand, LeaveCommand, SwitchCommand,
         SayCommand, WhoCommand, ListCommand, LogoutCommand, Handled, LostRequest, serverVars
  <2> QED
    BY <1>1, <2>1, <2>2, LoginOK, ListOK, LogoutOK, JoinOK, LeaveOK, WhoOK, SayOK
<1>3. ASSUME NEW s \in Servers, NEW t \in Servers, ServerReceive(s, t) PROVE SaysKept
  BY <1>3, ReceiveKeepsSays DEF ServerReceive
<1>4. ASSUME NEW s \in Servers, NEW t \in Servers,
             \/ ServerIdle(s) \/ ServerKilled(s)
             \/ DatagramDuplicated(s, t) \/ DatagramOvertaken(s, t)
      PROVE  Kept(net)
  BY <1>4, IdleOK, DiesOK, DatagramFaultsKeep
     DEF ServerIdle, ServerKilled, Kill, DatagramDuplicated, DatagramOvertaken
<1>7. CASE TimePasses
  BY <1>7, TickOK, KeptSays DEF TimePasses
<1>5. CASE UNCHANGED vars
  BY <1>1, <1>5, KeptSays DEF vars, serverVars
<1>6. CASE Next
  <2>1. \A s, t \in Servers : ~DatagramLost(s, t)
    BY DEF DatagramLost, Fault
  <2> QED
    BY <1>2, <1>3, <1>4, <1>6, <1>7, <2>1, KeptSays DEF Next
<1> QED
  BY <1>5, <1>6

\* While the network loses nothing, no Say is forwarded in vain: until a neighbour
\* that runs has recorded it, it waits in the neighbour's socket, in any federation,
\* also when servers are killed and datagrams duplicated or overtaken.
THEOREM ForwardedSaysArrive ==
  ASSUME "loss" \notin Faults
  PROVE  Spec => []ForwardedArrives
<1> DEFINE Inv == ServerOK /\ SessOK /\ faults \in 0 .. MaxFaults
<1>1. Init => Inv /\ ForwardedArrives
  BY InitOK DEF Init, ServerInit, ForwardedArrives
<1>2. Inv /\ ForwardedArrives /\ [Next]_vars => Inv' /\ ForwardedArrives'
  <2> SUFFICES ASSUME Inv, ForwardedArrives, [Next]_vars PROVE Inv' /\ ForwardedArrives'
    OBVIOUS
  <2>1. Inv'
    BY NextOK
  <2>2. SaysKept
    BY NextKeepsSays
  <2>3. SUFFICES ASSUME NEW s \in Servers, NEW i \in DOMAIN log'[s], NEW t \in log'[s][i].fwd,
                        alive'[t]
                 PROVE  \/ log'[s][i].id \in Ids_of(t)'
                        \/ Len(log'[t]) > MaxIds
                        \/ Say(log'[s][i].chan, log'[s][i].id) \in Range(net'[s][t])
    BY <2>1 DEF ForwardedArrives, InFlight, OverRuns, Say
  <2>4. LogStep(s) /\ log[s] \in Seq(LogEntry)
    BY NextLogs DEF ServerOK, LogOK
  <2>5. CASE i \in DOMAIN log[s]
    <3>1. log'[s][i] = log[s][i] /\ log[s][i] \in LogEntry
      BY <2>4, <2>5, LogGrows DEF ServerOK
    <3>2. t \in Servers /\ log[s][i].id \in Ids /\ log[s][i].chan \in ChannelNames /\ t \in log[s][i].fwd
      BY <2>3, <3>1 DEF LogEntry
    <3>3. alive[t]
      BY <2>2, <2>3, <3>2 DEF SaysKept
    <3>4. Accounted(t, log[s][i].id) \/ InFlight(s, t, Say(log[s][i].chan, log[s][i].id))
      BY <2>5, <3>2, <3>3 DEF ForwardedArrives, Accounted
    <3>5. CASE Accounted(t, log[s][i].id)
      <4>1. LogStep(t)
        BY <3>2, NextLogs
      <4>2. Ids_of(t) \subseteq Ids_of(t)' /\ Len(log'[t]) \in Nat /\ Len(log'[t]) >= Len(log[t])
        BY <3>2, <4>1, LogGrows DEF ServerOK
      <4>3. Len(log[t]) \in Nat
        BY <3>2 DEF ServerOK, LogOK
      <4> QED
        BY <2>4, <3>1, <3>5, <4>2, <4>3, ChatServerAssumption DEF Accounted, OverRuns
    <3>6. CASE InFlight(s, t, Say(log[s][i].chan, log[s][i].id))
      <4>1. PICK ch \in ChannelNames, id \in Ids : ch = log[s][i].chan /\ id = log[s][i].id
        BY <3>2
      <4>2. InFlight(s, t, Say(ch, id))
        BY <3>6, <4>1
      <4>3. InFlight(s, t, Say(ch, id))' \/ Accounted(t, id)'
        BY <2>2, <2>3, <3>2, <4>2 DEF SaysKept
      <4> QED
        BY <3>1, <4>1, <4>3 DEF InFlight, Accounted, OverRuns, Say
    <3> QED
      BY <3>4, <3>5, <3>6
  <2>6. CASE i \notin DOMAIN log[s]
    <3>1. PICK e \in LogEntry : log'[s] = Append(log[s], e) /\ Forwarded(s, e)
      BY <2>3, <2>4, <2>6 DEF LogStep
    <3>2. log'[s][i] = e
      BY <2>3, <2>4, <2>6, <3>1
    <3> QED
      BY <2>3, <3>1, <3>2 DEF Forwarded, InFlight
  <2> QED
    BY <2>5, <2>6
<1> QED
  BY <1>1, <1>2, PTL DEF Spec

================================================================================
