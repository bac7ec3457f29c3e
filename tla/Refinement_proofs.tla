---------------------------- MODULE Refinement_proofs ----------------------------
(***************************************************************************)
(* The servers implement Gossip.  A Say is under way on a link only if the *)
(* server at its near end accepted it and the one at its far end is a      *)
(* neighbour; so whoever reads it hears what a neighbour accepted.         *)
(***************************************************************************)
EXTENDS ChatSystem_proofs

\* Server t accepted a Say of that id on that channel.
Traced(t, id, ch) == \E j \in DOMAIN log[t] : log[t][j].id = id /\ log[t][j].chan = ch

\* The invariant.
SaysTraced ==
  \A p, q \in Servers : \A m \in Range(net[p][q]) :
    m.type = "say" => q \in Neighbours[p] /\ Traced(p, m.id, m.chan)

\* In a step only a server that has accepted a Say sends it, and to neighbours.
Explained ==
  \A p, q \in Servers : \A m \in Range(net'[p][q]) :
    m.type = "say" => \/ m \in Range(net[p][q])
                      \/ q \in Neighbours[p] /\ Traced(p, m.id, m.chan)'

\* In a step server s accepts e, a Say of its own client or one that a neighbour accepted.
Accepts(s, e) ==
  /\ log' = [log EXCEPT ![s] = Append(log[s], e)]
  /\ e.own => (FreshIds => e.id \notin Generated)
  /\ ~e.own => e.id \notin RecentIds(s) /\ \E t \in Neighbours[s] : Traced(t, e.id, e.chan)

--------------------------------------------------------------------------------
(* Steps *)

\* What a server accepted it keeps.
LEMMA TracedStays ==
  ASSUME LogOK, NEW t \in Servers, LogStep(t), NEW id, NEW ch, Traced(t, id, ch)
  PROVE  Traced(t, id, ch)'
<1>1. \A i \in DOMAIN log[t] : i \in DOMAIN log'[t] /\ log'[t][i] = log[t][i]
  BY LogGrows
<1> QED
  BY <1>1 DEF Traced

\* What has just been accepted is.
LEMMA AppendTraced ==
  ASSUME LogOK, NEW s \in Servers, NEW e, log' = [log EXCEPT ![s] = Append(log[s], e)]
  PROVE  Traced(s, e.id, e.chan)'
<1>1. log[s] \in Seq(LogEntry) /\ log'[s] = Append(log[s], e)
  BY DEF LogOK
<1>2. Len(log[s]) + 1 \in DOMAIN log'[s] /\ log'[s][Len(log[s]) + 1] = e
  BY <1>1
<1> QED
  BY <1>2 DEF Traced

\* A step that sends no Say explains itself, also when it reads a datagram.
LEMMA QuietExplained ==
  ASSUME ServerOK, NEW s \in Servers, NEW t \in Servers
  PROVE  /\ Quiet(net) => Explained
         /\ net[t][s] # <<>> =>
              \A p, q \in Servers : Range([net EXCEPT ![t][s] = Tail(@)][p][q]) \subseteq Range(net[p][q])
         /\ net[t][s] # <<>> /\ Quiet([net EXCEPT ![t][s] = Tail(@)]) => Explained
<1>1. ASSUME net[t][s] # <<>>
      PROVE  \A p, q \in Servers : Range([net EXCEPT ![t][s] = Tail(@)][p][q]) \subseteq Range(net[p][q])
  <2>1. net[t][s] \in Seq(Message)
    BY DEF ServerOK, LoopOK, Outgoing
  <2>2. \A k \in DOMAIN Tail(net[t][s]) : k + 1 \in DOMAIN net[t][s] /\ Tail(net[t][s])[k] = net[t][s][k + 1]
    BY <1>1, <2>1
  <2>3. Range(Tail(net[t][s])) \subseteq Range(net[t][s])
    BY <2>2 DEF Range
  <2>4. \A p, q \in Servers :
          [net EXCEPT ![t][s] = Tail(@)][p][q] = IF p = t /\ q = s THEN Tail(net[t][s]) ELSE net[p][q]
    BY DEF ServerOK, LoopOK, Outgoing
  <2> QED
    BY <2>3, <2>4
<1>2. Quiet(net) => Explained
  BY DEF Quiet, Explained
<1>3. net[t][s] # <<>> /\ Quiet([net EXCEPT ![t][s] = Tail(@)]) => Explained
  BY <1>1 DEF Quiet, Explained
<1> QED
  BY <1>1, <1>2, <1>3

\* The copies of a Say go to neighbours.
LEMMA CopiesExplained ==
  ASSUME NEW nw, \A p, q \in Servers : Range(nw[p][q]) \subseteq Range(net[p][q]),
         NEW s \in Servers, NEW T \in SUBSET Neighbours[s], NEW ch, NEW id,
         OnlySent(nw, s, ToEach(T, Say(ch, id))), Traced(s, id, ch)'
  PROVE  Explained
<1> SUFFICES ASSUME NEW p \in Servers, NEW q \in Servers, NEW m \in Range(net'[p][q]), m.type = "say"
             PROVE  m \in Range(net[p][q]) \/ (q \in Neighbours[p] /\ Traced(p, m.id, m.chan)')
  BY DEF Explained
<1>1. m \in Range(nw[p][q]) \/ (p = s /\ m \in Range(ToEach(T, Say(ch, id))[q]))
  BY DEF OnlySent
<1>2. m \in Range(ToEach(T, Say(ch, id))[q]) => q \in T /\ m = Say(ch, id)
  BY DEF ToEach, Range
<1>3. Say(ch, id).id = id /\ Say(ch, id).chan = ch
  BY DEF Say
<1> QED
  BY <1>1, <1>2, <1>3

\* The Say of a client.
LEMMA SayStep ==
  ASSUME ServerOK, NEW s \in Servers, NEW c \in Clients, NEW ch \in ChannelNames, NEW id \in Ids,
         SayRequest(s, c, ch, id)
  PROVE  Explained /\ (UNCHANGED log \/ \E e \in LogEntry : Accepts(s, e))
<1> DEFINE fwd == SubscribersIn(SweptSubs(s), s, ch)
           entry == [id |-> id, chan |-> ch, own |-> TRUE, fwd |-> fwd,
                     to |-> UsersOf(s, ch).items]
<1>1. CASE Dies(s)
  BY <1>1, DiesOK, QuietExplained DEF Dies
<1>2. CASE ~Dies(s)
  <2>1. /\ log' = [log EXCEPT ![s] = Append(log[s], entry)]
        /\ Resub(s, net, chans[s], SweptSubs(s), NoneTold, ToEach(fwd, Say(ch, id)))
        /\ FreshIds => id \notin Generated
    BY <1>2 DEF SayRequest
  <2>2. fwd \in SUBSET Neighbours[s] /\ fwd \in SUBSET Servers
    BY ChatServerAssumption DEF SubscribersIn
  <2>3. UsersOf(s, ch).items \in Seq(Pointers)
    BY UsersOfGood DEF ServerOK, GoodUsers, CountedArrays
  <2>4. entry \in LogEntry /\ entry.own /\ entry.id = id /\ entry.chan = ch
    BY <2>2, <2>3 DEF LogEntry
  <2>5. ToEach(fwd, Say(ch, id)) \in Outgoing
    BY MessageTypes, SendingTypes
  <2> HIDE DEF fwd, entry
  <2>10. PICK e \in LogEntry : e = entry
    BY <2>4
  <2>6. OnlySent(net, s, ToEach(fwd, Say(ch, id)))
    BY <2>1, <2>5, RequestFacts, ResubOK
  <2>7. Traced(s, e.id, e.chan)'
    BY <2>1, <2>10, AppendTraced DEF ServerOK
  <2>8. Traced(s, id, ch)'
    BY <2>4, <2>7, <2>10
  <2>9. Explained
    BY <2>2, <2>6, <2>8, CopiesExplained
  <2> QED
    BY <2>1, <2>4, <2>9, <2>10 DEF Accepts
<1> QED
  BY <1>1, <1>2

\* The Say of a neighbour t that accepted it.
LEMMA ServSayStep ==
  ASSUME ServerOK, NEW s \in Servers, NEW t \in Neighbours[s], net[t][s] # <<>>,
         NEW nw \in [Servers -> Outgoing], nw = [net EXCEPT ![t][s] = Tail(@)],
         NEW ch \in ChannelNames, NEW id \in Ids, ServSay(s, t, nw, ch, id), Traced(t, id, ch)
  PROVE  Explained /\ (UNCHANGED log \/ \E e \in LogEntry : Accepts(s, e))
<1> DEFINE fwd == ForwardTo(SweptSubs(s), s, t, ch)
           Entry(to, servers) == [id |-> id, chan |-> ch, own |-> FALSE, to |-> to, fwd |-> servers]
<1>0. t \in Servers
  BY ChatServerAssumption
<1>1. CASE Dies(s)
  BY <1>0, <1>1, ReaderDies, QuietExplained DEF Dies
<1>2. ASSUME Resub(s, nw, chans[s], SweptSubs(s), NoneTold, ToEach({t}, Leave(ch))) PROVE Explained
  <2>1. ToEach({t}, Leave(ch)) \in Outgoing /\ Sayless(ToEach({t}, Leave(ch)))
    BY MessageTypes, SendingTypes, SaylessSending
  <2>2. Quiet(nw)
    BY <1>2, <2>1, RequestFacts, QuietOK
  <2> QED
    BY <1>0, <2>2, QuietExplained
<1>3. ASSUME NEW to \in Seq(Pointers), NEW servers \in SUBSET Servers, MayMissId(s, id),
             log' = [log EXCEPT ![s] = Append(log[s], Entry(to, servers))]
      PROVE  Traced(s, id, ch)' /\ \E e \in LogEntry : Accepts(s, e)
  <2>1. /\ Entry(to, servers) \in LogEntry /\ ~Entry(to, servers).own
        /\ Entry(to, servers).id = id /\ Entry(to, servers).chan = ch
    BY DEF LogEntry
  <2> HIDE DEF Entry
  <2>2. Accepts(s, Entry(to, servers))
    BY <1>3, <2>1 DEF Accepts, MayMissId
  <2>3. Traced(s, Entry(to, servers).id, Entry(to, servers).chan)'
    BY <1>3, AppendTraced DEF ServerOK
  <2> QED
    BY <2>1, <2>2, <2>3
<1>4. UsersOf(s, ch).items \in Seq(Pointers) /\ <<>> \in Seq(Pointers)
  BY UsersOfGood DEF ServerOK, GoodUsers, CountedArrays
<1>5. fwd \in SUBSET Neighbours[s] /\ fwd \in SUBSET Servers /\ {} \in SUBSET Servers
  BY ChatServerAssumption DEF ForwardTo, SubscribersIn
<1>6. \/ Dies(s)
      \/ /\ Resub(s, nw, chans[s], SweptSubs(s), NoneTold, ToEach({t}, Leave(ch)))
         /\ \/ UNCHANGED log
            \/ MayMissId(s, id) /\ log' = [log EXCEPT ![s] = Append(log[s], Entry(<<>>, {}))]
      \/ /\ MayMissId(s, id)
         /\ log' = [log EXCEPT ![s] = Append(log[s], Entry(UsersOf(s, ch).items, fwd))]
         /\ Resub(s, nw, chans[s], SweptSubs(s), NoneTold, ToEach(fwd, Say(ch, id)))
  BY DEF ServSay
<1>7. ASSUME Resub(s, nw, chans[s], SweptSubs(s), NoneTold, ToEach(fwd, Say(ch, id))),
             Traced(s, id, ch)'
      PROVE  Explained
  <2>1. ToEach(fwd, Say(ch, id)) \in Outgoing
    BY MessageTypes, SendingTypes
  <2>2. OnlySent(nw, s, ToEach(fwd, Say(ch, id)))
    BY <1>7, <2>1, RequestFacts, ResubOK
  <2>3. \A p, q \in Servers : Range(nw[p][q]) \subseteq Range(net[p][q])
    BY <1>0, QuietExplained
  <2> HIDE DEF fwd
  <2> QED
    BY <1>5, <1>7, <2>2, <2>3, CopiesExplained
<1> HIDE DEF fwd, Entry
<1> QED
  BY <1>1, <1>2, <1>3, <1>4, <1>5, <1>6, <1>7

\* UDP adds no Say to a link.
LEMMA FaultsQuiet ==
  ASSUME ServerOK, NEW s \in Servers, NEW t \in Servers, NEW i \in DOMAIN net[s][t],
         Lose(s, t, i) \/ Duplicate(s, t, i) \/ Overtake(s, t, i)
  PROVE  Quiet(net)
<1> DEFINE q == net[s][t]
<1>1. q \in Seq(Message) /\ i \in 1 .. Len(q) /\ DOMAIN q = 1 .. Len(q) /\ Len(q) \in Nat
  BY DEF ServerOK, LoopOK, Outgoing
<1>2. ASSUME NEW r, \A k \in DOMAIN r : \E j \in DOMAIN q : r[k] = q[j],
             net' = [net EXCEPT ![s][t] = r]
      PROVE  Quiet(net)
  <2>1. \A u, v \in Servers : net'[u][v] = IF u = s /\ v = t THEN r ELSE net[u][v]
    BY <1>2 DEF ServerOK, LoopOK, Outgoing
  <2>2. Range(r) \subseteq Range(q)
    BY <1>2 DEF Range
  <2> QED
    BY <2>1, <2>2 DEF Quiet
<1>3. CASE Lose(s, t, i)
  <2>1. net' = [net EXCEPT ![s][t] = RemoveAt(q, i)]
    BY <1>3 DEF Lose
  <2> HIDE DEF q
  <2>2. \A k \in DOMAIN RemoveAt(q, i) : \E j \in DOMAIN q : RemoveAt(q, i)[k] = q[j]
    <3> DEFINE front == SubSeq(q, 1, i - 1)
               back == SubSeq(q, i + 1, Len(q))
    <3>1. front \in Seq(Message) /\ \A k \in DOMAIN front : k \in DOMAIN q /\ front[k] = q[k]
      BY <1>1
    <3>2. back \in Seq(Message) /\ \A k \in DOMAIN back : k + i \in DOMAIN q /\ back[k] = q[k + i]
      BY <1>1
    <3>3. RemoveAt(q, i) = front \o back
      BY DEF RemoveAt
    <3> HIDE DEF front, back
    <3>4. Range(front \o back) \subseteq Range(q)
      BY <3>1, <3>2, RangeOfConcat DEF Range
    <3> QED
      BY <3>3, <3>4 DEF Range
  <2> QED
    BY <1>2, <2>1, <2>2
<1>4. CASE Duplicate(s, t, i)
  <2>1. net' = [net EXCEPT ![s][t] = Append(q, q[i])]
    BY <1>4 DEF Duplicate
  <2> HIDE DEF q
  <2>2. \A k \in DOMAIN Append(q, q[i]) : \E j \in DOMAIN q : Append(q, q[i])[k] = q[j]
    <3>1. DOMAIN Append(q, q[i]) = 1 .. Len(q) + 1 /\ Append(q, q[i])[Len(q) + 1] = q[i]
          /\ \A k \in 1 .. Len(q) : Append(q, q[i])[k] = q[k]
      BY <1>1
    <3> QED
      BY <1>1, <3>1
  <2> QED
    BY <1>2, <2>1, <2>2
<1>5. CASE Overtake(s, t, i)
  <2> DEFINE r == [q EXCEPT ![i] = q[i + 1], ![i + 1] = q[i]]
  <2>1. net' = [net EXCEPT ![s][t] = r] /\ i < Len(q)
    BY <1>5 DEF Overtake
  <2> HIDE DEF q
  <2>2. \A k \in DOMAIN r : \E j \in DOMAIN q : r[k] = q[j]
    <3>1. i + 1 \in DOMAIN q
      BY <1>1, <2>1
    <3> QED
      BY <1>1, <3>1
  <2> HIDE DEF r
  <2> QED
    BY <1>2, <2>1, <2>2
<1> QED
  BY <1>3, <1>4, <1>5

\* Every step.
LEMMA NextSays ==
  ASSUME ServerOK, SessOK, SaysTraced, [Next]_vars
  PROVE  Explained /\ (UNCHANGED log \/ \E s \in Servers, e \in LogEntry : Accepts(s, e))
<1> DEFINE Goal == Explained /\ (UNCHANGED log \/ \E s \in Servers, e \in LogEntry : Accepts(s, e))
<1>1. UNCHANGED net => Quiet(net)
  BY DEF Quiet
<1>2. Servers = {} \/ (Quiet(net) => Explained)
  BY QuietExplained
<1>3. Servers = {} => Explained
  BY DEF Explained
<1>4. Quiet(net) => Explained
  BY <1>2, <1>3
<1>5. ASSUME NEW c \in Clients, ClientStep(c) PROVE Goal
  <2>1. Home[c] \in Servers /\ sess[c].active \in ChannelNames /\ Common \in ChannelNames
    BY SessionPlace
  <2>2. \/ UNCHANGED <<net, log>>
        \/ /\ UNCHANGED log \/ Dies(Home[c])
           /\ \/ LoginRequest(Home[c], c) \/ ListRequest(Home[c]) \/ LogoutRequest(Home[c], c)
              \/ \E ch \in ChannelNames : \/ JoinRequest(Home[c], c, ch) \/ LeaveRequest(Home[c], c, ch)
                                        \/ WhoRequest(Home[c], ch)
        \/ \E id \in Ids : SayRequest(Home[c], c, sess[c].active, id)
    BY <1>5, <2>1 DEF ClientStep, Login, JoinCommon, JoinCommand, LeaveCommand, SwitchCommand,
         SayCommand, WhoCommand, ListCommand, LogoutCommand, Handled, LostRequest, serverVars,
         LoginRequest, JoinRequest, LeaveRequest, WhoRequest, ListRequest, LogoutRequest,
         LogoutKnown, LogoutUnknown
  <2>3. Dies(Home[c]) => UNCHANGED log
    BY DEF Dies
  <2> QED
    BY <1>1, <1>4, <2>1, <2>2, <2>3, LoginOK, ListOK, LogoutOK, JoinOK, LeaveOK, WhoOK, SayStep
<1>6. ASSUME NEW s \in Servers, NEW t \in Servers, ServerReceive(s, t) PROVE Goal
  <2> DEFINE m == Head(net[t][s])
             nw == [net EXCEPT ![t][s] = Tail(@)]
  <2>1. m \in Message /\ nw \in [Servers -> Outgoing] /\ net[t][s] # <<>> /\ net[t][s] \in Seq(Message)
    BY <1>6, ReadTypes DEF ServerReceive, Receive, ServerOK, LoopOK, Outgoing
  <2>2. m.chan \in ChannelNames /\ (m.type = "say" => m.id \in Ids)
    BY <2>1 DEF Message
  <2>3. m \in Range(net[t][s])
    BY <2>1 DEF Range
  <2>4. \/ ServJoin(s, t, nw, m.chan) \/ ServLeave(s, t, nw)
        \/ m.type = "say" /\ ServSay(s, t, nw, m.chan, m.id)
    BY <1>6 DEF ServerReceive, Receive
  <2>5. m.type = "say" => t \in Neighbours[s] /\ Traced(t, m.id, m.chan)
    BY <2>3, ChatServerAssumption DEF SaysTraced
  <2>6. ServJoin(s, t, nw, m.chan) \/ ServLeave(s, t, nw) => UNCHANGED log
    BY DEF ServJoin, ServLeave, Dies
  <2>7. Quiet(nw) => Explained
    BY <2>1, QuietExplained
  <2> HIDE DEF m
  <2>8. ServJoin(s, t, nw, m.chan) \/ ServLeave(s, t, nw) => Quiet(nw)
    BY <2>1, <2>2, ServJoinOK, ServLeaveOK
  <2>9. m.type = "say" /\ ServSay(s, t, nw, m.chan, m.id) => Goal
    BY <2>1, <2>2, <2>5, ServSayStep
  <2> QED
    BY <2>4, <2>6, <2>7, <2>8, <2>9
<1>7. ASSUME NEW s \in Servers, NEW t \in Servers,
             \/ ServerIdle(s) \/ ServerKilled(s) \/ DatagramLost(s, t)
             \/ DatagramDuplicated(s, t) \/ DatagramOvertaken(s, t)
      PROVE  Quiet(net) /\ UNCHANGED log
  BY <1>7, IdleOK, DiesOK, FaultsQuiet
     DEF ServerIdle, Idle, ServerKilled, Kill, Dies, DatagramLost, Lose, DatagramDuplicated,
         Duplicate, DatagramOvertaken, Overtake
<1>8. CASE TimePasses
  BY <1>1, <1>4, <1>8 DEF TimePasses, Tick
<1>9. CASE UNCHANGED vars
  BY <1>1, <1>4, <1>9 DEF vars, serverVars
<1>10. CASE Next
  BY <1>4, <1>5, <1>6, <1>7, <1>8, <1>10 DEF Next
<1> QED
  BY <1>9, <1>10

\* So the invariant is one.
LEMMA TracedInvariant ==
  /\ Init => SaysTraced
  /\ ServerOK /\ SessOK /\ SaysTraced /\ [Next]_vars => SaysTraced'
<1>1. Init => SaysTraced
  BY DEF Init, ServerInit, SaysTraced, Range
<1>2. ASSUME ServerOK, SessOK, SaysTraced, [Next]_vars PROVE SaysTraced'
  <2> SUFFICES ASSUME NEW p \in Servers, NEW q \in Servers, NEW m \in Range(net'[p][q]), m.type = "say"
               PROVE  q \in Neighbours[p] /\ Traced(p, m.id, m.chan)'
    BY DEF SaysTraced, Traced
  <2>1. Explained /\ LogStep(p)
    BY <1>2, NextSays, NextLogs
  <2>2. CASE m \in Range(net[p][q])
    <3>1. q \in Neighbours[p] /\ Traced(p, m.id, m.chan)
      BY <1>2, <2>2 DEF SaysTraced
    <3> QED
      BY <1>2, <2>1, <3>1, TracedStays DEF ServerOK
  <2> QED
    BY <2>1, <2>2 DEF Explained
<1> QED
  BY <1>1, <1>2

\* Nothing is made up on the way: whatever a server accepts, on any topology and under any
\* fault, was said by a client of some server, on that channel.
THEOREM NothingMadeUp == Spec => []EverySayWasSaid
<1> DEFINE Inv == ServerOK /\ SessOK /\ faults \in 0 .. MaxFaults /\ SaysTraced
           Origin(id, ch) == \E t \in Servers : \E j \in DOMAIN log[t] :
                               log[t][j].own /\ log[t][j].id = id /\ log[t][j].chan = ch
           OriginNow(id, ch) == \E t \in Servers : \E j \in DOMAIN log'[t] :
                                  log'[t][j].own /\ log'[t][j].id = id /\ log'[t][j].chan = ch
<1>1. Init => Inv /\ EverySayWasSaid
  BY InitOK, TracedInvariant DEF Init, ServerInit, EverySayWasSaid
<1>2. Inv /\ EverySayWasSaid /\ [Next]_vars => Inv' /\ EverySayWasSaid'
  <2> SUFFICES ASSUME Inv, EverySayWasSaid, [Next]_vars PROVE Inv' /\ EverySayWasSaid'
    OBVIOUS
  <2>1. Inv'
    BY NextOK, TracedInvariant
  <2>2. SUFFICES ASSUME NEW s \in Servers, NEW i \in DOMAIN log'[s]
                 PROVE  OriginNow(log'[s][i].id, log'[s][i].chan)
    BY <2>1 DEF EverySayWasSaid
  <2>3. \A t \in Servers : \A j \in DOMAIN log[t] : j \in DOMAIN log'[t] /\ log'[t][j] = log[t][j]
    BY NextLogs, LogGrows DEF ServerOK
  <2>4. \A t \in Servers : \A j \in DOMAIN log[t] : Origin(log[t][j].id, log[t][j].chan)
    BY DEF EverySayWasSaid
  <2>5. \A id, ch : Origin(id, ch) => OriginNow(id, ch)
    BY <2>3
  <2>6. CASE i \in DOMAIN log[s]
    BY <2>3, <2>4, <2>5, <2>6
  <2>7. CASE i \notin DOMAIN log[s]
    <3>1. PICK r \in Servers, e \in LogEntry : Accepts(r, e)
      BY <2>2, <2>7, NextSays
    <3>2. log \in [Servers -> Seq(LogEntry)] /\ log' = [log EXCEPT ![r] = Append(log[r], e)]
      BY <3>1 DEF Accepts, ServerOK, LogOK
    <3>3. r = s /\ log'[s] = Append(log[s], e) /\ log[s] \in Seq(LogEntry)
      BY <2>2, <2>7, <3>2
    <3>4. log'[s][i] = e
      BY <2>2, <2>7, <3>3
    <3>5. CASE e.own
      BY <2>2, <3>4, <3>5
    <3>6. CASE ~e.own
      <4>1. PICK t \in Neighbours[s] : Traced(t, e.id, e.chan)
        BY <3>1, <3>3, <3>6 DEF Accepts
      <4>2. Origin(e.id, e.chan)
        BY <2>4, <4>1, ChatServerAssumption DEF Traced
      <4> QED
        BY <2>5, <3>4, <4>2
    <3> QED
      BY <3>5, <3>6
  <2> QED
    BY <2>6, <2>7
<1> QED
  BY <1>1, <1>2, PTL DEF Spec

--------------------------------------------------------------------------------
(* The refinement *)

\* What Gossip keeps of an entry.
Summary(e) == [id |-> e.id, chan |-> e.chan, own |-> e.own]

\* It keeps these as they are.
LEMMA SummaryFields == \A e : Summary(e).id = e.id /\ Summary(e).chan = e.chan
BY DEF Summary

\* The mapped logs.
LEMMA AcceptedFacts ==
  ASSUME LogOK, NEW s \in Servers
  PROVE  /\ Accepted[s] \in Seq(Gossip!Accepted)
         /\ Len(Accepted[s]) = Len(log[s]) /\ DOMAIN Accepted[s] = DOMAIN log[s]
         /\ \A i \in DOMAIN log[s] : Accepted[s][i] = Summary(log[s][i])
<1>1. log[s] \in Seq(LogEntry) /\ Len(log[s]) \in Nat /\ DOMAIN log[s] = 1 .. Len(log[s])
  BY DEF LogOK
<1>2. Accepted[s] = [i \in 1 .. Len(log[s]) |-> Summary(log[s][i])]
  BY <1>1 DEF Accepted, Summary
<1>3. \A i \in 1 .. Len(log[s]) : Summary(log[s][i]) \in Gossip!Accepted
  <2>1. \A i \in 1 .. Len(log[s]) : log[s][i] \in LogEntry
    BY <1>1
  <2> QED
    BY <2>1 DEF LogEntry, Summary, Gossip!Accepted
<1> HIDE DEF Summary
<1> QED
  BY <1>1, <1>2, <1>3

\* Gossip compares with no more ids than has_id does.
LEMMA RecentMapped ==
  ASSUME LogOK, NEW s \in Servers
  PROVE  Gossip!Recent(s) \subseteq RecentIds(s) /\ Gossip!IdsAccepted(s) \subseteq Ids_of(s)
<1>0. \A i \in DOMAIN log[s] : Accepted[s][i] = Summary(log[s][i])
  BY AcceptedFacts
<1>1. \A i \in DOMAIN log[s] : Accepted[s][i].id = log[s][i].id
  BY <1>0, SummaryFields
<1>2. \A i \in DOMAIN log[s] : Len(log[s]) - i < MaxIds => log[s][i].id \in RecentIds(s)
  BY RecentEntries
<1>3. Gossip!Recent(s) \subseteq RecentIds(s)
  BY <1>1, <1>2, AcceptedFacts DEF Gossip!Recent
<1>4. Gossip!IdsAccepted(s) \subseteq Ids_of(s)
  BY <1>1, AcceptedFacts DEF Gossip!IdsAccepted, Ids_of, IdsOf
<1> QED
  BY <1>3, <1>4

\* One entry more in the log is one Say more that was accepted.
LEMMA AcceptedGrows ==
  ASSUME LogOK, LogOK', NEW s \in Servers, NEW e \in LogEntry,
         log' = [log EXCEPT ![s] = Append(log[s], e)]
  PROVE  Accepted' = [Accepted EXCEPT ![s] = Append(Accepted[s], Summary(e))]
<1>1. log[s] \in Seq(LogEntry) /\ Len(log[s]) \in Nat /\ log'[s] = Append(log[s], e)
  BY DEF LogOK
<1>2. Accepted' = [p \in Servers |-> [i \in DOMAIN log'[p] |-> Summary(log'[p][i])]]
  BY DEF Accepted, Summary
<1>3. Accepted = [p \in Servers |-> [i \in DOMAIN log[p] |-> Summary(log[p][i])]]
  BY DEF Accepted, Summary
<1> HIDE DEF Summary
<1>4. [i \in DOMAIN log'[s] |-> Summary(log'[s][i])] = Append(Accepted[s], Summary(e))
  <2> DEFINE n == Len(log[s])
             r == [i \in 1 .. n |-> Summary(log[s][i])]
  <2>1. DOMAIN log'[s] = 1 .. n + 1 /\ log'[s][n + 1] = e /\ \A i \in 1 .. n : log'[s][i] = log[s][i]
    BY <1>1
  <2>2. Accepted[s] = r
    BY <1>1, <1>3
  <2>3. Append(r, Summary(e)) = [i \in 1 .. n + 1 |-> IF i = n + 1 THEN Summary(e) ELSE r[i]]
    BY <1>1
  <2>4. \A i \in 1 .. n + 1 :
          Summary(log'[s][i]) = IF i = n + 1 THEN Summary(e) ELSE r[i]
    BY <1>1, <2>1
  <2> HIDE DEF r
  <2> QED
    BY <2>1, <2>2, <2>3, <2>4
<1>5. \A p \in Servers : p # s => log'[p] = log[p]
  BY DEF LogOK
<1>6. \A p \in Servers : Accepted'[p] = IF p = s THEN Append(Accepted[s], Summary(e)) ELSE Accepted[p]
  <2>1. Accepted'[s] = Append(Accepted[s], Summary(e))
    BY <1>2, <1>4
  <2>2. \A p \in Servers : p # s => Accepted'[p] = [i \in DOMAIN log[p] |-> Summary(log[p][i])]
    BY <1>2, <1>5
  <2> QED
    BY <1>3, <2>1, <2>2
<1> QED
  BY <1>2, <1>3, <1>6

\* A step that accepts a Say is a step of Gossip.
LEMMA AcceptsMapped ==
  ASSUME LogOK, LogOK', NEW s \in Servers, NEW e \in LogEntry, Accepts(s, e)
  PROVE  Gossip!Next
<1>1. e.id \in Ids /\ e.chan \in ChannelNames /\ e.own \in BOOLEAN
  BY DEF LogEntry
<1>2. Accepted' = [Accepted EXCEPT ![s] = Append(Accepted[s], Summary(e))]
  BY AcceptedGrows DEF Accepts
<1>3. CASE e.own
  <2>1. FreshIds => \A t \in Servers : e.id \notin Gossip!IdsAccepted(t)
    BY <1>3, RecentMapped DEF Accepts, Generated, Ids_of, IdsOf
  <2>2. Summary(e) = [id |-> e.id, chan |-> e.chan, own |-> TRUE]
    BY <1>3 DEF Summary
  <2>3. Gossip!Say(s, e.id, e.chan)
    BY <1>2, <2>1, <2>2 DEF Gossip!Say
  <2> QED
    BY <1>1, <2>3 DEF Gossip!Next
<1>4. CASE ~e.own
  <2>1. PICK t \in Neighbours[s] : Traced(t, e.id, e.chan)
    BY <1>4 DEF Accepts
  <2>2. t \in Servers
    BY ChatServerAssumption
  <2>3. \E i \in DOMAIN Accepted[t] : Accepted[t][i].id = e.id /\ Accepted[t][i].chan = e.chan
    <3>1. DOMAIN Accepted[t] = DOMAIN log[t] /\ \A i \in DOMAIN log[t] : Accepted[t][i] = Summary(log[t][i])
      BY <2>2, AcceptedFacts
    <3> QED
      BY <2>1, <3>1, SummaryFields DEF Traced
  <2>4. e.id \notin Gossip!Recent(s)
    BY <1>4, RecentMapped DEF Accepts
  <2>5. Summary(e) = [id |-> e.id, chan |-> e.chan, own |-> FALSE]
    BY <1>1, <1>4 DEF Summary
  <2>6. Gossip!Hear(s, t, e.id, e.chan)
    BY <1>2, <2>3, <2>4, <2>5 DEF Gossip!Hear
  <2> QED
    BY <1>1, <2>2, <2>6 DEF Gossip!Next
<1> QED
  BY <1>1, <1>3, <1>4

\* The servers of any federation, whatever becomes of datagrams and processes, implement
\* Gossip: a server accepts what its own clients say and what a neighbour accepted
\* before, unless it is one of the last MAX_IDS.
THEOREM Refinement == Spec => GossipSpec
<1> DEFINE Inv == ServerOK /\ SessOK /\ faults \in 0 .. MaxFaults /\ SaysTraced
<1>1. Init => Inv
  BY InitOK, TracedInvariant
<1>2. Inv /\ [Next]_vars => Inv'
  BY NextOK, TracedInvariant
<1>3. Init => Gossip!Init
  <2> SUFFICES ASSUME Init PROVE Accepted = [s \in Servers |-> <<>>]
    BY DEF Gossip!Init
  <2>1. log = [s \in Servers |-> <<>>]
    BY DEF Init, ServerInit
  <2> QED
    BY <2>1 DEF Accepted
<1>4. Inv /\ Inv' /\ [Next]_vars => [Gossip!Next]_Accepted
  <2> SUFFICES ASSUME Inv, Inv', [Next]_vars PROVE Gossip!Next \/ UNCHANGED Accepted
    OBVIOUS
  <2>1. UNCHANGED log => UNCHANGED Accepted
    BY DEF Accepted
  <2>2. UNCHANGED log \/ \E s \in Servers, e \in LogEntry : Accepts(s, e)
    BY NextSays
  <2> QED
    BY <2>1, <2>2, AcceptsMapped DEF ServerOK
<1> QED
  BY <1>1, <1>2, <1>3, <1>4, PTL DEF Spec, GossipSpec, Gossip!Spec

================================================================================
