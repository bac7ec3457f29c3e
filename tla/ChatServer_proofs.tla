---------------------------- MODULE ChatServer_proofs ----------------------------
(***************************************************************************)
(* Every request of a client, every message of a neighbour and every event *)
(* of the environment keeps the state of the servers well formed.          *)
(***************************************************************************)
EXTENDS ChatServer, Tables_proofs

Outgoing == [Servers -> Seq(Message)]

GoodSubsOf(sb) == sb \in [Servers -> CountedArrays(Subscription)] /\ \A t \in Servers : GoodSubs(sb[t])

\* The variables that Record and Resub set.
LoopOK ==
  /\ alive \in [Servers -> BOOLEAN]
  /\ chans \in [Servers -> Seq(Channel)]
  /\ \A s \in Servers : GoodChannels(chans[s])
  /\ subs \in [Servers -> [Servers -> CountedArrays(Subscription)]]
  /\ \A s \in Servers : GoodSubsOf(subs[s])
  /\ net \in [Servers -> Outgoing]
  /\ dropped \in [Servers -> [Servers -> SUBSET ChannelNames]]

UsersOK ==
  /\ all_users \in [Servers -> CountedArrays(Clients)]
  /\ \A s \in Servers : WellCounted(all_users[s])
  /\ freed \in [Servers -> SUBSET Clients]

LogOK == log \in [Servers -> Seq(LogEntry)]

ServerOK == LoopOK /\ UsersOK /\ LogOK

\* In a step nothing gets lost that is under way in nw to a process that lives on.
Kept(nw) ==
  \A p, q \in Servers : alive'[q] => alive[q] /\ Range(nw[p][q]) \subseteq Range(net'[p][q])

\* No Say is under way that was not in nw.
Quiet(nw) ==
  \A p, q \in Servers : \A m \in Range(net'[p][q]) : m.type = "say" => m \in Range(nw[p][q])

\* No Say is among the messages.
Sayless(out) == \A q \in Servers : \A m \in Range(out[q]) : m.type # "say"

\* A Say that is under way was in nw, or s sent it.
OnlySent(nw, s, out) ==
  \A p, q \in Servers : \A m \in Range(net'[p][q]) :
    m.type = "say" => m \in Range(nw[p][q]) \/ (p = s /\ m \in Range(out[q]))

\* What s sends is under way afterwards.
Sent(s, out) == \A q \in Servers : alive'[q] => Range(out[q]) \subseteq Range(net'[s][q])

--------------------------------------------------------------------------------
(* Sending *)

\* What handlers send are messages.
LEMMA SendingTypes ==
  /\ Nothing \in Outgoing
  /\ NoneTold \in [Servers -> SUBSET ChannelNames]
  /\ \A T : \A m \in Message : ToEach(T, m) \in Outgoing
  /\ \A out1, out2 \in Outgoing : Both(out1, out2) \in Outgoing
<1>1. Nothing \in Outgoing
  BY DEF Nothing, Outgoing
<1>2. NoneTold \in [Servers -> SUBSET ChannelNames]
  BY DEF NoneTold
<1>3. \A T : \A m \in Message : ToEach(T, m) \in Outgoing
  BY DEF ToEach, Outgoing
<1>4. \A out1, out2 \in Outgoing : Both(out1, out2) \in Outgoing
  BY DEF Both, Outgoing
<1> QED
  BY <1>1, <1>2, <1>3, <1>4

\* The three kinds of messages.
LEMMA MessageTypes ==
  ASSUME NEW ch \in ChannelNames
  PROVE  Join(ch) \in Message /\ Leave(ch) \in Message /\ \A id \in Ids : Say(ch, id) \in Message
BY DEF Join, Leave, Say, Message

\* Only a Say is one.
LEMMA SaylessSending ==
  /\ Sayless(Nothing)
  /\ \A T, ch : Sayless(ToEach(T, Join(ch))) /\ Sayless(ToEach(T, Leave(ch)))
<1>1. Sayless(Nothing)
  BY DEF Sayless, Nothing, Range
<1>2. \A T, m : m.type # "say" => Sayless(ToEach(T, m))
  BY DEF Sayless, ToEach, Range
<1>3. \A ch : Join(ch).type # "say" /\ Leave(ch).type # "say"
  BY DEF Join, Leave
<1> QED
  BY <1>1, <1>2, <1>3

\* The network after s has sent, and after a process has gone.
LEMMA NetworkTypes ==
  ASSUME NEW nw \in [Servers -> Outgoing], NEW s \in Servers, NEW out \in Outgoing
  PROVE  After(nw, s, out) \in [Servers -> Outgoing] /\ Unread(nw, s) \in [Servers -> Outgoing]
<1>1. \A t \in Servers : nw[s][t] \o out[t] \in Seq(Message) /\ nw[s][t] \in Seq(Message)
  BY DEF Outgoing
<1>2. [t \in Servers |-> IF alive[t] THEN nw[s][t] \o out[t] ELSE nw[s][t]] \in Outgoing
  BY <1>1 DEF Outgoing
<1>3. After(nw, s, out) = [nw EXCEPT ![s] =
        [t \in Servers |-> IF alive[t] THEN nw[s][t] \o out[t] ELSE nw[s][t]]]
  BY DEF After
<1>4. After(nw, s, out) \in [Servers -> Outgoing]
  BY <1>2, <1>3
<1>5. \A p \in Servers : [nw[p] EXCEPT ![s] = <<>>] \in Outgoing
  BY DEF Outgoing
<1>6. Unread(nw, s) \in [Servers -> Outgoing]
  BY <1>5 DEF Unread
<1> QED
  BY <1>4, <1>6

\* A concatenation has what its parts have.
LEMMA RangeOfConcat ==
  ASSUME NEW a \in Seq(Message), NEW b \in Seq(Message)
  PROVE  /\ Range(a) \subseteq Range(a \o b) /\ Range(b) \subseteq Range(a \o b)
         /\ Range(a \o b) \subseteq Range(a) \cup Range(b)
<1>1. \A k \in DOMAIN a : k \in DOMAIN (a \o b) /\ (a \o b)[k] = a[k]
  OBVIOUS
<1>2. \A k \in DOMAIN b : Len(a) + k \in DOMAIN (a \o b) /\ (a \o b)[Len(a) + k] = b[k]
  OBVIOUS
<1>3. \A k \in DOMAIN (a \o b) :
        \/ k \in DOMAIN a /\ (a \o b)[k] = a[k]
        \/ k - Len(a) \in DOMAIN b /\ (a \o b)[k] = b[k - Len(a)]
  OBVIOUS
<1>4. Range(a) \subseteq Range(a \o b) /\ Range(b) \subseteq Range(a \o b)
  BY <1>1, <1>2 DEF Range
<1>5. Range(a \o b) \subseteq Range(a) \cup Range(b)
  BY <1>3 DEF Range
<1> QED
  BY <1>4, <1>5

\* Datagrams are added behind those that are there.
LEMMA NetworkKept ==
  ASSUME NEW nw \in [Servers -> Outgoing], NEW s \in Servers, NEW out \in Outgoing,
         NEW p \in Servers, NEW q \in Servers
  PROVE  /\ Range(nw[p][q]) \subseteq Range(After(nw, s, out)[p][q])
         /\ alive[q] => Range(out[q]) \subseteq Range(After(nw, s, out)[s][q])
         /\ q # s => Unread(nw, s)[p][q] = nw[p][q]
         /\ Range(Unread(nw, s)[p][q]) \subseteq Range(nw[p][q])
<1>1. nw[p][q] \in Seq(Message) /\ nw[s][q] \in Seq(Message) /\ out[q] \in Seq(Message)
  BY DEF Outgoing
<1>2. After(nw, s, out)[p][q] =
        IF p = s /\ alive[q] THEN nw[p][q] \o out[q] ELSE nw[p][q]
  BY DEF After, Outgoing
<1>3. alive[q] => After(nw, s, out)[s][q] = nw[s][q] \o out[q]
  BY DEF After, Outgoing
<1>4. Unread(nw, s)[p][q] = IF q = s THEN <<>> ELSE nw[p][q]
  BY DEF Unread, Outgoing
<1>5. Range(<<>>) = {}
  BY DEF Range
<1>6. Range(nw[p][q]) \subseteq Range(After(nw, s, out)[p][q])
  <2>1. CASE p = s /\ alive[q]
    <3>1. Range(nw[s][q]) \subseteq Range(nw[s][q] \o out[q])
      BY <1>1, RangeOfConcat
    <3> QED
      BY <1>2, <2>1, <3>1
  <2>2. CASE ~(p = s /\ alive[q])
    BY <1>2, <2>2
  <2> QED
    BY <2>1, <2>2
<1>7. alive[q] => Range(out[q]) \subseteq Range(After(nw, s, out)[s][q])
  <2>1. Range(out[q]) \subseteq Range(nw[s][q] \o out[q])
    BY <1>1, RangeOfConcat
  <2> QED
    BY <1>3, <2>1
<1> QED
  BY <1>4, <1>5, <1>6, <1>7

\* Nothing else is added.
LEMMA NetworkAdded ==
  ASSUME NEW nw \in [Servers -> Outgoing], NEW s \in Servers, NEW out \in Outgoing,
         NEW p \in Servers, NEW q \in Servers
  PROVE  Range(After(nw, s, out)[p][q]) \subseteq
           Range(nw[p][q]) \cup IF p = s THEN Range(out[q]) ELSE {}
<1>1. nw[p][q] \in Seq(Message) /\ out[q] \in Seq(Message)
  BY DEF Outgoing
<1>2. After(nw, s, out)[p][q] =
        IF p = s /\ alive[q] THEN nw[p][q] \o out[q] ELSE nw[p][q]
  BY DEF After, Outgoing
<1> QED
  BY <1>1, <1>2, RangeOfConcat

\* A renewal sends Joins for channels the server has.
LEMMA RenewalsType ==
  ASSUME NEW s \in Servers, NEW cs, GoodChannels(cs), NEW order \in RenewalOrder(cs)
  PROVE  /\ Renewals(s, cs, order) \in Outgoing
         /\ \A k \in DOMAIN order : Renewals(s, cs, SubSeq(order, 1, k - 1)) \in Outgoing
<1> DEFINE n == Cardinality(Due(cs))
<1>1. n \in Nat /\ Due(cs) \in SUBSET (1 .. Len(cs)) /\ cs \in Seq(Channel)
  BY DuePositions DEF GoodChannels
<1>2. order \in [1 .. n -> Due(cs)]
  BY DEF RenewalOrder
<1>3. order \in Seq(Due(cs))
  BY <1>1, <1>2
<1>4. \A r \in Seq(Due(cs)) : Renewals(s, cs, r) \in Outgoing
  <2> SUFFICES ASSUME NEW r \in Seq(Due(cs)) PROVE Renewals(s, cs, r) \in Outgoing
    OBVIOUS
  <2>1. \A k \in DOMAIN r : r[k] \in 1 .. Len(cs)
    BY <1>1
  <2>2. \A k \in DOMAIN r : cs[r[k]] \in Channel
    BY <1>1, <2>1
  <2>3. \A k \in DOMAIN r : Join(cs[r[k]].name) \in Message
    BY <2>2, MessageTypes DEF Channel
  <2>4. [k \in DOMAIN r |-> Join(cs[r[k]].name)] \in Seq(Message)
    BY <2>3
  <2> QED
    BY <2>4 DEF Renewals, Outgoing
<1>5. \A k \in DOMAIN order : SubSeq(order, 1, k - 1) \in Seq(Due(cs))
  BY <1>1, <1>2, <1>3
<1> QED
  BY <1>3, <1>4, <1>5

\* A renewal sends nothing but Joins.
LEMMA RenewalsSayless ==
  ASSUME NEW s, NEW cs, NEW order
  PROVE  Sayless(Renewals(s, cs, order))
<1> SUFFICES ASSUME NEW q \in Servers, NEW k \in DOMAIN Renewals(s, cs, order)[q]
             PROVE  Renewals(s, cs, order)[q][k].type # "say"
  BY DEF Sayless, Range
<1>1. Renewals(s, cs, order)[q] = IF q \in Neighbours[s]
        THEN [j \in DOMAIN order |-> Join(cs[order[j]].name)] ELSE <<>>
  BY DEF Renewals
<1>2. Renewals(s, cs, order)[q][k] = Join(cs[order[k]].name)
  BY <1>1
<1> QED
  BY <1>2 DEF Join

--------------------------------------------------------------------------------
(* The end of an iteration *)

\* A process that dies takes what waited in its socket with it.
LEMMA DiesOK ==
  ASSUME ServerOK, NEW s \in Servers, Dies(s)
  PROVE  ServerOK' /\ Kept(net) /\ Quiet(net)
<1>1. net \in [Servers -> Outgoing] /\ Nothing \in Outgoing
  BY SendingTypes DEF ServerOK, LoopOK
<1>2. Unread(net, s) \in [Servers -> Outgoing]
  BY <1>1, NetworkTypes
<1>3. \A p, q \in Servers : alive'[q] => alive[q] /\ net'[p][q] = net[p][q]
  <2> SUFFICES ASSUME NEW p \in Servers, NEW q \in Servers, alive'[q]
               PROVE  alive[q] /\ net'[p][q] = net[p][q]
    OBVIOUS
  <2>1. alive[q] /\ q # s
    BY DEF Dies, ServerOK, LoopOK
  <2>2. Unread(net, s)[p][q] = net[p][q]
    BY <1>1, <2>1, NetworkKept
  <2> QED
    BY <2>1, <2>2 DEF Dies
<1>4. Quiet(net)
  BY <1>1, NetworkKept DEF Dies, Quiet
<1> QED
  BY <1>2, <1>3, <1>4 DEF Dies, ServerOK, LoopOK, UsersOK, LogOK, Kept

\* The subscriptions after the sweep.
LEMMA SweptSubsOK ==
  ASSUME LoopOK, NEW s \in Servers
  PROVE  GoodSubsOf(SweptSubs(s))
<1>1. \A t \in Servers : GoodSubs(Swept(subs[s][t]))
  BY SweptGood DEF LoopOK, GoodSubsOf
<1> QED
  BY <1>1 DEF SweptSubs, GoodSubsOf, GoodSubs

\* The names a neighbour has subscribed to.
LEMMA SubscribedType ==
  ASSUME NEW srvr \in CountedArrays(Subscription)
  PROVE  Subscribed(srvr) \subseteq ChannelNames
<1>1. \A i \in DOMAIN srvr.items : srvr.items[i] \in Subscription
  BY DEF CountedArrays
<1> QED
  BY <1>1 DEF Subscribed, Subscription

\* The tables and the network at the end of an iteration that is survived.
LEMMA RecordOK ==
  ASSUME LoopOK, NEW s \in Servers, NEW nw \in [Servers -> Outgoing],
         NEW cs, GoodChannels(cs), NEW sb, GoodSubsOf(sb),
         NEW told \in [Servers -> SUBSET ChannelNames], NEW out \in Outgoing,
         Record(s, nw, cs, sb, told, out)
  PROVE  LoopOK' /\ Kept(nw) /\ Sent(s, out) /\ OnlySent(nw, s, out)
<1>1. alive' \in [Servers -> BOOLEAN]
  BY DEF Record, LoopOK
<1>2. chans' \in [Servers -> Seq(Channel)] /\ \A p \in Servers : GoodChannels(chans'[p])
  BY DEF Record, LoopOK, GoodChannels
<1>3. subs' \in [Servers -> [Servers -> CountedArrays(Subscription)]]
      /\ \A p \in Servers : GoodSubsOf(subs'[p])
  BY DEF Record, LoopOK, GoodSubsOf
<1>4. net' \in [Servers -> Outgoing]
  BY NetworkTypes DEF Record
<1>5. dropped' \in [Servers -> [Servers -> SUBSET ChannelNames]]
  <2>1. \A t \in Servers : Subscribed(subs[s][t]) \subseteq ChannelNames
    BY SubscribedType DEF LoopOK
  <2>2. \A t \in Servers :
          (dropped[s][t] \cup Subscribed(subs[s][t]) \cup told[t]) \ Subscribed(sb[t])
            \in SUBSET ChannelNames
    BY <2>1 DEF LoopOK
  <2>3. dropped' = [dropped EXCEPT ![s] = [t \in Servers |->
          (dropped[s][t] \cup Subscribed(subs[s][t]) \cup told[t]) \ Subscribed(sb[t])]]
    BY DEF Record
  <2> QED
    BY <2>2, <2>3 DEF LoopOK
<1>6. Kept(nw) /\ Sent(s, out)
  BY NetworkKept DEF Record, Kept, Sent
<1>7. OnlySent(nw, s, out)
  <2>1. net' = After(nw, s, out)
    BY DEF Record
  <2> SUFFICES ASSUME NEW p \in Servers, NEW q \in Servers, NEW m \in Range(net'[p][q])
               PROVE  m \in Range(nw[p][q]) \/ (p = s /\ m \in Range(out[q]))
    BY DEF OnlySent
  <2> QED
    BY <2>1, NetworkAdded
<1> QED
  BY <1>1, <1>2, <1>3, <1>4, <1>5, <1>6, <1>7 DEF LoopOK, GoodSubsOf

\* What is sent along with something else is sent.
LEMMA BothSent ==
  ASSUME NEW s \in Servers, NEW out1 \in Outgoing, NEW out2 \in Outgoing, Sent(s, Both(out1, out2))
  PROVE  Sent(s, out1)
<1>1. \A q \in Servers : Range(out1[q]) \subseteq Range(Both(out1, out2)[q])
  <2> SUFFICES ASSUME NEW q \in Servers
               PROVE  Range(out1[q]) \subseteq Range(Both(out1, out2)[q])
    OBVIOUS
  <2>1. out1[q] \in Seq(Message) /\ out2[q] \in Seq(Message)
    BY DEF Outgoing
  <2>2. Both(out1, out2)[q] = out1[q] \o out2[q]
    BY DEF Both
  <2> QED
    BY <2>1, <2>2, RangeOfConcat
<1> QED
  BY <1>1 DEF Sent

\* A Say sent along with renewals is not one of them.
LEMMA BothSays ==
  ASSUME NEW nw, NEW s \in Servers, NEW out1 \in Outgoing, NEW out2 \in Outgoing,
         OnlySent(nw, s, Both(out1, out2)), Sayless(out2)
  PROVE  OnlySent(nw, s, out1)
<1>1. \A q \in Servers : \A m \in Range(Both(out1, out2)[q]) :
        m \in Range(out1[q]) \/ m \in Range(out2[q])
  <2> SUFFICES ASSUME NEW q \in Servers, NEW m \in Range(Both(out1, out2)[q])
               PROVE  m \in Range(out1[q]) \/ m \in Range(out2[q])
    OBVIOUS
  <2>1. out1[q] \in Seq(Message) /\ out2[q] \in Seq(Message)
    BY DEF Outgoing
  <2>2. Both(out1, out2)[q] = out1[q] \o out2[q]
    BY DEF Both
  <2> QED
    BY <2>1, <2>2, RangeOfConcat
<1> QED
  BY <1>1 DEF OnlySent, Sayless

\* The same with the renewals, also when the printf of a renewal kills the server.
LEMMA ResubOK ==
  ASSUME LoopOK, NEW s \in Servers, NEW nw \in [Servers -> Outgoing],
         NEW cs, GoodChannels(cs), NEW sb, GoodSubsOf(sb),
         NEW told \in [Servers -> SUBSET ChannelNames], NEW out \in Outgoing,
         Resub(s, nw, cs, sb, told, out)
  PROVE  LoopOK' /\ Kept(nw) /\ Sent(s, out) /\ OnlySent(nw, s, out)
<1>1. PICK order \in RenewalOrder(cs) :
        \/ Record(s, nw, Renewed(cs), sb, told, Both(out, Renewals(s, cs, order)))
        \/ \E k \in DOMAIN order :
             /\ alive' = [alive EXCEPT ![s] = FALSE]
             /\ net' = Unread(After(nw, s, Both(out, Renewals(s, cs, SubSeq(order, 1, k - 1)))), s)
             /\ UNCHANGED <<chans, subs, dropped>>
  BY DEF Resub
<1>2. CASE Record(s, nw, Renewed(cs), sb, told, Both(out, Renewals(s, cs, order)))
  <2>1. GoodChannels(Renewed(cs))
    BY RenewedGood
  <2>2. Both(out, Renewals(s, cs, order)) \in Outgoing
    BY RenewalsType, SendingTypes
  <2>3. /\ LoopOK' /\ Kept(nw) /\ Sent(s, Both(out, Renewals(s, cs, order)))
        /\ OnlySent(nw, s, Both(out, Renewals(s, cs, order)))
    BY <1>2, <2>1, <2>2, RecordOK
  <2> QED
    BY <2>3, RenewalsType, RenewalsSayless, BothSent, BothSays
<1>3. ASSUME NEW k \in DOMAIN order,
             alive' = [alive EXCEPT ![s] = FALSE],
             net' = Unread(After(nw, s, Both(out, Renewals(s, cs, SubSeq(order, 1, k - 1)))), s),
             UNCHANGED <<chans, subs, dropped>>
      PROVE  LoopOK' /\ Kept(nw) /\ Sent(s, out) /\ OnlySent(nw, s, out)
  <2> DEFINE all == Both(out, Renewals(s, cs, SubSeq(order, 1, k - 1)))
             sent == After(nw, s, all)
  <2>1. all \in Outgoing /\ Renewals(s, cs, SubSeq(order, 1, k - 1)) \in Outgoing
    BY RenewalsType, SendingTypes
  <2>2. net' = Unread(sent, s)
    BY <1>3
  <2> HIDE DEF all
  <2>3. sent \in [Servers -> Outgoing]
    BY <2>1, NetworkTypes
  <2>4. net' \in [Servers -> Outgoing]
    BY <2>1, <2>2, <2>3, NetworkTypes
  <2>5. \A p, q \in Servers : alive'[q] => alive[q] /\ net'[p][q] = sent[p][q]
    <3> SUFFICES ASSUME NEW p \in Servers, NEW q \in Servers, alive'[q]
                 PROVE  alive[q] /\ net'[p][q] = sent[p][q]
      OBVIOUS
    <3>1. alive[q] /\ q # s
      BY <1>3 DEF LoopOK
    <3> HIDE DEF sent
    <3>2. Unread(sent, s)[p][q] = sent[p][q]
      BY <2>1, <2>3, <3>1, NetworkKept
    <3> QED
      BY <2>2, <3>1, <3>2
  <2>6. Kept(nw) /\ Sent(s, all)
    <3>1. \A p, q \in Servers : alive[q] =>
            /\ Range(nw[p][q]) \subseteq Range(sent[p][q])
            /\ Range(all[q]) \subseteq Range(sent[s][q])
      BY <2>1, NetworkKept
    <3> QED
      BY <2>5, <3>1 DEF Kept, Sent
  <2>8. OnlySent(nw, s, all)
    <3> SUFFICES ASSUME NEW p \in Servers, NEW q \in Servers, NEW m \in Range(net'[p][q])
                 PROVE  m \in Range(nw[p][q]) \/ (p = s /\ m \in Range(all[q]))
      BY DEF OnlySent
    <3>1. m \in Range(sent[p][q])
      <4> HIDE DEF sent
      <4>1. Range(Unread(sent, s)[p][q]) \subseteq Range(sent[p][q])
        BY <2>1, <2>3, NetworkKept
      <4> QED
        BY <2>2, <4>1
    <3> QED
      BY <2>1, <3>1, NetworkAdded
  <2>7. Sent(s, out) /\ OnlySent(nw, s, out)
    BY <2>1, <2>6, <2>8, RenewalsSayless, BothSent, BothSays DEF all
  <2> QED
    BY <1>3, <2>4, <2>6, <2>7 DEF LoopOK
<1> QED
  BY <1>1, <1>2, <1>3

\* An iteration whose handler sends no Say.
LEMMA QuietOK ==
  ASSUME LoopOK, NEW s \in Servers, NEW nw \in [Servers -> Outgoing],
         NEW cs, GoodChannels(cs), NEW sb, GoodSubsOf(sb),
         NEW told \in [Servers -> SUBSET ChannelNames], NEW out \in Outgoing, Sayless(out),
         Record(s, nw, cs, sb, told, out) \/ Resub(s, nw, cs, sb, told, out)
  PROVE  LoopOK' /\ Kept(nw) /\ Quiet(nw)
<1>1. LoopOK' /\ Kept(nw) /\ OnlySent(nw, s, out)
  BY RecordOK, ResubOK
<1> QED
  BY <1>1 DEF OnlySent, Sayless, Quiet

--------------------------------------------------------------------------------
(* Requests of clients *)

\* The users of a channel, whether or not the server has it.
LEMMA UsersOfGood ==
  ASSUME LoopOK, NEW s \in Servers, NEW ch
  PROVE  GoodUsers(UsersOf(s, ch))
<1>1. CASE HasChannel(chans[s], ch)
  <2>1. chans[s] \in Seq(Channel) /\ GoodChannels(chans[s])
    BY DEF LoopOK
  <2>2. find_channel(chans[s], ch) \in 1 .. Len(chans[s])
    BY <1>1, <2>1, FindChannel
  <2> QED
    BY <1>1, <2>1, <2>2, ChannelUsers DEF UsersOf
<1>2. CASE ~HasChannel(chans[s], ch)
  <2>1. EmptyArray \in CountedArrays(Pointers) /\ WellCounted(EmptyArray)
    BY DEF EmptyArray, CountedArrays, WellCounted
  <2> QED
    BY <1>2, <2>1 DEF UsersOf, GoodUsers
<1> QED
  BY <1>1, <1>2

\* What every request takes from the state.
LEMMA RequestFacts ==
  ASSUME ServerOK, NEW s \in Servers
  PROVE  /\ LoopOK
         /\ net \in [Servers -> Outgoing]
         /\ chans[s] \in Seq(Channel) /\ GoodChannels(chans[s])
         /\ GoodSubsOf(SweptSubs(s))
         /\ Nothing \in Outgoing /\ Sayless(Nothing)
         /\ NoneTold \in [Servers -> SUBSET ChannelNames]
BY SweptSubsOK, SendingTypes, SaylessSending DEF ServerOK, LoopOK

\* A chunk that is handed out again leaves the tables well formed.
LEMMA ReusedGood ==
  ASSUME NEW cs, GoodChannels(cs), NEW old, NEW new \in Clients
  PROVE  GoodChannels(Reused(cs, old, new))
<1> DEFINE Swap(us) == [us EXCEPT !.items = [k \in DOMAIN us.items |->
                          IF us.items[k] = old THEN new ELSE us.items[k]]]
           us == [i \in DOMAIN cs |-> Swap(cs[i].users)]
<1>1. ASSUME NEW u, GoodUsers(u) PROVE GoodUsers(Swap(u))
  <2> DEFINE items == [k \in DOMAIN u.items |-> IF u.items[k] = old THEN new ELSE u.items[k]]
  <2>1. u.items \in Seq(Pointers) /\ new \in Pointers
    BY <1>1 DEF GoodUsers, CountedArrays, Pointers
  <2>2. items \in Seq(Pointers)
    BY <2>1
  <2>3. u.items = <<>> => items = <<>>
    BY <2>1
  <2> HIDE DEF items
  <2>4. [u EXCEPT !.items = items] \in CountedArrays(Pointers)
    BY <1>1, <2>2 DEF GoodUsers, CountedArrays
  <2>5. WellCounted([u EXCEPT !.items = items])
    BY <1>1, <2>3 DEF GoodUsers, CountedArrays, WellCounted
  <2> QED
    BY <2>4, <2>5 DEF GoodUsers, items
<1>2. \A i \in DOMAIN cs : cs[i] \in Channel /\ GoodUsers(cs[i].users)
  BY ChannelUsers DEF GoodChannels
<1>3. \A i \in DOMAIN cs : GoodUsers(us[i])
  BY <1>1, <1>2
<1>4. Reused(cs, old, new) = [i \in DOMAIN cs |-> [cs[i] EXCEPT !.users = us[i]]]
  BY DEF Reused
<1> HIDE DEF us
<1> QED
  BY <1>3, <1>4, MapUsersGood

\* LOGIN.
LEMMA LoginOK ==
  ASSUME ServerOK, NEW s \in Servers, NEW c \in Clients, LoginRequest(s, c)
  PROVE  ServerOK' /\ Kept(net) /\ Quiet(net)
<1>1. PICK old \in freed[s] \cup {Null} :
        LET cs == IF old = Null THEN chans[s] ELSE Reused(chans[s], old, c)
            fr == freed[s] \ {old}
            cs1 == IF cs = <<>> THEN cs ELSE [cs EXCEPT ![1].users = LoginCommon(@, c, fr)]
        IN  \/ Dies(s)
            \/ /\ all_users' = [all_users EXCEPT ![s] = Store(@, c)]
               /\ freed' = [freed EXCEPT ![s] = fr]
               /\ Resub(s, net, cs1, SweptSubs(s), NoneTold, Nothing)
               /\ UNCHANGED log
  BY DEF LoginRequest
<1> DEFINE cs == IF old = Null THEN chans[s] ELSE Reused(chans[s], old, c)
           fr == freed[s] \ {old}
           cs1 == IF cs = <<>> THEN cs ELSE [cs EXCEPT ![1].users = LoginCommon(@, c, fr)]
<1>2. GoodChannels(cs)
  BY RequestFacts, ReusedGood
<1> HIDE DEF cs
<1>3. GoodChannels(cs1)
  <2>1. CASE cs = <<>>
    BY <1>2, <2>1
  <2>2. CASE cs # <<>>
    <3>1. cs \in Seq(Channel) /\ 1 \in 1 .. Len(cs)
      BY <1>2, <2>2 DEF GoodChannels
    <3>2. GoodUsers(cs[1].users)
      BY <1>2, <3>1, ChannelUsers
    <3>3. GoodUsers(LoginCommon(cs[1].users, c, fr))
      BY <3>2, LoginCommonGood
    <3>4. cs1 = [cs EXCEPT ![1].users = LoginCommon(cs[1].users, c, fr)]
      BY <2>2, <3>1
    <3> QED
      BY <1>2, <3>1, <3>3, <3>4, SetUsersGood
  <2> QED
    BY <2>1, <2>2
<1>4. CASE Dies(s)
  BY <1>4, DiesOK
<1>5. CASE /\ all_users' = [all_users EXCEPT ![s] = Store(@, c)]
           /\ freed' = [freed EXCEPT ![s] = fr]
           /\ Resub(s, net, cs1, SweptSubs(s), NoneTold, Nothing)
           /\ UNCHANGED log
  <2>1. LoopOK' /\ Kept(net) /\ Quiet(net)
    BY <1>3, <1>5, RequestFacts, QuietOK
  <2>2. Store(all_users[s], c) \in CountedArrays(Clients) /\ WellCounted(Store(all_users[s], c))
    BY StoreGood DEF ServerOK, UsersOK
  <2>3. UsersOK'
    BY <1>5, <2>2 DEF ServerOK, UsersOK
  <2> QED
    BY <1>5, <2>1, <2>3 DEF ServerOK, LogOK
<1> QED
  BY <1>1, <1>4, <1>5 DEF cs

\* SAY.
LEMMA SayOK ==
  ASSUME ServerOK, NEW s \in Servers, NEW c \in Clients, NEW ch \in ChannelNames, NEW id \in Ids,
         SayRequest(s, c, ch, id)
  PROVE  ServerOK' /\ Kept(net)
<1>1. CASE Dies(s)
  BY <1>1, DiesOK
<1>2. CASE ~SayCrashes(s, c, ch) /\ ~Dies(s)
  <2> DEFINE sb == SweptSubs(s)
             fwd == SubscribersIn(sb, s, ch)
             entry == [id |-> id, chan |-> ch, own |-> TRUE, fwd |-> fwd,
                       to |-> UsersOf(s, ch).items]
  <2>1. /\ log' = [log EXCEPT ![s] = Append(@, entry)]
        /\ Resub(s, net, chans[s], sb, NoneTold, ToEach(fwd, Say(ch, id)))
        /\ UNCHANGED <<all_users, freed>>
    BY <1>2 DEF SayRequest
  <2>2. fwd \in SUBSET Servers
    BY ChatServerAssumption DEF SubscribersIn
  <2>3. UsersOf(s, ch).items \in Seq(Pointers)
    BY UsersOfGood DEF ServerOK, GoodUsers, CountedArrays
  <2>4. entry \in LogEntry
    BY <2>2, <2>3 DEF LogEntry
  <2>5. ToEach(fwd, Say(ch, id)) \in Outgoing
    BY MessageTypes, SendingTypes
  <2>6. LoopOK' /\ Kept(net)
    BY <2>1, <2>5, RequestFacts, ResubOK
  <2> QED
    BY <2>1, <2>4, <2>6 DEF ServerOK, UsersOK, LogOK
<1> QED
  BY <1>1, <1>2 DEF SayRequest

\* JOIN.
LEMMA JoinOK ==
  ASSUME ServerOK, NEW s \in Servers, NEW c \in Clients, NEW ch \in ChannelNames,
         JoinRequest(s, c, ch)
  PROVE  ServerOK' /\ Kept(net) /\ Quiet(net)
<1> DEFINE cs == IF HasChannel(chans[s], ch) THEN chans[s] ELSE add_chnl(chans[s], ch)
           usr == IF LoggedIn(s, c) THEN c ELSE Null
           i == find_channel(cs, ch)
           cs1 == [cs EXCEPT ![i].users = add_user(@, usr)]
<1>1. GoodChannels(cs)
  BY RequestFacts, AddChannelGood
<1>2. HasChannel(cs, ch)
  BY RequestFacts, AddedIsThere
<1> HIDE DEF cs
<1>3. i \in 1 .. Len(cs) /\ cs \in Seq(Channel)
  BY <1>1, <1>2, FindChannel DEF GoodChannels
<1> HIDE DEF i
<1>4. GoodUsers(cs[i].users)
  BY <1>1, <1>3, ChannelUsers
<1>5. GoodUsers(add_user(cs[i].users, usr))
  BY <1>4, StoreGood DEF GoodUsers, add_user, Pointers
<1>6. cs1 = [cs EXCEPT ![i].users = add_user(cs[i].users, usr)]
  BY <1>3
<1>7. GoodChannels(cs1)
  BY <1>1, <1>3, <1>5, <1>6, SetUsersGood
<1>8. LET out == ToEach(Neighbours[s], Join(ch)) IN out \in Outgoing /\ Sayless(out)
  BY MessageTypes, SendingTypes, SaylessSending
<1>9. /\ Resub(s, net, cs1, SweptSubs(s), NoneTold, ToEach(Neighbours[s], Join(ch)))
      /\ UNCHANGED <<all_users, freed, log>>
  BY DEF JoinRequest, cs, i
<1>10. LoopOK' /\ Kept(net) /\ Quiet(net)
  BY <1>7, <1>8, <1>9, RequestFacts, QuietOK
<1> QED
  BY <1>9, <1>10 DEF ServerOK, UsersOK, LogOK

\* LIST.
LEMMA ListOK ==
  ASSUME ServerOK, NEW s \in Servers, ListRequest(s)
  PROVE  ServerOK' /\ Kept(net) /\ Quiet(net)
<1>1. LoopOK' /\ Kept(net) /\ Quiet(net)
  BY RequestFacts, QuietOK DEF ListRequest
<1> QED
  BY <1>1 DEF ListRequest, ServerOK, UsersOK, LogOK

\* WHO.
LEMMA WhoOK ==
  ASSUME ServerOK, NEW s \in Servers, NEW ch \in ChannelNames, WhoRequest(s, ch)
  PROVE  ServerOK' /\ Kept(net) /\ Quiet(net)
<1>1. CASE Dies(s)
  BY <1>1, DiesOK
<1>2. CASE ~Dies(s)
  <2>1. LoopOK' /\ Kept(net) /\ Quiet(net)
    BY <1>2, RequestFacts, QuietOK DEF WhoRequest
  <2> QED
    BY <1>2, <2>1 DEF WhoRequest, ServerOK, UsersOK, LogOK
<1> QED
  BY <1>1, <1>2

\* LEAVE.
LEMMA LeaveOK ==
  ASSUME ServerOK, NEW s \in Servers, NEW c \in Clients, NEW ch \in ChannelNames,
         LeaveRequest(s, c, ch)
  PROVE  ServerOK' /\ Kept(net) /\ Quiet(net)
<1> DEFINE i == find_channel(chans[s], ch)
           us == AfterLeave(s, c, UsersOf(s, ch))
<1>1. CASE Dies(s)
  BY <1>1, DiesOK
<1>2. CASE ~HasChannel(chans[s], ch) /\ ~Dies(s)
  <2>1. LoopOK' /\ Kept(net) /\ Quiet(net)
    BY <1>2, RequestFacts, QuietOK DEF LeaveRequest
  <2> QED
    BY <1>2, <2>1 DEF LeaveRequest, ServerOK, UsersOK, LogOK
<1>3. CASE HasChannel(chans[s], ch) /\ ~Dies(s)
  <2>1. i \in 1 .. Len(chans[s])
    BY <1>3, FindChannel, RequestFacts
  <2>2. GoodUsers(us)
    BY UsersOfGood, RemoveUserGood, DropLastGood DEF ServerOK, AfterLeave, GoodUsers
  <2>3. GoodChannels(remove_chnl(chans[s], i)) /\ GoodChannels([chans[s] EXCEPT ![i].users = us])
    BY <2>1, <2>2, RequestFacts, RemoveChannelGood, SetUsersGood
  <2>4. LET out == ToEach(Neighbours[s], Leave(ch)) IN out \in Outgoing /\ Sayless(out)
    BY MessageTypes, SendingTypes, SaylessSending
  <2>5. /\ \/ Resub(s, net, remove_chnl(chans[s], i), SweptSubs(s), NoneTold,
                    ToEach(Neighbours[s], Leave(ch)))
           \/ Resub(s, net, [chans[s] EXCEPT ![i].users = us], SweptSubs(s), NoneTold, Nothing)
        /\ UNCHANGED <<all_users, freed, log>>
    BY <1>3 DEF LeaveRequest
  <2> HIDE DEF i, us
  <2>6. LoopOK' /\ Kept(net) /\ Quiet(net)
    BY <2>3, <2>4, <2>5, RequestFacts, QuietOK
  <2> QED
    BY <2>5, <2>6 DEF ServerOK, UsersOK, LogOK
<1> QED
  BY <1>1, <1>2, <1>3

\* LOGOUT of a user who is logged in: his entries go, or the last ones.
LEMMA AfterLogoutGood ==
  ASSUME LoopOK, NEW s \in Servers, NEW c \in Clients
  PROVE  GoodChannels(AfterLogout(s, c))
<1> DEFINE us == [i \in DOMAIN chans[s] |-> remove_user(chans[s][i].users, Username[c], freed[s])]
<1>1. GoodChannels(chans[s]) /\ DOMAIN chans[s] = 1 .. Len(chans[s])
  BY DEF LoopOK, GoodChannels
<1>2. \A i \in DOMAIN chans[s] : GoodUsers(us[i])
  BY <1>1, ChannelUsers, RemoveUserGood
<1>3. AfterLogout(s, c) = [i \in DOMAIN chans[s] |-> [chans[s][i] EXCEPT !.users = us[i]]]
  BY DEF AfterLogout
<1> HIDE DEF us
<1>4. GoodChannels([i \in DOMAIN chans[s] |-> [chans[s][i] EXCEPT !.users = us[i]]])
  BY <1>1, <1>2, MapUsersGood
<1> QED
  BY <1>3, <1>4

\* A user who is logged in has an entry to remove.
LEMMA LoggedInPosition ==
  ASSUME UsersOK, NEW s \in Servers, NEW c, LoggedIn(s, c)
  PROVE  u_pos(s, c) \in 1 .. Len(all_users[s].items) /\ all_users[s].items[u_pos(s, c)] = c
<1> DEFINE I == {i \in 1 .. Len(all_users[s].items) : all_users[s].items[i] = c}
<1>1. all_users[s].items \in Seq(Clients)
  BY DEF UsersOK, CountedArrays
<1>2. I # {} /\ I \in SUBSET (1 .. Len(all_users[s].items)) /\ Len(all_users[s].items) \in Nat
  BY <1>1 DEF LoggedIn
<1>3. Min(I) \in I
  BY <1>2, MinOfPositions
<1>4. u_pos(s, c) = Min(I)
  BY <1>2 DEF u_pos, SelectInSeq
<1> QED
  BY <1>3, <1>4

\* So the logout removes entries that are there.
LEMMA LogoutKnownOK ==
  ASSUME ServerOK, NEW s \in Servers, NEW c \in Clients, LoggedIn(s, c), LogoutKnown(s, c)
  PROVE  ServerOK' /\ Kept(net) /\ Quiet(net)
<1> DEFINE i == u_pos(s, c)
<1>1. CASE Dies(s)
  BY <1>1, DiesOK
<1>2. CASE ~Dies(s)
  <2>1. /\ Resub(s, net, AfterLogout(s, c), SweptSubs(s), NoneTold, Nothing)
        /\ all_users' = [all_users EXCEPT ![s] = RemoveIndex(all_users[s], i)]
        /\ freed' = [freed EXCEPT ![s] = @ \cup {c}]
        /\ UNCHANGED log
    BY <1>2 DEF LogoutKnown
  <2>2. i \in 1 .. Len(all_users[s].items)
    BY LoggedInPosition DEF ServerOK
  <2> HIDE DEF i
  <2>3. RemoveIndex(all_users[s], i) \in CountedArrays(Clients)
        /\ WellCounted(RemoveIndex(all_users[s], i))
    BY <2>2, RemoveIndexGood DEF ServerOK, UsersOK
  <2>4. UsersOK'
    BY <2>1, <2>3 DEF ServerOK, UsersOK
  <2>5. LoopOK' /\ Kept(net) /\ Quiet(net)
    BY <2>1, RequestFacts, AfterLogoutGood, QuietOK
  <2> QED
    BY <2>1, <2>4, <2>5 DEF ServerOK, LogOK
<1> QED
  BY <1>1, <1>2

\* LOGOUT of a user who is not: every count goes down.
LEMMA LogoutUnknownOK ==
  ASSUME ServerOK, NEW s \in Servers, LogoutUnknown(s)
  PROVE  ServerOK' /\ Kept(net) /\ Quiet(net)
<1> DEFINE us == [i \in DOMAIN chans[s] |-> DropLast(chans[s][i].users)]
           cs == [i \in DOMAIN chans[s] |-> [chans[s][i] EXCEPT !.users = DropLast(@)]]
<1>1. CASE Dies(s)
  BY <1>1, DiesOK
<1>2. CASE ~Dies(s)
  <2>1. /\ Resub(s, net, cs, SweptSubs(s), NoneTold, Nothing)
        /\ \/ all_users' = [all_users EXCEPT ![s] = DropLast(@)]
           \/ \E i \in DOMAIN all_users[s].items :
                all_users' = [all_users EXCEPT ![s] = RemoveIndex(@, i)]
        /\ UNCHANGED <<freed, log>>
    BY <1>2 DEF LogoutUnknown
  <2>2. GoodChannels(chans[s]) /\ DOMAIN chans[s] = 1 .. Len(chans[s])
    BY DEF ServerOK, LoopOK, GoodChannels
  <2>3. \A i \in DOMAIN chans[s] : GoodUsers(us[i])
    BY <2>2, ChannelUsers, DropLastGood DEF GoodUsers
  <2>4. cs = [i \in DOMAIN chans[s] |-> [chans[s][i] EXCEPT !.users = us[i]]]
    OBVIOUS
  <2> HIDE DEF us
  <2>8. GoodChannels([i \in DOMAIN chans[s] |-> [chans[s][i] EXCEPT !.users = us[i]]])
    BY <2>2, <2>3, MapUsersGood
  <2>5. GoodChannels(cs)
    BY <2>4, <2>8
  <2> HIDE DEF cs
  <2>6. LoopOK' /\ Kept(net) /\ Quiet(net)
    BY <2>1, <2>5, RequestFacts, QuietOK
  <2>7. UsersOK'
    <3>1. all_users[s] \in CountedArrays(Clients) /\ WellCounted(all_users[s])
          /\ DOMAIN all_users[s].items = 1 .. Len(all_users[s].items)
      BY DEF ServerOK, UsersOK, CountedArrays
    <3>2. \E a \in CountedArrays(Clients) :
            WellCounted(a) /\ all_users' = [all_users EXCEPT ![s] = a]
      BY <2>1, <3>1, DropLastGood, RemoveIndexGood
    <3> QED
      BY <2>1, <3>2 DEF ServerOK, UsersOK
  <2> QED
    BY <2>1, <2>6, <2>7 DEF ServerOK, LogOK
<1> QED
  BY <1>1, <1>2

\* LOGOUT, either way.
LEMMA LogoutOK ==
  ASSUME ServerOK, NEW s \in Servers, NEW c \in Clients, LogoutRequest(s, c)
  PROVE  ServerOK' /\ Kept(net) /\ Quiet(net)
BY LogoutKnownOK, LogoutUnknownOK DEF LogoutRequest

--------------------------------------------------------------------------------
(* Messages of neighbours *)

\* A process that dies over a datagram it read.
LEMMA ReaderDies ==
  ASSUME ServerOK, NEW s \in Servers, NEW t \in Servers, Dies(s)
  PROVE  Kept([net EXCEPT ![t][s] = Tail(@)]) /\ Quiet([net EXCEPT ![t][s] = Tail(@)])
<1>1. Kept(net) /\ Quiet(net)
  BY DiesOK
<1>2. ~alive'[s]
  BY DEF Dies, ServerOK, LoopOK
<1>3. \A p, q \in Servers : q # s => [net EXCEPT ![t][s] = Tail(@)][p][q] = net[p][q]
  BY DEF ServerOK, LoopOK, Outgoing
<1>4. \A p \in Servers : net'[p][s] = <<>>
  BY DEF Dies, Unread, ServerOK, LoopOK, Outgoing
<1>5. Range(<<>>) = {}
  BY DEF Range
<1>6. Quiet([net EXCEPT ![t][s] = Tail(@)])
  BY <1>1, <1>3, <1>4, <1>5 DEF Quiet
<1> QED
  BY <1>1, <1>2, <1>3, <1>6 DEF Kept

\* A Join of a neighbour.
LEMMA ServJoinOK ==
  ASSUME ServerOK, NEW s \in Servers, NEW t \in Servers, NEW nw \in [Servers -> Outgoing],
         nw = [net EXCEPT ![t][s] = Tail(@)], NEW ch \in ChannelNames, ServJoin(s, t, nw, ch)
  PROVE  ServerOK' /\ Kept(nw) /\ Quiet(nw)
<1> DEFINE sb == [SweptSubs(s) EXCEPT ![t] = Resubscribe(@, ch)]
           told == [NoneTold EXCEPT ![t] = {ch}]
           cs == IF HasChannel(chans[s], ch) THEN chans[s] ELSE add_chnl(chans[s], ch)
<1>1. GoodChannels(cs)
  BY RequestFacts, AddChannelGood
<1>2. GoodSubsOf(sb)
  <2>1. GoodSubsOf(SweptSubs(s))
    BY RequestFacts
  <2>2. GoodSubs(Resubscribe(SweptSubs(s)[t], ch))
    BY <2>1, ResubscribeGood DEF GoodSubsOf
  <2> QED
    BY <2>1, <2>2 DEF GoodSubsOf, GoodSubs
<1>3. told \in [Servers -> SUBSET ChannelNames]
  BY SendingTypes
<1>4. Announce(s, t, ch) \in Outgoing /\ Sayless(Announce(s, t, ch))
  BY MessageTypes, SendingTypes, SaylessSending DEF Announce
<1>5. Resub(s, nw, cs, sb, told, Announce(s, t, ch)) /\ UNCHANGED <<all_users, freed, log>>
  BY DEF ServJoin
<1> HIDE DEF sb, told, cs
<1>6. LoopOK' /\ Kept(nw) /\ Quiet(nw)
  BY <1>1, <1>2, <1>3, <1>4, <1>5, RequestFacts, QuietOK
<1> QED
  BY <1>5, <1>6 DEF ServerOK, UsersOK, LogOK

\* A Leave of a neighbour.
LEMMA ServLeaveOK ==
  ASSUME ServerOK, NEW s \in Servers, NEW t \in Servers, NEW nw \in [Servers -> Outgoing],
         nw = [net EXCEPT ![t][s] = Tail(@)], ServLeave(s, t, nw)
  PROVE  ServerOK' /\ Kept(nw) /\ Quiet(nw)
<1> DEFINE sb == [SweptSubs(s) EXCEPT ![t] = remove_adj_channel(@)]
<1>1. CASE Dies(s)
  BY <1>1, DiesOK, ReaderDies
<1>2. CASE ~Dies(s)
  <2>1. GoodSubsOf(sb)
    <3>1. GoodSubsOf(SweptSubs(s))
      BY RequestFacts
    <3>2. GoodSubs(remove_adj_channel(SweptSubs(s)[t]))
      BY <3>1, DropLastGood DEF GoodSubsOf, GoodSubs, remove_adj_channel
    <3> QED
      BY <3>1, <3>2 DEF GoodSubsOf, GoodSubs
  <2>2. Resub(s, nw, chans[s], sb, NoneTold, Nothing) /\ UNCHANGED <<all_users, freed, log>>
    BY <1>2 DEF ServLeave
  <2> HIDE DEF sb
  <2>3. LoopOK' /\ Kept(nw) /\ Quiet(nw)
    BY <2>1, <2>2, RequestFacts, QuietOK
  <2> QED
    BY <2>2, <2>3 DEF ServerOK, UsersOK, LogOK
<1> QED
  BY <1>1, <1>2

\* A Say of a neighbour.
LEMMA ServSayOK ==
  ASSUME ServerOK, NEW s \in Servers, NEW t \in Servers, NEW nw \in [Servers -> Outgoing],
         nw = [net EXCEPT ![t][s] = Tail(@)], NEW ch \in ChannelNames, NEW id \in Ids, ServSay(s, t, nw, ch, id)
  PROVE  ServerOK' /\ Kept(nw)
<1> DEFINE sb == SweptSubs(s)
           us == UsersOf(s, ch)
           fwd == ForwardTo(sb, s, t, ch)
           Recorded(to, servers) ==
             log' = [log EXCEPT ![s] =
               Append(@, [id |-> id, chan |-> ch, own |-> FALSE, to |-> to, fwd |-> servers])]
<1>1. CASE Dies(s)
  BY <1>1, DiesOK, ReaderDies
<1>2. ASSUME Resub(s, nw, chans[s], sb, NoneTold, ToEach({t}, Leave(ch))) PROVE LoopOK' /\ Kept(nw)
  <2>1. ToEach({t}, Leave(ch)) \in Outgoing
    BY MessageTypes, SendingTypes
  <2> QED
    BY <1>2, <2>1, RequestFacts, ResubOK
<1>3. ASSUME Resub(s, nw, chans[s], sb, NoneTold, ToEach(fwd, Say(ch, id))) PROVE LoopOK' /\ Kept(nw)
  <2>1. ToEach(fwd, Say(ch, id)) \in Outgoing
    BY MessageTypes, SendingTypes
  <2> QED
    BY <1>3, <2>1, RequestFacts, ResubOK
<1>4. ASSUME NEW to \in Seq(Pointers), NEW servers \in SUBSET Servers, Recorded(to, servers)
      PROVE  LogOK'
  <2>1. [id |-> id, chan |-> ch, own |-> FALSE, to |-> to, fwd |-> servers] \in LogEntry
    BY DEF LogEntry
  <2> QED
    BY <1>4, <2>1 DEF ServerOK, LogOK
<1>5. us.items \in Seq(Pointers)
  BY UsersOfGood DEF ServerOK, GoodUsers, CountedArrays
<1>6. fwd \in SUBSET Servers
  BY ChatServerAssumption DEF ForwardTo, SubscribersIn
<1>7. <<>> \in Seq(Pointers) /\ {} \in SUBSET Servers
  OBVIOUS
<1>8. \/ Dies(s)
      \/ /\ Resub(s, nw, chans[s], sb, NoneTold, ToEach({t}, Leave(ch)))
         /\ UNCHANGED <<all_users, freed, log>>
      \/ /\ Recorded(<<>>, {})
         /\ Resub(s, nw, chans[s], sb, NoneTold, ToEach({t}, Leave(ch)))
         /\ UNCHANGED <<all_users, freed>>
      \/ /\ Recorded(us.items, fwd)
         /\ Resub(s, nw, chans[s], sb, NoneTold, ToEach(fwd, Say(ch, id)))
         /\ UNCHANGED <<all_users, freed>>
  BY DEF ServSay
<1> HIDE DEF sb, us, fwd, Recorded
<1>9. Dies(s) \/ (LoopOK' /\ Kept(nw) /\ LogOK' /\ UNCHANGED <<all_users, freed>>)
  <2>1. UNCHANGED log => LogOK'
    BY DEF ServerOK, LogOK
  <2> QED
    BY <1>2, <1>3, <1>4, <1>5, <1>6, <1>7, <1>8, <2>1
<1> QED
  BY <1>1, <1>9 DEF ServerOK, UsersOK

\* A datagram that s reads is one of the three.
LEMMA ReadTypes ==
  ASSUME ServerOK, NEW s \in Servers, NEW t \in Servers, net[t][s] # <<>>
  PROVE  /\ Head(net[t][s]) \in Message
         /\ [net EXCEPT ![t][s] = Tail(@)] \in [Servers -> Outgoing]
<1>1. net[t][s] \in Seq(Message)
  BY DEF ServerOK, LoopOK, Outgoing
<1>2. Tail(net[t][s]) \in Seq(Message) /\ Head(net[t][s]) \in Message
  BY <1>1
<1> QED
  BY <1>2 DEF ServerOK, LoopOK, Outgoing

\* Receiving.
LEMMA ReceiveOK ==
  ASSUME ServerOK, NEW s \in Servers, NEW t \in Servers, Receive(s, t)
  PROVE  ServerOK' /\ Kept([net EXCEPT ![t][s] = Tail(@)])
<1> DEFINE m == Head(net[t][s])
           nw == [net EXCEPT ![t][s] = Tail(@)]
<1>1. m \in Message /\ nw \in [Servers -> Outgoing]
  BY ReadTypes DEF Receive
<1>2. m.chan \in ChannelNames /\ (m.type = "say" => m.id \in Ids)
  BY <1>1 DEF Message
<1>3. \/ ServJoin(s, t, nw, m.chan)
      \/ ServLeave(s, t, nw)
      \/ m.type = "say" /\ ServSay(s, t, nw, m.chan, m.id)
  BY DEF Receive
<1> HIDE DEF m
<1> QED
  BY <1>1, <1>2, <1>3, ServJoinOK, ServLeaveOK, ServSayOK

--------------------------------------------------------------------------------
(* The environment *)

\* An iteration without a datagram.
LEMMA IdleOK ==
  ASSUME ServerOK, NEW s \in Servers, Idle(s)
  PROVE  ServerOK' /\ Kept(net) /\ Quiet(net)
<1>1. LoopOK' /\ Kept(net) /\ Quiet(net)
  BY RequestFacts, QuietOK DEF Idle
<1> QED
  BY <1>1 DEF Idle, ServerOK, UsersOK, LogOK

\* Time passes for the channels and the subscriptions of all servers.
LEMMA TickOK ==
  ASSUME ServerOK, Tick
  PROVE  ServerOK' /\ Kept(net) /\ Quiet(net)
<1>1. \A s \in Servers : GoodChannels(chans'[s])
  <2>1. \A s \in Servers : chans'[s] = AgedChannels(chans[s])
    BY DEF Tick
  <2>2. \A s \in Servers : GoodChannels(chans[s])
    BY DEF ServerOK, LoopOK
  <2> QED
    BY <2>1, <2>2, AgedChannelsGood
<1>2. \A s \in Servers : GoodSubsOf(subs'[s])
  <2>1. \A s, t \in Servers : GoodSubs(Aged(subs[s][t]))
    BY AgedGood DEF ServerOK, LoopOK, GoodSubsOf
  <2>2. \A s \in Servers : subs'[s] = [t \in Servers |-> Aged(subs[s][t])]
    BY DEF Tick
  <2> QED
    BY <2>1, <2>2 DEF GoodSubsOf, GoodSubs
<1>3. chans' \in [Servers -> Seq(Channel)]
  <2>1. chans' = [s \in Servers |-> chans'[s]]
    BY DEF Tick
  <2> QED
    BY <1>1, <2>1 DEF GoodChannels
<1>4. subs' \in [Servers -> [Servers -> CountedArrays(Subscription)]]
  <2>1. subs' = [s \in Servers |-> subs'[s]]
    BY DEF Tick
  <2> QED
    BY <1>2, <2>1 DEF GoodSubsOf
<1>5. UNCHANGED <<alive, all_users, freed, log, net, dropped>>
  BY DEF Tick
<1>6. LoopOK'
  BY <1>1, <1>2, <1>3, <1>4, <1>5 DEF ServerOK, LoopOK, GoodSubsOf
<1> QED
  BY <1>5, <1>6 DEF ServerOK, UsersOK, LogOK, Kept, Quiet

\* UDP.
LEMMA DatagramFaultsOK ==
  ASSUME ServerOK, NEW s \in Servers, NEW t \in Servers, NEW i \in DOMAIN net[s][t],
         Lose(s, t, i) \/ Duplicate(s, t, i) \/ Overtake(s, t, i)
  PROVE  ServerOK'
<1>1. net[s][t] \in Seq(Message) /\ i \in 1 .. Len(net[s][t])
  BY DEF ServerOK, LoopOK, Outgoing
<1>2. UNCHANGED <<alive, chans, all_users, freed, subs, log, dropped>>
  BY DEF Lose, Duplicate, Overtake
<1>3. net' \in [Servers -> Outgoing]
  <2>1. CASE Lose(s, t, i)
    <3>1. RemoveAt(net[s][t], i) \in Seq(Message)
      BY <1>1 DEF RemoveAt
    <3> QED
      BY <2>1, <3>1 DEF Lose, ServerOK, LoopOK, Outgoing
  <2>2. CASE Duplicate(s, t, i)
    <3>1. Append(net[s][t], net[s][t][i]) \in Seq(Message)
      BY <1>1
    <3> QED
      BY <2>2, <3>1 DEF Duplicate, ServerOK, LoopOK, Outgoing
  <2>3. CASE Overtake(s, t, i)
    <3> DEFINE q == [net[s][t] EXCEPT ![i] = net[s][t][i + 1], ![i + 1] = net[s][t][i]]
    <3>1. i + 1 \in 1 .. Len(net[s][t])
      BY <1>1, <2>3 DEF Overtake
    <3>2. net[s][t][i] \in Message /\ net[s][t][i + 1] \in Message
      BY <1>1, <3>1
    <3>3. q \in Seq(Message)
      BY <1>1, <3>1, <3>2
    <3>4. net' = [net EXCEPT ![s][t] = q]
      BY <2>3 DEF Overtake, ServerOK, LoopOK, Outgoing
    <3> QED
      BY <3>3, <3>4 DEF ServerOK, LoopOK, Outgoing
  <2> QED
    BY <2>1, <2>2, <2>3
<1> QED
  BY <1>2, <1>3 DEF ServerOK, LoopOK, UsersOK, LogOK

\* Only a loss takes a datagram away.
LEMMA DatagramFaultsKeep ==
  ASSUME ServerOK, NEW s \in Servers, NEW t \in Servers, NEW i \in DOMAIN net[s][t],
         Duplicate(s, t, i) \/ Overtake(s, t, i)
  PROVE  Kept(net)
<1> DEFINE q == net[s][t]
<1>1. q \in Seq(Message) /\ i \in 1 .. Len(q) /\ DOMAIN q = 1 .. Len(q) /\ Len(q) \in Nat
  BY DEF ServerOK, LoopOK, Outgoing
<1>2. Range(q) \subseteq Range(net'[s][t])
  <2>1. CASE Duplicate(s, t, i)
    <3>1. net'[s][t] = Append(q, q[i])
      BY <2>1 DEF Duplicate, ServerOK, LoopOK, Outgoing
    <3> HIDE DEF q
    <3>2. \A k \in 1 .. Len(q) : k \in DOMAIN Append(q, q[i]) /\ Append(q, q[i])[k] = q[k]
      BY <1>1
    <3> QED
      BY <1>1, <3>1, <3>2 DEF Range
  <2>2. CASE Overtake(s, t, i)
    <3>1. net'[s][t] = [q EXCEPT ![i] = q[i + 1], ![i + 1] = q[i]] /\ i < Len(q)
      BY <2>2 DEF Overtake, ServerOK, LoopOK, Outgoing
    <3> HIDE DEF q
    <3>2. i + 1 \in 1 .. Len(q)
      BY <1>1, <3>1
    <3>3. /\ DOMAIN net'[s][t] = 1 .. Len(q)
          /\ net'[s][t][i] = q[i + 1] /\ net'[s][t][i + 1] = q[i]
          /\ \A k \in 1 .. Len(q) : k # i /\ k # i + 1 => net'[s][t][k] = q[k]
      BY <1>1, <3>1, <3>2
    <3> QED
      BY <1>1, <3>2, <3>3 DEF Range
  <2> QED
    BY <2>1, <2>2
<1>3. \A u, v \in Servers : u # s \/ v # t => net'[u][v] = net[u][v]
  <2>1. CASE Duplicate(s, t, i)
    BY <2>1 DEF Duplicate, ServerOK, LoopOK, Outgoing
  <2>2. CASE Overtake(s, t, i)
    <3>1. net' = [net EXCEPT ![s][t] =
                    [@ EXCEPT ![i] = net[s][t][i + 1], ![i + 1] = net[s][t][i]]]
      BY <2>2 DEF Overtake, ServerOK, LoopOK, Outgoing
    <3> QED
      BY <3>1 DEF ServerOK, LoopOK, Outgoing
  <2> QED
    BY <2>1, <2>2
<1>4. alive' = alive
  BY DEF Duplicate, Overtake
<1> QED
  BY <1>2, <1>3, <1>4 DEF Kept

================================================================================
