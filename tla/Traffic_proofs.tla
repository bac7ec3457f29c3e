----------------------------- MODULE Traffic_proofs -----------------------------
(***************************************************************************)
(* What a federation does to itself while no time passes: where a Say is   *)
(* answered with a Leave, and why no Leave, nor anything else that users   *)
(* and neighbours send, kills a server.  With no renewal due an iteration  *)
(* sends one datagram to some neighbours, at most, so that the datagrams   *)
(* on each link can be followed one by one.                                *)
(***************************************************************************)
EXTENDS Members_proofs, Refinement_proofs

\* No time has passed.
Young ==
  /\ \A s \in Servers : \A k \in 1 .. Len(chans[s]) : chans[s][k].tm = 0
  /\ \A s, t \in Servers : \A k \in 1 .. Len(subs[s][t].items) : subs[s][t].items[k].age = 0

\* An iteration in which nothing is due: s sends m to each of T.
Turn(s, nw, sb, told, T, m) ==
  \E cs :
    /\ GoodChannels(cs)
    /\ \A k \in 1 .. Len(cs) : cs[k].tm = 0
    /\ Record(s, nw, cs, sb, told, ToEach(T, m))

\* The datagrams under way when s has taken the first one from t.
Rest(s, t) == [net EXCEPT ![t][s] = Tail(@)]

\* m is the next datagram from t to s.
Waits(s, t, m) == net[t][s] # <<>> /\ Head(net[t][s]) = m

\* An iteration with neither a Say nor a datagram of a neighbour.
Asked(s) ==
  /\ alive[s]
  /\ UNCHANGED log
  /\ \E T \in SUBSET Servers : \E ch \in ChannelNames :
       Turn(s, net, subs[s], NoneTold, T, Join(ch))

\* One that takes in the entry e.
TakesIn(s, e) == log' = [log EXCEPT ![s] = Append(log[s], e)]

\* A client of s says something.
Speaks(s, ch, id) ==
  LET fwd == SubscribersIn(subs[s], s, ch)
  IN  /\ alive[s]
      /\ FreshIds => id \notin Generated
      /\ \E to \in Seq(Pointers) :
           TakesIn(s, [id |-> id, chan |-> ch, own |-> TRUE, fwd |-> fwd, to |-> to])
      /\ Turn(s, net, subs[s], NoneTold, fwd, Say(ch, id))

\* Server s reads a Join of t.
HearsJoin(s, t, ch) ==
  /\ alive[s] /\ Waits(s, t, Join(ch))
  /\ UNCHANGED log
  /\ \E T \in SUBSET Servers :
       Turn(s, Rest(s, t), [subs[s] EXCEPT ![t] = Resubscribe(@, ch)],
            [NoneTold EXCEPT ![t] = {ch}], T, Join(ch))

\* A Leave of t.
HearsLeave(s, t, ch) ==
  /\ alive[s] /\ Waits(s, t, Leave(ch))
  /\ UNCHANGED log
  /\ Turn(s, Rest(s, t), [subs[s] EXCEPT ![t] = DropLast(@)], NoneTold, {}, Leave(ch))

\* A Say of t: s has the id, has nobody to pass the Say to, or passes it on.
HearsAgain(s, t, ch, id) ==
  /\ alive[s] /\ Waits(s, t, Say(ch, id))
  /\ MayHaveId(s, id)
  /\ UNCHANGED log
  /\ Turn(s, Rest(s, t), subs[s], NoneTold, {t}, Leave(ch))

\* An iteration that takes in a Say which it has nobody to pass on to.
HearsInVain(s, t, ch, id) ==
  /\ alive[s] /\ Waits(s, t, Say(ch, id))
  /\ id \notin RecentIds(s)
  /\ TakesIn(s, [id |-> id, chan |-> ch, own |-> FALSE, fwd |-> {}, to |-> <<>>])
  /\ Turn(s, Rest(s, t), subs[s], NoneTold, {t}, Leave(ch))

\* An iteration that takes in a Say and passes it on.
PassesOn(s, t, ch, id) ==
  LET fwd == ForwardTo(subs[s], s, t, ch)
  IN  /\ alive[s] /\ Waits(s, t, Say(ch, id))
      /\ id \notin RecentIds(s)
      /\ \E to \in Seq(Pointers) :
           TakesIn(s, [id |-> id, chan |-> ch, own |-> FALSE, fwd |-> fwd, to |-> to])
      /\ Turn(s, Rest(s, t), subs[s], NoneTold, fwd, Say(ch, id))

\* Nothing happens but to datagrams under way, and a process may be gone.
Elsewhere ==
  \/ \E s \in Servers : Dies(s)
  \/ UNCHANGED serverVars
  \/ \E s, t \in Servers : DatagramLost(s, t) \/ DatagramDuplicated(s, t) \/ DatagramOvertaken(s, t)

\* What a step is while no time passes.
StillForm ==
  \/ Elsewhere
  \/ \E s \in Servers : Asked(s)
  \/ \E s \in Servers, ch \in ChannelNames, id \in Ids : Speaks(s, ch, id)
  \/ \E s, t \in Servers, ch \in ChannelNames : HearsJoin(s, t, ch) \/ HearsLeave(s, t, ch)
  \/ \E s, t \in Servers, ch \in ChannelNames, id \in Ids :
       HearsAgain(s, t, ch, id) \/ HearsInVain(s, t, ch, id) \/ PassesOn(s, t, ch, id)

--------------------------------------------------------------------------------
(* Nothing is due *)

\* The sweep finds nothing.
LEMMA NothingSwept ==
  ASSUME ServerOK, Young, NEW s \in Servers
  PROVE  SweptSubs(s) = subs[s]
<1>1. ASSUME NEW t \in Servers PROVE Swept(subs[s][t]) = subs[s][t]
  <2> DEFINE srvr == subs[s][t]
             n == Len(srvr.items)
  <2>1. /\ GoodSubs(srvr) /\ srvr \in CountedArrays(Subscription)
        /\ srvr.items \in Seq(Subscription) /\ n \in Nat
    BY DEF ServerOK, LoopOK, GoodSubsOf, GoodSubs, CountedArrays
  <2>2. \A k \in 1 .. n : srvr.items[k].age = 0
    BY DEF Young
  <2> HIDE DEF srvr
  <2>3. ASSUME NEW j \in 2 .. n PROVE ~(channel_elapse(srvr, srvr.items[j].chan) > Min2)
    <3> DEFINE ch == srvr.items[j].chan
               i == find_channel_server(srvr, ch)
               I == {k \in 1 .. n : srvr.items[k].chan = ch}
    <3>1. j \in I /\ I \in SUBSET (1 .. n)
      BY <2>1
    <3>2. I # {} => Min(I) \in I
      BY <2>1, <3>1, MinOfPositions
    <3>3. i = Min(I)
      BY <3>1 DEF find_channel_server, SelectInSeq
    <3>4. i \in 1 .. n
      BY <3>1, <3>2, <3>3
    <3>5. channel_elapse(srvr, ch) = 0
      BY <2>2, <3>4 DEF channel_elapse
    <3> QED
      BY <3>5, AdjacentServersAssumption
  <2>4. Stale(srvr) = {}
    BY <2>3 DEF Stale
  <2> DEFINE reached == {j \in Stale(srvr) :
                  j + Cardinality({k \in Stale(srvr) : k < j}) <= Len(srvr.items)}
  <2>5. reached = {} /\ Cardinality(reached) = 0
    BY <2>4, FS_EmptySet
  <2>6. Swept(srvr) = [srvr EXCEPT !.items =
                         SubSeq(srvr.items, 1, Len(srvr.items) - Cardinality(reached))]
    BY <2>1 DEF Swept, CountedArrays
  <2> HIDE DEF reached
  <2>7. SubSeq(srvr.items, 1, Len(srvr.items) - Cardinality(reached)) = srvr.items
    BY <2>1, <2>5
  <2> QED
    BY <2>1, <2>6, <2>7 DEF CountedArrays, srvr
<1>2. subs[s] \in [Servers -> CountedArrays(Subscription)]
  BY DEF ServerOK, LoopOK
<1> QED
  BY <1>1, <1>2 DEF SweptSubs

\* No Join is renewed.
LEMMA NothingRenewed ==
  ASSUME NEW cs, GoodChannels(cs), \A k \in 1 .. Len(cs) : cs[k].tm = 0
  PROVE  Due(cs) = {} /\ Renewed(cs) = cs
<1>1. cs \in Seq(Channel) /\ DOMAIN cs = 1 .. Len(cs) /\ Len(cs) \in Nat
  BY DEF GoodChannels
<1>2. Due(cs) = {}
  BY <1>1, ChannelsAssumption DEF Due
<1> QED
  BY <1>1, <1>2 DEF Renewed

\* So an iteration ends with what its handler sends.
LEMMA WorksTurn ==
  ASSUME ServerOK, Young, NEW s \in Servers, NEW nw \in [Servers -> Outgoing], NEW sb, NEW told,
         NEW T, NEW m \in Message, Works(s, nw, sb, told, ToEach(T, m))
  PROVE  Turn(s, nw, sb, told, T, m)
<1> DEFINE out == ToEach(T, m)
<1>1. PICK cs : /\ GoodChannels(cs) /\ KeepsClocks(s, cs)
                /\ Record(s, nw, cs, sb, told, out) \/ Resub(s, nw, cs, sb, told, out)
  BY DEF Works
<1>2. \A k \in 1 .. Len(cs) : cs[k].tm = 0
  BY <1>1 DEF Young, KeepsClocks
<1>3. Due(cs) = {} /\ Renewed(cs) = cs /\ Cardinality(Due(cs)) = 0
  BY <1>1, <1>2, NothingRenewed, FS_EmptySet
<1>4. out \in Outgoing
  BY SendingTypes
<1> HIDE DEF out
<1>5. ASSUME NEW order \in RenewalOrder(cs)
      PROVE  DOMAIN order = {} /\ After(nw, s, Both(out, Renewals(s, cs, order))) = After(nw, s, out)
  <2> DEFINE r == Renewals(s, cs, order)
  <2>1. DOMAIN order = {}
    BY <1>3 DEF RenewalOrder
  <2>2. r \in Outgoing
    BY <1>1, RenewalsType
  <2>3. ASSUME NEW t \in Servers PROVE out[t] \o r[t] = out[t]
    <3>1. r[t] = IF t \in Neighbours[s] THEN [k \in {} |-> Join(cs[order[k]].name)] ELSE <<>>
      BY <2>1 DEF Renewals
    <3>2. DOMAIN r[t] = {}
      BY <3>1
    <3> HIDE DEF r
    <3>3. r[t] \in Seq(Message) /\ out[t] \in Seq(Message)
      BY <1>4, <2>2 DEF Outgoing
    <3>4. \A x \in Seq(Message) : DOMAIN x = {} => Len(x) = 0
      <4> SUFFICES ASSUME NEW x \in Seq(Message), DOMAIN x = {} PROVE Len(x) = 0
        OBVIOUS
      <4>1. DOMAIN x = 1 .. Len(x) /\ Len(x) \in Nat
        OBVIOUS
      <4> QED
        BY <4>1
    <3>5. r[t] = <<>>
      BY <3>2, <3>3, <3>4, EmptySeq
    <3> QED
      BY <3>3, <3>5
  <2>4. Both(out, r) = out
    <3>1. out = [t \in Servers |-> out[t]]
      BY <1>4 DEF Outgoing
    <3> HIDE DEF r
    <3> QED
      BY <2>3, <3>1 DEF Both
  <2> QED
    BY <2>1, <2>4
<1>6. ASSUME Resub(s, nw, cs, sb, told, out) PROVE Record(s, nw, cs, sb, told, out)
  <2>1. PICK order \in RenewalOrder(cs) :
          Record(s, nw, Renewed(cs), sb, told, Both(out, Renewals(s, cs, order)))
    BY <1>5, <1>6 DEF Resub
  <2>2. Record(s, nw, cs, sb, told, Both(out, Renewals(s, cs, order)))
    BY <1>3, <2>1
  <2> QED
    BY <1>5, <2>2 DEF Record
<1> QED
  BY <1>1, <1>2, <1>6 DEF Turn, out

--------------------------------------------------------------------------------
(* What the handlers come to *)

\* Nothing is one message to nobody.
LEMMA NothingSent == \A m : Nothing = ToEach({}, m)
BY DEF Nothing, ToEach

\* The channels as they are keep their clocks.
LEMMA AsTheyAre ==
  ASSUME ServerOK, Young, NEW s \in Servers, NEW nw \in [Servers -> Outgoing], NEW sb, NEW told,
         NEW T, NEW m \in Message, Resub(s, nw, chans[s], sb, told, ToEach(T, m))
  PROVE  Turn(s, nw, sb, told, T, m)
<1>1. GoodChannels(chans[s]) /\ KeepsClocks(s, chans[s])
  BY RequestFacts DEF KeepsClocks
<1>2. Works(s, nw, sb, told, ToEach(T, m))
  BY <1>1 DEF Works
<1> QED
  BY <1>2, WorksTurn

\* A request of a client.
LEMMA RequestStill ==
  ASSUME ServerOK, Young, NEW s \in Servers, alive[s], NEW c \in Clients,
         \/ LoginRequest(s, c) \/ ListRequest(s) \/ LogoutRequest(s, c)
         \/ \E ch \in ChannelNames : JoinRequest(s, c, ch) \/ WhoRequest(s, ch)
  PROVE  Dies(s) \/ Asked(s)
<1>0. SweptSubs(s) = subs[s] /\ net \in [Servers -> Outgoing]
  BY NothingSwept, RequestFacts
<1>1. ASSUME NEW T \in SUBSET Servers, NEW ch \in ChannelNames, UNCHANGED log,
             Works(s, net, SweptSubs(s), NoneTold, ToEach(T, Join(ch)))
      PROVE  Asked(s)
  <2>1. Turn(s, net, subs[s], NoneTold, T, Join(ch))
    BY <1>0, <1>1, WorksTurn, MessageTypes
  <2> QED
    BY <1>1, <2>1 DEF Asked
<1>2. ASSUME UNCHANGED log, Works(s, net, SweptSubs(s), NoneTold, Nothing) PROVE Asked(s)
  <2>1. Works(s, net, SweptSubs(s), NoneTold, ToEach({}, Join(Common))) /\ {} \in SUBSET Servers
    BY <1>2, NothingSent
  <2> QED
    BY <1>1, <1>2, <2>1, ChannelsAssumption
<1>3. ASSUME NEW ch \in ChannelNames, JoinRequest(s, c, ch) PROVE Asked(s)
  <2>1. Works(s, net, SweptSubs(s), NoneTold, ToEach(Neighbours[s], Join(ch))) /\ UNCHANGED log
    BY <1>3, JoinIteration DEF JoinRequest
  <2>2. Neighbours[s] \in SUBSET Servers
    BY ChatServerAssumption
  <2> QED
    BY <1>1, <2>1, <2>2
<1>4. ASSUME NEW ch \in ChannelNames, WhoRequest(s, ch) PROVE Dies(s) \/ Asked(s)
  BY <1>2, <1>4, WhoIteration DEF WhoRequest
<1>5. CASE LoginRequest(s, c)
  BY <1>2, <1>5, LoginIteration DEF LoginRequest
<1>6. CASE LogoutRequest(s, c)
  BY <1>2, <1>6, LogoutIteration DEF LogoutRequest, LogoutKnown, LogoutUnknown
<1>7. CASE ListRequest(s)
  BY <1>2, <1>7, ListIteration DEF ListRequest, Idle
<1> QED
  BY <1>3, <1>4, <1>5, <1>6, <1>7

\* Its Say.
LEMMA SayStill ==
  ASSUME ServerOK, Young, NEW s \in Servers, alive[s], NEW c \in Clients, NEW ch \in ChannelNames,
         NEW id \in Ids, SayRequest(s, c, ch, id)
  PROVE  Dies(s) \/ Speaks(s, ch, id)
<1> DEFINE fwd == SubscribersIn(subs[s], s, ch)
           to == UsersOf(s, ch).items
<1>0. SweptSubs(s) = subs[s] /\ net \in [Servers -> Outgoing]
  BY NothingSwept, RequestFacts
<1> SUFFICES ASSUME ~Dies(s) PROVE Speaks(s, ch, id)
  OBVIOUS
<1>1. /\ FreshIds => id \notin Generated
      /\ TakesIn(s, [id |-> id, chan |-> ch, own |-> TRUE, fwd |-> fwd, to |-> to])
      /\ Resub(s, net, chans[s], subs[s], NoneTold, ToEach(fwd, Say(ch, id)))
  BY <1>0 DEF SayRequest, TakesIn
<1>2. to \in Seq(Pointers)
  BY UsersOfGood DEF ServerOK, GoodUsers, CountedArrays
<1> HIDE DEF to
<1>3. Turn(s, net, subs[s], NoneTold, fwd, Say(ch, id))
  BY <1>0, <1>1, AsTheyAre, MessageTypes
<1> QED
  BY <1>1, <1>2, <1>3 DEF Speaks

\* A Join of a neighbour.
LEMMA ServJoinStill ==
  ASSUME ServerOK, Young, NEW s \in Servers, alive[s], NEW t \in Servers, NEW ch \in ChannelNames,
         Waits(s, t, Join(ch)), ServJoin(s, t, Rest(s, t), ch)
  PROVE  HearsJoin(s, t, ch)
<1> DEFINE sb == [subs[s] EXCEPT ![t] = Resubscribe(@, ch)]
           told == [NoneTold EXCEPT ![t] = {ch}]
           cs == IF HasChannel(chans[s], ch) THEN chans[s] ELSE add_chnl(chans[s], ch)
<1>0. SweptSubs(s) = subs[s] /\ Rest(s, t) \in [Servers -> Outgoing]
      /\ chans[s] \in Seq(Channel) /\ Len(chans[s]) \in Nat
  BY NothingSwept, RequestFacts, ReadTypes DEF Waits, Rest
<1>1. Resub(s, Rest(s, t), cs, sb, told, Announce(s, t, ch)) /\ UNCHANGED log
  BY <1>0 DEF ServJoin
<1>2. PICK T \in SUBSET Servers : Announce(s, t, ch) = ToEach(T, Join(ch))
  BY NothingSent, ChatServerAssumption DEF Announce
<1>3. GoodChannels(cs)
  BY RequestFacts, AddChannelGood
<1>4. KeepsClocks(s, cs)
  <2>1. CASE cs = chans[s]
    BY <2>1 DEF KeepsClocks
  <2>2. CASE cs = Append(chans[s], create_channel(ch))
    <3>1. Len(cs) = Len(chans[s]) + 1 /\ cs[Len(cs)].tm = 0
          /\ \A k \in 1 .. Len(chans[s]) : cs[k] = chans[s][k]
      BY <1>0, <2>2 DEF create_channel
    <3> HIDE DEF cs
    <3> QED
      BY <1>0, <3>1 DEF KeepsClocks
  <2> QED
    BY <2>1, <2>2 DEF add_chnl
<1> HIDE DEF cs, sb, told
<1>5. Works(s, Rest(s, t), sb, told, ToEach(T, Join(ch)))
  BY <1>1, <1>2, <1>3, <1>4 DEF Works
<1>6. Turn(s, Rest(s, t), sb, told, T, Join(ch))
  BY <1>0, <1>5, WorksTurn, MessageTypes
<1> QED
  BY <1>1, <1>6 DEF HearsJoin, sb, told

\* A Leave.
LEMMA ServLeaveStill ==
  ASSUME ServerOK, Young, NEW s \in Servers, alive[s], NEW t \in Servers, NEW ch \in ChannelNames,
         Waits(s, t, Leave(ch)), ServLeave(s, t, Rest(s, t))
  PROVE  Dies(s) \/ HearsLeave(s, t, ch)
<1> DEFINE sb == [subs[s] EXCEPT ![t] = DropLast(@)]
<1>0. SweptSubs(s) = subs[s] /\ Rest(s, t) \in [Servers -> Outgoing]
  BY NothingSwept, ReadTypes DEF Waits, Rest
<1> SUFFICES ASSUME ~Dies(s) PROVE HearsLeave(s, t, ch)
  OBVIOUS
<1>1. Resub(s, Rest(s, t), chans[s], sb, NoneTold, Nothing) /\ UNCHANGED log
  BY <1>0 DEF ServLeave, remove_adj_channel
<1>2. Nothing = ToEach({}, Leave(ch))
  BY NothingSent
<1> HIDE DEF sb
<1>3. Turn(s, Rest(s, t), sb, NoneTold, {}, Leave(ch))
  BY <1>0, <1>1, <1>2, AsTheyAre, MessageTypes
<1> QED
  BY <1>1, <1>3 DEF HearsLeave, sb

\* A Say.
LEMMA ServSayStill ==
  ASSUME ServerOK, Young, NEW s \in Servers, alive[s], NEW t \in Servers, NEW ch \in ChannelNames,
         NEW id \in Ids, Waits(s, t, Say(ch, id)), ServSay(s, t, Rest(s, t), ch, id)
  PROVE  \/ Dies(s) \/ HearsAgain(s, t, ch, id)
         \/ HearsInVain(s, t, ch, id) \/ PassesOn(s, t, ch, id)
<1> DEFINE fwd == ForwardTo(subs[s], s, t, ch)
           to == UsersOf(s, ch).items
           Answered == Resub(s, Rest(s, t), chans[s], subs[s], NoneTold, ToEach({t}, Leave(ch)))
           Passed == Resub(s, Rest(s, t), chans[s], subs[s], NoneTold, ToEach(fwd, Say(ch, id)))
           Entry(us, servers) == [id |-> id, chan |-> ch, own |-> FALSE, fwd |-> servers, to |-> us]
<1>0. SweptSubs(s) = subs[s] /\ Rest(s, t) \in [Servers -> Outgoing]
  BY NothingSwept, ReadTypes DEF Waits, Rest
<1>1. \/ Dies(s)
      \/ MayHaveId(s, id) /\ UNCHANGED log /\ Answered
      \/ id \notin RecentIds(s) /\ TakesIn(s, Entry(<<>>, {})) /\ Answered
      \/ id \notin RecentIds(s) /\ TakesIn(s, Entry(to, fwd)) /\ Passed
  BY <1>0 DEF ServSay, TakesIn, MayMissId
<1>2. to \in Seq(Pointers)
  BY UsersOfGood DEF ServerOK, GoodUsers, CountedArrays
<1>3. Answered => Turn(s, Rest(s, t), subs[s], NoneTold, {t}, Leave(ch))
  BY <1>0, AsTheyAre, MessageTypes
<1>4. Passed => Turn(s, Rest(s, t), subs[s], NoneTold, fwd, Say(ch, id))
  BY <1>0, AsTheyAre, MessageTypes
<1> HIDE DEF Answered, Passed, to
<1>5. CASE MayHaveId(s, id) /\ UNCHANGED log /\ Answered
  BY <1>3, <1>5 DEF HearsAgain
<1>6. CASE id \notin RecentIds(s) /\ TakesIn(s, Entry(<<>>, {})) /\ Answered
  BY <1>3, <1>6 DEF HearsInVain
<1>7. CASE id \notin RecentIds(s) /\ TakesIn(s, Entry(to, fwd)) /\ Passed
  BY <1>2, <1>4, <1>7 DEF PassesOn
<1> QED
  BY <1>1, <1>5, <1>6, <1>7

\* Any of them.
LEMMA ReceiveStill ==
  ASSUME ServerOK, Young, NEW s \in Servers, NEW t \in Servers, Receive(s, t)
  PROVE  Dies(s) \/ StillForm
<1> DEFINE m == Head(net[t][s])
<1>1. m \in Message /\ net[t][s] # <<>>
  BY ReadTypes DEF Receive
<1>2. /\ m.chan \in ChannelNames
      /\ m.type = "join" => m = Join(m.chan)
      /\ m.type = "leave" => m = Leave(m.chan)
      /\ m.type = "say" => m.id \in Ids /\ m = Say(m.chan, m.id)
  BY <1>1 DEF Message, Join, Leave, Say
<1>3. /\ alive[s]
      /\ \/ m.type = "join" /\ ServJoin(s, t, Rest(s, t), m.chan)
         \/ m.type = "leave" /\ ServLeave(s, t, Rest(s, t))
         \/ m.type = "say" /\ ServSay(s, t, Rest(s, t), m.chan, m.id)
  BY DEF Receive, Rest
<1>4. \A x : x = m => Waits(s, t, x)
  BY <1>1 DEF Waits
<1> HIDE DEF m
<1>5. CASE m.type = "join" /\ ServJoin(s, t, Rest(s, t), m.chan)
  <2>1. HearsJoin(s, t, m.chan)
    BY <1>2, <1>3, <1>4, <1>5, ServJoinStill
  <2> QED
    BY <1>2, <2>1 DEF StillForm
<1>6. CASE m.type = "leave" /\ ServLeave(s, t, Rest(s, t))
  <2>1. Dies(s) \/ HearsLeave(s, t, m.chan)
    BY <1>2, <1>3, <1>4, <1>6, ServLeaveStill
  <2> QED
    BY <1>2, <2>1 DEF StillForm
<1>7. CASE m.type = "say" /\ ServSay(s, t, Rest(s, t), m.chan, m.id)
  <2>1. \/ Dies(s) \/ HearsAgain(s, t, m.chan, m.id)
        \/ HearsInVain(s, t, m.chan, m.id) \/ PassesOn(s, t, m.chan, m.id)
    BY <1>2, <1>3, <1>4, <1>7, ServSayStill
  <2> QED
    BY <1>2, <1>7, <2>1 DEF StillForm
<1> QED
  BY ONLY <1>3, <1>5, <1>6, <1>7

\* Every step while no time passes and nobody leaves.
LEMMA NextStill ==
  ASSUME Timing = "still", "leave" \notin Commands, ServerOK, SessOK, Young, [Next]_vars
  PROVE  StillForm
<1>1. ASSUME NEW c \in Clients, ClientStep(c) PROVE StillForm
  <2>1. Home[c] \in Servers /\ sess[c].active \in ChannelNames /\ Common \in ChannelNames
    BY SessionPlace
  <2>2. \/ UNCHANGED serverVars
        \/ /\ alive[Home[c]]
           /\ \/ LoginRequest(Home[c], c) \/ ListRequest(Home[c]) \/ LogoutRequest(Home[c], c)
              \/ \E ch \in ChannelNames : JoinRequest(Home[c], c, ch) \/ WhoRequest(Home[c], ch)
              \/ \E id \in Ids : SayRequest(Home[c], c, sess[c].active, id)
    BY <1>1, <2>1 DEF ClientStep, Login, JoinCommon, JoinCommand, LeaveCommand, SwitchCommand,
         SayCommand, WhoCommand, ListCommand, LogoutCommand, Handled, LostRequest, Types
  <2>3. CASE UNCHANGED serverVars
    BY <2>3 DEF StillForm, Elsewhere
  <2>4. ASSUME alive[Home[c]], NEW id \in Ids, SayRequest(Home[c], c, sess[c].active, id)
        PROVE  StillForm
    <3>1. Dies(Home[c]) \/ Speaks(Home[c], sess[c].active, id)
      BY <2>1, <2>4, SayStill
    <3> QED
      BY <2>1, <3>1 DEF StillForm, Elsewhere
  <2>5. ASSUME alive[Home[c]],
               \/ LoginRequest(Home[c], c) \/ ListRequest(Home[c]) \/ LogoutRequest(Home[c], c)
               \/ \E ch \in ChannelNames : JoinRequest(Home[c], c, ch) \/ WhoRequest(Home[c], ch)
        PROVE  StillForm
    <3>1. Dies(Home[c]) \/ Asked(Home[c])
      BY <2>1, <2>5, RequestStill
    <3> QED
      BY <2>1, <3>1 DEF StillForm, Elsewhere
  <2> QED
    BY <2>2, <2>3, <2>4, <2>5
<1>2. ASSUME NEW s \in Servers, NEW t \in Servers, ServerReceive(s, t) PROVE StillForm
  BY <1>2, ReceiveStill DEF ServerReceive, StillForm, Elsewhere
<1>3. ASSUME NEW s \in Servers, ServerIdle(s) PROVE StillForm
  <2>1. Resub(s, net, chans[s], SweptSubs(s), NoneTold, Nothing) /\ UNCHANGED log /\ alive[s]
    BY <1>3 DEF ServerIdle, Idle
  <2>2. SweptSubs(s) = subs[s] /\ net \in [Servers -> Outgoing] /\ Common \in ChannelNames
        /\ Nothing = ToEach({}, Join(Common))
    BY NothingSwept, RequestFacts, NothingSent, ChannelsAssumption
  <2>3. Turn(s, net, subs[s], NoneTold, {}, Join(Common))
    BY <2>1, <2>2, AsTheyAre, MessageTypes
  <2>4. Asked(s)
    BY <2>1, <2>2, <2>3 DEF Asked
  <2> QED
    BY <2>4 DEF StillForm
<1>4. ASSUME NEW s \in Servers, ServerKilled(s) PROVE StillForm
  BY <1>4 DEF ServerKilled, Kill, StillForm, Elsewhere
<1>5. CASE UNCHANGED vars
  BY <1>5 DEF vars, StillForm, Elsewhere
<1>6. CASE Next
  <2>1. ~TimePasses
    BY DEF TimePasses
  <2> QED
    BY <1>1, <1>2, <1>3, <1>4, <1>6, <2>1 DEF Next, StillForm, Elsewhere
<1> QED
  BY <1>5, <1>6

--------------------------------------------------------------------------------
(* The datagrams on a link *)

\* Link r holds datagrams of link q, none of them twice, the k-th not at all.
Rearranged(q, r, k) ==
  /\ r \in Seq(Message)
  /\ \E f \in [1 .. Len(r) -> (1 .. Len(q)) \ {k}] :
       /\ \A i, j \in 1 .. Len(r) : f[i] = f[j] => i = j
       /\ \A i \in 1 .. Len(r) : r[i] = q[f[i]]

\* What becomes of a link to which nothing is added.
LEMMA Rearrangements ==
  ASSUME NEW q \in Seq(Message)
  PROVE  /\ Rearranged(q, q, 0)
         /\ Rearranged(q, <<>>, 0)
         /\ q # <<>> => Rearranged(q, Tail(q), 1)
         /\ \A i \in 1 .. Len(q) : Rearranged(q, RemoveAt(q, i), 0)
         /\ \A i \in 1 .. Len(q) - 1 : Rearranged(q, [q EXCEPT ![i] = q[i + 1], ![i + 1] = q[i]], 0)
<1> DEFINE n == Len(q)
<1>0. n \in Nat /\ DOMAIN q = 1 .. n
  OBVIOUS
<1>1. Rearranged(q, q, 0)
  <2> DEFINE f == [i \in 1 .. n |-> i]
  <2>1. f \in [1 .. n -> (1 .. n) \ {0}]
    BY <1>0
  <2> QED
    BY <1>0, <2>1 DEF Rearranged
<1>2. Rearranged(q, <<>>, 0)
  <2> DEFINE f == [i \in {} |-> i]
  <2>1. 1 .. Len(<<>>) = {} /\ <<>> \in Seq(Message)
    OBVIOUS
  <2>2. f \in [1 .. Len(<<>>) -> (1 .. Len(q)) \ {0}]
    BY <2>1
  <2> QED
    BY <2>1, <2>2 DEF Rearranged
<1>3. ASSUME q # <<>> PROVE Rearranged(q, Tail(q), 1)
  <2> DEFINE r == Tail(q)
             f == [i \in 1 .. n - 1 |-> i + 1]
  <2>1. r \in Seq(Message) /\ Len(r) = n - 1 /\ \A i \in 1 .. n - 1 : r[i] = q[i + 1]
    BY <1>3
  <2> HIDE DEF r
  <2>2. f \in [1 .. Len(r) -> (1 .. n) \ {1}]
    BY <1>0, <2>1
  <2>3. \A i, j \in 1 .. Len(r) : f[i] = f[j] => i = j
    BY <1>0, <2>1
  <2>4. \A i \in 1 .. Len(r) : r[i] = q[f[i]]
    BY <1>0, <2>1
  <2> HIDE DEF f
  <2> QED
    BY <2>1, <2>2, <2>3, <2>4 DEF Rearranged, r
<1>4. ASSUME NEW i \in 1 .. n PROVE Rearranged(q, RemoveAt(q, i), 0)
  <2> DEFINE r == RemoveAt(q, i)
             f == [k \in 1 .. n - 1 |-> IF k < i THEN k ELSE k + 1]
  <2>1. r \in Seq(Message) /\ Len(r) = n - 1
        /\ \A k \in 1 .. n - 1 : r[k] = q[IF k < i THEN k ELSE k + 1]
    BY RemovedAt
  <2> HIDE DEF r
  <2>2. f \in [1 .. Len(r) -> (1 .. n) \ {0}]
    BY <1>0, <2>1
  <2>3. \A j, k \in 1 .. Len(r) : f[j] = f[k] => j = k
    BY <1>0, <2>1
  <2>4. \A k \in 1 .. Len(r) : r[k] = q[f[k]]
    BY <1>0, <2>1
  <2> HIDE DEF f
  <2> QED
    BY <2>1, <2>2, <2>3, <2>4 DEF Rearranged, r
<1>5. ASSUME NEW i \in 1 .. n - 1
      PROVE  Rearranged(q, [q EXCEPT ![i] = q[i + 1], ![i + 1] = q[i]], 0)
  <2> DEFINE r == [q EXCEPT ![i] = q[i + 1], ![i + 1] = q[i]]
             f == [k \in 1 .. n |-> IF k = i THEN i + 1 ELSE IF k = i + 1 THEN i ELSE k]
  <2>1. i + 1 \in 1 .. n /\ i \in 1 .. n /\ q[i] \in Message /\ q[i + 1] \in Message
    BY <1>0
  <2>2. /\ r \in Seq(Message) /\ Len(r) = n
        /\ \A k \in 1 .. n : r[k] = q[IF k = i THEN i + 1 ELSE IF k = i + 1 THEN i ELSE k]
    BY <1>0, <2>1
  <2> HIDE DEF r
  <2>3. f \in [1 .. Len(r) -> (1 .. n) \ {0}]
    BY <1>0, <2>1, <2>2
  <2>4. \A j, k \in 1 .. Len(r) : f[j] = f[k] => j = k
    BY <1>0, <2>1, <2>2
  <2>5. \A k \in 1 .. Len(r) : r[k] = q[f[k]]
    BY <1>0, <2>2
  <2> HIDE DEF f
  <2> QED
    BY <2>2, <2>3, <2>4, <2>5 DEF Rearranged, r
<1> QED
  BY <1>1, <1>2, <1>3, <1>4, <1>5

\* No two Says on a link have the same id.
Once(q) ==
  \A i, j \in 1 .. Len(q) : q[i].type = "say" /\ q[j].type = "say" /\ q[i].id = q[j].id => i = j

\* It holds nothing new, and once a Say has been taken there is no other of its id.
LEMMA RearrangedSays ==
  ASSUME NEW q \in Seq(Message), NEW r, NEW k \in 0 .. Len(q), Rearranged(q, r, k)
  PROVE  /\ Range(r) \subseteq Range(q)
         /\ Once(q) => Once(r)
         /\ Once(q) /\ k # 0 /\ q[k].type = "say" =>
              \A m \in Range(r) : m.type = "say" => m.id # q[k].id
<1> DEFINE n == Len(q)
           l == Len(r)
<1>1. r \in Seq(Message) /\ n \in Nat /\ l \in Nat /\ DOMAIN q = 1 .. n /\ DOMAIN r = 1 .. l
  BY DEF Rearranged
<1>2. PICK f \in [1 .. l -> (1 .. n) \ {k}] :
        /\ \A i, j \in 1 .. l : f[i] = f[j] => i = j
        /\ \A i \in 1 .. l : r[i] = q[f[i]]
  BY DEF Rearranged
<1>3. \A i \in 1 .. l : f[i] \in 1 .. n /\ f[i] # k
  BY <1>2
<1> HIDE DEF n, l
<1>4. Range(r) \subseteq Range(q)
  BY <1>1, <1>2, <1>3 DEF Range
<1>5. ASSUME Once(q) PROVE Once(r)
  <2> SUFFICES ASSUME NEW i \in 1 .. l, NEW j \in 1 .. l,
                      r[i].type = "say", r[j].type = "say", r[i].id = r[j].id
               PROVE  i = j
    BY DEF Once, l
  <2>1. f[i] = f[j]
    BY <1>2, <1>3, <1>5 DEF Once, n
  <2> QED
    BY <1>2, <2>1
<1>6. ASSUME Once(q), k # 0, q[k].type = "say", NEW m \in Range(r), m.type = "say"
      PROVE  m.id # q[k].id
  <2>1. PICK i \in 1 .. l : m = r[i]
    BY <1>1 DEF Range
  <2>2. k \in 1 .. n
    BY <1>1, <1>6 DEF n
  <2> QED
    BY <1>2, <1>3, <1>6, <2>1, <2>2 DEF Once, n
<1> QED
  BY <1>4, <1>5, <1>6

\* Where nobody reads or sends, the datagrams under way at most change places.
LEMMA ElsewhereLinks ==
  ASSUME "duplication" \notin Faults, ServerOK, Elsewhere
  PROVE  /\ UNCHANGED <<chans, subs, log, dropped>>
         /\ \A p, q \in Servers : Rearranged(net[p][q], net'[p][q], 0)
<1>0. net \in [Servers -> Outgoing] /\ \A p, q \in Servers : net[p][q] \in Seq(Message)
  BY DEF ServerOK, LoopOK, Outgoing
<1>1. CASE UNCHANGED serverVars
  BY <1>0, <1>1, Rearrangements DEF serverVars
<1>2. ASSUME NEW s \in Servers, Dies(s)
      PROVE  /\ UNCHANGED <<chans, subs, log, dropped>>
             /\ \A p, q \in Servers : Rearranged(net[p][q], net'[p][q], 0)
  <2>1. \A p, q \in Servers : net'[p][q] = IF q = s THEN <<>> ELSE net[p][q]
    BY <1>0, <1>2 DEF Dies, Unread, Outgoing
  <2> QED
    BY <1>0, <1>2, <2>1, Rearrangements DEF Dies
<1>3. ASSUME NEW s \in Servers, NEW t \in Servers, NEW r,
             net' = [net EXCEPT ![s][t] = r], Rearranged(net[s][t], r, 0)
      PROVE  \A p, q \in Servers : Rearranged(net[p][q], net'[p][q], 0)
  <2>1. \A p, q \in Servers : net'[p][q] = IF p = s /\ q = t THEN r ELSE net[p][q]
    BY <1>0, <1>3 DEF Outgoing
  <2> QED
    BY <1>0, <1>3, <2>1, Rearrangements
<1>4. ASSUME NEW s \in Servers, NEW t \in Servers, DatagramLost(s, t) \/ DatagramOvertaken(s, t)
      PROVE  /\ UNCHANGED <<chans, subs, log, dropped>>
             /\ \A p, q \in Servers : Rearranged(net[p][q], net'[p][q], 0)
  <2> DEFINE l == net[s][t]
  <2>1. l \in Seq(Message) /\ DOMAIN l = 1 .. Len(l) /\ Len(l) \in Nat
    BY <1>0
  <2>2. \/ \E i \in 1 .. Len(l) : Lose(s, t, i)
        \/ \E i \in 1 .. Len(l) : Overtake(s, t, i)
    BY <1>4, <2>1 DEF DatagramLost, DatagramOvertaken
  <2>3. ASSUME NEW i \in 1 .. Len(l), Lose(s, t, i)
        PROVE  \E r : net' = [net EXCEPT ![s][t] = r] /\ Rearranged(l, r, 0)
    <3>1. net' = [net EXCEPT ![s][t] = RemoveAt(l, i)]
      BY <2>3 DEF Lose
    <3> QED
      BY <2>1, <2>3, <3>1, Rearrangements
  <2>4. ASSUME NEW i \in 1 .. Len(l), Overtake(s, t, i)
        PROVE  \E r : net' = [net EXCEPT ![s][t] = r] /\ Rearranged(l, r, 0)
    <3> DEFINE r == [l EXCEPT ![i] = l[i + 1], ![i + 1] = l[i]]
    <3>1. net' = [net EXCEPT ![s][t] = r] /\ i < Len(l)
      BY <1>0, <2>4 DEF Overtake, Outgoing
    <3>2. i \in 1 .. Len(l) - 1
      BY <2>1, <3>1
    <3>3. Rearranged(l, r, 0)
      BY <2>1, <3>2, Rearrangements
    <3> QED
      BY <3>1, <3>3
  <2> HIDE DEF l
  <2>5. \E r : net' = [net EXCEPT ![s][t] = r] /\ Rearranged(l, r, 0)
    BY <2>2, <2>3, <2>4
  <2>6. UNCHANGED <<chans, subs, log, dropped>>
    BY <1>4 DEF DatagramLost, DatagramOvertaken, Lose, Overtake
  <2> QED
    BY <1>3, <2>5, <2>6 DEF l
<1>5. ~\E s, t \in Servers : DatagramDuplicated(s, t)
  BY DEF DatagramDuplicated, Fault
<1> QED
  BY <1>1, <1>2, <1>4, <1>5 DEF Elsewhere

\* The links when s has taken a datagram of t.
LEMMA RestLinks ==
  ASSUME ServerOK, NEW s \in Servers, NEW t \in Servers, NEW m, Waits(s, t, m)
  PROVE  /\ Rest(s, t) \in [Servers -> Outgoing]
         /\ \A p, q \in Servers :
              Rest(s, t)[p][q] = IF p = t /\ q = s THEN Tail(net[t][s]) ELSE net[p][q]
         /\ net[t][s][1] = m /\ m \in Range(net[t][s]) /\ m \in Message
<1>1. net[t][s] \in Seq(Message) /\ net[t][s] # <<>>
  BY DEF ServerOK, LoopOK, Outgoing, Waits
<1>2. net[t][s][1] = m /\ 1 \in DOMAIN net[t][s]
  BY <1>1 DEF Waits
<1>3. m \in Range(net[t][s])
  BY <1>2 DEF Range
<1>4. m \in Message
  BY <1>1, <1>2
<1>5. Rest(s, t) \in [Servers -> Outgoing]
  BY <1>1, ReadTypes DEF Rest
<1> QED
  BY <1>2, <1>3, <1>4, <1>5 DEF Rest, ServerOK, LoopOK, Outgoing

\* The links when s has sent m to each of T.
LEMMA TurnLinks ==
  ASSUME NEW s \in Servers, NEW nw \in [Servers -> Outgoing], NEW sb, NEW told, NEW T,
         NEW m \in Message, Turn(s, nw, sb, told, T, m), NEW p \in Servers, NEW q \in Servers
  PROVE  net'[p][q] = IF p = s /\ alive[q] /\ q \in T THEN Append(nw[p][q], m) ELSE nw[p][q]
<1> DEFINE out == ToEach(T, m)
<1>1. net' = After(nw, s, out)
  BY DEF Turn, Record
<1>2. out \in Outgoing
  BY SendingTypes
<1>3. out[q] = IF q \in T THEN <<m>> ELSE <<>>
  BY DEF ToEach
<1> HIDE DEF out
<1>4. net'[p][q] = IF p = s /\ alive[q] THEN nw[p][q] \o out[q] ELSE nw[p][q]
  BY <1>1, <1>2, Links
<1>5. nw[p][q] \in Seq(Message)
  BY DEF Outgoing
<1>6. nw[p][q] \o <<m>> = Append(nw[p][q], m) /\ nw[p][q] \o <<>> = nw[p][q]
  BY <1>5
<1> QED
  BY <1>3, <1>4, <1>6

\* Its tables.
LEMMA TurnTables ==
  ASSUME ServerOK, Young, NEW s \in Servers, NEW nw, NEW sb, NEW told, NEW T, NEW m,
         Turn(s, nw, sb, told, T, m)
  PROVE  /\ alive' = alive
         /\ subs'[s] = sb /\ \A p \in Servers : p # s => subs'[p] = subs[p]
         /\ \A t \in Servers : dropped'[s][t] =
              (dropped[s][t] \cup Subscribed(subs[s][t]) \cup told[t]) \ Subscribed(sb[t])
         /\ \A p \in Servers : p # s => dropped'[p] = dropped[p]
         /\ (\A t \in Servers : \A k \in 1 .. Len(sb[t].items) : sb[t].items[k].age = 0) => Young'
<1>1. PICK cs : /\ \A k \in 1 .. Len(cs) : cs[k].tm = 0
                /\ Record(s, nw, cs, sb, told, ToEach(T, m))
  BY DEF Turn
<1> HIDE DEF Young
<1>2. /\ alive' = alive
      /\ chans'[s] = cs /\ \A p \in Servers : p # s => chans'[p] = chans[p]
      /\ subs'[s] = sb /\ \A p \in Servers : p # s => subs'[p] = subs[p]
      /\ \A t \in Servers : dropped'[s][t] =
           (dropped[s][t] \cup Subscribed(subs[s][t]) \cup told[t]) \ Subscribed(sb[t])
      /\ \A p \in Servers : p # s => dropped'[p] = dropped[p]
  BY <1>1, Recorded
<1>3. ASSUME \A t \in Servers : \A k \in 1 .. Len(sb[t].items) : sb[t].items[k].age = 0
      PROVE  Young'
  <2>1. \A p \in Servers : \A k \in 1 .. Len(chans'[p]) : chans'[p][k].tm = 0
    BY <1>1, <1>2 DEF Young
  <2>2. \A p, t \in Servers : \A k \in 1 .. Len(subs'[p][t].items) : subs'[p][t].items[k].age = 0
    BY <1>2, <1>3 DEF Young
  <2> QED
    BY <2>1, <2>2 DEF Young
<1> QED
  BY <1>2, <1>3

\* No clock runs.
LEMMA StaysYoung ==
  ASSUME "duplication" \notin Faults, ServerOK, Young, StillForm
  PROVE  Young'
<1>1. ASSUME Elsewhere PROVE Young'
  BY <1>1, ElsewhereLinks DEF Young
<1>2. \A s, t \in Servers : \A k \in 1 .. Len(subs[s][t].items) : subs[s][t].items[k].age = 0
  BY DEF Young
<1>3. ASSUME NEW s \in Servers, NEW nw, NEW told, NEW T, NEW m, Turn(s, nw, subs[s], told, T, m)
      PROVE  Young'
  BY <1>2, <1>3, TurnTables
<1>4. ASSUME NEW s \in Servers, NEW t \in Servers, NEW srvr,
             \A k \in 1 .. Len(srvr.items) : srvr.items[k].age = 0,
             NEW nw, NEW told, NEW T, NEW m,
             Turn(s, nw, [subs[s] EXCEPT ![t] = srvr], told, T, m)
      PROVE  Young'
  <2> DEFINE sb == [subs[s] EXCEPT ![t] = srvr]
  <2>1. \A u \in Servers : sb[u] = IF u = t THEN srvr ELSE subs[s][u]
    BY DEF ServerOK, LoopOK
  <2> HIDE DEF sb
  <2>2. \A u \in Servers : \A k \in 1 .. Len(sb[u].items) : sb[u].items[k].age = 0
    BY <1>2, <1>4, <2>1
  <2>3. Turn(s, nw, sb, told, T, m)
    BY <1>4 DEF sb
  <2> QED
    BY <2>2, <2>3, TurnTables
<1>5. ASSUME NEW s \in Servers, NEW t \in Servers, NEW ch \in ChannelNames, HearsJoin(s, t, ch)
      PROVE  Young'
  <2> DEFINE before == subs[s][t]
             srvr == Resubscribe(before, ch)
             n == Len(before.items)
  <2>1. GoodSubs(before) /\ n \in Nat
    BY DEF ServerOK, LoopOK, GoodSubsOf, GoodSubs, CountedArrays
  <2>2. \A k \in 1 .. n : before.items[k].age = 0
    BY <1>2
  <2> HIDE DEF before
  <2>3. /\ Len(srvr.items) \in {n, n + 1}
        /\ \A k \in 1 .. n : \/ srvr.items[k].age = before.items[k].age
                             \/ srvr.items[k] = [chan |-> ch, age |-> 0]
        /\ Len(srvr.items) = n + 1 => srvr.items[n + 1] = [chan |-> ch, age |-> 0]
    BY <2>1, ResubscribeEntries
  <2> HIDE DEF srvr, n
  <2>4. [chan |-> ch, age |-> 0].age = 0
    OBVIOUS
  <2>5. \A k \in 1 .. n : srvr.items[k].age = 0
    BY <2>2, <2>3, <2>4
  <2>6. \A k \in 1 .. n + 1 : k \in 1 .. n \/ k = n + 1
    BY <2>1
  <2>7. \A k \in 1 .. Len(srvr.items) : srvr.items[k].age = 0
    BY <2>1, <2>3, <2>4, <2>5, <2>6
  <2>8. PICK T \in SUBSET Servers :
          Turn(s, Rest(s, t), [subs[s] EXCEPT ![t] = srvr], [NoneTold EXCEPT ![t] = {ch}], T, Join(ch))
    BY <1>5 DEF HearsJoin, srvr, before
  <2> QED
    BY <1>4, <2>7, <2>8
<1>6. ASSUME NEW s \in Servers, NEW t \in Servers, NEW ch \in ChannelNames, HearsLeave(s, t, ch)
      PROVE  Young'
  <2> DEFINE srvr == DropLast(subs[s][t])
  <2>1. GoodSubs(subs[s][t]) /\ GoodSubs(srvr)
    BY DropLastGood DEF ServerOK, LoopOK, GoodSubsOf, GoodSubs
  <2>2. Within(srvr, subs[s][t])
    BY <2>1, DropLastWithin
  <2>3. Turn(s, Rest(s, t), [subs[s] EXCEPT ![t] = srvr], NoneTold, {}, Leave(ch))
    BY <1>6 DEF HearsLeave
  <2>4. Len(srvr.items) \in Nat /\ Len(subs[s][t].items) \in Nat
    BY <2>1 DEF GoodSubs, CountedArrays
  <2> HIDE DEF srvr
  <2>5. \A k \in 1 .. Len(srvr.items) : srvr.items[k].age = 0
    BY <1>2, <2>2, <2>4 DEF Within
  <2> QED
    BY <1>4, <2>3, <2>5
<1>7. CASE \E s \in Servers : Asked(s)
  BY <1>3, <1>7 DEF Asked
<1>8. CASE \E s \in Servers, ch \in ChannelNames, id \in Ids : Speaks(s, ch, id)
  BY <1>3, <1>8 DEF Speaks
<1>9. CASE \E s, t \in Servers, ch \in ChannelNames, id \in Ids :
             HearsAgain(s, t, ch, id) \/ HearsInVain(s, t, ch, id) \/ PassesOn(s, t, ch, id)
  BY <1>3, <1>9 DEF HearsAgain, HearsInVain, PassesOn
<1> QED
  BY <1>1, <1>5, <1>6, <1>7, <1>8, <1>9 DEF StillForm

\* Link q with its datagrams rearranged, and possibly one of M behind them, is r.
Flow(q, r, M) ==
  \E l : Rearranged(q, l, 0) /\ (r = l \/ \E m \in M : r = Append(l, m))

\* It has its old datagrams and those of M, and still no Say twice.
LEMMA FlowSays ==
  ASSUME NEW q \in Seq(Message), NEW M \in SUBSET Message, NEW r, Flow(q, r, M)
  PROVE  /\ r \in Seq(Message) /\ Range(r) \subseteq Range(q) \cup M
         /\ /\ Once(q)
            /\ \A m \in M, x \in Range(q) : m.type = "say" /\ x.type = "say" => m.id # x.id
            => Once(r)
<1>1. PICK l : Rearranged(q, l, 0) /\ (r = l \/ \E m \in M : r = Append(l, m))
  BY DEF Flow
<1>2. /\ l \in Seq(Message) /\ Len(l) \in Nat /\ DOMAIN l = 1 .. Len(l)
      /\ Range(l) \subseteq Range(q) /\ (Once(q) => Once(l))
  <2>1. l \in Seq(Message) /\ 0 \in 0 .. Len(q)
    BY <1>1 DEF Rearranged
  <2> QED
    BY <1>1, <2>1, RearrangedSays
<1>3. CASE r = l
  BY <1>2, <1>3
<1>4. ASSUME NEW m \in M, r = Append(l, m)
      PROVE  /\ r \in Seq(Message) /\ Range(r) \subseteq Range(q) \cup {m}
             /\ /\ Once(q)
                /\ \A x \in Range(q) : m.type = "say" /\ x.type = "say" => m.id # x.id
                => Once(r)
  <2> DEFINE n == Len(l)
  <2>1. /\ r \in Seq(Message) /\ Len(r) = n + 1 /\ r[n + 1] = m /\ DOMAIN r = 1 .. n + 1
        /\ \A k \in 1 .. n : r[k] = l[k] /\ l[k] \in Range(l)
    BY <1>2, <1>4 DEF Range
  <2>2. n \in Nat /\ \A k \in 1 .. n + 1 : k \in 1 .. n \/ k = n + 1
    BY <1>2
  <2> HIDE DEF n
  <2>3. Range(r) \subseteq Range(q) \cup {m}
    <3>1. \A k \in 1 .. n + 1 : r[k] \in Range(l) \cup {m}
      BY <2>1, <2>2
    <3>2. Range(r) \subseteq Range(l) \cup {m}
      BY <2>1, <3>1 DEF Range
    <3> QED
      BY <1>2, <3>2
  <2>4. ASSUME Once(q), \A x \in Range(q) : m.type = "say" /\ x.type = "say" => m.id # x.id
        PROVE  Once(r)
    <3> SUFFICES ASSUME NEW i \in 1 .. n + 1, NEW j \in 1 .. n + 1,
                        r[i].type = "say", r[j].type = "say", r[i].id = r[j].id
                 PROVE  i = j
      BY <2>1 DEF Once
    <3>1. \A k \in 1 .. n : r[k] = l[k] /\ r[k] \in Range(q)
      BY <1>2, <2>1
    <3>2. CASE i \in 1 .. n /\ j \in 1 .. n
      BY <1>2, <2>4, <3>1, <3>2 DEF Once, n
    <3>3. CASE i = n + 1 /\ j \in 1 .. n
      BY <2>1, <2>4, <3>1, <3>3
    <3>4. CASE i \in 1 .. n /\ j = n + 1
      BY <2>1, <2>4, <3>1, <3>4
    <3> QED
      BY <2>2, <3>2, <3>3, <3>4
  <2> QED
    BY <2>1, <2>3, <2>4
<1> QED
  BY <1>1, <1>3, <1>4

\* Network nw holds nothing that is not under way.
Reduced(nw) ==
  /\ nw \in [Servers -> Outgoing]
  /\ \A p, q \in Servers : Rearranged(net[p][q], nw[p][q], 0)

\* What is left of the links when s has read.
LEMMA RestFlows ==
  ASSUME ServerOK, NEW s \in Servers, NEW t \in Servers, NEW m, Waits(s, t, m)
  PROVE  Reduced(Rest(s, t))
<1> SUFFICES ASSUME NEW p \in Servers, NEW q \in Servers
             PROVE  Rearranged(net[p][q], Rest(s, t)[p][q], 0)
  BY RestLinks DEF Reduced
<1>1. net[p][q] \in Seq(Message) /\ net[t][s] \in Seq(Message) /\ net[t][s] # <<>>
  BY DEF ServerOK, LoopOK, Outgoing, Waits
<1>2. Rest(s, t)[p][q] = IF p = t /\ q = s THEN Tail(net[t][s]) ELSE net[p][q]
  BY RestLinks
<1>3. Rearranged(net[t][s], Tail(net[t][s]), 1)
  BY <1>1, Rearrangements
<1>4. Rearranged(net[t][s], Tail(net[t][s]), 0)
  <2> DEFINE n == Len(net[t][s])
             r == Tail(net[t][s])
  <2>1. PICK f \in [1 .. Len(r) -> (1 .. n) \ {1}] :
          /\ \A i, j \in 1 .. Len(r) : f[i] = f[j] => i = j
          /\ \A i \in 1 .. Len(r) : r[i] = net[t][s][f[i]]
    BY <1>3 DEF Rearranged
  <2>2. n \in Nat /\ r \in Seq(Message)
    BY <1>1, <1>3 DEF Rearranged
  <2> HIDE DEF n, r
  <2>3. f \in [1 .. Len(r) -> (1 .. n) \ {0}]
    BY <2>1, <2>2
  <2> QED
    BY <2>1, <2>2, <2>3 DEF Rearranged, n, r
<1> QED
  BY <1>1, <1>2, <1>4, Rearrangements

\* The network as it is.
LEMMA NetReduced == ServerOK => Reduced(net)
<1>1. ServerOK => net \in [Servers -> Outgoing] /\ \A p, q \in Servers : net[p][q] \in Seq(Message)
  BY DEF ServerOK, LoopOK, Outgoing
<1> QED
  BY <1>1, Rearrangements DEF Reduced

\* The links at the end of an iteration.
LEMMA TurnFlows ==
  ASSUME NEW s \in Servers, NEW nw, Reduced(nw),
         NEW sb, NEW told, NEW T, NEW m \in Message, Turn(s, nw, sb, told, T, m),
         NEW p \in Servers, NEW q \in Servers
  PROVE  Flow(net[p][q], net'[p][q], IF p = s /\ q \in T THEN {m} ELSE {})
<1>1. net'[p][q] = IF p = s /\ alive[q] /\ q \in T THEN Append(nw[p][q], m) ELSE nw[p][q]
  BY TurnLinks DEF Reduced
<1> QED
  BY <1>1 DEF Flow, Reduced

--------------------------------------------------------------------------------
(* A Say travels each link of a tree once, in one direction *)

\* The link from p to q is the only one that leads out of S.
Bridge(p, q, S) ==
  /\ p \in S /\ q \in Servers \ S
  /\ \A x \in S : \A y \in Neighbours[x] \ S : x = p /\ y = q

\* Every link is such a link: between two servers there is one path at most.
Forest == \A p \in Servers : \A q \in Neighbours[p] : \E S \in SUBSET Servers : Bridge(p, q, S)

\* A Say is under way to nobody who has accepted it.
OneWay ==
  \A p, q \in Servers :
    /\ Once(net[p][q])
    /\ \A m \in Range(net[p][q]) : m.type = "say" => m.id \notin Ids_of(q)

\* A Say that was accepted on both sides of a bridge came over it.
Bridged ==
  \A S \in SUBSET Servers : \A p, q \in Servers : Bridge(p, q, S) =>
    \A x \in S, y \in Servers \ S : Ids_of(x) \cap Ids_of(y) \subseteq Ids_of(p) \cap Ids_of(q)

\* The invariant.
SaysSpread == OneWay /\ Bridged /\ \A s \in Servers : IdsApart(s)

\* In a step no server accepts or sends a Say.
NothingSaid ==
  /\ UNCHANGED log
  /\ \A p, q \in Servers : \E M \in SUBSET Message :
       Flow(net[p][q], net'[p][q], M) /\ \A m \in M : m.type # "say"

\* In a step s accepts a Say and sends it to each of T, who have not accepted it.
Spreads(s, id, T) ==
  /\ id \notin Ids_of(s) /\ \E e : e.id = id /\ TakesIn(s, e)
  /\ \/ \A t \in Servers : id \notin Ids_of(t)
     \/ \E t \in Neighbours[s] : id \in Ids_of(t)
  /\ s \notin T /\ \A t \in T : id \notin Ids_of(t)
  /\ \A p, q \in Servers : \E M \in SUBSET Message :
       Flow(net[p][q], net'[p][q], M) /\ \A m \in M : m.type = "say" => p = s /\ q \in T /\ m.id = id
  /\ \A p \in Servers : \A m \in Range(net'[p][s]) : m.type = "say" => m.id # id

\* The ids that s has accepted when it takes in one more.
LEMMA TakesInIds ==
  ASSUME LogOK, NEW s \in Servers, NEW e, TakesIn(s, e)
  PROVE  /\ Ids_of(s)' = Ids_of(s) \cup {e.id}
         /\ \A t \in Servers : t # s => log'[t] = log[t] /\ Ids_of(t)' = Ids_of(t)
         /\ Len(log[s]) \in Nat /\ log'[s] = Append(log[s], e) /\ Len(log'[s]) = Len(log[s]) + 1
         /\ log'[s][Len(log[s]) + 1] = e
         /\ \A k \in 1 .. Len(log[s]) : log'[s][k] = log[s][k]
<1> DEFINE n == Len(log[s])
<1>1. /\ log[s] \in Seq(LogEntry) /\ n \in Nat /\ DOMAIN log[s] = 1 .. n
      /\ log'[s] = Append(log[s], e) /\ \A t \in Servers : t # s => log'[t] = log[t]
  BY DEF LogOK, TakesIn
<1>2. /\ DOMAIN log'[s] = 1 .. n + 1 /\ Len(log'[s]) = n + 1
      /\ log'[s][n + 1] = e /\ \A k \in 1 .. n : log'[s][k] = log[s][k]
  BY <1>1
<1>3. Ids_of(s)' = Ids_of(s) \cup {e.id}
  <2>1. Ids_of(s)' = {log'[s][k].id : k \in 1 .. n + 1} /\ Ids_of(s) = {log[s][k].id : k \in 1 .. n}
    BY <1>1, <1>2 DEF Ids_of, IdsOf
  <2> HIDE DEF n
  <2>2. \A k \in 1 .. n + 1 : k \in 1 .. n \/ k = n + 1
    BY <1>1
  <2> QED
    BY <1>1, <1>2, <2>1, <2>2
<1>4. \A t \in Servers : t # s => Ids_of(t)' = Ids_of(t)
  BY <1>1 DEF Ids_of, IdsOf
<1> QED
  BY <1>1, <1>2, <1>3, <1>4

\* Where nothing is said the invariant stays.
LEMMA NothingSaidStays ==
  ASSUME ServerOK, SaysSpread, NothingSaid
  PROVE  SaysSpread'
<1>1. \A s \in Servers : Ids_of(s)' = Ids_of(s)
  BY DEF NothingSaid, Ids_of, IdsOf
<1>2. \A s \in Servers : IdsApart(s)'
  BY DEF NothingSaid, SaysSpread, IdsApart
<1>3. Bridged'
  BY <1>1 DEF SaysSpread, Bridged
<1>4. ASSUME NEW p \in Servers, NEW q \in Servers
      PROVE  /\ Once(net'[p][q])
             /\ \A m \in Range(net'[p][q]) : m.type = "say" => m.id \notin Ids_of(q)'
  <2>1. PICK M \in SUBSET Message :
          Flow(net[p][q], net'[p][q], M) /\ \A m \in M : m.type # "say"
    BY DEF NothingSaid
  <2>2. net[p][q] \in Seq(Message) /\ Once(net[p][q])
        /\ \A m \in Range(net[p][q]) : m.type = "say" => m.id \notin Ids_of(q)
    BY DEF ServerOK, LoopOK, Outgoing, SaysSpread, OneWay
  <2>3. Range(net'[p][q]) \subseteq Range(net[p][q]) \cup M
    BY <2>1, <2>2, FlowSays
  <2>4. Once(net'[p][q])
    BY <2>1, <2>2, FlowSays
  <2> QED
    BY <1>1, <2>1, <2>2, <2>3, <2>4
<1>5. OneWay'
  BY <1>4 DEF OneWay, Once
<1> QED
  BY <1>2, <1>3, <1>5 DEF SaysSpread

\* Nor does a Say that spreads to servers that lack it break it.
LEMMA SpreadStays ==
  ASSUME ServerOK, SaysTraced, SaysSpread,
         NEW s \in Servers, NEW id, NEW T, Spreads(s, id, T)
  PROVE  SaysSpread'
<1>1. PICK e : e.id = id /\ TakesIn(s, e)
  BY DEF Spreads
<1>2. /\ Ids_of(s)' = Ids_of(s) \cup {id}
      /\ \A t \in Servers : t # s => log'[t] = log[t] /\ Ids_of(t)' = Ids_of(t)
  BY <1>1, TakesInIds DEF ServerOK
<1>3. \A t \in Servers : IdsApart(t)'
  <2>1. ASSUME NEW t \in Servers, t # s PROVE IdsApart(t)'
    BY <1>2, <2>1 DEF SaysSpread, IdsApart
  <2>2. IdsApart(s)'
    <3> DEFINE n == Len(log[s])
    <3>1. /\ n \in Nat /\ Len(log'[s]) = n + 1 /\ log'[s][n + 1] = e
          /\ \A k \in 1 .. n : log'[s][k] = log[s][k]
      BY <1>1, TakesInIds DEF ServerOK
    <3>2. DOMAIN log[s] = 1 .. n /\ \A k \in 1 .. n : log[s][k].id # e.id
      BY <1>1 DEF ServerOK, LogOK, Spreads, Ids_of, IdsOf
    <3>3. \A i, j \in 1 .. n : log[s][i].id = log[s][j].id => i = j
      BY DEF SaysSpread, IdsApart
    <3> HIDE DEF n
    <3>4. \A k \in 1 .. n + 1 : k \in 1 .. n \/ k = n + 1
      BY <3>1
    <3>5. \A i, j \in 1 .. n + 1 : log'[s][i].id = log'[s][j].id => i = j
      BY <3>1, <3>2, <3>3, <3>4
    <3> QED
      BY <3>1, <3>5 DEF IdsApart
  <2> QED
    BY <2>1, <2>2
<1>4. Bridged'
  <2> SUFFICES ASSUME NEW S \in SUBSET Servers, NEW p \in Servers, NEW q \in Servers, Bridge(p, q, S),
                      NEW x \in S, NEW y \in Servers \ S, NEW i, i \in Ids_of(x)', i \in Ids_of(y)'
               PROVE  i \in Ids_of(p)' /\ i \in Ids_of(q)'
    BY DEF Bridged
  <2>1. \A t \in Servers : Ids_of(t) \subseteq Ids_of(t)'
    BY <1>2
  <2>2. ASSUME NEW v \in S, NEW w \in Servers \ S, i \in Ids_of(v), i \in Ids_of(w)
        PROVE  i \in Ids_of(p)' /\ i \in Ids_of(q)'
    BY <2>1, <2>2 DEF SaysSpread, Bridged
  <2>3. CASE i # id
    BY <1>2, <2>2, <2>3
  <2>4. CASE i = id /\ \A t \in Servers : id \notin Ids_of(t)
    BY <1>2, <2>4
  <2>5. ASSUME i = id, NEW t \in Neighbours[s], id \in Ids_of(t)
        PROVE  i \in Ids_of(p)' /\ i \in Ids_of(q)'
    <3>1. t \in Servers /\ s \in Neighbours[t]
      BY ChatServerAssumption
    <3>2. CASE x # s /\ y # s
      BY <1>2, <2>2, <3>2
    <3>3. CASE x = s /\ t \in S
      BY <1>2, <2>2, <2>5, <3>3
    <3>4. CASE x = s /\ t \notin S
      <4>1. s = p /\ t = q
        BY <3>1, <3>4 DEF Bridge
      <4> QED
        BY <1>2, <2>1, <2>5, <3>1, <4>1
    <3>5. CASE y = s /\ t \notin S
      BY <1>2, <2>2, <2>5, <3>1, <3>5
    <3>6. CASE y = s /\ t \in S
      <4>1. t = p /\ s = q
        BY <3>1, <3>6 DEF Bridge
      <4> QED
        BY <1>2, <2>1, <2>5, <3>1, <4>1
    <3> QED
      BY <3>2, <3>3, <3>4, <3>5, <3>6
  <2> QED
    BY <2>3, <2>4, <2>5 DEF Spreads
<1>5. ASSUME NEW p \in Servers, NEW q \in Servers
      PROVE  /\ Once(net'[p][q])
             /\ \A m \in Range(net'[p][q]) : m.type = "say" => m.id \notin Ids_of(q)'
  <2>1. PICK M \in SUBSET Message :
          Flow(net[p][q], net'[p][q], M) /\ \A m \in M : m.type = "say" => p = s /\ q \in T /\ m.id = id
    BY DEF Spreads
  <2>2. net[p][q] \in Seq(Message) /\ Once(net[p][q])
        /\ \A m \in Range(net[p][q]) : m.type = "say" => m.id \notin Ids_of(q)
    BY DEF ServerOK, LoopOK, Outgoing, SaysSpread, OneWay
  <2>3. Range(net'[p][q]) \subseteq Range(net[p][q]) \cup M
    BY <2>1, <2>2, FlowSays
  <2>4. \A x \in Range(net[p][q]) : x.type = "say" => x.id \in Ids_of(p)
    BY DEF SaysTraced, Traced, Ids_of, IdsOf
  <2>5. \A m \in M, x \in Range(net[p][q]) : m.type = "say" /\ x.type = "say" => m.id # x.id
    BY <2>1, <2>4 DEF Spreads
  <2>6. Once(net'[p][q])
    BY <2>1, <2>2, <2>5, FlowSays
  <2>7. ASSUME NEW m \in Range(net'[p][q]), m.type = "say" PROVE m.id \notin Ids_of(q)'
    <3>1. CASE q = s
      <4>1. m.id # id /\ m \in Range(net[p][q])
        BY <2>1, <2>3, <2>7, <3>1 DEF Spreads
      <4> QED
        BY <1>2, <2>2, <2>7, <3>1, <4>1
    <3>2. CASE q # s
      BY <1>2, <2>1, <2>2, <2>3, <2>7, <3>2 DEF Spreads
    <3> QED
      BY <3>1, <3>2
  <2> QED
    BY <2>6, <2>7
<1>6. OneWay'
  BY <1>5 DEF OneWay, Once
<1> QED
  BY <1>3, <1>4, <1>6 DEF SaysSpread

\* A server that has read fewer Says than recent_ids has room for knows them all.
LEMMA KnowsItsIds ==
  ASSUME LogOK, IsFiniteSet(Ids), Cardinality(Ids) <= MaxIds, NEW s \in Servers, IdsApart(s)
  PROVE  ~OverRuns(s) /\ RecentIds(s) = Ids_of(s)
<1>1. ~OverRuns(s)
  BY FewIds
<1>2. Len(log[s]) \in Nat /\ MaxIds \in Nat
  BY ChatServerAssumption DEF LogOK
<1> QED
  BY <1>1, <1>2 DEF OverRuns, RecentIds, Ids_of

\* A client's Say goes to servers that have not heard of it.
LEMMA SpeaksSpreads ==
  ASSUME FreshIds, ServerOK, SaysTraced, SaysSpread,
         NEW s \in Servers, NEW ch \in ChannelNames, NEW id \in Ids, Speaks(s, ch, id)
  PROVE  Spreads(s, id, SubscribersIn(subs[s], s, ch))
<1> DEFINE fwd == SubscribersIn(subs[s], s, ch)
<1>1. \A t \in Servers : id \notin Ids_of(t)
  BY DEF Speaks, Generated, Ids_of, IdsOf
<1>2. \E e : e.id = id /\ TakesIn(s, e)
  BY DEF Speaks
<1>3. s \notin fwd /\ fwd \subseteq Servers
  BY ChatServerAssumption DEF SubscribersIn
<1>4. Turn(s, net, subs[s], NoneTold, fwd, Say(ch, id))
  BY DEF Speaks
<1>5. /\ net \in [Servers -> Outgoing] /\ Say(ch, id) \in Message /\ Say(ch, id).id = id
      /\ Reduced(net)
  BY RequestFacts, MessageTypes, NetReduced DEF Say
<1> HIDE DEF fwd
<1>6. ASSUME NEW p \in Servers, NEW q \in Servers
      PROVE  \E M \in SUBSET Message :
               /\ Flow(net[p][q], net'[p][q], M)
               /\ \A m \in M : m.type = "say" => p = s /\ q \in fwd /\ m.id = id
  <2> DEFINE M == IF p = s /\ q \in fwd THEN {Say(ch, id)} ELSE {}
  <2>1. Flow(net[p][q], net'[p][q], M)
    BY <1>4, <1>5, TurnFlows
  <2>2. M \in SUBSET Message /\ \A m \in M : p = s /\ q \in fwd /\ m.id = id
    BY <1>5
  <2> QED
    BY <2>1, <2>2
<1>7. ASSUME NEW p \in Servers, NEW m \in Range(net'[p][s]), m.type = "say" PROVE m.id # id
  <2>1. net'[p][s] = net[p][s]
    BY <1>3, <1>4, <1>5, TurnLinks
  <2>2. m.id \in Ids_of(p)
    BY <1>7, <2>1 DEF SaysTraced, Traced, Ids_of, IdsOf
  <2> QED
    BY <1>1, <2>2
<1> QED
  BY <1>1, <1>2, <1>3, <1>6, <1>7 DEF Spreads, fwd

\* Nor has a server heard before of a Say it reads, nor have those it passes it on to.
LEMMA HeardSpreads ==
  ASSUME Forest, ServerOK, SaysTraced, SaysSpread,
         NEW s \in Servers, NEW t \in Servers, NEW ch \in ChannelNames, NEW id \in Ids,
         Waits(s, t, Say(ch, id)), NEW e, e.id = id, TakesIn(s, e),
         NEW T, T \subseteq Neighbours[s] \ {t}, NEW m \in Message, NEW U \in SUBSET Servers,
         Turn(s, Rest(s, t), subs[s], NoneTold, U, m),
         m.type = "say" => m.id = id /\ U = T
  PROVE  Spreads(s, id, T)
<1> DEFINE l == net[t][s]
<1>1. /\ l \in Seq(Message) /\ l[1] = Say(ch, id) /\ Say(ch, id) \in Range(l) /\ 1 \in 0 .. Len(l)
      /\ Say(ch, id).type = "say" /\ Say(ch, id).id = id /\ l # <<>>
      /\ Rest(s, t) \in [Servers -> Outgoing]
  <2>1. l \in Seq(Message) /\ l # <<>>
    BY DEF ServerOK, LoopOK, Outgoing, Waits
  <2>2. 1 \in 0 .. Len(l)
    BY <2>1
  <2> QED
    BY <2>1, <2>2, RestLinks DEF Say
<1>2. t \in Neighbours[s] /\ s \in Neighbours[t] /\ id \in Ids_of(t) /\ id \notin Ids_of(s) /\ s # t
  <2>1. s \in Neighbours[t] /\ id \in Ids_of(t)
    BY <1>1 DEF SaysTraced, Traced, Ids_of, IdsOf
  <2> QED
    BY <1>1, <2>1, ChatServerAssumption DEF SaysSpread, OneWay
<1>3. PICK S \in SUBSET Servers : Bridge(t, s, S)
  BY <1>2 DEF Forest
<1>4. ASSUME NEW u \in Neighbours[s], u # t PROVE u \in Servers /\ id \notin Ids_of(u)
  <2>1. u \in Servers /\ s \in Neighbours[u]
    BY ChatServerAssumption
  <2>2. u \notin S
    BY <1>3, <1>4, <2>1 DEF Bridge
  <2>3. t \in S /\ u \in Servers \ S
    BY <1>3, <2>1, <2>2 DEF Bridge
  <2>4. Ids_of(t) \cap Ids_of(u) \subseteq Ids_of(s)
    BY <1>3, <2>3 DEF SaysSpread, Bridged
  <2> QED
    BY <1>2, <2>1, <2>4
<1>5. s \notin T /\ \A u \in T : id \notin Ids_of(u)
  BY <1>4, ChatServerAssumption
<1>6. Reduced(Rest(s, t))
  BY RestFlows
<1>7. ASSUME NEW p \in Servers, NEW q \in Servers
      PROVE  \E M \in SUBSET Message :
               /\ Flow(net[p][q], net'[p][q], M)
               /\ \A x \in M : x.type = "say" => p = s /\ q \in T /\ x.id = id
  <2> DEFINE M == IF p = s /\ q \in U THEN {m} ELSE {}
  <2>1. Flow(net[p][q], net'[p][q], M)
    BY ONLY <1>6, TurnFlows, Turn(s, Rest(s, t), subs[s], NoneTold, U, m), s \in Servers, m \in Message,
            p \in Servers, q \in Servers
  <2>2. M \in SUBSET Message /\ \A x \in M : x.type = "say" => p = s /\ q \in T /\ x.id = id
    OBVIOUS
  <2> QED
    BY <2>1, <2>2
<1>8. ASSUME NEW p \in Servers, p # s
      PROVE  net'[p][s] = IF p = t THEN Tail(l) ELSE net[p][s]
  <2>1. net'[p][s] = Rest(s, t)[p][s]
    BY <1>1, <1>8, TurnLinks
  <2> QED
    BY <2>1, RestLinks
<1>9. ASSUME NEW p \in Servers, NEW x \in Range(net'[p][s]), x.type = "say" PROVE x.id # id
  <2>1. \A r \in Servers : \A y \in Range(net[r][s]) :
          y.type = "say" => r \in Neighbours[s] /\ y.id \in Ids_of(r)
    BY ChatServerAssumption DEF SaysTraced, Traced, Ids_of, IdsOf
  <2>2. CASE p = t
    <3>1. x \in Range(Tail(l))
      BY <1>2, <1>8, <1>9, <2>2
    <3>2. Once(l) /\ Rearranged(l, Tail(l), 1)
      BY <1>1, Rearrangements DEF SaysSpread, OneWay
    <3> HIDE DEF l
    <3> QED
      BY <1>1, <1>9, <3>1, <3>2, RearrangedSays
  <2>3. CASE p # t /\ p # s
    <3>1. x \in Range(net[p][s])
      BY <1>8, <1>9, <2>3
    <3> QED
      BY <1>4, <1>9, <2>1, <2>3, <3>1
  <2>4. CASE p = s
    <3>1. s \notin Neighbours[s]
      BY ChatServerAssumption
    <3>2. net[s][s] \in Seq(Message)
      BY DEF ServerOK, LoopOK, Outgoing
    <3>3. PICK M \in SUBSET Message :
            Flow(net[s][s], net'[s][s], M) /\ \A y \in M : y.type = "say" => s \in T
      BY <1>7
    <3>4. Range(net'[s][s]) \subseteq Range(net[s][s]) \cup M
      BY <3>2, <3>3, FlowSays
    <3> QED
      BY <1>5, <1>9, <2>1, <2>4, <3>1, <3>3, <3>4
  <2> QED
    BY <2>2, <2>3, <2>4
<1>10. \E x : x.id = id /\ TakesIn(s, x)
  OBVIOUS
<1> QED
  BY <1>2, <1>5, <1>7, <1>9, <1>10 DEF Spreads

\* What brings no Say leaves the spread of those there are.
LEMMA SaylessTurn ==
  ASSUME ServerOK, NEW s \in Servers, NEW nw, Reduced(nw), NEW sb, NEW told, NEW T, NEW m \in Message,
         m.type # "say", Turn(s, nw, sb, told, T, m), UNCHANGED log
  PROVE  NothingSaid
<1> SUFFICES ASSUME NEW p \in Servers, NEW q \in Servers
             PROVE  \E M \in SUBSET Message :
                      Flow(net[p][q], net'[p][q], M) /\ \A x \in M : x.type # "say"
  BY DEF NothingSaid
<1> DEFINE M == IF p = s /\ q \in T THEN {m} ELSE {}
<1>1. Flow(net[p][q], net'[p][q], M)
  BY TurnFlows
<1>2. M \in SUBSET Message /\ \A x \in M : x.type # "say"
  OBVIOUS
<1> QED
  BY <1>1, <1>2

\* No server reads a Say it has accepted.
LEMMA HeardOnce ==
  ASSUME IsFiniteSet(Ids), Cardinality(Ids) <= MaxIds, ServerOK, SaysSpread,
         NEW s \in Servers, NEW t \in Servers, NEW ch \in ChannelNames, NEW id \in Ids,
         Waits(s, t, Say(ch, id))
  PROVE  ~MayHaveId(s, id)
<1>1. IdsApart(s)
  BY DEF SaysSpread
<1>2. ~OverRuns(s) /\ RecentIds(s) = Ids_of(s)
  BY <1>1, KnowsItsIds DEF ServerOK
<1>3. Say(ch, id) \in Range(net[t][s])
  BY RestLinks
<1>4. Say(ch, id).type = "say" /\ Say(ch, id).id = id
  BY DEF Say
<1>5. id \notin Ids_of(s)
  BY <1>3, <1>4 DEF SaysSpread, OneWay
<1> QED
  BY <1>2, <1>5 DEF MayHaveId

\* Every step while no time passes.
LEMMA StillSpreads ==
  ASSUME Forest, FreshIds, IsFiniteSet(Ids), Cardinality(Ids) <= MaxIds, "duplication" \notin Faults,
         ServerOK, SaysTraced, SaysSpread, StillForm
  PROVE  SaysSpread'
<1>0. LogOK /\ Reduced(net)
  BY NetReduced DEF ServerOK
<1>1. CASE Elsewhere
  <2>1. UNCHANGED log /\ \A p, q \in Servers : Rearranged(net[p][q], net'[p][q], 0)
    BY <1>1, ElsewhereLinks
  <2>2. \A p, q \in Servers : Flow(net[p][q], net'[p][q], {})
    BY <2>1 DEF Flow
  <2>3. {} \in SUBSET Message /\ \A m \in {} : m.type # "say"
    OBVIOUS
  <2>4. NothingSaid
    BY <2>1, <2>2, <2>3 DEF NothingSaid
  <2> QED
    BY <2>4, NothingSaidStays
<1>2. ASSUME NEW s \in Servers, Asked(s) PROVE SaysSpread'
  <2>1. PICK T \in SUBSET Servers, ch \in ChannelNames : Turn(s, net, subs[s], NoneTold, T, Join(ch))
    BY <1>2 DEF Asked
  <2>2. Join(ch) \in Message /\ Join(ch).type # "say"
    BY MessageTypes DEF Join
  <2>3. NothingSaid
    BY <1>0, <1>2, <2>1, <2>2, SaylessTurn DEF Asked
  <2> QED
    BY <2>3, NothingSaidStays
<1>3. ASSUME NEW s \in Servers, NEW ch \in ChannelNames, NEW id \in Ids, Speaks(s, ch, id)
      PROVE  SaysSpread'
  BY <1>3, SpeaksSpreads, SpreadStays
<1>4. ASSUME NEW s \in Servers, NEW t \in Servers, NEW ch \in ChannelNames,
             HearsJoin(s, t, ch) \/ HearsLeave(s, t, ch)
      PROVE  SaysSpread'
  <2>1. Join(ch) \in Message /\ Join(ch).type # "say" /\ Leave(ch) \in Message /\ Leave(ch).type # "say"
    BY MessageTypes DEF Join, Leave
  <2>2. \E sb, told, T : \E m \in {Join(ch), Leave(ch)} : Turn(s, Rest(s, t), sb, told, T, m)
    BY <1>4 DEF HearsJoin, HearsLeave
  <2>3. UNCHANGED log /\ Reduced(Rest(s, t))
    BY <1>4, RestFlows DEF HearsJoin, HearsLeave
  <2>4. NothingSaid
    BY <2>1, <2>2, <2>3, SaylessTurn
  <2> QED
    BY <2>4, NothingSaidStays
<1>5. ASSUME NEW s \in Servers, NEW t \in Servers, NEW ch \in ChannelNames, NEW id \in Ids
      PROVE  /\ ~HearsAgain(s, t, ch, id)
             /\ HearsInVain(s, t, ch, id) \/ PassesOn(s, t, ch, id) => SaysSpread'
  <2>1. ~HearsAgain(s, t, ch, id)
    BY <1>0, HeardOnce DEF HearsAgain
  <2>2. ASSUME HearsInVain(s, t, ch, id) PROVE SaysSpread'
    <3> DEFINE e == [id |-> id, chan |-> ch, own |-> FALSE, fwd |-> {}, to |-> <<>>]
    <3>1. TakesIn(s, e) /\ e.id = id /\ Waits(s, t, Say(ch, id))
          /\ Turn(s, Rest(s, t), subs[s], NoneTold, {t}, Leave(ch))
      BY <2>2 DEF HearsInVain
    <3> HIDE DEF e
    <3>2. Leave(ch) \in Message /\ Leave(ch).type # "say" /\ {t} \in SUBSET Servers
          /\ {} \subseteq Neighbours[s] \ {t}
      BY MessageTypes DEF Leave
    <3>3. Spreads(s, id, {})
      BY <3>1, <3>2, HeardSpreads
    <3> QED
      BY <3>3, SpreadStays
  <2>3. ASSUME PassesOn(s, t, ch, id) PROVE SaysSpread'
    <3> DEFINE fwd == ForwardTo(subs[s], s, t, ch)
    <3>1. PICK to \in Seq(Pointers) :
            TakesIn(s, [id |-> id, chan |-> ch, own |-> FALSE, fwd |-> fwd, to |-> to])
      BY <2>3 DEF PassesOn
    <3> DEFINE e == [id |-> id, chan |-> ch, own |-> FALSE, fwd |-> fwd, to |-> to]
    <3>2. Turn(s, Rest(s, t), subs[s], NoneTold, fwd, Say(ch, id)) /\ Waits(s, t, Say(ch, id))
      BY <2>3 DEF PassesOn
    <3>3. Say(ch, id) \in Message /\ Say(ch, id).id = id
      BY MessageTypes DEF Say
    <3>4. fwd \subseteq Neighbours[s] \ {t} /\ fwd \in SUBSET Servers
      BY ChatServerAssumption DEF ForwardTo, SubscribersIn
    <3>5. TakesIn(s, e) /\ e.id = id
      BY <3>1
    <3> HIDE DEF e, fwd
    <3>6. Spreads(s, id, fwd)
      BY <3>2, <3>3, <3>4, <3>5, HeardSpreads
    <3> QED
      BY <3>6, SpreadStays
  <2> QED
    BY <2>1, <2>2, <2>3
<1> QED
  BY <1>1, <1>2, <1>3, <1>4, <1>5 DEF StillForm

--------------------------------------------------------------------------------
(* Leaves *)

\* At the start.
LEMMA InitStill == Init => Young /\ SaysSpread
<1> SUFFICES ASSUME Init PROVE Young /\ SaysSpread
  OBVIOUS
<1>1. /\ chans = [s \in Servers |-> <<create_channel(Common)>>]
      /\ subs = [s \in Servers |-> [t \in Servers |->
                  IF t \in Neighbours[s] THEN OneEntry([chan |-> Common, age |-> 0]) ELSE EmptyArray]]
      /\ log = [s \in Servers |-> <<>>]
      /\ net = [s \in Servers |-> [t \in Servers |-> <<>>]]
      /\ dropped = [s \in Servers |-> [t \in Servers |-> {}]]
  BY DEF Init, ServerInit
<1>2. \A s \in Servers : /\ Len(chans[s]) = 1 /\ chans[s][1].tm = 0
                         /\ \A k \in 1 .. Len(chans[s]) : k = 1
  BY <1>1 DEF create_channel
<1>3. \A s, t \in Servers : \/ subs[s][t] = OneEntry([chan |-> Common, age |-> 0])
                            \/ subs[s][t] = EmptyArray
  BY <1>1
<1>4. /\ Len(OneEntry([chan |-> Common, age |-> 0]).items) = 1
      /\ OneEntry([chan |-> Common, age |-> 0]).items[1].age = 0
      /\ Len(EmptyArray.items) = 0
  BY DEF OneEntry, EmptyArray
<1>5. ASSUME NEW s \in Servers, NEW t \in Servers
      PROVE  \A k \in 1 .. Len(subs[s][t].items) : subs[s][t].items[k].age = 0
  <2> DEFINE one == OneEntry([chan |-> Common, age |-> 0])
  <2> HIDE DEF one
  <2>1. \A k \in 1 .. Len(one.items) : one.items[k].age = 0
    BY <1>4 DEF one
  <2>2. \A k \in 1 .. Len(EmptyArray.items) : EmptyArray.items[k].age = 0
    BY <1>4
  <2> QED
    BY <1>3, <2>1, <2>2 DEF one
<1>6. Young
  BY <1>2, <1>5 DEF Young
<1>7. \A s \in Servers : Ids_of(s) = {} /\ IdsApart(s)
  BY <1>1 DEF Ids_of, IdsOf, IdsApart
<1>8. \A s, t \in Servers : Range(net[s][t]) = {} /\ Once(net[s][t])
  BY <1>1 DEF Range, Once
<1>9. SaysSpread
  BY <1>7, <1>8 DEF SaysSpread, OneWay, Bridged
<1> QED
  BY <1>6, <1>9

\* The neighbour whose Say is next has subscribed to its channel at some time.
LEMMA SenderKnown ==
  ASSUME ServerOK, SayAfterJoin, NEW s \in Servers, NEW t \in Neighbours[s], alive[s],
         NEW ch \in ChannelNames, NEW id \in Ids, Waits(s, t, Say(ch, id))
  PROVE  ch \in Known(s, t)
<1>1. t \in Servers
  BY ChatServerAssumption
<1>2. net[t][s] \in Seq(Message) /\ Backed(net[t][s], Known(s, t))
  BY <1>1 DEF ServerOK, LoopOK, Outgoing, SayAfterJoin
<1>3. 1 \in 1 .. Len(net[t][s]) /\ net[t][s][1] = Say(ch, id)
  BY <1>2 DEF Waits
<1> QED
  BY <1>2, <1>3 DEF Backed, Say

\* What becomes of a Say on a tree: it is answered with a Leave where nobody listens and
\* at most one neighbour has the channel, or goes to others than the sender.
LEMMA SayOutcome ==
  ASSUME IsFiniteSet(Ids), Cardinality(Ids) <= MaxIds, ServerOK, Young, SaysSpread,
         NEW s \in Servers, NEW t \in Servers, NEW ch \in ChannelNames, NEW id \in Ids,
         Receive(s, t), Head(net[t][s]) = Say(ch, id), alive'[s]
  PROVE  \/ /\ NoOneToForwardTo(s, subs[s], UsersOf(s, ch), ch)
            /\ Turn(s, Rest(s, t), subs[s], NoneTold, {t}, Leave(ch))
         \/ Turn(s, Rest(s, t), subs[s], NoneTold, ForwardTo(subs[s], s, t, ch), Say(ch, id))
<1> DEFINE fwd == ForwardTo(subs[s], s, t, ch)
           Answered == Resub(s, Rest(s, t), chans[s], subs[s], NoneTold, ToEach({t}, Leave(ch)))
           Passed == Resub(s, Rest(s, t), chans[s], subs[s], NoneTold, ToEach(fwd, Say(ch, id)))
<1>1. Waits(s, t, Say(ch, id)) /\ alive[s]
  BY DEF Waits, Receive
<1>2. SweptSubs(s) = subs[s] /\ Rest(s, t) \in [Servers -> Outgoing]
  BY <1>1, NothingSwept, ReadTypes DEF Waits, Rest
<1>3. ServSay(s, t, Rest(s, t), ch, id) /\ ~Dies(s)
  <2>1. Head(net[t][s]).type = "say" /\ Head(net[t][s]).chan = ch /\ Head(net[t][s]).id = id
    BY DEF Say
  <2>2. alive \in [Servers -> BOOLEAN]
    BY DEF ServerOK, LoopOK
  <2> QED
    BY <2>1, <2>2 DEF Receive, Dies, Rest
<1>4. ~MayHaveId(s, id)
  BY <1>1, HeardOnce
<1>5. \/ NoOneToForwardTo(s, subs[s], UsersOf(s, ch), ch) /\ Answered
      \/ Passed
  BY <1>2, <1>3, <1>4 DEF ServSay
<1>6. Answered => Turn(s, Rest(s, t), subs[s], NoneTold, {t}, Leave(ch))
  BY <1>2, AsTheyAre, MessageTypes
<1>7. Passed => Turn(s, Rest(s, t), subs[s], NoneTold, fwd, Say(ch, id))
  BY <1>2, AsTheyAre, MessageTypes
<1> HIDE DEF Answered, Passed
<1> QED
  BY <1>5, <1>6, <1>7

\* A Say that goes to others leaves the link to its sender as it was.
LEMMA SenderSpared ==
  ASSUME ServerOK, NEW s \in Servers, NEW t \in Servers, s # t, net[t][s] # <<>>, NEW sb, NEW told,
         NEW T, t \notin T, NEW m \in Message, Turn(s, Rest(s, t), sb, told, T, m), NEW x
  PROVE  ~Sends(s, t, x)
<1>1. Rest(s, t) \in [Servers -> Outgoing]
  BY ReadTypes DEF Rest
<1>2. net'[s][t] = Rest(s, t)[s][t]
  BY <1>1, TurnLinks
<1>3. Rest(s, t)[s][t] = net[s][t] /\ net[s][t] \in Seq(Message)
  BY DEF Rest, ServerOK, LoopOK, Outgoing
<1> QED
  BY <1>2, <1>3 DEF Sends

\* Where nobody is to be forwarded to, nobody listens, and no neighbour but the sender has
\* the channel, or the sender has it no more.
LEMMA NobodyUnlessCut ==
  ASSUME ServerOK, NEW s \in Servers, NEW t \in Neighbours[s], NEW ch \in ChannelNames,
         ch \in Known(s, t), NoOneToForwardTo(s, subs[s], UsersOf(s, ch), ch)
  PROVE  /\ UsersOf(s, ch).items = <<>>
         /\ \A u \in Neighbours[s] \ {t} :
              ch \in Subscribed(subs[s][u]) => ch \notin Subscribed(subs[s][t])
<1>1. UsersOf(s, ch).items = <<>>
  <2> DEFINE us == UsersOf(s, ch)
  <2>1. us.items \in Seq(Pointers) /\ us.debt \in Nat /\ (us.debt > 0 => us.items = <<>>)
    BY UsersOfGood DEF ServerOK, GoodUsers, CountedArrays, WellCounted
  <2>2. Len(us.items) - us.debt = 0
    BY DEF NoOneToForwardTo, Count
  <2> HIDE DEF us
  <2>3. Len(us.items) = 0
    BY <2>1, <2>2
  <2> QED
    BY <2>1, <2>3, EmptySeq DEF us
<1>2. GoodSubsOf(subs[s])
  BY DEF ServerOK, LoopOK
<1>3. Cardinality(SubscribersIn(subs[s], s, ch)) <= 1
  BY DEF NoOneToForwardTo
<1> QED
  BY <1>1, <1>2, <1>3, TwoSubscribers

\* On a tree, a Leave that answers a Say comes from a server where nobody listens, and where
\* no other neighbour has the channel unless the sender was cut off; also if processes
\* are killed and requests lost.  No time passes, no user leaves a channel, no datagram
\* between servers is lost, doubled or overtaken, and the ids are distinct and no
\* more than MAX_IDS.
THEOREM LeavesForNobody ==
  ASSUME Forest, FreshIds, IsFiniteSet(Ids), Cardinality(Ids) <= MaxIds,
         "duplication" \notin Faults, "loss" \notin Faults, "overtaking" \notin Faults,
         "leave" \notin Commands, Timing = "still"
  PROVE  Spec => LeaveMeansNobodyUnlessCut
<1> DEFINE Inv == /\ ServerOK /\ SessOK /\ faults \in 0 .. MaxFaults /\ SaysTraced
                  /\ Young /\ SaysSpread /\ SayAfterJoin
           Answers == \A s \in Servers : \A t \in Neighbours[s], ch \in ChannelNames, id \in Ids :
                        Reads(s, t, Say(ch, id)) /\ Sends(s, t, Leave(ch)) =>
                          /\ UsersOf(s, ch).items = <<>>
                          /\ \A u \in Neighbours[s] \ {t} :
                               ch \in Subscribed(subs'[s][u]) => ch \in dropped'[s][t]
<1>1. Init => Inv
  <2> SUFFICES ASSUME Init PROVE SayAfterJoin
    BY InitOK, TracedInvariant, InitStill
  <2>1. \A s \in Servers : \A t \in Neighbours[s] : net[t][s] = <<>>
    BY ChatServerAssumption DEF Init, ServerInit
  <2> QED
    BY <2>1 DEF SayAfterJoin, Backed
<1>2. Inv /\ JoinBroadcast /\ [Next]_vars => Inv'
  <2> SUFFICES ASSUME Inv, JoinBroadcast, [Next]_vars PROVE Inv'
    OBVIOUS
  <2>1. ServerOK' /\ SessOK' /\ (faults \in 0 .. MaxFaults)' /\ SaysTraced'
    BY NextOK, TracedInvariant
  <2>2. StillForm /\ SayAfterJoin'
    BY <2>1, NextStill, NextBacked
  <2>3. Young' /\ SaysSpread'
    BY <2>2, StaysYoung, StillSpreads
  <2> QED
    BY <2>1, <2>2, <2>3
<1>3. Inv /\ [Next]_vars => Answers
  <2> SUFFICES ASSUME Inv, [Next]_vars, NEW s \in Servers, NEW t \in Neighbours[s],
                      NEW ch \in ChannelNames, NEW id \in Ids,
                      Reads(s, t, Say(ch, id)), Sends(s, t, Leave(ch))
               PROVE  /\ UsersOf(s, ch).items = <<>>
                      /\ \A u \in Neighbours[s] \ {t} :
                           ch \in Subscribed(subs'[s][u]) => ch \in dropped'[s][t]
    OBVIOUS
  <2>1. t \in Servers /\ t # s
    BY ChatServerAssumption
  <2>2. Receive(s, t)
    BY <2>1, OnlyReceive DEF Reads
  <2>3. Waits(s, t, Say(ch, id)) /\ alive[s] /\ alive'[s] /\ Head(net[t][s]) = Say(ch, id)
        /\ net[t][s] # <<>>
    BY <2>2 DEF Reads, Receive, Waits
  <2>4. t \notin ForwardTo(subs[s], s, t, ch) /\ Say(ch, id) \in Message
    BY MessageTypes DEF ForwardTo
  <2>5. ~Turn(s, Rest(s, t), subs[s], NoneTold, ForwardTo(subs[s], s, t, ch), Say(ch, id))
    BY <2>1, <2>3, <2>4, SenderSpared
  <2>6. /\ NoOneToForwardTo(s, subs[s], UsersOf(s, ch), ch)
        /\ Turn(s, Rest(s, t), subs[s], NoneTold, {t}, Leave(ch))
    BY <2>1, <2>2, <2>3, <2>5, SayOutcome
  <2>7. ch \in Known(s, t)
    BY <2>3, SenderKnown
  <2>8. /\ subs'[s] = subs[s]
        /\ dropped'[s][t] = (dropped[s][t] \cup Subscribed(subs[s][t])) \ Subscribed(subs[s][t])
    <3>1. /\ subs'[s] = subs[s]
          /\ dropped'[s][t] = (dropped[s][t] \cup Subscribed(subs[s][t]) \cup NoneTold[t])
                                \ Subscribed(subs[s][t])
      BY <2>1, <2>6, TurnTables
    <3>2. NoneTold[t] = {}
      BY <2>1 DEF NoneTold
    <3> QED
      BY <3>1, <3>2
  <2>9. /\ UsersOf(s, ch).items = <<>>
        /\ \A u \in Neighbours[s] \ {t} :
             ch \in Subscribed(subs[s][u]) => ch \notin Subscribed(subs[s][t])
    BY <2>6, <2>7, NobodyUnlessCut
  <2> QED
    BY <2>7, <2>8, <2>9 DEF Known
<1>4. Spec => []JoinBroadcast
  BY NeighboursAreTold
<1> QED
  BY <1>1, <1>2, <1>3, <1>4, PTL DEF Spec, LeaveMeansNobodyUnlessCut

--------------------------------------------------------------------------------
(* How many messages of a kind are on a link *)

\* The messages of type x in q.
OfType(q, x) == {k \in 1 .. Len(q) : q[k].type = x}

\* How many there are.
Number(q, x) == Cardinality(OfType(q, x))

\* There are finitely many.
LEMMA NumberType ==
  ASSUME NEW q \in Seq(Message), NEW x
  PROVE  IsFiniteSet(OfType(q, x)) /\ Number(q, x) \in Nat
<1>1. IsFiniteSet(1 .. Len(q)) /\ OfType(q, x) \in SUBSET (1 .. Len(q))
  BY FS_Interval DEF OfType
<1>2. IsFiniteSet(OfType(q, x))
  BY <1>1, FS_Subset
<1> QED
  BY <1>2, FS_CardinalityType DEF Number

\* A set that another is mapped into one to one has as many elements, at least.
LEMMA OneToOne ==
  ASSUME NEW A, NEW B, IsFiniteSet(A), IsFiniteSet(B), NEW f, \A i \in A : f[i] \in B,
         \A i, j \in A : f[i] = f[j] => i = j
  PROVE  Cardinality(A) <= Cardinality(B)
<1> DEFINE g == [i \in A |-> f[i]]
<1>1. g \in [A -> B] /\ \A i, j \in A : g[i] = g[j] => i = j
  OBVIOUS
<1> HIDE DEF g
<1>2. g \in Injection(A, B)
  BY <1>1 DEF Injection, IsInjective
<1> QED
  BY <1>2, FS_Injection

\* Rearranged they do not become more, and fewer when one of them is taken.
LEMMA NumberRearranged ==
  ASSUME NEW q \in Seq(Message), NEW r, NEW k \in 0 .. Len(q), Rearranged(q, r, k), NEW x
  PROVE  /\ r \in Seq(Message)
         /\ Number(r, x) <= Number(q, x)
         /\ k # 0 /\ q[k].type = x => Number(r, x) + 1 <= Number(q, x)
<1> DEFINE A == OfType(r, x)
           B == OfType(q, x)
<1>1. r \in Seq(Message)
  BY DEF Rearranged
<1>2. PICK f \in [1 .. Len(r) -> (1 .. Len(q)) \ {k}] :
        /\ \A i, j \in 1 .. Len(r) : f[i] = f[j] => i = j
        /\ \A i \in 1 .. Len(r) : r[i] = q[f[i]]
  BY DEF Rearranged
<1>3. A \subseteq 1 .. Len(r) /\ (\A i \in A : f[i] \in B \ {k})
      /\ \A i, j \in A : f[i] = f[j] => i = j
  BY <1>2 DEF OfType
<1>4. /\ IsFiniteSet(A) /\ Cardinality(A) \in Nat
      /\ IsFiniteSet(B) /\ Cardinality(B) \in Nat
  BY <1>1, NumberType DEF Number
<1>5. k # 0 /\ q[k].type = x => k \in B
  BY DEF OfType
<1> HIDE DEF A, B
<1>6. /\ IsFiniteSet(B \ {k})
      /\ Cardinality(B \ {k}) = IF k \in B THEN Cardinality(B) - 1 ELSE Cardinality(B)
  BY <1>4, FS_RemoveElement
<1>7. Cardinality(A) <= Cardinality(B \ {k})
  BY <1>3, <1>4, <1>6, OneToOne
<1>8. Cardinality(A) <= Cardinality(B) /\ (k \in B => Cardinality(A) + 1 <= Cardinality(B))
  BY <1>4, <1>6, <1>7
<1> QED
  BY <1>1, <1>5, <1>8 DEF Number, A, B

\* One more at the end.
LEMMA NumberAppend ==
  ASSUME NEW q \in Seq(Message), NEW m \in Message, NEW x
  PROVE  Number(Append(q, m), x) = IF m.type = x THEN Number(q, x) + 1 ELSE Number(q, x)
<1> DEFINE n == Len(q)
           r == Append(q, m)
<1>1. n \in Nat /\ Len(r) = n + 1 /\ r[n + 1] = m /\ \A k \in 1 .. n : r[k] = q[k]
  OBVIOUS
<1>2. IsFiniteSet(OfType(q, x))
  BY NumberType
<1> HIDE DEF r
<1>3. OfType(r, x) = IF m.type = x THEN OfType(q, x) \cup {n + 1} ELSE OfType(q, x)
  <2>1. \A k : k \in 1 .. n + 1 <=> k \in 1 .. n \/ k = n + 1
    BY <1>1
  <2>2. OfType(r, x) = {k \in 1 .. n + 1 : r[k].type = x}
    BY <1>1 DEF OfType
  <2> HIDE DEF n
  <2> QED
    BY <1>1, <2>1, <2>2 DEF OfType, n
<1> HIDE DEF n
<1>4. n + 1 \notin OfType(q, x)
  BY <1>1 DEF OfType, n
<1>5. Cardinality(OfType(q, x) \cup {n + 1}) = Cardinality(OfType(q, x)) + 1
  BY <1>2, <1>4, FS_AddElement
<1> QED
  BY <1>3, <1>5 DEF Number, r

--------------------------------------------------------------------------------
(* How many Leaves a table of subscriptions can still get *)

\* How far the count of a is below one.
Owing(a) == a.debt + (IF a.items = <<>> THEN 1 ELSE 0)

\* How far it will be when the Leaves on q have been read, and those that answer the
\* Says on r.
Charge(a, q, r) == Owing(a) + Number(q, "leave") + Number(r, "say")

\* A server has accepted a Say for each step that the count of a neighbour is or
\* will be below one.
Covered ==
  \A s \in Servers : \A t \in Neighbours[s] :
    Charge(subs[s][t], net[t][s], net[s][t]) <= Len(log[s])

\* A Leave takes one away from the count, and a Join nothing.
LEMMA OwingChanges ==
  ASSUME NEW a, GoodSubs(a), NEW ch \in ChannelNames
  PROVE  /\ Owing(a) \in Nat
         /\ Owing(DropLast(a)) \in Nat /\ Owing(DropLast(a)) <= Owing(a) + 1
         /\ Owing(Resubscribe(a, ch)) \in Nat /\ Owing(Resubscribe(a, ch)) <= Owing(a)
<1>1. /\ a = [items |-> a.items, debt |-> a.debt] /\ a.debt \in Nat /\ (a.debt > 0 => a.items = <<>>)
      /\ a.items \in Seq(Subscription)
  BY DEF GoodSubs, CountedArrays, WellCounted
<1>2. Owing(a) \in Nat
  BY <1>1 DEF Owing
<1>3. Owing(DropLast(a)) \in Nat /\ Owing(DropLast(a)) <= Owing(a) + 1
  <2>1. CASE a.items = <<>>
    <3>1. DropLast(a).items = <<>> /\ DropLast(a).debt = a.debt + 1
      BY <1>1, <2>1 DEF DropLast
    <3> QED
      BY <1>1, <2>1, <3>1 DEF Owing
  <2>2. CASE a.items # <<>>
    <3>1. DropLast(a).debt = a.debt
      BY <1>1, <2>2 DEF DropLast
    <3> QED
      BY <1>1, <2>2, <3>1 DEF Owing
  <2> QED
    BY <2>1, <2>2
<1>4. Owing(Resubscribe(a, ch)) \in Nat /\ Owing(Resubscribe(a, ch)) <= Owing(a)
  <2> DEFINE i == find_channel_server(a, ch)
             e == [chan |-> ch, age |-> 0]
  <2>1. CASE i = 0 /\ a.debt > 0
    <3>1. Resubscribe(a, ch).items = <<>> /\ Resubscribe(a, ch).debt = a.debt - 1
      BY <1>1, <2>1 DEF Resubscribe, add_ch_srv, Store
    <3> QED
      BY <1>1, <2>1, <3>1 DEF Owing
  <2>2. CASE i = 0 /\ a.debt = 0
    <3>1. Resubscribe(a, ch).items = Append(a.items, e) /\ Resubscribe(a, ch).debt = 0
      BY <1>1, <2>2 DEF Resubscribe, add_ch_srv, Store
    <3>2. Append(a.items, e) # <<>>
      BY <1>1, AdjacentServersAssumption DEF Subscription
    <3> QED
      BY <1>1, <2>2, <3>1, <3>2 DEF Owing
  <2>3. CASE i # 0
    <3>1. i \in 1 .. Len(a.items)
      BY <2>3, FindSubscription DEF GoodSubs
    <3>2. Resubscribe(a, ch) = [a EXCEPT !.items[i].age = 0]
      BY <2>3 DEF Resubscribe
    <3> HIDE DEF i
    <3>3. Resubscribe(a, ch).items = [a.items EXCEPT ![i].age = 0] /\ Resubscribe(a, ch).debt = a.debt
      BY <1>1, <3>2
    <3>4. a.items # <<>> /\ DOMAIN [a.items EXCEPT ![i].age = 0] = DOMAIN a.items
      BY <1>1, <3>1
    <3>5. DOMAIN <<>> = {} /\ i \in DOMAIN a.items
      BY <1>1, <3>1
    <3> QED
      BY <1>1, <3>3, <3>4, <3>5 DEF Owing
  <2> QED
    BY <1>1, <2>1, <2>2, <2>3
<1> QED
  BY <1>2, <1>3, <1>4

\* The links when s has taken the first datagram from t.
LEMMA RestNumbers ==
  ASSUME ServerOK, NEW s \in Servers, NEW t \in Servers, NEW m, Waits(s, t, m),
         NEW x, NEW p \in Servers, NEW q \in Servers
  PROVE  /\ Number(Rest(s, t)[p][q], x) <= Number(net[p][q], x)
         /\ p = t /\ q = s /\ m.type = x => Number(Rest(s, t)[p][q], x) + 1 <= Number(net[p][q], x)
<1>1. /\ net[p][q] \in Seq(Message)
      /\ Rest(s, t)[p][q] = IF p = t /\ q = s THEN Tail(net[t][s]) ELSE net[p][q]
      /\ net[t][s][1] = m
  <2>1. net[p][q] \in Seq(Message)
    BY DEF ServerOK, LoopOK, Outgoing
  <2>2. /\ \A u, v \in Servers :
             Rest(s, t)[u][v] = IF u = t /\ v = s THEN Tail(net[t][s]) ELSE net[u][v]
        /\ net[t][s][1] = m
    BY ONLY RestLinks, ServerOK, s \in Servers, t \in Servers, Waits(s, t, m)
  <2>3. Rest(s, t)[p][q] = IF p = t /\ q = s THEN Tail(net[t][s]) ELSE net[p][q]
    BY ONLY <2>2, p \in Servers, q \in Servers
  <2> QED
    BY ONLY <2>1, <2>2, <2>3
<1>2. CASE p = t /\ q = s
  <2> DEFINE l == net[t][s]
  <2>1. l \in Seq(Message) /\ l # <<>> /\ l[1] = m
    BY <1>1, <1>2 DEF Waits
  <2>2. 1 \in 0 .. Len(l)
    BY <2>1
  <2> HIDE DEF l
  <2>3. Rearranged(l, Tail(l), 1)
    BY <2>1, Rearrangements
  <2>4. Number(Tail(l), x) <= Number(l, x) /\ (m.type = x => Number(Tail(l), x) + 1 <= Number(l, x))
    BY <2>1, <2>2, <2>3, NumberRearranged
  <2> QED
    BY <1>1, <1>2, <2>4 DEF l
<1>3. CASE ~(p = t /\ q = s)
  <2>1. Number(net[p][q], x) \in Nat
    BY <1>1, NumberType
  <2> QED
    BY <1>1, <1>3, <2>1
<1> QED
  BY <1>2, <1>3

\* And when it has sent m to each of T.
LEMMA TurnNumbers ==
  ASSUME NEW s \in Servers, NEW nw \in [Servers -> Outgoing], NEW sb, NEW told, NEW T,
         NEW m \in Message, Turn(s, nw, sb, told, T, m), NEW x, NEW p \in Servers, NEW q \in Servers
  PROVE  /\ Number(nw[p][q], x) \in Nat /\ Number(net'[p][q], x) \in Nat
         /\ Number(net'[p][q], x) <= Number(nw[p][q], x)
                                     + (IF p = s /\ q \in T /\ m.type = x THEN 1 ELSE 0)
<1>1. net'[p][q] = IF p = s /\ alive[q] /\ q \in T THEN Append(nw[p][q], m) ELSE nw[p][q]
  BY TurnLinks
<1>2. nw[p][q] \in Seq(Message)
  BY DEF Outgoing
<1> DEFINE l == nw[p][q]
           r == net'[p][q]
<1> HIDE DEF l
<1>3. Number(l, x) \in Nat /\ Number(Append(l, m), x) = IF m.type = x THEN Number(l, x) + 1 ELSE Number(l, x)
  BY <1>2, NumberType, NumberAppend DEF l
<1> HIDE DEF r
<1>4. r = l \/ (r = Append(l, m) /\ p = s /\ q \in T)
  BY <1>1 DEF l, r
<1>5. /\ Number(l, x) \in Nat /\ Number(r, x) \in Nat
      /\ Number(r, x) <= Number(l, x) + (IF p = s /\ q \in T /\ m.type = x THEN 1 ELSE 0)
  <2>1. CASE r = l
    BY <1>3, <2>1
  <2>2. CASE r = Append(l, m) /\ p = s /\ q \in T
    <3>1. Number(r, x) = IF m.type = x THEN Number(l, x) + 1 ELSE Number(l, x)
      BY <1>3, <2>2
    <3> QED
      BY <1>3, <2>2, <3>1
  <2> QED
    BY <1>4, <2>1, <2>2
<1> QED
  BY <1>5 DEF l, r

\* Whether t is sent a message of type x.
Hit(t, T, m, x) == IF t \in T /\ m.type = x THEN 1 ELSE 0

\* When s has taken what it takes and sends m to each of T, its own account of t, and that
\* of t of s, are covered.
Pays(s, nw, sb, T, m, t) ==
  /\ Owing(sb[t]) \in Nat
  /\ Charge(sb[t], nw[t][s], nw[s][t]) + Hit(t, T, m, "say") <= Len(log'[s])

Balances(s, nw, T, m, t) ==
  Number(nw[s][t], "leave") + Number(nw[t][s], "say") + Hit(t, T, m, "leave")
    <= Number(net[s][t], "leave") + Number(net[t][s], "say")

\* Then all are.
LEMMA TurnCovered ==
  ASSUME ServerOK, Young, Covered, NEW s \in Servers, NEW nw \in [Servers -> Outgoing],
         NEW sb, NEW told, NEW T, NEW m \in Message, Turn(s, nw, sb, told, T, m),
         \A p, q \in Servers : p # s /\ q # s => nw[p][q] = net[p][q],
         \A p \in Servers : p # s => log'[p] = log[p],
         \A t \in Neighbours[s] : Pays(s, nw, sb, T, m, t) /\ Balances(s, nw, T, m, t)
  PROVE  Covered'
<1> SUFFICES ASSUME NEW p \in Servers, NEW q \in Neighbours[p]
             PROVE  Charge(subs'[p][q], net'[q][p], net'[p][q]) <= Len(log'[p])
  BY DEF Covered, Charge, Number, OfType, Owing
<1>1. q \in Servers /\ p # q /\ p \in Neighbours[q]
  BY ChatServerAssumption
<1>2. subs'[s] = sb /\ (p # s => subs'[p] = subs[p])
  BY TurnTables
<1>3. /\ Owing(subs[p][q]) \in Nat
      /\ Charge(subs[p][q], net[q][p], net[p][q]) <= Len(log[p])
  <2>1. GoodSubs(subs[p][q])
    BY <1>1 DEF ServerOK, LoopOK, GoodSubsOf, GoodSubs
  <2>2. Owing(subs[p][q]) \in Nat
    <3> DEFINE a == subs[p][q]
    <3> HIDE DEF a
    <3>1. GoodSubs(a)
      BY <2>1 DEF a
    <3>2. Owing(a) \in Nat
      BY <3>1, OwingChanges, ChannelsAssumption
    <3> QED
      BY <3>2 DEF a
  <2> QED
    BY <1>1, <2>2 DEF Covered
<1>4. \A x \in {"leave", "say"} :
        /\ Number(net[q][p], x) \in Nat /\ Number(net[p][q], x) \in Nat
        /\ Number(nw[q][p], x) \in Nat /\ Number(net'[q][p], x) \in Nat
        /\ Number(nw[p][q], x) \in Nat /\ Number(net'[p][q], x) \in Nat
  <2>1. net[q][p] \in Seq(Message) /\ net[p][q] \in Seq(Message)
    BY <1>1 DEF ServerOK, LoopOK, Outgoing
  <2> QED
    BY <1>1, <2>1, NumberType, TurnNumbers
<1>5. /\ Number(net'[q][p], "leave") <= Number(nw[q][p], "leave") + (IF q = s THEN Hit(p, T, m, "leave") ELSE 0)
      /\ Number(net'[p][q], "say") <= Number(nw[p][q], "say") + (IF p = s THEN Hit(q, T, m, "say") ELSE 0)
  <2>1. \A x : Number(net'[q][p], x) <= Number(nw[q][p], x) + (IF q = s /\ p \in T /\ m.type = x THEN 1 ELSE 0)
    BY ONLY <1>1, TurnNumbers, Turn(s, nw, sb, told, T, m), s \in Servers, m \in Message,
            nw \in [Servers -> Outgoing], p \in Servers
  <2>2. \A x : Number(net'[p][q], x) <= Number(nw[p][q], x) + (IF p = s /\ q \in T /\ m.type = x THEN 1 ELSE 0)
    BY ONLY <1>1, TurnNumbers, Turn(s, nw, sb, told, T, m), s \in Servers, m \in Message,
            nw \in [Servers -> Outgoing], p \in Servers
  <2>3. \A x : (IF q = s /\ p \in T /\ m.type = x THEN 1 ELSE 0) = IF q = s THEN Hit(p, T, m, x) ELSE 0
    BY DEF Hit
  <2>4. \A x : (IF p = s /\ q \in T /\ m.type = x THEN 1 ELSE 0) = IF p = s THEN Hit(q, T, m, x) ELSE 0
    BY DEF Hit
  <2> QED
    BY <2>1, <2>2, <2>3, <2>4
<1>6. \A x, y : Hit(x, T, m, y) \in {0, 1}
  BY DEF Hit
<1> DEFINE lo == Number(net'[q][p], "leave")
           so == Number(net'[p][q], "say")
           ln == Number(nw[q][p], "leave")
           sn == Number(nw[p][q], "say")
           l == Number(net[q][p], "leave")
           y == Number(net[p][q], "say")
           o == Owing(subs[p][q])
<1>7. CASE p = s
  <2>1. Pays(s, nw, sb, T, m, q)
    BY <1>7
  <2>2. Owing(sb[q]) \in Nat /\ Owing(sb[q]) + ln + sn + Hit(q, T, m, "say") <= Len(log'[s])
    BY <1>7, <2>1 DEF Pays, Charge
  <2>3. lo <= ln /\ so <= sn + Hit(q, T, m, "say") /\ lo \in Nat /\ so \in Nat /\ ln \in Nat /\ sn \in Nat
    BY <1>1, <1>4, <1>5, <1>7
  <2>4. Owing(subs'[p][q]) = Owing(sb[q])
    BY <1>2, <1>7
  <2> QED
    BY <1>6, <1>7, <2>2, <2>3, <2>4 DEF Charge
<1>8. ASSUME p # s PROVE o \in Nat /\ o + l + y <= Len(log[p]) /\ Len(log[p]) \in Nat
                         /\ Len(log'[p]) = Len(log[p]) /\ Owing(subs'[p][q]) = o
  <2>1. log[p] \in Seq(LogEntry)
    BY DEF ServerOK, LogOK
  <2>2. Len(log[p]) \in Nat
    BY <2>1
  <2>3. log'[p] = log[p]
    BY <1>8
  <2> QED
    BY <1>2, <1>3, <1>8, <2>2, <2>3 DEF Charge
<1>9. /\ lo \in Nat /\ so \in Nat /\ ln \in Nat /\ sn \in Nat /\ l \in Nat /\ y \in Nat
      /\ Hit(p, T, m, "leave") \in Nat
      /\ lo <= ln + (IF q = s THEN Hit(p, T, m, "leave") ELSE 0)
      /\ so <= sn + (IF p = s THEN Hit(q, T, m, "say") ELSE 0)
  BY <1>4, <1>5, <1>6
<1>10. CASE q = s
  <2>1. ln + sn + Hit(p, T, m, "leave") <= l + y
    BY <1>1, <1>10 DEF Balances
  <2>2. lo + so <= l + y
    <3> HIDE DEF lo, so, ln, sn, l, y
    <3> QED
      BY <1>1, <1>9, <1>10, <2>1
  <2> HIDE DEF lo, so, l, y, o
  <2>3. o + lo + so <= Len(log'[p]) /\ Owing(subs'[p][q]) = o
    BY <1>1, <1>8, <1>9, <1>10, <2>2
  <2> QED
    BY <2>3 DEF Charge, lo, so
<1>11. CASE p # s /\ q # s
  <2>1. ln = l /\ sn = y
    BY <1>1, <1>11
  <2> HIDE DEF lo, so, l, y, o
  <2>2. lo <= l /\ so <= y
    BY <1>9, <1>11, <2>1
  <2>3. o + lo + so <= Len(log'[p]) /\ Owing(subs'[p][q]) = o
    BY <1>8, <1>9, <1>11, <2>2
  <2> QED
    BY <2>3 DEF Charge, lo, so
<1> QED
  BY <1>7, <1>10, <1>11

\* What s reads, and what it makes of it, pays for what it sends to t: a Leave that is read
\* for the step it takes the count down, a Say that is read for the Leave that answers it, and
\* one more Say in the log for the one that is sent.
Frugal(s, nw, sb, T, m, t) ==
  /\ \A x : Number(nw[t][s], x) <= Number(net[t][s], x) /\ Number(nw[s][t], x) <= Number(net[s][t], x)
  /\ Owing(sb[t]) \in Nat
  /\ Owing(sb[t]) + Number(nw[t][s], "leave") <= Owing(subs[s][t]) + Number(net[t][s], "leave")
  /\ Number(nw[t][s], "say") + Hit(t, T, m, "leave") <= Number(net[t][s], "say")
  /\ Len(log[s]) + Hit(t, T, m, "say") <= Len(log'[s])

\* What a server owes for t, as a table of subscriptions and two links.
LEMMA CoveredFacts ==
  ASSUME ServerOK, NEW s \in Servers, NEW t \in Neighbours[s]
  PROVE  /\ t \in Servers /\ t # s
         /\ GoodSubs(subs[s][t]) /\ Owing(subs[s][t]) \in Nat
         /\ net[s][t] \in Seq(Message) /\ net[t][s] \in Seq(Message)
         /\ \A x : Number(net[s][t], x) \in Nat /\ Number(net[t][s], x) \in Nat
         /\ Len(log[s]) \in Nat
<1>1. t \in Servers /\ t # s
  BY ChatServerAssumption
<1>2. net[s][t] \in Seq(Message) /\ net[t][s] \in Seq(Message)
  BY <1>1 DEF ServerOK, LoopOK, Outgoing
<1>3. \A x : Number(net[s][t], x) \in Nat /\ Number(net[t][s], x) \in Nat
  BY <1>2, NumberType
<1>4. GoodSubs(subs[s][t])
  BY <1>1 DEF ServerOK, LoopOK, GoodSubsOf, GoodSubs
<1>5. Owing(subs[s][t]) \in Nat
  <2> DEFINE a == subs[s][t]
  <2> HIDE DEF a
  <2>1. GoodSubs(a)
    BY <1>4 DEF a
  <2>2. Owing(a) \in Nat
    BY <2>1, OwingChanges, ChannelsAssumption
  <2> QED
    BY <2>2 DEF a
<1>6. log[s] \in Seq(LogEntry)
  BY DEF ServerOK, LogOK
<1>7. Len(log[s]) \in Nat
  BY <1>6
<1> QED
  BY <1>1, <1>2, <1>3, <1>4, <1>5, <1>7

\* A frugal step pays: with what it sends, both accounts of the link are covered.
LEMMA FrugalPays ==
  ASSUME ServerOK, Covered, NEW s \in Servers, NEW nw \in [Servers -> Outgoing], NEW sb, NEW T,
         NEW m, NEW t \in Neighbours[s], Frugal(s, nw, sb, T, m, t), Len(log'[s]) \in Nat
  PROVE  Pays(s, nw, sb, T, m, t) /\ Balances(s, nw, T, m, t)
<1> DEFINE o == Owing(subs[s][t])
           w == Owing(sb[t])
           l == Number(net[t][s], "leave")
           y == Number(net[s][t], "say")
           z == Number(net[s][t], "leave")
           v == Number(net[t][s], "say")
           ln == Number(nw[t][s], "leave")
           yn == Number(nw[s][t], "say")
           zn == Number(nw[s][t], "leave")
           vn == Number(nw[t][s], "say")
           h == Hit(t, T, m, "leave")
           g == Hit(t, T, m, "say")
           n == Len(log[s])
           k == Len(log'[s])
<1>1. t \in Servers /\ o \in Nat /\ l \in Nat /\ y \in Nat /\ z \in Nat /\ v \in Nat /\ n \in Nat /\ k \in Nat
  BY CoveredFacts
<1>2. nw[t][s] \in Seq(Message) /\ nw[s][t] \in Seq(Message)
  BY <1>1 DEF Outgoing
<1>3. ln \in Nat /\ yn \in Nat /\ zn \in Nat /\ vn \in Nat
  BY <1>2, NumberType
<1>4. h \in Nat /\ g \in Nat
  BY DEF Hit
<1>5. o + l + y <= n
  BY DEF Covered, Charge
<1>6. w \in Nat /\ yn <= y /\ zn <= z /\ w + ln <= o + l /\ vn + h <= v /\ n + g <= k
  BY DEF Frugal
<1> HIDE DEF o, w, l, y, z, v, ln, yn, zn, vn, h, g, n, k
<1>7. w + ln + yn + g <= k
  <2>1. w + ln + yn <= n
    BY ONLY <1>1, <1>3, <1>5, <1>6
  <2> QED
    BY ONLY <1>1, <1>3, <1>4, <1>6, <2>1
<1>8. zn + vn + h <= z + v
  BY ONLY <1>1, <1>3, <1>4, <1>6
<1> QED
  BY <1>6, <1>7, <1>8 DEF Pays, Balances, Charge, w, ln, yn, zn, vn, h, g, z, v, k

\* The links when s has read m from u: one message of its type is gone.
LEMMA RestFrugal ==
  ASSUME ServerOK, NEW s \in Servers, NEW u \in Servers, NEW m, Waits(s, u, m), NEW t \in Neighbours[s]
  PROVE  /\ \A x : /\ Number(Rest(s, u)[t][s], x) <= Number(net[t][s], x)
                   /\ Number(Rest(s, u)[s][t], x) <= Number(net[s][t], x)
         /\ t = u => Number(Rest(s, u)[t][s], m.type) + 1 <= Number(net[t][s], m.type)
<1>1. t \in Servers
  BY ChatServerAssumption
<1>2. \A x : Number(Rest(s, u)[t][s], x) <= Number(net[t][s], x)
  BY <1>1, RestNumbers
<1>3. \A x : Number(Rest(s, u)[s][t], x) <= Number(net[s][t], x)
  BY <1>1, RestNumbers
<1>4. t = u => Number(Rest(s, u)[t][s], m.type) + 1 <= Number(net[t][s], m.type)
  BY <1>1, RestNumbers
<1> QED
  BY <1>2, <1>3, <1>4

\* An iteration that is frugal leaves all accounts covered.
LEMMA FrugalTurn ==
  ASSUME ServerOK, Young, Covered, NEW s \in Servers, NEW nw \in [Servers -> Outgoing],
         NEW sb, NEW told, NEW T, NEW m \in Message, Turn(s, nw, sb, told, T, m),
         \A p, q \in Servers : p # s /\ q # s => nw[p][q] = net[p][q],
         \A p \in Servers : p # s => log'[p] = log[p],
         Len(log'[s]) \in Nat,
         \A t \in Neighbours[s] : Frugal(s, nw, sb, T, m, t)
  PROVE  Covered'
<1>1. \A t \in Neighbours[s] : Pays(s, nw, sb, T, m, t) /\ Balances(s, nw, T, m, t)
  BY FrugalPays
<1> QED
  BY <1>1, TurnCovered

\* The log when s has taken in nothing, or an entry more.
LEMMA LogLengths ==
  ASSUME ServerOK, NEW s \in Servers, UNCHANGED log \/ \E e : TakesIn(s, e)
  PROVE  /\ \A p \in Servers : p # s => log'[p] = log[p]
         /\ Len(log'[s]) \in Nat /\ Len(log[s]) \in Nat
         /\ UNCHANGED log => Len(log'[s]) = Len(log[s])
         /\ (\E e : TakesIn(s, e)) => Len(log'[s]) = Len(log[s]) + 1
<1>1. log[s] \in Seq(LogEntry) /\ log \in [Servers -> Seq(LogEntry)]
  BY DEF ServerOK, LogOK
<1>2. Len(log[s]) \in Nat
  BY <1>1
<1>3. ASSUME NEW e, TakesIn(s, e)
      PROVE  (\A p \in Servers : p # s => log'[p] = log[p]) /\ Len(log'[s]) = Len(log[s]) + 1
  <2>1. log'[s] = Append(log[s], e) /\ \A p \in Servers : p # s => log'[p] = log[p]
    BY <1>1, <1>3 DEF TakesIn
  <2>2. Len(Append(log[s], e)) = Len(log[s]) + 1
    BY <1>1
  <2> QED
    BY <2>1, <2>2
<1>4. CASE UNCHANGED log
  <2>1. ~\E e : TakesIn(s, e)
    <3> SUFFICES ASSUME NEW e, TakesIn(s, e) PROVE FALSE
      OBVIOUS
    <3>1. Len(log[s]) = Len(log[s]) + 1
      BY <1>3, <1>4
    <3> QED
      BY <1>2, <3>1
  <2> QED
    BY <1>2, <1>4, <2>1
<1>5. CASE \E e : TakesIn(s, e)
  <2>1. Len(log'[s]) = Len(log[s]) + 1 /\ \A p \in Servers : p # s => log'[p] = log[p]
    BY <1>3, <1>5
  <2>2. ~UNCHANGED log
    <3> SUFFICES ASSUME UNCHANGED log PROVE FALSE
      OBVIOUS
    <3>1. Len(log[s]) = Len(log[s]) + 1
      BY <2>1
    <3> QED
      BY <1>2, <3>1
  <2> QED
    BY <1>2, <2>1, <2>2
<1> QED
  BY <1>4, <1>5

\* s has read nothing.
LEMMA UnreadFrugal ==
  ASSUME ServerOK, NEW s \in Servers, NEW T, NEW m, NEW t \in Neighbours[s],
         m.type # "leave", Len(log[s]) + Hit(t, T, m, "say") <= Len(log'[s])
  PROVE  Frugal(s, net, subs[s], T, m, t)
<1>1. /\ Owing(subs[s][t]) \in Nat
      /\ \A x : Number(net[s][t], x) \in Nat /\ Number(net[t][s], x) \in Nat
  BY CoveredFacts
<1>2. Hit(t, T, m, "leave") = 0
  BY DEF Hit
<1>3. Number(net[t][s], "leave") \in Nat /\ Number(net[t][s], "say") \in Nat
  BY <1>1
<1> QED
  BY <1>1, <1>2, <1>3 DEF Frugal

\* What counts of a message that was read, as its type.
LEMMA ReadFrugal ==
  ASSUME ServerOK, NEW s \in Servers, NEW u \in Servers, NEW r, Waits(s, u, r), NEW sb, NEW T, NEW m,
         NEW t \in Neighbours[s],
         Len(log[s]) + Hit(t, T, m, "say") <= Len(log'[s]),
         Owing(sb[t]) \in Nat,
         Owing(sb[t]) <= Owing(subs[s][t]) + (IF t = u /\ r.type = "leave" THEN 1 ELSE 0),
         Hit(t, T, m, "leave") = 1 => t = u /\ r.type = "say"
  PROVE  Frugal(s, Rest(s, u), sb, T, m, t)
<1> DEFINE l == Number(net[t][s], "leave")
           v == Number(net[t][s], "say")
           ln == Number(Rest(s, u)[t][s], "leave")
           vn == Number(Rest(s, u)[t][s], "say")
           o == Owing(subs[s][t])
           w == Owing(sb[t])
           h == Hit(t, T, m, "leave")
<1>1. o \in Nat /\ l \in Nat /\ v \in Nat
  BY CoveredFacts
<1>2. \A x : /\ Number(Rest(s, u)[t][s], x) <= Number(net[t][s], x)
             /\ Number(Rest(s, u)[s][t], x) <= Number(net[s][t], x)
  BY RestFrugal
<1>3. /\ t = u /\ r.type = "leave" => ln + 1 <= l
      /\ t = u /\ r.type = "say" => vn + 1 <= v
  BY RestFrugal
<1>4. ln <= l /\ vn <= v
  BY <1>2
<1>5. ln \in Nat /\ vn \in Nat
  <2>1. t \in Servers /\ Rest(s, u) \in [Servers -> Outgoing]
    BY CoveredFacts, RestLinks
  <2>2. Rest(s, u)[t][s] \in Seq(Message)
    BY <2>1 DEF Outgoing
  <2> QED
    BY <2>2, NumberType
<1>6. h \in {0, 1}
  BY DEF Hit
<1>7. w \in Nat /\ w <= o + (IF t = u /\ r.type = "leave" THEN 1 ELSE 0) /\ (h = 1 => t = u /\ r.type = "say")
  OBVIOUS
<1> HIDE DEF l, v, ln, vn, o, w, h
<1>8. w + ln <= o + l
  <2>1. CASE t = u /\ r.type = "leave"
    <3>1. w <= o + 1 /\ ln + 1 <= l
      BY <1>3, <1>7, <2>1
    <3> QED
      BY ONLY <1>1, <1>5, <1>7, <3>1
  <2>2. CASE ~(t = u /\ r.type = "leave")
    <3>1. w <= o
      BY <1>1, <1>7, <2>2
    <3> QED
      BY ONLY <1>1, <1>4, <1>5, <1>7, <3>1
  <2> QED
    BY <2>1, <2>2
<1>9. vn + h <= v
  <2>1. CASE h = 1
    BY <1>1, <1>3, <1>5, <1>7, <2>1
  <2>2. CASE h = 0
    BY <1>1, <1>4, <1>5, <2>2
  <2> QED
    BY <1>6, <2>1, <2>2
<1> QED
  BY <1>2, <1>7, <1>8, <1>9 DEF Frugal, l, v, ln, vn, o, w, h

\* Every step while no time passes.
LEMMA StillCovered ==
  ASSUME "duplication" \notin Faults, ServerOK, Young, Covered, StillForm
  PROVE  Covered'
<1>1. CASE Elsewhere
  <2> SUFFICES ASSUME NEW s \in Servers, NEW t \in Neighbours[s]
               PROVE  Charge(subs'[s][t], net'[t][s], net'[s][t]) <= Len(log'[s])
    BY DEF Covered, Charge, Number, OfType, Owing
  <2>1. /\ UNCHANGED <<subs, log>>
        /\ \A p, q \in Servers : Rearranged(net[p][q], net'[p][q], 0)
    BY <1>1, ElsewhereLinks
  <2>2. /\ t \in Servers /\ Owing(subs[s][t]) \in Nat
        /\ net[s][t] \in Seq(Message) /\ net[t][s] \in Seq(Message)
        /\ Len(log[s]) \in Nat
    BY CoveredFacts
  <2> DEFINE q == net[t][s]
             r == net[s][t]
             q1 == net'[t][s]
             r1 == net'[s][t]
  <2>3. /\ q \in Seq(Message) /\ r \in Seq(Message) /\ 0 \in 0 .. Len(q) /\ 0 \in 0 .. Len(r)
        /\ Rearranged(q, q1, 0) /\ Rearranged(r, r1, 0)
    BY <2>1, <2>2
  <2>4. q1 \in Seq(Message) /\ r1 \in Seq(Message)
    BY <2>3 DEF Rearranged
  <2>5. Owing(subs[s][t]) + Number(q, "leave") + Number(r, "say") <= Len(log[s])
    BY DEF Covered, Charge
  <2>6. Owing(subs'[s][t]) = Owing(subs[s][t]) /\ Len(log'[s]) = Len(log[s])
    BY <2>1
  <2> HIDE DEF q, r, q1, r1
  <2>7. Number(q1, "leave") <= Number(q, "leave") /\ Number(r1, "say") <= Number(r, "say")
    BY <2>3, NumberRearranged
  <2>8. /\ Number(q1, "leave") \in Nat /\ Number(q, "leave") \in Nat
        /\ Number(r1, "say") \in Nat /\ Number(r, "say") \in Nat
    BY <2>3, <2>4, NumberType
  <2>9. Owing(subs[s][t]) + Number(q1, "leave") + Number(r1, "say") <= Len(log[s])
    <3> DEFINE o == Owing(subs[s][t])
               n == Len(log[s])
    <3>1. o \in Nat /\ n \in Nat /\ o + Number(q, "leave") + Number(r, "say") <= n
      BY <2>2, <2>5
    <3> HIDE DEF o, n
    <3>2. o + Number(q1, "leave") + Number(r1, "say") <= n
      BY ONLY <2>7, <2>8, <3>1
    <3> QED
      BY <3>2 DEF o, n
  <2> QED
    BY <2>6, <2>9 DEF Charge, q1, r1
<1>2. ASSUME NEW s \in Servers, Asked(s) PROVE Covered'
  <2>1. PICK T \in SUBSET Servers, ch \in ChannelNames : Turn(s, net, subs[s], NoneTold, T, Join(ch))
    BY <1>2 DEF Asked
  <2>2. UNCHANGED log /\ Join(ch) \in Message /\ Join(ch).type = "join" /\ net \in [Servers -> Outgoing]
    BY <1>2, MessageTypes, RequestFacts DEF Asked, Join
  <2>3. /\ \A p \in Servers : p # s => log'[p] = log[p]
        /\ Len(log'[s]) \in Nat /\ Len(log[s]) \in Nat /\ Len(log'[s]) = Len(log[s])
    BY <2>2, LogLengths
  <2>4. ASSUME NEW t \in Neighbours[s] PROVE Frugal(s, net, subs[s], T, Join(ch), t)
    <3>1. Hit(t, T, Join(ch), "say") = 0
      BY <2>2 DEF Hit
    <3> QED
      BY <2>2, <2>3, <3>1, UnreadFrugal
  <2> QED
    BY <2>1, <2>2, <2>3, <2>4, FrugalTurn
<1>3. ASSUME NEW s \in Servers, NEW ch \in ChannelNames, NEW id \in Ids, Speaks(s, ch, id)
      PROVE  Covered'
  <2>1. PICK T : Turn(s, net, subs[s], NoneTold, T, Say(ch, id))
    BY <1>3 DEF Speaks
  <2>2. /\ \E e : TakesIn(s, e)
        /\ Say(ch, id) \in Message /\ Say(ch, id).type = "say" /\ net \in [Servers -> Outgoing]
    BY <1>3, MessageTypes, RequestFacts DEF Speaks, Say
  <2>3. /\ \A p \in Servers : p # s => log'[p] = log[p]
        /\ Len(log'[s]) \in Nat /\ Len(log[s]) \in Nat /\ Len(log'[s]) = Len(log[s]) + 1
    BY <2>2, LogLengths
  <2>4. ASSUME NEW t \in Neighbours[s] PROVE Frugal(s, net, subs[s], T, Say(ch, id), t)
    <3>1. Hit(t, T, Say(ch, id), "say") \in {0, 1}
      BY DEF Hit
    <3> QED
      BY <2>2, <2>3, <3>1, UnreadFrugal
  <2> QED
    BY <2>1, <2>2, <2>3, <2>4, FrugalTurn
\* An iteration that reads.
<1>4. ASSUME NEW s \in Servers, NEW u \in Servers, NEW r, Waits(s, u, r), NEW sb, NEW told, NEW T,
             NEW m \in Message, Turn(s, Rest(s, u), sb, told, T, m),
             UNCHANGED log \/ \E e : TakesIn(s, e),
             m.type = "say" => \E e : TakesIn(s, e),
             m.type = "leave" => T = {} \/ (T = {u} /\ r.type = "say"),
             \A t \in Neighbours[s] :
               /\ Owing(sb[t]) \in Nat
               /\ Owing(sb[t]) <= Owing(subs[s][t]) + (IF t = u /\ r.type = "leave" THEN 1 ELSE 0)
      PROVE  Covered'
  <2>1. /\ \A p \in Servers : p # s => log'[p] = log[p]
        /\ Len(log'[s]) \in Nat /\ Len(log[s]) \in Nat
        /\ UNCHANGED log => Len(log'[s]) = Len(log[s])
        /\ (\E e : TakesIn(s, e)) => Len(log'[s]) = Len(log[s]) + 1
    BY <1>4, LogLengths
  <2>2. /\ Rest(s, u) \in [Servers -> Outgoing]
        /\ \A p, q \in Servers : p # s /\ q # s => Rest(s, u)[p][q] = net[p][q]
    BY <1>4, RestLinks
  <2>3. ASSUME NEW t \in Neighbours[s] PROVE Frugal(s, Rest(s, u), sb, T, m, t)
    <3>1. Len(log[s]) + Hit(t, T, m, "say") <= Len(log'[s])
      <4>1. CASE m.type = "say"
        <5>1. Hit(t, T, m, "say") \in {0, 1}
          BY DEF Hit
        <5> QED
          BY <1>4, <2>1, <4>1, <5>1
      <4>2. CASE m.type # "say"
        <5>1. Hit(t, T, m, "say") = 0
          BY <4>2 DEF Hit
        <5> QED
          BY <1>4, <2>1, <5>1
      <4> QED
        BY <4>1, <4>2
    <3>2. Hit(t, T, m, "leave") = 1 => t = u /\ r.type = "say"
      BY <1>4 DEF Hit
    <3> QED
      BY <1>4, <3>1, <3>2, ReadFrugal
  <2> QED
    BY <1>4, <2>1, <2>2, <2>3, FrugalTurn
<1>5. \A s, t \in Servers : GoodSubs(subs[s][t])
  BY DEF ServerOK, LoopOK, GoodSubsOf, GoodSubs
<1>6. ASSUME NEW a, GoodSubs(a), NEW ch \in ChannelNames
      PROVE  /\ Owing(a) \in Nat
             /\ Owing(DropLast(a)) \in Nat /\ Owing(DropLast(a)) <= Owing(a) + 1
             /\ Owing(Resubscribe(a, ch)) \in Nat /\ Owing(Resubscribe(a, ch)) <= Owing(a)
  BY <1>6, OwingChanges
<1>7. ASSUME NEW s \in Servers, NEW u \in Servers, NEW ch \in ChannelNames, HearsJoin(s, u, ch)
      PROVE  Covered'
  <2> DEFINE before == subs[s][u]
             after == Resubscribe(before, ch)
             sb == [subs[s] EXCEPT ![u] = after]
             told == [NoneTold EXCEPT ![u] = {ch}]
  <2>1. PICK T \in SUBSET Servers : Turn(s, Rest(s, u), sb, told, T, Join(ch))
    BY <1>7 DEF HearsJoin
  <2>2. /\ Waits(s, u, Join(ch)) /\ UNCHANGED log
        /\ Join(ch) \in Message /\ Join(ch).type = "join"
    BY <1>7, MessageTypes DEF Join, HearsJoin
  <2>3. \A t \in Servers : sb[t] = IF t = u THEN after ELSE subs[s][t]
    BY DEF ServerOK, LoopOK
  <2>4. GoodSubs(before)
    BY <1>5
  <2> HIDE DEF before
  <2>5. Owing(before) \in Nat /\ Owing(after) \in Nat /\ Owing(after) <= Owing(before)
    BY <1>6, <2>4
  <2> HIDE DEF after, sb, told
  <2>6. ASSUME NEW t \in Neighbours[s]
        PROVE  /\ Owing(sb[t]) \in Nat
               /\ Owing(sb[t]) <= Owing(subs[s][t]) + (IF t = u /\ Join(ch).type = "leave" THEN 1 ELSE 0)
    <3>1. t \in Servers /\ Owing(subs[s][t]) \in Nat
      BY CoveredFacts
    <3>2. CASE t = u
      <4>1. sb[t] = after /\ subs[s][t] = before
        BY <2>3, <3>1, <3>2 DEF before
      <4> QED
        BY <2>2, <2>5, <4>1
    <3>3. CASE t # u
      <4>1. sb[t] = subs[s][t]
        BY <2>3, <3>1, <3>3
      <4> QED
        BY <3>1, <3>3, <4>1
    <3> QED
      BY <3>2, <3>3
  <2> QED
    BY <1>4, <2>1, <2>2, <2>6
<1>8. ASSUME NEW s \in Servers, NEW u \in Servers, NEW ch \in ChannelNames, HearsLeave(s, u, ch)
      PROVE  Covered'
  <2> DEFINE before == subs[s][u]
             after == DropLast(before)
             sb == [subs[s] EXCEPT ![u] = after]
  <2>1. Turn(s, Rest(s, u), sb, NoneTold, {}, Leave(ch))
    BY <1>8 DEF HearsLeave
  <2>2. /\ Waits(s, u, Leave(ch)) /\ UNCHANGED log
        /\ Leave(ch) \in Message /\ Leave(ch).type = "leave"
    BY <1>8, MessageTypes DEF Leave, HearsLeave
  <2>3. \A t \in Servers : sb[t] = IF t = u THEN after ELSE subs[s][t]
    BY DEF ServerOK, LoopOK
  <2>4. GoodSubs(before)
    BY <1>5
  <2> HIDE DEF before
  <2>5. Owing(before) \in Nat /\ Owing(after) \in Nat /\ Owing(after) <= Owing(before) + 1
    BY <1>6, <2>4
  <2> HIDE DEF after, sb
  <2>6. ASSUME NEW t \in Neighbours[s]
        PROVE  /\ Owing(sb[t]) \in Nat
               /\ Owing(sb[t]) <= Owing(subs[s][t]) + (IF t = u /\ Leave(ch).type = "leave" THEN 1 ELSE 0)
    <3>1. t \in Servers /\ Owing(subs[s][t]) \in Nat
      BY CoveredFacts
    <3>2. CASE t = u
      <4>1. sb[t] = after /\ subs[s][t] = before
        BY <2>3, <3>1, <3>2 DEF before
      <4> QED
        BY <2>2, <2>5, <3>2, <4>1
    <3>3. CASE t # u
      <4>1. sb[t] = subs[s][t]
        BY <2>3, <3>1, <3>3
      <4> QED
        BY <3>1, <3>3, <4>1
    <3> QED
      BY <3>2, <3>3
  <2> QED
    BY <1>4, <2>1, <2>2, <2>6
\* Those that hear a Say keep the subscriptions.
<1>9. ASSUME NEW s \in Servers, NEW u \in Servers, NEW ch \in ChannelNames, NEW id \in Ids,
             HearsAgain(s, u, ch, id) \/ HearsInVain(s, u, ch, id) \/ PassesOn(s, u, ch, id)
      PROVE  Covered'
  <2>1. /\ \/ Turn(s, Rest(s, u), subs[s], NoneTold, {u}, Leave(ch))
           \/ /\ \E e : TakesIn(s, e)
              /\ \E T : Turn(s, Rest(s, u), subs[s], NoneTold, T, Say(ch, id))
    BY <1>9 DEF HearsAgain, HearsInVain, PassesOn
  <2>2. Waits(s, u, Say(ch, id)) /\ (UNCHANGED log \/ \E e : TakesIn(s, e))
    BY <1>9 DEF HearsAgain, HearsInVain, PassesOn
  <2>3. /\ Say(ch, id) \in Message /\ Say(ch, id).type = "say"
        /\ Leave(ch) \in Message /\ Leave(ch).type = "leave"
    BY MessageTypes DEF Say, Leave
  <2>4. \A t \in Neighbours[s] :
          /\ Owing(subs[s][t]) \in Nat
          /\ Owing(subs[s][t]) <= Owing(subs[s][t]) + (IF t = u /\ Say(ch, id).type = "leave" THEN 1 ELSE 0)
    <3> SUFFICES ASSUME NEW t \in Neighbours[s]
                 PROVE  /\ Owing(subs[s][t]) \in Nat
                        /\ Owing(subs[s][t]) <= Owing(subs[s][t]) + (IF t = u /\ Say(ch, id).type = "leave" THEN 1 ELSE 0)
      OBVIOUS
    <3>1. Owing(subs[s][t]) \in Nat
      BY CoveredFacts
    <3> QED
      BY <3>1
  <2>5. CASE Turn(s, Rest(s, u), subs[s], NoneTold, {u}, Leave(ch))
    BY <1>4, <2>2, <2>3, <2>4, <2>5
  <2>6. ASSUME NEW T, Turn(s, Rest(s, u), subs[s], NoneTold, T, Say(ch, id)), \E e : TakesIn(s, e)
        PROVE  Covered'
    BY <1>4, <2>2, <2>3, <2>4, <2>6
  <2> QED
    BY <2>1, <2>5, <2>6
<1> QED
  BY <1>1, <1>2, <1>3, <1>7, <1>8, <1>9 DEF StillForm

--------------------------------------------------------------------------------
(* What a server reads it can deal with *)

\* Every Say under way is on a channel that its reader has, and every Leave comes from a
\* neighbour.
Expected ==
  \A p, q \in Servers : \A m \in Range(net[p][q]) :
    /\ m.type = "say" => m.chan \in Hosted(q)
    /\ m.type = "leave" => q \in Neighbours[p]

\* No server gives up a channel.
HostsOn == \A q \in Servers : Hosted(q) \subseteq Hosted(q)'

\* Message m is what q expects from s.
Suits(s, q, m) ==
  /\ m.type = "say" => m.chan \in Hosted(q)
  /\ m.type = "leave" => q \in Neighbours[s]

\* An iteration that sends what suits those it is sent to.
LEMMA TurnExpected ==
  ASSUME ServerOK, Expected, HostsOn, NEW s \in Servers, NEW nw, Reduced(nw),
         NEW sb, NEW told, NEW T, NEW m \in Message, Turn(s, nw, sb, told, T, m),
         \A q \in Servers : q \in T => Suits(s, q, m)
  PROVE  Expected'
<1> SUFFICES ASSUME NEW p \in Servers, NEW q \in Servers, NEW x \in Range(net'[p][q])
             PROVE  /\ x.type = "say" => x.chan \in Hosted(q)'
                    /\ x.type = "leave" => q \in Neighbours[p]
  BY DEF Expected
<1> DEFINE M == IF p = s /\ q \in T THEN {m} ELSE {}
<1>1. Flow(net[p][q], net'[p][q], M)
  BY ONLY TurnFlows, Reduced(nw), Turn(s, nw, sb, told, T, m), s \in Servers, m \in Message,
          p \in Servers, q \in Servers
<1>2. net[p][q] \in Seq(Message)
  BY DEF ServerOK, LoopOK, Outgoing
<1>3. M \in SUBSET Message
  OBVIOUS
<1>4. Range(net'[p][q]) \subseteq Range(net[p][q]) \cup M
  <2> DEFINE a == net[p][q]
             b == net'[p][q]
  <2>1. a \in Seq(Message) /\ Flow(a, b, M)
    BY <1>1, <1>2
  <2> HIDE DEF a, b, M
  <2>2. Range(b) \subseteq Range(a) \cup M
    BY ONLY <1>3, <2>1, FlowSays
  <2> QED
    BY <2>2 DEF a, b
<1>5. CASE x \in Range(net[p][q])
  BY <1>5 DEF Expected, HostsOn
<1>6. CASE x \in M
  <2>1. x = m /\ p = s /\ q \in T
    BY <1>6
  <2>2. Suits(s, q, m)
    BY <2>1
  <2> QED
    BY <2>1, <2>2 DEF Suits, HostsOn
<1> QED
  BY <1>4, <1>5, <1>6

\* Every step while no time passes and everybody is up.
LEMMA StillExpected ==
  ASSUME "duplication" \notin Faults, ServerOK, SaysTraced, NobodyDies, Owned, Expected, HostsOn,
         StillForm
  PROVE  Expected'
<1>1. CASE Elsewhere
  <2> SUFFICES ASSUME NEW p \in Servers, NEW q \in Servers, NEW x \in Range(net'[p][q])
               PROVE  /\ x.type = "say" => x.chan \in Hosted(q)'
                      /\ x.type = "leave" => q \in Neighbours[p]
    BY DEF Expected
  <2> DEFINE a == net[p][q]
             b == net'[p][q]
  <2>1. a \in Seq(Message) /\ Rearranged(a, b, 0) /\ 0 \in 0 .. Len(a)
    <3>1. a \in Seq(Message)
      BY DEF ServerOK, LoopOK, Outgoing
    <3>2. Rearranged(a, b, 0)
      BY <1>1, ElsewhereLinks
    <3> QED
      BY <3>1, <3>2
  <2> HIDE DEF a, b
  <2>2. Range(b) \subseteq Range(a)
    BY <2>1, RearrangedSays
  <2> QED
    BY <2>2 DEF a, b, Expected, HostsOn
<1>2. ASSUME NEW s \in Servers, NEW nw, Reduced(nw), NEW sb, NEW told, NEW T, NEW ch \in ChannelNames,
             Turn(s, nw, sb, told, T, Join(ch))
      PROVE  Expected'
  <2>1. Join(ch) \in Message /\ \A q \in Servers : Suits(s, q, Join(ch))
    BY MessageTypes DEF Suits, Join
  <2> QED
    BY <1>2, <2>1, TurnExpected
<1>3. ASSUME NEW s \in Servers, NEW nw, Reduced(nw), NEW sb, NEW told, NEW T, NEW ch \in ChannelNames,
             \A q \in Servers : q \in T => q \in Neighbours[s],
             Turn(s, nw, sb, told, T, Leave(ch))
      PROVE  Expected'
  <2>1. Leave(ch) \in Message /\ \A q \in Servers : q \in T => Suits(s, q, Leave(ch))
    BY <1>3, MessageTypes DEF Suits, Leave
  <2> QED
    BY <1>3, <2>1, TurnExpected
<1>4. ASSUME NEW s \in Servers, NEW nw, Reduced(nw), NEW told, NEW T, NEW ch \in ChannelNames,
             NEW id \in Ids, T \subseteq SubscribersIn(subs[s], s, ch),
             Turn(s, nw, subs[s], told, T, Say(ch, id))
      PROVE  Expected'
  <2>1. Say(ch, id) \in Message /\ Say(ch, id).type = "say" /\ Say(ch, id).chan = ch
    BY MessageTypes DEF Say
  <2>2. ASSUME NEW q \in Servers, q \in T PROVE ch \in Hosted(q)
    <3>1. has_channel_server(subs[s][q], ch) /\ subs[s][q] \in CountedArrays(Subscription)
      BY <1>4, <2>2 DEF SubscribersIn, ServerOK, LoopOK
    <3>2. ch \in Subscribed(subs[s][q])
      BY <3>1, NoSubscription
    <3>3. alive[s] /\ alive[q]
      BY DEF NobodyDies
    <3> QED
      BY <3>2, <3>3 DEF Owned
  <2>3. \A q \in Servers : q \in T => Suits(s, q, Say(ch, id))
    BY <2>1, <2>2 DEF Suits
  <2> QED
    BY <1>4, <2>1, <2>3, TurnExpected
<1>5. Reduced(net)
  BY NetReduced
<1>6. CASE \E s \in Servers : Asked(s)
  BY <1>2, <1>5, <1>6 DEF Asked
<1>7. CASE \E s \in Servers, ch \in ChannelNames, id \in Ids : Speaks(s, ch, id)
  BY <1>4, <1>5, <1>7 DEF Speaks
<1>8. ASSUME NEW s \in Servers, NEW t \in Servers, NEW ch \in ChannelNames, HearsJoin(s, t, ch)
      PROVE  Expected'
  BY <1>2, <1>8, RestFlows DEF HearsJoin
<1>9. ASSUME NEW s \in Servers, NEW t \in Servers, NEW ch \in ChannelNames, HearsLeave(s, t, ch)
      PROVE  Expected'
  <2>1. Reduced(Rest(s, t))
    BY <1>9, RestFlows DEF HearsLeave
  <2> QED
    BY <1>3, <1>9, <2>1 DEF HearsLeave
<1>10. ASSUME NEW s \in Servers, NEW t \in Servers, NEW ch \in ChannelNames, NEW id \in Ids,
              HearsAgain(s, t, ch, id) \/ HearsInVain(s, t, ch, id) \/ PassesOn(s, t, ch, id)
       PROVE  Expected'
  <2>1. Waits(s, t, Say(ch, id))
    BY <1>10 DEF HearsAgain, HearsInVain, PassesOn
  <2>2. Reduced(Rest(s, t)) /\ Say(ch, id) \in Range(net[t][s]) /\ Say(ch, id).type = "say"
    BY <2>1, RestFlows, RestLinks DEF Say
  <2>3. s \in Neighbours[t]
    BY <2>2 DEF SaysTraced
  <2>4. t \in Neighbours[s]
    BY <2>3, ChatServerAssumption
  <2>5. \/ Turn(s, Rest(s, t), subs[s], NoneTold, {t}, Leave(ch))
        \/ Turn(s, Rest(s, t), subs[s], NoneTold, ForwardTo(subs[s], s, t, ch), Say(ch, id))
    BY <1>10 DEF HearsAgain, HearsInVain, PassesOn
  <2>6. CASE Turn(s, Rest(s, t), subs[s], NoneTold, {t}, Leave(ch))
    BY <1>3, <2>2, <2>4, <2>6
  <2>7. CASE Turn(s, Rest(s, t), subs[s], NoneTold, ForwardTo(subs[s], s, t, ch), Say(ch, id))
    <3>1. ForwardTo(subs[s], s, t, ch) \subseteq SubscribersIn(subs[s], s, ch)
      BY DEF ForwardTo
    <3> QED
      BY <1>4, <2>2, <2>7, <3>1
  <2> QED
    BY <2>5, <2>6, <2>7
<1> QED
  BY <1>1, <1>6, <1>7, <1>8, <1>9, <1>10 DEF StillForm

\* While everybody is up, no server gives up a channel, and who is subscribed has it.
LEMMA StillOwned ==
  ASSUME "leave" \notin Commands, Timing = "still", "duplication" \notin Faults,
         ServerOK, SessOK, ServerOK', NamesDistinct, NobodyDies, UNCHANGED alive, Owned, [Next]_vars
  PROVE  Owned' /\ HostsOn
<1>1. \A s \in Servers : ~Dies(s)
  BY DEF NobodyDies, Dies, ServerOK, LoopOK
<1>2. ~TimePasses
  BY DEF TimePasses
<1>3. StepForm
  BY NextForm
<1>4. ASSUME Elsewhere PROVE Owned' /\ HostsOn
  <2>1. /\ UNCHANGED <<chans, subs>>
        /\ \A p, q \in Servers : Rearranged(net[p][q], net'[p][q], 0)
    BY <1>4, ElsewhereLinks
  <2>2. ASSUME NEW p \in Servers, NEW q \in Servers PROVE Range(net'[p][q]) \subseteq Range(net[p][q])
    <3> DEFINE a == net[p][q]
               b == net'[p][q]
    <3>1. a \in Seq(Message) /\ Rearranged(a, b, 0)
      BY <2>1 DEF ServerOK, LoopOK, Outgoing
    <3> HIDE DEF a, b
    <3>2. 0 \in 0 .. Len(a)
      BY <3>1
    <3>3. Range(b) \subseteq Range(a)
      BY <3>1, <3>2, RearrangedSays
    <3> QED
      BY <3>3 DEF a, b
  <2>3. \A p \in Servers : Hosted(p)' = Hosted(p)
    BY <2>1 DEF Hosted
  <2>4. Owned'
    <3> SUFFICES ASSUME NEW s \in Servers, NEW t \in Servers, alive'[s], alive'[t],
                        NEW ch \in ChannelNames,
                        Join(ch) \in Range(net'[t][s]) \/ ch \in Subscribed(subs'[s][t])
                 PROVE  ch \in Hosted(t)' /\ s \in Neighbours[t]
      BY DEF Owned, InFlight, Join
    <3>1. Join(ch) \in Range(net[t][s]) \/ ch \in Subscribed(subs[s][t])
      BY <2>1, <2>2
    <3> QED
      BY <2>3, <3>1 DEF Owned, InFlight
  <2> QED
    BY <2>3, <2>4 DEF HostsOn
<1>5. ASSUME NEW s \in Servers, Iteration(s) PROVE Owned' /\ HostsOn
  <2>1. Owned'
    BY <1>5, IterationOwned
  <2>2. PICK nw, sb, told : Ends(s, nw, sb, told)
    BY <1>5, IterationParts
  <2>3. PICK cs, out : Does(s, cs, out) /\ Record(s, nw, cs, sb, told, out)
    <3>1. \A out : ~DiesSending(s, nw, out)
      BY DEF NobodyDies, DiesSending, ServerOK, LoopOK
    <3> QED
      BY <2>2, <3>1 DEF Ends
  <2>4. chans'[s] = cs /\ \A p \in Servers : p # s => chans'[p] = chans[p]
    BY <2>3, Recorded
  <2>5. Names(chans[s]) \subseteq Names(cs)
    BY <2>3, HostedGrows DEF ServerOK
  <2>6. \A p \in Servers : Hosted(p) = Names(chans[p]) /\ Hosted(p)' = Names(chans'[p])
    <3>1. \A p \in Servers : DOMAIN chans'[p] = 1 .. Len(chans'[p])
      BY DEF ServerOK, LoopOK
    <3> QED
      BY <3>1, HostedNames DEF ServerOK, Hosted, Names
  <2> QED
    BY <2>1, <2>4, <2>5, <2>6 DEF HostsOn
<1> QED
  BY <1>1, <1>2, <1>3, <1>4, <1>5 DEF StepForm, Elsewhere

\* The clients that speak are in the channel they speak on.
ActiveIn ==
  \A c \in Clients : sess[c].active \in Range(sess[c].joined) /\ sess[c].phase # "out"

\* What users type without a leave or a logout.
LEMMA StaysActive ==
  ASSUME "leave" \notin Commands, "logout" \notin Commands, SessOK, ActiveIn, [Next]_vars
  PROVE  ActiveIn'
<1>1. CASE UNCHANGED sess
  BY <1>1 DEF ActiveIn
<1>2. ASSUME NEW c \in Clients, ClientStep(c) PROVE ActiveIn'
  <2>1. /\ sess \in [Clients -> Session]
        /\ sess[c].joined \in Seq(ChannelNames)
    BY DEF SessOK, Session
  <2>2. ASSUME NEW r, sess' = [sess EXCEPT ![c] = r], r.active \in Range(r.joined), r.phase # "out"
        PROVE  ActiveIn'
    <3>1. \A d \in Clients : sess'[d] = IF d = c THEN r ELSE sess[d]
      BY <2>1, <2>2
    <3> HIDE DEF ActiveIn
    <3>2. \A d \in Clients : sess'[d].active \in Range(sess'[d].joined) /\ sess'[d].phase # "out"
      BY <2>2, <3>1 DEF ActiveIn
    <3> QED
      BY <3>2 DEF ActiveIn
  <2>3. sess[c].active \in Range(sess[c].joined) /\ sess[c].phase # "out" /\ sess[c] \in Session
    BY <2>1 DEF ActiveIn
  <2>4. ASSUME NEW ph \in {"login", "on"}, sess' = [sess EXCEPT ![c].phase = ph] PROVE ActiveIn'
    <3> DEFINE r == [sess[c] EXCEPT !.phase = ph]
    <3>1. r.active = sess[c].active /\ r.joined = sess[c].joined /\ r.phase = ph
      BY <2>3 DEF Session
    <3>2. sess' = [sess EXCEPT ![c] = r]
      BY <2>4
    <3> HIDE DEF r
    <3> QED
      BY <2>2, <2>3, <3>1, <3>2
  <2>5. ASSUME sess' = [sess EXCEPT ![c].typed = Typed(c)] PROVE ActiveIn'
    <3> DEFINE r == [sess[c] EXCEPT !.typed = Typed(c)]
    <3>1. r.active = sess[c].active /\ r.joined = sess[c].joined /\ r.phase = sess[c].phase
      BY <2>3 DEF Session
    <3>2. sess' = [sess EXCEPT ![c] = r]
      BY <2>5
    <3> HIDE DEF r
    <3> QED
      BY <2>2, <2>3, <3>1, <3>2
  <2>6. ASSUME NEW ch \in ChannelNames, JoinCommand(c, ch) PROVE ActiveIn'
    <3> DEFINE js == Append(sess[c].joined, ch)
               r == [sess[c] EXCEPT !.joined = js, !.active = ch, !.typed = Typed(c)]
    <3>1. ch \in Range(js)
      BY <2>1, Appended
    <3>2. r.active = ch /\ r.joined = js /\ r.phase = sess[c].phase
      BY <2>3 DEF Session
    <3>3. sess' = [sess EXCEPT ![c] = r]
      BY <2>1, <2>6 DEF JoinCommand
    <3> HIDE DEF r, js
    <3> QED
      BY <2>2, <2>3, <3>1, <3>2, <3>3
  <2>7. ASSUME NEW ch \in ChannelNames, SwitchCommand(c, ch) PROVE ActiveIn'
    <3> DEFINE r == [sess[c] EXCEPT !.active = ch, !.typed = Typed(c)]
    <3>1. r.active = ch /\ r.joined = sess[c].joined /\ r.phase = sess[c].phase
      BY <2>3 DEF Session
    <3>2. sess' = [sess EXCEPT ![c] = r] /\ ch \in Range(sess[c].joined)
      BY <2>1, <2>7 DEF SwitchCommand
    <3> HIDE DEF r
    <3> QED
      BY <2>2, <2>3, <3>1, <3>2
  <2>8. \A ch : ~LeaveCommand(c, ch) /\ ~LogoutCommand(c)
    BY DEF LeaveCommand, LogoutCommand, Types
  <2>9. \/ \E ph \in {"login", "on"} : sess' = [sess EXCEPT ![c].phase = ph]
        \/ sess' = [sess EXCEPT ![c].typed = Typed(c)]
        \/ \E ch \in ChannelNames : JoinCommand(c, ch) \/ SwitchCommand(c, ch)
    BY <1>2, <2>8 DEF ClientStep, Login, JoinCommon, SayCommand, WhoCommand, ListCommand
  <2> QED
    BY <2>4, <2>5, <2>6, <2>7, <2>9
<1>3. UNCHANGED sess \/ \E c \in Clients : ClientStep(c)
  BY DEF Next, vars, ServerReceive, ServerIdle, ServerKilled, DatagramLost, DatagramDuplicated,
         DatagramOvertaken, Fault, TimePasses
<1> QED
  BY <1>1, <1>2, <1>3

--------------------------------------------------------------------------------
(* No handler kills its server *)

\* No user leaves a channel or logs out, no two share a name; of all faults datagrams are lost
\* or overtaken, no time passes, and at most three Says are said, which recent_ids has room for.
Calm ==
  /\ OwnNames /\ ~Rejoin /\ FreshIds
  /\ Commands \subseteq {"join", "switch", "say", "who", "list"}
  /\ Faults \subseteq {"loss", "overtaking"}
  /\ Timing = "still"
  /\ IsFiniteSet(Ids) /\ Cardinality(Ids) <= 3 /\ Cardinality(Ids) <= MaxIds

\* An iteration survives its end if no renewal is due.
LEMMA RunsOn ==
  ASSUME ServerOK, Young, NEW s \in Servers, NEW cs, GoodChannels(cs), SameClocks(chans[s], cs),
         NEW nw, NEW sb, NEW told, NEW out,
         Record(s, nw, cs, sb, told, out) \/ Resub(s, nw, cs, sb, told, out)
  PROVE  UNCHANGED alive
<1>1. \A k \in 1 .. Len(cs) : cs[k].tm = 0
  BY DEF SameClocks, Young
<1>2. Due(cs) = {} /\ Cardinality(Due(cs)) = 0
  BY <1>1, NothingRenewed, FS_EmptySet
<1>3. \A order \in RenewalOrder(cs) : DOMAIN order = {}
  BY <1>2 DEF RenewalOrder
<1>4. CASE Record(s, nw, cs, sb, told, out)
  BY <1>4 DEF Record
<1>5. CASE Resub(s, nw, cs, sb, told, out)
  BY <1>3, <1>5 DEF Resub, Record
<1> QED
  BY <1>4, <1>5

\* With the channels as they are.
LEMMA RunsOnAsIs ==
  ASSUME ServerOK, Young, NEW s \in Servers, NEW nw, NEW sb, NEW told, NEW out,
         Record(s, nw, chans[s], sb, told, out) \/ Resub(s, nw, chans[s], sb, told, out)
  PROVE  UNCHANGED alive
<1>1. GoodChannels(chans[s]) /\ SameClocks(chans[s], chans[s])
  BY SameChannels DEF ServerOK
<1> QED
  BY <1>1, RunsOn

\* LOGIN: there is no NULL among the users of the first channel.
LEMMA LoginSurvives ==
  ASSUME OwnNames, Booked, Young, ActiveIn, NEW c \in Clients, sess[c].phase = "off",
         alive[Home[c]], LoginRequest(Home[c], c)
  PROVE  UNCHANGED alive
<1> DEFINE s == Home[c]
           cs == chans[s]
<1>1. s \in Servers /\ ServerOK /\ Members
  BY ChatSystemAssumption DEF Booked
<1>2. GoodChannels(cs) /\ freed[s] \in SUBSET Clients /\ cs \in Seq(Channel) /\ Len(cs) \in Nat
  BY <1>1 DEF ServerOK, LoopOK, UsersOK
<1>3. Accounts(s, cs, all_users[s], freed[s], sess)
  BY <1>1 DEF Members
<1>4. freed[s] = {}
  BY <1>2, <1>3 DEF Accounts, Logins, ActiveIn
<1>5. LoginRequest(s, c)
  OBVIOUS
<1> DEFINE cs1 == IF cs = <<>> THEN cs ELSE [cs EXCEPT ![1].users = LoginCommon(@, c, {})]
<1>6. \/ cs # <<>> /\ RemoveCrashes(Store(cs[1].users, c), Username[c], {})
      \/ Resub(s, net, cs1, SweptSubs(s), NoneTold, Nothing)
  BY <1>4, <1>5 DEF LoginRequest
<1> HIDE DEF cs
<1>7. SameUsers(cs, cs1) /\ GoodChannels(cs1)
  <2>1. Null \in freed[s] \cup {Null} /\ freed[s] \ {Null} = {}
    BY <1>4
  <2> DEFINE cs0 == IF Null = Null THEN cs ELSE Reused(cs, Null, c)
             cs2 == IF cs0 = <<>> THEN cs0
                    ELSE [cs0 EXCEPT ![1].users = LoginCommon(@, c, freed[s] \ {Null})]
  <2>2. SameUsers(cs, cs2) /\ GoodChannels(cs2)
    BY ONLY <1>2, <1>3, <2>1, LoginChannels, OwnNames, c \in Clients, sess[c].phase = "off"
  <2> QED
    BY <2>1, <2>2
<1>8. SameClocks(cs, cs1)
  <2>1. CASE cs = <<>>
    BY <1>2, <2>1 DEF SameClocks
  <2>2. CASE cs # <<>>
    <3> DEFINE us == LoginCommon(cs[1].users, c, {})
    <3>1. 1 \in 1 .. Len(cs)
      BY <1>2, <2>2
    <3>2. cs1 = [cs EXCEPT ![1].users = us]
      BY <2>2
    <3> HIDE DEF us, cs1
    <3>3. SameClocks(cs, [cs EXCEPT ![1].users = us])
      BY <1>2, <3>1, SetUsersClocks
    <3> QED
      BY <3>2, <3>3
  <2> QED
    BY <2>1, <2>2
<1>9. ASSUME cs # <<>> PROVE ~RemoveCrashes(Store(cs[1].users, c), Username[c], {})
  <2> DEFINE us == cs[1].users
  <2>1. 1 \in 1 .. Len(cs)
    BY <1>2, <1>9
  <2>2. us.items \in Seq(Clients) /\ us = [items |-> us.items, debt |-> us.debt]
    BY <1>3, <2>1, ListedAreIn DEF ProperList, GoodUsers, CountedArrays
  <2> HIDE DEF us
  <2>3. Store(us, c).items = us.items \/ Store(us, c).items = Append(us.items, c)
    BY <2>2 DEF Store
  <2>4. Store(us, c).items \in Seq(Clients)
    BY <2>2, <2>3
  <2>5. \A k \in DOMAIN Store(us, c).items : Store(us, c).items[k] # Null
    BY <2>4, ChannelsAssumption
  <2> QED
    BY <2>5 DEF RemoveCrashes, us
<1>10. Resub(s, net, cs1, SweptSubs(s), NoneTold, Nothing)
  BY <1>6, <1>9
<1> HIDE DEF s, cs1
<1> QED
  BY <1>1, <1>7, <1>8, <1>10, RunsOn DEF cs

\* WHO: nobody in the channel is NULL, and the answer has room for all.
LEMMA WhoSurvives ==
  ASSUME Booked, Young, NEW s \in Servers, alive[s], NEW ch \in ChannelNames, WhoRequest(s, ch)
  PROVE  UNCHANGED alive
<1>1. ServerOK /\ WhoFits /\ chans[s] \in Seq(Channel)
      /\ all_users[s].items \in Seq(Clients)
  BY BookedFits DEF Booked, ServerOK, LoopOK, UsersOK, GoodChannels, CountedArrays
<1>2. Count(all_users[s]) \in Nat
  <2>1. all_users[s].debt = 0
    BY DEF Booked, Members, Accounts, Logins
  <2> QED
    BY <1>1, <2>1 DEF Count
<1>3. UsersOf(s, ch).items \in Seq(Clients)
  BY UsersReceive DEF Receivers
<1>4. ~WhoCrashes(s, ch)
  BY <1>2, <1>3, ChannelsAssumption DEF WhoCrashes
<1>5. ~WhoMayCrash(s, ch)
  <2> SUFFICES ASSUME HasChannel(chans[s], ch)
               PROVE  ~(Len(UsersOf(s, ch).items) > Count(all_users[s]))
    BY DEF WhoMayCrash
  <2>1. find_channel(chans[s], ch) \in DOMAIN chans[s]
    BY <1>1, FoundOnce DEF Booked, NamesDistinct, ServerOK, LoopOK
  <2>2. Len(UsersOf(s, ch).items) <= Count(all_users[s])
    BY <1>1, <2>1 DEF UsersOf, WhoFits
  <2>3. Len(UsersOf(s, ch).items) \in Nat
    BY <1>3
  <2> QED
    BY <1>2, <2>2, <2>3
<1> QED
  BY <1>1, <1>4, <1>5, RunsOnAsIs DEF WhoRequest

\* SAY: the channel has its sender.
LEMMA SaySurvives ==
  ASSUME "logout" \notin Commands, Booked, Young, ActiveIn, NEW c \in Clients, sess[c].phase = "on",
         alive[Home[c]], NEW id \in Ids, SayRequest(Home[c], c, sess[c].active, id)
  PROVE  UNCHANGED alive
<1> DEFINE s == Home[c]
           cs == chans[s]
           ch == sess[c].active
           f == find_channel(cs, ch)
<1>1. s \in Servers /\ ServerOK /\ Members
  BY ChatSystemAssumption DEF Booked
<1>2. Accounts(s, cs, all_users[s], freed[s], sess)
  BY <1>1 DEF Members
<1>3. GoodChannels(cs) /\ DistinctNames(cs) /\ ch \in ChannelNames
  BY <1>1, SessionPlace DEF Booked, NamesDistinct, ServerOK, LoopOK
<1>4. PICK i \in 1 .. Len(cs) : cs[i].name = ch /\ c \in Range(cs[i].users.items)
  BY <1>2 DEF Accounts, NobodyOut, EveryoneIn, ActiveIn
<1>5. i = f /\ f # 0
  <2>1. f \in 0 .. Len(cs) /\ \A j \in 1 .. Len(cs) : cs[j].name = ch <=> j = f
    BY <1>3, FoundOnce
  <2>2. i = f
    BY <1>4, <2>1
  <2>3. Len(cs) \in Nat
    BY <1>3 DEF GoodChannels
  <2> QED
    BY <2>2, <2>3
<1>6. HasChannel(cs, ch) /\ UsersOf(s, ch) = cs[i].users
  BY <1>5 DEF HasChannel, UsersOf
<1>7. UsersOf(s, ch).items \in Seq(Clients)
  BY <1>1, <1>3, UsersReceive DEF Receivers
<1>8. SenderFound(UsersOf(s, ch), c)
  <2> DEFINE q == UsersOf(s, ch).items
  <2>1. q \in Seq(Clients) /\ c \in Range(q)
    BY <1>4, <1>6, <1>7
  <2> HIDE DEF q
  <2>2. PICK k \in DOMAIN q : q[k] = c
    BY <2>1 DEF Range
  <2>3. \A j \in 1 .. k - 1 : q[j] # Null
    BY <2>1, <2>2, ChannelsAssumption
  <2> QED
    BY <2>2, <2>3 DEF SenderFound, q
<1>9. LoggedIn(s, c)
  BY <1>2 DEF Accounts, Logins, Range, LoggedIn
<1>10. ~SayCrashes(s, c, ch)
  BY <1>6, <1>8, <1>9 DEF SayCrashes
<1>11. SayRequest(s, c, ch, id)
  OBVIOUS
<1> HIDE DEF s, ch
<1>12. PICK sb, out : Resub(s, net, chans[s], sb, NoneTold, out)
  BY <1>10, <1>11 DEF SayRequest
<1> QED
  BY <1>1, <1>12, RunsOnAsIs

\* A Leave of a neighbour: the count has not gone so far down.
LEMMA ServLeaveSurvives ==
  ASSUME ServerOK, Young, Covered, Expected, NEW s \in Servers, NEW t \in Servers,
         NEW ch \in ChannelNames, Len(log[s]) <= 3, Waits(s, t, Leave(ch)),
         ServLeave(s, t, Rest(s, t))
  PROVE  UNCHANGED alive
<1> DEFINE a == subs[s][t]
           l == Number(net[t][s], "leave")
           y == Number(net[s][t], "say")
           n == Len(log[s])
<1>1. Leave(ch) \in Range(net[t][s]) /\ Leave(ch).type = "leave"
      /\ Rest(s, t) \in [Servers -> Outgoing]
  BY RestLinks DEF Leave
<1>2. t \in Neighbours[s]
  <2>1. s \in Neighbours[t]
    BY <1>1 DEF Expected
  <2> QED
    BY <2>1, ChatServerAssumption
<1>3. GoodSubs(a)
  BY <1>2 DEF ServerOK, LoopOK, GoodSubsOf, GoodSubs
<1>4. n \in Nat
  <2>1. log[s] \in Seq(LogEntry)
    BY DEF ServerOK, LogOK
  <2> QED
    BY <2>1
<1>5. Owing(a) + l + y <= n
  BY <1>2 DEF Covered, Charge
<1>6. l \in Nat /\ y \in Nat /\ l >= 1
  <2>1. net[t][s] \in Seq(Message) /\ net[s][t] \in Seq(Message) /\ Rest(s, t)[t][s] \in Seq(Message)
    BY <1>1 DEF ServerOK, LoopOK, Outgoing
  <2>2. Number(Rest(s, t)[t][s], "leave") + 1 <= l
    BY <1>1, RestNumbers
  <2>3. Number(Rest(s, t)[t][s], "leave") \in Nat /\ l \in Nat /\ y \in Nat
    BY <2>1, NumberType
  <2> DEFINE r == Number(Rest(s, t)[t][s], "leave")
  <2> HIDE DEF r, l, y
  <2> QED
    BY <2>2, <2>3 DEF r
<1> HIDE DEF l, y, n, a
<1>7. Owing(a) \in Nat
  BY <1>3, OwingChanges, ChannelsAssumption
<1>8. Owing(a) <= 2
  BY <1>4, <1>5, <1>6, <1>7 DEF n
<1>9. ~(a.debt >= 2)
  <2>1. a.debt \in Nat /\ (a.debt > 0 => a.items = <<>>)
    BY <1>3 DEF GoodSubs, CountedArrays, WellCounted
  <2>2. a.debt > 0 => Owing(a) = a.debt + 1
    BY <2>1 DEF Owing
  <2> QED
    BY <1>7, <1>8, <2>1, <2>2
<1>10. ~RemoveAdjCrashes(SweptSubs(s)[t])
  BY <1>9, NothingSwept DEF RemoveAdjCrashes, a
<1>11. PICK sb : Resub(s, Rest(s, t), chans[s], sb, NoneTold, Nothing)
  BY <1>10 DEF ServLeave
<1> QED
  BY <1>11, RunsOnAsIs

\* A Say: the channel is there, and recent_ids has room.
LEMMA ServSaySurvives ==
  ASSUME ServerOK, Young, Expected, NEW s \in Servers, NEW t \in Servers,
         NEW ch \in ChannelNames, NEW id \in Ids, ~OverRuns(s), Waits(s, t, Say(ch, id)),
         ServSay(s, t, Rest(s, t), ch, id)
  PROVE  UNCHANGED alive
<1>1. Say(ch, id) \in Range(net[t][s]) /\ Say(ch, id).type = "say" /\ Say(ch, id).chan = ch
  BY RestLinks DEF Say
<1>2. ch \in Hosted(s)
  BY <1>1 DEF Expected
<1>3. HasChannel(chans[s], ch)
  BY <1>2, HostedNames, NoChannel DEF ServerOK, LoopOK
<1>4. PICK out : Resub(s, Rest(s, t), chans[s], SweptSubs(s), NoneTold, out)
  BY <1>3 DEF ServSay
<1> QED
  BY <1>4, RunsOnAsIs

\* A datagram of a neighbour.
LEMMA ReceiveSurvives ==
  ASSUME ServerOK, Young, Covered, Expected, NEW s \in Servers, NEW t \in Servers,
         Len(log[s]) <= 3, ~OverRuns(s), Receive(s, t)
  PROVE  UNCHANGED alive
<1> DEFINE m == Head(net[t][s])
<1>1. m \in Message /\ net[t][s] # <<>>
  BY ReadTypes DEF Receive
<1>2. /\ m.chan \in ChannelNames
      /\ m.type = "join" => m = Join(m.chan)
      /\ m.type = "leave" => m = Leave(m.chan)
      /\ m.type = "say" => m.id \in Ids /\ m = Say(m.chan, m.id)
  BY <1>1 DEF Message, Join, Leave, Say
<1>3. /\ alive[s]
      /\ \/ m.type = "join" /\ ServJoin(s, t, Rest(s, t), m.chan)
         \/ m.type = "leave" /\ ServLeave(s, t, Rest(s, t))
         \/ m.type = "say" /\ ServSay(s, t, Rest(s, t), m.chan, m.id)
  BY DEF Receive, Rest
<1>4. \A x : x = m => Waits(s, t, x)
  BY <1>1 DEF Waits
<1> HIDE DEF m
<1>5. CASE m.type = "join" /\ ServJoin(s, t, Rest(s, t), m.chan)
  <2>1. HearsJoin(s, t, m.chan)
    BY <1>2, <1>3, <1>4, <1>5, ServJoinStill
  <2> DEFINE sb == [subs[s] EXCEPT ![t] = Resubscribe(@, m.chan)]
             told == [NoneTold EXCEPT ![t] = {m.chan}]
  <2>2. PICK T : Turn(s, Rest(s, t), sb, told, T, Join(m.chan))
    BY <2>1 DEF HearsJoin
  <2> HIDE DEF sb, told
  <2> QED
    BY <2>2, TurnTables
<1>6. CASE m.type = "leave" /\ ServLeave(s, t, Rest(s, t))
  BY <1>2, <1>4, <1>6, ServLeaveSurvives
<1>7. CASE m.type = "say" /\ ServSay(s, t, Rest(s, t), m.chan, m.id)
  BY <1>2, <1>4, <1>7, ServSaySurvives
<1> QED
  BY ONLY <1>3, <1>5, <1>6, <1>7

\* Every step.
LEMMA NextSurvives ==
  ASSUME Calm, Booked, Young, ActiveIn, NobodyDies, Covered, Expected,
         \A s \in Servers : Len(log[s]) <= 3 /\ ~OverRuns(s), [Next]_vars
  PROVE  UNCHANGED alive
<1>1. ServerOK /\ SessOK
  BY DEF Booked
<1>2. ASSUME NEW c \in Clients, ClientStep(c) PROVE UNCHANGED alive
  <2> DEFINE s == Home[c]
  <2>1. s \in Servers /\ alive[s] /\ Common \in ChannelNames
    BY <1>1, SessionPlace DEF NobodyDies
  <2>2. \/ UNCHANGED serverVars
        \/ sess[c].phase = "off" /\ LoginRequest(s, c)
        \/ ListRequest(s)
        \/ \E ch \in ChannelNames : JoinRequest(s, c, ch) \/ WhoRequest(s, ch)
        \/ \E id \in Ids : sess[c].phase = "on" /\ SayRequest(s, c, sess[c].active, id)
    BY <1>2, <2>1 DEF ClientStep, Login, JoinCommon, JoinCommand, LeaveCommand, SwitchCommand,
         SayCommand, WhoCommand, ListCommand, LogoutCommand, Handled, LostRequest, Types, Calm
  <2>3. CASE UNCHANGED serverVars
    BY <2>3 DEF serverVars
  <2>4. CASE sess[c].phase = "off" /\ LoginRequest(s, c)
    BY <2>1, <2>4, LoginSurvives DEF Calm
  <2>5. CASE ListRequest(s)
    BY <1>1, <2>1, <2>5, RunsOnAsIs DEF ListRequest
  <2>6. ASSUME NEW ch \in ChannelNames, JoinRequest(s, c, ch) PROVE UNCHANGED alive
    <3> DEFINE T == Neighbours[s]
               sb == SweptSubs(s)
    <3>1. Works(s, net, sb, NoneTold, ToEach(T, Join(ch)))
      BY <1>1, <2>1, <2>6, JoinIteration
    <3>2. net \in [Servers -> Outgoing] /\ Join(ch) \in Message
      BY <1>1, <2>1, RequestFacts, MessageTypes
    <3> HIDE DEF s, T, sb
    <3>3. Turn(s, net, sb, NoneTold, T, Join(ch))
      BY <1>1, <2>1, <3>1, <3>2, WorksTurn
    <3> QED
      BY <1>1, <2>1, <3>3, TurnTables
  <2>7. ASSUME NEW ch \in ChannelNames, WhoRequest(s, ch) PROVE UNCHANGED alive
    BY <2>1, <2>7, WhoSurvives
  <2>8. ASSUME NEW id \in Ids, sess[c].phase = "on", SayRequest(s, c, sess[c].active, id)
        PROVE  UNCHANGED alive
    BY <2>1, <2>8, SaySurvives DEF Calm
  <2> QED
    BY <2>2, <2>3, <2>4, <2>5, <2>6, <2>7, <2>8
<1>3. ASSUME NEW s \in Servers, NEW t \in Servers, ServerReceive(s, t) PROVE UNCHANGED alive
  BY <1>1, <1>3, ReceiveSurvives DEF ServerReceive
<1>4. ASSUME NEW s \in Servers, ServerIdle(s) PROVE UNCHANGED alive
  BY <1>1, <1>4, RunsOnAsIs DEF ServerIdle, Idle
<1>5. CASE \E s, t \in Servers : DatagramLost(s, t) \/ DatagramDuplicated(s, t) \/ DatagramOvertaken(s, t)
  BY <1>5 DEF DatagramLost, DatagramDuplicated, DatagramOvertaken, Lose, Duplicate, Overtake
<1>6. \A s \in Servers : ~ServerKilled(s)
  BY DEF ServerKilled, Fault, Calm
<1>7. ~TimePasses
  BY DEF TimePasses, Calm
<1>8. CASE UNCHANGED vars
  BY <1>8 DEF vars, serverVars
<1> QED
  BY <1>2, <1>3, <1>4, <1>5, <1>6, <1>7, <1>8 DEF Next

\* The invariant, with what is shown of the users and of the Says.
Peaceful ==
  /\ Booked /\ faults \in 0 .. MaxFaults /\ SaysTraced
  /\ \A s \in Servers : ShownApart(s)
  /\ NobodyDies /\ Young /\ ActiveIn /\ Owned /\ Covered /\ Expected

\* At the start everybody is up, has one channel and is subscribed to it.
LEMMA InitPeaceful == Init => Peaceful
<1> SUFFICES ASSUME Init PROVE Peaceful
  OBVIOUS
<1>1. Booked /\ faults \in 0 .. MaxFaults /\ SaysTraced /\ Young
  BY InitOK, InitDistinct, InitMembers, InitStill, TracedInvariant DEF Booked
<1>2. /\ alive = [s \in Servers |-> TRUE]
      /\ chans = [s \in Servers |-> <<create_channel(Common)>>]
      /\ subs = [s \in Servers |-> [t \in Servers |->
                  IF t \in Neighbours[s] THEN OneEntry([chan |-> Common, age |-> 0]) ELSE EmptyArray]]
      /\ log = [s \in Servers |-> <<>>]
      /\ net = [s \in Servers |-> [t \in Servers |-> <<>>]]
      /\ sess = [c \in Clients |-> [phase |-> "off", joined |-> <<Common>>,
                                    active |-> Common, typed |-> 0]]
  BY DEF Init, ServerInit
<1>3. NobodyDies
  BY <1>2 DEF NobodyDies
<1>4. \A s \in Servers : ShownApart(s) /\ Len(log[s]) = 0
  BY <1>2 DEF ShownApart, IdsApart
<1>5. ActiveIn
  <2> SUFFICES ASSUME NEW c \in Clients
               PROVE  sess[c].active \in Range(sess[c].joined) /\ sess[c].phase # "out"
    BY DEF ActiveIn
  <2>1. sess[c].active = Common /\ sess[c].joined = <<Common>> /\ sess[c].phase = "off"
    BY <1>2
  <2>2. Common \in Range(<<Common>>)
    BY DEF Range
  <2> QED
    BY <2>1, <2>2
<1>6. \A s, t \in Servers : net[s][t] = <<>> /\ Range(net[s][t]) = {}
  BY <1>2 DEF Range
<1>7. Expected
  BY <1>6 DEF Expected
<1>8. Owned
  <2>1. \A s \in Servers : Hosted(s) = {Common}
    BY <1>2 DEF Hosted, create_channel
  <2>2. \A s, t \in Servers : \A ch \in Subscribed(subs[s][t]) : ch = Common /\ t \in Neighbours[s]
    BY <1>2 DEF OneEntry, EmptyArray, Subscribed
  <2>3. ASSUME NEW s \in Servers, NEW t \in Servers, NEW ch \in Subscribed(subs[s][t])
        PROVE  ch \in Hosted(t) /\ s \in Neighbours[t]
    <3>1. ch = Common /\ t \in Neighbours[s]
      BY <2>2
    <3>2. s \in Neighbours[t]
      BY <3>1, ChatServerAssumption
    <3> QED
      BY <2>1, <3>1, <3>2
  <2> QED
    BY <1>6, <2>3 DEF Owned, InFlight
<1>9. Covered
  <2> SUFFICES ASSUME NEW s \in Servers, NEW t \in Neighbours[s]
               PROVE  Charge(subs[s][t], net[t][s], net[s][t]) <= Len(log[s])
    BY DEF Covered
  <2>1. t \in Servers
    BY ChatServerAssumption
  <2>2. subs[s][t] = OneEntry([chan |-> Common, age |-> 0])
    BY <1>2, <2>1
  <2>3. Owing(subs[s][t]) = 0
    <3> DEFINE e == [chan |-> Common, age |-> 0]
    <3>1. OneEntry(e).debt = 0 /\ OneEntry(e).items = <<e>> /\ <<e>> # <<>>
      BY DEF OneEntry
    <3> HIDE DEF e
    <3>2. Owing(OneEntry(e)) = 0
      BY <3>1 DEF Owing
    <3> QED
      BY <2>2, <3>2 DEF e
  <2>4. \A x : Number(<<>>, x) = 0
    <3>1. \A x : OfType(<<>>, x) = {}
      BY DEF OfType
    <3> QED
      BY <3>1, FS_EmptySet DEF Number
  <2> QED
    BY <1>4, <1>6, <2>1, <2>3, <2>4 DEF Charge
<1> QED
  BY <1>1, <1>3, <1>4, <1>5, <1>7, <1>8, <1>9 DEF Peaceful

\* No server crashes while users join channels, switch between them and say, whatever datagrams
\* are lost or overtaken, in any federation: each Say of a neighbour is on a channel the server
\* has, each Say of a client is by a user its channel lists, and a table of subscriptions owes
\* less than the Says its server has accepted, so with three of them no Leave finds it two below
\* zero.  No user leaves a channel, joins one twice or logs out, no two share a name, the ids
\* are distinct, and no time passes.
THEOREM NobodyCrashes ==
  ASSUME OwnNames, ~Rejoin, FreshIds, Commands \subseteq {"join", "switch", "say", "who", "list"},
         Faults \subseteq {"loss", "overtaking"}, Timing = "still",
         IsFiniteSet(Ids), Cardinality(Ids) <= 3, Cardinality(Ids) <= MaxIds
  PROVE  Spec => []NobodyDies
<1>1. Init => Peaceful
  BY InitPeaceful
<1>2. Peaceful /\ [Next]_vars => Peaceful'
  <2> SUFFICES ASSUME Peaceful, [Next]_vars PROVE Peaceful'
    OBVIOUS
  <2>1. /\ Calm /\ Careful /\ "leave" \notin Commands /\ "logout" \notin Commands
        /\ "duplication" \notin Faults
    BY DEF Calm, Careful
  <2>2. /\ Booked /\ ServerOK /\ SessOK /\ NamesDistinct /\ faults \in 0 .. MaxFaults /\ SaysTraced
        /\ \A s \in Servers : ShownApart(s)
        /\ NobodyDies /\ Young /\ ActiveIn /\ Owned /\ Covered /\ Expected
    BY DEF Peaceful, Booked
  <2>3. ServerOK' /\ SessOK' /\ (faults \in 0 .. MaxFaults)' /\ SaysTraced'
    BY <2>2, NextOK, TracedInvariant
  <2>4. Booked'
    BY <2>1, <2>2, <2>3, NextMembers, NextDistinct DEF Booked
  <2>5. ASSUME NEW s \in Servers PROVE Len(log[s]) <= 3 /\ ~OverRuns(s) /\ ShownApart(s)'
    <3>1. LogOK /\ ShowStep(s) /\ IdsApart(s)
      BY <2>2, NextShows DEF ServerOK, ShownApart
    <3>2. ~OverRuns(s)
      BY <3>1, FewIds
    <3>3. Len(log[s]) \in Nat /\ Cardinality(Ids) \in Nat /\ Len(log[s]) <= Cardinality(Ids)
      BY <3>1, LogFits
    <3>4. Len(log[s]) <= 3
      BY <3>3
    <3> QED
      BY <2>2, <3>1, <3>2, <3>4, StaysApart
  <2>6. UNCHANGED alive
    BY <2>1, <2>2, <2>5, NextSurvives
  <2>7. NobodyDies'
    BY <2>2, <2>6 DEF NobodyDies
  <2>8. StillForm
    BY <2>1, <2>2, NextStill
  <2>9. Young' /\ Covered'
    BY <2>1, <2>2, <2>8, StaysYoung, StillCovered
  <2>10. Owned' /\ HostsOn
    BY <2>1, <2>2, <2>3, <2>6, StillOwned
  <2>11. Expected'
    BY <2>1, <2>2, <2>8, <2>10, StillExpected
  <2>12. ActiveIn'
    BY <2>1, <2>2, StaysActive
  <2> QED
    BY <2>3, <2>4, <2>5, <2>7, <2>9, <2>10, <2>11, <2>12 DEF Peaceful
<1>3. Peaceful => NobodyDies
  BY DEF Peaceful
<1> QED
  BY <1>1, <1>2, <1>3, PTL DEF Spec

================================================================================
