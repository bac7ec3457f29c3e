--------------------------- MODULE Subscriptions_proofs ---------------------------
(***************************************************************************)
(* Who has subscribed to what.  Every iteration of a server is brought     *)
(* into one form: the datagram it read, what that did to the               *)
(* subscriptions, what became of the channels, and what was sent.  The     *)
(* invariants about subscriptions follow from that form.                   *)
(***************************************************************************)
EXTENDS ChatSystem_proofs

Names(cs) == {cs[i].name : i \in 1 .. Len(cs)}

DistinctNames(cs) == \A i, j \in 1 .. Len(cs) : cs[i].name = cs[j].name => i = j

DistinctSubs(srvr) ==
  \A i, j \in 1 .. Len(srvr.items) : srvr.items[i].chan = srvr.items[j].chan => i = j

\* The same channels with the same clocks.
SameClocks(cs, ds) ==
  /\ Len(ds) = Len(cs)
  /\ \A k \in 1 .. Len(cs) : ds[k].name = cs[k].name /\ ds[k].tm = cs[k].tm

--------------------------------------------------------------------------------
(* The tables of names *)

\* find_channel finds nothing only if there is nothing.
LEMMA NoChannel ==
  ASSUME NEW cs \in Seq(Channel), NEW ch
  PROVE  HasChannel(cs, ch) <=> ch \in Names(cs)
<1> DEFINE I == {i \in 1 .. Len(cs) : cs[i].name = ch}
<1>1. I \in SUBSET (1 .. Len(cs)) /\ Len(cs) \in Nat
  OBVIOUS
<1>2. I # {} => Min(I) \in I /\ Min(I) # 0
  <2> SUFFICES ASSUME I # {} PROVE Min(I) \in I /\ Min(I) # 0
    OBVIOUS
  <2>1. Min(I) \in I
    BY <1>1, MinOfPositions
  <2> QED
    BY <1>1, <2>1
<1>3. find_channel(cs, ch) = IF I # {} THEN Min(I) ELSE 0
  BY DEF find_channel, SelectInSeq
<1>4. I # {} <=> ch \in Names(cs)
  BY DEF Names
<1> HIDE DEF I
<1> QED
  BY <1>2, <1>3, <1>4 DEF HasChannel

\* Nor does find_channel_server.
LEMMA NoSubscription ==
  ASSUME NEW srvr \in CountedArrays(Subscription), NEW ch
  PROVE  has_channel_server(srvr, ch) <=> ch \in Subscribed(srvr)
<1> DEFINE I == {i \in 1 .. Len(srvr.items) : srvr.items[i].chan = ch}
<1>1. I \in SUBSET (1 .. Len(srvr.items)) /\ Len(srvr.items) \in Nat
      /\ DOMAIN srvr.items = 1 .. Len(srvr.items)
  BY DEF CountedArrays
<1>2. I # {} => Min(I) \in I /\ Min(I) # 0
  <2> SUFFICES ASSUME I # {} PROVE Min(I) \in I /\ Min(I) # 0
    OBVIOUS
  <2>1. Min(I) \in I
    BY <1>1, MinOfPositions
  <2> QED
    BY <1>1, <2>1
<1>3. find_channel_server(srvr, ch) = IF I # {} THEN Min(I) ELSE 0
  BY DEF find_channel_server, SelectInSeq
<1>4. I # {} <=> ch \in Subscribed(srvr)
  BY <1>1 DEF Subscribed
<1> HIDE DEF I
<1> QED
  BY <1>2, <1>3, <1>4 DEF has_channel_server

\* The entries behind a removed one move down.
LEMMA RemovedAt ==
  ASSUME NEW S, NEW q \in Seq(S), NEW i \in 1 .. Len(q)
  PROVE  /\ RemoveAt(q, i) \in Seq(S)
         /\ Len(RemoveAt(q, i)) = Len(q) - 1
         /\ \A k \in 1 .. Len(q) - 1 : RemoveAt(q, i)[k] = q[IF k < i THEN k ELSE k + 1]
<1> DEFINE before == SubSeq(q, 1, i - 1)
           after  == SubSeq(q, i + 1, Len(q))
<1>1. /\ before \in Seq(S) /\ Len(before) = i - 1
      /\ \A k \in 1 .. i - 1 : before[k] = q[k]
  OBVIOUS
<1>2. /\ after \in Seq(S) /\ Len(after) = Len(q) - i
      /\ \A k \in 1 .. Len(q) - i : after[k] = q[k + i]
  OBVIOUS
<1>3. RemoveAt(q, i) = before \o after
  BY DEF RemoveAt
<1> HIDE DEF before, after
<1>4. before \o after \in Seq(S) /\ Len(before \o after) = Len(q) - 1
  BY <1>1, <1>2
<1>5. ASSUME NEW k \in 1 .. Len(q) - 1
      PROVE  (before \o after)[k] = q[IF k < i THEN k ELSE k + 1]
  <2>1. CASE k < i
    <3>1. k \in 1 .. i - 1 /\ (before \o after)[k] = before[k]
      BY <1>1, <1>2, <2>1
    <3> QED
      BY <1>1, <2>1, <3>1
  <2>2. CASE ~(k < i)
    <3>1. k - (i - 1) \in 1 .. Len(q) - i /\ (before \o after)[k] = after[k - (i - 1)]
      BY <1>1, <1>2, <2>2
    <3>2. after[k - (i - 1)] = q[(k - (i - 1)) + i]
      BY <1>2, <3>1
    <3> QED
      BY <2>2, <3>1, <3>2
  <2> QED
    BY <2>1, <2>2
<1> QED
  BY <1>3, <1>4, <1>5

\* A new table of users changes neither name nor clock.
LEMMA SetUsersClocks ==
  ASSUME NEW cs, GoodChannels(cs), NEW i \in 1 .. Len(cs), NEW us
  PROVE  SameClocks(cs, [cs EXCEPT ![i].users = us])
<1>1. cs \in Seq(Channel) /\ Len(cs) \in Nat /\ DOMAIN cs = 1 .. Len(cs)
  BY DEF GoodChannels
<1>2. [cs[i] EXCEPT !.users = us].name = cs[i].name /\ [cs[i] EXCEPT !.users = us].tm = cs[i].tm
  BY <1>1 DEF Channel
<1> DEFINE f == [cs EXCEPT ![i].users = us]
<1>3. DOMAIN f = 1 .. Len(cs) /\ f[i] = [cs[i] EXCEPT !.users = us]
      /\ \A k \in 1 .. Len(cs) : k # i => f[k] = cs[k]
  BY <1>1
<1>4. Len(f) = Len(cs)
  BY <1>1
<1> HIDE DEF f
<1>5. SameClocks(cs, f)
  BY <1>2, <1>3, <1>4 DEF SameClocks
<1> QED
  BY <1>5 DEF f

\* New tables for all channels do not either.
LEMMA MapUsersClocks ==
  ASSUME NEW cs, GoodChannels(cs), NEW us
  PROVE  SameClocks(cs, [i \in DOMAIN cs |-> [cs[i] EXCEPT !.users = us[i]]])
<1>1. cs \in Seq(Channel) /\ Len(cs) \in Nat /\ DOMAIN cs = 1 .. Len(cs)
  BY DEF GoodChannels
<1>2. \A k \in 1 .. Len(cs) : /\ [cs[k] EXCEPT !.users = us[k]].name = cs[k].name
                              /\ [cs[k] EXCEPT !.users = us[k]].tm = cs[k].tm
  BY <1>1 DEF Channel
<1> DEFINE f == [i \in DOMAIN cs |-> [cs[i] EXCEPT !.users = us[i]]]
<1>3. DOMAIN f = 1 .. Len(cs) /\ \A k \in 1 .. Len(cs) : f[k] = [cs[k] EXCEPT !.users = us[k]]
  BY <1>1
<1>4. Len(f) = Len(cs)
  BY <1>1, <1>3
<1> HIDE DEF f
<1>5. SameClocks(cs, f)
  BY <1>2, <1>3, <1>4 DEF SameClocks
<1> QED
  BY <1>5 DEF f

\* A chunk that is handed out again does not.
LEMMA ReusedClocks ==
  ASSUME NEW cs, GoodChannels(cs), NEW old, NEW new
  PROVE  SameClocks(cs, Reused(cs, old, new))
<1> DEFINE us == [i \in DOMAIN cs |-> [cs[i].users EXCEPT !.items =
                   [k \in DOMAIN cs[i].users.items |->
                      IF cs[i].users.items[k] = old THEN new ELSE cs[i].users.items[k]]]]
<1>1. Reused(cs, old, new) = [i \in DOMAIN cs |-> [cs[i] EXCEPT !.users = us[i]]]
  BY DEF Reused
<1> HIDE DEF us
<1>2. SameClocks(cs, [i \in DOMAIN cs |-> [cs[i] EXCEPT !.users = us[i]]])
  BY MapUsersClocks
<1> QED
  BY <1>1, <1>2

\* The renewal changes no name, and only clocks of channels that are due.
LEMMA RenewedClocks ==
  ASSUME NEW cs, GoodChannels(cs)
  PROVE  /\ Len(Renewed(cs)) = Len(cs)
         /\ \A k \in 1 .. Len(cs) : /\ Renewed(cs)[k].name = cs[k].name
                                    /\ k \notin Due(cs) => Renewed(cs)[k].tm = cs[k].tm
<1>1. cs \in Seq(Channel) /\ Len(cs) \in Nat /\ DOMAIN cs = 1 .. Len(cs)
  BY DEF GoodChannels
<1>2. \A k \in 1 .. Len(cs) : [cs[k] EXCEPT !.tm = 0].name = cs[k].name
  BY <1>1 DEF Channel
<1> DEFINE f == Renewed(cs)
<1>3. DOMAIN f = 1 .. Len(cs)
      /\ \A k \in 1 .. Len(cs) : f[k] = IF k \in Due(cs) THEN [cs[k] EXCEPT !.tm = 0] ELSE cs[k]
  BY <1>1 DEF Renewed
<1>4. Len(f) = Len(cs)
  BY <1>1 DEF Renewed
<1> HIDE DEF f
<1>5. \A k \in 1 .. Len(cs) : f[k].name = cs[k].name /\ (k \notin Due(cs) => f[k].tm = cs[k].tm)
  BY <1>2, <1>3
<1> QED
  BY <1>4, <1>5 DEF f

--------------------------------------------------------------------------------
(* The form of an iteration *)

Tells(s, ch, out) == \A t \in Neighbours[s] : Join(ch) \in Range(out[t])

\* Joins go to neighbours and are for channels of cs, Says are on channels s had.
Honest(s, cs, out) ==
  \A t \in Servers : \A m \in Range(out[t]) :
    /\ m.type = "join" => t \in Neighbours[s] /\ m.chan \in Names(cs)
    /\ m.type = "say" => m.chan \in Names(chans[s])

\* At most one channel is added; the neighbours are told of it and of each
\* channel whose clock is not what it was.
Extends(s, cs, out) ==
  /\ Len(cs) \in {Len(chans[s]), Len(chans[s]) + 1}
  /\ \A k \in 1 .. Len(chans[s]) :
       /\ cs[k].name = chans[s][k].name
       /\ cs[k].tm = chans[s][k].tm \/ Tells(s, cs[k].name, out)
  /\ Len(cs) = Len(chans[s]) + 1 =>
       /\ cs[Len(cs)].name \notin Names(chans[s])
       /\ Tells(s, cs[Len(cs)].name, out)

\* One channel is removed.
Shrinks(s, cs) ==
  /\ "leave" \in Commands
  /\ \E i \in 1 .. Len(chans[s]) :
       /\ Len(cs) = Len(chans[s]) - 1
       /\ \A k \in 1 .. Len(cs) : cs[k].name = chans[s][IF k < i THEN k ELSE k + 1].name

Does(s, cs, out) ==
  /\ GoodChannels(cs)
  /\ out \in Outgoing
  /\ Honest(s, cs, out)
  /\ Extends(s, cs, out) \/ Shrinks(s, cs)

\* The printf of a renewal kills s, which has sent out.
DiesSending(s, nw, out) ==
  /\ alive' = [alive EXCEPT ![s] = FALSE]
  /\ net' = Unread(After(nw, s, out), s)
  /\ UNCHANGED <<chans, subs, dropped>>

Ends(s, nw, sb, told) ==
  \E cs, out :
    \/ Does(s, cs, out) /\ Record(s, nw, cs, sb, told, out)
    \/ out \in Outgoing /\ Honest(s, cs, out) /\ DiesSending(s, nw, out)

\* What the datagram that s reads does to the subscriptions.
ReadsOne(s, t, nw, sb, told) ==
  /\ net[t][s] # <<>>
  /\ nw = [net EXCEPT ![t][s] = Tail(@)]
  /\ LET m == Head(net[t][s])
     IN  \/ /\ m.type = "join"
            /\ sb = [SweptSubs(s) EXCEPT ![t] = Resubscribe(@, m.chan)]
            /\ told = [NoneTold EXCEPT ![t] = {m.chan}]
         \/ /\ m.type = "leave"
            /\ sb = [SweptSubs(s) EXCEPT ![t] = remove_adj_channel(@)]
            /\ told = NoneTold
         \/ /\ m.type = "say"
            /\ sb = SweptSubs(s)
            /\ told = NoneTold

ReadsNone(s, nw, sb, told) == nw = net /\ sb = SweptSubs(s) /\ told = NoneTold

Takes(s, nw, sb, told) ==
  ReadsNone(s, nw, sb, told) \/ \E t \in Servers : ReadsOne(s, t, nw, sb, told)

\* An iteration without a datagram of a server, and one with a datagram of t.
Requested(s) == alive[s] /\ Ends(s, net, SweptSubs(s), NoneTold)

Received(s, t) ==
  /\ alive[s]
  /\ \E nw, sb, told : ReadsOne(s, t, nw, sb, told) /\ Ends(s, nw, sb, told)

Iteration(s) == Requested(s) \/ \E t \in Servers : Received(s, t)

\* The clocks of cs stand at zero if those of s do.
KeepsClocks(s, cs) ==
  (\A k \in 1 .. Len(chans[s]) : chans[s][k].tm = 0) => \A k \in 1 .. Len(cs) : cs[k].tm = 0

\* An iteration by what it sends but for the renewals.
Works(s, nw, sb, told, out) ==
  \E cs :
    /\ GoodChannels(cs)
    /\ KeepsClocks(s, cs)
    /\ Record(s, nw, cs, sb, told, out) \/ Resub(s, nw, cs, sb, told, out)

\* An iteration by what it takes and how it ends.
LEMMA IterationParts ==
  ASSUME NEW s \in Servers, Iteration(s)
  PROVE  /\ alive[s]
         /\ \E nw, sb, told : Takes(s, nw, sb, told) /\ Ends(s, nw, sb, told)
BY DEF Iteration, Requested, Received, Takes, ReadsNone

\* What is sent in two parts.
LEMMA BothRange ==
  ASSUME NEW out1 \in Outgoing, NEW out2 \in Outgoing, NEW t \in Servers
  PROVE  Range(Both(out1, out2)[t]) = Range(out1[t]) \cup Range(out2[t])
<1>1. out1[t] \in Seq(Message) /\ out2[t] \in Seq(Message)
  BY DEF Outgoing
<1>2. Both(out1, out2)[t] = out1[t] \o out2[t]
  BY DEF Both
<1> QED
  BY <1>1, <1>2, RangeOfConcat

\* The loop at resub comes to every channel that is due.
LEMMA OrderIsComplete ==
  ASSUME NEW cs \in Seq(Channel), NEW order \in RenewalOrder(cs), NEW k \in Due(cs)
  PROVE  \E i \in DOMAIN order : order[i] = k
<1> DEFINE D == Due(cs)
           n == Cardinality(D)
<1>1. IsFiniteSet(D) /\ n \in Nat
  <2>1. D \in SUBSET (1 .. Len(cs)) /\ Len(cs) \in Nat
    BY DEF Due
  <2> HIDE DEF D
  <2> QED
    BY <2>1, PositionsFinite
<1>2. order \in [1 .. n -> D] /\ \A i, j \in 1 .. n : i < j => order[i] < order[j]
  BY DEF RenewalOrder
<1> SUFFICES ASSUME \A i \in 1 .. n : order[i] # k PROVE FALSE
  BY <1>2
<1> HIDE DEF D, n
<1>3. IsFiniteSet(D \ {k}) /\ Cardinality(D \ {k}) = n - 1
  BY <1>1, FS_RemoveElement DEF D, n
<1>4. IsFiniteSet(1 .. n) /\ Cardinality(1 .. n) = n
  BY <1>1, FS_Interval
<1>5. order \in [1 .. n -> D \ {k}]
  BY <1>2
<1>6. \E i, j \in 1 .. n : i # j /\ order[i] = order[j]
  BY <1>1, <1>3, <1>4, <1>5, FS_PigeonHole
<1>7. \A i \in 1 .. n : order[i] \in Nat
  BY <1>2 DEF D, Due
<1> QED
  BY <1>1, <1>2, <1>6, <1>7

\* So all neighbours are told of it.
LEMMA RenewalsTell ==
  ASSUME NEW s \in Servers, NEW cs \in Seq(Channel), NEW order \in RenewalOrder(cs),
         NEW k \in Due(cs)
  PROVE  Tells(s, cs[k].name, Renewals(s, cs, order))
<1>1. PICK i \in DOMAIN order : order[i] = k
  BY OrderIsComplete
<1> SUFFICES ASSUME NEW t \in Neighbours[s]
             PROVE  Join(cs[k].name) \in Range(Renewals(s, cs, order)[t])
  BY DEF Tells
<1>2. t \in Servers
  BY ChatServerAssumption
<1>3. Renewals(s, cs, order)[t] = [j \in DOMAIN order |-> Join(cs[order[j]].name)]
  BY <1>2 DEF Renewals
<1> QED
  BY <1>1, <1>3 DEF Range

\* And of nothing the server does not have.
LEMMA RenewalsHonest ==
  ASSUME NEW s \in Servers, NEW cs \in Seq(Channel), NEW r,
         \A k \in DOMAIN r : r[k] \in 1 .. Len(cs)
  PROVE  Honest(s, cs, Renewals(s, cs, r))
<1> SUFFICES ASSUME NEW t \in Servers, NEW k \in DOMAIN Renewals(s, cs, r)[t]
             PROVE  LET m == Renewals(s, cs, r)[t][k]
                    IN  m.type = "join" /\ t \in Neighbours[s] /\ m.chan \in Names(cs)
  BY DEF Honest, Range
<1>1. Renewals(s, cs, r)[t] = IF t \in Neighbours[s]
        THEN [j \in DOMAIN r |-> Join(cs[r[j]].name)] ELSE <<>>
  BY DEF Renewals
<1>2. t \in Neighbours[s]
  BY <1>1
<1>3. Renewals(s, cs, r)[t][k] = Join(cs[r[k]].name) /\ k \in DOMAIN r
  BY <1>1, <1>2
<1> QED
  BY <1>2, <1>3 DEF Join, Names

\* Two honest sendings together.
LEMMA BothHonest ==
  ASSUME NEW s \in Servers, NEW cs, NEW out1 \in Outgoing, NEW out2 \in Outgoing,
         Honest(s, cs, out1), Honest(s, cs, out2)
  PROVE  Honest(s, cs, Both(out1, out2))
BY BothRange DEF Honest

\* Who is told is told, whatever else is sent.
LEMMA BothTell ==
  ASSUME NEW s \in Servers, NEW ch, NEW out1 \in Outgoing, NEW out2 \in Outgoing,
         Tells(s, ch, out1) \/ Tells(s, ch, out2)
  PROVE  Tells(s, ch, Both(out1, out2))
<1>1. Neighbours[s] \subseteq Servers
  BY ChatServerAssumption
<1> QED
  BY <1>1, BothRange DEF Tells

\* The renewals do not change the form.
LEMMA RenewalsDo ==
  ASSUME LoopOK, NEW s \in Servers, NEW cs, NEW out, Does(s, cs, out), NEW order \in RenewalOrder(cs)
  PROVE  Does(s, Renewed(cs), Both(out, Renewals(s, cs, order)))
<1> DEFINE r == Renewals(s, cs, order)
           all == Both(out, r)
           ds == Renewed(cs)
<1>1. GoodChannels(cs) /\ cs \in Seq(Channel) /\ Len(cs) \in Nat
      /\ chans[s] \in Seq(Channel) /\ Len(chans[s]) \in Nat /\ out \in Outgoing
  BY DEF Does, GoodChannels, LoopOK
<1>2. r \in Outgoing /\ all \in Outgoing
  BY <1>1, RenewalsType, SendingTypes
<1>3. GoodChannels(ds)
  BY <1>1, RenewedGood
<1>4. /\ Len(ds) = Len(cs)
      /\ \A k \in 1 .. Len(cs) : ds[k].name = cs[k].name /\ (k \notin Due(cs) => ds[k].tm = cs[k].tm)
  BY <1>1, RenewedClocks
<1>5. \A k \in Due(cs) : Tells(s, cs[k].name, r)
  BY <1>1, RenewalsTell
<1>6. Names(ds) = Names(cs)
  BY <1>4 DEF Names
<1>7. Honest(s, cs, r)
  <2>1. \A k \in DOMAIN order : order[k] \in 1 .. Len(cs)
    BY <1>1 DEF RenewalOrder, Due
  <2> QED
    BY <1>1, <2>1, RenewalsHonest
<1> HIDE DEF r, ds
<1>8. Honest(s, ds, all)
  <2>1. Honest(s, cs, all)
    BY <1>1, <1>2, <1>7, BothHonest DEF Does
  <2> QED
    BY <1>6, <2>1 DEF Honest
<1>9. Shrinks(s, cs) => Shrinks(s, ds)
  <2> SUFFICES ASSUME Shrinks(s, cs) PROVE Shrinks(s, ds)
    OBVIOUS
  <2>1. PICK i \in 1 .. Len(chans[s]) :
          /\ Len(cs) = Len(chans[s]) - 1
          /\ \A k \in 1 .. Len(cs) : cs[k].name = chans[s][IF k < i THEN k ELSE k + 1].name
    BY DEF Shrinks
  <2>2. \A k \in 1 .. Len(ds) : ds[k].name = chans[s][IF k < i THEN k ELSE k + 1].name
    BY <1>4, <2>1
  <2> QED
    BY <1>4, <2>1, <2>2 DEF Shrinks
<1>10. ASSUME Extends(s, cs, out) PROVE Extends(s, ds, all)
  <2>1. Len(ds) \in {Len(chans[s]), Len(chans[s]) + 1}
    BY <1>4, <1>10 DEF Extends
  <2>2. ASSUME NEW k \in 1 .. Len(chans[s])
        PROVE  ds[k].name = chans[s][k].name /\ (ds[k].tm = chans[s][k].tm \/ Tells(s, ds[k].name, all))
    <3>1. k \in 1 .. Len(cs)
      BY <1>1, <1>10 DEF Extends
    <3>2. ds[k].name = chans[s][k].name /\ ds[k].name = cs[k].name
      BY <1>4, <1>10, <3>1 DEF Extends
    <3>3. CASE k \in Due(cs)
      BY <1>1, <1>2, <1>5, <3>2, <3>3, BothTell
    <3>4. CASE k \notin Due(cs)
      <4>1. ds[k].tm = cs[k].tm
        BY <1>4, <3>1, <3>4
      <4>2. cs[k].tm = chans[s][k].tm \/ Tells(s, cs[k].name, out)
        BY <1>10 DEF Extends
      <4> QED
        BY <1>1, <1>2, <3>2, <4>1, <4>2, BothTell
    <3> QED
      BY <3>2, <3>3, <3>4
  <2>3. ASSUME Len(ds) = Len(chans[s]) + 1
        PROVE  ds[Len(ds)].name \notin Names(chans[s]) /\ Tells(s, ds[Len(ds)].name, all)
    <3>1. Len(ds) \in 1 .. Len(cs) /\ Len(ds) = Len(cs)
      BY <1>1, <1>4, <2>3
    <3>2. ds[Len(ds)].name = cs[Len(cs)].name
      BY <1>4, <3>1
    <3>3. cs[Len(cs)].name \notin Names(chans[s]) /\ Tells(s, cs[Len(cs)].name, out)
      BY <1>10, <2>3, <3>1 DEF Extends
    <3> QED
      BY <1>1, <1>2, <3>2, <3>3, BothTell
  <2> QED
    BY <2>1, <2>2, <2>3 DEF Extends
<1> HIDE DEF all
<1>11. Does(s, ds, all)
  BY <1>2, <1>3, <1>8, <1>9, <1>10 DEF Does
<1> QED
  BY <1>11 DEF ds, all, r

\* An iteration that ends at resub.
LEMMA ResubEnds ==
  ASSUME LoopOK, NEW s \in Servers, NEW nw, NEW cs, NEW sb, NEW told, NEW out,
         Does(s, cs, out), Resub(s, nw, cs, sb, told, out)
  PROVE  Ends(s, nw, sb, told)
<1>1. PICK order \in RenewalOrder(cs) :
        \/ Record(s, nw, Renewed(cs), sb, told, Both(out, Renewals(s, cs, order)))
        \/ \E k \in DOMAIN order :
             DiesSending(s, nw, Both(out, Renewals(s, cs, SubSeq(order, 1, k - 1))))
  BY DEF Resub, DiesSending
<1>2. CASE Record(s, nw, Renewed(cs), sb, told, Both(out, Renewals(s, cs, order)))
  BY <1>2, RenewalsDo DEF Ends
<1>3. ASSUME NEW k \in DOMAIN order,
             DiesSending(s, nw, Both(out, Renewals(s, cs, SubSeq(order, 1, k - 1))))
      PROVE  Ends(s, nw, sb, told)
  <2> DEFINE part == SubSeq(order, 1, k - 1)
             r == Renewals(s, cs, part)
  <2>1. GoodChannels(cs) /\ cs \in Seq(Channel) /\ out \in Outgoing /\ Honest(s, cs, out)
    BY DEF Does, GoodChannels
  <2>2. r \in Outgoing
    BY <2>1, RenewalsType
  <2>3. \A j \in DOMAIN part : part[j] \in 1 .. Len(cs)
    <3>1. Cardinality(Due(cs)) \in Nat /\ Due(cs) \subseteq 1 .. Len(cs)
      BY <2>1, DuePositions
    <3>2. order \in [1 .. Cardinality(Due(cs)) -> Due(cs)]
      BY DEF RenewalOrder
    <3>3. order \in Seq(Due(cs)) /\ k \in 1 .. Len(order)
      BY <3>1, <3>2
    <3>4. part \in Seq(Due(cs))
      BY <3>3
    <3> QED
      BY <3>1, <3>4
  <2> HIDE DEF part
  <2>4. Honest(s, cs, r)
    BY <2>1, <2>3, RenewalsHonest
  <2> HIDE DEF r
  <2>5. Both(out, r) \in Outgoing /\ Honest(s, cs, Both(out, r))
    BY <2>1, <2>2, <2>4, SendingTypes, BothHonest
  <2>6. DiesSending(s, nw, Both(out, r))
    BY <1>3 DEF r, part
  <2> QED
    BY <2>5, <2>6 DEF Ends
<1> QED
  BY <1>1, <1>2, <1>3

\* The same channels, and nothing sent but Says on them and Leaves.
LEMMA SameChannelsDo ==
  ASSUME LoopOK, NEW s \in Servers, NEW cs, GoodChannels(cs), SameClocks(chans[s], cs),
         NEW out \in Outgoing, Honest(s, cs, out)
  PROVE  Does(s, cs, out)
<1>1. Len(chans[s]) \in Nat
  BY DEF LoopOK
<1> QED
  BY <1>1 DEF Does, Extends, SameClocks

\* What handlers send.
LEMMA SendingHonest ==
  ASSUME NEW s, NEW cs
  PROVE  /\ Honest(s, cs, Nothing)
         /\ \A T, ch : Honest(s, cs, ToEach(T, Leave(ch)))
         /\ \A T, id : \A ch \in Names(chans[s]) : Honest(s, cs, ToEach(T, Say(ch, id)))
         /\ \A ch \in Names(cs) : Honest(s, cs, ToEach(Neighbours[s], Join(ch)))
<1>1. Honest(s, cs, Nothing)
  BY DEF Honest, Nothing, Range
<1>2. \A T, ch : Honest(s, cs, ToEach(T, Leave(ch)))
  BY DEF Honest, ToEach, Range, Leave
<1>3. \A T, id : \A ch \in Names(chans[s]) : Honest(s, cs, ToEach(T, Say(ch, id)))
  BY DEF Honest, ToEach, Range, Say
<1>4. \A ch \in Names(cs) : Honest(s, cs, ToEach(Neighbours[s], Join(ch)))
  BY DEF Honest, ToEach, Range, Join
<1> QED
  BY <1>1, <1>2, <1>3, <1>4

--------------------------------------------------------------------------------
(* Every handler has that form, or the process dies in it *)

\* A handler that changes at most the users of the channels and sends no Join.
LEMMA PlainIteration ==
  ASSUME ServerOK, NEW s \in Servers, NEW nw, NEW sb, NEW told,
         NEW cs, GoodChannels(cs), SameClocks(chans[s], cs),
         NEW out \in Outgoing, Honest(s, cs, out),
         Record(s, nw, cs, sb, told, out) \/ Resub(s, nw, cs, sb, told, out)
  PROVE  Ends(s, nw, sb, told)
<1>1. Does(s, cs, out) /\ LoopOK
  BY SameChannelsDo DEF ServerOK
<1> QED
  BY <1>1, ResubEnds DEF Ends

\* The requests and events that come with no datagram of a neighbour.
LEMMA PlainRequest ==
  ASSUME ServerOK, NEW s \in Servers, alive[s],
         NEW cs, GoodChannels(cs), SameClocks(chans[s], cs),
         NEW out \in Outgoing, Honest(s, cs, out),
         \/ Record(s, net, cs, SweptSubs(s), NoneTold, out)
         \/ Resub(s, net, cs, SweptSubs(s), NoneTold, out)
  PROVE  Requested(s) /\ Works(s, net, SweptSubs(s), NoneTold, out)
<1>1. KeepsClocks(s, cs)
  BY DEF KeepsClocks, SameClocks
<1>2. Works(s, net, SweptSubs(s), NoneTold, out)
  BY <1>1 DEF Works
<1> QED
  BY <1>2, PlainIteration DEF Requested

\* The channels as they are.
LEMMA SameChannels ==
  ASSUME LoopOK, NEW s \in Servers
  PROVE  GoodChannels(chans[s]) /\ SameClocks(chans[s], chans[s])
BY DEF LoopOK, SameClocks

\* Each handler is such an iteration, or the server dies.  LOGIN:
LEMMA LoginIteration ==
  ASSUME ServerOK, NEW s \in Servers, alive[s], NEW c \in Clients, LoginRequest(s, c)
  PROVE  Dies(s) \/ (Requested(s) /\ Works(s, net, SweptSubs(s), NoneTold, Nothing))
<1>1. PICK old \in freed[s] \cup {Null} :
        LET cs == IF old = Null THEN chans[s] ELSE Reused(chans[s], old, c)
            fr == freed[s] \ {old}
            cs1 == IF cs = <<>> THEN cs ELSE [cs EXCEPT ![1].users = LoginCommon(@, c, fr)]
        IN  Dies(s) \/ Resub(s, net, cs1, SweptSubs(s), NoneTold, Nothing)
  BY DEF LoginRequest
<1> DEFINE cs == IF old = Null THEN chans[s] ELSE Reused(chans[s], old, c)
           fr == freed[s] \ {old}
           cs1 == IF cs = <<>> THEN cs ELSE [cs EXCEPT ![1].users = LoginCommon(@, c, fr)]
<1>2. GoodChannels(cs) /\ SameClocks(chans[s], cs)
  BY RequestFacts, ReusedGood, ReusedClocks, SameChannels
<1>3. Dies(s) \/ Resub(s, net, cs1, SweptSubs(s), NoneTold, Nothing)
  BY <1>1
<1> HIDE DEF cs
<1>4. GoodChannels(cs1) /\ SameClocks(cs, cs1)
  <2>1. CASE cs = <<>>
    BY <1>2, <2>1 DEF SameClocks
  <2>2. CASE cs # <<>>
    <3>1. cs \in Seq(Channel) /\ 1 \in 1 .. Len(cs)
      BY <1>2, <2>2 DEF GoodChannels
    <3>2. GoodUsers(cs[1].users)
      BY <1>2, <3>1, ChannelUsers
    <3>3. GoodUsers(LoginCommon(cs[1].users, c, fr))
      BY <3>2, LoginCommonGood
    <3>4. cs1 = [cs EXCEPT ![1].users = LoginCommon(cs[1].users, c, fr)]
      BY <2>2, <3>1
    <3> QED
      BY <1>2, <3>1, <3>3, <3>4, SetUsersGood, SetUsersClocks
  <2> QED
    BY <2>1, <2>2
<1> HIDE DEF cs1
<1>5. SameClocks(chans[s], cs1)
  BY <1>2, <1>4 DEF SameClocks
<1>6. Nothing \in Outgoing /\ Honest(s, cs1, Nothing)
  BY SendingTypes, SendingHonest
<1> QED
  BY <1>3, <1>4, <1>5, <1>6, PlainRequest

\* SAY:
LEMMA SayIteration ==
  ASSUME ServerOK, NEW s \in Servers, alive[s], NEW c \in Clients, NEW ch \in ChannelNames,
         NEW id \in Ids, SayRequest(s, c, ch, id)
  PROVE  Dies(s) \/ Requested(s)
<1> DEFINE out == ToEach(SubscribersIn(SweptSubs(s), s, ch), Say(ch, id))
<1> SUFFICES ASSUME ~Dies(s) PROVE Requested(s)
  OBVIOUS
<1>1. Resub(s, net, chans[s], SweptSubs(s), NoneTold, out) /\ HasChannel(chans[s], ch)
  BY DEF SayRequest, SayCrashes
<1>2. out \in Outgoing
  BY MessageTypes, SendingTypes
<1>3. ch \in Names(chans[s])
  BY <1>1, NoChannel, RequestFacts
<1>4. Honest(s, chans[s], out)
  BY <1>3, SendingHonest
<1> HIDE DEF out
<1> QED
  BY <1>1, <1>2, <1>4, PlainRequest, SameChannels DEF ServerOK

\* JOIN: the channel is there or is added, and the neighbours are told of it.
LEMMA JoinIteration ==
  ASSUME ServerOK, NEW s \in Servers, alive[s], NEW c \in Clients, NEW ch \in ChannelNames,
         JoinRequest(s, c, ch)
  PROVE  /\ Requested(s)
         /\ Works(s, net, SweptSubs(s), NoneTold, ToEach(Neighbours[s], Join(ch)))
<1> DEFINE cs == IF HasChannel(chans[s], ch) THEN chans[s] ELSE add_chnl(chans[s], ch)
           usr == IF LoggedIn(s, c) THEN c ELSE Null
           i == find_channel(cs, ch)
           cs1 == [cs EXCEPT ![i].users = add_user(@, usr)]
           out == ToEach(Neighbours[s], Join(ch))
<1>0. chans[s] \in Seq(Channel) /\ Len(chans[s]) \in Nat /\ GoodChannels(chans[s])
  BY RequestFacts
<1>1. GoodChannels(cs)
  BY RequestFacts, AddChannelGood
<1>2. HasChannel(cs, ch)
  BY RequestFacts, AddedIsThere
<1>3. \/ cs = chans[s]
      \/ /\ cs = Append(chans[s], create_channel(ch))
         /\ ch \notin Names(chans[s])
  BY <1>0, NoChannel DEF add_chnl
<1>4. Resub(s, net, cs1, SweptSubs(s), NoneTold, out)
  BY DEF JoinRequest
<1> HIDE DEF cs
<1>5. i \in 1 .. Len(cs) /\ cs \in Seq(Channel) /\ Len(cs) \in Nat
  BY <1>1, <1>2, FindChannel DEF GoodChannels
<1> HIDE DEF i
<1>6. GoodUsers(add_user(cs[i].users, usr))
  <2>1. GoodUsers(cs[i].users)
    BY <1>1, <1>5, ChannelUsers
  <2> QED
    BY <2>1, StoreGood DEF GoodUsers, add_user, Pointers
<1>7. cs1 = [cs EXCEPT ![i].users = add_user(cs[i].users, usr)]
  BY <1>5
<1>8. GoodChannels(cs1) /\ SameClocks(cs, cs1)
  BY <1>1, <1>5, <1>6, <1>7, SetUsersGood, SetUsersClocks
<1> HIDE DEF cs1
<1>9. out \in Outgoing /\ Tells(s, ch, out)
  <2>1. out \in Outgoing
    BY MessageTypes, SendingTypes
  <2>2. \A t \in Neighbours[s] : t \in Servers /\ Join(ch) \in Range(ToEach(Neighbours[s], Join(ch))[t])
    BY ChatServerAssumption DEF ToEach, Range
  <2> QED
    BY <2>1, <2>2 DEF Tells
<1>10. ch \in Names(cs)
  BY <1>2, <1>5, NoChannel
<1>11. Honest(s, cs1, out)
  <2>1. Names(cs1) = Names(cs)
    BY <1>8 DEF SameClocks, Names
  <2> QED
    BY <1>10, <2>1, SendingHonest
<1> HIDE DEF out
<1>12. Extends(s, cs1, out)
  <2>1. CASE cs = chans[s]
    BY <1>0, <1>8, <2>1 DEF SameClocks, Extends
  <2>2. CASE cs = Append(chans[s], create_channel(ch)) /\ ch \notin Names(chans[s])
    <3>1. Len(cs) = Len(chans[s]) + 1 /\ cs[Len(cs)].name = ch
          /\ \A k \in 1 .. Len(chans[s]) : cs[k] = chans[s][k]
      BY <1>0, <2>2 DEF create_channel
    <3>2. Len(cs1) = Len(chans[s]) + 1 /\ cs1[Len(cs1)].name = ch
          /\ \A k \in 1 .. Len(chans[s]) : cs1[k].name = chans[s][k].name /\ cs1[k].tm = chans[s][k].tm
      BY <1>0, <1>8, <3>1 DEF SameClocks
    <3> QED
      BY <1>9, <2>2, <3>2 DEF Extends
  <2> QED
    BY <1>3, <2>1, <2>2
<1>13. Ends(s, net, SweptSubs(s), NoneTold)
  <2>1. Does(s, cs1, out)
    BY <1>8, <1>9, <1>11, <1>12 DEF Does
  <2> QED
    BY <1>4, <2>1, ResubEnds DEF ServerOK
<1>14. KeepsClocks(s, cs1)
  <2>1. \A k \in 1 .. Len(cs) : cs[k] = chans[s][k] \/ cs[k].tm = 0
    BY <1>0, <1>3 DEF create_channel
  <2>2. Len(cs) = Len(chans[s]) \/ (Len(cs) = Len(chans[s]) + 1 /\ cs[Len(cs)].tm = 0)
    BY <1>0, <1>3 DEF create_channel
  <2> QED
    BY <1>0, <1>5, <1>8, <2>1, <2>2 DEF SameClocks, KeepsClocks
<1>15. Works(s, net, SweptSubs(s), NoneTold, out)
  BY <1>4, <1>8, <1>14 DEF Works
<1> QED
  BY <1>13, <1>15 DEF Requested, out

\* LIST, and an iteration that finds no datagram:
LEMMA ListIteration ==
  ASSUME ServerOK, NEW s \in Servers, alive[s], ListRequest(s) \/ Idle(s)
  PROVE  Requested(s) /\ Works(s, net, SweptSubs(s), NoneTold, Nothing)
<1>1. Resub(s, net, chans[s], SweptSubs(s), NoneTold, Nothing)
  BY DEF ListRequest, Idle
<1>2. Nothing \in Outgoing /\ Honest(s, chans[s], Nothing)
  BY SendingTypes, SendingHonest
<1> QED
  BY <1>1, <1>2, PlainRequest, SameChannels DEF ServerOK

\* WHO:
LEMMA WhoIteration ==
  ASSUME ServerOK, NEW s \in Servers, alive[s], NEW ch \in ChannelNames, WhoRequest(s, ch)
  PROVE  Dies(s) \/ (Requested(s) /\ Works(s, net, SweptSubs(s), NoneTold, Nothing))
<1>1. \/ Dies(s)
      \/ Resub(s, net, chans[s], SweptSubs(s), NoneTold, Nothing)
      \/ Record(s, net, chans[s], SweptSubs(s), NoneTold, Nothing)
  BY DEF WhoRequest
<1>2. Nothing \in Outgoing /\ Honest(s, chans[s], Nothing)
  BY SendingTypes, SendingHonest
<1> QED
  BY <1>1, <1>2, PlainRequest, SameChannels DEF ServerOK

\* LEAVE: the one request that removes a channel.
LEMMA LeaveIteration ==
  ASSUME ServerOK, NEW s \in Servers, alive[s], NEW c \in Clients, NEW ch \in ChannelNames,
         "leave" \in Commands, LeaveRequest(s, c, ch)
  PROVE  Dies(s) \/ Requested(s)
<1> DEFINE i == find_channel(chans[s], ch)
           us == AfterLeave(s, c, UsersOf(s, ch))
<1> SUFFICES ASSUME ~Dies(s) PROVE Requested(s)
  OBVIOUS
<1>0. Nothing \in Outgoing /\ \A cs : Honest(s, cs, Nothing)
  BY SendingTypes, SendingHonest
<1>1. CASE ~HasChannel(chans[s], ch)
  <2>1. Record(s, net, chans[s], SweptSubs(s), NoneTold, Nothing)
    BY <1>1 DEF LeaveRequest
  <2> QED
    BY <1>0, <2>1, PlainRequest, SameChannels DEF ServerOK
<1>2. CASE HasChannel(chans[s], ch)
  <2>1. i \in 1 .. Len(chans[s]) /\ chans[s] \in Seq(Channel) /\ Len(chans[s]) \in Nat
    BY <1>2, FindChannel, RequestFacts
  <2>2. GoodUsers(us)
    BY UsersOfGood, RemoveUserGood, DropLastGood DEF ServerOK, AfterLeave, GoodUsers
  <2> DEFINE out == ToEach(Neighbours[s], Leave(ch))
             cs == remove_chnl(chans[s], i)
             ds == [chans[s] EXCEPT ![i].users = us]
  <2>3. \/ Resub(s, net, cs, SweptSubs(s), NoneTold, out)
        \/ Resub(s, net, ds, SweptSubs(s), NoneTold, Nothing)
    BY <1>2 DEF LeaveRequest
  <2> HIDE DEF i, us
  <2>4. GoodChannels(cs) /\ GoodChannels(ds) /\ SameClocks(chans[s], ds)
    BY <2>1, <2>2, RequestFacts, RemoveChannelGood, SetUsersGood, SetUsersClocks
  <2>5. out \in Outgoing /\ Honest(s, cs, out)
    BY MessageTypes, SendingTypes, SendingHonest
  <2>6. Shrinks(s, cs)
    <3>1. Len(cs) = Len(chans[s]) - 1
          /\ \A k \in 1 .. Len(cs) : cs[k] = chans[s][IF k < i THEN k ELSE k + 1]
      <4>1. /\ Len(RemoveAt(chans[s], i)) = Len(chans[s]) - 1
            /\ \A k \in 1 .. Len(chans[s]) - 1 :
                 RemoveAt(chans[s], i)[k] = chans[s][IF k < i THEN k ELSE k + 1]
        BY <2>1, RemovedAt
      <4>2. cs = RemoveAt(chans[s], i)
        BY DEF remove_chnl
      <4> QED
        BY ONLY <4>1, <4>2
    <3> HIDE DEF cs
    <3> QED
      BY <2>1, <3>1 DEF Shrinks
  <2> HIDE DEF cs, ds, out
  <2>7. CASE Resub(s, net, cs, SweptSubs(s), NoneTold, out)
    <3>1. Does(s, cs, out)
      BY <2>4, <2>5, <2>6 DEF Does
    <3>2. Ends(s, net, SweptSubs(s), NoneTold)
      BY <2>7, <3>1, ResubEnds DEF ServerOK
    <3> QED
      BY <3>2 DEF Requested
  <2>8. CASE Resub(s, net, ds, SweptSubs(s), NoneTold, Nothing)
    BY <1>0, <2>4, <2>8, PlainRequest
  <2> QED
    BY <2>3, <2>7, <2>8
<1> QED
  BY <1>1, <1>2

\* LOGOUT:
LEMMA LogoutIteration ==
  ASSUME ServerOK, NEW s \in Servers, alive[s], NEW c \in Clients, LogoutRequest(s, c)
  PROVE  Dies(s) \/ (Requested(s) /\ Works(s, net, SweptSubs(s), NoneTold, Nothing))
<1> DEFINE us == [i \in DOMAIN chans[s] |-> remove_user(chans[s][i].users, Username[c], freed[s])]
           vs == [i \in DOMAIN chans[s] |-> DropLast(chans[s][i].users)]
           cs == [i \in DOMAIN chans[s] |-> [chans[s][i] EXCEPT !.users = us[i]]]
           ds == [i \in DOMAIN chans[s] |-> [chans[s][i] EXCEPT !.users = vs[i]]]
<1>1. GoodChannels(chans[s]) /\ DOMAIN chans[s] = 1 .. Len(chans[s])
  BY RequestFacts DEF GoodChannels
<1>2. \A i \in DOMAIN chans[s] : GoodUsers(us[i]) /\ GoodUsers(vs[i])
  BY <1>1, ChannelUsers, RemoveUserGood, DropLastGood DEF GoodUsers
<1>3. \/ Dies(s)
      \/ Resub(s, net, cs, SweptSubs(s), NoneTold, Nothing)
      \/ Resub(s, net, ds, SweptSubs(s), NoneTold, Nothing)
  BY DEF LogoutRequest, LogoutKnown, LogoutUnknown, AfterLogout
<1> HIDE DEF us, vs
<1>4. GoodChannels(cs) /\ GoodChannels(ds)
  BY <1>1, <1>2, MapUsersGood
<1>5. SameClocks(chans[s], cs) /\ SameClocks(chans[s], ds)
  BY <1>1, MapUsersClocks
<1> HIDE DEF cs, ds
<1>6. Nothing \in Outgoing /\ Honest(s, cs, Nothing) /\ Honest(s, ds, Nothing)
  BY SendingTypes, SendingHonest
<1> QED
  BY <1>3, <1>4, <1>5, <1>6, PlainRequest

\* A Join of a neighbour: the channel is there, or it is added and announced.
LEMMA ServJoinIteration ==
  ASSUME ServerOK, NEW s \in Servers, alive[s], NEW t \in Servers, NEW nw, NEW ch \in ChannelNames,
         net[t][s] # <<>>, nw = [net EXCEPT ![t][s] = Tail(@)],
         Head(net[t][s]).type = "join", ch = Head(net[t][s]).chan, ServJoin(s, t, nw, ch)
  PROVE  Received(s, t)
<1> DEFINE sb == [SweptSubs(s) EXCEPT ![t] = Resubscribe(@, ch)]
           told == [NoneTold EXCEPT ![t] = {ch}]
           cs == IF HasChannel(chans[s], ch) THEN chans[s] ELSE add_chnl(chans[s], ch)
           out == Announce(s, t, ch)
<1>0. chans[s] \in Seq(Channel) /\ Len(chans[s]) \in Nat /\ GoodChannels(chans[s])
  BY RequestFacts
<1>1. Resub(s, nw, cs, sb, told, out) /\ ReadsOne(s, t, nw, sb, told)
  BY DEF ServJoin, ReadsOne
<1>2. GoodChannels(cs) /\ HasChannel(cs, ch)
  BY RequestFacts, AddChannelGood, AddedIsThere
<1>3. \/ cs = chans[s] /\ out = Nothing
      \/ /\ cs = Append(chans[s], create_channel(ch)) /\ ch \notin Names(chans[s])
         /\ out = ToEach(Neighbours[s], Join(ch))
  BY <1>0, NoChannel DEF add_chnl, Announce
<1> HIDE DEF sb, told, cs, out
<1>4. CASE cs = chans[s] /\ out = Nothing
  <2>1. Nothing \in Outgoing /\ Honest(s, cs, Nothing)
    BY SendingTypes, SendingHonest
  <2> QED
    BY <1>1, <1>2, <1>4, <2>1, PlainIteration, SameChannels DEF ServerOK, Received
<1>5. CASE /\ cs = Append(chans[s], create_channel(ch)) /\ ch \notin Names(chans[s])
           /\ out = ToEach(Neighbours[s], Join(ch))
  <2>1. out \in Outgoing
    BY <1>5, MessageTypes, SendingTypes
  <2>2. Tells(s, ch, out)
    BY <1>5, ChatServerAssumption DEF Tells, ToEach, Range
  <2>3. Honest(s, cs, out)
    <3>1. cs \in Seq(Channel)
      BY <1>2 DEF GoodChannels
    <3>2. ch \in Names(cs)
      BY <1>2, <3>1, NoChannel
    <3> QED
      BY <1>5, <3>2, SendingHonest
  <2>4. Len(cs) = Len(chans[s]) + 1 /\ cs[Len(cs)].name = ch
        /\ \A k \in 1 .. Len(chans[s]) : cs[k] = chans[s][k]
    BY <1>0, <1>5 DEF create_channel
  <2>5. Extends(s, cs, out)
    BY <1>0, <1>5, <2>2, <2>4 DEF Extends
  <2>6. Does(s, cs, out)
    BY <1>2, <2>1, <2>3, <2>5 DEF Does
  <2>7. Ends(s, nw, sb, told)
    BY <1>1, <2>6, ResubEnds DEF ServerOK
  <2> QED
    BY <1>1, <2>7 DEF Received
<1> QED
  BY <1>3, <1>4, <1>5

\* The Leave of a neighbour:
LEMMA ServLeaveIteration ==
  ASSUME ServerOK, NEW s \in Servers, alive[s], NEW t \in Servers, NEW nw,
         net[t][s] # <<>>, nw = [net EXCEPT ![t][s] = Tail(@)],
         Head(net[t][s]).type = "leave", ServLeave(s, t, nw)
  PROVE  Dies(s) \/ Received(s, t)
<1> DEFINE sb == [SweptSubs(s) EXCEPT ![t] = remove_adj_channel(@)]
<1> SUFFICES ASSUME ~Dies(s) PROVE Received(s, t)
  OBVIOUS
<1>1. Resub(s, nw, chans[s], sb, NoneTold, Nothing) /\ ReadsOne(s, t, nw, sb, NoneTold)
  BY DEF ServLeave, ReadsOne
<1>2. Nothing \in Outgoing /\ Honest(s, chans[s], Nothing)
  BY SendingTypes, SendingHonest
<1> HIDE DEF sb
<1> QED
  BY <1>1, <1>2, PlainIteration, SameChannels DEF ServerOK, Received

\* The Say of a neighbour:
LEMMA ServSayIteration ==
  ASSUME ServerOK, NEW s \in Servers, alive[s], NEW t \in Servers, NEW nw,
         NEW ch \in ChannelNames, NEW id \in Ids,
         net[t][s] # <<>>, nw = [net EXCEPT ![t][s] = Tail(@)],
         Head(net[t][s]).type = "say", ServSay(s, t, nw, ch, id)
  PROVE  Dies(s) \/ Received(s, t)
<1> DEFINE sb == SweptSubs(s)
           back == ToEach({t}, Leave(ch))
           on == ToEach(ForwardTo(sb, s, t, ch), Say(ch, id))
<1> SUFFICES ASSUME ~Dies(s) PROVE Received(s, t)
  OBVIOUS
<1>1. \/ Resub(s, nw, chans[s], sb, NoneTold, back)
      \/ Resub(s, nw, chans[s], sb, NoneTold, on) /\ HasChannel(chans[s], ch)
  BY DEF ServSay
<1>2. ReadsOne(s, t, nw, sb, NoneTold)
  BY DEF ReadsOne
<1>3. back \in Outgoing /\ on \in Outgoing /\ Honest(s, chans[s], back)
  BY MessageTypes, SendingTypes, SendingHonest
<1>4. HasChannel(chans[s], ch) => Honest(s, chans[s], on)
  BY NoChannel, RequestFacts, SendingHonest
<1> HIDE DEF sb, back, on
<1> QED
  BY <1>1, <1>2, <1>3, <1>4, PlainIteration, SameChannels DEF ServerOK, Received

\* Any datagram of a neighbour:
LEMMA ReceiveIteration ==
  ASSUME ServerOK, NEW s \in Servers, NEW t \in Servers, Receive(s, t)
  PROVE  Dies(s) \/ Received(s, t)
<1> DEFINE m == Head(net[t][s])
           nw == [net EXCEPT ![t][s] = Tail(@)]
<1>1. m \in Message
  BY ReadTypes DEF Receive
<1>2. m.chan \in ChannelNames /\ (m.type = "say" => m.id \in Ids)
  BY <1>1 DEF Message
<1>3. /\ alive[s] /\ net[t][s] # <<>>
      /\ \/ m.type = "join" /\ ServJoin(s, t, nw, m.chan)
         \/ m.type = "leave" /\ ServLeave(s, t, nw)
         \/ m.type = "say" /\ ServSay(s, t, nw, m.chan, m.id)
  BY DEF Receive
<1> QED
  BY <1>2, <1>3, ServJoinIteration, ServLeaveIteration, ServSayIteration

\* What a step can be, for the servers: an iteration of one, the end of one, the
\* passing of time, or something that happens to a datagram.
StepForm ==
  \/ \E s \in Servers : Dies(s) \/ Iteration(s)
  \/ TimePasses
  \/ UNCHANGED serverVars
  \/ \E s, t \in Servers : DatagramLost(s, t) \/ DatagramDuplicated(s, t) \/ DatagramOvertaken(s, t)

\* The same, with the datagram that is read.
ActionForm ==
  \/ \E s \in Servers : Dies(s) \/ Requested(s)
  \/ \E s, t \in Servers : Receive(s, t) /\ (Dies(s) \/ Received(s, t))
  \/ TimePasses
  \/ UNCHANGED serverVars
  \/ \E s, t \in Servers : DatagramLost(s, t) \/ DatagramDuplicated(s, t) \/ DatagramOvertaken(s, t)

\* A step of a client.
LEMMA ClientStepForm ==
  ASSUME ServerOK, SessOK, NEW c \in Clients, ClientStep(c)
  PROVE  ActionForm
<1>1. Home[c] \in Servers /\ sess[c].active \in ChannelNames /\ Common \in ChannelNames
  BY SessionPlace
<1>2. \/ UNCHANGED serverVars
      \/ /\ alive[Home[c]]
         /\ \/ LoginRequest(Home[c], c) \/ ListRequest(Home[c]) \/ LogoutRequest(Home[c], c)
            \/ \E ch \in ChannelNames : JoinRequest(Home[c], c, ch) \/ WhoRequest(Home[c], ch)
            \/ \E ch \in ChannelNames : "leave" \in Commands /\ LeaveRequest(Home[c], c, ch)
            \/ \E id \in Ids : SayRequest(Home[c], c, sess[c].active, id)
  BY <1>1 DEF ClientStep, Login, JoinCommon, JoinCommand, LeaveCommand, SwitchCommand,
       SayCommand, WhoCommand, ListCommand, LogoutCommand, Handled, LostRequest, Types
<1> QED
  BY <1>1, <1>2, LoginIteration, ListIteration, LogoutIteration, JoinIteration, WhoIteration,
     LeaveIteration, SayIteration DEF ActionForm

\* Every step.
LEMMA NextActions ==
  ASSUME ServerOK, SessOK, [Next]_vars
  PROVE  ActionForm
<1>1. ASSUME NEW s \in Servers, NEW t \in Servers, ServerReceive(s, t) PROVE ActionForm
  BY <1>1, ReceiveIteration DEF ServerReceive, ActionForm
<1>2. ASSUME NEW s \in Servers, ServerIdle(s) \/ ServerKilled(s) PROVE ActionForm
  <2>1. CASE ServerIdle(s)
    <3>1. Idle(s) /\ alive[s]
      BY <2>1 DEF ServerIdle, Idle
    <3> QED
      BY <3>1, ListIteration DEF ActionForm
  <2>2. CASE ServerKilled(s)
    BY <2>2 DEF ServerKilled, Kill, ActionForm
  <2> QED
    BY <1>2, <2>1, <2>2
<1>3. CASE UNCHANGED vars
  BY <1>3 DEF vars, ActionForm
<1>4. CASE Next
  BY <1>1, <1>2, <1>4, ClientStepForm DEF Next, ActionForm
<1> QED
  BY <1>3, <1>4

\* With the actions forgotten.
LEMMA NextForm ==
  ASSUME ServerOK, SessOK, [Next]_vars
  PROVE  StepForm
BY NextActions DEF ActionForm, StepForm, Iteration

--------------------------------------------------------------------------------
(* What becomes of the subscriptions of a neighbour *)

\* The later entries may be gone.
Within(after, before) ==
  /\ Len(after.items) <= Len(before.items)
  /\ \A k \in 1 .. Len(after.items) : after.items[k] = before.items[k]

\* The sweep and neat_remove take entries from the end.
LEMMA SweptWithin ==
  ASSUME NEW srvr, GoodSubs(srvr)
  PROVE  Within(Swept(srvr), srvr)
<1> DEFINE reached == {j \in Stale(srvr) :
                j + Cardinality({k \in Stale(srvr) : k < j}) <= Len(srvr.items)}
           n == Cardinality(reached)
<1>1. reached \in SUBSET (1 .. Len(srvr.items)) /\ Len(srvr.items) \in Nat
      /\ srvr.items \in Seq(Subscription)
  BY DEF Stale, GoodSubs, CountedArrays
<1>2. n \in Nat
  BY <1>1, PositionsFinite
<1>3. Swept(srvr) = [srvr EXCEPT !.items = SubSeq(srvr.items, 1, Len(srvr.items) - n)]
  BY DEF Swept, GoodSubs, CountedArrays
<1> HIDE DEF n
<1>4. Swept(srvr).items = SubSeq(srvr.items, 1, Len(srvr.items) - n)
  BY <1>3 DEF GoodSubs, CountedArrays
<1> QED
  BY <1>1, <1>2, <1>4 DEF Within

\* Nor does the removal of the last one change the others.
LEMMA DropLastWithin ==
  ASSUME NEW srvr, GoodSubs(srvr)
  PROVE  Within(DropLast(srvr), srvr)
<1>1. srvr.items \in Seq(Subscription) /\ srvr = [items |-> srvr.items, debt |-> srvr.debt]
  BY DEF GoodSubs, CountedArrays
<1>2. CASE srvr.items = <<>>
  <2>1. DropLast(srvr).items = srvr.items
    BY <1>1, <1>2 DEF DropLast
  <2> QED
    BY <1>1, <2>1 DEF Within
<1>3. CASE srvr.items # <<>>
  <2>1. DropLast(srvr).items = SubSeq(srvr.items, 1, Len(srvr.items) - 1)
    BY <1>1, <1>3 DEF DropLast, Front
  <2> QED
    BY <1>1, <1>3, <2>1 DEF Within
<1> QED
  BY <1>2, <1>3

\* What a Join on ch makes of the subscriptions: it resets the timer of one, adds one,
\* or pays a debt.
Resubscribed(srvr, ch, after) ==
  \/ after.items = srvr.items /\ ch \notin Subscribed(srvr) /\ srvr.debt > 0
  \/ /\ after.items = Append(srvr.items, [chan |-> ch, age |-> 0])
     /\ ch \notin Subscribed(srvr)
  \/ \E i \in 1 .. Len(srvr.items) : /\ srvr.items[i].chan = ch
                                    /\ after.items = [srvr.items EXCEPT ![i].age = 0]

\* There is no other case.
LEMMA ResubscribeCases ==
  ASSUME NEW srvr, GoodSubs(srvr), NEW ch
  PROVE  Resubscribed(srvr, ch, Resubscribe(srvr, ch))
<1> DEFINE i == find_channel_server(srvr, ch)
<1>0. srvr = [items |-> srvr.items, debt |-> srvr.debt] /\ srvr.debt \in Nat
  BY DEF GoodSubs, CountedArrays
<1>1. CASE i = 0
  <2>1. ch \notin Subscribed(srvr)
    BY <1>1, NoSubscription DEF has_channel_server, GoodSubs
  <2>2. Resubscribe(srvr, ch) = Store(srvr, [chan |-> ch, age |-> 0])
    BY <1>1 DEF Resubscribe, add_ch_srv
  <2>3. CASE srvr.debt > 0
    BY <1>0, <2>1, <2>2, <2>3 DEF Store, Resubscribed
  <2>4. CASE ~(srvr.debt > 0)
    BY <1>0, <2>1, <2>2, <2>4 DEF Store, Resubscribed
  <2> QED
    BY <2>3, <2>4
<1>2. CASE i # 0
  <2>1. i \in 1 .. Len(srvr.items) /\ srvr.items[i].chan = ch
    BY <1>2, FindSubscription DEF GoodSubs
  <2>2. Resubscribe(srvr, ch) = [srvr EXCEPT !.items[i].age = 0]
    BY <1>2 DEF Resubscribe
  <2> HIDE DEF i
  <2>3. Resubscribe(srvr, ch).items = [srvr.items EXCEPT ![i].age = 0]
    BY <1>0, <2>2
  <2> QED
    BY <2>1, <2>3 DEF Resubscribed
<1> QED
  BY <1>1, <1>2

\* What a Join leaves, entry by entry.
LEMMA ResubscribeEntries ==
  ASSUME NEW srvr, GoodSubs(srvr), NEW ch
  PROVE  LET after == Resubscribe(srvr, ch)
             n == Len(srvr.items)
         IN  /\ Len(after.items) \in {n, n + 1}
             /\ \A k \in 1 .. n : after.items[k].chan = srvr.items[k].chan
             /\ \A k \in 1 .. n : \/ after.items[k].age = srvr.items[k].age
                                  \/ after.items[k] = [chan |-> ch, age |-> 0]
             /\ \A k \in 1 .. n : DistinctSubs(srvr) /\ srvr.items[k].chan = ch => after.items[k].age = 0
             /\ Len(after.items) = n + 1 =>
                  /\ after.items[n + 1] = [chan |-> ch, age |-> 0]
                  /\ ch \notin Subscribed(srvr)
             /\ srvr.debt = 0 => ch \in Subscribed(after)
<1> DEFINE after == Resubscribe(srvr, ch)
           n == Len(srvr.items)
<1>0. srvr.items \in Seq(Subscription) /\ DOMAIN srvr.items = 1 .. n /\ n \in Nat
  BY DEF GoodSubs, CountedArrays
<1>1. CASE after.items = srvr.items /\ ch \notin Subscribed(srvr) /\ srvr.debt > 0
  <2>1. \A k \in 1 .. n : srvr.items[k].chan # ch
    BY <1>0, <1>1 DEF Subscribed
  <2> HIDE DEF after
  <2>2. srvr.debt # 0
    BY <1>1 DEF GoodSubs, CountedArrays
  <2> QED
    BY <1>0, <1>1, <2>1, <2>2 DEF after
<1>2. CASE after.items = Append(srvr.items, [chan |-> ch, age |-> 0]) /\ ch \notin Subscribed(srvr)
  <2>1. \A k \in 1 .. n : srvr.items[k].chan # ch
    BY <1>0, <1>2 DEF Subscribed
  <2> HIDE DEF after
  <2>2. Len(after.items) = n + 1 /\ after.items[n + 1] = [chan |-> ch, age |-> 0]
        /\ \A k \in 1 .. n : after.items[k] = srvr.items[k]
    BY <1>0, <1>2
  <2>3. ch \in Subscribed(after)
    <3>1. n + 1 \in DOMAIN after.items /\ after.items[n + 1].chan = ch
      BY <1>0, <1>2, <2>2
    <3> QED
      BY <3>1 DEF Subscribed
  <2> QED
    BY <1>0, <1>2, <2>1, <2>2, <2>3 DEF after
<1>3. ASSUME NEW i \in 1 .. n, srvr.items[i].chan = ch, after.items = [srvr.items EXCEPT ![i].age = 0]
      PROVE  /\ Len(after.items) = n
             /\ after.items[i] = [chan |-> ch, age |-> 0]
             /\ \A k \in 1 .. n : k # i => after.items[k] = srvr.items[k]
             /\ ch \in Subscribed(after)
  <2> HIDE DEF after
  <2>1. srvr.items[i] \in Subscription
    BY <1>0
  <2>2. [srvr.items[i] EXCEPT !.age = 0] = [chan |-> ch, age |-> 0]
    BY <1>3, <2>1 DEF Subscription
  <2>3. Len(after.items) = n /\ DOMAIN after.items = 1 .. n
        /\ after.items[i] = [srvr.items[i] EXCEPT !.age = 0]
        /\ \A k \in 1 .. n : k # i => after.items[k] = srvr.items[k]
    BY <1>0, <1>3
  <2>4. ch \in Subscribed(after)
    <3>1. i \in DOMAIN after.items /\ after.items[i].chan = ch
      BY <2>2, <2>3
    <3> QED
      BY <3>1 DEF Subscribed
  <2> QED
    BY <2>2, <2>3, <2>4
<1>4. ASSUME NEW i \in 1 .. n, srvr.items[i].chan = ch, after.items = [srvr.items EXCEPT ![i].age = 0]
      PROVE  /\ \A k \in 1 .. n : after.items[k].chan = srvr.items[k].chan
             /\ \A k \in 1 .. n : \/ after.items[k].age = srvr.items[k].age
                                  \/ after.items[k] = [chan |-> ch, age |-> 0]
             /\ \A k \in 1 .. n : DistinctSubs(srvr) /\ srvr.items[k].chan = ch => after.items[k].age = 0
  <2>1. /\ after.items[i] = [chan |-> ch, age |-> 0]
        /\ \A k \in 1 .. n : k # i => after.items[k] = srvr.items[k]
    BY <1>3, <1>4
  <2> HIDE DEF after
  <2> QED
    BY <1>4, <2>1 DEF DistinctSubs
<1>5. Resubscribed(srvr, ch, after)
  BY ResubscribeCases
<1>6. ASSUME \E i \in 1 .. n : /\ srvr.items[i].chan = ch
                               /\ after.items = [srvr.items EXCEPT ![i].age = 0]
      PROVE  /\ Len(after.items) = n
             /\ ch \in Subscribed(after)
             /\ \A k \in 1 .. n : after.items[k].chan = srvr.items[k].chan
             /\ \A k \in 1 .. n : \/ after.items[k].age = srvr.items[k].age
                                  \/ after.items[k] = [chan |-> ch, age |-> 0]
             /\ \A k \in 1 .. n : DistinctSubs(srvr) /\ srvr.items[k].chan = ch => after.items[k].age = 0
  BY <1>3, <1>4, <1>6
<1>7. n # n + 1
  BY <1>0
<1> HIDE DEF after, n
<1>8. CASE \E i \in 1 .. n : /\ srvr.items[i].chan = ch
                             /\ after.items = [srvr.items EXCEPT ![i].age = 0]
  BY <1>6, <1>7, <1>8 DEF after, n
<1> QED
  BY <1>1, <1>2, <1>5, <1>8 DEF Resubscribed, n

ReadsJoin(s, t, nw, ch) ==
  /\ net[t][s] # <<>> /\ Head(net[t][s]) = Join(ch)
  /\ nw = [net EXCEPT ![t][s] = Tail(@)]

\* The subscriptions of t after the datagram that s read: the later ones may be
\* gone, unless it was a Join of t.
LEMMA ReadSubs ==
  ASSUME ServerOK, NEW s \in Servers, NEW nw, NEW sb, NEW told,
         Takes(s, nw, sb, told),
         NEW t \in Servers
  PROVE  \/ /\ told[t] = {}
            /\ \/ sb[t] = Swept(subs[s][t])
               \/ sb[t] = DropLast(Swept(subs[s][t]))
            /\ Within(sb[t], subs[s][t])
         \/ \E ch \in ChannelNames :
              /\ ReadsJoin(s, t, nw, ch)
              /\ told[t] = {ch}
              /\ sb[t] = Resubscribe(Swept(subs[s][t]), ch)
<1>1. /\ GoodSubs(subs[s][t]) /\ GoodSubs(Swept(subs[s][t]))
      /\ Within(Swept(subs[s][t]), subs[s][t])
  BY SweptWithin, SweptGood DEF ServerOK, LoopOK, GoodSubsOf
<1>2. Within(DropLast(Swept(subs[s][t])), subs[s][t])
  <2>1. Within(DropLast(Swept(subs[s][t])), Swept(subs[s][t]))
    BY <1>1, DropLastWithin
  <2>2. /\ Len(DropLast(Swept(subs[s][t])).items) \in Nat
        /\ Len(Swept(subs[s][t]).items) \in Nat /\ Len(subs[s][t].items) \in Nat
    BY <1>1, DropLastGood DEF GoodSubs, CountedArrays
  <2> QED
    BY <1>1, <2>1, <2>2 DEF Within
<1>3. SweptSubs(s)[t] = Swept(subs[s][t]) /\ NoneTold[t] = {}
  BY DEF SweptSubs, NoneTold
<1>4. CASE ReadsNone(s, nw, sb, told)
  BY <1>1, <1>3, <1>4 DEF ReadsNone
<1>5. ASSUME NEW p \in Servers, ReadsOne(s, p, nw, sb, told), p # t
      PROVE  told[t] = {} /\ sb[t] = Swept(subs[s][t])
  BY <1>3, <1>5 DEF ReadsOne, SweptSubs, NoneTold
<1>6. CASE ReadsOne(s, t, nw, sb, told)
  <2> DEFINE m == Head(net[t][s])
  <2>1. m \in Message
    BY <1>6, ReadTypes DEF ReadsOne
  <2>2. m.type = "join" => m = Join(m.chan) /\ m.chan \in ChannelNames
    BY <2>1 DEF Message, Join
  <2>3. \/ m.type = "join" /\ sb[t] = Resubscribe(Swept(subs[s][t]), m.chan) /\ told[t] = {m.chan}
        \/ sb[t] = DropLast(Swept(subs[s][t])) /\ told[t] = {}
        \/ sb[t] = Swept(subs[s][t]) /\ told[t] = {}
    BY <1>3, <1>6 DEF ReadsOne, SweptSubs, NoneTold, remove_adj_channel
  <2>4. net[t][s] # <<>> /\ nw = [net EXCEPT ![t][s] = Tail(@)]
    BY <1>6 DEF ReadsOne
  <2> HIDE DEF m
  <2> QED
    BY <1>1, <1>2, <2>2, <2>3, <2>4 DEF m, ReadsJoin
<1> QED
  BY <1>1, <1>4, <1>5, <1>6 DEF Takes

\* Types of what an iteration works with.
LEMMA ReadTypesOf ==
  ASSUME ServerOK, NEW s \in Servers, NEW nw, NEW sb, NEW told,
         Takes(s, nw, sb, told)
  PROVE  /\ nw \in [Servers -> Outgoing]
         /\ \A p, q \in Servers : Range(nw[p][q]) \subseteq Range(net[p][q])
         /\ told \in [Servers -> SUBSET ChannelNames]
<1>1. net \in [Servers -> Outgoing] /\ NoneTold \in [Servers -> SUBSET ChannelNames]
  BY RequestFacts
<1>2. CASE ReadsNone(s, nw, sb, told)
  BY <1>1, <1>2 DEF ReadsNone
<1>3. ASSUME NEW t \in Servers, ReadsOne(s, t, nw, sb, told)
      PROVE  /\ nw \in [Servers -> Outgoing]
             /\ \A p, q \in Servers : Range(nw[p][q]) \subseteq Range(net[p][q])
             /\ told \in [Servers -> SUBSET ChannelNames]
  <2>1. net[t][s] # <<>> /\ nw = [net EXCEPT ![t][s] = Tail(@)]
    BY <1>3 DEF ReadsOne
  <2>2. nw \in [Servers -> Outgoing] /\ Head(net[t][s]) \in Message
    BY <2>1, ReadTypes
  <2>3. Range(Tail(net[t][s])) \subseteq Range(net[t][s])
    <3>1. net[t][s] \in Seq(Message)
      BY <1>1 DEF Outgoing
    <3>2. \A k \in DOMAIN Tail(net[t][s]) : k + 1 \in DOMAIN net[t][s]
                                            /\ Tail(net[t][s])[k] = net[t][s][k + 1]
      BY <2>1, <3>1
    <3> QED
      BY <3>2 DEF Range
  <2>4. \A p, q \in Servers : nw[p][q] = IF p = t /\ q = s THEN Tail(net[t][s]) ELSE net[p][q]
    BY <1>1, <2>1 DEF Outgoing
  <2>5. told \in [Servers -> SUBSET ChannelNames]
    <3>1. Head(net[t][s]).chan \in ChannelNames
      BY <2>2 DEF Message
    <3> QED
      BY <1>1, <1>3, <3>1 DEF ReadsOne
  <2> QED
    BY <2>2, <2>3, <2>4, <2>5
<1> QED
  BY <1>2, <1>3 DEF Takes

--------------------------------------------------------------------------------
(* No name is in a table twice *)

NamesDistinct ==
  \A s \in Servers : DistinctNames(chans[s]) /\ \A t \in Servers : DistinctSubs(subs[s][t])

\* It is the property that the runs check.
LEMMA NamesDistinctIs == ServerOK => (NamesDistinct <=> NoNameTwice)
<1> SUFFICES ASSUME ServerOK PROVE NamesDistinct <=> NoNameTwice
  OBVIOUS
<1>1. \A s \in Servers : DOMAIN chans[s] = 1 .. Len(chans[s])
  BY DEF ServerOK, LoopOK
<1>2. \A s, t \in Servers : DOMAIN subs[s][t].items = 1 .. Len(subs[s][t].items)
  BY DEF ServerOK, LoopOK, CountedArrays
<1>3. \A s \in Servers : DistinctNames(chans[s]) <=>
        \A i, j \in DOMAIN chans[s] : chans[s][i].name = chans[s][j].name => i = j
  BY <1>1 DEF DistinctNames
<1>4. \A s, t \in Servers : DistinctSubs(subs[s][t]) <=>
        \A i, j \in DOMAIN subs[s][t].items :
          subs[s][t].items[i].chan = subs[s][t].items[j].chan => i = j
  <2> TAKE s, t \in Servers
  <2>1. DOMAIN subs[s][t].items = 1 .. Len(subs[s][t].items)
    BY <1>2
  <2> QED
    BY ONLY <2>1 DEF DistinctSubs
<1> QED
  BY <1>3, <1>4 DEF NamesDistinct, NoNameTwice

\* Channels are added under new names, and keep theirs.
LEMMA DoesDistinct ==
  ASSUME LoopOK, NEW s \in Servers, NEW cs, NEW out, Does(s, cs, out), DistinctNames(chans[s])
  PROVE  DistinctNames(cs)
<1>1. Len(chans[s]) \in Nat /\ Len(cs) \in Nat
  BY DEF LoopOK, Does, GoodChannels
<1>2. CASE Shrinks(s, cs)
  <2>1. PICK i \in 1 .. Len(chans[s]) :
          /\ Len(cs) = Len(chans[s]) - 1
          /\ \A k \in 1 .. Len(cs) : cs[k].name = chans[s][IF k < i THEN k ELSE k + 1].name
    BY <1>2 DEF Shrinks
  <2>2. \A j, k \in 1 .. Len(chans[s]) : chans[s][j].name = chans[s][k].name => j = k
    BY DEF DistinctNames
  <2> DEFINE At(k) == IF k < i THEN k ELSE k + 1
  <2>3. \A k \in 1 .. Len(cs) : At(k) \in 1 .. Len(chans[s])
    BY ONLY <1>1, <2>1
  <2>4. \A j, k \in 1 .. Len(cs) : At(j) = At(k) => j = k
    BY ONLY <1>1, <2>1
  <2>5. \A k \in 1 .. Len(cs) : cs[k].name = chans[s][At(k)].name
    BY <2>1
  <2> HIDE DEF At
  <2> QED
    BY ONLY <2>2, <2>3, <2>4, <2>5 DEF DistinctNames
<1>3. CASE Extends(s, cs, out)
  <2> SUFFICES ASSUME NEW i \in 1 .. Len(cs), NEW j \in 1 .. Len(cs), cs[i].name = cs[j].name
               PROVE  i = j
    BY DEF DistinctNames
  <2> DEFINE n == Len(chans[s])
  <2>1. \A k \in 1 .. n : cs[k].name = chans[s][k].name /\ chans[s][k].name \in Names(chans[s])
    BY <1>3 DEF Extends, Names
  <2>2. CASE Len(cs) = n
    BY <2>1, <2>2 DEF DistinctNames
  <2>3. CASE Len(cs) = n + 1
    <3>1. cs[n + 1].name \notin Names(chans[s])
      BY <1>3, <2>3 DEF Extends
    <3>2. (i \in 1 .. n \/ i = n + 1) /\ (j \in 1 .. n \/ j = n + 1)
      BY <1>1, <2>3
    <3> HIDE DEF n
    <3> QED
      BY <2>1, <3>1, <3>2 DEF DistinctNames, n
  <2> QED
    BY <1>3, <2>2, <2>3 DEF Extends
<1> QED
  BY <1>2, <1>3 DEF Does

\* Entries that go leave the others distinct.
LEMMA WithinDistinct ==
  ASSUME NEW a, NEW b, Len(a.items) \in Nat, Len(b.items) \in Nat, Within(a, b), DistinctSubs(b)
  PROVE  DistinctSubs(a)
BY DEF Within, DistinctSubs

\* A Join adds a subscription only if there is none.
LEMMA ResubscribeDistinct ==
  ASSUME NEW srvr, GoodSubs(srvr), NEW ch, DistinctSubs(srvr)
  PROVE  DistinctSubs(Resubscribe(srvr, ch))
<1> DEFINE after == Resubscribe(srvr, ch)
           n == Len(srvr.items)
<1>1. n \in Nat /\ DOMAIN srvr.items = 1 .. n
  BY DEF GoodSubs, CountedArrays
<1>2. /\ Len(after.items) \in {n, n + 1}
      /\ \A k \in 1 .. n : after.items[k].chan = srvr.items[k].chan
      /\ Len(after.items) = n + 1 =>
           after.items[n + 1] = [chan |-> ch, age |-> 0] /\ ch \notin Subscribed(srvr)
  <2>1. Len(after.items) \in {n, n + 1}
    BY ResubscribeEntries
  <2>2. \A k \in 1 .. n : after.items[k].chan = srvr.items[k].chan
    BY ResubscribeEntries
  <2>3. Len(after.items) = n + 1 =>
          after.items[n + 1] = [chan |-> ch, age |-> 0] /\ ch \notin Subscribed(srvr)
    BY ResubscribeEntries
  <2> QED
    BY <2>1, <2>2, <2>3
<1>3. \A k \in 1 .. n : srvr.items[k].chan \in Subscribed(srvr)
  BY <1>1 DEF Subscribed
<1> HIDE DEF after
<1> SUFFICES ASSUME NEW i \in 1 .. Len(after.items), NEW j \in 1 .. Len(after.items),
                    after.items[i].chan = after.items[j].chan
             PROVE  i = j
  BY DEF DistinctSubs, after
<1>4. CASE Len(after.items) = n
  BY <1>1, <1>2, <1>4 DEF DistinctSubs
<1>5. CASE Len(after.items) = n + 1
  <2>1. (i \in 1 .. n \/ i = n + 1) /\ (j \in 1 .. n \/ j = n + 1)
    BY <1>1, <1>5
  <2>2. after.items[n + 1].chan = ch /\ ch \notin Subscribed(srvr)
    BY <1>2, <1>5
  <2>3. \A k \in 1 .. n : after.items[k].chan = srvr.items[k].chan /\ srvr.items[k].chan # ch
    BY <1>2, <1>3, <2>2
  <2>4. \A k, l \in 1 .. n : srvr.items[k].chan = srvr.items[l].chan => k = l
    BY DEF DistinctSubs
  <2> HIDE DEF n
  <2> QED
    BY <2>1, <2>2, <2>3, <2>4
<1> QED
  BY <1>2, <1>4, <1>5

\* The clock changes no name; ages and clocks go up by one, or stay where they are.
LEMMA AgedEntries ==
  ASSUME NEW srvr, GoodSubs(srvr)
  PROVE  /\ Len(Aged(srvr).items) = Len(srvr.items)
         /\ \A k \in 1 .. Len(srvr.items) : Aged(srvr).items[k] = Older(srvr.items[k])
         /\ \A k \in 1 .. Len(srvr.items) : Older(srvr.items[k]).chan = srvr.items[k].chan
<1> DEFINE aged == [i \in DOMAIN srvr.items |-> Older(srvr.items[i])]
<1>1. srvr.items \in Seq(Subscription) /\ DOMAIN srvr.items = 1 .. Len(srvr.items)
      /\ Len(srvr.items) \in Nat
  BY DEF GoodSubs, CountedArrays
<1>2. Aged(srvr).items = aged
  BY DEF Aged, GoodSubs, CountedArrays
<1>3. Len(aged) = Len(srvr.items) /\ \A k \in 1 .. Len(srvr.items) : aged[k] = Older(srvr.items[k])
  BY <1>1
<1>4. \A k \in 1 .. Len(srvr.items) : Older(srvr.items[k]).chan = srvr.items[k].chan
  BY <1>1 DEF Older, Subscription
<1> HIDE DEF aged
<1> QED
  BY <1>2, <1>3, <1>4

\* And so do the channels.
LEMMA AgedChannelEntries ==
  ASSUME NEW cs, GoodChannels(cs)
  PROVE  /\ Len(AgedChannels(cs)) = Len(cs)
         /\ \A k \in 1 .. Len(cs) :
              /\ AgedChannels(cs)[k].name = cs[k].name
              /\ AgedChannels(cs)[k].tm = IF cs[k].tm > Min1 THEN cs[k].tm ELSE cs[k].tm + 1
<1>1. cs \in Seq(Channel) /\ DOMAIN cs = 1 .. Len(cs) /\ Len(cs) \in Nat
  BY DEF GoodChannels
<1>2. \A k \in 1 .. Len(cs) : \A n : /\ [cs[k] EXCEPT !.tm = n].name = cs[k].name
                                     /\ [cs[k] EXCEPT !.tm = n].tm = n
  BY <1>1 DEF Channel
<1> DEFINE aged == AgedChannels(cs)
<1>3. \A k \in 1 .. Len(cs) :
        aged[k] = [cs[k] EXCEPT !.tm = IF cs[k].tm > Min1 THEN cs[k].tm ELSE cs[k].tm + 1]
  BY <1>1 DEF AgedChannels
<1>4. Len(aged) = Len(cs)
  BY <1>1 DEF AgedChannels
<1> HIDE DEF aged
<1>5. ASSUME NEW k \in 1 .. Len(cs)
      PROVE  /\ aged[k].name = cs[k].name
             /\ aged[k].tm = IF cs[k].tm > Min1 THEN cs[k].tm ELSE cs[k].tm + 1
  <2> DEFINE n == IF cs[k].tm > Min1 THEN cs[k].tm ELSE cs[k].tm + 1
  <2>1. aged[k] = [cs[k] EXCEPT !.tm = n]
    BY <1>3
  <2> HIDE DEF n
  <2>2. aged[k].name = cs[k].name /\ aged[k].tm = n
    BY <1>2, <2>1
  <2> QED
    BY <2>2 DEF n
<1> QED
  BY <1>4, <1>5 DEF aged

\* The subscriptions after the datagram of an iteration have no name twice.
LEMMA ReadDistinct ==
  ASSUME ServerOK, NEW s \in Servers, NEW nw, NEW sb, NEW told,
         Takes(s, nw, sb, told),
         NEW t \in Servers, DistinctSubs(subs[s][t])
  PROVE  DistinctSubs(sb[t])
<1> DEFINE swept == Swept(subs[s][t])
<1>1. /\ GoodSubs(subs[s][t]) /\ GoodSubs(swept) /\ GoodSubs(DropLast(swept))
      /\ Within(swept, subs[s][t])
  BY SweptWithin, SweptGood, DropLastGood DEF ServerOK, LoopOK, GoodSubsOf, GoodSubs
<1>2. \A a : GoodSubs(a) => Len(a.items) \in Nat
  BY DEF GoodSubs, CountedArrays
<1>3. DistinctSubs(swept)
  BY <1>1, <1>2, WithinDistinct
<1>4. \A ch : DistinctSubs(Resubscribe(swept, ch))
  BY <1>1, <1>3, ResubscribeDistinct
<1>5. \/ Within(sb[t], subs[s][t]) /\ GoodSubs(sb[t])
      \/ \E ch \in ChannelNames : sb[t] = Resubscribe(swept, ch)
  <2>1. CASE told[t] = {}
    <3>1. Within(sb[t], subs[s][t]) /\ (sb[t] = swept \/ sb[t] = DropLast(swept))
      BY <2>1, ReadSubs
    <3> QED
      BY <1>1, <3>1
  <2>2. CASE told[t] # {}
    BY <2>2, ReadSubs
  <2> QED
    BY <2>1, <2>2
<1> HIDE DEF swept
<1> QED
  BY <1>1, <1>2, <1>4, <1>5, WithinDistinct

\* Every step.
LEMMA NextDistinct ==
  ASSUME ServerOK, SessOK, [Next]_vars, NamesDistinct
  PROVE  NamesDistinct'
<1>0. StepForm
  BY NextForm
<1>1. CASE UNCHANGED <<chans, subs>>
  BY <1>1 DEF NamesDistinct
<1>2. ASSUME NEW s \in Servers, Dies(s) PROVE UNCHANGED <<chans, subs>>
  BY <1>2 DEF Dies
<1>3. ASSUME NEW s \in Servers, Iteration(s) PROVE NamesDistinct'
  <2>1. PICK nw, sb, told :
          /\ Takes(s, nw, sb, told)
          /\ Ends(s, nw, sb, told)
    BY <1>3, IterationParts
  <2>2. PICK cs, out : \/ Does(s, cs, out) /\ Record(s, nw, cs, sb, told, out)
                       \/ DiesSending(s, nw, out)
    BY <2>1 DEF Ends
  <2>3. CASE DiesSending(s, nw, out)
    BY <1>1, <2>3 DEF DiesSending
  <2>4. CASE Does(s, cs, out) /\ Record(s, nw, cs, sb, told, out)
    <3>1. DistinctNames(cs)
      BY <2>4, DoesDistinct DEF NamesDistinct, ServerOK
    <3>2. \A t \in Servers : DistinctSubs(sb[t])
      BY <2>1, ReadDistinct DEF NamesDistinct
    <3>3. \A p \in Servers : /\ chans'[p] = IF p = s THEN cs ELSE chans[p]
                             /\ subs'[p] = IF p = s THEN sb ELSE subs[p]
      BY <2>4 DEF Record, ServerOK, LoopOK
    <3> QED
      BY <3>1, <3>2, <3>3 DEF NamesDistinct
  <2> QED
    BY <2>2, <2>3, <2>4
<1>4. CASE TimePasses
  <2>1. \A s \in Servers : chans'[s] = AgedChannels(chans[s])
        /\ \A t \in Servers : subs'[s][t] = Aged(subs[s][t])
    BY <1>4 DEF TimePasses, Tick
  <2>2. \A s \in Servers : GoodChannels(chans[s]) /\ \A t \in Servers : GoodSubs(subs[s][t])
    BY DEF ServerOK, LoopOK, GoodSubsOf
  <2>3. \A cs : GoodChannels(cs) /\ DistinctNames(cs) => DistinctNames(AgedChannels(cs))
    BY AgedChannelEntries DEF DistinctNames
  <2>4. \A srvr : GoodSubs(srvr) /\ DistinctSubs(srvr) => DistinctSubs(Aged(srvr))
    BY AgedEntries DEF DistinctSubs
  <2> QED
    BY <2>1, <2>2, <2>3, <2>4 DEF NamesDistinct
<1>5. ASSUME NEW s \in Servers, NEW t \in Servers,
             DatagramLost(s, t) \/ DatagramDuplicated(s, t) \/ DatagramOvertaken(s, t)
      PROVE  UNCHANGED <<chans, subs>>
  BY <1>5 DEF DatagramLost, DatagramDuplicated, DatagramOvertaken, Lose, Duplicate, Overtake
<1> QED
  BY <1>0, <1>1, <1>2, <1>3, <1>4, <1>5 DEF StepForm, serverVars

\* At the start a table holds one name at most.
LEMMA InitDistinct == Init => NamesDistinct
<1> SUFFICES ASSUME Init PROVE NamesDistinct
  OBVIOUS
<1>1. \A s \in Servers : Len(chans[s]) = 1
  BY DEF Init, ServerInit
<1>2. \A s, t \in Servers : Len(subs[s][t].items) \in {0, 1}
  BY DEF Init, ServerInit, OneEntry, EmptyArray
<1> QED
  BY <1>1, <1>2 DEF NamesDistinct, DistinctNames, DistinctSubs

\* However the counts go up and down, whatever is lost, repeated or overtaken, no
\* table of a server ever lists a channel twice, so the loops that look one up by
\* its name and stop at the first see the only one.
THEOREM NamesOnce == Spec => []NoNameTwice
<1> DEFINE Inv == ServerOK /\ SessOK /\ faults \in 0 .. MaxFaults
<1>1. Init => Inv /\ NamesDistinct
  BY InitOK, InitDistinct
<1>2. Inv /\ NamesDistinct /\ [Next]_vars => Inv' /\ NamesDistinct'
  BY NextOK, NextDistinct
<1>3. Inv /\ NamesDistinct => NoNameTwice
  BY NamesDistinctIs
<1> QED
  BY <1>1, <1>2, <1>3, PTL DEF Spec

--------------------------------------------------------------------------------
(* A Join is on its way until it is read, and read it is in the books *)

\* s has told t of ch: t knows, did know, or will read it.
Told(s, t, ch) ==
  \/ ch \in Subscribed(subs[t][s])
  \/ ch \in dropped[t][s]
  \/ InFlight(s, t, Join(ch))

\* Who was told stays so, and who hosts a channel more tells of it.
NewsKept ==
  \A p \in Servers : \A q \in Neighbours[p], ch \in ChannelNames :
    alive'[q] =>
      /\ alive[q]
      /\ Told(p, q, ch) => Told(p, q, ch)'
      /\ ch \in Hosted(p)' => ch \in Hosted(p) \/ Told(p, q, ch)'

\* The links after s has sent.
LEMMA Links ==
  ASSUME NEW nw \in [Servers -> Outgoing], NEW s \in Servers, NEW out \in Outgoing,
         NEW p \in Servers, NEW q \in Servers
  PROVE  /\ After(nw, s, out)[p][q] = IF p = s /\ alive[q] THEN nw[p][q] \o out[q] ELSE nw[p][q]
         /\ Unread(nw, s)[p][q] = IF q = s THEN <<>> ELSE nw[p][q]
BY DEF After, Unread, Outgoing

\* The tables after s has recorded.
LEMMA Recorded ==
  ASSUME ServerOK, NEW s \in Servers, NEW nw, NEW cs, NEW sb, NEW told, NEW out,
         Record(s, nw, cs, sb, told, out)
  PROVE  /\ alive' = alive
         /\ chans'[s] = cs /\ \A p \in Servers : p # s => chans'[p] = chans[p]
         /\ subs'[s] = sb /\ \A p \in Servers : p # s => subs'[p] = subs[p]
         /\ \A t \in Servers : dropped'[s][t] =
              (dropped[s][t] \cup Subscribed(subs[s][t]) \cup told[t]) \ Subscribed(sb[t])
         /\ \A p \in Servers : p # s => dropped'[p] = dropped[p]
BY DEF Record, ServerOK, LoopOK

\* The names of the channels.
LEMMA HostedNames == LoopOK => \A s \in Servers : Hosted(s) = Names(chans[s])
<1> SUFFICES ASSUME LoopOK, NEW s \in Servers PROVE Hosted(s) = Names(chans[s])
  OBVIOUS
<1>1. DOMAIN chans[s] = 1 .. Len(chans[s])
  BY DEF LoopOK
<1> QED
  BY <1>1 DEF Hosted, Names

\* A channel more is told to the neighbours.
LEMMA DoesTell ==
  ASSUME LoopOK, NEW s \in Servers, NEW cs, NEW out, Does(s, cs, out), NEW ch \in Names(cs)
  PROVE  ch \in Names(chans[s]) \/ Tells(s, ch, out)
<1>1. Len(chans[s]) \in Nat /\ Len(cs) \in Nat
  BY DEF LoopOK, Does, GoodChannels
<1>2. PICK k \in 1 .. Len(cs) : cs[k].name = ch
  BY DEF Names
<1>3. CASE Shrinks(s, cs)
  <2>1. PICK i \in 1 .. Len(chans[s]) :
          /\ Len(cs) = Len(chans[s]) - 1
          /\ \A j \in 1 .. Len(cs) : cs[j].name = chans[s][IF j < i THEN j ELSE j + 1].name
    BY <1>3 DEF Shrinks
  <2>2. (IF k < i THEN k ELSE k + 1) \in 1 .. Len(chans[s])
    BY <1>1, <2>1
  <2> QED
    BY <1>2, <2>1, <2>2 DEF Names
<1>4. CASE Extends(s, cs, out)
  <2>1. k \in 1 .. Len(chans[s]) \/ (Len(cs) = Len(chans[s]) + 1 /\ k = Len(cs))
    BY <1>1, <1>4 DEF Extends
  <2> QED
    BY <1>2, <1>4, <2>1 DEF Extends, Names
<1> QED
  BY <1>3, <1>4 DEF Does

\* What the datagram that s reads takes off the links: a Join is told.
LEMMA TakesJoin ==
  ASSUME ServerOK, NEW s \in Servers, NEW nw, NEW sb, NEW told, Takes(s, nw, sb, told),
         NEW p \in Servers, NEW q \in Servers, NEW ch, Join(ch) \in Range(net[p][q])
  PROVE  Join(ch) \in Range(nw[p][q]) \/ (q = s /\ ch \in told[p])
<1>1. CASE ReadsNone(s, nw, sb, told)
  BY <1>1 DEF ReadsNone
<1>2. ASSUME NEW t \in Servers, ReadsOne(s, t, nw, sb, told)
      PROVE  Join(ch) \in Range(nw[p][q]) \/ (q = s /\ ch \in told[p])
  <2>1. \A u, v \in Servers : nw[u][v] = IF u = t /\ v = s THEN Tail(net[t][s]) ELSE net[u][v]
    BY <1>2 DEF ReadsOne, ServerOK, LoopOK, Outgoing
  <2>2. CASE p # t \/ q # s
    BY <2>1, <2>2
  <2>3. CASE p = t /\ q = s
    <3>1. net[t][s] \in Seq(Message) /\ net[t][s] # <<>>
      BY <1>2 DEF ReadsOne, ServerOK, LoopOK, Outgoing
    <3>2. PICK k \in 1 .. Len(net[t][s]) : net[t][s][k] = Join(ch)
      BY <2>3, <3>1 DEF Range
    <3>3. CASE k = 1
      <4>1. Head(net[t][s]) = Join(ch)
        BY <3>1, <3>2, <3>3
      <4>2. Head(net[t][s]).type = "join" /\ Head(net[t][s]).chan = ch
        BY <4>1 DEF Join
      <4> QED
        BY <1>2, <2>3, <4>2 DEF ReadsOne, NoneTold
    <3>4. CASE k # 1
      <4>1. k - 1 \in DOMAIN Tail(net[t][s]) /\ Tail(net[t][s])[k - 1] = Join(ch)
        BY <3>1, <3>2, <3>4
      <4> QED
        BY <2>1, <2>3, <4>1 DEF Range
    <3> QED
      BY <3>3, <3>4
  <2> QED
    BY <2>2, <2>3
<1> QED
  BY <1>1, <1>2 DEF Takes

\* No iteration takes back what a neighbour was told.
LEMMA IterationNews ==
  ASSUME ServerOK, ServerOK', NEW s \in Servers, Iteration(s)
  PROVE  NewsKept
<1>1. PICK nw, sb, told : Takes(s, nw, sb, told) /\ Ends(s, nw, sb, told)
  BY IterationParts
<1>2. PICK cs, out : \/ Does(s, cs, out) /\ Record(s, nw, cs, sb, told, out)
                     \/ out \in Outgoing /\ DiesSending(s, nw, out)
  BY <1>1 DEF Ends
<1>3. /\ nw \in [Servers -> Outgoing] /\ out \in Outgoing
  BY <1>1, <1>2, ReadTypesOf DEF Does
<1> SUFFICES ASSUME NEW p \in Servers, NEW q \in Neighbours[p], NEW ch \in ChannelNames, alive'[q]
             PROVE  /\ alive[q]
                    /\ Told(p, q, ch) => Told(p, q, ch)'
                    /\ ch \in Hosted(p)' => ch \in Hosted(p) \/ Told(p, q, ch)'
  BY DEF NewsKept
<1>4. q \in Servers
  BY ChatServerAssumption
<1>5. InFlight(p, q, Join(ch)) => Join(ch) \in Range(nw[p][q]) \/ (q = s /\ ch \in told[p])
  BY <1>1, <1>4, TakesJoin DEF InFlight
<1>6. CASE DiesSending(s, nw, out)
  <2>1. alive[q] /\ q # s
    BY <1>4, <1>6 DEF DiesSending, ServerOK, LoopOK
  <2>2. net'[p][q] = After(nw, s, out)[p][q]
    <3>1. After(nw, s, out) \in [Servers -> Outgoing]
      BY <1>3, NetworkTypes
    <3>2. Unread(After(nw, s, out), s)[p][q] = After(nw, s, out)[p][q]
      BY <1>3, <1>4, <2>1, <3>1, NetworkKept
    <3> QED
      BY <1>6, <3>2 DEF DiesSending
  <2>3. Range(nw[p][q]) \subseteq Range(net'[p][q])
    <3>1. Range(nw[p][q]) \subseteq Range(After(nw, s, out)[p][q])
      BY <1>3, <1>4, NetworkKept
    <3> QED
      BY <2>2, <3>1
  <2>4. UNCHANGED <<chans, subs, dropped>>
    BY <1>6 DEF DiesSending
  <2> QED
    BY <1>5, <2>1, <2>3, <2>4 DEF Told, InFlight, Hosted, Join
<1>7. CASE Does(s, cs, out) /\ Record(s, nw, cs, sb, told, out)
  <2>1. /\ alive[q] /\ chans'[s] = cs /\ (p # s => chans'[p] = chans[p])
        /\ subs'[s] = sb /\ (q # s => subs'[q] = subs[q] /\ dropped'[q] = dropped[q])
        /\ dropped'[s][p] =
              (dropped[s][p] \cup Subscribed(subs[s][p]) \cup told[p]) \ Subscribed(sb[p])
    BY <1>4, <1>7, Recorded
  <2>2. net' = After(nw, s, out)
    BY <1>7 DEF Record
  <2>3. Range(nw[p][q]) \subseteq Range(net'[p][q])
    BY <1>3, <1>4, <2>2, NetworkKept
  <2>4. Told(p, q, ch) => Told(p, q, ch)'
    BY <1>5, <2>1, <2>3 DEF Told, InFlight, Join
  <2>5. ASSUME ch \in Hosted(p)', ch \notin Hosted(p) PROVE Told(p, q, ch)'
    <3>1. LoopOK' /\ LoopOK
      BY DEF ServerOK
    <3>2. Hosted(p)' = Names(chans'[p])
      <4>1. DOMAIN chans'[p] = 1 .. Len(chans'[p])
        BY <3>1 DEF LoopOK
      <4> QED
        BY <4>1 DEF Hosted, Names
    <3>3. p = s
      BY <2>1, <2>5 DEF Hosted
    <3>4. Tells(s, ch, out)
      BY <1>7, <2>1, <2>5, <3>1, <3>2, <3>3, DoesTell, HostedNames
    <3>5. Join(ch) \in Range(out[q])
      BY <3>3, <3>4 DEF Tells
    <3>6. Range(out[q]) \subseteq Range(net'[s][q])
      BY <1>3, <1>4, <2>1, <2>2, NetworkKept
    <3> QED
      BY <3>3, <3>5, <3>6 DEF Told, InFlight, Join
  <2> QED
    BY <2>1, <2>4, <2>5
<1> QED
  BY <1>2, <1>6, <1>7

\* The clock changes no name.
LEMMA TickNames ==
  ASSUME ServerOK, ServerOK', Tick
  PROVE  /\ \A s \in Servers : Hosted(s)' = Hosted(s)
         /\ \A s, t \in Servers : Subscribed(subs'[s][t]) = Subscribed(subs[s][t])
<1>1. \A s \in Servers : Hosted(s)' = Hosted(s)
  <2> SUFFICES ASSUME NEW s \in Servers PROVE Hosted(s)' = Hosted(s)
    OBVIOUS
  <2>1. chans'[s] = AgedChannels(chans[s]) /\ GoodChannels(chans[s])
    BY DEF Tick, ServerOK, LoopOK
  <2>2. DOMAIN chans[s] = 1 .. Len(chans[s]) /\ DOMAIN chans'[s] = 1 .. Len(chans'[s])
    BY DEF ServerOK, LoopOK
  <2> QED
    BY <2>1, <2>2, AgedChannelEntries DEF Hosted
<1>2. \A s, t \in Servers : Subscribed(subs'[s][t]) = Subscribed(subs[s][t])
  <2> SUFFICES ASSUME NEW s \in Servers, NEW t \in Servers
               PROVE  Subscribed(subs'[s][t]) = Subscribed(subs[s][t])
    OBVIOUS
  <2>1. subs'[s][t] = Aged(subs[s][t]) /\ GoodSubs(subs[s][t]) /\ GoodSubs(subs'[s][t])
    BY DEF Tick, ServerOK, LoopOK, GoodSubsOf
  <2>2. /\ DOMAIN subs[s][t].items = 1 .. Len(subs[s][t].items)
        /\ DOMAIN subs'[s][t].items = 1 .. Len(subs'[s][t].items)
    BY <2>1 DEF GoodSubs, CountedArrays
  <2>3. /\ Len(subs'[s][t].items) = Len(subs[s][t].items)
        /\ \A k \in 1 .. Len(subs[s][t].items) :
             subs'[s][t].items[k].chan = subs[s][t].items[k].chan
    BY <2>1, AgedEntries
  <2> QED
    BY ONLY <2>2, <2>3 DEF Subscribed
<1> QED
  BY <1>1, <1>2

\* Nothing is lost.
LEMMA NextNews ==
  ASSUME "loss" \notin Faults, ServerOK, SessOK, ServerOK', [Next]_vars
  PROVE  NewsKept
<1>0. StepForm
  BY NextForm
<1>1. ASSUME Kept(net), \A s \in Servers : Hosted(s)' = Hosted(s),
             \A s, t \in Servers : Subscribed(subs'[s][t]) = Subscribed(subs[s][t]),
             dropped' = dropped
      PROVE  NewsKept
  <2> SUFFICES ASSUME NEW p \in Servers, NEW q \in Neighbours[p], NEW ch \in ChannelNames, alive'[q]
               PROVE  /\ alive[q]
                      /\ Told(p, q, ch) => Told(p, q, ch)'
                      /\ ch \in Hosted(p)' => ch \in Hosted(p)
    BY DEF NewsKept
  <2>1. q \in Servers
    BY ChatServerAssumption
  <2>2. alive[q] /\ Range(net[p][q]) \subseteq Range(net'[p][q])
    BY <1>1, <2>1 DEF Kept
  <2> QED
    BY <1>1, <2>1, <2>2 DEF Told, InFlight, Join
<1>2. ASSUME Kept(net), UNCHANGED <<chans, subs, dropped>> PROVE NewsKept
  BY <1>1, <1>2 DEF Hosted
<1>3. CASE UNCHANGED serverVars
  BY <1>2, <1>3 DEF serverVars, Kept
<1>4. ASSUME NEW s \in Servers, Dies(s) PROVE NewsKept
  BY <1>2, <1>4, DiesOK DEF Dies
<1>5. ASSUME NEW s \in Servers, NEW t \in Servers,
             DatagramLost(s, t) \/ DatagramDuplicated(s, t) \/ DatagramOvertaken(s, t)
      PROVE  NewsKept
  <2>1. ~DatagramLost(s, t)
    BY DEF DatagramLost, Fault
  <2>2. PICK i \in DOMAIN net[s][t] : Duplicate(s, t, i) \/ Overtake(s, t, i)
    BY <1>5, <2>1 DEF DatagramDuplicated, DatagramOvertaken
  <2> QED
    BY <1>2, <2>2, DatagramFaultsKeep DEF Duplicate, Overtake
<1>6. CASE TimePasses
  <2>1. Kept(net) /\ dropped' = dropped
    BY <1>6, TickOK DEF TimePasses, Tick
  <2> QED
    BY <1>1, <1>6, <2>1, TickNames DEF TimePasses
<1> QED
  BY <1>0, <1>3, <1>4, <1>5, <1>6, IterationNews DEF StepForm

\* A server that has a channel has told its neighbours, in any federation, while users
\* leave and log out, servers are killed, time passes and datagrams are doubled or
\* overtaken, as long as none is lost.
THEOREM NeighboursAreTold ==
  ASSUME "loss" \notin Faults
  PROVE  Spec => []JoinBroadcast
<1> DEFINE Inv == ServerOK /\ SessOK /\ faults \in 0 .. MaxFaults
<1>1. Init => Inv /\ JoinBroadcast
  <2> SUFFICES ASSUME Init PROVE JoinBroadcast
    BY InitOK
  <2>1. \A s \in Servers : Hosted(s) = {Common}
    BY DEF Init, ServerInit, Hosted, create_channel
  <2>2. \A s \in Servers : \A t \in Neighbours[s] : subs[t][s].items = <<[chan |-> Common, age |-> 0]>>
    <3> SUFFICES ASSUME NEW s \in Servers, NEW t \in Neighbours[s]
                 PROVE  subs[t][s].items = <<[chan |-> Common, age |-> 0]>>
      OBVIOUS
    <3>1. t \in Servers /\ s \in Neighbours[t]
      BY ChatServerAssumption
    <3> QED
      BY <3>1 DEF Init, ServerInit, OneEntry
  <2>3. \A s \in Servers : \A t \in Neighbours[s] : Common \in Subscribed(subs[t][s])
    BY <2>2 DEF Subscribed
  <2> QED
    BY <2>1, <2>3 DEF JoinBroadcast
<1>2. Inv /\ JoinBroadcast /\ [Next]_vars => Inv' /\ JoinBroadcast'
  <2> SUFFICES ASSUME Inv, JoinBroadcast, [Next]_vars PROVE Inv' /\ JoinBroadcast'
    OBVIOUS
  <2>1. Inv'
    BY NextOK
  <2>2. NewsKept
    BY <2>1, NextNews
  <2>3. SUFFICES ASSUME NEW s \in Servers, NEW t \in Neighbours[s], alive'[s], alive'[t],
                        NEW ch \in Hosted(s)'
                 PROVE  Told(s, t, ch)'
    BY <2>1 DEF JoinBroadcast, Told
  <2>4. s \in Servers /\ t \in Servers /\ alive[s] /\ alive[t]
    <3>1. t \in Servers /\ s \in Neighbours[t] /\ Common \in ChannelNames
      BY ChatServerAssumption, ChannelsAssumption
    <3> QED
      BY <2>2, <2>3, <3>1 DEF NewsKept
  <2>5. ch \in ChannelNames
    <3>1. chans'[s] \in Seq(Channel)
      BY <2>1 DEF ServerOK, LoopOK
    <3>2. PICK i \in DOMAIN chans'[s] : ch = chans'[s][i].name
      BY <2>3 DEF Hosted
    <3>3. chans'[s][i] \in Channel
      BY <3>1, <3>2
    <3> QED
      BY <3>2, <3>3 DEF Channel
  <2>6. ch \in Hosted(s) => Told(s, t, ch)
    BY <2>4 DEF JoinBroadcast, Told
  <2> QED
    BY <2>2, <2>3, <2>4, <2>5, <2>6 DEF NewsKept
<1> QED
  BY <1>1, <1>2, PTL DEF Spec

--------------------------------------------------------------------------------
(* A Say follows the Join of its channel *)

\* The channels that t once subscribed to at s.
Known(s, t) == Subscribed(subs[s][t]) \cup dropped[s][t]

\* Each Say of a link is on a channel of K, or behind a Join of its channel.
Backed(q, K) ==
  \A i \in 1 .. Len(q) :
    q[i].type = "say" => q[i].chan \in K \/ \E j \in 1 .. i - 1 : q[j] = Join(q[i].chan)

\* The invariant.
SayAfterJoin ==
  \A s \in Servers : \A t \in Neighbours[s] : alive[s] => Backed(net[t][s], Known(s, t))

\* More channels back the same Says.
LEMMA BackedMore ==
  ASSUME NEW q, NEW K, NEW L, Backed(q, K), K \subseteq L
  PROVE  Backed(q, L)
BY DEF Backed

\* The first one is read.
LEMMA BackedTail ==
  ASSUME NEW q \in Seq(Message), q # <<>>, NEW K, NEW L, Backed(q, K), K \subseteq L,
         \A ch : Head(q) = Join(ch) => ch \in L
  PROVE  Backed(Tail(q), L)
<1>1. Len(q) \in Nat /\ Len(Tail(q)) = Len(q) - 1 /\ Head(q) = q[1]
      /\ \A k \in 1 .. Len(q) - 1 : Tail(q)[k] = q[k + 1]
  OBVIOUS
<1> SUFFICES ASSUME NEW i \in 1 .. Len(q) - 1, q[i + 1].type = "say"
             PROVE  \/ q[i + 1].chan \in L
                    \/ \E j \in 1 .. i - 1 : q[j + 1] = Join(q[i + 1].chan)
  <2> DEFINE r == Tail(q)
  <2>1. \A i \in 1 .. Len(q) - 1 : r[i] = q[i + 1] /\ \A j \in 1 .. i - 1 : r[j] = q[j + 1]
    BY <1>1
  <2>2. Len(r) = Len(q) - 1
    BY <1>1
  <2> HIDE DEF r
  <2>3. Backed(r, L)
    BY <2>1, <2>2 DEF Backed
  <2> QED
    BY <2>3 DEF r
<1>2. i + 1 \in 1 .. Len(q)
  BY <1>1
<1>3. CASE q[i + 1].chan \in K
  BY <1>3
<1>4. ASSUME NEW j \in 1 .. (i + 1) - 1, q[j] = Join(q[i + 1].chan)
      PROVE  \/ q[i + 1].chan \in L
             \/ \E k \in 1 .. i - 1 : q[k + 1] = Join(q[i + 1].chan)
  <2>1. CASE j = 1
    BY <1>1, <1>4, <2>1
  <2>2. CASE j # 1
    <3>1. j - 1 \in 1 .. i - 1 /\ q[(j - 1) + 1] = q[j]
      BY <1>1, <2>2
    <3> QED
      BY <1>4, <3>1
  <2> QED
    BY <2>1, <2>2
<1> QED
  BY <1>2, <1>3, <1>4 DEF Backed

\* More is sent, Says only on channels that are known or were joined before.
LEMMA BackedConcat ==
  ASSUME NEW a \in Seq(Message), NEW b \in Seq(Message), NEW K, Backed(a, K),
         \A m \in Range(b) : m.type = "say" => m.chan \in K \/ Join(m.chan) \in Range(a)
  PROVE  Backed(a \o b, K)
<1> DEFINE c == a \o b
<1>1. /\ Len(a) \in Nat /\ Len(b) \in Nat /\ Len(c) = Len(a) + Len(b)
      /\ \A k \in 1 .. Len(a) : c[k] = a[k]
      /\ \A k \in 1 .. Len(b) : c[Len(a) + k] = b[k]
      /\ DOMAIN a = 1 .. Len(a) /\ DOMAIN b = 1 .. Len(b)
  OBVIOUS
<1> HIDE DEF c
<1>2. ASSUME NEW i \in 1 .. Len(c), c[i].type = "say", c[i].chan \notin K
      PROVE  \E j \in 1 .. i - 1 : c[j] = Join(c[i].chan)
  <2>1. CASE i <= Len(a)
    <3>1. i \in 1 .. Len(a) /\ c[i] = a[i]
      BY <1>1, <2>1
    <3>2. PICK j \in 1 .. i - 1 : a[j] = Join(a[i].chan)
      BY <1>2, <3>1 DEF Backed
    <3>3. c[j] = a[j]
      BY <1>1, <3>1
    <3> QED
      BY <3>1, <3>2, <3>3
  <2>2. CASE i > Len(a)
    <3>1. i - Len(a) \in 1 .. Len(b) /\ c[i] = b[i - Len(a)]
      BY <1>1, <2>2
    <3>2. b[i - Len(a)] \in Range(b)
      BY <1>1, <3>1 DEF Range
    <3>3. Join(c[i].chan) \in Range(a)
      BY <1>2, <3>1, <3>2
    <3>4. PICK j \in 1 .. Len(a) : a[j] = Join(c[i].chan)
      BY <1>1, <3>3 DEF Range
    <3>5. j \in 1 .. i - 1 /\ c[j] = a[j]
      BY <1>1, <2>2
    <3> QED
      BY <3>4, <3>5
  <2> QED
    BY <1>1, <2>1, <2>2
<1>3. Backed(c, K)
  BY <1>2 DEF Backed
<1> QED
  BY <1>3 DEF c

\* The links at the end of an iteration of s.
Finishes(s, nw, cs, sb, told, out) ==
  Record(s, nw, cs, sb, told, out) \/ DiesSending(s, nw, out)

\* They hold what was left on them and, behind it, what s sends.
LEMMA EndsLinks ==
  ASSUME ServerOK, NEW s \in Servers, NEW nw \in [Servers -> Outgoing], NEW cs, NEW sb, NEW told,
         NEW out \in Outgoing, Finishes(s, nw, cs, sb, told, out),
         NEW p \in Servers, NEW q \in Servers, alive'[q]
  PROVE  /\ alive[q]
         /\ net'[p][q] = IF p = s THEN nw[p][q] \o out[q] ELSE nw[p][q]
<1> DEFINE sent == After(nw, s, out)
<1>1. sent \in [Servers -> Outgoing]
  BY NetworkTypes
<1>2. sent[p][q] = IF p = s /\ alive[q] THEN nw[p][q] \o out[q] ELSE nw[p][q]
  BY Links
<1>3. CASE Record(s, nw, cs, sb, told, out)
  BY <1>2, <1>3 DEF Record
<1>4. CASE DiesSending(s, nw, out)
  <2>1. alive[q] /\ q # s
    BY <1>4 DEF DiesSending, ServerOK, LoopOK
  <2>2. Unread(sent, s)[p][q] = sent[p][q]
    BY <1>1, <2>1, NetworkKept
  <2> QED
    BY <1>2, <1>4, <2>1, <2>2 DEF DiesSending
<1> QED
  BY <1>3, <1>4 DEF Finishes

\* A server says something only on a channel it has, of which it told its neighbours.
LEMMA IterationBacked ==
  ASSUME ServerOK, JoinBroadcast, SayAfterJoin, NEW s \in Servers, Iteration(s)
  PROVE  SayAfterJoin'
<1>1. PICK nw, sb, told : Takes(s, nw, sb, told) /\ Ends(s, nw, sb, told)
  BY IterationParts
<1>2. PICK cs, out : /\ out \in Outgoing /\ Honest(s, cs, out)
                     /\ Finishes(s, nw, cs, sb, told, out)
  BY <1>1 DEF Ends, Does, Finishes
<1>3. nw \in [Servers -> Outgoing] /\ alive[s]
  BY <1>1, ReadTypesOf, IterationParts
<1> SUFFICES ASSUME NEW r \in Servers, NEW t \in Neighbours[r], alive'[r]
             PROVE  Backed(net'[t][r], Known(r, t)')
  BY DEF SayAfterJoin
<1>4. t \in Servers /\ t # r /\ r \in Neighbours[t]
  BY ChatServerAssumption
<1>5. alive[r] /\ net'[t][r] = IF t = s THEN nw[t][r] \o out[r] ELSE nw[t][r]
  BY <1>2, <1>3, <1>4, EndsLinks
<1>6. /\ net[t][r] \in Seq(Message) /\ nw[t][r] \in Seq(Message) /\ out[r] \in Seq(Message)
      /\ Backed(net[t][r], Known(r, t))
  BY <1>2, <1>3, <1>4, <1>5 DEF SayAfterJoin, ServerOK, LoopOK, Outgoing
<1>7. Known(r, t) \subseteq Known(r, t)' /\ (r = s => told[t] \subseteq Known(r, t)')
  <2>1. CASE Record(s, nw, cs, sb, told, out)
    <3>1. /\ subs'[s] = sb /\ (r # s => subs'[r] = subs[r] /\ dropped'[r] = dropped[r])
          /\ dropped'[s][t] =
                (dropped[s][t] \cup Subscribed(subs[s][t]) \cup told[t]) \ Subscribed(sb[t])
      BY <1>4, <2>1, Recorded
    <3> QED
      BY <3>1 DEF Known
  <2>2. CASE DiesSending(s, nw, out)
    <3>1. r # s /\ UNCHANGED <<subs, dropped>>
      BY <1>5, <2>2 DEF DiesSending, ServerOK, LoopOK
    <3> QED
      BY <3>1 DEF Known
  <2> QED
    BY <1>2, <2>1, <2>2 DEF Finishes
<1>8. Backed(nw[t][r], Known(r, t)') /\ (r # s => nw[t][r] = net[t][r])
  <2>1. CASE nw[t][r] = net[t][r]
    BY <1>6, <1>7, <2>1, BackedMore
  <2>2. ASSUME nw[t][r] # net[t][r]
        PROVE  r = s /\ ReadsOne(s, t, nw, sb, told) /\ nw[t][r] = Tail(net[t][r])
    <3>1. PICK u \in Servers : ReadsOne(s, u, nw, sb, told)
      BY <1>1, <2>2 DEF Takes, ReadsNone
    <3>2. nw[t][r] = IF t = u /\ r = s THEN Tail(net[u][s]) ELSE net[t][r]
      BY <1>4, <3>1 DEF ReadsOne, ServerOK, LoopOK, Outgoing
    <3> QED
      BY <2>2, <3>1, <3>2
  <2>3. ASSUME nw[t][r] # net[t][r], NEW ch, Head(net[t][r]) = Join(ch) PROVE ch \in told[t]
    <3>1. r = s /\ ReadsOne(s, t, nw, sb, told)
      BY <2>2, <2>3
    <3>2. Head(net[t][s]).type = "join" /\ Head(net[t][s]).chan = ch
      BY <2>3, <3>1 DEF Join
    <3> QED
      BY <1>4, <3>1, <3>2 DEF ReadsOne, NoneTold
  <2>4. CASE nw[t][r] # net[t][r]
    <3>1. r = s /\ nw[t][r] = Tail(net[t][r]) /\ net[t][r] # <<>>
      BY <2>2, <2>4 DEF ReadsOne
    <3>2. \A ch : Head(net[t][r]) = Join(ch) => ch \in Known(r, t)'
      BY <1>7, <2>3, <2>4, <3>1
    <3>3. Backed(Tail(net[t][r]), Known(r, t)')
      BY <1>6, <1>7, <3>1, <3>2, BackedTail
    <3> QED
      BY <3>1, <3>3
  <2> QED
    BY <2>1, <2>2, <2>4
<1>9. CASE t # s
  BY <1>5, <1>8, <1>9
<1>10. CASE t = s
  <2>1. ASSUME NEW m \in Range(out[r]), m.type = "say"
        PROVE  m.chan \in Known(r, t)' \/ Join(m.chan) \in Range(nw[t][r])
    <3>1. m.chan \in Hosted(s)
      BY <1>2, <2>1, HostedNames DEF Honest, ServerOK
    <3>2. m.chan \in Known(r, s) \/ InFlight(s, r, Join(m.chan))
      BY <1>3, <1>4, <1>5, <1>10, <3>1 DEF JoinBroadcast, Known
    <3> QED
      BY <1>4, <1>7, <1>8, <1>10, <3>2 DEF InFlight
  <2>2. Backed(nw[t][r] \o out[r], Known(r, t)')
    BY <1>6, <1>8, <2>1, BackedConcat
  <2> QED
    BY <1>5, <1>10, <2>2
<1> QED
  BY <1>9, <1>10

\* A copy concerns no other link,
LEMMA DuplicateElsewhere ==
  ASSUME ServerOK, NEW p \in Servers, NEW q \in Servers, NEW i, Duplicate(p, q, i)
  PROVE  \A s, t \in Servers : t # p \/ s # q => net'[t][s] = net[t][s]
BY DEF Duplicate, ServerOK, LoopOK, Outgoing

\* and is sent behind the others.
LEMMA DuplicateLinks ==
  ASSUME ServerOK, NEW p \in Servers, NEW q \in Servers, NEW i \in DOMAIN net[p][q],
         Duplicate(p, q, i)
  PROVE  /\ net[p][q] \in Seq(Message) /\ i \in 1 .. Len(net[p][q]) /\ net[p][q][i] \in Message
         /\ net'[p][q] = net[p][q] \o <<net[p][q][i]>>
<1>1. net[p][q] \in Seq(Message) /\ i \in 1 .. Len(net[p][q]) /\ net[p][q][i] \in Message
  BY DEF ServerOK, LoopOK, Outgoing
<1>2. net'[p][q] = Append(net[p][q], net[p][q][i])
  BY DEF Duplicate, ServerOK, LoopOK, Outgoing
<1>3. \A a \in Seq(Message), m \in Message : Append(a, m) = a \o <<m>>
  OBVIOUS
<1> QED
  BY <1>1, <1>2, <1>3

\* Every step.
LEMMA NextBacked ==
  ASSUME "loss" \notin Faults, "overtaking" \notin Faults, ServerOK, SessOK, ServerOK',
         JoinBroadcast, SayAfterJoin, [Next]_vars
  PROVE  SayAfterJoin'
<1>0. StepForm
  BY NextForm
<1>1. ASSUME \A p, q \in Servers : alive'[q] => alive[q] /\ net'[p][q] = net[p][q],
             \A p, q \in Servers : Subscribed(subs'[p][q]) = Subscribed(subs[p][q]),
             dropped' = dropped
      PROVE  SayAfterJoin'
  <2> SUFFICES ASSUME NEW s \in Servers, NEW t \in Neighbours[s], alive'[s]
               PROVE  Backed(net'[t][s], Known(s, t)')
    BY DEF SayAfterJoin
  <2>1. t \in Servers
    BY ChatServerAssumption
  <2>2. alive[s] /\ net'[t][s] = net[t][s] /\ Known(s, t)' = Known(s, t)
    BY <1>1, <2>1 DEF Known
  <2> QED
    BY <2>2 DEF SayAfterJoin
<1>2. CASE UNCHANGED serverVars
  BY <1>1, <1>2 DEF serverVars
<1>3. ASSUME NEW s \in Servers, Dies(s) PROVE SayAfterJoin'
  <2>1. \A p, q \in Servers : alive'[q] => alive[q] /\ net'[p][q] = net[p][q]
    <3> SUFFICES ASSUME NEW p \in Servers, NEW q \in Servers, alive'[q]
                 PROVE  alive[q] /\ net'[p][q] = net[p][q]
      OBVIOUS
    <3>1. alive[q] /\ q # s
      BY <1>3 DEF Dies, ServerOK, LoopOK
    <3>2. net \in [Servers -> Outgoing]
      BY DEF ServerOK, LoopOK
    <3>3. Nothing \in Outgoing
      BY SendingTypes
    <3>4. Unread(net, s)[p][q] = net[p][q]
      BY <3>1, <3>2, <3>3, NetworkKept
    <3> QED
      BY <1>3, <3>1, <3>4 DEF Dies
  <2> QED
    BY <1>1, <1>3, <2>1 DEF Dies
<1>4. CASE TimePasses
  BY <1>1, <1>4, TickNames DEF TimePasses, Tick
<1>5. ASSUME NEW p \in Servers, NEW q \in Servers,
             DatagramLost(p, q) \/ DatagramDuplicated(p, q) \/ DatagramOvertaken(p, q)
      PROVE  SayAfterJoin'
  <2>1. PICK i \in DOMAIN net[p][q] : Duplicate(p, q, i)
    BY <1>5 DEF DatagramLost, DatagramDuplicated, DatagramOvertaken, Fault
  <2> SUFFICES ASSUME NEW s \in Servers, NEW t \in Neighbours[s], alive'[s]
               PROVE  Backed(net'[t][s], Known(s, t)')
    BY DEF SayAfterJoin
  <2>2. t \in Servers
    BY ChatServerAssumption
  <2>3. Known(s, t)' = Known(s, t) /\ alive[s] /\ net[t][s] \in Seq(Message)
    BY <2>1, <2>2 DEF Duplicate, Known, ServerOK, LoopOK, Outgoing
  <2>4. Backed(net[t][s], Known(s, t))
    BY <2>3 DEF SayAfterJoin
  <2>6. CASE t = p /\ s = q
    <3>1. /\ DOMAIN net[t][s] = 1 .. Len(net[t][s]) /\ i \in 1 .. Len(net[t][s])
          /\ net[t][s][i] \in Message
      BY <2>1, <2>3, <2>6
    <3> DEFINE a == net[t][s]
               b == <<net[t][s][i]>>
    <3>2. b \in Seq(Message) /\ Range(b) = {net[t][s][i]}
      BY <3>1 DEF Range
    <3>3. a[i].type = "say" => a[i].chan \in Known(s, t) \/ Join(a[i].chan) \in Range(a)
      <4> SUFFICES ASSUME a[i].type = "say", a[i].chan \notin Known(s, t)
                   PROVE  Join(a[i].chan) \in Range(a)
        OBVIOUS
      <4>1. PICK j \in 1 .. i - 1 : a[j] = Join(a[i].chan)
        BY <2>4, <3>1 DEF Backed
      <4>2. j \in DOMAIN a
        BY <2>3, <3>1
      <4> QED
        BY <4>1, <4>2 DEF Range
    <3>4. Backed(a \o b, Known(s, t))
      BY <2>3, <2>4, <3>2, <3>3, BackedConcat
    <3>5. net'[t][s] = a \o b
      <4>1. net'[p][q] = net[p][q] \o <<net[p][q][i]>>
        BY <2>1, DuplicateLinks
      <4> QED
        BY <2>6, <4>1
    <3> QED
      BY <2>3, <3>4, <3>5
  <2>7. CASE ~(t = p /\ s = q)
    <3>1. net'[t][s] = net[t][s]
      <4>1. \A u, v \in Servers : v # p \/ u # q => net'[v][u] = net[v][u]
        BY <2>1, DuplicateElsewhere
      <4> QED
        BY <2>2, <2>7, <4>1
    <3> QED
      BY <2>3, <2>4, <3>1
  <2> QED
    BY <2>6, <2>7
<1> QED
  BY <1>0, <1>2, <1>3, <1>4, <1>5, IterationBacked DEF StepForm

\* A link that grows at its end is not one that was read:
LEMMA DuplicateGrows ==
  ASSUME ServerOK, NEW p \in Servers, NEW q \in Servers, NEW i \in DOMAIN net[p][q],
         Duplicate(p, q, i)
  PROVE  \E tail \in Seq(Message) : net'[p][q] = net[p][q] \o tail
<1>1. net[p][q][i] \in Message /\ net'[p][q] = net[p][q] \o <<net[p][q][i]>>
  BY DuplicateLinks
<1>2. <<net[p][q][i]>> \in Seq(Message)
  BY <1>1
<1> QED
  BY <1>1, <1>2

\* the reader takes the head, and what is left is shorter than what was there.
LEMMA TailShorter ==
  ASSUME NEW q \in Seq(Message), q # <<>>
  PROVE  Tail(q) # q /\ \A r \in Seq(Message) : Tail(q) # q \o r
<1>1. Len(Tail(q)) = Len(q) - 1 /\ Len(q) \in Nat
  OBVIOUS
<1>2. ASSUME Tail(q) = q PROVE FALSE
  <2> DEFINE m == Len(q)
  <2>1. m \in Nat /\ m - 1 = m
    BY <1>1, <1>2
  <2> HIDE DEF m
  <2> QED
    BY ONLY <2>1
<1>3. ASSUME NEW r \in Seq(Message), Tail(q) = q \o r PROVE FALSE
  <2> DEFINE m == Len(q)
             n == Len(r)
  <2>1. Len(q \o r) = m + n /\ n \in Nat
    BY ONLY q \in Seq(Message), r \in Seq(Message)
  <2>2. m - 1 = m + n
    BY <1>1, <1>3, <2>1
  <2>3. m \in Nat
    BY <1>1
  <2> HIDE DEF m, n
  <2> QED
    BY <2>1, <2>2, <2>3
<1> QED
  BY <1>2, <1>3

\* Only the iteration of s that takes the datagram makes the link shorter.
LEMMA OnlyReceive ==
  ASSUME "loss" \notin Faults, "overtaking" \notin Faults, ServerOK, SessOK, [Next]_vars,
         NEW s \in Servers, NEW t \in Servers, net[t][s] # <<>>,
         net'[t][s] = Tail(net[t][s]), alive'[s]
  PROVE  Receive(s, t)
<1> SUFFICES ASSUME ~Receive(s, t) PROVE FALSE
  OBVIOUS
<1>0. ActionForm
  BY NextActions
<1>1. net[t][s] \in Seq(Message)
  BY DEF ServerOK, LoopOK, Outgoing
<1>2. ASSUME NEW tail \in Seq(Message), net'[t][s] = net[t][s] \o tail PROVE FALSE
  BY <1>1, <1>2, TailShorter
<1>3. CASE net'[t][s] = net[t][s]
  BY <1>1, <1>3, TailShorter
<1>4. ASSUME NEW r \in Servers, NEW nw \in [Servers -> Outgoing], NEW sb, NEW told,
             nw[t][s] = net[t][s], Ends(r, nw, sb, told)
      PROVE  FALSE
  <2>1. PICK cs, out : /\ out \in Outgoing
                       /\ Finishes(r, nw, cs, sb, told, out)
    BY <1>4 DEF Ends, Does, Finishes
  <2>2. net'[t][s] = IF t = r THEN net[t][s] \o out[s] ELSE net[t][s]
    BY <1>4, <2>1, EndsLinks
  <2>3. out[s] \in Seq(Message)
    BY <2>1 DEF Outgoing
  <2> QED
    BY <1>2, <1>3, <2>2, <2>3
<1>5. ASSUME NEW r \in Servers, Dies(r) PROVE FALSE
  <2>1. s # r /\ net \in [Servers -> Outgoing] /\ Nothing \in Outgoing
    BY <1>5, SendingTypes DEF Dies, ServerOK, LoopOK
  <2>2. Unread(net, r)[t][s] = net[t][s]
    BY <2>1, NetworkKept
  <2> QED
    BY <1>3, <1>5, <2>2 DEF Dies
<1>6. ASSUME NEW r \in Servers, Requested(r) PROVE FALSE
  BY <1>4, <1>6 DEF Requested, ServerOK, LoopOK
<1>7. ASSUME NEW p \in Servers, NEW q \in Servers, Receive(p, q), Received(p, q) PROVE FALSE
  <2>1. PICK nw, sb, told : ReadsOne(p, q, nw, sb, told) /\ Ends(p, nw, sb, told)
    BY <1>7 DEF Received
  <2>2. nw = [net EXCEPT ![q][p] = Tail(@)] /\ net[q][p] # <<>>
    BY <2>1 DEF ReadsOne
  <2>3. nw \in [Servers -> Outgoing]
    BY <2>2, ReadTypes
  <2>4. q # t \/ p # s
    BY <1>7
  <2>5. nw[t][s] = net[t][s]
    BY <2>2, <2>4 DEF ServerOK, LoopOK, Outgoing
  <2> QED
    BY <1>4, <2>1, <2>3, <2>5
<1>8. CASE TimePasses \/ UNCHANGED serverVars
  BY <1>3, <1>8 DEF TimePasses, Tick, serverVars
<1>9. ASSUME NEW p \in Servers, NEW q \in Servers,
             DatagramLost(p, q) \/ DatagramDuplicated(p, q) \/ DatagramOvertaken(p, q)
      PROVE  FALSE
  <2>1. PICK i \in DOMAIN net[p][q] : Duplicate(p, q, i)
    BY <1>9 DEF DatagramLost, DatagramDuplicated, DatagramOvertaken, Fault
  <2>2. \A u, v \in Servers : v # p \/ u # q => net'[v][u] = net[v][u]
    BY <2>1, DuplicateElsewhere
  <2>3. \E tail \in Seq(Message) : net'[p][q] = net[p][q] \o tail
    BY <2>1, DuplicateGrows
  <2>4. t = p /\ s = q
    BY <1>3, <2>2
  <2> QED
    BY <1>2, <2>3, <2>4
<1> QED
  BY <1>0, <1>5, <1>6, <1>7, <1>8, <1>9 DEF ActionForm

\* The neighbour that sent the Say and one more that has the channel are two.
LEMMA TwoSubscribers ==
  ASSUME NEW s \in Servers, NEW t \in Neighbours[s], NEW u \in Neighbours[s], t # u,
         NEW sb, GoodSubsOf(sb), NEW ch, ch \in Subscribed(sb[t]), ch \in Subscribed(sb[u])
  PROVE  /\ ~(Cardinality(SubscribersIn(sb, s, ch)) <= 1)
         /\ u \in ForwardTo(sb, s, t, ch)
<1> DEFINE S == SubscribersIn(sb, s, ch)
<1>1. t \in Servers /\ u \in Servers /\ IsFiniteSet(Neighbours[s])
  BY ChatServerAssumption
<1>2. has_channel_server(sb[t], ch) /\ has_channel_server(sb[u], ch)
  BY <1>1, NoSubscription DEF GoodSubsOf
<1>3. S \in SUBSET Neighbours[s] /\ t \in S /\ u \in S
  BY <1>2 DEF SubscribersIn
<1>4. IsFiniteSet(S)
  BY <1>1, <1>3, FS_Subset
<1>5. Cardinality(S) \in Nat /\ Cardinality(S) # 0 /\ Cardinality(S) # 1
  BY <1>3, <1>4, FS_CardinalityType, FS_EmptySet, FS_Singleton
<1> QED
  BY <1>3, <1>5 DEF ForwardTo

\* What the server does with a Say that it has not seen, from a neighbour that it has
\* not cut off, when another neighbour has the channel.
LEMMA SayPassedOn ==
  ASSUME ServerOK, SayAfterJoin, NEW s \in Servers, NEW t \in Neighbours[s],
         NEW u \in Neighbours[s], t # u, NEW ch \in ChannelNames, NEW id \in Ids,
         id \notin Ids_of(s), ~OverRuns(s), Receive(s, t), Head(net[t][s]) = Say(ch, id),
         alive'[s], alive[u], ch \in Subscribed(subs'[s][u]) \ dropped'[s][t]
  PROVE  Say(ch, id) \in Range(net'[s][u])
<1> DEFINE nw == [net EXCEPT ![t][s] = Tail(@)]
           sb == SweptSubs(s)
           on == ToEach(ForwardTo(sb, s, t, ch), Say(ch, id))
           back == ToEach({t}, Leave(ch))
<1>1. t \in Servers /\ u \in Servers /\ net[t][s] # <<>> /\ alive[s]
  BY ChatServerAssumption DEF Receive
<1>2. nw \in [Servers -> Outgoing] /\ on \in Outgoing /\ back \in Outgoing /\ GoodSubsOf(sb)
      /\ GoodChannels(chans[s]) /\ NoneTold \in [Servers -> SUBSET ChannelNames] /\ LoopOK
  BY <1>1, ReadTypes, MessageTypes, SendingTypes, RequestFacts
<1>3. ServSay(s, t, nw, ch, id) /\ ~Dies(s)
  <2>1. Head(net[t][s]).type = "say" /\ Head(net[t][s]).chan = ch /\ Head(net[t][s]).id = id
    BY DEF Say
  <2> QED
    BY <1>2, <2>1 DEF Receive, Dies, LoopOK
<1>4. ~MayHaveId(s, id)
  BY RecentIdsRecorded DEF MayHaveId, ServerOK
<1>5. \/ /\ NoOneToForwardTo(s, sb, UsersOf(s, ch), ch)
         /\ Resub(s, nw, chans[s], sb, NoneTold, back)
      \/ Resub(s, nw, chans[s], sb, NoneTold, on)
  BY <1>3, <1>4 DEF ServSay
<1> HIDE DEF nw, sb, on, back
<1>6. ASSUME NEW out, Resub(s, nw, chans[s], sb, NoneTold, out)
      PROVE  /\ alive' = alive /\ subs'[s] = sb
             /\ dropped'[s][t] = (dropped[s][t] \cup Subscribed(subs[s][t])) \ Subscribed(sb[t])
  <2>1. PICK cs, all : Record(s, nw, cs, sb, NoneTold, all)
    BY <1>2, <1>6 DEF Resub, LoopOK
  <2>2. NoneTold[t] = {}
    BY <1>1 DEF NoneTold
  <2> QED
    BY <1>1, <2>1, <2>2, Recorded
<1>7. ch \in Subscribed(sb[u]) /\ ch \in Subscribed(sb[t])
  <2>1. Backed(net[t][s], Known(s, t))
    BY <1>1 DEF SayAfterJoin
  <2>2. 1 \in 1 .. Len(net[t][s]) /\ net[t][s][1] = Say(ch, id)
    <3>1. net[t][s] \in Seq(Message)
      BY <1>1 DEF ServerOK, LoopOK, Outgoing
    <3> QED
      BY <1>1, <3>1
  <2>3. ch \in Known(s, t)
    BY <2>1, <2>2 DEF Backed, Say
  <2> QED
    BY <1>5, <1>6, <2>3 DEF Known
<1>8. ~NoOneToForwardTo(s, sb, UsersOf(s, ch), ch) /\ u \in ForwardTo(sb, s, t, ch)
  BY <1>2, <1>7, TwoSubscribers DEF NoOneToForwardTo
<1>9. Resub(s, nw, chans[s], sb, NoneTold, on)
  BY <1>5, <1>8
<1>10. Sent(s, on)
  BY <1>2, <1>9, ResubOK
<1>11. Say(ch, id) \in Range(on[u])
  BY <1>1, <1>8 DEF on, ToEach, Range
<1> QED
  BY <1>1, <1>6, <1>9, <1>10, <1>11 DEF Sent

\* In any federation, whatever users do, servers crash, time passes and datagrams are
\* doubled: a Say goes on to each neighbour that has the channel, unless the sender
\* was cut off.
THEOREM SaysGoOn ==
  ASSUME "loss" \notin Faults, "overtaking" \notin Faults
  PROVE  Spec => PassedOnUnlessCut
<1> DEFINE Inv == ServerOK /\ SessOK /\ faults \in 0 .. MaxFaults
           Passes == \A s \in Servers : \A t \in Neighbours[s] : \A u \in Neighbours[s] \ {t} :
                       \A ch \in ChannelNames, id \in Ids \ Ids_of(s) :
                         /\ Reads(s, t, Say(ch, id)) /\ alive[u] /\ ~OverRuns(s)
                         /\ ch \in Subscribed(subs'[s][u]) \ dropped'[s][t]
                         => InFlight(s, u, Say(ch, id))'
<1>1. Init => Inv /\ SayAfterJoin
  <2> SUFFICES ASSUME Init PROVE SayAfterJoin
    BY InitOK
  <2>1. \A s \in Servers : \A t \in Neighbours[s] : net[t][s] = <<>>
    BY ChatServerAssumption DEF Init, ServerInit
  <2> QED
    BY <2>1 DEF SayAfterJoin, Backed
<1>2. Inv /\ JoinBroadcast /\ SayAfterJoin /\ [Next]_vars => Inv' /\ SayAfterJoin'
  BY NextOK, NextBacked
<1>3. Inv /\ JoinBroadcast /\ SayAfterJoin /\ [Next]_vars => Passes
  <2> SUFFICES ASSUME Inv, SayAfterJoin, [Next]_vars,
                      NEW s \in Servers, NEW t \in Neighbours[s], NEW u \in Neighbours[s], u # t,
                      NEW ch \in ChannelNames, NEW id \in Ids, id \notin Ids_of(s),
                      Reads(s, t, Say(ch, id)), alive[u], ~OverRuns(s),
                      ch \in Subscribed(subs'[s][u]) \ dropped'[s][t]
               PROVE  Say(ch, id) \in Range(net'[s][u])
    BY DEF InFlight, Say
  <2>1. t \in Servers /\ u \in Servers
    BY ChatServerAssumption
  <2>2. Receive(s, t)
    BY <2>1, OnlyReceive DEF Reads
  <2> QED
    BY <2>2, SayPassedOn DEF Reads
<1>4. Spec => []JoinBroadcast
  BY NeighboursAreTold
<1> QED
  BY <1>1, <1>2, <1>3, <1>4, PTL DEF Spec, PassedOnUnlessCut

--------------------------------------------------------------------------------
(* Who is up stays subscribed *)

\* A Join under way and a subscription are of a neighbour that has the channel.
Owned ==
  \A s, t \in Servers : alive[s] /\ alive[t] =>
    \A ch \in ChannelNames : InFlight(t, s, Join(ch)) \/ ch \in Subscribed(subs[s][t])
      => ch \in Hosted(t) /\ s \in Neighbours[t]

\* A subscription is not older than the channel, or the Join that renews it is on
\* its way, for all channels that are renewed.
Fresh ==
  \A s, t \in Servers : alive[s] /\ alive[t] =>
    \A k \in 2 .. Len(chans[t]), i \in 1 .. Len(subs[s][t].items) :
      subs[s][t].items[i].chan = chans[t][k].name =>
        /\ subs[s][t].items[i].age <= Min2
        /\ \/ subs[s][t].items[i].age <= chans[t][k].tm
           \/ InFlight(t, s, Join(chans[t][k].name))

\* The entries and what they are about.
LEMMA Entries ==
  ASSUME NEW srvr, GoodSubs(srvr)
  PROVE  /\ Len(srvr.items) \in Nat /\ DOMAIN srvr.items = 1 .. Len(srvr.items)
         /\ \A i \in 1 .. Len(srvr.items) :
              /\ srvr.items[i].chan \in Subscribed(srvr)
              /\ srvr.items[i].chan \in ChannelNames
              /\ srvr.items[i].age \in Nat
         /\ \A ch \in Subscribed(srvr) : \E i \in 1 .. Len(srvr.items) : srvr.items[i].chan = ch
<1>1. srvr.items \in Seq(Subscription)
  BY DEF GoodSubs, CountedArrays
<1>2. Len(srvr.items) \in Nat /\ DOMAIN srvr.items = 1 .. Len(srvr.items)
  BY <1>1
<1>3. \A i \in 1 .. Len(srvr.items) : srvr.items[i] \in Subscription
  BY <1>1
<1>4. \A e \in Subscription : e.chan \in ChannelNames /\ e.age \in Nat
  BY AdjacentServersAssumption DEF Subscription
<1>5. \A i \in 1 .. Len(srvr.items) : srvr.items[i].chan \in Subscribed(srvr)
  BY <1>2 DEF Subscribed
<1>6. \A ch \in Subscribed(srvr) : \E i \in 1 .. Len(srvr.items) : srvr.items[i].chan = ch
  BY <1>2 DEF Subscribed
<1> QED
  BY <1>2, <1>3, <1>4, <1>5, <1>6

\* The subscriptions after an iteration are well formed.
LEMMA ReadGood ==
  ASSUME ServerOK, NEW s \in Servers, NEW nw, NEW sb, NEW told, Takes(s, nw, sb, told),
         NEW t \in Servers
  PROVE  GoodSubs(sb[t])
<1> DEFINE swept == Swept(subs[s][t])
<1>1. GoodSubs(swept) /\ GoodSubs(DropLast(swept))
  BY SweptGood, DropLastGood DEF ServerOK, LoopOK, GoodSubsOf, GoodSubs
<1>2. \A ch \in ChannelNames : GoodSubs(Resubscribe(swept, ch))
  BY <1>1, ResubscribeGood
<1>3. \/ sb[t] = swept
      \/ sb[t] = DropLast(swept)
      \/ \E ch \in ChannelNames : sb[t] = Resubscribe(swept, ch)
  BY ReadSubs
<1> HIDE DEF swept
<1> QED
  BY <1>1, <1>2, <1>3

\* e is a new entry of the subscriptions of t at s, or it was there before; and if
\* it is as it was, a Join for it that was under way still is.
Explains(e, s, t, nw) ==
  \/ e.age = 0 /\ Join(e.chan) \in Range(net[t][s])
  \/ \E j \in 1 .. Len(subs[s][t].items) :
       /\ e.chan = subs[s][t].items[j].chan
       /\ \/ e.age = 0
          \/ /\ e.age = subs[s][t].items[j].age
             /\ Join(e.chan) \in Range(net[t][s]) => Join(e.chan) \in Range(nw[t][s])

\* So are the entries after the datagram that s read.
LEMMA ReadEntries ==
  ASSUME ServerOK, NamesDistinct, NEW s \in Servers, NEW nw, NEW sb, NEW told,
         Takes(s, nw, sb, told), NEW t \in Servers, NEW i \in 1 .. Len(sb[t].items)
  PROVE  Explains(sb[t].items[i], s, t, nw)
<1> DEFINE swept == Swept(subs[s][t])
           e == sb[t].items[i]
<1>1. /\ GoodSubs(subs[s][t]) /\ GoodSubs(swept) /\ Within(swept, subs[s][t])
      /\ DistinctSubs(subs[s][t])
  BY SweptWithin, SweptGood DEF ServerOK, LoopOK, GoodSubsOf, GoodSubs, NamesDistinct
<1>2. Len(subs[s][t].items) \in Nat /\ Len(swept.items) \in Nat
  BY <1>1, Entries
<1>3. DistinctSubs(swept)
  BY <1>1, <1>2, WithinDistinct
<1>4. \A k \in 1 .. Len(swept.items) :
        k \in 1 .. Len(subs[s][t].items) /\ swept.items[k] = subs[s][t].items[k]
  BY <1>1, <1>2 DEF Within
<1>5. Join(e.chan) \in Range(net[t][s]) => Join(e.chan) \in Range(nw[t][s]) \/ e.chan \in told[t]
  BY TakesJoin
<1>6. CASE told[t] = {} /\ Within(sb[t], subs[s][t])
  <2>1. e = subs[s][t].items[i] /\ i \in 1 .. Len(subs[s][t].items)
    <3>1. Len(sb[t].items) <= Len(subs[s][t].items) /\ e = subs[s][t].items[i]
      BY <1>6 DEF Within
    <3>2. Len(sb[t].items) \in Nat
      BY ReadGood, Entries
    <3> QED
      BY <1>2, <3>1, <3>2
  <2> QED
    BY <1>5, <1>6, <2>1 DEF Explains
<1>7. ASSUME NEW ch \in ChannelNames, ReadsJoin(s, t, nw, ch), told[t] = {ch},
             sb[t] = Resubscribe(swept, ch)
      PROVE  Explains(e, s, t, nw)
  <2> DEFINE n == Len(swept.items)
             after == Resubscribe(swept, ch)
  <2> HIDE DEF swept
  <2>1. Len(after.items) \in {n, n + 1}
    BY <1>1, ResubscribeEntries
  <2>2. \A k \in 1 .. n : after.items[k].chan = swept.items[k].chan
    BY <1>1, ResubscribeEntries
  <2>3. ASSUME NEW k \in 1 .. n
        PROVE  after.items[k].age = swept.items[k].age \/ after.items[k].age = 0
    <3>1. GoodSubs(swept) /\ k \in 1 .. Len(swept.items)
      BY <1>1
    <3> HIDE DEF n
    <3>2. \/ Resubscribe(swept, ch).items[k].age = swept.items[k].age
          \/ Resubscribe(swept, ch).items[k] = [chan |-> ch, age |-> 0]
      BY ONLY <3>1, ResubscribeEntries
    <3> QED
      BY <3>2
  <2>4. \A k \in 1 .. n : swept.items[k].chan = ch => after.items[k].age = 0
    <3>1. GoodSubs(swept)
      BY <1>1
    <3>2. \A k \in 1 .. Len(swept.items) : DistinctSubs(swept) /\ swept.items[k].chan = ch
            => Resubscribe(swept, ch).items[k].age = 0
      BY ONLY <3>1, ResubscribeEntries
    <3> QED
      BY ONLY <1>3, <3>2
  <2>5. Len(after.items) = n + 1 => after.items[n + 1] = [chan |-> ch, age |-> 0]
    BY <1>1, ResubscribeEntries
  <2>6. Join(ch) \in Range(net[t][s])
    <3>1. net[t][s] \in Seq(Message) /\ net[t][s] # <<>> /\ Head(net[t][s]) = Join(ch)
      BY <1>7 DEF ReadsJoin, ServerOK, LoopOK, Outgoing
    <3>2. 1 \in DOMAIN net[t][s] /\ net[t][s][1] = Join(ch)
      BY <3>1
    <3> QED
      BY <3>2 DEF Range
  <2>7. e = after.items[i] /\ i \in 1 .. Len(after.items)
    BY <1>7
  <2> HIDE DEF after, n
  <2>8. i \in 1 .. n \/ (Len(after.items) = n + 1 /\ i = n + 1)
    BY <1>2, <2>1, <2>7 DEF n
  <2>9. CASE i \in 1 .. n
    <3>1. e.chan = swept.items[i].chan
          /\ (e.age = swept.items[i].age \/ e.age = 0)
          /\ (e.chan = ch => e.age = 0)
      BY <2>2, <2>3, <2>4, <2>7, <2>9
    <3>2. i \in 1 .. Len(subs[s][t].items) /\ swept.items[i] = subs[s][t].items[i]
      BY <1>4, <2>9 DEF n
    <3> HIDE DEF e
    <3> QED
      BY <1>5, <1>7, <3>1, <3>2 DEF Explains
  <2>10. CASE Len(after.items) = n + 1 /\ i = n + 1
    BY <2>5, <2>6, <2>7, <2>10 DEF Explains
  <2> QED
    BY <2>8, <2>9, <2>10
<1> QED
  BY <1>6, <1>7, ReadSubs

\* A channel gets among them by a Join only.
LEMMA ReadNames ==
  ASSUME ServerOK, NamesDistinct, NEW s \in Servers, NEW nw, NEW sb, NEW told,
         Takes(s, nw, sb, told), NEW t \in Servers, NEW ch \in Subscribed(sb[t])
  PROVE  ch \in Subscribed(subs[s][t]) \/ Join(ch) \in Range(net[t][s])
<1>1. GoodSubs(sb[t]) /\ GoodSubs(subs[s][t])
  BY ReadGood DEF ServerOK, LoopOK, GoodSubsOf
<1>2. PICK i \in 1 .. Len(sb[t].items) : sb[t].items[i].chan = ch
  BY <1>1, Entries
<1>3. \/ Join(sb[t].items[i].chan) \in Range(net[t][s])
      \/ \E j \in 1 .. Len(subs[s][t].items) : sb[t].items[i].chan = subs[s][t].items[j].chan
  BY ReadEntries DEF Explains
<1> QED
  BY <1>1, <1>2, <1>3, Entries

\* Without a LEAVE no channel is removed.
LEMMA HostedGrows ==
  ASSUME "leave" \notin Commands, LoopOK, NEW s \in Servers, NEW cs, NEW out, Does(s, cs, out)
  PROVE  Extends(s, cs, out) /\ Names(chans[s]) \subseteq Names(cs)
<1>1. Extends(s, cs, out)
  BY DEF Does, Shrinks
<1>2. Len(chans[s]) \in Nat
  BY DEF LoopOK
<1>3. \A k \in 1 .. Len(chans[s]) : k \in 1 .. Len(cs) /\ cs[k].name = chans[s][k].name
  BY <1>1, <1>2 DEF Extends
<1> QED
  BY <1>1, <1>3 DEF Names

\* What an iteration of s leaves behind, for all who are up.
LEMMA IterationOwned ==
  ASSUME "leave" \notin Commands, ServerOK, ServerOK', NamesDistinct, Owned,
         NEW s \in Servers, Iteration(s)
  PROVE  Owned'
<1>1. PICK nw, sb, told : Takes(s, nw, sb, told) /\ Ends(s, nw, sb, told)
  BY IterationParts
<1>2. PICK cs, out : /\ out \in Outgoing /\ Honest(s, cs, out)
                     /\ \/ Does(s, cs, out) /\ Record(s, nw, cs, sb, told, out)
                        \/ DiesSending(s, nw, out)
  BY <1>1 DEF Ends, Does
<1>3. nw \in [Servers -> Outgoing] /\ \A p, q \in Servers : Range(nw[p][q]) \subseteq Range(net[p][q])
  BY <1>1, ReadTypesOf
<1>4. Finishes(s, nw, cs, sb, told, out)
  BY <1>2 DEF Finishes
<1> SUFFICES ASSUME NEW r \in Servers, NEW t \in Servers, alive'[r], alive'[t],
                    NEW ch \in ChannelNames,
                    Join(ch) \in Range(net'[t][r]) \/ ch \in Subscribed(subs'[r][t])
             PROVE  ch \in Hosted(t)' /\ r \in Neighbours[t]
  BY DEF Owned, InFlight, Join
<1>5. alive[r] /\ alive[t]
  BY <1>2, <1>3, <1>4, EndsLinks
<1>6. Join(ch) \in Range(net[t][r]) \/ ch \in Subscribed(subs[r][t])
        => ch \in Hosted(t) /\ r \in Neighbours[t]
  BY <1>5 DEF Owned, InFlight
<1>7. Hosted(t) = Names(chans[t]) /\ Hosted(t)' = Names(chans'[t])
  <2>1. DOMAIN chans'[t] = 1 .. Len(chans'[t])
    BY DEF ServerOK, LoopOK
  <2> QED
    BY <2>1, HostedNames DEF ServerOK, Hosted, Names
<1>8. \/ UNCHANGED <<chans, subs>> /\ t # s /\ r # s
      \/ /\ Does(s, cs, out) /\ subs'[s] = sb /\ (r # s => subs'[r] = subs[r])
         /\ chans'[s] = cs /\ (t # s => chans'[t] = chans[t])
  BY <1>2, Recorded DEF DiesSending, ServerOK, LoopOK
<1>9. Hosted(t) \subseteq Hosted(t)'
  BY <1>7, <1>8, HostedGrows DEF ServerOK
<1>10. CASE Join(ch) \in Range(net'[t][r])
  <2>1. net'[t][r] = IF t = s THEN nw[t][r] \o out[r] ELSE nw[t][r]
    BY <1>2, <1>3, <1>4, EndsLinks
  <2>2. nw[t][r] \in Seq(Message) /\ out[r] \in Seq(Message)
    BY <1>2, <1>3 DEF Outgoing
  <2>3. Join(ch) \in Range(nw[t][r]) \/ (t = s /\ Join(ch) \in Range(out[r]))
    BY <1>10, <2>1, <2>2, RangeOfConcat
  <2>4. CASE Join(ch) \in Range(nw[t][r])
    BY <1>3, <1>6, <1>9, <2>4
  <2>5. CASE t = s /\ Join(ch) \in Range(out[r])
    <3>1. Join(ch).type = "join" /\ Join(ch).chan = ch
      BY DEF Join
    <3>2. r \in Neighbours[s] /\ ch \in Names(cs)
      BY <1>2, <2>5, <3>1 DEF Honest
    <3> QED
      BY <1>7, <1>8, <2>5, <3>2
  <2> QED
    BY <2>3, <2>4, <2>5
<1>11. CASE ch \in Subscribed(subs'[r][t])
  <2>1. ch \in Subscribed(subs[r][t]) \/ Join(ch) \in Range(net[t][r])
    BY <1>1, <1>8, <1>11, ReadNames
  <2> QED
    BY <1>6, <1>9, <2>1
<1> QED
  BY <1>10, <1>11

\* An iteration keeps subscriptions as young as the clock of their channel says.
LEMMA IterationFresh ==
  ASSUME "leave" \notin Commands, ServerOK, ServerOK', NamesDistinct, Owned, Fresh,
         NEW s \in Servers, Iteration(s)
  PROVE  Fresh'
<1>1. PICK nw, sb, told : Takes(s, nw, sb, told) /\ Ends(s, nw, sb, told)
  BY IterationParts
<1>2. PICK cs, out : /\ out \in Outgoing
                     /\ \/ Does(s, cs, out) /\ Record(s, nw, cs, sb, told, out)
                        \/ DiesSending(s, nw, out)
  BY <1>1 DEF Ends, Does
<1>3. nw \in [Servers -> Outgoing]
  BY <1>1, ReadTypesOf
<1>4. Finishes(s, nw, cs, sb, told, out)
  BY <1>2 DEF Finishes
<1> SUFFICES ASSUME NEW r \in Servers, NEW t \in Servers, alive'[r], alive'[t],
                    NEW k \in 2 .. Len(chans'[t]), NEW i \in 1 .. Len(subs'[r][t].items),
                    subs'[r][t].items[i].chan = chans'[t][k].name
             PROVE  /\ subs'[r][t].items[i].age <= Min2
                    /\ \/ subs'[r][t].items[i].age <= chans'[t][k].tm
                       \/ Join(chans'[t][k].name) \in Range(net'[t][r])
  BY DEF Fresh, InFlight, Join
<1> DEFINE ch == chans'[t][k].name
           e == subs'[r][t].items[i]
<1>5. alive[r] /\ alive[t] /\ net'[t][r] = IF t = s THEN nw[t][r] \o out[r] ELSE nw[t][r]
  BY <1>2, <1>3, <1>4, EndsLinks
<1>6. \/ UNCHANGED <<chans, subs>> /\ t # s /\ r # s
      \/ /\ Does(s, cs, out) /\ subs'[s] = sb /\ (r # s => subs'[r] = subs[r])
         /\ chans'[s] = cs /\ (t # s => chans'[t] = chans[t])
  BY <1>2, Recorded DEF DiesSending, ServerOK, LoopOK
<1>7. /\ chans'[t] \in Seq(Channel) /\ Len(chans[t]) \in Nat /\ k \in 1 .. Len(chans'[t])
      /\ chans'[t][k].tm \in Nat /\ ch \in ChannelNames
  <2>1. chans'[t] \in Seq(Channel) /\ Len(chans[t]) \in Nat /\ k \in 1 .. Len(chans'[t])
    BY DEF ServerOK, LoopOK
  <2>2. chans'[t][k] \in Channel
    BY <2>1
  <2> QED
    BY <2>1, <2>2, ChannelsAssumption DEF Channel
\* The channel was there; if its clock changed, the Join is under way.
<1>8. ch \in Subscribed(subs[r][t]) \/ Join(ch) \in Range(net[t][r])
  <2>1. GoodSubs(subs'[r][t])
    BY DEF ServerOK, LoopOK, GoodSubsOf
  <2>2. ch \in Subscribed(subs'[r][t])
    BY <2>1, Entries
  <2> QED
    BY <1>1, <1>6, <2>2, ReadNames
<1>9. ch \in Names(chans[t]) /\ r \in Neighbours[t]
  BY <1>5, <1>7, <1>8, HostedNames DEF Owned, InFlight, ServerOK
<1>10. /\ k \in 2 .. Len(chans[t]) /\ chans[t][k].name = ch
       /\ chans'[t][k].tm = chans[t][k].tm \/ (t = s /\ Join(ch) \in Range(out[r]))
  <2>1. CASE chans'[t] = chans[t]
    BY <2>1
  <2>2. CASE Does(s, cs, out) /\ t = s /\ chans'[t] = cs
    <3>1. Extends(s, cs, out)
      BY <2>2, HostedGrows DEF ServerOK
    <3>2. k \in 2 .. Len(chans[t])
      BY <1>7, <1>9, <2>2, <3>1 DEF Extends
    <3> QED
      BY <1>9, <2>2, <3>1, <3>2 DEF Extends, Tells
  <2> QED
    BY <1>6, <2>1, <2>2
<1>11. Join(ch) \in Range(nw[t][r]) \/ (t = s /\ Join(ch) \in Range(out[r]))
         => Join(ch) \in Range(net'[t][r])
  <2>1. nw[t][r] \in Seq(Message) /\ out[r] \in Seq(Message)
    BY <1>2, <1>3 DEF Outgoing
  <2> QED
    BY <1>5, <2>1, RangeOfConcat
<1>12. \/ e.age = 0
       \/ \E j \in 1 .. Len(subs[r][t].items) :
            /\ subs[r][t].items[j].chan = ch
            /\ e.age = subs[r][t].items[j].age
            /\ Join(ch) \in Range(net[t][r]) => Join(ch) \in Range(nw[t][r])
  <2>1. CASE r = s /\ subs'[s] = sb
    <3>1. i \in 1 .. Len(sb[t].items) /\ e = sb[t].items[i] /\ sb[t].items[i].chan = ch
      BY <2>1
    <3>2. Explains(sb[t].items[i], s, t, nw)
      BY <1>1, <3>1, ReadEntries
    <3> HIDE DEF e, ch
    <3> QED
      BY <2>1, <3>1, <3>2 DEF Explains
  <2>2. CASE r # s /\ subs'[r] = subs[r]
    <3>1. Join(ch) \in Range(net[t][r]) => Join(ch) \in Range(nw[t][r])
      BY <1>1, <2>2, TakesJoin
    <3> QED
      BY <2>2, <3>1
  <2> QED
    BY <1>6, <2>1, <2>2
<1> HIDE DEF e, ch
<1>13. CASE e.age = 0
  BY <1>7, <1>13, AdjacentServersAssumption DEF e
<1>14. ASSUME NEW j \in 1 .. Len(subs[r][t].items), subs[r][t].items[j].chan = ch,
              e.age = subs[r][t].items[j].age,
              Join(ch) \in Range(net[t][r]) => Join(ch) \in Range(nw[t][r])
       PROVE  e.age <= Min2 /\ (e.age <= chans'[t][k].tm \/ Join(ch) \in Range(net'[t][r]))
  <2>1. /\ subs[r][t].items[j].age <= Min2
        /\ subs[r][t].items[j].age <= chans[t][k].tm \/ Join(ch) \in Range(net[t][r])
    BY <1>5, <1>10, <1>14 DEF Fresh, InFlight
  <2> QED
    BY <1>10, <1>11, <1>14, <2>1
<1> QED
  BY <1>12, <1>13, <1>14 DEF e, ch

\* A datagram that is doubled or overtaken is one that was there.
LEMMA DatagramFaultsAddNone ==
  ASSUME ServerOK, NEW s \in Servers, NEW t \in Servers, NEW i \in DOMAIN net[s][t],
         Duplicate(s, t, i) \/ Overtake(s, t, i),
         NEW p \in Servers, NEW q \in Servers
  PROVE  Range(net'[p][q]) \subseteq Range(net[p][q])
<1> DEFINE b == net[s][t]
<1>1. b \in Seq(Message) /\ i \in 1 .. Len(b) /\ DOMAIN b = 1 .. Len(b) /\ Len(b) \in Nat
  <2>1. b \in Seq(Message)
    BY DEF ServerOK, LoopOK, Outgoing
  <2> QED
    BY <2>1
<1>2. CASE Duplicate(s, t, i)
  <2>1. net' = [net EXCEPT ![s][t] = Append(b, b[i])]
    BY <1>2 DEF Duplicate, ServerOK, LoopOK, Outgoing
  <2>2. net'[p][q] = IF p = s /\ q = t THEN Append(b, b[i]) ELSE net[p][q]
    BY <2>1 DEF ServerOK, LoopOK, Outgoing
  <2> HIDE DEF b
  <2>3. /\ DOMAIN Append(b, b[i]) = 1 .. Len(b) + 1
        /\ \A k \in 1 .. Len(b) + 1 : Append(b, b[i])[k] = IF k = Len(b) + 1 THEN b[i] ELSE b[k]
    BY <1>1
  <2>4. Range(Append(b, b[i])) \subseteq Range(b)
    BY <1>1, <2>3 DEF Range
  <2> QED
    BY <2>2, <2>4 DEF b
<1>3. CASE Overtake(s, t, i)
  <2> DEFINE f == [b EXCEPT ![i] = b[i + 1], ![i + 1] = b[i]]
  <2>1. net' = [net EXCEPT ![s][t] = f] /\ i < Len(b)
    BY <1>3 DEF Overtake
  <2>2. net'[p][q] = IF p = s /\ q = t THEN f ELSE net[p][q]
    <3> HIDE DEF f
    <3> QED
      BY <2>1 DEF ServerOK, LoopOK, Outgoing
  <2> HIDE DEF b
  <2>3. i + 1 \in 1 .. Len(b)
    BY <1>1, <2>1
  <2>4. /\ DOMAIN f = 1 .. Len(b)
        /\ \A k \in 1 .. Len(b) : f[k] = IF k = i + 1 THEN b[i] ELSE IF k = i THEN b[i + 1] ELSE b[k]
    BY <1>1, <2>3
  <2> HIDE DEF f
  <2>5. Range(f) \subseteq Range(b)
    BY <1>1, <2>3, <2>4 DEF Range
  <2> QED
    BY <2>2, <2>5 DEF b
<1> QED
  BY <1>2, <1>3

\* A step in which no channel and no subscription changes, and no link to one who is up.
LEMMA QuietFresh ==
  ASSUME UNCHANGED <<chans, subs>>,
         \A p, q \in Servers : alive'[q] => alive[q] /\ Range(net'[p][q]) = Range(net[p][q]),
         Owned, Fresh
  PROVE  Owned' /\ Fresh'
<1>1. Owned'
  BY DEF Owned, InFlight, Hosted, Join
<1>2. Fresh'
  BY DEF Fresh, InFlight, Join
<1> QED
  BY <1>1, <1>2

\* A unit of time, when all is settled.
LEMMA TickFresh ==
  ASSUME Min1 < Min2, ServerOK, ServerOK', Owned, Fresh, Settled, Tick
  PROVE  Owned' /\ Fresh'
<1>1. \A p, q \in Servers : net[p][q] = <<>>
  BY DEF Settled
<1>2. Owned'
  <2>1. \A p \in Servers : Hosted(p)' = Hosted(p)
    BY TickNames
  <2>2. \A p, q \in Servers : Subscribed(subs'[p][q]) = Subscribed(subs[p][q])
    BY TickNames
  <2>3. alive' = alive /\ net' = net
    BY DEF Tick
  <2> QED
    BY <2>1, <2>2, <2>3 DEF Owned, InFlight, Join
<1>3. Fresh'
  <2> SUFFICES ASSUME NEW s \in Servers, NEW t \in Servers, alive'[s], alive'[t],
                      NEW k \in 2 .. Len(chans'[t]), NEW i \in 1 .. Len(subs'[s][t].items),
                      subs'[s][t].items[i].chan = chans'[t][k].name
               PROVE  subs'[s][t].items[i].age <= Min2 /\ subs'[s][t].items[i].age <= chans'[t][k].tm
    BY DEF Fresh, InFlight
  <2>1. /\ chans'[t] = AgedChannels(chans[t]) /\ GoodChannels(chans[t])
        /\ subs'[s][t] = Aged(subs[s][t]) /\ GoodSubs(subs[s][t])
        /\ alive[s] /\ alive[t]
    BY DEF Tick, ServerOK, LoopOK, GoodSubsOf
  <2> DEFINE c == chans[t][k]
             e == subs[s][t].items[i]
  <2>2. k \in 2 .. Len(chans[t]) /\ k \in 1 .. Len(chans[t]) /\ i \in 1 .. Len(subs[s][t].items)
    <3>1. Len(chans[t]) \in Nat /\ Len(subs[s][t].items) \in Nat
      BY <2>1, Entries DEF GoodChannels
    <3>2. Len(chans'[t]) = Len(chans[t]) /\ Len(subs'[s][t].items) = Len(subs[s][t].items)
      BY <2>1, AgedChannelEntries, AgedEntries
    <3> QED
      BY <3>1, <3>2
  <2>3. c \in Channel /\ e \in Subscription
    <3>1. chans[t] \in Seq(Channel) /\ subs[s][t].items \in Seq(Subscription)
      BY <2>1 DEF GoodChannels, GoodSubs, CountedArrays
    <3> QED
      BY <2>2, <3>1
  <2>4. chans'[t][k].name = c.name /\ chans'[t][k].tm = IF c.tm > Min1 THEN c.tm ELSE c.tm + 1
    BY <2>1, <2>2, AgedChannelEntries
  <2>5. subs'[s][t].items[i] = Older(e)
    BY <2>1, <2>2, AgedEntries
  <2>6. c.tm \in Nat /\ e.age \in Nat /\ Older(e).chan = e.chan
        /\ Older(e).age = IF e.age > Min2 THEN e.age ELSE e.age + 1
    BY <2>3, ChannelsAssumption, AdjacentServersAssumption DEF Channel, Subscription, Older
  <2>7. c.tm <= Min1
    <3>1. Due(chans[t]) = {}
      BY <2>1 DEF Settled
    <3> QED
      BY <2>2, <2>6, <3>1, ChannelsAssumption DEF Due
  <2>8. e.age <= c.tm
    <3>1. Range(net[t][s]) = {}
      BY <1>1 DEF Range
    <3>2. e.chan = c.name
      BY <2>4, <2>5, <2>6
    <3> QED
      BY <2>1, <2>2, <3>1, <3>2 DEF Fresh, InFlight
  <2> HIDE DEF c, e
  <2> QED
    BY <2>4, <2>5, <2>6, <2>7, <2>8, ChannelsAssumption, AdjacentServersAssumption
<1> QED
  BY <1>2, <1>3

\* Every step.
LEMMA NextFresh ==
  ASSUME "leave" \notin Commands, "loss" \notin Faults, Timing # "loose", Min1 < Min2,
         ServerOK, SessOK, ServerOK', NamesDistinct, Owned, Fresh, [Next]_vars
  PROVE  Owned' /\ Fresh'
<1>0. StepForm
  BY NextForm
<1>1. CASE UNCHANGED serverVars
  BY <1>1, QuietFresh DEF serverVars
<1>2. ASSUME NEW s \in Servers, Dies(s) PROVE Owned' /\ Fresh'
  <2>1. UNCHANGED <<chans, subs>>
    BY <1>2 DEF Dies
  <2>2. ASSUME NEW p \in Servers, NEW q \in Servers, alive'[q]
        PROVE  alive[q] /\ net'[p][q] = net[p][q]
    <3>1. alive[q] /\ q # s
      BY <1>2, <2>2 DEF Dies, ServerOK, LoopOK
    <3>2. net \in [Servers -> Outgoing]
      BY DEF ServerOK, LoopOK
    <3>3. Nothing \in Outgoing
      BY SendingTypes
    <3>4. Unread(net, s)[p][q] = net[p][q]
      BY <3>1, <3>2, <3>3, NetworkKept
    <3> QED
      BY <1>2, <3>1, <3>4 DEF Dies
  <2> QED
    BY <2>1, <2>2, QuietFresh
<1>3. ASSUME NEW s \in Servers, Iteration(s) PROVE Owned' /\ Fresh'
  BY <1>3, IterationOwned, IterationFresh
<1>4. CASE TimePasses
  BY <1>4, TickFresh, ChatSystemAssumption DEF TimePasses
<1>5. ASSUME NEW p \in Servers, NEW q \in Servers,
             DatagramLost(p, q) \/ DatagramDuplicated(p, q) \/ DatagramOvertaken(p, q)
      PROVE  Owned' /\ Fresh'
  <2>1. PICK i \in DOMAIN net[p][q] : Duplicate(p, q, i) \/ Overtake(p, q, i)
    BY <1>5 DEF DatagramLost, DatagramDuplicated, DatagramOvertaken, Fault
  <2>2. UNCHANGED <<alive, chans, subs>>
    BY <2>1 DEF Duplicate, Overtake
  <2>3. Kept(net)
    BY <2>1, DatagramFaultsKeep
  <2>4. \A u, v \in Servers : Range(net'[u][v]) \subseteq Range(net[u][v])
    BY <2>1, DatagramFaultsAddNone
  <2>5. \A u, v \in Servers : alive'[v] => alive[v] /\ Range(net'[u][v]) = Range(net[u][v])
    BY <2>2, <2>3, <2>4 DEF Kept
  <2> QED
    BY <2>2, <2>5, QuietFresh
<1> QED
  BY <1>0, <1>1, <1>2, <1>3, <1>4, <1>5 DEF StepForm

\* The age the sweep looks at is that of the entry it is at.
LEMMA ElapsedSince ==
  ASSUME NEW srvr, GoodSubs(srvr), DistinctSubs(srvr), NEW i \in 1 .. Len(srvr.items)
  PROVE  channel_elapse(srvr, srvr.items[i].chan) = srvr.items[i].age
<1> DEFINE j == find_channel_server(srvr, srvr.items[i].chan)
<1>1. srvr.items[i].chan \in Subscribed(srvr)
  BY Entries
<1>2. j # 0
  BY <1>1, NoSubscription DEF GoodSubs, has_channel_server
<1>3. j \in 1 .. Len(srvr.items) /\ srvr.items[j].chan = srvr.items[i].chan
  BY <1>2, FindSubscription DEF GoodSubs
<1>4. j = i
  BY <1>3 DEF DistinctSubs
<1> HIDE DEF j
<1> QED
  BY <1>4 DEF j, channel_elapse

\* Who is up stays subscribed, on any federation, while servers are killed, requests are
\* lost and datagrams doubled or overtaken, if no user leaves a channel, no datagram is
\* lost, and servers and network are fast against the clock: only the channel
\* that is never renewed goes out of date.
THEOREM LiveStaySubscribed ==
  ASSUME "leave" \notin Commands, "loss" \notin Faults, Timing # "loose", Min1 < Min2
  PROVE  Spec => []LiveStayFresh
<1> DEFINE Inv == ServerOK /\ SessOK /\ faults \in 0 .. MaxFaults
<1>1. Init => Inv /\ Owned /\ Fresh
  <2> SUFFICES ASSUME Init PROVE Owned /\ Fresh
    BY InitOK
  <2>1. \A s, t \in Servers : net[s][t] = <<>>
    BY DEF Init, ServerInit
  <2>2. \A s \in Servers : Len(chans[s]) = 1 /\ Hosted(s) = {Common}
    BY DEF Init, ServerInit, Hosted, create_channel
  <2>3. \A s, t \in Servers : \A ch \in Subscribed(subs[s][t]) : ch = Common /\ t \in Neighbours[s]
    BY DEF Init, ServerInit, OneEntry, EmptyArray, Subscribed
  <2>4. Owned
    <3>1. \A s, t \in Servers : \A m : ~InFlight(s, t, m)
      BY <2>1 DEF InFlight, Range
    <3>2. ASSUME NEW s \in Servers, NEW t \in Servers, NEW ch \in Subscribed(subs[s][t])
          PROVE  ch \in Hosted(t) /\ s \in Neighbours[t]
      <4>1. ch = Common /\ t \in Neighbours[s]
        BY <2>3
      <4>2. s \in Neighbours[t]
        BY <4>1, ChatServerAssumption
      <4> QED
        BY <2>2, <4>1, <4>2
    <3> QED
      BY <3>1, <3>2 DEF Owned
  <2>5. Fresh
    BY <2>2 DEF Fresh
  <2> QED
    BY <2>4, <2>5
<1>2. Inv /\ NoNameTwice /\ Owned /\ Fresh /\ [Next]_vars => Inv' /\ Owned' /\ Fresh'
  BY NextOK, NextFresh, NamesDistinctIs
<1>3. Inv /\ NoNameTwice /\ Owned /\ Fresh => LiveStayFresh
  <2> SUFFICES ASSUME Inv, NamesDistinct, Owned, Fresh,
                      NEW s \in Servers, NEW t \in Servers, alive[s], alive[t],
                      NEW i \in Stale(subs[s][t])
               PROVE  subs[s][t].items[i].chan \in NotRenewed(t)
    BY NamesDistinctIs DEF LiveStayFresh
  <2> DEFINE ch == subs[s][t].items[i].chan
  <2>1. GoodSubs(subs[s][t]) /\ DistinctSubs(subs[s][t]) /\ DOMAIN chans[t] = 1 .. Len(chans[t])
    BY DEF ServerOK, LoopOK, GoodSubsOf, NamesDistinct
  <2>2. Len(subs[s][t].items) \in Nat /\ i \in 2 .. Len(subs[s][t].items)
        /\ channel_elapse(subs[s][t], ch) > Min2
    BY <2>1, Entries DEF Stale
  <2>3. i \in 1 .. Len(subs[s][t].items)
    BY <2>2
  <2>4. subs[s][t].items[i].age > Min2 /\ subs[s][t].items[i].age \in Nat
    BY <2>1, <2>2, <2>3, ElapsedSince, Entries
  <2>5. ch \in Hosted(t)
    <3>1. ch \in ChannelNames /\ ch \in Subscribed(subs[s][t])
      BY <2>1, <2>3, Entries
    <3> QED
      BY <3>1 DEF Owned
  <2>6. PICK k \in 1 .. Len(chans[t]) : chans[t][k].name = ch
    BY <2>1, <2>5 DEF Hosted
  <2>7. ~(k \in 2 .. Len(chans[t]))
    <3> SUFFICES ASSUME k \in 2 .. Len(chans[t]) PROVE FALSE
      OBVIOUS
    <3>1. subs[s][t].items[i].age <= Min2
      BY <2>3, <2>6 DEF Fresh
    <3> QED
      BY <2>4, <3>1, AdjacentServersAssumption
  <2>8. k = 1
    <3>1. Len(chans[t]) \in Nat
      BY DEF ServerOK, LoopOK
    <3> QED
      BY <2>6, <2>7, <3>1
  <2> QED
    BY <2>1, <2>6, <2>8 DEF NotRenewed
<1>4. Spec => []NoNameTwice
  BY NamesOnce
<1> QED
  BY <1>1, <1>2, <1>3, <1>4, PTL DEF Spec

================================================================================
