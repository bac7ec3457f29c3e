------------------------------ MODULE Tables_proofs ------------------------------
(***************************************************************************)
(* What the operations on the tables of a server return: a counted array   *)
(* that still shows no entries while its count is below zero, channels and *)
(* subscriptions that are well formed.                                     *)
(***************************************************************************)
EXTENDS AdjacentServers, SequenceTheorems, FiniteSetTheorems, WellFoundedInduction, TLAPS

\* Channels and subscriptions as TypeOK of ChatSystem wants them.
GoodChannels(cs) ==
  cs \in Seq(Channel) /\ \A i \in DOMAIN cs : WellCounted(cs[i].users)

GoodUsers(us) == us \in CountedArrays(Pointers) /\ WellCounted(us)

GoodSubs(srvr) == srvr \in CountedArrays(Subscription) /\ WellCounted(srvr)

--------------------------------------------------------------------------------
(* Positions *)

\* A set of positions that is not empty has a first one.
LEMMA MinOfPositions ==
  ASSUME NEW n \in Nat, NEW I \in SUBSET (1 .. n), I # {}
  PROVE  Min(I) \in I
<1> DEFINE Less == {ss \in Nat \X Nat : ss[1] < ss[2]}
<1>1. IsWellFoundedOn(Less, Nat)
  BY NatLessThanWellFounded DEF OpToRel
<1>2. PICK x \in I : \A y \in I : <<y, x>> \notin Less
  BY <1>1, WFMin
<1>3. \A y \in I : x <= y
  <2> SUFFICES ASSUME NEW y \in I PROVE x <= y
    OBVIOUS
  <2>1. <<y, x>> \in Nat \X Nat /\ <<y, x>> \notin Less
    BY <1>2
  <2>2. ~(<<y, x>>[1] < <<y, x>>[2])
    BY <2>1
  <2> QED
    BY <2>2
<1> QED
  BY <1>3 DEF Min

\* A set of positions is finite.
LEMMA PositionsFinite ==
  ASSUME NEW n \in Nat, NEW I \in SUBSET (1 .. n)
  PROVE  IsFiniteSet(I) /\ Cardinality(I) \in Nat
<1>1. IsFiniteSet(1 .. n)
  BY FS_Interval
<1> QED
  BY <1>1, FS_Subset, FS_CardinalityType

--------------------------------------------------------------------------------
(* Counted arrays *)

\* An append keeps a table well formed, below zero or not.
LEMMA StoreGood ==
  ASSUME NEW S, NEW a \in CountedArrays(S), WellCounted(a), NEW x \in S
  PROVE  Store(a, x) \in CountedArrays(S) /\ WellCounted(Store(a, x))
<1>1. CASE a.debt > 0
  BY <1>1 DEF CountedArrays, WellCounted, Store
<1>2. CASE ~(a.debt > 0)
  <2>1. Append(a.items, x) \in Seq(S)
    BY DEF CountedArrays
  <2> QED
    BY <1>2, <2>1 DEF CountedArrays, WellCounted, Store
<1> QED
  BY <1>1, <1>2

\* A decrement keeps a table well formed: it goes below zero only when empty.
LEMMA DropLastGood ==
  ASSUME NEW S, NEW a \in CountedArrays(S), WellCounted(a)
  PROVE  DropLast(a) \in CountedArrays(S) /\ WellCounted(DropLast(a))
<1>1. CASE a.items = <<>>
  BY <1>1 DEF CountedArrays, WellCounted, DropLast
<1>2. CASE a.items # <<>>
  <2>1. Front(a.items) \in Seq(S)
    BY <1>2 DEF CountedArrays, Front
  <2> QED
    BY <1>2, <2>1 DEF CountedArrays, WellCounted, DropLast
<1> QED
  BY <1>1, <1>2

\* So does the removal of an entry that is there.
LEMMA RemoveIndexGood ==
  ASSUME NEW S, NEW a \in CountedArrays(S), WellCounted(a), NEW i \in 1 .. Len(a.items)
  PROVE  RemoveIndex(a, i) \in CountedArrays(S) /\ WellCounted(RemoveIndex(a, i))
<1>1. RemoveAt(a.items, i) \in Seq(S)
  BY DEF CountedArrays, RemoveAt
<1>2. a.items # <<>>
  BY DEF CountedArrays
<1> QED
  BY <1>1, <1>2 DEF CountedArrays, WellCounted, RemoveIndex

--------------------------------------------------------------------------------
(* Channels *)

\* find_channel returns the position of a channel of that name, or none.
LEMMA FindChannel ==
  ASSUME NEW cs \in Seq(Channel), NEW ch, HasChannel(cs, ch)
  PROVE  find_channel(cs, ch) \in 1 .. Len(cs) /\ cs[find_channel(cs, ch)].name = ch
<1> DEFINE I == {i \in 1 .. Len(cs) : cs[i].name = ch}
<1>1. I # {}
  BY DEF HasChannel, find_channel, SelectInSeq
<1>2. Min(I) \in I
  <2>1. I \in SUBSET (1 .. Len(cs)) /\ Len(cs) \in Nat
    OBVIOUS
  <2> QED
    BY <1>1, <2>1, MinOfPositions
<1>3. find_channel(cs, ch) = Min(I)
  BY <1>1 DEF find_channel, SelectInSeq
<1> QED
  BY <1>2, <1>3

\* The scan of remove_user ends at an entry, or finds none.
LEMMA FirstNamedType ==
  ASSUME NEW us \in CountedArrays(Pointers), NEW name, NEW freed
  PROVE  FirstNamed(us, name, freed) \in 0 .. Len(us.items)
<1> DEFINE I == {i \in 1 .. Len(us.items) : IsNamed(us.items[i], name, freed)}
<1>0. Len(us.items) \in Nat
  BY DEF CountedArrays
<1>1. FirstNamed(us, name, freed) = IF I # {} THEN Min(I) ELSE 0
  BY DEF FirstNamed, SelectInSeq
<1>2. I # {} => Min(I) \in I
  BY <1>0, MinOfPositions
<1> QED
  BY <1>0, <1>1, <1>2

\* remove_user leaves a well-formed table whether or not it finds the name.
LEMMA RemoveUserGood ==
  ASSUME NEW us, GoodUsers(us), NEW name, NEW freed
  PROVE  GoodUsers(remove_user(us, name, freed))
<1>1. FirstNamed(us, name, freed) \in 0 .. Len(us.items)
  BY FirstNamedType DEF GoodUsers
<1>2. CASE FirstNamed(us, name, freed) = 0
  BY <1>2, DropLastGood DEF GoodUsers, remove_user
<1>3. CASE FirstNamed(us, name, freed) # 0
  <2>1. FirstNamed(us, name, freed) \in 1 .. Len(us.items)
    BY <1>1, <1>3 DEF GoodUsers, CountedArrays
  <2> QED
    BY <1>3, <2>1, RemoveIndexGood DEF GoodUsers, remove_user
<1> QED
  BY <1>2, <1>3

\* LOGIN puts a user into the first channel and takes one of its name out.
LEMMA LoginCommonGood ==
  ASSUME NEW us, GoodUsers(us), NEW c \in Clients, NEW freed
  PROVE  GoodUsers(LoginCommon(us, c, freed))
<1>1. GoodUsers(Store(us, c))
  BY StoreGood DEF GoodUsers, Pointers
<1> QED
  BY <1>1, RemoveUserGood DEF LoginCommon

\* A new channel is empty.
LEMMA AddChannelGood ==
  ASSUME NEW cs, GoodChannels(cs), NEW ch \in ChannelNames
  PROVE  GoodChannels(add_chnl(cs, ch))
<1>1. create_channel(ch) \in Channel /\ WellCounted(create_channel(ch).users)
  <2>1. EmptyArray \in CountedArrays(Pointers)
    BY DEF EmptyArray, CountedArrays
  <2>2. 0 \in 0 .. Min1 + 1
    BY ChannelsAssumption
  <2> QED
    BY <2>1, <2>2 DEF create_channel, Channel, WellCounted, EmptyArray
<1>2. add_chnl(cs, ch) \in Seq(Channel)
  BY <1>1 DEF GoodChannels, add_chnl
<1>3. \A i \in DOMAIN add_chnl(cs, ch) : WellCounted(add_chnl(cs, ch)[i].users)
  <2> SUFFICES ASSUME NEW i \in 1 .. Len(cs) + 1
               PROVE  WellCounted(Append(cs, create_channel(ch))[i].users)
    BY DEF GoodChannels, add_chnl
  <2>1. CASE i \in 1 .. Len(cs)
    BY <2>1 DEF GoodChannels
  <2>2. CASE i = Len(cs) + 1
    BY <1>1, <2>2 DEF GoodChannels
  <2> QED
    BY <2>1, <2>2 DEF GoodChannels
<1> QED
  BY <1>2, <1>3 DEF GoodChannels

\* A channel that was added is found.
LEMMA AddedIsThere ==
  ASSUME NEW cs \in Seq(Channel), NEW ch \in ChannelNames
  PROVE  HasChannel(add_chnl(cs, ch), ch)
<1> DEFINE cs1 == add_chnl(cs, ch)
           I == {i \in 1 .. Len(cs1) : cs1[i].name = ch}
<1>1. Len(cs1) = Len(cs) + 1 /\ cs1[Len(cs) + 1].name = ch /\ Len(cs) \in Nat
  BY DEF add_chnl, create_channel
<1> HIDE DEF cs1
<1>2. I # {} /\ I \in SUBSET (1 .. Len(cs1)) /\ Len(cs1) \in Nat
  BY <1>1
<1>3. Min(I) \in 1 .. Len(cs1)
  BY <1>2, MinOfPositions
<1>4. find_channel(cs1, ch) = Min(I)
  BY <1>2 DEF find_channel, SelectInSeq
<1> HIDE DEF I
<1> QED
  BY <1>2, <1>3, <1>4 DEF HasChannel, cs1

\* A channel that is removed leaves the others as they are.
LEMMA RemoveChannelGood ==
  ASSUME NEW cs, GoodChannels(cs), NEW i \in 1 .. Len(cs)
  PROVE  GoodChannels(remove_chnl(cs, i))
<1> DEFINE before == SubSeq(cs, 1, i - 1)
           after  == SubSeq(cs, i + 1, Len(cs))
<1>1. before \in Seq(Channel) /\ after \in Seq(Channel)
  BY DEF GoodChannels
<1>2. /\ \A k \in 1 .. Len(before) : WellCounted(before[k].users)
      /\ \A k \in 1 .. Len(after) : WellCounted(after[k].users)
  BY DEF GoodChannels
<1>3. remove_chnl(cs, i) = before \o after
  BY DEF remove_chnl, RemoveAt
<1> HIDE DEF before, after
<1>4. before \o after \in Seq(Channel)
  BY <1>1
<1>5. \A k \in 1 .. Len(before) + Len(after) : WellCounted((before \o after)[k].users)
  <2> SUFFICES ASSUME NEW k \in 1 .. Len(before) + Len(after)
               PROVE  WellCounted((before \o after)[k].users)
    OBVIOUS
  <2>1. CASE k <= Len(before)
    BY <1>1, <1>2, <2>1
  <2>2. CASE k > Len(before)
    BY <1>1, <1>2, <2>2
  <2> QED
    BY <1>1, <2>1, <2>2
<1> QED
  BY <1>1, <1>3, <1>4, <1>5 DEF GoodChannels

\* A channel that differs from a good one in its users and its clock.
LEMMA ChannelElement ==
  ASSUME NEW cs, GoodChannels(cs), NEW i \in DOMAIN cs
  PROVE  /\ cs[i] \in Channel
         /\ WellCounted(cs[i].users)
         /\ \A us : GoodUsers(us) => [cs[i] EXCEPT !.users = us] \in Channel
         /\ \A n \in 0 .. Min1 + 1 : [cs[i] EXCEPT !.tm = n] \in Channel
<1>1. cs[i] \in Channel /\ WellCounted(cs[i].users)
  BY DEF GoodChannels
<1>2. \A us : GoodUsers(us) => [cs[i] EXCEPT !.users = us] \in Channel
  BY <1>1 DEF GoodUsers, Channel
<1>3. \A n \in 0 .. Min1 + 1 : [cs[i] EXCEPT !.tm = n] \in Channel
  BY <1>1 DEF Channel
<1> QED
  BY <1>1, <1>2, <1>3

\* The users of a channel.
LEMMA ChannelUsers ==
  ASSUME NEW cs, GoodChannels(cs), NEW i \in 1 .. Len(cs)
  PROVE  cs[i] \in Channel /\ GoodUsers(cs[i].users)
<1>1. cs[i] \in Channel /\ WellCounted(cs[i].users)
  BY DEF GoodChannels
<1>2. cs[i].users \in CountedArrays(Pointers)
  BY <1>1 DEF Channel
<1> QED
  BY <1>1, <1>2 DEF GoodUsers

\* A sequence of good channels, entry by entry.
LEMMA ChannelSequence ==
  ASSUME NEW n \in Nat, NEW f, f = [i \in 1 .. n |-> f[i]],
         \A i \in 1 .. n : f[i] \in Channel /\ WellCounted(f[i].users)
  PROVE  GoodChannels(f)
<1>1. f \in [1 .. n -> Channel] /\ DOMAIN f = 1 .. n
  OBVIOUS
<1>2. f \in Seq(Channel)
  BY <1>1
<1> QED
  BY <1>1, <1>2 DEF GoodChannels

\* A table of users may replace another.
LEMMA SetUsersGood ==
  ASSUME NEW cs, GoodChannels(cs), NEW i \in 1 .. Len(cs), NEW us, GoodUsers(us)
  PROVE  GoodChannels([cs EXCEPT ![i].users = us])
<1> DEFINE f == [cs EXCEPT ![i].users = us]
<1>1. cs \in Seq(Channel) /\ Len(cs) \in Nat /\ DOMAIN cs = 1 .. Len(cs)
  BY DEF GoodChannels
<1>2. f = [k \in 1 .. Len(cs) |-> f[k]]
  BY <1>1
<1>3. \A k \in 1 .. Len(cs) : f[k] = IF k = i THEN [cs[i] EXCEPT !.users = us] ELSE cs[k]
  BY <1>1
<1>4. [cs[i] EXCEPT !.users = us].users = us
  BY <1>1 DEF Channel
<1> HIDE DEF f
<1>5. \A k \in 1 .. Len(cs) : f[k] \in Channel /\ WellCounted(f[k].users)
  <2> SUFFICES ASSUME NEW k \in 1 .. Len(cs)
               PROVE  f[k] \in Channel /\ WellCounted(f[k].users)
    OBVIOUS
  <2>1. k \in DOMAIN cs /\ cs[k] \in Channel /\ WellCounted(cs[k].users)
    BY <1>1, ChannelElement
  <2>2. CASE k # i
    <3>1. f[k] = cs[k]
      BY <1>3, <2>2
    <3> QED
      BY <2>1, <3>1
  <2>3. CASE k = i
    <3>1. f[k] = [cs[k] EXCEPT !.users = us]
      BY <1>3, <2>3
    <3>2. [cs[k] EXCEPT !.users = us] \in Channel
      BY <2>1, ChannelElement
    <3>3. WellCounted(us)
      BY DEF GoodUsers
    <3> QED
      BY <1>4, <2>3, <3>1, <3>2, <3>3
  <2> QED
    BY <2>2, <2>3
<1>6. GoodChannels(f)
  BY <1>1, <1>2, <1>5, ChannelSequence
<1> QED
  BY <1>6 DEF f

\* And so for all channels at once.
LEMMA MapUsersGood ==
  ASSUME NEW cs, GoodChannels(cs), NEW us, \A i \in DOMAIN cs : GoodUsers(us[i])
  PROVE  GoodChannels([i \in DOMAIN cs |-> [cs[i] EXCEPT !.users = us[i]]])
<1> DEFINE f == [i \in DOMAIN cs |-> [cs[i] EXCEPT !.users = us[i]]]
<1>1. cs \in Seq(Channel) /\ Len(cs) \in Nat /\ DOMAIN cs = 1 .. Len(cs)
  BY DEF GoodChannels
<1>2. f = [k \in 1 .. Len(cs) |-> f[k]]
  BY <1>1
<1>3. \A k \in 1 .. Len(cs) : f[k] = [cs[k] EXCEPT !.users = us[k]]
  BY <1>1
<1>4. \A k \in 1 .. Len(cs) : [cs[k] EXCEPT !.users = us[k]].users = us[k]
  BY <1>1 DEF Channel
<1> HIDE DEF f
<1>5. \A k \in 1 .. Len(cs) : f[k] \in Channel /\ WellCounted(f[k].users)
  <2> SUFFICES ASSUME NEW k \in 1 .. Len(cs)
               PROVE  f[k] \in Channel /\ WellCounted(f[k].users)
    OBVIOUS
  <2>1. k \in DOMAIN cs /\ cs[k] \in Channel /\ WellCounted(cs[k].users)
    BY <1>1, ChannelElement
  <2>2. f[k] = [cs[k] EXCEPT !.users = us[k]] /\ f[k].users = us[k]
    BY <1>3, <1>4
  <2>3. GoodUsers(us[k])
    BY <2>1
  <2>4. [cs[k] EXCEPT !.users = us[k]] \in Channel
    BY <2>1, <2>3, ChannelElement
  <2>5. WellCounted(us[k])
    BY <2>3 DEF GoodUsers
  <2> QED
    BY <2>2, <2>4, <2>5
<1>6. GoodChannels(f)
  BY <1>1, <1>2, <1>5, ChannelSequence
<1> QED
  BY <1>6 DEF f

\* A renewal resets clocks and nothing else.
LEMMA RenewedGood ==
  ASSUME NEW cs, GoodChannels(cs)
  PROVE  GoodChannels(Renewed(cs))
<1> DEFINE f == Renewed(cs)
<1>1. cs \in Seq(Channel) /\ Len(cs) \in Nat /\ DOMAIN cs = 1 .. Len(cs)
  BY DEF GoodChannels
<1>2. f = [k \in 1 .. Len(cs) |-> f[k]]
  BY <1>1 DEF Renewed
<1>3. \A k \in 1 .. Len(cs) : f[k] = cs[k] \/ f[k] = [cs[k] EXCEPT !.tm = 0]
  BY <1>1 DEF Renewed
<1>4. \A k \in 1 .. Len(cs) : [cs[k] EXCEPT !.tm = 0].users = cs[k].users
  BY <1>1 DEF Channel
<1>5. 0 \in 0 .. Min1 + 1
  BY ChannelsAssumption
<1> HIDE DEF f
<1>6. \A k \in 1 .. Len(cs) : f[k] \in Channel /\ WellCounted(f[k].users)
  <2> SUFFICES ASSUME NEW k \in 1 .. Len(cs)
               PROVE  f[k] \in Channel /\ WellCounted(f[k].users)
    OBVIOUS
  <2>1. k \in DOMAIN cs /\ cs[k] \in Channel /\ WellCounted(cs[k].users)
    BY <1>1, ChannelElement
  <2>2. [cs[k] EXCEPT !.tm = 0] \in Channel
    BY <1>5, <2>1, ChannelElement
  <2>3. CASE f[k] = cs[k]
    BY <2>1, <2>3
  <2>4. CASE f[k] = [cs[k] EXCEPT !.tm = 0]
    <3>1. f[k].users = cs[k].users
      BY <1>4, <2>4
    <3> QED
      BY <2>1, <2>2, <2>4, <3>1
  <2> QED
    BY <1>3, <2>3, <2>4
<1>7. GoodChannels(f)
  BY <1>1, <1>2, <1>6, ChannelSequence
<1> QED
  BY <1>7 DEF f

\* So does the clock: ages stop one past the threshold.
LEMMA AgedChannelsGood ==
  ASSUME NEW cs, GoodChannels(cs)
  PROVE  GoodChannels(AgedChannels(cs))
<1> DEFINE f == AgedChannels(cs)
<1>1. cs \in Seq(Channel) /\ Len(cs) \in Nat /\ DOMAIN cs = 1 .. Len(cs)
  BY DEF GoodChannels
<1>2. f = [k \in 1 .. Len(cs) |-> f[k]]
  BY <1>1 DEF AgedChannels
<1>3. \A k \in 1 .. Len(cs) :
        f[k] = [cs[k] EXCEPT !.tm = IF cs[k].tm > Min1 THEN cs[k].tm ELSE cs[k].tm + 1]
  BY <1>1 DEF AgedChannels
<1>4. \A k \in 1 .. Len(cs) : \A n : [cs[k] EXCEPT !.tm = n].users = cs[k].users
  BY <1>1 DEF Channel
<1>5. \A k \in 1 .. Len(cs) :
        (IF cs[k].tm > Min1 THEN cs[k].tm ELSE cs[k].tm + 1) \in 0 .. Min1 + 1
  <2> SUFFICES ASSUME NEW k \in 1 .. Len(cs)
               PROVE  (IF cs[k].tm > Min1 THEN cs[k].tm ELSE cs[k].tm + 1) \in 0 .. Min1 + 1
    OBVIOUS
  <2>1. cs[k] \in Channel
    BY <1>1
  <2>2. cs[k].tm \in 0 .. Min1 + 1
    BY <2>1 DEF Channel
  <2> QED
    BY <2>2, ChannelsAssumption
<1> HIDE DEF f
<1>6. \A k \in 1 .. Len(cs) : f[k] \in Channel /\ WellCounted(f[k].users)
  <2> SUFFICES ASSUME NEW k \in 1 .. Len(cs)
               PROVE  f[k] \in Channel /\ WellCounted(f[k].users)
    OBVIOUS
  <2>1. k \in DOMAIN cs /\ cs[k] \in Channel /\ WellCounted(cs[k].users)
    BY <1>1, ChannelElement
  <2> DEFINE n == IF cs[k].tm > Min1 THEN cs[k].tm ELSE cs[k].tm + 1
  <2>2. f[k] = [cs[k] EXCEPT !.tm = n] /\ n \in 0 .. Min1 + 1
    BY <1>3, <1>5
  <2> HIDE DEF n
  <2>3. [cs[k] EXCEPT !.tm = n] \in Channel
    BY <2>1, <2>2, ChannelElement
  <2>4. f[k].users = cs[k].users
    BY <1>4, <2>2
  <2> QED
    BY <2>1, <2>2, <2>3, <2>4
<1>7. GoodChannels(f)
  BY <1>1, <1>2, <1>6, ChannelSequence
<1> QED
  BY <1>7 DEF f

\* The channels that are due are positions of the array.
LEMMA DuePositions ==
  ASSUME NEW cs \in Seq(Channel)
  PROVE  Due(cs) \in SUBSET (1 .. Len(cs)) /\ Cardinality(Due(cs)) \in Nat
<1>1. Due(cs) \in SUBSET (1 .. Len(cs)) /\ Len(cs) \in Nat
  BY DEF Due
<1> QED
  BY <1>1, PositionsFinite

--------------------------------------------------------------------------------
(* Subscriptions *)

\* find_channel_server returns the position of a subscription to ch, or none.
LEMMA FindSubscription ==
  ASSUME NEW srvr \in CountedArrays(Subscription), NEW ch
  PROVE  LET i == find_channel_server(srvr, ch)
         IN  /\ i \in 0 .. Len(srvr.items)
             /\ i # 0 => i \in 1 .. Len(srvr.items) /\ srvr.items[i].chan = ch
<1> DEFINE I == {i \in 1 .. Len(srvr.items) : srvr.items[i].chan = ch}
<1>1. I \in SUBSET (1 .. Len(srvr.items)) /\ Len(srvr.items) \in Nat
  BY DEF CountedArrays
<1>2. I # {} => Min(I) \in I
  BY <1>1, MinOfPositions
<1>3. find_channel_server(srvr, ch) = IF I # {} THEN Min(I) ELSE 0
  BY DEF find_channel_server, SelectInSeq
<1> HIDE DEF I
<1> QED
  <2>1. CASE I = {}
    BY <1>1, <1>3, <2>1
  <2>2. CASE I # {}
    BY <1>1, <1>2, <1>3, <2>2 DEF I
  <2> QED
    BY <2>1, <2>2

\* A Join adds a subscription or resets its timer.
LEMMA ResubscribeGood ==
  ASSUME NEW srvr, GoodSubs(srvr), NEW ch \in ChannelNames
  PROVE  GoodSubs(Resubscribe(srvr, ch))
<1>1. 0 \in 0 .. Min2 + 1
  BY AdjacentServersAssumption
<1>2. CASE find_channel_server(srvr, ch) = 0
  <2>1. [chan |-> ch, age |-> 0] \in Subscription
    BY <1>1 DEF Subscription
  <2> QED
    BY <1>2, <2>1, StoreGood DEF GoodSubs, Resubscribe, add_ch_srv
<1>3. CASE find_channel_server(srvr, ch) # 0
  <2> DEFINE i == find_channel_server(srvr, ch)
  <2>1. i \in 1 .. Len(srvr.items)
    BY <1>3, FindSubscription DEF GoodSubs
  <2>2. Resubscribe(srvr, ch) = [srvr EXCEPT !.items[i].age = 0]
    BY <1>3 DEF Resubscribe
  <2> HIDE DEF i
  <2> DEFINE f == [srvr.items EXCEPT ![i].age = 0]
  <2>6. srvr.items \in Seq(Subscription) /\ DOMAIN srvr.items = 1 .. Len(srvr.items)
        /\ Len(srvr.items) \in Nat
    BY DEF GoodSubs, CountedArrays
  <2>7. \A k \in 1 .. Len(srvr.items) : f[k] \in Subscription
    <3>1. \A k \in 1 .. Len(srvr.items) : srvr.items[k] \in Subscription
      BY <2>6
    <3>2. [srvr.items[i] EXCEPT !.age = 0] \in Subscription
      BY <1>1, <2>1, <3>1 DEF Subscription
    <3> QED
      BY <2>6, <3>1, <3>2
  <2>8. f = [k \in 1 .. Len(srvr.items) |-> f[k]]
    BY <2>6
  <2>3. f \in Seq(Subscription)
    <3> HIDE DEF f
    <3>1. f \in [1 .. Len(srvr.items) -> Subscription]
      BY <2>7, <2>8
    <3> QED
      BY <2>6, <3>1
  <2>4. [srvr EXCEPT !.items[i].age = 0] = [srvr EXCEPT !.items = [srvr.items EXCEPT ![i].age = 0]]
    BY DEF GoodSubs, CountedArrays
  <2>5. srvr.items # <<>>
    BY <2>1 DEF GoodSubs, CountedArrays
  <2> QED
    BY <2>2, <2>3, <2>4, <2>5 DEF GoodSubs, CountedArrays, WellCounted
<1> QED
  BY <1>2, <1>3

\* The sweep keeps a prefix of the subscriptions.
LEMMA SweptGood ==
  ASSUME NEW srvr, GoodSubs(srvr)
  PROVE  GoodSubs(Swept(srvr))
<1> DEFINE reached == {j \in Stale(srvr) :
                j + Cardinality({k \in Stale(srvr) : k < j}) <= Len(srvr.items)}
<1>1. reached \in SUBSET (1 .. Len(srvr.items)) /\ Len(srvr.items) \in Nat
  BY DEF Stale, GoodSubs, CountedArrays
<1>2. Cardinality(reached) \in Nat
  BY <1>1, PositionsFinite
<1>3. Swept(srvr) = [srvr EXCEPT !.items =
                       SubSeq(srvr.items, 1, Len(srvr.items) - Cardinality(reached))]
  BY DEF Swept, GoodSubs, CountedArrays
<1> HIDE DEF reached
<1>4. SubSeq(srvr.items, 1, Len(srvr.items) - Cardinality(reached)) \in Seq(Subscription)
  BY <1>1, <1>2 DEF GoodSubs, CountedArrays
<1>5. srvr.items = <<>> =>
        SubSeq(srvr.items, 1, Len(srvr.items) - Cardinality(reached)) = <<>>
  BY <1>1, <1>2
<1> QED
  BY <1>3, <1>4, <1>5 DEF GoodSubs, CountedArrays, WellCounted

\* Ages stop one past the timeout.
LEMMA AgedGood ==
  ASSUME NEW srvr, GoodSubs(srvr)
  PROVE  GoodSubs(Aged(srvr))
<1> DEFINE aged == [i \in DOMAIN srvr.items |-> Older(srvr.items[i])]
<1>1. srvr.items \in Seq(Subscription) /\ DOMAIN srvr.items = 1 .. Len(srvr.items)
      /\ Len(srvr.items) \in Nat
  BY DEF GoodSubs, CountedArrays
<1>2. \A k \in 1 .. Len(srvr.items) : aged[k] \in Subscription
  <2> SUFFICES ASSUME NEW k \in 1 .. Len(srvr.items)
               PROVE  Older(srvr.items[k]) \in Subscription
    BY <1>1
  <2>1. srvr.items[k] \in Subscription
    BY <1>1
  <2> QED
    BY <2>1, AdjacentServersAssumption DEF Subscription, Older
<1>3. aged = [k \in 1 .. Len(srvr.items) |-> aged[k]]
  BY <1>1
<1>4. srvr.items = <<>> => aged = <<>>
  BY <1>1
<1>5. Aged(srvr) = [srvr EXCEPT !.items = aged]
  BY DEF Aged
<1> HIDE DEF aged
<1>6. aged \in Seq(Subscription)
  <2>1. aged \in [1 .. Len(srvr.items) -> Subscription]
    BY <1>2, <1>3
  <2> QED
    BY <1>1, <2>1
<1> QED
  BY <1>4, <1>5, <1>6 DEF GoodSubs, CountedArrays, WellCounted

================================================================================
