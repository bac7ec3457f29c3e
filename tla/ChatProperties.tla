------------------------------ MODULE ChatProperties ------------------------------
(***************************************************************************)
(* What the federation promises.  A property that needs an assumption on   *)
(* the run (no logout, no lost datagram, ...) says so in its comment; the  *)
(* configurations that check it make that assumption.                      *)
(***************************************************************************)
EXTENDS ChatSystem

Ids_of(s) == IdsOf(log[s])

InFlight(s, t, m) == m \in Range(net[s][t])

Hosted(s) == {chans[s][i].name : i \in DOMAIN chans[s]}

\* The step in which s reads m from t and survives.
Reads(s, t, m) ==
  /\ net[t][s] # <<>> /\ Head(net[t][s]) = m /\ net'[t][s] = Tail(net[t][s])
  /\ alive'[s]

\* The step in which s sends m to t, whose own datagrams to s may get fewer by it.
Sends(s, t, m) ==
  \E k \in DOMAIN net'[s][t] : k > Len(net[s][t]) /\ net'[s][t][k] = m

--------------------------------------------------------------------------------
(* Says *)

\* A Say that comes from a neighbour is accepted only if none of the last MAX_IDS
\* Says accepted here had its id: has_id before server.c:346, on any topology
\* and whatever the network duplicates or reorders.
RelayOnce ==
  \A s \in Servers : \A i, j \in DOMAIN log[s] :
    /\ i < j
    /\ log[s][i].id = log[s][j].id
    /\ ~log[s][j].own
    => j - i > MaxIds

\* How often the text of a Say was sent to client c, by any server.
TextsTo(c, id) ==
  Cardinality({x \in Servers \X (1 .. Cardinality(Ids)) \X (1 .. 2 * Cardinality(Clients)) :
     /\ x[2] \in DOMAIN log[x[1]]
     /\ log[x[1]][x[2]].id = id
     /\ x[3] \in DOMAIN log[x[1]][x[2]].to
     /\ log[x[1]][x[2]].to[x[3]] = c})

\* No user is shown a message twice, however many paths it travels: the ids are
\* distinct, nobody joins a channel he is in and no two users share a name.
ShownOnce == \A c \in Clients, id \in Ids : TextsTo(c, id) <= 1

\* A server that forwarded a Say did not do so in vain: the neighbour that runs
\* has recorded it or will find it in its socket, as long as recent_ids has not filled
\* up.  No datagram is lost.
ForwardedArrives ==
  \A s \in Servers : \A i \in DOMAIN log[s] : \A t \in log[s][i].fwd :
    \/ ~alive[t]
    \/ log[s][i].id \in Ids_of(t)
    \/ InFlight(s, t, Say(log[s][i].chan, log[s][i].id))
    \/ OverRuns(t)

\* A Say that a server accepted was said by a client of some server, on that channel.
EverySayWasSaid ==
  \A s \in Servers : \A i \in DOMAIN log[s] :
    \E t \in Servers : \E j \in DOMAIN log[t] :
      log[t][j].own /\ log[t][j].id = log[s][i].id /\ log[t][j].chan = log[s][i].chan

\* The servers implement Gossip: what a log holds but for the receivers is what its
\* server accepted.  A datagram under way, however late, doubled or out of order, is
\* one way to hear what a neighbour accepted.
Accepted ==
  [s \in Servers |-> [i \in DOMAIN log[s] |->
     [id |-> log[s][i].id, chan |-> log[s][i].chan, own |-> log[s][i].own]]]

Gossip == INSTANCE Gossip WITH accepted <- Accepted

GossipSpec == Gossip!Spec

\* A server that takes a Say hands it to every other neighbour that runs and has the
\* channel, unless it has cut off the neighbour the Say came from: server.c:351
\* counts the neighbours that have the channel, that one included, and gives up below
\* two.  A neighbour sends a Say only after its Join.  No datagram is lost or
\* overtaken.
PassedOnUnlessCut ==
  [][\A s \in Servers : \A t \in Neighbours[s] : \A u \in Neighbours[s] \ {t} :
       \A ch \in ChannelNames, id \in Ids \ Ids_of(s) :
         /\ Reads(s, t, Say(ch, id)) /\ alive[u] /\ ~OverRuns(s)
         /\ ch \in Subscribed(subs'[s][u]) \ dropped'[s][t]
         => InFlight(s, u, Say(ch, id))']_vars

\* A server that answers a Say with a Leave has no user in the channel, and no other
\* neighbour has the channel either, unless the neighbour the Say came from was cut
\* off before: then server.c:351, which counts subscribers and not servers to send to,
\* is content with one.  On a tree no Say comes back, so none is answered as a duplicate
\* of what the users here were shown before.  No time passes, no user leaves a
\* channel, and no datagram is lost, doubled or overtaken.
LeaveMeansNobodyUnlessCut ==
  [][\A s \in Servers : \A t \in Neighbours[s], ch \in ChannelNames, id \in Ids :
       Reads(s, t, Say(ch, id)) /\ Sends(s, t, Leave(ch)) =>
         /\ UsersOf(s, ch).items = <<>>
         /\ \A u \in Neighbours[s] \ {t} :
              ch \in Subscribed(subs'[s][u]) => ch \in dropped'[s][t]]_vars

--------------------------------------------------------------------------------
(* Subscriptions *)

\* A server that has a channel has told each neighbour so: the neighbour has it
\* among its subscriptions, or the Join is on its way, or the neighbour had it
\* and lost it again.  No datagram is lost.
JoinBroadcast ==
  \A s \in Servers : \A t \in Neighbours[s] :
    alive[s] /\ alive[t] =>
      \A ch \in Hosted(s) :
        \/ ch \in Subscribed(subs[t][s])
        \/ ch \in dropped[t][s]
        \/ InFlight(s, t, Join(ch))

\* Two tables of names on one server have no name twice: the loops that look one
\* up by name stop at the first.
NoNameTwice ==
  \A s \in Servers :
    /\ \A i, j \in DOMAIN chans[s] : chans[s][i].name = chans[s][j].name => i = j
    /\ \A t \in Servers : \A i, j \in DOMAIN subs[s][t].items :
         subs[s][t].items[i].chan = subs[s][t].items[j].chan => i = j

\* The first channel of a server, which the loop at resub leaves out.
NotRenewed(s) == {chans[s][i].name : i \in DOMAIN chans[s] \cap {1}}

\* While servers and network keep up with the clock, no subscription of a server that
\* is up gets too old, but for the one channel the server never renews.  Common is
\* that channel, and a subscription to it does get old once a Leave has moved it
\* away from the first place, where the sweep does not look.  No user leaves a
\* channel, and no datagram is lost.
LiveStayFresh ==
  \A s, t \in Servers : alive[s] /\ alive[t] =>
    \A i \in Stale(subs[s][t]) : subs[s][t].items[i].chan \in NotRenewed(t)

\* A subscription that was cut by a Leave comes back with the next renewal: the link
\* is tried anew once a minute.  Not so for the channel that is never renewed.
CutLinksComeBack ==
  \A s \in Servers : \A t \in Neighbours[s], ch \in ChannelNames :
    ch \in Hosted(s) \ NotRenewed(s)
      ~> ~alive[s] \/ ~alive[t] \/ ch \in Subscribed(subs[t][s])

\* The subscriptions of a server that is down are forgotten, all but the first
\* one, which the sweep never looks at.
DeadForgotten ==
  \A s \in Servers : \A t \in Neighbours[s] :
    ~alive[t] ~> (~alive[s] \/ Len(subs[s][t].items) <= 1)

\* A Join that travels in a circle comes to rest, and so do the Leaves by which a
\* removed channel is given up.
TrafficEnds == []<>(\A s, t \in Servers : net[s][t] = <<>>)

--------------------------------------------------------------------------------
(* Members *)

\* No user of s has logged out.
NobodyLeft(s) == \A c \in Clients : Home[c] = s => sess[c].phase # "out"

\* What a client takes itself to be in is what its server has it in: the tables
\* follow the joins and leaves of all users, through channels that are created
\* and removed by them and by other servers, until one of them logs out, which drops
\* others as well.  No user joins a channel twice, no two share a name, no request
\* is lost.
MembersAgree ==
  \A c \in Clients : alive[Home[c]] /\ sess[c].phase = "on" /\ NobodyLeft(Home[c]) =>
    \A ch \in ChannelNames :
      (c \in Range(UsersOf(Home[c], ch).items)) <=> (ch \in Range(sess[c].joined))

\* Every pointer to a user in a channel of a server that runs is to one who is logged
\* in, and NULL is not among them.  No user joins a channel twice, no two share a
\* name, and no request is lost.
PointersAreLive ==
  \A s \in Servers : alive[s] => \A i \in DOMAIN chans[s] :
    Range(chans[s][i].users.items) \subseteq Range(all_users[s].items) \ freed[s]

\* The answer to WHO, laid out for all who are logged in, has room for the users of
\* any channel.  No user joins a channel twice, no two share a name, and no request
\* is lost.
WhoFits ==
  \A s \in Servers : alive[s] => \A i \in DOMAIN chans[s] :
    Len(chans[s][i].users.items) <= Count(all_users[s])

--------------------------------------------------------------------------------
(* Crashes *)

\* No server crashes while users join channels, switch between them and say: every
\* Say of a neighbour is on a channel the server has, every Say of a client is
\* by a user its channel lists, and no table of subscriptions gets so far below
\* zero that the next Leave writes over the stack.  No more than three Says, no
\* faults, no time passing.
NobodyDies == \A s \in Servers : alive[s]

--------------------------------------------------------------------------------
(* What the documents say and the code does not do *)

\* server.c:352, where a Say is answered with a Leave: "There's no one to forward this
\* message to".  No user here is in the channel and no other neighbour has it.
LeaveMeansNobody ==
  [][\A s \in Servers : \A t \in Neighbours[s], ch \in ChannelNames, id \in Ids :
       Reads(s, t, Say(ch, id)) /\ Sends(s, t, Leave(ch)) =>
         /\ UsersOf(s, ch).items = <<>>
         /\ \A u \in Neighbours[s] \ {t} : ch \notin Subscribed(subs'[s][u])]_vars

\* helper_functions.h, remove_adj_channel: "Removes a channel from an adjacent
\* server".  The Leave of a channel takes that subscription and no other.
LeaveRemovesNamed ==
  [][\A s \in Servers : \A t \in Neighbours[s], ch \in ChannelNames :
       Reads(s, t, Leave(ch)) =>
         Subscribed(subs'[s][t]) = Subscribed(SweptSubs(s)[t]) \ {ch}]_vars

\* channels.c, remove_user: "Remove a user with username username from chnl".  A
\* logout takes nobody else out of a channel.
LogoutSparesOthers ==
  [][\A c, d \in Clients, ch \in ChannelNames :
       /\ c # d /\ sess[c].phase = "on" /\ sess'[c].phase = "out"
       /\ d \in Range(UsersOf(Home[c], ch).items)
       => d \in Range(UsersOf(Home[c], ch)'.items)]_vars

\* sub_form2.txt: "Does the server renew Joins once per minute? yes".  A server that
\* has a channel is subscribed to it at its neighbours, if not now then after its
\* next renewal.
JoinsRenewed ==
  \A s \in Servers : \A t \in Neighbours[s], ch \in ChannelNames :
    alive[s] /\ alive[t] /\ ch \in Hosted(s)
      ~> ~alive[s] \/ ~alive[t] \/ ch \in Subscribed(subs[t][s]) \/ ch \notin Hosted(s)

================================================================================
