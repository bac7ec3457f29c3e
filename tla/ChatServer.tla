-------------------------------- MODULE ChatServer --------------------------------
(***************************************************************************)
(* server.c: the servers of a federation.  A server is one loop: sweep the *)
(* subscriptions that timed out, take one datagram if there is one, handle *)
(* it, renew the Joins that are due.  Nothing interrupts an iteration and  *)
(* a socket read by one process is all servers share, so each request is   *)
(* one action that stands for a whole iteration.                           *)
(***************************************************************************)
EXTENDS AdjacentServers

CONSTANTS
  Servers,
  Neighbours,   \* [Servers -> SUBSET Servers], the servers on the command line
  Ids,          \* the values gen_rand can return; bounds the number of Says
  FreshIds,     \* TRUE: no two calls of gen_rand return the same value
  MaxIds        \* MAX_IDS, the length of the array recent_ids

ASSUME ChatServerAssumption ==
  /\ Neighbours \in [Servers -> SUBSET Servers]
  /\ \A s \in Servers : s \notin Neighbours[s] /\ IsFiniteSet(Neighbours[s])
  /\ \A s, t \in Servers : t \in Neighbours[s] <=> s \in Neighbours[t]
  /\ FreshIds \in BOOLEAN
  /\ MaxIds \in Nat \ {0}

VARIABLES
  alive,      \* alive[s]: the process runs; it never starts again
  chans,      \* chans[s]: channels and num_chnnls
  all_users,  \* all_users[s]: all_users and num_users
  freed,      \* freed[s]: Users in the hands of the allocator
  subs,       \* subs[s][t]: sub_channels, timers and num_chnnls of neighbour t
  log,        \* log[s]: what was written to recent_ids, in order, since the start
  net,        \* net[s][t]: datagrams from s that t has not read
  dropped     \* dropped[s][t]: history, the channels t subscribed to at s and lost

serverVars == <<alive, chans, all_users, freed, subs, log, net, dropped>>

Join(ch)    == [type |-> "join", chan |-> ch]
Leave(ch)   == [type |-> "leave", chan |-> ch]

\* Mutant: the id stays what memset made it.
SayWithoutId(ch, id) == [type |-> "say", chan |-> ch, id |-> CHOOSE i \in Ids : TRUE]

Say(ch, id) == [type |-> "say", chan |-> ch, id |-> id]

Message == [type : {"join", "leave"}, chan : ChannelNames]
             \cup [type : {"say"}, chan : ChannelNames, id : Ids]

\* An entry of recent_ids, with what the iteration that wrote it did: whether a
\* client of this server said it, and to whom its text and its copies went.
LogEntry == [id : Ids, chan : ChannelNames, own : BOOLEAN,
             to : Seq(Pointers), fwd : SUBSET Servers]

ServerTypeOK ==
  /\ alive \in [Servers -> BOOLEAN]
  /\ chans \in [Servers -> Seq(Channel)]
  /\ all_users \in [Servers -> CountedArrays(Clients)]
  /\ freed \in [Servers -> SUBSET Clients]
  /\ subs \in [Servers -> [Servers -> CountedArrays(Subscription)]]
  /\ log \in [Servers -> Seq(LogEntry)]
  /\ net \in [Servers -> [Servers -> Seq(Message)]]
  /\ dropped \in [Servers -> [Servers -> SUBSET ChannelNames]]

ServerInit ==
  /\ alive = [s \in Servers |-> TRUE]
  /\ chans = [s \in Servers |-> <<create_channel(Common)>>]
  /\ all_users = [s \in Servers |-> EmptyArray]
  /\ freed = [s \in Servers |-> {}]
  /\ subs = [s \in Servers |-> [t \in Servers |->
               IF t \in Neighbours[s] THEN OneEntry([chan |-> Common, age |-> 0])
                                      ELSE EmptyArray]]
  /\ log = [s \in Servers |-> <<>>]
  /\ net = [s \in Servers |-> [t \in Servers |-> <<>>]]
  /\ dropped = [s \in Servers |-> [t \in Servers |-> {}]]

--------------------------------------------------------------------------------
(* Sending, and the end of an iteration *)

\* What a handler sends to each server, in order.
Nothing == [t \in Servers |-> <<>>]
ToEach(T, m) == [t \in Servers |-> IF t \in T THEN <<m>> ELSE <<>>]

\* The datagrams under way once s has sent out; nobody holds them for a process
\* that is gone.
After(nw, s, out) ==
  [nw EXCEPT ![s] = [t \in Servers |-> IF alive[t] THEN @[t] \o out[t] ELSE @[t]]]

\* A socket is gone with its process, and what waited in it.
Unread(nw, s) == [p \in Servers |-> [nw[p] EXCEPT ![s] = <<>>]]

\* The process dies in a handler that has sent nothing to a server.
Dies(s) ==
  /\ alive' = [alive EXCEPT ![s] = FALSE]
  /\ net' = Unread(net, s)
  /\ UNCHANGED <<chans, all_users, freed, subs, log, dropped>>

\* The loops visit the due channels in the order of the array.
RenewalOrder(cs) ==
  {order \in [1 .. Cardinality(Due(cs)) -> Due(cs)] :
     \A i, j \in DOMAIN order : i < j => order[i] < order[j]}

Renewals(s, cs, order) ==
  [t \in Servers |-> IF t \in Neighbours[s]
                     THEN [k \in DOMAIN order |-> Join(cs[order[k]].name)]
                     ELSE <<>>]

\* The printf of a renewal reads cnnct_srvrs[i] with the index of the channel.
\* Past the end of that array it prints stray memory or dies.
ReadsPastNeighbours(s, i) ==
  Neighbours[s] # {} /\ i - 1 >= Cardinality(Neighbours[s])

NoneTold == [t \in Servers |-> {}]

Both(out1, out2) == [t \in Servers |-> out1[t] \o out2[t]]

\* The datagrams of the iteration are sent and the tables take their values at
\* its end.  sb holds the subscriptions, told the channels a Join named.
Record(s, nw, cs, sb, told, out) ==
  /\ chans' = [chans EXCEPT ![s] = cs]
  /\ subs' = [subs EXCEPT ![s] = sb]
  /\ dropped' = [dropped EXCEPT ![s] = [t \in Servers |->
                   (@[t] \cup Subscribed(subs[s][t]) \cup told[t]) \ Subscribed(sb[t])]]
  /\ net' = After(nw, s, out)
  /\ UNCHANGED alive

\* The label resub.  The Joins before the read that kills the server are sent.
Resub(s, nw, cs, sb, told, out) ==
  \E order \in RenewalOrder(cs) :
    \/ Record(s, nw, Renewed(cs), sb, told, Both(out, Renewals(s, cs, order)))
    \/ \E k \in DOMAIN order :
         /\ ReadsPastNeighbours(s, order[k])
         /\ alive' = [alive EXCEPT ![s] = FALSE]
         /\ net' = Unread(After(nw, s, Both(out, Renewals(s, cs, SubSeq(order, 1, k - 1)))), s)
         /\ UNCHANGED <<chans, subs, dropped>>

SweptSubs(s) == [t \in Servers |-> Swept(subs[s][t])]

--------------------------------------------------------------------------------
(* Requests of the clients of s; each is one iteration of its loop *)

\* malloc hands out a chunk no pointer refers to, or one that logout freed:
\* pointers that were left to it then point to the new user.
Reused(cs, old, new) ==
  [i \in DOMAIN cs |-> [cs[i] EXCEPT !.users.items =
     [k \in DOMAIN @ |-> IF @[k] = old THEN new ELSE @[k]]]]

LoginRequest(s, c) ==
  \E old \in freed[s] \cup {Null} :
    LET cs == IF old = Null THEN chans[s] ELSE Reused(chans[s], old, c)
        fr == freed[s] \ {old}
    IN  \/ /\ cs # <<>>
           /\ RemoveCrashes(Store(cs[1].users, c), Username[c], fr)
           /\ Dies(s)
        \/ /\ cs # <<>> => ~RemoveCrashes(Store(cs[1].users, c), Username[c], fr)
           /\ all_users' = [all_users EXCEPT ![s] = Store(@, c)]
           /\ freed' = [freed EXCEPT ![s] = fr]
           /\ LET cs1 == IF cs = <<>> THEN cs
                         ELSE [cs EXCEPT ![1].users = LoginCommon(@, c, fr)]
              IN  Resub(s, net, cs1, SweptSubs(s), NoneTold, Nothing)
           /\ UNCHANGED log

\* The users of channel ch, none if s does not have it.
UsersOf(s, ch) ==
  IF HasChannel(chans[s], ch) THEN chans[s][find_channel(chans[s], ch)].users ELSE EmptyArray

\* Mutant: the loop of find_user ends one short.
LoggedInShort(s, c) ==
  \E i \in 1 .. Len(all_users[s].items) - 1 : all_users[s].items[i] = c

\* find_user on all_users finds c.
LoggedIn(s, c) == \E i \in DOMAIN all_users[s].items : all_users[s].items[i] = c

\* The neighbours that have ch among their subscriptions in sb.
SubscribersIn(sb, s, ch) == {t \in Neighbours[s] : has_channel_server(sb[t], ch)}

\* A channel the server does not have is answered with an error text and then
\* read through its NULL pointer; so is a sender the channel does not list.
SayCrashes(s, c, ch) ==
  \/ ~HasChannel(chans[s], ch)
  \/ ~SenderFound(UsersOf(s, ch), c)
  \/ ~LoggedIn(s, c)

Generated == UNION {{log[s][i].id : i \in DOMAIN log[s]} : s \in Servers}

SayRequest(s, c, ch, id) ==
  /\ FreshIds => id \notin Generated
  /\ \/ SayCrashes(s, c, ch) /\ Dies(s)
     \/ /\ ~SayCrashes(s, c, ch)
        /\ LET sb == SweptSubs(s)
               fwd == SubscribersIn(sb, s, ch)
               entry == [id |-> id, chan |-> ch, own |-> TRUE, fwd |-> fwd,
                         to |-> UsersOf(s, ch).items]
           IN  /\ log' = [log EXCEPT ![s] = Append(@, entry)]
               /\ Resub(s, net, chans[s], sb, NoneTold, ToEach(fwd, Say(ch, id)))
        /\ UNCHANGED <<all_users, freed>>

\* The Join goes out whether or not the channel is new here; find_user may
\* return NULL, and the pointer is stored as it is.
JoinRequest(s, c, ch) ==
  LET cs == IF HasChannel(chans[s], ch) THEN chans[s] ELSE add_chnl(chans[s], ch)
      usr == IF LoggedIn(s, c) THEN c ELSE Null
  IN  /\ Resub(s, net, [cs EXCEPT ![find_channel(cs, ch)].users = add_user(@, usr)],
               SweptSubs(s), NoneTold, ToEach(Neighbours[s], Join(ch)))
      /\ UNCHANGED <<all_users, freed, log>>

ListRequest(s) ==
  /\ Resub(s, net, chans[s], SweptSubs(s), NoneTold, Nothing)
  /\ UNCHANGED <<all_users, freed, log>>

\* The answer is laid out for the users logged in and filled with the users of
\* the channel; more of these than of those overrun the buffer, which the
\* allocator may or may not survive.
WhoMayCrash(s, ch) == HasChannel(chans[s], ch) /\ Len(UsersOf(s, ch).items) > Count(all_users[s])

\* A NULL entry has no name to copy, and the size of the buffer must not be
\* negative, which memset takes for a huge one.
WhoCrashes(s, ch) ==
  \/ Count(all_users[s]) < -1
  \/ \E i \in DOMAIN UsersOf(s, ch).items : UsersOf(s, ch).items[i] = Null

\* On an unknown channel the loop starts over with no renewal.
WhoRequest(s, ch) ==
  \/ (WhoCrashes(s, ch) \/ WhoMayCrash(s, ch)) /\ Dies(s)
  \/ /\ ~WhoCrashes(s, ch)
     /\ IF HasChannel(chans[s], ch)
        THEN Resub(s, net, chans[s], SweptSubs(s), NoneTold, Nothing)
        ELSE Record(s, net, chans[s], SweptSubs(s), NoneTold, Nothing)
     /\ UNCHANGED <<all_users, freed, log>>

\* usr is NULL for a sender who is not logged in: its name is read only if
\* there is an entry to compare it with.
LeaveCrashes(s, c, us) ==
  IF LoggedIn(s, c) THEN RemoveCrashes(us, Username[c], freed[s])
                    ELSE us.items # <<>>

AfterLeave(s, c, us) ==
  IF LoggedIn(s, c) THEN remove_user(us, Username[c], freed[s]) ELSE DropLast(us)

\* A channel whose count reaches zero is removed and the neighbours are told.
LeaveRequest(s, c, ch) ==
  LET i == find_channel(chans[s], ch)
      us == AfterLeave(s, c, UsersOf(s, ch))
  IN  \/ /\ ~HasChannel(chans[s], ch)
         /\ Record(s, net, chans[s], SweptSubs(s), NoneTold, Nothing)
         /\ UNCHANGED <<all_users, freed, log>>
      \/ HasChannel(chans[s], ch) /\ LeaveCrashes(s, c, UsersOf(s, ch)) /\ Dies(s)
      \/ /\ HasChannel(chans[s], ch)
         /\ ~LeaveCrashes(s, c, UsersOf(s, ch))
         /\ IF Count(us) = 0
            THEN Resub(s, net, remove_chnl(chans[s], i), SweptSubs(s), NoneTold,
                       ToEach(Neighbours[s], Leave(ch)))
            ELSE Resub(s, net, [chans[s] EXCEPT ![i].users = us], SweptSubs(s),
                       NoneTold, Nothing)
         /\ UNCHANGED <<all_users, freed, log>>

\* Mutant: the loop starts at 1, as the one of the renewals does.
AfterLogoutButFirst(s, c) ==
  [i \in DOMAIN chans[s] |->
     IF i = 1 THEN chans[s][i]
     ELSE [chans[s][i] EXCEPT !.users = remove_user(@, Username[c], freed[s])]]

\* remove_user is called on every channel, the ones the user is not in included.
AfterLogout(s, c) ==
  [i \in DOMAIN chans[s] |->
     [chans[s][i] EXCEPT !.users = remove_user(@, Username[c], freed[s])]]

\* The C index plus one of c among the users logged in.
u_pos(s, c) == SelectInSeq(all_users[s].items, LAMBDA u : u = c)

\* No channel is removed and no Leave is sent.
LogoutKnown(s, c) ==
  \/ /\ \E i \in DOMAIN chans[s] : RemoveCrashes(chans[s][i].users, Username[c], freed[s])
     /\ Dies(s)
  \/ /\ \A i \in DOMAIN chans[s] : ~RemoveCrashes(chans[s][i].users, Username[c], freed[s])
     /\ Resub(s, net, AfterLogout(s, c), SweptSubs(s), NoneTold, Nothing)
     /\ all_users' = [all_users EXCEPT ![s] =
          RemoveIndex(@, u_pos(s, c))]
     /\ freed' = [freed EXCEPT ![s] = @ \cup {c}]
     /\ UNCHANGED log

\* usr is NULL and u_pos is never written: the shift may start anywhere.
LogoutUnknown(s) ==
  \/ Dies(s)
  \/ /\ \A i \in DOMAIN chans[s] : chans[s][i].users.items = <<>>
     /\ Resub(s, net,
              [i \in DOMAIN chans[s] |-> [chans[s][i] EXCEPT !.users = DropLast(@)]],
              SweptSubs(s), NoneTold, Nothing)
     /\ \/ all_users' = [all_users EXCEPT ![s] = DropLast(@)]
        \/ \E i \in DOMAIN all_users[s].items :
             all_users' = [all_users EXCEPT ![s] = RemoveIndex(@, i)]
     /\ UNCHANGED <<freed, log>>

LogoutRequest(s, c) == IF LoggedIn(s, c) THEN LogoutKnown(s, c) ELSE LogoutUnknown(s)

--------------------------------------------------------------------------------
(* Messages of a neighbour t; nw is the network without the one that is read *)

\* Mutants: t, who knows the channel, is not told; or t gets an answer each time.
AnnounceOnwards(s, t, ch) ==
  IF HasChannel(chans[s], ch) THEN Nothing ELSE ToEach(Neighbours[s] \ {t}, Join(ch))
AnnounceAnswers(s, t, ch) ==
  IF HasChannel(chans[s], ch) THEN ToEach({t}, Join(ch)) ELSE ToEach(Neighbours[s], Join(ch))

\* Only a new channel is passed on, to all neighbours, t too.
Announce(s, t, ch) ==
  IF HasChannel(chans[s], ch) THEN Nothing ELSE ToEach(Neighbours[s], Join(ch))

\* A server that hears of a channel it does not have creates it, empty.
ServJoin(s, t, nw, ch) ==
  LET sb == [SweptSubs(s) EXCEPT ![t] = Resubscribe(@, ch)]
      told == [NoneTold EXCEPT ![t] = {ch}]
      cs == IF HasChannel(chans[s], ch) THEN chans[s] ELSE add_chnl(chans[s], ch)
  IN  /\ Resub(s, nw, cs, sb, told, Announce(s, t, ch))
      /\ UNCHANGED <<all_users, freed, log>>

\* The channel the message names is not looked at.
ServLeave(s, t, nw) ==
  LET sb == SweptSubs(s)
  IN  \/ RemoveAdjCrashes(sb[t]) /\ Dies(s)
      \/ /\ ~RemoveAdjCrashes(sb[t])
         /\ Resub(s, nw, chans[s], [sb EXCEPT ![t] = remove_adj_channel(@)], NoneTold, Nothing)
         /\ UNCHANGED <<all_users, freed, log>>

IdsOf(entries) == {entries[i].id : i \in DOMAIN entries}

\* Mutant: the last entry is not compared.
RecentIdsButLast(s) == IF log[s] = <<>> THEN {} ELSE IdsOf(Front(log[s]))

\* Mutant: the ring does not wrap, and keeps the first ones.
RecentIdsFirst(s) ==
  IF Len(log[s]) <= MaxIds THEN IdsOf(log[s]) ELSE IdsOf(SubSeq(log[s], 1, MaxIds))

\* What the array recent_ids holds.
RecentIds(s) ==
  IF Len(log[s]) <= MaxIds THEN IdsOf(log[s])
  ELSE IdsOf(SubSeq(log[s], Len(log[s]) - MaxIds + 1, Len(log[s])))

\* has_id compares num_ids elements.  Once more Says were recorded than the
\* array has room for, a miss goes on into the stack, and may find the value
\* there or run off its end.
OverRuns(s) == Len(log[s]) > MaxIds

\* Mutant: ids are taken for sequence numbers.
MayHaveLaterId(s, id) == \E seen \in RecentIds(s) : seen >= id

MayHaveId(s, id) == id \in RecentIds(s) \/ OverRuns(s)
MayMissId(s, id) == id \notin RecentIds(s)

\* Mutant: one neighbour more is not enough.
NoOneOfTwo(s, sb, us, ch) ==
  Count(us) = 0 /\ Cardinality(SubscribersIn(sb, s, ch)) <= 2

\* Nobody here listens and at most one neighbour subscribed.  The count includes
\* t and does not depend on it.
NoOneToForwardTo(s, sb, us, ch) ==
  Count(us) = 0 /\ Cardinality(SubscribersIn(sb, s, ch)) <= 1

\* Mutant: the one it came from is not left out.
ForwardToAll(sb, s, t, ch) == SubscribersIn(sb, s, ch)

ForwardTo(sb, s, t, ch) == SubscribersIn(sb, s, ch) \ {t}

ServSay(s, t, nw, ch, id) ==
  LET sb == SweptSubs(s)
      us == UsersOf(s, ch)
      fwd == ForwardTo(sb, s, t, ch)
      Recorded(to, servers) ==
        log' = [log EXCEPT ![s] =
          Append(@, [id |-> id, chan |-> ch, own |-> FALSE, to |-> to, fwd |-> servers])]
  IN  \/ /\ MayHaveId(s, id)
         /\ Resub(s, nw, chans[s], sb, NoneTold, ToEach({t}, Leave(ch)))
         /\ UNCHANGED <<all_users, freed, log>>
      \/ MayMissId(s, id) /\ (OverRuns(s) \/ ~HasChannel(chans[s], ch)) /\ Dies(s)
      \/ /\ MayMissId(s, id)
         /\ HasChannel(chans[s], ch)
         /\ IF NoOneToForwardTo(s, sb, us, ch)
            THEN /\ Recorded(<<>>, {})
                 /\ Resub(s, nw, chans[s], sb, NoneTold, ToEach({t}, Leave(ch)))
            ELSE /\ Recorded(us.items, fwd)
                 /\ Resub(s, nw, chans[s], sb, NoneTold, ToEach(fwd, Say(ch, id)))
         /\ UNCHANGED <<all_users, freed>>

Receive(s, t) ==
  /\ alive[s]
  /\ net[t][s] # <<>>
  /\ LET m == Head(net[t][s])
         nw == [net EXCEPT ![t][s] = Tail(@)]
     IN  \/ m.type = "join" /\ ServJoin(s, t, nw, m.chan)
         \/ m.type = "leave" /\ ServLeave(s, t, nw)
         \/ m.type = "say" /\ ServSay(s, t, nw, m.chan, m.id)

\* An iteration that finds no datagram: only the sweep and the renewals.
Idle(s) ==
  /\ alive[s]
  /\ Resub(s, net, chans[s], SweptSubs(s), NoneTold, Nothing)
  /\ UNCHANGED <<all_users, freed, log>>

--------------------------------------------------------------------------------
(* The environment *)

\* A process is killed.
Kill(s) == alive[s] /\ Dies(s)

\* A unit of time passes for every server.
Tick ==
  /\ chans' = [s \in Servers |-> AgedChannels(chans[s])]
  /\ subs' = [s \in Servers |-> [t \in Servers |-> Aged(subs[s][t])]]
  /\ UNCHANGED <<alive, all_users, freed, log, net, dropped>>

\* Nothing a server would do in the time between two ticks is left to be done.
Settled ==
  /\ \A s, t \in Servers : net[s][t] = <<>>
  /\ \A s \in Servers : alive[s] =>
       Due(chans[s]) = {} /\ \A t \in Neighbours[s] : Stale(subs[s][t]) = {}

\* UDP: a datagram is lost, delivered twice, or overtaken by the next.
Lose(s, t, i) ==
  /\ net' = [net EXCEPT ![s][t] = RemoveAt(@, i)]
  /\ UNCHANGED <<alive, chans, all_users, freed, subs, log, dropped>>

Duplicate(s, t, i) ==
  /\ net' = [net EXCEPT ![s][t] = Append(@, @[i])]
  /\ UNCHANGED <<alive, chans, all_users, freed, subs, log, dropped>>

Overtake(s, t, i) ==
  /\ i < Len(net[s][t])
  /\ net' = [net EXCEPT ![s][t][i] = net[s][t][i + 1], ![s][t][i + 1] = net[s][t][i]]
  /\ UNCHANGED <<alive, chans, all_users, freed, subs, log, dropped>>

================================================================================
