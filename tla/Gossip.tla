---------------------------------- MODULE Gossip ----------------------------------
(***************************************************************************)
(* What the servers promise about Says, without datagrams, tables, crashes *)
(* or time: each server accepts Says one after the other, those of its own *)
(* clients and those that a neighbour accepted before, and never again one *)
(* of the last MaxIds.  ChatProperties has the mapping under which the     *)
(* servers implement this.                                                 *)
(***************************************************************************)
EXTENDS Integers, Sequences

CONSTANTS Servers, Neighbours, ChannelNames, Ids, FreshIds, MaxIds

VARIABLE accepted   \* accepted[s]: the Says s accepted, in order

Accepted == [id : Ids, chan : ChannelNames, own : BOOLEAN]

Init == accepted = [s \in Servers |-> <<>>]

IdsAccepted(s) == {accepted[s][i].id : i \in DOMAIN accepted[s]}

Recent(s) ==
  {accepted[s][i].id : i \in {j \in DOMAIN accepted[s] : Len(accepted[s]) - j < MaxIds}}

\* A client of s says something.
Say(s, id, ch) ==
  /\ FreshIds => \A t \in Servers : id \notin IdsAccepted(t)
  /\ accepted' = [accepted EXCEPT ![s] = Append(@, [id |-> id, chan |-> ch, own |-> TRUE])]

\* s hears what its neighbour t accepted, at any time later.
Hear(s, t, id, ch) ==
  /\ t \in Neighbours[s]
  /\ \E i \in DOMAIN accepted[t] : accepted[t][i].id = id /\ accepted[t][i].chan = ch
  /\ id \notin Recent(s)
  /\ accepted' = [accepted EXCEPT ![s] = Append(@, [id |-> id, chan |-> ch, own |-> FALSE])]

Next ==
  \E s \in Servers, id \in Ids, ch \in ChannelNames :
    Say(s, id, ch) \/ \E t \in Servers : Hear(s, t, id, ch)

Spec == Init /\ [][Next]_accepted

================================================================================
