----------------------------- MODULE AdjacentServers -----------------------------
(***************************************************************************)
(* The Server struct: the channels one neighbour has subscribed to here,   *)
(* each with the time of its last Join.                                    *)
(***************************************************************************)
EXTENDS Channels

CONSTANT Min2  \* MIN_2: a subscription older than this is removed

ASSUME AdjacentServersAssumption == Min2 \in Nat

Subscription == [chan : ChannelNames, age : 0 .. Min2 + 1]

Subscribed(srvr) == {srvr.items[i].chan : i \in DOMAIN srvr.items}

\* The C index plus one, 0 for -1.
find_channel_server(srvr, ch) == SelectInSeq(srvr.items, LAMBDA e : e.chan = ch)

has_channel_server(srvr, ch) == find_channel_server(srvr, ch) # 0

add_ch_srv(srvr, ch) == Store(srvr, [chan |-> ch, age |-> 0])

\* Mutants: a Join does not reset the timer; it does not look whether there is one.
ResubscribeKeepsTimer(srvr, ch) ==
  IF has_channel_server(srvr, ch) THEN srvr ELSE add_ch_srv(srvr, ch)
ResubscribeAlways(srvr, ch) == add_ch_srv(srvr, ch)

\* A Join: a new subscription, or a fresh timer on the one that is there.
Resubscribe(srvr, ch) ==
  LET i == find_channel_server(srvr, ch)
  IN  IF i = 0 THEN add_ch_srv(srvr, ch) ELSE [srvr EXCEPT !.items[i].age = 0]

\* neat_remove is told to remove index -1, which no loop index equals: the
\* count goes down and the last subscription is lost, whatever the channel.
remove_adj_channel(srvr) == DropLast(srvr)

\* Its arrays ptrs and c_ptrs have num_chnnls elements.  Their trailing NULL
\* is written past the end; in the stack frame assumed here it hits the saved
\* registers at num_chnnls = -2, and nothing that matters above.
RemoveAdjCrashes(srvr) == srvr.debt >= 2

channel_elapse(srvr, ch) == srvr.items[find_channel_server(srvr, ch)].age

\* Mutant: the sweep starts one position late.
StaleLate(srvr) ==
  {j \in 3 .. Len(srvr.items) : channel_elapse(srvr, srvr.items[j].chan) > Min2}

\* The positions the sweep of the main loop finds timed out; it starts at 1.
Stale(srvr) ==
  {j \in 2 .. Len(srvr.items) : channel_elapse(srvr, srvr.items[j].chan) > Min2}

\* The sweep reaches position j only if the removals made before it left that
\* many entries; each stale position it reaches costs the last entry.
Swept(srvr) ==
  LET reached == {j \in Stale(srvr) :
                    j + Cardinality({k \in Stale(srvr) : k < j}) <= Len(srvr.items)}
  IN  [srvr EXCEPT !.items = SubSeq(@, 1, Len(@) - Cardinality(reached))]

Older(entry) == [entry EXCEPT !.age = IF @ > Min2 THEN @ ELSE @ + 1]

Aged(srvr) == [srvr EXCEPT !.items = [i \in DOMAIN @ |-> Older(@[i])]]

================================================================================
