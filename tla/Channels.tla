-------------------------------- MODULE Channels --------------------------------
(***************************************************************************)
(* channels.c: a channel is a name, a table of pointers to users and the   *)
(* time of its last renewal.  The table has no check on what is stored: a  *)
(* user may be listed twice, and an entry may be a NULL pointer (find_user *)
(* did not know the sender of a Join) or a pointer to a User that logout   *)
(* has freed.  A pointer is named by the address of the client whose User  *)
(* it points to; "freed" is the set of those whose chunk is back in the    *)
(* allocator.                                                              *)
(***************************************************************************)
EXTENDS CountedArray

CONSTANTS
  Clients,      \* client processes, each with its own UDP address
  Null,         \* the NULL pointer to a User
  ChannelNames, \* the channel names users type; shorter than eight bytes
  Common,       \* the channel every server starts with
  Username,     \* [Clients -> names], the name a client logs in with
  Min1          \* MIN_1: a channel older than this renews its Join

ASSUME ChannelsAssumption ==
  /\ Null \notin Clients
  /\ Common \in ChannelNames
  /\ Min1 \in Nat

Pointers == Clients \cup {Null}

\* Ages saturate one past the threshold they are compared with.
Channel == [name : ChannelNames, users : CountedArrays(Pointers), tm : 0 .. Min1 + 1]

create_channel(ch) == [name |-> ch, users |-> EmptyArray, tm |-> 0]

\* find_channel: the C index plus one, 0 for NULL.
find_channel(cs, ch) == SelectInSeq(cs, LAMBDA chan : chan.name = ch)

HasChannel(cs, ch) == find_channel(cs, ch) # 0

add_chnl(cs, ch) == Append(cs, create_channel(ch))

remove_chnl(cs, i) == RemoveAt(cs, i)

add_user(us, u) == Store(us, u)

\* free() overwrites the name at the start of the chunk: it matches nobody's.
IsNamed(u, name, freed) == u # Null /\ u \notin freed /\ Username[u] = name

FirstNamed(us, name, freed) ==
  SelectInSeq(us.items, LAMBDA u : IsNamed(u, name, freed))

\* Mutants: the entry that is found is not the one that goes; LOGIN leaves the
\* user it made in the channel.
RemoveLastUser(us, name, freed) == DropLast(us)
LoginStays(us, c, freed) == Store(us, c)

\* The entry the scan finds is moved over; when there is none the count goes
\* down all the same, and the last entry is the one that is lost.
remove_user(us, name, freed) ==
  LET i == FirstNamed(us, name, freed)
  IN  IF i = 0 THEN DropLast(us) ELSE RemoveIndex(us, i)

\* The scan for a name reads connected_users[k]->username up to the match.
RemoveCrashes(us, name, freed) ==
  LET i == FirstNamed(us, name, freed)
  IN  \E k \in DOMAIN us.items : us.items[k] = Null /\ (i = 0 \/ k < i)

\* create_user appends a new User, then LOGIN takes it out again by its name.
\* An entry of that name further up is removed in its place.
LoginCommon(us, c, freed) == remove_user(Store(us, c), Username[c], freed)

\* For every text it sends SAY looks its sender up by address: the scan must
\* meet the sender before a NULL entry and before the end.
SenderFound(us, c) ==
  us.items # <<>> =>
    \E i \in DOMAIN us.items :
       us.items[i] = c /\ \A k \in 1 .. i - 1 : us.items[k] # Null

\* Mutant: the loop starts one later.
DueLate(cs) == {i \in 3 .. Len(cs) : cs[i].tm > Min1}

\* Indices from 1 on: channels[0] never renews.
Due(cs) == {i \in 2 .. Len(cs) : cs[i].tm > Min1}

Renewed(cs) == [i \in DOMAIN cs |-> IF i \in Due(cs) THEN [cs[i] EXCEPT !.tm = 0] ELSE cs[i]]

AgedChannels(cs) ==
  [i \in DOMAIN cs |-> [cs[i] EXCEPT !.tm = IF @ > Min1 THEN @ ELSE @ + 1]]

================================================================================
