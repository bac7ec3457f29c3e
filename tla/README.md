# A TLA+ model of the DuckChat federation

This directory holds TLA+ modules that model the chat servers and clients of this
repository, TLC configurations that check them on small federations, and proofs,
checked by TLAPS, that hold for every federation. Line numbers refer to `src/`.

## The system

A *server* (`server.c`) is a process with one UDP socket. It is started with its own
address and the addresses of its neighbours, and loops without end (`server.c:77`):

1. sweep the subscriptions of every neighbour and drop what timed out (79-99);
2. take one datagram if there is one (101-107; the socket does not block);
3. handle it: a request of a client (108-281) or a message of a neighbour (282-394);
4. at the label `resub`, renew the Joins of channels older than a minute (396-417).

A *client* (`client.c`) logs in, joins `Common`, and turns lines the user types into
one datagram each. It keeps the list of the channels it joined and the active one. It
has two threads: `send_thread` reads the terminal and sends, `recv_thread` polls the socket
and prints, and waits while a line is being typed (`writing`); `main` joins both.

| Component | State | Operations | Interacts with |
|---|---|---|---|
| counted arrays (everywhere) | array and `int` count | append, decrement, remove at an index | all tables of the server |
| channels (`channels.c`) | name, table of `User *`, time of last renewal | `create_channel`, `add_user`, `remove_user`, `find_user` | main loop |
| adjacent servers (`helper_functions.c`) | `Server`: subscribed channels and their timers | `add_ch_srv`, `remove_adj_channel`, `find_channel_server`, `channel_elapse` | main loop |
| main loop (`server.c`) | `channels`, `all_users`, `cnnct_srvrs`, `recent_ids` | seven client requests, three server messages, sweep, renewal | clients, neighbours, clock |
| client commands (`client.c`) | `joined`, `active_channel` | join, leave, switch, say, who, list, logout (exit) | its server |
| client threads (`client.c`) | `writing`, `logout`, mutex, condition variable, `buff` | `send_thread`: read, decode, send, prompt; `recv_thread`: receive, wait, print | terminal, socket |
| datagram socket (`connection_handler.c`) | socket | `socket_send`, `socket_recv` | all processes |
| terminal mode (`raw.c`), text output | none | | |

How a message travels. A user's `join` makes the server create the channel if it is new
and send a Join to every neighbour; a server that does not have the channel creates
it and sends Joins on, to the sender too. A Join subscribes the sender to the channel
at the receiver, or resets the timer of that subscription. A user's `say` gets a random
id, is written to `recent_ids`, shown to the users of the channel and forwarded to
every subscribed neighbour. A server that gets a Say it has seen, or that has nobody to
give it to, answers with a Leave, which cuts the link. Channels on which a server has
renewed no Join for two minutes are dropped by the sweep.

### What is hard here

* Order: every link is a queue of its own, so Joins, Says and Leaves of two neighbours
  cross; channels are created on two sides at once, or removed while a message for them
  is under way.
* Cycles: Joins and Says are flooded; the ids, and only they, make the flood stop.
* UDP: any datagram may be lost, delivered twice or overtaken.
* Crashes: a server that dereferences a NULL pointer dies, and its neighbours find out
  by the timeout.
* Counts: several removals decrement a count though they removed nothing. The count of a
  table may be negative, entries may dangle or be NULL, and the handlers go on with that.
* Clocks: renewal and timeout are both driven by the position in an array, which moves.
* Threads: the client sets `writing` and `logout` and broadcasts without the mutex that the
  waiting thread holds, so wakeups are missed; and it reuses a buffer that is cleared on
  one path only and terminated one byte too far.

### What makes each component correct

* Main loop, messages: no Say is accepted twice (`RelayOnce`) or shown twice (`ShownOnce`);
  what is forwarded arrives (`ForwardedArrives`), what arrives was said (`EverySayWasSaid`),
  and it is passed on to everybody else who has the channel, unless the sender was cut off
  (`PassedOnUnlessCut`); with the same exception, a Say is answered with a Leave only by
  someone who has nobody to give it to (`LeaveMeansNobodyUnlessCut`); Joins reach everybody
  (`JoinBroadcast`) and die out (`TrafficEnds`); nobody crashes (`NobodyDies`). Taken
  together: the servers implement `Gossip` (`GossipSpec`).
* Channels: server and clients agree on who is in which channel (`MembersAgree`), and
  the pointers in a channel are to users who are logged in (`PointersAreLive`), no more
  of them than there is room for in an answer to WHO (`WhoFits`).
* Adjacent servers: subscriptions of a live neighbour do not get too old
  (`LiveStayFresh`), those that a Leave cut come back (`CutLinksComeBack`), those of a dead
  one are forgotten (`DeadForgotten`).
* Lookups by name find what is meant (`NoNameTwice`).
* Client threads: nobody sleeps at a prompt (`PromptMeansAwake`), every text that was received
  is printed (`ShownAtRest`), what is sent is what was typed (`SentAsTyped`), and exit ends
  both threads (`ExitEnds`).

## The modules

| Module | Models | Extends |
|---|---|---|
| `CountedArray` | an array with an `int` count that may be negative | SequencesExt |
| `Channels` | `channels.c`, the table of channels, renewal times | `CountedArray` |
| `AdjacentServers` | the `Server` struct: subscriptions, timers, the sweep | `Channels` |
| `ChatServer` | `server.c`: one action per request and message; crashes; UDP | `AdjacentServers` |
| `ChatSystem` | clients, composition, time, faults, fairness: `Spec`, `FairSpec` | `ChatServer` |
| `Gossip` | abstract: what the servers promise about Says, without datagrams, tables, crashes or time | |
| `ChatProperties` | the properties of the federation, and the mapping to `Gossip` | `ChatSystem`, instantiates `Gossip` |
| `MCChat` | topologies and placements for TLC | `ChatProperties` |
| `ClientInput` | the line in `buff`, `decode_input`, `get_command_arg` | FiniteSetsExt |
| `ClientThreads` | `client.c`: both threads, mutex, condition variable; `ClientSpec`, `ClientFairSpec` | `ClientInput` |
| `ClientProperties` | the properties of the client | `ClientThreads` |
| `MCClient` | lines for TLC | `ClientProperties` |
| `Tables_proofs` | lemmas: what the operations on tables return | `AdjacentServers` |
| `ChatServer_proofs` | lemmas: every handler keeps the state well formed and loses no datagram but the one it reads | `ChatServer`, `Tables_proofs` |
| `ChatSystem_proofs` | theorems `TypeCorrect`, `AtMostOnce`, `ForwardedSaysArrive` | `ChatProperties`, `ChatServer_proofs` |
| `Refinement_proofs` | theorems `NothingMadeUp`, `Refinement` | `ChatSystem_proofs` |
| `Subscriptions_proofs` | lemmas: the form of an iteration; theorems `NamesOnce`, `NeighboursAreTold`, `SaysGoOn`, `LiveStaySubscribed` | `ChatSystem_proofs` |
| `Members_proofs` | theorems `NoDanglingUsers`, `WhoHasRoom`, `ClientAndServerAgree`, `ShownOnceUntilFull`, `NoMessageTwice` | `Subscriptions_proofs` |
| `Traffic_proofs` | lemmas: the form of an iteration while no time passes; theorems `LeavesForNobody`, `NobodyCrashes` | `Members_proofs`, `Refinement_proofs` |
| `ClientThreads_proofs` | theorems `ClientTypeCorrect`, `AwakeAtPrompts`, `SendsWhatWasTyped` | `ClientProperties` |

The threads of a client and the federation are two specifications side by side. What ties
them together is one datagram per command on the way out, and nothing on the way in: no text
a client receives changes what it does, and no server notices how a client prints.

### State

| Variable | Code |
|---|---|
| `chans[s]` | `channels`, `num_chnnls` of server `s` |
| `all_users[s]` | `all_users`, `num_users` |
| `freed[s]` | the `User` chunks LOGOUT gave back to `free` |
| `subs[s][t]` | `cnnct_srvrs[i]->sub_channels`, `timers`, `num_chnnls` of neighbour `t` |
| `log[s]` | the writes to `recent_ids`; `RecentIds(s)` is what the ring holds. With each entry, what the iteration did: the users it sent the text to, the servers it forwarded to |
| `net[s][t]` | datagrams from `s` in the socket of `t` or on the way |
| `alive[s]` | the process runs |
| `dropped[s][t]` | history: channels `t` had subscribed to at `s` and lost |
| `sess[c]` | `joined`, `active_channel` of client `c`, how far it is, commands typed |
| `faults` | how often the environment misbehaved |

A counted array is its visible entries and its *debt*, how far the count is below zero. An
append to an array in debt writes in front of the array and only pays one off. A user is
named by the client whose address the `User` holds; a pointer may be `Null`, or may
dangle (`freed`), in which case a later `malloc` may hand the chunk to another user
(`Reused`).

Of the client:

| Variable | Code |
|---|---|
| `sendPc`, `recvPc` | where the threads are; `recvPc = "asleep"` is membership in the wait set of `cond`, and the mutex is held by `recv_thread` when it is at `test`, `sleep` or `print` (`Locked`) |
| `writing`, `logout` | the flags |
| `line`, `char_ind`, `buff` | the line that is typed, how much of it is, and the buffer: of a byte it matters whether it is NUL, a blank, or another character |
| `request` | the datagram sent for the last line: the command, the argument and the byte found behind it |
| `skipped` | history: the loop was restarted by the `continue` of 146 or 186, past the prompt and the `memset` |
| `eof`, `lines`, `arrived`, `socket` | the environment: the end of stdin, lines typed, texts that arrived and that are unread |

### Refinement

`Gossip` has one variable, the Says each server accepted in order, and two steps: a client of
a server says something, or a server hears what a neighbour accepted *at any time before*,
unless it is among its last `MaxIds`. Under the mapping `accepted <- Accepted` (`log` without
the receivers) the federation implements it. A datagram that is delayed, doubled or
overtaken is a late hearing, one that is lost is no hearing, a crash is a stutter. What the
mapping rules out is a server that makes up a Say, changes its id or its channel, or
accepts again what it still remembers. `Gossip` does not have the overrun of `recent_ids`: an
id found there by accident is a Say not heard.

### Atomicity

One iteration of the loop of a server is one action: the process has one thread, and
other processes see nothing of it but its datagrams. An iteration is the sweep
(`SweptSubs`), the handler, and the renewals (`Resub`), or no renewal when the handler
jumps back with `continue` (`Record`); each action carries all of them. A handler that
dereferences NULL ends in `Dies`, with nothing sent if the crash comes before the first
`socket_send`; the crash in the middle of the renewals keeps what was sent before it.

A command of a client and the handling of its datagram are one action. This loses no
behaviour the properties can see: a client changes its list before or with the send, no answer of
the server changes it, and the user may type at any time. So a datagram that waits in
the socket is a user who types later, except that two datagrams of one client on a
reordering network are not told apart from commands typed in the other order.

In the client a step is what a thread does between two points at which the other can see
or change what it uses. `send_thread` sets `writing` and broadcasts in two steps (105, 106;
112, 113), likewise `logout` (211, 212), as `recv_thread` may test the flag and begin to wait in
between; it takes the mutex only for the prompt (219-226), where it waits for nothing, so that
block is one action, guarded by nobody else holding the mutex. `recv_thread` takes the mutex,
tests `writing`, waits, wakes and prints in steps of their own. That `pthread_cond_wait`
gives up the mutex and joins the wait set at once is what POSIX promises (`Sleep`);
between the test and it, `send_thread` may still broadcast, as it needs no mutex to. The
`continue` of line 48 only goes back to the test of `writing`.

Undefined behaviour is a choice between outcomes: a read past `recent_ids` may find the id
or not, or crash (`OverRuns`); the index `u_pos` that a LOGOUT of an unknown user never sets
may be anything (`LogoutUnknown`); the read past `cnnct_srvrs` in a `printf` prints
something or crashes (`ReadsPastNeighbours`); a WHO buffer that is too small may or may not
be survived (`WhoMayCrash`). Where the choice is settled by the code the compiler makes, it
is assumed: `remove_adj_channel` writes a NULL one past two arrays of variable length, which
at a count of -2 is taken to hit the saved registers of its frame (`RemoveAdjCrashes`), and
to be harmless before. Under another layout `NobodyDies` would have another boundary than
three Says. `buff` of the client comes from `malloc` and is not cleared; the first chunk of
that size in the heap of a new thread consists of zero pages, and so it is in `Cleared`. A
read of `buff - 1` (a join, leave or who without a blank, `helper_functions.c:68`) finds the
last byte of the chunk's size field, which is zero.

### Time

`Tick` ages every channel and every subscription by one unit. With
`Timing = "prompt"` time passes only when no datagram waits and no renewal or removal is
due: an iteration and a hop take microseconds, a unit stands for up to a minute. With
`"loose"` it passes at any time when no link has more than `MaxQueue` datagrams on it.
With `"still"` it does not pass, for runs about order and not about time. Ages stop one past
the threshold they are compared with, where every comparison has its final value.

### Fairness

`FairSpec` assumes weak fairness of `ServerIdle` (the loop of `server.c:77` has no exit and
does not block), of `ServerReceive(s, t)` (each iteration takes a datagram if there is one,
and the kernel hands them out in the order of arrival, so none waits for ever), and of
`TimePasses`. Users never have to type, and faults never have to happen.

`ClientFairSpec` assumes weak fairness of `SenderStep` (what `send_thread` does without waiting
for the user) and of `ReceiverStep`: the operating system runs both threads, and a mutex that
is free again and again is got (each thread holds it for a moment only; when `Prompt` is
disabled `recv_thread` leaves the mutex in two steps and, with `writing` clear, cannot keep
coming back to it before it has printed its text). Reading a character and waking up without
a broadcast are not fair: nobody has to type, and no spurious wakeup may be counted on.

### Bounds

| Bound | Meaning | Why it is enough |
|---|---|---|
| `Servers`, `Clients` | 1-3 each | three servers in a triangle are the shortest cycle, three in a line the shortest path with a server that has no user; two clients of one server share its tables, a third gives the other server one. In `members` the two are interchangeable, and TLC takes states that differ by swapping them for one (`TwoAlike`; only invariants are checked there) |
| `ChannelNames` | `Common` and one or two others | one channel present at start and one created and removed; a third where renewal order matters |
| `Ids` | 1-3 | the number of Says: two that cross, a third on a second channel; two that repeat in `faulty`, so that an id may leave the ring of one and come again |
| `MaxIds` | 1, 3 | the 1024 of the code (`server.c:16`) is out of reach; with two ids, 1 lets the ring wrap, forget an id and overrun. The proofs are for any value |
| `MaxCommands` | 1-2 per user | joining and leaving a channel, with a login before and a logout behind that do not count; a channel that is removed and created again takes two users |
| `MaxFaults` | 0 or 1 | one fault of each kind at any moment |
| `MaxQueue` | 0 or 1 | only limits when time passes |
| `MaxLines`, `MaxTexts` | 3 and 2 | a line, one that is skipped and one behind it; a text that waits while another arrives |
| `BufferEnd`, `NameLength` | 10, 1 | longer than any line of the run plus the misplaced terminator; commands keep their true lengths, since those decide which byte of an old line shows |
| `DebtLimit` | 3 | commands stop when a count reaches -3: four further down a store would overwrite the name of the channel, which the model does not describe |
| `Min1`, `Min2` | 1 and 2 | the ratio of `MIN_1` (60 s) and `MIN_2` (120 s), in units |

Assumed of the environment: adjacency is symmetric (each server is started with its
neighbours and they with it, as in `start_servers.sh`); names have fewer than eight
characters, so that the `free` of a `User` overwrites them; ids are distinct where a run says
`FreshIds` (31 random bits), and repeat in `faulty`.

## The runs

`typing` and `exitHang` are runs of `MCClient`, all others of `MCChat`. Deadlock is checked
in the runs in which a server always stays up; in the others everybody may die or
log out, and then the system stops.

| Run | Instance | Checks | What it shows |
|---|---|---|---|
| `members` | 2 servers, 3 users, joins, leaves and logouts | `MembersAgree`, `NoNameTwice`, `PointersAreLive`, `WhoFits` | membership follows every interleaving, also when the other server's Joins create the channel and its last user removes it, until a user logs out; logouts in any order leave no pointer behind, and no channel has more users than the answer to WHO has room for |
| `flood` | triangle, 2 Says, one duplicate or overtaking | `RelayOnce`, `ShownOnce`, `ForwardedArrives`, `EverySayWasSaid`, `GossipSpec` | flooding ends after one round, nobody is shown a text twice; the servers implement `Gossip` |
| `traffic` | line, users at both ends, 3 Says on 2 channels | `NobodyDies`, `LeaveMeansNobodyUnlessCut`, `PassedOnUnlessCut` | unless its sender was cut off before, a Say is passed on to the others who have the channel, and answered with a Leave only where nobody listens and nobody else has it |
| `joins` | triangle, fair | `JoinBroadcast`, `TrafficEnds` | Joins reach every neighbour and die out |
| `timed` | 2 servers, one may be killed, clock, fair | `LiveStayFresh`, `DeadForgotten`, `CutLinksComeBack` | renewals beat the timeout and bring back what a Leave cut; the dead are forgotten |
| `faulty` | 2 servers, equal names, every fault, 2 ids, a ring with room for 1 | `TypeOK`, `RelayOnce`, `GossipSpec` | the tables keep their shape, the duplicate check its promise and the servers their specification when everything goes wrong, an id that left the ring and is accepted again included |
| `typing` | 1 client, 3 lines, 2 texts, end of stdin, fair | `ClientTypeOK`, `PromptMeansAwake`, `SentAsTyped`, `ShownAtRest`, `ExitEnds` | missed wakeups are made up for by the prompt; lines are sent as typed; exit ends both threads unless one sleeps |
| `pruned` | line, a user at each end, 3 Says | `LeaveMeansNobody` fails | who was cut off is told that nobody listens, though one neighbour has the channel and a listener |
| `leaveNamed` | 2 servers | `LeaveRemovesNamed` fails | a Leave takes the last subscription, not the named one |
| `logoutOthers` | 1 server | `LogoutSparesOthers` fails | a logout drops the last user of channels he was not in |
| `renewal` | 2 servers, 1 Say, clock, fair | `JoinsRenewed` fails | the link for `Common` that a Leave has cut stays cut: index 0 is never renewed |
| `exitHang` | 1 client, 1 line | `NoWaitAfterExit` fails | after `/exit` `recv_thread` may wait for a broadcast that never comes |

Several properties only hold under conditions, which their comments state and the
configurations establish: distinct user names, no double joins, no lost requests. The
theorems about them have these conditions as hypotheses. `MembersAgree` speaks of a server
until one of its users has logged out, since `logoutOthers` happens then. `JoinBroadcast`
speaks of what a neighbour *had*: with the removal of `leaveNamed` a subscription may be
lost again, and `dropped` keeps account of that. `LiveStayFresh` and `CutLinksComeBack`
leave out the one channel `renewal` is about. `SentAsTyped` and `ShownAtRest` leave out what
follows a skipped line, and `ExitEnds` the state `exitHang` is about; the behaviours are in
the model all the same.

### Where the code and its documents differ

The five failing runs:

* `pruned`: `server.c:351` takes one subscribed neighbour to be the sender of the Say. On the line
  the user at one end says something twice before anybody is on at the other end, and the two
  Leaves this causes take the count of subscriptions in the middle from one to minus one. The Join
  of the user who then logs in at the other end only pays for the debt, so his server has joined and
  is not subscribed. His first Say is met by one subscriber, the server of the first user; that
  is not more than one, so the Say is not passed on and answered with a Leave. `server.c:352` says
  "There's no one to forward this message to", `sub_form2.txt:23` that a Leave is the reply when
  a Say cannot be forwarded, and line 27 that inappropriate Leaves are avoided.
  `LeaveMeansNobodyUnlessCut` and `PassedOnUnlessCut` state what does hold.

* `leaveNamed`: `remove_adj_channel` finds no index and removes the last entry
  (`helper_functions.c:367`).
* `logoutOthers`: LOGOUT calls `remove_user` on every channel, which decrements the count also when
  it finds nobody (`channels.c:60`).
* `renewal`: a user says something on `Common` where nobody else listens; the neighbour
  answers with a Leave, which cuts the link. `server.c:398` starts at index 1, so no Join
  for `Common` is ever sent again, and a user who later logs in at the first server is not
  heard by the second.
* `exitHang`: the user types the first character of `/exit`; `recv_thread`, which has a text, tests
  `writing` and is about to wait; the rest of the line, the broadcasts of 113 and 212 and the end of
  `send_thread` pass it by. `main` waits at 291 and the terminal stays raw.

Other differences were seen in the models and are not kept as runs:

* Four Leaves in a row from one neighbour (four quick Says of a lone user) take the count of its
  subscriptions below zero, and the next removal writes over the stack (`helper_functions.c:260`).
* The `printf` of a renewal reads `cnnct_srvrs` with the index of the channel (`server.c:408`).
* The sweep (`server.c:83`) starts at index 1 too: the subscription at index 0 never times out.
* The sweep removes with `remove_adj_channel`, so one subscription that is stale costs the
  neighbour the *last* one, which may be young.
* After a leave or switch without an argument the buffer is not cleared (`client.c:146`,
  `client.c:186`): a shorter line that follows is sent with one byte of the old one, and an
  empty line is taken for an unknown command.
* At the end of stdin the client sends empty Says without pause (`client.c:103`).
* A text may be printed into a line that was started, as `writing` is set after the character was
  read (`client.c:105`).

## The proofs

The proofs assume only the named assumptions of the modules (`ChannelsAssumption`,
`AdjacentServersAssumption`, `ChatServerAssumption`, `ChatSystemAssumption`; for the client
`ClientInputAssumption`, `ClientThreadsAssumption`), which TLC
evaluates in every run, and, where a property has conditions, those as hypotheses.
Servers, clients, channels, ids and lines may be any sets, the bounds on commands and
faults any numbers. The one bound that is part of `Spec` is `DebtLimit`: the theorems
speak of a server until a count has reached -3.

* `TypeCorrect`: `Spec => []TypeOK`. The type invariant is inductive once regrouped
  (`ServerOK`): a table in debt is empty. `Tables_proofs` shows it for each operation on a
  table, `ChatServer_proofs` for each handler, with one lemma for the end of an iteration
  (`ResubOK`) that all share. Its content is that no
  removal leaves an entry visible behind a negative count, and that a position the code
  looks up is one of the table when an entry there is changed or removed.
* `AtMostOnce`: `Spec => []RelayOnce`, for every topology and `MaxIds`, under all faults.
  Each step adds at most one entry to each log (`NextLogs`), and an entry that came from a
  neighbour has an id that is not in `RecentIds`; entries that are not recent are
  `MaxIds` positions back (`RecentEntries`). Beyond the type of the log no strengthening
  is needed.
* `ForwardedSaysArrive`: if `"loss"` is not among the faults, `Spec => []ForwardedArrives`.
  The property is inductive with `ServerOK`: each handler sends what its log entry says
  (`Forwarded`), a step takes no datagram off a link to a live process but the one it reads
  (`Kept`), and a server that reads a Say and lives on has its id afterwards or has overrun
  `recent_ids` (`ServSayAccounts`).
* `NothingMadeUp`: `Spec => []EverySayWasSaid`. The property is not inductive: what a
  server accepts comes from a datagram. The strengthening `SaysTraced` adds that every Say
  on a link stands in the log of its sender with its id and its channel. Each handler lemma
  says which Says it puts on a link (`SaylessSending`, `BothSays`): only the one it has just
  logged; and loss, duplication and overtaking add none.
* `Refinement`: `Spec => GossipSpec`, with the mapping `Accepted`. A step of the federation adds
  at most one entry to one log (`NextLogs`, as in `AtMostOnce`); an entry of a client is a `Say` of
  `Gossip`; one from a neighbour is a `Hear`, whose witness in the log of the neighbour
  is `SaysTraced` and whose guard is that the id is not in `RecentIds` (`RecentMapped`);
  anything else leaves `Accepted` unchanged.
* `NamesOnce`: `Spec => []NoNameTwice`, with no condition. `ServerOK` is all it needs: a table in
  debt is empty, so an append that only pays off a debt hides no entry that a later one could
  double; and a removal, wherever it hits, leaves the rest distinct.
* `NeighboursAreTold`: if `"loss"` is not among the faults, `Spec => []JoinBroadcast`. All
  handlers are first brought into one form (`Iteration`: what is read, what that does to the
  subscriptions, what becomes of the channels, what is sent), since this and the next two
  proofs need only the form. The step is `NewsKept`: who was told of a channel stays told, as the
  Join on the link becomes a subscription when it is read and a subscription that is
  lost is in `dropped`; and who has a new channel has told all neighbours in the same iteration.
* `SaysGoOn`: if neither `"loss"` nor `"overtaking"` is among the faults, `Spec =>
  PassedOnUnlessCut`, an action property. The count of `server.c:351` includes the sender,
  so the step is safe only if the sender of a Say has subscribed. The strengthening
  `SayAfterJoin` says so for every Say of a link: its channel is one the sender has
  subscribed to at some time, or a Join for it is in front of it. Duplicates go to the end
  of the link and do not break that; a datagram that overtakes does, and so does a Join that
  is lost.
* `LiveStaySubscribed`: if no user leaves a channel, nothing is lost, time waits for the servers
  and `Min1 < Min2`, `Spec => []LiveStayFresh`, for any periods. Strengthened by `Owned` (who is
  subscribed, or about to be, has the channel: so it is in the table the renewals run over)
  and `Fresh` (a subscription is no older than the last renewal of the channel, unless the
  Join of the next one is on the link; time does not pass while it is).
* `NoDanglingUsers`, `WhoHasRoom`, `ClientAndServerAgree`: if users have names of their own,
  do not join twice and their requests arrive, `Spec => []PointersAreLive`, `Spec =>
  []WhoFits` and `Spec => []MembersAgree`, each under every fault between servers and at any
  speed of time. They share one invariant (`Booked`), in which the tables of a server that
  runs are compared with the sessions of its clients (`Accounts`): a channel lists nobody
  twice, and only clients of this server who are on and take themselves to be in it; the
  users logged in are the clients who have sent a login and no logout; a freed chunk
  belonged to one who logged out, so no channel points to it when `malloc` hands it out
  again (`Reused` then changes nothing); and until a client of the server has logged out
  nobody is missing (`EveryoneIn`). Removals by name find the client who is meant
  (`FindUser`); where they find nobody they only touch the count, and one who is dropped
  from the end of a list in that way may be missing, but is never listed wrongly.
* `ShownOnceUntilFull`: under the same conditions and with `FreshIds`, nobody is shown a text twice
  as long as his own server has not accepted more than `MaxIds` Says. A text goes to the
  users of a channel, who are clients of that server and listed once (`Booked`); the ids
  in the log of a server are distinct until it has overrun `recent_ids` (`ShownApart`).
  `NoMessageTwice`, `Spec => []ShownOnce`, follows for at most `MaxIds` messages by counting
  (`FewIds`), the boundary included: the 1024th Say of the code is still told apart.
* `LeavesForNobody`: if the servers form a forest, users leave no channel, links are in
  order and neither lose nor repeat anything, ids are distinct and at most `MaxIds`, and no
  time passes, `Spec => LeaveMeansNobodyUnlessCut`, an action property, also with crashes.
  It is two arguments about the Say that is answered. It is no duplicate: without time
  nothing is swept or renewed (`Young`), so that an iteration sends one datagram to some
  neighbours at most, and the datagrams of each link can be followed one by one (`Turn`,
  `Flow`). In a forest every link is a bridge, whose removal cuts the servers into two sets
  (`Forest`). The strengthening says that a Say is under way to nobody who has accepted it
  (`OneWay`), and that an id which was accepted on both sides of a bridge was accepted at
  both of its ends (`Bridged`), so it came over that bridge; neither is inductive without
  the other. So the Leave comes from `server.c:351` (`SayOutcome`), where no user is in the
  channel and at most one neighbour has it. And that one is the sender: `SayAfterJoin` of
  `SaysGoOn` says that the sender has subscribed at some time, so it is subscribed still or
  in `dropped` (`SenderKnown`); a second subscriber would make two. With a cycle the
  property is false, as the second copy of a Say is answered with a Leave by a server with
  listeners; with overtaking as well, as a Say may come before the Join of its sender.
* `NobodyCrashes`: if users only join, switch, say and ask, with names of their own and no
  double joins, if datagrams are at most lost or overtaken, no time passes, ids are distinct
  and there are at most three of them, `Spec => []NobodyDies`, for any federation, cycles
  included. Every way a handler can die is ruled out by a part of the invariant
  (`Peaceful`), one lemma per handler. A NULL entry, an unknown channel or a missing sender
  at LOGIN, SAY and WHO by `Booked` and `ActiveIn` (a client speaks on a channel it is in);
  the NULL pointer for the channel of a neighbour's Say (`server.c:346`) by `Expected`,
  which rests on `Owned`: a Say goes to subscribers, and who subscribed has the channel; a
  miss in a full `recent_ids` by `ShownApart` and counting. The write in front of a table of
  subscriptions by `Covered`: how far the count of a neighbour is below one, with the Leaves
  that are on their way from it and the Says that are on their way to it, is at most the
  number of Says the server has accepted. Each of these Says can be answered with one Leave
  and each Leave takes one away, so the sum only grows when the server forwards a Say, and
  then its log does. A removal crashes at a count of -2 or less, which takes four Leaves
  from a table of one entry, and so at least four Says: hence the bound of three.
* `ClientTypeCorrect`: `ClientSpec => []ClientTypeOK`, with `TypingOK`: a character has its place in
  the line, and a line that was started is counted.
* `AwakeAtPrompts`: `ClientSpec => []PromptMeansAwake`. The strengthening `FlagsOK` adds that
  `writing` is clear except while a line is typed. The one step that matters is `Prompt`: it
  needs the mutex, so `recv_thread` is not between test and wait, and wakes it if it waits.
* `SendsWhatWasTyped`: `ClientSpec => []SentAsTyped`. The strengthening `BufferOK` says that, unless
  a line was skipped, `buff` is clear from the end of what was typed on; a terminator that
  is misplaced by one keeps that, and `Prompt` establishes it anew.

Every safety property that a passing run checks is so the statement of a theorem. Only
model-checked is what is about liveness (`TrafficEnds`, `DeadForgotten`, `CutLinksComeBack`,
`ShownAtRest`, `ExitEnds`), as fairness and ENABLED are outside of what the provers do. The
conditions of `traffic` are those of `NobodyCrashes` and `LeavesForNobody`: its line of
servers is a forest, its three ids fill `recent_ids`. The positions that `SelectInSeq`
returns come from `Min` of a set, for which `MinOfPositions` uses that `<` on the naturals
is well founded; nothing is proved by induction over data.

## What is not modelled

* Text output and the terminal mode (`raw.c`): only that a text is printed is modelled, and when.
* The characters of a line. A command is one of those `decode_input` knows; a line that
  begins with a slash and is none of them has no effect but an error message.
* The limits of 32 users, 32 channels and 64 subscriptions, which the code does not check;
  the runs stay far below them. `MAX_IDS` is modelled.
* Socket creation, DNS and command-line errors at start-up; the TCP functions of
  `connection_handler.c`, which nobody calls; `REQ_KEEP_ALIVE`, which has no handler.
* Restarts: a server keeps nothing on disk and nothing restarts it.

## Plan

1. Done: the server with its tables, the clients' commands, UDP, time, crashes; the first
   three theorems.
2. Done: the threads of the client; the abstract specification `Gossip`; pruning, renewal and
   WHO; the theorems about them.
3. Done: the theorems about names, subscriptions and members.
4. Done: `LeaveMeansNobodyUnlessCut` and `NobodyDies` as theorems, for any number of
servers; all safety properties of the federation and the client are theorems.
5. The limits of the tables, if what lies behind the arrays can be described faithfully; runs
   on the lower half of the H topology of `start_servers.sh` if the state space allows.
