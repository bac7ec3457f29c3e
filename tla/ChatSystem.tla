-------------------------------- MODULE ChatSystem --------------------------------
(***************************************************************************)
(* The federation with its clients.  A client (client.c) keeps the list of *)
(* the channels it joined and the active one, and sends one datagram per   *)
(* command.  Nothing a server answers changes what it keeps, so a datagram *)
(* that waits between a client and its server is the same as a user who    *)
(* types later: a command and the iteration of the server it starts are    *)
(* one action.                                                             *)
(***************************************************************************)
EXTENDS ChatServer

CONSTANTS
  Home,        \* [Clients -> Servers], the server a client was started with
  PrefixPairs,    \* pairs <<ch, name>> where ch is a prefix of name
  Commands,    \* the commands users type in this run
  Rejoin,      \* TRUE: users may join a channel they are in
  MaxCommands, \* bound on the commands a user types
  Faults,      \* what goes wrong: subset of FaultKinds
  MaxFaults,   \* bound on how often something goes wrong
  Timing,      \* "still": no time passes; "prompt": servers and the network are
               \* fast against a unit of time; "loose": no such relation,
  MaxQueue     \* but time waits while more datagrams than this are on a link

CommandKinds == {"join", "leave", "switch", "say", "who", "list", "logout"}
FaultKinds   == {"kill", "loss", "duplication", "overtaking", "lostRequest"}

ASSUME ChatSystemAssumption ==
  /\ Home \in [Clients -> Servers]
  /\ PrefixPairs \subseteq ChannelNames \X ChannelNames
  /\ \A ch \in ChannelNames : <<ch, ch>> \in PrefixPairs
  /\ Commands \subseteq CommandKinds
  /\ Rejoin \in BOOLEAN
  /\ MaxCommands \in Nat
  /\ Faults \subseteq FaultKinds
  /\ MaxFaults \in Nat
  /\ Timing \in {"still", "prompt", "loose"}
  /\ MaxQueue \in Nat

VARIABLES
  sess,    \* sess[c]: how far client c is, its joined channels and active channel
  faults   \* how many faults there were

vars == <<serverVars, sess, faults>>

Session == [phase : {"off", "login", "on", "out"}, joined : Seq(ChannelNames),
            active : ChannelNames, typed : 0 .. MaxCommands]

\* Every variable keeps the shape of the C object it stands for; in particular
\* a table with a negative count shows no entries.
TypeOK ==
  /\ ServerTypeOK
  /\ sess \in [Clients -> Session]
  /\ faults \in 0 .. MaxFaults
  /\ \A s \in Servers :
       /\ WellCounted(all_users[s])
       /\ \A i \in DOMAIN chans[s] : WellCounted(chans[s][i].users)
       /\ \A t \in Servers : WellCounted(subs[s][t])

Init ==
  /\ ServerInit
  /\ sess = [c \in Clients |-> [phase |-> "off", joined |-> <<Common>>,
                                active |-> Common, typed |-> 0]]
  /\ faults = 0

--------------------------------------------------------------------------------
(* Clients *)

\* A channel's count is never so far below zero that a store reaches its name.
DebtLimit == 3
InDebtLimit(s) ==
  /\ \A i \in DOMAIN chans[s] : chans[s][i].users.debt < DebtLimit
  /\ all_users[s].debt < DebtLimit

\* The datagram of client c is handled; or its server is gone.
Handled(c, Request) ==
  /\ InDebtLimit(Home[c])
  /\ IF alive[Home[c]] THEN Request ELSE UNCHANGED serverVars
  /\ UNCHANGED faults

\* Or it is lost on the way.
LostRequest ==
  /\ "lostRequest" \in Faults
  /\ faults < MaxFaults
  /\ faults' = faults + 1
  /\ UNCHANGED serverVars

\* main sends the login and the Join for Common with no wait in between; the
\* threads that read commands start after both.
Login(c) ==
  /\ sess[c].phase = "off"
  /\ sess' = [sess EXCEPT ![c].phase = "login"]
  /\ Handled(c, LoginRequest(Home[c], c)) \/ LostRequest

JoinCommon(c) ==
  /\ sess[c].phase = "login"
  /\ sess' = [sess EXCEPT ![c].phase = "on"]
  /\ Handled(c, JoinRequest(Home[c], c, Common)) \/ LostRequest

Types(c, command) ==
  /\ command \in Commands
  /\ sess[c].phase = "on"
  /\ sess[c].typed < MaxCommands

Typed(c) == sess[c].typed + 1

JoinCommand(c, ch) ==
  /\ Types(c, "join")
  /\ Rejoin \/ ch \notin Range(sess[c].joined)
  /\ sess' = [sess EXCEPT ![c].joined = Append(@, ch), ![c].active = ch,
                          ![c].typed = Typed(c)]
  /\ Handled(c, JoinRequest(Home[c], c, ch)) \/ LostRequest

\* Only a channel in the list is left.  The active channel becomes Common when
\* it starts with the name that was typed; Common need not be in the list.
LeaveCommand(c, ch) ==
  LET i == SelectInSeq(sess[c].joined, LAMBDA name : name = ch)
  IN  /\ Types(c, "leave")
      /\ i # 0
      /\ sess' = [sess EXCEPT ![c].joined = RemoveAt(@, i),
                    ![c].active = IF <<ch, @>> \in PrefixPairs THEN Common ELSE @,
                    ![c].typed = Typed(c)]
      /\ Handled(c, LeaveRequest(Home[c], c, ch)) \/ LostRequest

SwitchCommand(c, ch) ==
  /\ Types(c, "switch")
  /\ ch \in Range(sess[c].joined)
  /\ sess' = [sess EXCEPT ![c].active = ch, ![c].typed = Typed(c)]
  /\ UNCHANGED <<serverVars, faults>>

SayCommand(c, id) ==
  /\ Types(c, "say")
  /\ sess' = [sess EXCEPT ![c].typed = Typed(c)]
  /\ Handled(c, SayRequest(Home[c], c, sess[c].active, id)) \/ LostRequest

WhoCommand(c, ch) ==
  /\ Types(c, "who")
  /\ sess' = [sess EXCEPT ![c].typed = Typed(c)]
  /\ Handled(c, WhoRequest(Home[c], ch)) \/ LostRequest

ListCommand(c) ==
  /\ Types(c, "list")
  /\ sess' = [sess EXCEPT ![c].typed = Typed(c)]
  /\ Handled(c, ListRequest(Home[c])) \/ LostRequest

LogoutCommand(c) ==
  /\ "logout" \in Commands
  /\ sess[c].phase = "on"
  /\ sess' = [sess EXCEPT ![c].phase = "out"]
  /\ Handled(c, LogoutRequest(Home[c], c)) \/ LostRequest

ClientStep(c) ==
  \/ Login(c)
  \/ JoinCommon(c)
  \/ \E ch \in ChannelNames : JoinCommand(c, ch)
  \/ \E ch \in ChannelNames : LeaveCommand(c, ch)
  \/ \E ch \in ChannelNames : SwitchCommand(c, ch)
  \/ \E id \in Ids : SayCommand(c, id)
  \/ \E ch \in ChannelNames : WhoCommand(c, ch)
  \/ ListCommand(c)
  \/ LogoutCommand(c)

--------------------------------------------------------------------------------
(* Servers, network and time *)

ServerReceive(s, t) == Receive(s, t) /\ UNCHANGED <<sess, faults>>

ServerIdle(s) == Idle(s) /\ UNCHANGED <<sess, faults>>

Fault(kind) ==
  /\ kind \in Faults
  /\ faults < MaxFaults
  /\ faults' = faults + 1
  /\ UNCHANGED sess

ServerKilled(s) == Fault("kill") /\ Kill(s)

DatagramLost(s, t) == Fault("loss") /\ \E i \in DOMAIN net[s][t] : Lose(s, t, i)

DatagramDuplicated(s, t) ==
  Fault("duplication") /\ \E i \in DOMAIN net[s][t] : Duplicate(s, t, i)

DatagramOvertaken(s, t) ==
  Fault("overtaking") /\ \E i \in DOMAIN net[s][t] : Overtake(s, t, i)

TimePasses ==
  /\ Timing # "still"
  /\ Timing = "prompt" => Settled
  /\ \A s, t \in Servers : Len(net[s][t]) <= MaxQueue
  /\ Tick
  /\ UNCHANGED <<sess, faults>>

Next ==
  \/ \E c \in Clients : ClientStep(c)
  \/ \E s, t \in Servers : ServerReceive(s, t)
  \/ \E s \in Servers : ServerIdle(s)
  \/ \E s \in Servers : ServerKilled(s)
  \/ \E s, t \in Servers : DatagramLost(s, t)
  \/ \E s, t \in Servers : DatagramDuplicated(s, t)
  \/ \E s, t \in Servers : DatagramOvertaken(s, t)
  \/ TimePasses

Spec == Init /\ [][Next]_vars

\* Every server runs its loop without end, and the kernel hands it each datagram
\* in its socket in the order of arrival; time goes on.  No user has to type.
Fairness ==
  /\ \A s, t \in Servers : WF_vars(ServerReceive(s, t))
  /\ \A s \in Servers : WF_vars(ServerIdle(s))
  /\ WF_vars(TimePasses)

FairSpec == Spec /\ Fairness

================================================================================
