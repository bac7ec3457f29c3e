------------------------------ MODULE ClientThreads ------------------------------
(***************************************************************************)
(* client.c: the thread that reads what the user types and the one that    *)
(* prints what the server sends.  They share the terminal, the flags       *)
(* writing and logout, a mutex and a condition variable.  send_thread sets *)
(* the flags without the mutex and takes it only to print the prompt, in   *)
(* one action here as it waits for nothing in between; recv_thread tests   *)
(* writing and waits with the mutex held.  What a command does to the      *)
(* channels of the client is in ChatSystem.                                *)
(***************************************************************************)
EXTENDS ClientInput

CONSTANTS
  MaxLines,  \* bound on the lines the user types
  MaxTexts   \* bound on the datagrams that arrive

ASSUME ClientThreadsAssumption == MaxLines \in Nat /\ MaxTexts \in Nat

VARIABLES
  sendPc,   \* where send_thread is
  recvPc,   \* where recv_thread is; "asleep": in the wait set of cond
  writing,  \* the flags
  logout,
  line,     \* the line that is typed
  char_ind, \* how much of it is
  buff,     \* the buffer of send_thread
  skipped,  \* history: the loop of send_thread was restarted by continue
  request,  \* the request sent for the last line, NoRequest if none was
  eof,      \* stdin is at its end
  lines,    \* how many lines were typed
  arrived,  \* how many datagrams arrived
  socket    \* how many of them are unread

vars == <<sendPc, recvPc, writing, logout, line, char_ind, buff, skipped, request,
          eof, lines, arrived, socket>>

\* A request carries the argument that was typed and the byte found behind it.
NoRequest == [word |-> "none", arg |-> NoArg, stale |-> "nul"]
Request == [word : DOMAIN WordLength \cup {"none"}, arg : Names \cup {NoArg, Blank},
            stale : Bytes]

SenderStates   == {"read", "tell", "tellEnd", "handle", "prompt", "leaving", "done"}
ReceiverStates == {"poll", "receive", "lock", "test", "sleep", "asleep", "relock",
                   "print", "done"}

\* recv_thread holds the mutex.
Locked == recvPc \in {"test", "sleep", "print"}

\* A datagram was received and is not printed yet.
InHand == recvPc \in {"lock", "test", "sleep", "asleep", "relock", "print"}

ClientTypeOK ==
  /\ sendPc \in SenderStates
  /\ recvPc \in ReceiverStates
  /\ writing \in BOOLEAN
  /\ logout \in BOOLEAN
  /\ line \in Lines \cup {Text(0)}
  /\ char_ind \in 0 .. line.size
  /\ buff \in Buffer
  /\ skipped \in BOOLEAN
  /\ request \in Request
  /\ eof \in BOOLEAN
  /\ lines \in 0 .. MaxLines
  /\ arrived \in 0 .. MaxTexts
  /\ socket \in 0 .. arrived

ClientInit ==
  /\ sendPc = "read"
  /\ recvPc = "poll"
  /\ writing = FALSE
  /\ logout = FALSE
  /\ line = Text(0)
  /\ char_ind = 0
  /\ buff = Cleared
  /\ skipped = FALSE
  /\ request = NoRequest
  /\ eof = FALSE
  /\ lines = 0
  /\ arrived = 0
  /\ socket = 0

\* pthread_cond_broadcast, for the thread that may wait.
Broadcast(pc) == IF pc = "asleep" THEN "relock" ELSE pc

--------------------------------------------------------------------------------
(* send_thread *)

\* The user goes on with a line, or starts one.
Types(l) == IF char_ind = 0 THEN lines < MaxLines /\ ~eof ELSE l = line

\* read returns a character, and writing is set.
TypeChar(l) ==
  /\ sendPc = "read"
  /\ Types(l)
  /\ char_ind < l.size
  /\ line' = l
  /\ writing' = TRUE
  /\ sendPc' = "tell"
  /\ UNCHANGED <<recvPc, logout, char_ind, buff, skipped, request, eof, lines,
                 arrived, socket>>

\* The broadcast that follows; then the character is stored and echoed.
StoreChar ==
  /\ sendPc = "tell"
  /\ recvPc' = Broadcast(recvPc)
  /\ buff' = [buff EXCEPT ![char_ind] = Char(line, char_ind)]
  /\ char_ind' = char_ind + 1
  /\ sendPc' = "read"
  /\ UNCHANGED <<writing, logout, line, skipped, request, eof, lines, arrived, socket>>

\* read returns a newline.  At the end of stdin it returns nothing, each time, and
\* the loop takes that for an empty line.
EndLine(l) ==
  /\ sendPc = "read"
  /\ char_ind = l.size
  /\ Types(l) \/ eof
  /\ line' = l
  /\ lines' = IF eof THEN lines ELSE lines + 1
  /\ buff' = Terminated(buff, char_ind)
  /\ writing' = FALSE
  /\ sendPc' = "tellEnd"
  /\ UNCHANGED <<recvPc, logout, char_ind, skipped, request, eof, arrived, socket>>

TellEnd ==
  /\ sendPc = "tellEnd"
  /\ recvPc' = Broadcast(recvPc)
  /\ sendPc' = "handle"
  /\ UNCHANGED <<writing, logout, line, char_ind, buff, skipped, request, eof, lines,
                 arrived, socket>>

Word == decode_input(buff, line)
Bare == ArgLength(buff) = 0

\* A leave or a switch without an argument: continue, past the prompt and past the
\* memset of buff.
SkipLine ==
  /\ sendPc = "handle"
  /\ Word \in {"leave", "switch"} /\ Bare
  /\ char_ind' = 0
  /\ skipped' = TRUE
  /\ request' = NoRequest
  /\ sendPc' = "read"
  /\ UNCHANGED <<recvPc, writing, logout, line, buff, eof, lines, arrived, socket>>

\* A text and list are always sent, join and who with an argument.  A leave is
\* sent if the channel is in the list of the client.
Sends ==
  \/ Word \in {"say", "list"}
  \/ Word \in {"join", "who", "leave"} /\ ~Bare
SendsNot == ~Sends \/ Word = "leave"

HandleLine ==
  /\ sendPc = "handle"
  /\ Word # "exit"
  /\ ~(Word \in {"leave", "switch"} /\ Bare)
  /\ \/ Sends /\ request' = [word |-> Word, arg |-> line.arg, stale |-> buff[line.size]]
     \/ SendsNot /\ request' = NoRequest
  /\ sendPc' = "prompt"
  /\ UNCHANGED <<recvPc, writing, logout, line, char_ind, buff, skipped, eof, lines,
                 arrived, socket>>

HandleExit ==
  /\ sendPc = "handle"
  /\ Word = "exit"
  /\ request' = [word |-> "exit", arg |-> NoArg, stale |-> "nul"]
  /\ logout' = TRUE
  /\ sendPc' = "leaving"
  /\ UNCHANGED <<recvPc, writing, line, char_ind, buff, skipped, eof, lines, arrived,
                 socket>>

\* The broadcast that follows; then the loop ends.
Leaves ==
  /\ sendPc = "leaving"
  /\ recvPc' = Broadcast(recvPc)
  /\ sendPc' = "done"
  /\ UNCHANGED <<writing, logout, line, char_ind, buff, skipped, request, eof, lines,
                 arrived, socket>>

\* The prompt is printed and the next line read; recv_thread is then at pc, and buff
\* holds buf.
PromptWith(pc, buf) ==
  /\ sendPc = "prompt"
  /\ recvPc' = pc
  /\ buff' = buf
  /\ char_ind' = 0
  /\ skipped' = FALSE
  /\ sendPc' = "read"
  /\ UNCHANGED <<writing, logout, line, request, eof, lines, arrived, socket>>

\* Mutants: the broadcast is left out; the mutex is; the memset is.
PromptTellsNobody == ~Locked /\ PromptWith(recvPc, Cleared)
PromptUnlocked    == PromptWith(Broadcast(recvPc), Cleared)
PromptKeepsLine   == ~Locked /\ PromptWith(Broadcast(recvPc), buff)

\* The block that holds the mutex: the prompt, the memset of buff, a broadcast.
Prompt == ~Locked /\ PromptWith(Broadcast(recvPc), Cleared)

--------------------------------------------------------------------------------
(* recv_thread *)

Receives(from, to) ==
  /\ recvPc = from
  /\ recvPc' = to
  /\ UNCHANGED <<sendPc, writing, logout, line, char_ind, buff, skipped, request, eof,
                 lines, arrived>>

\* Mutant: logout is not looked at.
PollForEver == Receives("poll", "receive") /\ UNCHANGED socket

Poll == Receives("poll", IF logout THEN "done" ELSE "receive") /\ UNCHANGED socket

\* Mutant: the result of recvfrom is not looked at.
ReceiveAlways == Receives("receive", "lock") /\ socket' = socket - 1

\* recvfrom does not block.
ReceiveText ==
  \/ socket > 0 /\ Receives("receive", "lock") /\ socket' = socket - 1
  \/ socket = 0 /\ Receives("receive", "poll") /\ UNCHANGED socket

Lock == Receives("lock", "test") /\ UNCHANGED socket

\* Whether logout is set makes no difference here: continue tests writing again.
TestWriting == Receives("test", IF writing THEN "sleep" ELSE "print") /\ UNCHANGED socket

\* pthread_cond_wait gives the mutex back, and takes it again once it is woken.
Sleep  == Receives("sleep", "asleep") /\ UNCHANGED socket
Relock == Receives("relock", "test") /\ UNCHANGED socket

\* The text is printed, with a broadcast nobody waits for.
PrintText == Receives("print", "poll") /\ UNCHANGED socket

--------------------------------------------------------------------------------
(* The environment *)

\* POSIX lets pthread_cond_wait return without a broadcast.
SpuriousWakeup == Receives("asleep", "relock") /\ UNCHANGED socket

ArriveText ==
  /\ arrived < MaxTexts
  /\ arrived' = arrived + 1
  /\ socket' = socket + 1
  /\ UNCHANGED <<sendPc, recvPc, writing, logout, line, char_ind, buff, skipped,
                 request, eof, lines>>

StdinEnds ==
  /\ sendPc = "read"
  /\ char_ind = 0
  /\ ~eof
  /\ eof' = TRUE
  /\ UNCHANGED <<sendPc, recvPc, writing, logout, line, char_ind, buff, skipped,
                 request, lines, arrived, socket>>

--------------------------------------------------------------------------------

UserStep == \E l \in Lines : TypeChar(l) \/ EndLine(l)

\* What send_thread does without waiting for the user.
SenderStep ==
  \/ StoreChar
  \/ TellEnd
  \/ SkipLine
  \/ HandleLine
  \/ HandleExit
  \/ Leaves
  \/ Prompt
  \/ eof /\ EndLine(Text(0))

ReceiverStep ==
  \/ Poll
  \/ ReceiveText
  \/ Lock
  \/ TestWriting
  \/ Sleep
  \/ Relock
  \/ PrintText

ClientNext ==
  \/ UserStep
  \/ SenderStep
  \/ ReceiverStep
  \/ SpuriousWakeup
  \/ ArriveText
  \/ StdinEnds

ClientSpec == ClientInit /\ [][ClientNext]_vars

\* The system runs both threads; no user has to type, and nothing wakes a thread
\* but a broadcast.
ClientFairSpec == ClientSpec /\ WF_vars(SenderStep) /\ WF_vars(ReceiverStep)

================================================================================
