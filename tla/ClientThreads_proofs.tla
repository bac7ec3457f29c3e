--------------------------- MODULE ClientThreads_proofs ---------------------------
(***************************************************************************)
(* Theorems about the threads of a client, for any lines and any number of *)
(* texts: the state is well formed, nobody sleeps at a prompt, and what is *)
(* sent is what was typed.                                                 *)
(***************************************************************************)
EXTENDS ClientProperties, TLAPS

\* A line is being typed.
Typing == sendPc = "tell" \/ (sendPc = "read" /\ char_ind > 0)

\* What the types rest on: a character has its place in the line, and a line that was
\* started counts.
TypingOK ==
  /\ sendPc = "tell" => char_ind < line.size
  /\ Typing => lines < MaxLines /\ ~eof

\* writing is set only while a line is typed, and nobody waits for its end at a prompt.
FlagsOK ==
  /\ sendPc \notin {"read", "tell"} => ~writing
  /\ AtPrompt => ~writing /\ recvPc \notin {"sleep", "asleep"}

\* From n on the buffer is clear.
ClearFrom(n) == \A i \in 0 .. BufferEnd : i >= n => buff[i] = "nul"

\* Unless a line was skipped, the buffer is clear behind what was typed.
BufferOK ==
  ~skipped =>
    /\ sendPc \in {"read", "tell"} => ClearFrom(char_ind)
    /\ sendPc \in {"tellEnd", "handle"} => ClearFrom(line.size)

--------------------------------------------------------------------------------
(* Lines *)

\* The lines of users, and the empty one.
LEMMA LineTypes ==
  ASSUME NEW l \in Lines \cup {Text(0)}
  PROVE  /\ l.word \in DOMAIN WordLength
         /\ l.arg \in Names \cup {NoArg, Blank}
         /\ l.size \in 0 .. BufferEnd
<1>1. CASE l \in Lines
  <2>1. l \in Line /\ l.size < BufferEnd /\ NameLength \in Nat /\ BufferEnd \in Nat
    BY <1>1, ClientInputAssumption
  <2>2. ASSUME NEW n \in 0 .. BufferEnd - 1, l = Text(n)
        PROVE  l.word \in DOMAIN WordLength /\ l.arg = NoArg /\ l.size \in Nat
    BY <2>2 DEF Text, WordLength
  <2>3. ASSUME NEW word \in DOMAIN WordLength, NEW arg \in Names \cup {NoArg, Blank},
               l = Command(word, arg)
        PROVE  l.word \in DOMAIN WordLength /\ l.arg = arg /\ l.size \in Nat
    <3>1. WordLength[word] \in Nat
      BY DEF WordLength
    <3>2. l.word = word /\ l.arg = arg
          /\ l.size = WordLength[word] + (IF arg = NoArg THEN 0 ELSE IF arg = Blank THEN 1
                                          ELSE 1 + NameLength)
      BY <2>3 DEF Command
    <3> QED
      BY <2>1, <3>1, <3>2
  <2> QED
    BY <2>1, <2>2, <2>3 DEF Line
<1>2. CASE l = Text(0)
  BY <1>2, ClientInputAssumption DEF Text, WordLength
<1> QED
  BY <1>1, <1>2

\* What decode_input makes of a line.
LEMMA WordTypes ==
  ASSUME ClientTypeOK
  PROVE  /\ Word \in DOMAIN WordLength \cup {"unknown"}
         /\ Word # "unknown" => Word = line.word
         /\ ClearFrom(line.size) => Word = line.word
<1>1. line.word \in DOMAIN WordLength /\ line.size \in 0 .. BufferEnd
  BY LineTypes DEF ClientTypeOK
<1>2. "unknown" \notin DOMAIN WordLength
  BY DEF WordLength
<1>3. ClearFrom(line.size) /\ line.size = 0 => buff[0] = "nul"
  BY <1>1 DEF ClearFrom
<1> QED
  BY <1>1, <1>2, <1>3 DEF Word, decode_input

--------------------------------------------------------------------------------
(* Type correctness *)

TypesInvariant == ClientTypeOK /\ TypingOK

\* A step of send_thread that waits for nobody.
LEMMA SenderTypes ==
  ASSUME TypesInvariant, SenderStep
  PROVE  TypesInvariant'
<1> USE ClientThreadsAssumption DEF TypesInvariant, ClientTypeOK, TypingOK, Typing,
                                    SenderStates, ReceiverStates
<1>0. line.size \in Nat /\ BufferEnd \in Nat /\ line.word \in DOMAIN WordLength
      /\ line.arg \in Names \cup {NoArg, Blank}
  BY LineTypes, ClientInputAssumption
<1>1. \A pc \in ReceiverStates : Broadcast(pc) \in ReceiverStates
  BY DEF Broadcast
<1>2. CASE StoreChar
  <2>1. Char(line, char_ind) \in Bytes
    BY DEF Char, Bytes
  <2>2. buff' \in Buffer
    BY <1>2, <2>1 DEF StoreChar, Buffer
  <2> QED
    BY <1>0, <1>1, <1>2, <2>2 DEF StoreChar
<1>3. CASE TellEnd
  BY <1>1, <1>3 DEF TellEnd
<1>4. CASE SkipLine
  <2>1. request' \in Request
    BY <1>4 DEF SkipLine, NoRequest, Request, Bytes
  <2> QED
    BY <1>0, <1>4, <2>1 DEF SkipLine
<1>5. CASE HandleLine
  <2>1. line.size \in 0 .. BufferEnd
    BY LineTypes
  <2>2. buff[line.size] \in Bytes
    BY <2>1 DEF Buffer
  <2>3. Sends => Word \in DOMAIN WordLength
    BY DEF Sends, WordLength
  <2>4. request' \in Request
    BY <1>0, <1>5, <2>2, <2>3 DEF HandleLine, NoRequest, Request, Bytes
  <2> QED
    BY <1>5, <2>4 DEF HandleLine
<1>6. CASE HandleExit
  <2>1. request' \in Request
    BY <1>6 DEF HandleExit, Request, Bytes, WordLength
  <2> QED
    BY <1>6, <2>1 DEF HandleExit
<1>7. CASE Leaves
  BY <1>1, <1>7 DEF Leaves
<1>8. CASE Prompt
  <2>1. buff' \in Buffer
    BY <1>8 DEF Prompt, PromptWith, Cleared, Buffer, Bytes
  <2>2. TypingOK'
    BY <1>8 DEF Prompt, PromptWith
  <2>3. recvPc' \in ReceiverStates /\ char_ind' \in 0 .. line'.size
    BY <1>0, <1>1, <1>8 DEF Prompt, PromptWith
  <2> QED
    BY <1>8, <2>1, <2>2, <2>3 DEF Prompt, PromptWith
<1>9. CASE eof /\ EndLine(Text(0))
  <2>1. buff' \in Buffer
    BY <1>9 DEF EndLine, Terminated, Buffer, Bytes
  <2>2. TypingOK'
    BY <1>9 DEF EndLine
  <2>3. Text(0).size = 0
    BY DEF Text
  <2>4. char_ind' \in 0 .. line'.size
    BY <1>9, <2>3 DEF EndLine
  <2> QED
    BY <1>9, <2>1, <2>2, <2>4 DEF EndLine
<1> QED
  BY <1>2, <1>3, <1>4, <1>5, <1>6, <1>7, <1>8, <1>9 DEF SenderStep

\* A character, or the end of stdin.
LEMMA UserTypes ==
  ASSUME TypesInvariant, UserStep
  PROVE  TypesInvariant'
<1> USE ClientThreadsAssumption DEF TypesInvariant, ClientTypeOK, TypingOK, Typing,
                                    SenderStates
<1>1. PICK l \in Lines : TypeChar(l) \/ EndLine(l)
  BY DEF UserStep
<1>2. l.size \in Nat
  BY LineTypes, ClientInputAssumption
<1>3. CASE TypeChar(l)
  BY <1>2, <1>3 DEF TypeChar, Types
<1>4. CASE EndLine(l)
  <2>1. buff' \in Buffer
    BY <1>4 DEF EndLine, Terminated, Buffer, Bytes
  <2>2. lines' \in 0 .. MaxLines
    BY <1>4 DEF EndLine, Types
  <2>3. TypingOK'
    BY <1>4 DEF EndLine
  <2>4. char_ind' \in 0 .. line'.size
    BY <1>2, <1>4 DEF EndLine
  <2> QED
    BY <1>4, <2>1, <2>2, <2>3, <2>4 DEF EndLine
<1> QED
  BY <1>1, <1>3, <1>4

\* recv_thread and the network.
LEMMA OtherTypes ==
  ASSUME TypesInvariant, ReceiverStep \/ SpuriousWakeup \/ ArriveText \/ StdinEnds
  PROVE  TypesInvariant'
<1> USE ClientThreadsAssumption DEF TypesInvariant, ClientTypeOK, TypingOK, Typing,
                                    ReceiverStates
<1>1. CASE ReceiverStep
  BY <1>1 DEF ReceiverStep, Receives, Poll, ReceiveText, Lock, TestWriting, Sleep,
              Relock, PrintText
<1>2. CASE SpuriousWakeup
  BY <1>2 DEF SpuriousWakeup, Receives
<1>3. CASE ArriveText
  BY <1>3 DEF ArriveText
<1>4. CASE StdinEnds
  BY <1>4 DEF StdinEnds
<1> QED
  BY <1>1, <1>2, <1>3, <1>4

\* So the types hold in every state.
LEMMA TypesHold == ClientSpec => []TypesInvariant
<1>1. ClientInit => TypesInvariant
  <2>1. SUFFICES ASSUME ClientInit PROVE TypesInvariant
    OBVIOUS
  <2>2. buff \in Buffer
    BY <2>1 DEF ClientInit, Cleared, Buffer, Bytes
  <2>3. request \in Request
    BY <2>1 DEF ClientInit, NoRequest, Request, Bytes
  <2>4. char_ind \in 0 .. line.size
    BY <2>1 DEF ClientInit, Text
  <2>5. TypingOK
    BY <2>1 DEF ClientInit, TypingOK, Typing
  <2>6. socket \in 0 .. arrived /\ arrived \in 0 .. MaxTexts /\ lines \in 0 .. MaxLines
    BY <2>1, ClientThreadsAssumption DEF ClientInit
  <2> QED
    BY <2>1, <2>2, <2>3, <2>4, <2>5, <2>6
    DEF ClientInit, TypesInvariant, ClientTypeOK, SenderStates, ReceiverStates
<1>2. TypesInvariant /\ [ClientNext]_vars => TypesInvariant'
  <2>1. CASE UNCHANGED vars
    BY <2>1 DEF vars, TypesInvariant, ClientTypeOK, TypingOK, Typing
  <2> QED
    BY <2>1, SenderTypes, UserTypes, OtherTypes DEF ClientNext
<1> QED
  BY <1>1, <1>2, PTL DEF ClientSpec

\* Whatever is typed and whatever arrives, the state of the two threads of a client
\* (client.c:29-232) is well formed: no character is stored outside the line, and what is
\* sent is a request.
THEOREM ClientTypeCorrect == ClientSpec => []ClientTypeOK
<1>1. TypesInvariant => ClientTypeOK
  BY DEF TypesInvariant
<1> QED
  BY <1>1, TypesHold, PTL

--------------------------------------------------------------------------------
(* Nobody sleeps at a prompt *)

\* Every step keeps the flags as FlagsOK says.
LEMMA FlagsInvariant ==
  ASSUME TypesInvariant, FlagsOK, ClientNext
  PROVE  FlagsOK'
<1> USE DEF TypesInvariant, ClientTypeOK, FlagsOK, AtPrompt
<1>1. CASE UserStep
  BY <1>1 DEF UserStep, TypeChar, EndLine
<1>2. CASE SenderStep
  <2>1. CASE StoreChar
    BY <2>1, LineTypes, ClientInputAssumption DEF StoreChar
  <2>2. CASE Prompt
    BY <2>2 DEF Prompt, PromptWith, Locked, Broadcast
  <2> QED
    BY <1>2, <2>1, <2>2
    DEF SenderStep, TellEnd, SkipLine, HandleLine, HandleExit, Leaves, EndLine
<1>3. CASE ReceiverStep
  BY <1>3 DEF ReceiverStep, Receives, Poll, ReceiveText, Lock, TestWriting, Sleep,
              Relock, PrintText
<1>4. CASE SpuriousWakeup \/ ArriveText \/ StdinEnds
  BY <1>4 DEF SpuriousWakeup, Receives, ArriveText, StdinEnds
<1> QED
  BY <1>1, <1>2, <1>3, <1>4 DEF ClientNext

\* recv_thread waits for no line at a prompt nobody types at, however the two threads
\* interleave: the broadcast of client.c:226 is made with the mutex, so none that it
\* has passed by (client.c:44, client.c:105, client.c:113) leaves it asleep there.
THEOREM AwakeAtPrompts == ClientSpec => []PromptMeansAwake
<1>1. ClientInit => FlagsOK
  BY DEF ClientInit, FlagsOK, AtPrompt
<1>2. TypesInvariant /\ FlagsOK /\ [ClientNext]_vars => FlagsOK'
  <2>1. CASE UNCHANGED vars
    BY <2>1 DEF vars, FlagsOK, AtPrompt
  <2> QED
    BY <2>1, FlagsInvariant
<1>3. FlagsOK => PromptMeansAwake
  BY DEF FlagsOK, PromptMeansAwake
<1> QED
  BY <1>1, <1>2, <1>3, TypesHold, PTL DEF ClientSpec

--------------------------------------------------------------------------------
(* What is sent is what was typed *)

BufferInvariant == BufferOK /\ SentAsTyped

\* Every step keeps the buffer as BufferOK says.
LEMMA BufferKept ==
  ASSUME TypesInvariant, BufferInvariant, ClientNext
  PROVE  BufferInvariant'
<1> USE DEF TypesInvariant, ClientTypeOK, BufferInvariant, BufferOK, ClearFrom
<1>0. line.size \in 0 .. BufferEnd /\ BufferEnd \in Nat
  BY LineTypes, ClientInputAssumption
<1>1. CASE UserStep \/ (eof /\ EndLine(Text(0)))
  <2>1. PICK l \in Lines \cup {Text(0)} : TypeChar(l) \/ EndLine(l)
    BY <1>1 DEF UserStep
  <2>2. l.size \in 0 .. BufferEnd
    BY LineTypes
  <2>3. CASE TypeChar(l)
    BY <2>3 DEF TypeChar, SentAsTyped
  <2>4. CASE EndLine(l)
    <3>1. \A i \in 0 .. BufferEnd : buff'[i] = "nul" \/ buff'[i] = buff[i]
      BY <2>4 DEF EndLine, Terminated, Buffer
    <3> QED
      BY <2>2, <2>4, <3>1 DEF EndLine, SentAsTyped
  <2> QED
    BY <2>1, <2>3, <2>4
<1>2. CASE StoreChar
  <2>1. \A i \in 0 .. BufferEnd : i # char_ind => buff'[i] = buff[i]
    BY <1>2 DEF StoreChar, Buffer
  <2> QED
    BY <1>0, <1>2, <2>1 DEF StoreChar, SentAsTyped
<1>3. CASE HandleLine
  <2>1. ~skipped => buff[line.size] = "nul" /\ Word = line.word
    <3>1. ~skipped => ClearFrom(line.size)
      BY <1>3 DEF HandleLine
    <3> QED
      BY <1>0, <3>1, WordTypes
  <2> QED
    BY <1>3, <2>1 DEF HandleLine, SentAsTyped
<1>4. CASE Prompt
  BY <1>4 DEF Prompt, PromptWith, Cleared, SentAsTyped
<1>5. CASE TellEnd \/ SkipLine \/ HandleExit \/ Leaves
  BY <1>5 DEF TellEnd, SkipLine, HandleExit, Leaves, SentAsTyped
<1>6. CASE ReceiverStep
  BY <1>6 DEF ReceiverStep, Receives, Poll, ReceiveText, Lock, TestWriting, Sleep,
              Relock, PrintText, SentAsTyped
<1>7. CASE SpuriousWakeup \/ ArriveText \/ StdinEnds
  BY <1>7 DEF SpuriousWakeup, Receives, ArriveText, StdinEnds, SentAsTyped
<1> QED
  BY <1>1, <1>2, <1>3, <1>4, <1>5, <1>6, <1>7 DEF ClientNext, SenderStep

\* A request carries the command and the argument of the line and ends where the line
\* ended, though client.c:111 puts the terminator one byte too far: what makes up for it
\* is the memset of client.c:223, which every line but a skipped one reaches.
THEOREM SendsWhatWasTyped == ClientSpec => []SentAsTyped
<1>1. ClientInit => BufferInvariant
  BY ClientInputAssumption
  DEF ClientInit, BufferInvariant, BufferOK, ClearFrom, Cleared, SentAsTyped
<1>2. TypesInvariant /\ BufferInvariant /\ [ClientNext]_vars => BufferInvariant'
  <2>1. CASE UNCHANGED vars
    BY <2>1 DEF vars, BufferInvariant, BufferOK, ClearFrom, SentAsTyped
  <2> QED
    BY <2>1, BufferKept
<1>3. BufferInvariant => SentAsTyped
  BY DEF BufferInvariant
<1> QED
  BY <1>1, <1>2, <1>3, TypesHold, PTL DEF ClientSpec

================================================================================
