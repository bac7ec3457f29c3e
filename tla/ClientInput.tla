------------------------------- MODULE ClientInput -------------------------------
(***************************************************************************)
(* The line a user types: buff of send_thread in client.c, and what        *)
(* decode_input and get_command_arg (helper_functions.c) make of it.  Of a *)
(* byte it matters whether it ends the string, separates the argument, or  *)
(* neither; of a line, its command, its argument and its length.           *)
(***************************************************************************)
EXTENDS Integers, FiniteSetsExt

CONSTANTS
  Names,       \* what users give as an argument
  NameLength,  \* its length
  BufferEnd,   \* the last byte of buff that lines of this run reach
  Lines        \* the lines users type

\* The characters strncmp compares; a line that is a text starts with none.
WordLength == [say |-> 0, join |-> 5, list |-> 5, who |-> 4, leave |-> 6,
               switch |-> 7, exit |-> 5]

NoArg == "no argument"
Blank == "blank, then no argument"

Text(n) == [word |-> "say", arg |-> NoArg, size |-> n]
Command(word, arg) ==
  [word |-> word, arg |-> arg,
   size |-> WordLength[word] + (IF arg = NoArg THEN 0 ELSE IF arg = Blank THEN 1
                                ELSE 1 + NameLength)]

Line == {Text(n) : n \in 0 .. BufferEnd - 1}
          \cup {Command(word, arg) : word \in DOMAIN WordLength \ {"say"},
                                     arg \in Names \cup {NoArg, Blank}}

Bytes  == {"nul", "blank", "other"}
Buffer == [0 .. BufferEnd -> Bytes]

ASSUME ClientInputAssumption ==
  /\ NoArg \notin Names /\ Blank \notin Names
  /\ NameLength \in Nat \ {0}
  /\ BufferEnd \in Nat \ {0}
  /\ Lines \subseteq Line
  /\ \A l \in Lines : l.size < BufferEnd

--------------------------------------------------------------------------------
(* Writing the buffer *)

\* malloc does not clear buff; its first use finds the zero pages of a fresh heap.
Cleared == [i \in 0 .. BufferEnd |-> "nul"]

\* Character i of line l, the first being 0.
Char(l, i) == IF l.word # "say" /\ i = WordLength[l.word] THEN "blank" ELSE "other"

\* The terminator is put one past the end of the n characters.
Terminated(buf, n) == [buf EXCEPT ![n + 1] = "nul"]

--------------------------------------------------------------------------------
(* Reading it *)

StringLength(buf) == Min({i \in DOMAIN buf : buf[i] = "nul"})

\* chnl_len of get_command_arg: what follows the first blank, 0 if there is none.
ArgLength(buf) ==
  LET blanks == {i \in 0 .. StringLength(buf) - 1 : buf[i] = "blank"}
  IN  IF blanks = {} THEN 0 ELSE StringLength(buf) - Min(blanks) - 1

\* Only an empty line lets decode_input see a byte that is left of an earlier one.
\* That byte is the '/' of a command, with no command behind it.
decode_input(buf, l) == IF l.size = 0 /\ buf[0] # "nul" THEN "unknown" ELSE l.word

================================================================================
