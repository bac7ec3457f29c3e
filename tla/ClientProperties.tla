----------------------------- MODULE ClientProperties -----------------------------
(***************************************************************************)
(* What the threads of a client promise.                                   *)
(***************************************************************************)
EXTENDS ClientThreads

\* The user is at a prompt and has typed nothing since.
AtPrompt == sendPc = "read" /\ char_ind = 0 /\ ~skipped

\* At a prompt nobody waits for the end of a line.  The broadcasts of send_thread that
\* are made without the mutex may pass recv_thread by, between its test of writing and
\* its wait; the one made with the prompt cannot, and writing is clear then.
PromptMeansAwake == AtPrompt => recvPc \notin {"sleep", "asleep"}

\* What is sent is what was typed, though every line is terminated one byte too
\* far: no byte of an earlier line is left behind it.  Not so after a line that
\* was skipped.
SentAsTyped ==
  sendPc = "prompt" /\ ~skipped /\ request # NoRequest
    => request = [word |-> line.word, arg |-> line.arg, stale |-> "nul"]

\* Once the user rests at a prompt, or stdin is at its end, every text that was
\* received is printed, whatever wakeups were missed before.
ShownAtRest ==
  <>[](char_ind = 0 /\ ~logout) /\ []<>~skipped
    => <>[](socket = 0 /\ recvPc \in {"poll", "receive"})

\* main, which joins both threads, returns after exit, unless recv_thread had found
\* writing set and missed the last broadcast.
ExitEnds ==
  sendPc = "done" /\ recvPc \notin {"sleep", "asleep"} ~> recvPc = "done"

--------------------------------------------------------------------------------
(* What the code says and does not do *)

\* client.c:43, of the loop around pthread_cond_wait: "Wait if the buffer is being
\* written to".  Once send_thread has ended nobody writes, and nobody waits.
NoWaitAfterExit == sendPc = "done" => recvPc # "asleep"

================================================================================
