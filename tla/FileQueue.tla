----------------------------- MODULE FileQueue -----------------------------
(***************************************************************************)
(* What clients rely on when they exchange files with the server: messages *)
(* are whole and are served in the order of their connections; an upload   *)
(* is not answered, a request gets one answer that only the client that    *)
(* sent it receives.  If the server crashes, what it had not served is     *)
(* lost.                                                                   *)
(***************************************************************************)
EXTENDS Integers, Sequences

CONSTANTS Clients, None

VARIABLES
  queue,    \* who waits for the answer to each message not served, or None
  answered  \* the clients whose answer is under way

qvars == <<queue, answered>>

Init ==
  /\ queue = <<>>
  /\ answered = {}

Upload ==
  /\ queue' = Append(queue, None)
  /\ UNCHANGED answered

\* A client has one request at a time.
Request(c) ==
  /\ c \notin answered
  /\ \A i \in 1 .. Len(queue) : queue[i] # c
  /\ queue' = Append(queue, c)
  /\ UNCHANGED answered

Serve ==
  /\ queue # <<>>
  /\ queue' = Tail(queue)
  /\ answered' = answered \cup ({Head(queue)} \ {None})

Collect(c) ==
  /\ c \in answered
  /\ answered' = answered \ {c}
  /\ UNCHANGED queue

\* A client stops: nobody will take what it has asked for.
Stop(c) ==
  /\ queue' = [i \in 1 .. Len(queue) |-> IF queue[i] = c THEN None ELSE queue[i]]
  /\ answered' = answered \ {c}

\* Answers under way may arrive all the same.
Crash ==
  /\ queue' = <<>>
  /\ UNCHANGED answered

Next ==
  \/ Upload
  \/ Serve
  \/ Crash
  \/ \E c \in Clients : Request(c) \/ Collect(c) \/ Stop(c)

Safety == Init /\ [][Next]_qvars

Spec == Safety /\ WF_qvars(Serve)

=============================================================================
