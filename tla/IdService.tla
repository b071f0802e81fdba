----------------------------- MODULE IdService -----------------------------
(***************************************************************************)
(* Client ids.  A client's constructor calls the GetNewId RPC until it     *)
(* succeeds.  gRPC runs the handlers of several calls at once and the      *)
(* counter has no lock, so reading it into the response and incrementing   *)
(* it are steps of their own.  The counter is not persisted.               *)
(***************************************************************************)
EXTENDS Integers

CONSTANTS
  Clients,
  None,
  Faults,    \* "call" if a call may fail, "restart" if the server may restart
  MaxFaults  \* bound on the number of faults

ASSUME IdAssumption ==
  /\ None \notin Nat
  /\ Faults \subseteq {"call", "restart"}
  /\ MaxFaults \in Nat

VARIABLES
  nextClientId,
  pc,        \* pc[c]: where the client, or the handler of its call, is
  response,  \* response[c]: the id in getNewIdResponse
  loaded,    \* loaded[c]: what the increment has read
  clientId,  \* clientId[c]: None until the constructor is done
  raced,     \* history: two handlers overlapped or the counter started again
  faults

vars == <<nextClientId, pc, response, loaded, clientId, raced, faults>>

InHandler == {"setId", "load", "store"}

TypeOK ==
  /\ nextClientId \in Nat
  /\ pc \in [Clients -> {"getId", "reply", "named"} \cup InHandler]
  /\ response \in [Clients -> Nat]
  /\ loaded \in [Clients -> Nat]
  /\ clientId \in [Clients -> Nat \cup {None}]
  /\ \A c \in Clients : pc[c] = "named" <=> clientId[c] # None
  /\ raced \in BOOLEAN
  /\ faults \in Nat

Init ==
  /\ nextClientId = 0
  /\ pc = [c \in Clients |-> "getId"]
  /\ response = [c \in Clients |-> 0]
  /\ loaded = [c \in Clients |-> 0]
  /\ clientId = [c \in Clients |-> None]
  /\ raced = FALSE
  /\ faults = 0

Go(c, from, to) ==
  /\ pc[c] = from
  /\ pc' = [pc EXCEPT ![c] = to]

CallGetNewId(c) ==
  /\ Go(c, "getId", "setId")
  /\ raced' = (raced \/ \E b \in Clients : pc[b] \in InHandler)
  /\ UNCHANGED <<nextClientId, response, loaded, clientId, faults>>

SetId(c) ==
  /\ Go(c, "setId", "load")
  /\ response' = [response EXCEPT ![c] = nextClientId]
  /\ UNCHANGED <<nextClientId, loaded, clientId, raced, faults>>

\* nextClientId += 1, in two.
LoadNext(c) ==
  /\ Go(c, "load", "store")
  /\ loaded' = [loaded EXCEPT ![c] = nextClientId]
  /\ UNCHANGED <<nextClientId, response, clientId, raced, faults>>

\* Mutant: the counter keeps its value.
StoreSame(c) ==
  /\ Go(c, "store", "reply")
  /\ nextClientId' = loaded[c]
  /\ UNCHANGED <<response, loaded, clientId, raced, faults>>

StoreNext(c) ==
  /\ Go(c, "store", "reply")
  /\ nextClientId' = loaded[c] + 1
  /\ UNCHANGED <<response, loaded, clientId, raced, faults>>

ReceiveId(c) ==
  /\ Go(c, "reply", "named")
  /\ clientId' = [clientId EXCEPT ![c] = response[c]]
  /\ UNCHANGED <<nextClientId, response, loaded, raced, faults>>

Fault(what) == what \in Faults /\ faults < MaxFaults /\ faults' = faults + 1

\* Mutant: a client whose call failed goes on without an id.
CallFailsForGood(c) ==
  /\ Fault("call")
  /\ Go(c, "getId", "named") \/ Go(c, "reply", "named")
  /\ UNCHANGED <<nextClientId, response, loaded, clientId, raced>>

\* The request or the response is lost; getId calls itself again.
CallFails(c) ==
  /\ Fault("call")
  /\ Go(c, "getId", "getId") \/ Go(c, "reply", "getId")
  /\ UNCHANGED <<nextClientId, response, loaded, clientId, raced>>

\* Calls under way fail with the server and are retried with the next one.
ServerRestart ==
  /\ Fault("restart")
  /\ nextClientId' = 0
  /\ raced' = TRUE
  /\ pc' = [c \in Clients |-> IF pc[c] = "named" THEN "named" ELSE "getId"]
  /\ UNCHANGED <<response, loaded, clientId>>

ClientStep(c) ==
  \/ CallGetNewId(c)
  \/ SetId(c)
  \/ LoadNext(c)
  \/ StoreNext(c)
  \/ ReceiveId(c)

\* Every client has its id and the program's part here is over.
Done == (\A c \in Clients : pc[c] = "named") /\ UNCHANGED vars

Next ==
  \/ \E c \in Clients : ClientStep(c) \/ CallFails(c)
  \/ ServerRestart
  \/ Done

Spec == Init /\ [][Next]_vars

\* Clients keep trying and handlers keep running; calls need not fail.
FairSpec == Spec /\ \A c \in Clients : WF_vars(ClientStep(c))

-----------------------------------------------------------------------------
\* "The server then creates an unique ID for the client"
\* (documentation.tex:267): no two clients are given the same id.
UniqueIds ==
  \A b, c \in Clients : b # c /\ clientId[b] # None => clientId[b] # clientId[c]

\* They are as long as the handlers ran one after the other and the counter was
\* not lost, whatever calls failed and were made again.
UniqueUnlessRaced == ~ raced => UniqueIds

\* Every client's constructor returns with an id, though calls fail and the
\* server restarts.
EveryClientNamed == <>(\A c \in Clients : clientId[c] # None)

=============================================================================
