-------------------------- MODULE IdService_proofs --------------------------
(***************************************************************************)
(* Ids are unique as long as handlers do not overlap and the server lives.  *)
(***************************************************************************)
EXTENDS IdService, TLAPS

Given(c) == pc[c] \in {"reply", "named"}

OneHandler == \A b, c \in Clients : pc[b] \in InHandler /\ pc[c] \in InHandler => b = c

CounterRead ==
  \A c \in Clients :
    /\ pc[c] \in {"load", "store"} => response[c] = nextClientId
    /\ pc[c] = "store" => loaded[c] = nextClientId

GivenIds ==
  /\ \A c \in Clients : pc[c] = "named" => clientId[c] = response[c]
  /\ \A c \in Clients : Given(c) => response[c] < nextClientId
  /\ \A b, c \in Clients : b # c /\ Given(b) /\ Given(c) => response[b] # response[c]

IInv == TypeOK /\ (~ raced => OneHandler /\ CounterRead /\ GivenIds)

-----------------------------------------------------------------------------
\* The variables of IdService keep their types, and a client is named exactly
\* when its constructor has returned, whatever overlaps or fails.
THEOREM TypeCorrect == Spec => []TypeOK
<1> USE IdAssumption DEF TypeOK, InHandler
<1>1. Init => TypeOK
  <2> SUFFICES ASSUME Init PROVE TypeOK
    OBVIOUS
  <2>1. raced \in BOOLEAN
    BY DEF Init
  <2> QED
    BY <2>1 DEF Init
<1>2. TypeOK /\ [Next]_vars => TypeOK'
  <2> SUFFICES ASSUME TypeOK, [Next]_vars PROVE TypeOK'
    OBVIOUS
  <2>1. ASSUME NEW c \in Clients, CallGetNewId(c) PROVE TypeOK'
    BY <2>1 DEF CallGetNewId, Go
  <2>2. ASSUME NEW c \in Clients, SetId(c) PROVE TypeOK'
    BY <2>2 DEF SetId, Go
  <2>3. ASSUME NEW c \in Clients, LoadNext(c) PROVE TypeOK'
    BY <2>3 DEF LoadNext, Go
  <2>4. ASSUME NEW c \in Clients, StoreNext(c) PROVE TypeOK'
    BY <2>4 DEF StoreNext, Go
  <2>5. ASSUME NEW c \in Clients, ReceiveId(c) PROVE TypeOK'
    BY <2>5 DEF ReceiveId, Go
  <2>6. ASSUME NEW c \in Clients, CallFails(c) PROVE TypeOK'
    BY <2>6 DEF CallFails, Go, Fault
  <2>7. CASE ServerRestart
    BY <2>7 DEF ServerRestart, Fault
  <2>8. CASE Done \/ UNCHANGED vars
    BY <2>8 DEF Done, vars
  <2> QED
    BY <2>1, <2>2, <2>3, <2>4, <2>5, <2>6, <2>7, <2>8 DEF Next, ClientStep
<1> QED
  BY <1>1, <1>2, PTL DEF Spec

\* "an unique ID for the client" (documentation.tex:267) holds of any number
\* of clients and of lost calls, until two handlers overlap or the counter is
\* lost with the server.
THEOREM IdsUniqueUnlessRaced == Spec => []UniqueUnlessRaced
<1>1. Init => OneHandler /\ CounterRead /\ GivenIds
  BY IdAssumption DEF Init, OneHandler, CounterRead, GivenIds, Given, InHandler
<1>2. TypeOK' /\ IInv /\ [Next]_vars => IInv'
  <2> SUFFICES ASSUME TypeOK', IInv, [Next]_vars PROVE IInv'
    OBVIOUS
  <2> USE IdAssumption
      DEF IInv, TypeOK, OneHandler, CounterRead, GivenIds, Given, InHandler
  <2>1. ASSUME NEW c \in Clients, CallGetNewId(c) PROVE IInv'
    <3>1. ~ raced' => ~ raced /\ \A b \in Clients : pc[b] \notin InHandler
      BY <2>1 DEF CallGetNewId
    <3> QED
      BY <2>1, <3>1 DEF CallGetNewId, Go
  <2>2. ASSUME NEW c \in Clients, SetId(c) PROVE IInv'
    BY <2>2 DEF SetId, Go
  <2>3. ASSUME NEW c \in Clients, LoadNext(c) PROVE IInv'
    BY <2>3 DEF LoadNext, Go
  <2>4. ASSUME NEW c \in Clients, StoreNext(c) PROVE IInv'
    BY <2>4 DEF StoreNext, Go
  <2>5. ASSUME NEW c \in Clients, ReceiveId(c) PROVE IInv'
    BY <2>5 DEF ReceiveId, Go
  <2>6. ASSUME NEW c \in Clients, CallFails(c) PROVE IInv'
    BY <2>6 DEF CallFails, Go, Fault
  <2>7. CASE ServerRestart
    BY <2>7 DEF ServerRestart, Fault
  <2>8. CASE Done \/ UNCHANGED vars
    BY <2>8 DEF Done, vars
  <2> QED
    BY <2>1, <2>2, <2>3, <2>4, <2>5, <2>6, <2>7, <2>8 DEF Next, ClientStep
<1>3. IInv => UniqueUnlessRaced
  BY IdAssumption DEF IInv, TypeOK, GivenIds, Given, UniqueIds, UniqueUnlessRaced
<1> QED
  <2>1. Init /\ TypeOK => IInv
    BY <1>1 DEF IInv
  <2> QED
    BY <2>1, <1>2, <1>3, TypeCorrect, PTL DEF Spec

=============================================================================
