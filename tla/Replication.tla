---------------------------- MODULE Replication ----------------------------
(***************************************************************************)
(* What a directory synchroniser promises to users who take turns: a file  *)
(* saved on one replica reaches the server and from there every client,    *)
(* and no replica ever goes back to an older version.                      *)
(***************************************************************************)
EXTENDS Integers

CONSTANTS Clients, Server, Files, Editors

VARIABLES
  edits,  \* edits[f]: the number of versions saved of f
  store   \* store[r][f]: the version of f that replica r has, 0 if none

rvars == <<edits, store>>

Members == Clients \cup {Server}

Init ==
  /\ edits = [f \in Files |-> 0]
  /\ store = [r \in Members |-> [f \in Files |-> 0]]

\* Every replica has the last version of every file.
Agreed == \A r \in Members, f \in Files : store[r][f] = edits[f]

Save(c, f) ==
  /\ Agreed
  /\ edits' = [edits EXCEPT ![f] = @ + 1]
  /\ store' = [store EXCEPT ![c][f] = edits[f] + 1]

Publish(f) ==
  /\ store[Server][f] < edits[f]
  /\ store' = [store EXCEPT ![Server][f] = edits[f]]
  /\ UNCHANGED edits

Fetch(c, f) ==
  /\ store[c][f] < store[Server][f]
  /\ store' = [store EXCEPT ![c][f] = store[Server][f]]
  /\ UNCHANGED edits

Spread == \E f \in Files : Publish(f) \/ \E c \in Clients : Fetch(c, f)

Next == Spread \/ \E c \in Editors, f \in Files : Save(c, f)

Spec == Init /\ [][Next]_rvars /\ WF_rvars(Spread)

=============================================================================
