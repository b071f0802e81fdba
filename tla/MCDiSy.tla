------------------------------- MODULE MCDiSy -------------------------------
(***************************************************************************)
(* Instances of DiSy for TLC: a file f inside a directory d, or inside e,  *)
(* itself inside d.                                                        *)
(***************************************************************************)
EXTENDS DiSy, TLC

CONSTANTS
  d, e, f,  \* paths
  Fast      \* the replicas whose clocks are a second ahead of the others

MCAbove == [p \in Paths |-> IF p = d THEN {} ELSE IF p = e THEN {d} ELSE Dirs]

\* Any injective function will do for SHA-512.
MCHashes == (100 .. 100 + MaxEdits) \cup Mixtures
MCDigest == [v \in Contents |-> IF v \in Mixtures THEN v ELSE 100 + v]

MCSkew == [r \in Replicas |-> IF r \in Fast THEN 1 ELSE 0]

\* Sound where Editors is all the clients and Fast is none of them.
AnyClient == Permutations(Clients)

=============================================================================
