---------------------------- MODULE MCIdService ----------------------------
(***************************************************************************)
(* Instances of IdService for TLC.                                         *)
(***************************************************************************)
EXTENDS IdService, TLC

AnyClient == Permutations(Clients)

=============================================================================
