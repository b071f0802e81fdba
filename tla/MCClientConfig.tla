--------------------------- MODULE MCClientConfig ---------------------------
(***************************************************************************)
(* Instances of ClientConfig for TLC.                                      *)
(***************************************************************************)
EXTENDS ClientConfig, TLC

\* No action singles out a client, or one of the config files.
AnyClient == Permutations(Clients) \cup Permutations(Configs)

=============================================================================
