---------------------------- MODULE MCAsioServer ----------------------------
(***************************************************************************)
(* Instances of AsioServer for TLC: a request is as short as a message can *)
(* be, a file is longer than what a socket holds.                          *)
(***************************************************************************)
EXTENDS AsioServer

MCBody == [kind \in Kinds |-> IF kind = "File" THEN 2 ELSE 1]

MCGarbage == 0 .. 3

=============================================================================
