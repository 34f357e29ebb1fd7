---------------------------- MODULE MCSnakeMatch ----------------------------
(* Instances of SnakeMatch for TLC, with a client that follows it. *)
EXTENDS SnakeClient
=============================================================================
