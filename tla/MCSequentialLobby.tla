-------------------------- MODULE MCSequentialLobby --------------------------
(***************************************************************************)
(* Instances of SequentialLobby for TLC: three connections, two sizes.     *)
(***************************************************************************)
EXTENDS SequentialLobby

MCSizes == {1, 2}
=============================================================================
