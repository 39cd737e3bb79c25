-------------------------- MODULE MCClientThread --------------------------
(* ClientThread with two parameters to start with. *)
EXTENDS ClientThread
=============================================================================
