---------------------------- MODULE MCClientPool ----------------------------
(* Instance of ClientPool for TLC. *)
EXTENDS ClientPool
=============================================================================
