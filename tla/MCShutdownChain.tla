-------------------------- MODULE MCShutdownChain --------------------------
(* Instances of ShutdownChain for TLC. *)
EXTENDS ShutdownChain, TLC
=============================================================================
