----------------------------- MODULE MCClientIO -----------------------------
(* Instances of ClientIO for TLC. *)
EXTENDS ClientIO
=============================================================================
