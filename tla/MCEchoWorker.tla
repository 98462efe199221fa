---------------------------- MODULE MCEchoWorker ----------------------------
(* Instances of EchoWorker for TLC. *)
EXTENDS EchoWorker, TLC
=============================================================================
