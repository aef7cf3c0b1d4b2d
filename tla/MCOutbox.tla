------------------------------- MODULE MCOutbox -------------------------------
(* Two messages, one of which has no adapter, and two dispatchers. *)
EXTENDS Outbox, TLC
=============================================================================
