-------------------------- MODULE MCReliableSender --------------------------
(* Small instances of ReliableSender.                                       *)
EXTENDS ReliableSender

=============================================================================
