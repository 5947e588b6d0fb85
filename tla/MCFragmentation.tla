--------------------------- MODULE MCFragmentation ---------------------------
(* Small instances of Fragmentation: every payload up to one bit above the   *)
(* largest message.                                                          *)
EXTENDS Fragmentation

=============================================================================
