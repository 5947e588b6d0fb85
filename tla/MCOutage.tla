------------------------------ MODULE MCOutage ------------------------------
(* Small instances of Outage.                                                *)
EXTENDS Outage

=============================================================================
