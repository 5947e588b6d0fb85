--------------------------- MODULE MCNetworkSetup ---------------------------
(* Small instances of NetworkSetup.                                          *)
EXTENDS NetworkSetup

CONSTANTS v1, v2, v3, s1, s2

=============================================================================
