------------------------- MODULE MCReplayCheckpoint -------------------------
(* A small instance of ReplayCheckpoint.                                    *)
EXTENDS ReplayCheckpoint

=============================================================================
