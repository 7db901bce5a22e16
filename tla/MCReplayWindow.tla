--------------------------- MODULE MCReplayWindow ---------------------------
(* Instances of ReplayWindow: 16384 and 65536 scaled down to 3 and 12. *)
EXTENDS ReplayWindow
=============================================================================
