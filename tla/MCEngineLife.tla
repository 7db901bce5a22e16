---------------------------- MODULE MCEngineLife ----------------------------
(* Small instances of EngineLife. *)
EXTENDS EngineLife, TLC

=============================================================================
