--------------------------- MODULE MCPacketPath ---------------------------
(* Small instances of PacketPath. *)
EXTENDS PacketPath, TLC

(* Each worker goes through a relay of its own. *)
Apart == [w \in Workers |-> w]

=============================================================================
