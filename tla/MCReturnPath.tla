---------------------------- MODULE MCReturnPath ----------------------------
(* Two small packets, a bulk and a medium one. *)
EXTENDS ReturnPath
Sizes == <<1, 1, 3, 2>>
Batches == <<2, 2, 2>>
=============================================================================
