--------------------------- MODULE MCPathSession ---------------------------
(* Instances of PathSession: two workers, one keeper. *)
EXTENDS PathSession
=============================================================================
