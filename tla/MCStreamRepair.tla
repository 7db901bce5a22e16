--------------------------- MODULE MCStreamRepair ---------------------------
(* Instances of StreamRepair: two reader tasks and one watched worker. *)
EXTENDS StreamRepair, TLC
Symmetry == Permutations(Readers)
=============================================================================
