------------------------ MODULE MCWorkerCredentials ------------------------
(* Instances of WorkerCredentials: two workers that fill one credential. *)
EXTENDS WorkerCredentials, TLC
Symmetry == Permutations(Workers) \cup Permutations(Values)
=============================================================================
