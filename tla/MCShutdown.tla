----------------------------- MODULE MCShutdown -----------------------------
(* Instances of Shutdown: two workers of one call hash, and a third one of *)
(* another hash.  Times are the code's in units of 40 ms (Attempt) with    *)
(* the budgets cut so that three silent streams would use them up.         *)
EXTENDS Shutdown
CONSTANTS s1, s2, s3, h1, h2
MCOneHash == (s1 :> h1) @@ (s2 :> h1)
MCTwoHashes == MCOneHash @@ (s3 :> h2)
=============================================================================
