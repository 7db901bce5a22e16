----------------------------- MODULE MCDataPath -----------------------------
(* Instances of DataPath: builds with and without the newer symbols. *)
EXTENDS DataPath
MCNewBuild == {{}}
MCBuilds == {{}, {"active", "rebind"}}
=============================================================================
