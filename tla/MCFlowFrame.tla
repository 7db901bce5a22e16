---------------------------- MODULE MCFlowFrame ----------------------------
(* Small instances of FlowFrame. *)
EXTENDS FlowFrame, TLC

Interchangeable == Permutations(Flows \ LongFlows)

=============================================================================
