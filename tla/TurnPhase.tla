----------------------------- MODULE TurnPhase -----------------------------
(***************************************************************************)
(* What turn_core.rs promises its driver about one relay allocation: it is *)
(* asked for once, held at most once, has a channel only while it is held, *)
(* is given back at most once and is never used again after its end.       *)
(* TurnCore implements this specification.                                 *)
(***************************************************************************)

VARIABLES
  phase,   \* where the allocation is in its life
  bound    \* a channel is bound on it

phaseVars == <<phase, bound>>

Phases == {"idle", "asking", "held", "lost", "releasing", "over"}

Init == phase = "idle" /\ bound = FALSE

Moves(from, to) ==
  /\ phase \in from
  /\ phase' = to
  /\ bound' = FALSE

Ask == Moves({"idle"}, "asking")

Grant == Moves({"asking"}, "held")

Bind ==
  /\ phase = "held"
  /\ bound' = TRUE
  /\ UNCHANGED phase

\* The path is given up while the server may still hold the allocation.
Lose == Moves({"held"}, "lost")

Release == Moves({"asking", "held", "lost"}, "releasing")

End == Moves(Phases, "over")

Next == Ask \/ Grant \/ Bind \/ Lose \/ Release \/ End

Spec == Init /\ [][Next]_phaseVars
=============================================================================
