-------------------------------- MODULE MCBoard --------------------------------
(* A small instance of Board: cell A submits twice for a generation, under     *)
(* two ids, and cell B waits.                                                  *)
EXTENDS Board, TLC

CONSTANTS a1, a2, b1, A, B, seed0, own1

ClaimOf(evidence, candidate, behavior) ==
  [evidence |-> evidence, candidate |-> candidate, behavior |-> behavior]
SubmissionOf(agent, candidate, cell) ==
  [sender |-> agent, agent |-> agent, generation |-> 1, candidate |-> candidate, cell |-> cell]

MCEvaluated ==
  (seed0 :> [candidate |-> 0, generation |-> 0, behavior |-> "seed"]) @@
  (own1 :> [candidate |-> 1, generation |-> 1, behavior |-> "explore"])
MCExpectations == {{B}, {A, B}}
MCSeedClaim == ClaimOf(seed0, 0, "seed")
MCPayload ==
  (a1 :> SubmissionOf(A, ClaimOf(own1, 1, "explore"), ClaimOf(own1, 1, "explore"))) @@
  (a2 :> SubmissionOf(A, None, ClaimOf(seed0, 0, "seed"))) @@
  (b1 :> SubmissionOf(B, None, ClaimOf(seed0, 0, "seed")))
=============================================================================
