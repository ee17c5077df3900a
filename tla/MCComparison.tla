----------------------------- MODULE MCComparison -----------------------------
(* Two comparisons on one host: one of two pairs, one of a single pair.      *)
EXTENDS Comparison, TLC

CONSTANTS A, B, e1, e2

MCTrials == [c \in Comparisons |-> IF c = A THEN 2 ELSE 1]
MCAttempts == [c \in Comparisons |-> IF c = A THEN 2 ELSE 1]
MCTargets == {Found(TRUE, 100), Found(TRUE, 200), Found(FALSE, 200)}
MCUsual == [k \in Conditions |-> Found(TRUE, IF k = "local" THEN 100 ELSE 200)]
Upgrades == Permutations(Environments)
=============================================================================
