----------------------------- MODULE MCExperiments -----------------------------
(* Agent A has a run before the restart and one after it, agent B one before. *)
(* Two reports compete, and the first is also the one whose evaluation is     *)
(* denied; which of their sources is which does not matter, only their        *)
(* equality is looked at.                                                     *)
EXTENDS Experiments, TLC

CONSTANTS A, B, explore, review, reviewB

MCAgentOf == [r \in AgentRuns |-> IF r = reviewB THEN B ELSE A]
MCPhaseOf == [r \in AgentRuns |-> IF r = review THEN 2 ELSE 1]
AnySource == Permutations(Sources)
=============================================================================
