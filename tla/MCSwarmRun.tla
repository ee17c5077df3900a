------------------------------ MODULE MCSwarmRun ------------------------------
(* Two cells side by side; three candidates, one of which fails its hidden   *)
(* checks and one of which is better than the baseline.                      *)
EXTENDS SwarmRun

MCNeighbours == [a \in Agents |-> <<1, 2>>]
MCScoreOf == [id \in Ids |-> CASE id = 0 -> 10 [] id = 1 -> 0 [] OTHER -> 20]
=============================================================================
