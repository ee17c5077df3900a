------------------------------ MODULE MCArtifacts ------------------------------
(* A small instance of Artifacts: a candidate that is checked twice, read and  *)
(* evaluated. *)
EXTENDS Artifacts, TLC

CONSTANTS c1, c2, r1, e1, x

MCSourceOf == [a \in {c1, c2, r1, e1} |-> x]
=============================================================================
