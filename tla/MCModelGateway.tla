---------------------------- MODULE MCModelGateway ----------------------------
(* Small instances of ModelGateway. *)
EXTENDS ModelGateway, TLC

CONSTANTS o1, o2

(* Which of the interchangeable slots handles a request does not matter. *)
SlotSymmetry == Permutations(Slots)
=============================================================================
