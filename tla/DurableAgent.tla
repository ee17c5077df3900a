---------------------------- MODULE DurableAgent ----------------------------
(***************************************************************************)
(* What a cell promises its application and its clients, with the leases,  *)
(* retries, handlers and crashes of ProteinCell hidden: an accepted event  *)
(* is decided once or given up once; the actions a decision asks for are   *)
(* committed with it; an action gets one terminal outcome, and in the same *)
(* step the event that reports it enters the inbox.                        *)
(***************************************************************************)
EXTENDS Naturals

CONSTANTS EventIds, Actions, Outcomes, OutcomeId(_, _)

VARIABLES
  inbox,    \* EventIds -> {"none", "open", "decided", "given_up"}
  effect    \* Actions -> {"none", "intended"} \cup Outcomes

vars == <<inbox, effect>>

Init == /\ inbox = [e \in EventIds |-> "none"]
        /\ effect = [a \in Actions |-> "none"]

Accept(e) == /\ inbox[e] = "none"
             /\ inbox' = [inbox EXCEPT ![e] = "open"]
             /\ UNCHANGED effect

Decide(e, asked) ==
  /\ inbox[e] = "open"
  /\ \A a \in asked : effect[a] = "none"
  /\ inbox' = [inbox EXCEPT ![e] = "decided"]
  /\ effect' = [a \in Actions |-> IF a \in asked THEN "intended" ELSE effect[a]]

GiveUp(e) == /\ inbox[e] = "open"
             /\ inbox' = [inbox EXCEPT ![e] = "given_up"]
             /\ UNCHANGED effect

Report(a, outcome) ==
  /\ effect[a] = "intended"
  /\ inbox[OutcomeId(a, outcome)] = "none"
  /\ effect' = [effect EXCEPT ![a] = outcome]
  /\ inbox' = [inbox EXCEPT ![OutcomeId(a, outcome)] = "open"]

Next == \/ \E e \in EventIds : Accept(e) \/ GiveUp(e)
        \/ \E e \in EventIds, asked \in SUBSET Actions : Decide(e, asked)
        \/ \E a \in Actions, outcome \in Outcomes : Report(a, outcome)

Spec == Init /\ [][Next]_vars
=============================================================================
