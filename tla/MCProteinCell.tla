---------------------------- MODULE MCProteinCell ----------------------------
(* Small instances of ProteinCell: one run, one or two actions, up to two    *)
(* alarm handlers in flight.                                                 *)
EXTENDS ProteinCell, TLC

CONSTANTS r1, g1, g2, a1, a2, b1, b2, c1, h1, h2

(* Which of the interchangeable handler slots a claim uses does not matter.  *)
HandlerSymmetry == Permutations(Handlers)

Intent(a, s, b) == [id |-> a, safety |-> s, body |-> b]
Ignore == [writes |-> FALSE, run |-> "keep", intents |-> {}]
Note == [Ignore EXCEPT !.writes = TRUE]
Finish == [writes |-> TRUE, run |-> "completed", intents |-> {}]
Ask(a, s, b) == [writes |-> FALSE, run |-> "running", intents |-> {Intent(a, s, b)}]

(* Client events that took the identifier of an outcome event and of an      *)
(* admission event.                                                          *)
TakenOutcomeId == [id |-> OutcomeId(a1, "delivered"), run |-> r1, body |-> b1]
TakenRequestId == [id |-> RequestedId(r1), run |-> None, body |-> b1]

AskAny == {Ask(a1, s, b1) : s \in Safety}

(* cell_core: every kind of action under overlapping handlers.               *)
CoreClientEvents == {}
CoreDecisions == {Finish} \cup AskAny

(* cell_serial: one handler at a time; taken and conflicting ids, a decision *)
(* that updates the run of an event that has none, decisions that write the  *)
(* application state, and one that asks for one action id twice.             *)
SerialClientEvents == {TakenOutcomeId, TakenRequestId}
SerialDecisions ==
  {Note, Finish, Ask(a1, "unsafe", b1),
   [Note EXCEPT !.intents = {Intent(a1, "idempotent", b2)}],
   [Ignore EXCEPT !.intents = {Intent(a1, "unsafe", b1), Intent(a1, "unsafe", b2)}]}
=============================================================================
