------------------------------- MODULE SwarmCell -------------------------------
(***************************************************************************)
(* The application of one cell of the swarm (SwarmCell of worker.ts): what *)
(* it makes of an event, as functions of its state, which is what          *)
(* onAgentEvent() is.  The kernel below runs one event at a time and gives *)
(* every action it is asked for one outcome.                               *)
(*                                                                         *)
(* A candidate is known by the content of its source, its score and the    *)
(* evaluation that measured it; texts (sources, strategies, rationales)    *)
(* are left out.  A loop of model turns and tool calls (`live`) replaces   *)
(* the single decision of the mock services where the task asks for it.    *)
(***************************************************************************)
EXTENDS Integers, Sequences

CONSTANTS
  MaxModelTurns,  \* model turns of a loop
  MaxToolCalls,   \* tool calls of a loop
  None

Cost == [explore |-> 4, improve |-> 3, challenge |-> 1, adopt |-> 1, wait |-> 0]
Behaviors == DOMAIN Cost

(* Actions are named by generation and purpose; turns and tools are counted. *)
Action(kind, generation, n) == [kind |-> kind, generation |-> generation, n |-> n]

Asked == [kind : {"decide", "materialize", "challenge", "model", "tool", "evaluate", "submit"},
          generation : Nat, n : Nat]

NonTerminal == {"read_candidate", "run_public_checks"}
Terminal == [name : {"finalize_candidate", "challenge_candidate"}, id : Nat]
Loop == [turn : Nat, tools : Nat, pending : NonTerminal \cup {None}, draft : Nat \cup {None},
         terminal : Terminal \cup {None}]
NewLoop == [turn |-> 0, tools |-> 0, pending |-> None, draft |-> None, terminal |-> None]

ASSUME SwarmCellAssumption ==
  /\ MaxModelTurns \in Nat \ {0}
  /\ MaxToolCalls \in Nat
  /\ None \notin NonTerminal /\ None \notin Terminal /\ None \notin Loop
  /\ None \notin Asked

Dormant == [generation |-> 0, status |-> "idle", expected |-> None, current |-> None,
            credits |-> 0, behavior |-> None, visible |-> <<>>, live |-> None]

(* What an event leads to: the state, and the action that is asked for. *)
Keep(cell) == [cell |-> cell, action |-> None]
Await(cell, status, action) ==
  [cell |-> [cell EXCEPT !.status = status, !.expected = action], action |-> action]
Fail(cell) == Keep([cell EXCEPT !.status = "failed", !.expected = None])
(* The handler throws on every attempt: the kernel gives the event up and    *)
(* the state stays. *)
Throws(cell) == Keep(cell)

Submit(cell) == Await(cell, "submitting", Action("submit", cell.generation, 0))
ModelTurn(cell) == Await(cell, "deciding", Action("model", cell.generation, cell.live.turn))

(* normalizeState(): a stored loop is taken back only if its counts fit. *)
WellFormed(live) ==
  /\ live.turn \in 0..(MaxModelTurns - 1)
  /\ live.tools \in 0..MaxToolCalls
  /\ live.pending # None => live.tools > 0 /\ live.terminal = None
Normal(cell) ==
  IF cell.live # None /\ ~WellFormed(cell.live) THEN [cell EXCEPT !.live = None] ELSE cell

VisibleIds(cell) ==
  {cell.current.id} \cup {cell.visible[i].id : i \in DOMAIN cell.visible}
OwnEvidence(cell, id) == [cell.current EXCEPT !.id = id]   \* a fault: the source without its evidence
(* visibleCandidate(): the first of that name, or else the cell's own. *)
Visible(cell, id) ==
  LET same == {i \in DOMAIN cell.visible : cell.visible[i].id = id} IN
  IF same = {} THEN cell.current
  ELSE cell.visible[CHOOSE i \in same : \A j \in same : i <= j]

Unpaid(cell, behavior) == [cell EXCEPT !.behavior = behavior]   \* a fault
Charge(cell, behavior) ==
  [cell EXCEPT !.credits = @ - Cost[behavior], !.behavior = behavior]

-----------------------------------------------------------------------------
Ignores(cell, observation) ==
  observation.generation <= cell.generation \/ cell.expected # None

(* swarm.generation.opened *)
Opened(stored, observation) ==
  LET cell == Normal(stored)
      opened == [generation |-> observation.generation, status |-> "deciding",
                 expected |-> None, current |-> observation.current,
                 credits |-> observation.credits, behavior |-> None,
                 visible |-> observation.visible,
                 live |-> IF observation.live THEN NewLoop ELSE None]
  IN  IF Ignores(cell, observation) THEN Keep(cell)
      ELSE IF observation.live THEN ModelTurn(opened)
      ELSE Await(opened, "deciding", Action("decide", opened.generation, 0))

-----------------------------------------------------------------------------
(* The mock protocol: one decision, one piece of work, one submission.       *)
Decided(cell, decision) ==
  LET paid == Charge(cell, decision.behavior) IN
  IF Cost[decision.behavior] > cell.credits THEN Throws(cell)
  ELSE CASE decision.behavior = "wait" -> Submit(paid)
         [] decision.behavior = "adopt" ->
              Submit([paid EXCEPT !.current = Visible(cell, decision.target)])
         [] decision.behavior = "challenge" ->
              Await(paid, "materializing", Action("challenge", cell.generation, 0))
         [] OTHER -> Await(paid, "materializing", Action("materialize", cell.generation, 0))

Worked(cell, kind, candidate) ==
  Submit(IF kind = "challenge" THEN cell ELSE [cell EXCEPT !.current = candidate])

Submitted(cell) ==
  Keep([cell EXCEPT !.status = "waiting", !.expected = None, !.visible = <<>>, !.live = None])

MockDelivered(cell, kind, result) ==
  CASE kind = "decide" -> Decided(cell, result)
    [] kind \in {"materialize", "challenge"} -> Worked(cell, kind, result)
    [] kind = "submit" -> Submitted(cell)
    [] OTHER -> Keep(cell)

-----------------------------------------------------------------------------
(* The live loop: function calls of the model.                               *)
BehaviorOf(call) ==
  CASE call.name = "finalize_candidate" -> call.behavior
    [] call.name = "adopt_candidate" -> "adopt"
    [] call.name = "challenge_candidate" -> "challenge"
    [] OTHER -> "wait"

NoMoreTools(cell) ==
  cell.live.turn >= MaxModelTurns - 1 \/ cell.live.tools >= MaxToolCalls

(* The call breaks a rule of the task: nothing is done and nothing charged.  *)
Rejected(cell, call) ==
  \/ ~call.valid
  \/ call.name \in NonTerminal /\ NoMoreTools(cell)
  \/ /\ call.name \in {"read_candidate", "adopt_candidate", "challenge_candidate"}
     /\ call.id \notin VisibleIds(cell)
  \/ call.name = "finalize_candidate" /\ cell.live.draft = None
  \/ Cost[BehaviorOf(call)] > cell.credits

Uncounted(cell, call) ==   \* a fault: the tool call is not counted
  Await([cell EXCEPT !.live.pending = call.name], "tooling",
        Action("tool", cell.generation, cell.live.tools))
CallTool(cell, call) ==
  Await([cell EXCEPT !.live.tools = @ + 1, !.live.pending = call.name], "tooling",
        Action("tool", cell.generation, cell.live.tools))

Evaluate(cell, call, candidate) ==
  Await([Charge(cell, BehaviorOf(call)) EXCEPT
           !.live.terminal = [name |-> call.name, id |-> candidate]],
        "evaluating", Action("evaluate", cell.generation, 0))

(* A rejected decision waits with what it has. *)
Waits(cell) == Submit(Charge(cell, "wait"))

(* handleLiveFunctionCall() *)
FunctionCalled(cell, call) ==
  IF Rejected(cell, call) THEN Waits(cell)
  ELSE CASE call.name \in NonTerminal -> CallTool(cell, call)
         [] call.name = "finalize_candidate" -> Evaluate(cell, call, cell.live.draft)
         [] call.name = "challenge_candidate" -> Evaluate(cell, call, call.id)
         [] call.name = "adopt_candidate" ->
              Submit([Charge(cell, "adopt") EXCEPT !.current = Visible(cell, call.id)])
         [] OTHER -> Waits(cell)

DraftAfter(cell, result) ==
  IF cell.live.pending = "run_public_checks" /\ result.pass THEN result.id ELSE cell.live.draft

ToolDelivered(cell, result) ==
  IF cell.live.pending = None \/ cell.live.turn + 1 >= MaxModelTurns THEN Fail(cell)
  ELSE ModelTurn([cell EXCEPT !.live.turn = @ + 1, !.live.pending = None,
                              !.live.draft = DraftAfter(cell, result)])

Evaluation(cell, candidate) ==
  IF cell.live.terminal.name = "challenge_candidate" THEN cell.current ELSE candidate
EvaluationDelivered(cell, candidate) ==
  IF cell.live.terminal = None \/ candidate.id # cell.live.terminal.id THEN Fail(cell)
  ELSE Submit([cell EXCEPT !.current = Evaluation(cell, candidate), !.live.terminal = None])

ExpectedKind ==
  [deciding |-> "model", tooling |-> "tool", evaluating |-> "evaluate", submitting |-> "submit"]

(* liveActionDelivered(): everything else, and everything it throws, ends in *)
(* liveProtocolFailure(). *)
LiveDelivered(cell, kind, result) ==
  IF cell.status \notin DOMAIN ExpectedKind \/ kind # ExpectedKind[cell.status] THEN Fail(cell)
  ELSE CASE kind = "model" -> FunctionCalled(cell, result)
         [] kind = "tool" -> ToolDelivered(cell, result)
         [] kind = "evaluate" -> EvaluationDelivered(cell, result)
         [] kind = "submit" -> Submitted(cell)

(* protein.action.delivered, and protein.action.failed or .ambiguous. *)
Delivered(stored, action, result) ==
  LET cell == Normal(stored) IN
  IF action # cell.expected THEN Keep(cell)
  ELSE IF cell.live # None THEN LiveDelivered(cell, action.kind, result)
  ELSE MockDelivered(cell, action.kind, result)

ActionFailed(stored, action) ==
  LET cell == Normal(stored) IN
  IF action # cell.expected THEN Keep(cell) ELSE Fail(cell)
=============================================================================
