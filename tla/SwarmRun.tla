------------------------------- MODULE SwarmRun -------------------------------
(***************************************************************************)
(* A run of the swarm: the driver (swarm-celld-run.mjs), its cells         *)
(* (worker.ts, module SwarmCell) and the services they call.  The driver   *)
(* opens a generation at every cell with what the generation before made   *)
(* of its neighbours, waits until all cells have settled, freezes their    *)
(* submissions, and goes on from the frozen snapshot.                      *)
(*                                                                         *)
(* The kernel of a cell is what ProteinCell shows it to be: an event is    *)
(* applied once, an action identifier names one action, and the action has *)
(* one outcome.  The services are what ModelGateway, Artifacts and Board   *)
(* show them to be; in mock mode capability-server.mjs stands for all.     *)
(***************************************************************************)
EXTENDS SwarmCell, QualityTarget

CONSTANTS
  Agents,         \* the cells, numbered in the driver's order
  Neighbours,     \* per cell, whose candidates it sees, in that order
  Generations,    \* of a run
  CreditsPerCell,
  Drafts,         \* candidates that checks may be run on
  ScoreOf,        \* what the evaluation of a candidate shows
  Modes,          \* "live" and "mock" services
  Rechecks,       \* of every candidate of the panel; 0: no quality target
  BlockSize,      \* candidates measured between two baselines
  MaxFaults       \* bound of the model: actions that fail

Ids == Drafts \cup {Seed}

Gens == 1..Generations
SeedCandidate == [id |-> Seed, score |-> ScoreOf[Seed], by |-> <<0, 0>>]
FreshState == [current |-> SeedCandidate, credits |-> CreditsPerCell]

Candidate == [id : Ids, score : Int, by : (Agents \X Gens) \cup {<<0, 0>>}]
Submission == [current : Candidate, credits : Int, behavior : Behaviors]

ASSUME SwarmRunAssumption ==
  /\ Agents \subseteq Nat \ {0} /\ IsFiniteSet(Agents) /\ Ids \subseteq Nat
  /\ Neighbours \in [Agents -> Seq(Agents)]
  /\ \A a \in Agents : \E i \in DOMAIN Neighbours[a] : Neighbours[a][i] = a
  /\ Generations \in Nat \ {0} /\ CreditsPerCell \in Nat \ {0}
  /\ ScoreOf \in [Ids -> Int]
  /\ Modes \subseteq {"live", "mock"}
  /\ Rechecks \in Nat /\ BlockSize \in Nat \ {0} /\ MaxFaults \in Nat
  /\ None \notin Submission

VARIABLES
  mode,         \* the services of this run
  cells,        \* the application state of every cell
  inbox,        \* the opening a cell has accepted and not handled
  open,         \* actions of a cell without an outcome
  closed,       \* and with one, of its generation: identifiers name theirs
  evaluations,  \* per generation and agent, what its evaluation showed
  submissions,  \* per generation and agent, what the board accepted
  snapshots,    \* per generation, what the board froze
  driver,       \* the driver
  finalists,    \* the finalists of the generations
  target,       \* the measurement of the panel
  faults
kernels == <<cells, inbox, open, closed>>
services == <<evaluations, submissions, snapshots>>
vars == <<mode, kernels, services, driver, finalists, target, faults>>

NothingYet == [g \in Gens |-> [a \in Agents |-> None]]

Init ==
  /\ mode \in Modes
  /\ cells = [a \in Agents |-> Dormant]
  /\ inbox = [a \in Agents |-> None]
  /\ open = [a \in Agents |-> {}]
  /\ closed = open
  /\ evaluations = NothingYet
  /\ submissions = NothingYet
  /\ snapshots = [g \in Gens |-> None]
  /\ driver = [phase |-> "dispatch", generation |-> 1, sent |-> {},
               states |-> [a \in Agents |-> FreshState], seen |-> [a \in Agents |-> None]]
  /\ finalists = {}
  /\ target = [repeat |-> 0, blocks |-> <<>>, attempt |-> 1, valid |-> TRUE,
               measured |-> [id \in Ids |-> 0]]
  /\ faults = 0

Ended == driver.phase \in {"completed", "failed", "broken"}   \* celld is stopped

-----------------------------------------------------------------------------
(* The kernel: an event is applied, and the action it asks for is begun      *)
(* unless its identifier is taken. *)
Apply(a, step, done) ==
  /\ cells' = [cells EXCEPT ![a] = step.cell]
  /\ closed' = [closed EXCEPT ![a] =
                  IF step.cell.status = "waiting" THEN {}
                  ELSE {action \in @ \cup done : action.generation = step.cell.generation}]
  /\ open' = [open EXCEPT ![a] = (@ \ done) \cup
                ({step.action} \ ({None} \cup closed[a] \cup done))]

HandleOpening(a) ==
  /\ ~Ended /\ inbox[a] # None
  /\ Apply(a, Opened(cells[a], inbox[a]), {})
  /\ inbox' = [inbox EXCEPT ![a] = None]
  /\ UNCHANGED <<mode, services, driver, finalists, target, faults>>

Outcome(a, action, result) ==
  /\ Apply(a, Delivered(cells[a], action, result), {action})
  /\ UNCHANGED <<mode, inbox, snapshots, driver, finalists, target, faults>>

Running(a, kind) == {action \in open[a] : action.kind = kind}

(* The outcome is failed or ambiguous, or the answer makes no sense.         *)
ActionFails(a) ==
  \E action \in open[a] :
    /\ ~Ended /\ faults < MaxFaults
    /\ faults' = faults + 1
    /\ Apply(a, ActionFailed(cells[a], action), {action})
    /\ UNCHANGED <<mode, inbox, services, driver, finalists, target>>

Measured(a, g, id) == [id |-> id, score |-> ScoreOf[id], by |-> <<a, g>>]

-----------------------------------------------------------------------------
(* The services of the live loop.                                            *)
(* The calls a model may make; those that differ only in what their function *)
(* does not use are one. *)
Call(name, id, behavior, valid) ==
  [name |-> name, id |-> id, behavior |-> behavior, valid |-> valid]
Calls ==
  {Call("wait", Seed, None, valid) : valid \in BOOLEAN}
  \cup {Call("run_public_checks", Seed, None, TRUE)}
  \cup {Call("finalize_candidate", Seed, behavior, TRUE) : behavior \in {"explore", "improve"}}
  \cup {Call(name, id, None, TRUE) : id \in Ids,
           name \in {"read_candidate", "adopt_candidate", "challenge_candidate"}}

ModelAnswers(a) ==
  \E action \in Running(a, "model"), call \in Calls :
    /\ ~Ended
    /\ Outcome(a, action, call)
    /\ UNCHANGED <<evaluations, submissions>>

ToolAnswers(a) ==
  \E action \in Running(a, "tool"), id \in Drafts, pass \in BOOLEAN :
    LET checks == cells[a].live.pending = "run_public_checks" IN
    /\ ~Ended
    /\ checks \/ (pass /\ id = CHOOSE d \in Drafts : TRUE)
    /\ Outcome(a, action, [id |-> id, pass |-> pass])
    /\ UNCHANGED <<evaluations, submissions>>

Evaluated(a, g, id, behavior) ==
  evaluations' = [evaluations EXCEPT ![g][a] = [id |-> id, behavior |-> behavior]]

EvaluatorAnswers(a) ==
  \E action \in Running(a, "evaluate") :
    LET id == cells[a].live.terminal.id IN
    /\ ~Ended
    /\ Evaluated(a, action.generation, id, cells[a].behavior)
    /\ Outcome(a, action, Measured(a, action.generation, id))
    /\ UNCHANGED submissions

-----------------------------------------------------------------------------
(* The mock services: decide() and materialize() of capability-server.mjs.   *)
Best(visible) ==
  visible[CHOOSE i \in DOMAIN visible :
    \A j \in DOMAIN visible : visible[i].score > visible[j].score
                              \/ (visible[i].score = visible[j].score /\ i <= j)]
Decision(cell) ==
  LET best == Best(cell.visible)
      decided(behavior) == [behavior |-> behavior, target |-> best.id]
  IN  IF cell.credits <= 0 THEN decided("wait")
      ELSE IF cell.generation > 1 /\ 100 * best.score > 104 * cell.current.score
      THEN decided("adopt")
      ELSE decided(IF cell.generation = 1 THEN "explore" ELSE "improve")

MockDecides(a) ==
  \E action \in Running(a, "decide") :
    /\ ~Ended
    /\ Outcome(a, action, Decision(cells[a]))
    /\ UNCHANGED <<evaluations, submissions>>

MockMaterializes(a) ==
  \E action \in Running(a, "materialize"), id \in Drafts :
    /\ ~Ended
    /\ Evaluated(a, action.generation, id, cells[a].behavior)
    /\ Outcome(a, action, Measured(a, action.generation, id))
    /\ UNCHANGED submissions

-----------------------------------------------------------------------------
(* The board.  It takes one submission of a cell and generation, while the   *)
(* generation is not frozen, for evidence it finds at the evaluator.         *)
Backed(candidate, g) ==
  LET a == candidate.by[1]
      made == candidate.by[2]
  IN  \/ candidate = SeedCandidate
      \/ /\ made \in 1..g
         /\ evaluations[made][a] # None
         /\ evaluations[made][a].id = candidate.id
         /\ candidate.score = ScoreOf[candidate.id]
Own(cell, own) ==
  CASE cell.behavior = "challenge" -> own # None /\ own.behavior = "challenge"
    [] cell.behavior \in {"explore", "improve"} -> own # None /\ own.id = cell.current.id
    [] OTHER -> TRUE
Admitted(a, g) ==
  /\ snapshots[g] = None
  /\ submissions[g][a] = None
  /\ mode = "live" => Own(cells[a], evaluations[g][a]) /\ Backed(cells[a].current, g)

View(cell) == [current |-> cell.current, credits |-> cell.credits, behavior |-> cell.behavior]

BoardAccepts(a) ==
  \E action \in Running(a, "submit") :
    /\ ~Ended
    /\ Admitted(a, action.generation)
    /\ Outcome(a, action, None)
    /\ submissions' = [submissions EXCEPT ![action.generation][a] = View(cells[a])]
    /\ UNCHANGED evaluations

-----------------------------------------------------------------------------
(* The driver.                                                               *)
LatestStates(a) ==   \* a fault: what the cells show now, not the frozen snapshot
  [current |-> IF cells[a].generation = 0 THEN SeedCandidate ELSE cells[a].current]
Candidates(a) == driver.states[a]
(* generationEvent() *)
Observation(a) ==
  [generation |-> driver.generation, live |-> mode = "live",
   current |-> driver.states[a].current, credits |-> driver.states[a].credits,
   visible |-> [i \in DOMAIN Neighbours[a] |-> Candidates(Neighbours[a][i]).current]]

Dispatch(a) ==
  /\ driver.phase = "dispatch"
  /\ a \notin driver.sent
  /\ inbox' = [inbox EXCEPT ![a] = Observation(a)]
  /\ driver' = [driver EXCEPT
       !.sent = @ \cup {a},
       !.phase = IF driver.sent \cup {a} = Agents THEN "settle" ELSE @]
  /\ UNCHANGED <<mode, cells, open, closed, services, finalists, target, faults>>

AnyTime(a) == cells[a].status = "waiting"   \* a fault: the generation is not looked at
HasSettled(a) == cells[a].generation = driver.generation /\ cells[a].status = "waiting"

Settle(a) ==
  /\ driver.phase = "settle"
  /\ driver.seen[a] = None
  /\ HasSettled(a)
  /\ driver' = [driver EXCEPT !.seen[a] = cells[a]]
  /\ UNCHANGED <<mode, kernels, services, finalists, target, faults>>

(* A mock cell is told to do what it cannot pay for, on every attempt of the *)
(* event: decide() does not look at the cost. *)
Unaffordable(a) ==
  /\ mode = "mock" /\ cells[a].status = "deciding"
  /\ cells[a].expected \in closed[a]
  /\ Cost[Decision(cells[a]).behavior] > cells[a].credits

(* A cell has failed, or will not settle within the attempts of the poll:    *)
(* the run is over and everything is stopped.  (A poll that gives up on a    *)
(* cell that is only slow ends the run the same way, at any moment.) *)
GivesUp ==
  /\ driver.phase = "settle"
  /\ \E a \in Agents :
       driver.seen[a] = None /\ (cells[a].status = "failed" \/ Unaffordable(a))
  /\ driver' = [driver EXCEPT !.phase = "failed"]
  /\ UNCHANGED <<mode, kernels, services, finalists, target, faults>>

AfterGeneration(d) ==
  IF d.generation < Generations
  THEN [d EXCEPT !.generation = @ + 1, !.phase = "dispatch", !.sent = {},
                 !.seen = [a \in Agents |-> None]]
  ELSE [d EXCEPT !.phase = IF mode = "live" /\ Rechecks > 0 THEN "panel" ELSE "final"]

(* authoritativeStates(): the next generation starts from the snapshot.      *)
StatesAfter(snapshot) ==
  [a \in Agents |-> IF mode = "live"
                    THEN [current |-> snapshot[a].current, credits |-> snapshot[a].credits]
                    ELSE [current |-> driver.seen[a].current, credits |-> driver.seen[a].credits]]

CloseGeneration ==
  LET g == driver.generation
      states == StatesAfter(submissions[g])
      finalist == submissions[g][Finalist(submissions[g])].current
      closedDriver == [driver EXCEPT !.states = states]
  IN
  /\ driver.phase = "settle"
  /\ \A a \in Agents : driver.seen[a] # None
  /\ IF \E a \in Agents : submissions[g][a] = None
     THEN /\ driver' = [driver EXCEPT !.phase = "broken"]
          /\ UNCHANGED <<snapshots, finalists>>
     ELSE /\ driver' = IF g = 1 THEN [closedDriver EXCEPT !.phase = "restart"]
                       ELSE AfterGeneration(closedDriver)
          /\ snapshots' = IF mode = "live" THEN [snapshots EXCEPT ![g] = submissions[g]]
                          ELSE snapshots
          /\ finalists' = IF mode = "live" THEN finalists \cup {finalist.id} ELSE finalists
  /\ UNCHANGED <<mode, kernels, evaluations, submissions, target, faults>>

(* celld stops and starts again; the cells must come back as they were seen. *)
RestartCelld ==
  /\ driver.phase = "restart"
  /\ driver' = IF \A a \in Agents : cells[a] = driver.seen[a] THEN AfterGeneration(driver)
               ELSE [driver EXCEPT !.phase = "broken"]
  /\ UNCHANGED <<mode, kernels, services, finalists, target, faults>>

(* validateFinalEvidence() *)
Finish ==
  /\ driver.phase = "final"
  /\ driver' = [driver EXCEPT !.phase =
       IF \A a \in Agents : /\ cells[a].generation = Generations
                            /\ cells[a].status = "waiting"
                            /\ open[a] = {}
       THEN "completed" ELSE "broken"]
  /\ UNCHANGED <<mode, kernels, services, finalists, target, faults>>

-----------------------------------------------------------------------------
(* measureQualityTarget(): every candidate of the panel is measured in every *)
(* repeat, in blocks between two measurements of the baseline; a block whose *)
(* baselines drift is measured once more. *)
PanelNow ==
  Panel({evaluations[ga[1]][ga[2]] :
           ga \in {x \in Gens \X Agents : evaluations[x[1]][x[2]] # None}})
Blocks(repeat) == Chunked(BalancedOrder(PanelNow, repeat), BlockSize)
PanelIds == {PanelNow[i] : i \in DOMAIN PanelNow}

BeginRecheck ==
  /\ driver.phase = "panel"
  /\ IF finalists \ {Seed} \subseteq PanelIds
     THEN /\ driver' = [driver EXCEPT !.phase = "recheck"]
          /\ target' = [target EXCEPT !.repeat = 1, !.blocks = Blocks(1)]
     ELSE driver' = [driver EXCEPT !.phase = "broken"] /\ UNCHANGED target
  /\ UNCHANGED <<mode, kernels, services, finalists, faults>>

Counts(drifts) == ~drifts
MeasureBlock(drifts) ==
  LET block == Head(target.blocks) IN
  /\ driver.phase = "recheck"
  /\ target.blocks # <<>>
  /\ target' =
       IF Counts(drifts)
       THEN [target EXCEPT
               !.blocks = Tail(@), !.attempt = 1,
               !.measured = [id \in Ids |->
                               @[id] + Cardinality({i \in DOMAIN block : block[i] = id})]]
       ELSE IF target.attempt = 1 THEN [target EXCEPT !.attempt = 2]
       ELSE [target EXCEPT !.blocks = Tail(@), !.attempt = 1, !.valid = FALSE]
  /\ UNCHANGED <<mode, kernels, services, driver, finalists, faults>>

NextRepeat ==
  /\ driver.phase = "recheck"
  /\ target.blocks = <<>>
  /\ IF target.repeat < Rechecks
     THEN /\ target' = [target EXCEPT !.repeat = @ + 1, !.blocks = Blocks(target.repeat + 1)]
          /\ UNCHANGED driver
     ELSE driver' = [driver EXCEPT !.phase = "final"] /\ UNCHANGED target
  /\ UNCHANGED <<mode, kernels, services, finalists, faults>>

-----------------------------------------------------------------------------
CellStep(a) ==
  \/ HandleOpening(a) \/ ModelAnswers(a) \/ ToolAnswers(a) \/ EvaluatorAnswers(a)
  \/ MockDecides(a) \/ MockMaterializes(a) \/ BoardAccepts(a)
DriverStep ==
  \/ \E a \in Agents : Dispatch(a) \/ Settle(a)
  \/ GivesUp \/ CloseGeneration \/ RestartCelld \/ Finish
  \/ BeginRecheck \/ (\E drifts \in BOOLEAN : MeasureBlock(drifts)) \/ NextRepeat

GoesOn == (\E a \in Agents : CellStep(a)) \/ DriverStep
Next == GoesOn \/ \E a \in Agents : ActionFails(a)

(* Kernels and services run what they have accepted and the driver goes on   *)
(* when it can: something happens while something can, and not by failing.   *)
Spec == Init /\ [][Next]_vars /\ WF_vars(GoesOn)
-----------------------------------------------------------------------------
(* A cell that awaits an outcome has the action running, and no other: no    *)
(* loop, rejection or failure asks for an identifier that was used before    *)
(* (the kernel would begin nothing) or forgets its loop while it waits       *)
(* (liveLoopStateValue in normalizeState), which would make it ignore every  *)
(* later generation.                                                         *)
NobodyWaitsInVain ==
  \A a \in Agents :
    /\ open[a] \subseteq {cells[a].expected}
    /\ cells[a].expected # None => cells[a].expected \in open[a] \/ Unaffordable(a)

(* No assertion of the driver fails: a submission of every cell that was     *)
(* seen waiting, the state of every cell as it was across the restart, every *)
(* finalist among the evaluated candidates, and no action left at the end.   *)
(* It gives up on a cell only if an action failed or a mock cell cannot pay. *)
AssertionsHold ==
  /\ driver.phase # "broken"
  /\ driver.phase = "failed" => faults > 0 \/ \E a \in Agents : Unaffordable(a)

(* Every cell decides on the frozen results of the generation before: what   *)
(* it sees, owns and may spend is what all the cells submitted, although     *)
(* others have begun to change theirs (structuredClone of cellStates, the    *)
(* settle barrier, and authoritativeStates).                                 *)
FrozenNeighbourhood ==
  \A a \in Agents :
    LET before == submissions[cells[a].generation - 1] IN
    cells[a].visible # <<>> /\ cells[a].generation > 1 =>
      /\ \A b \in Agents : before[b] # None
      /\ \A i \in DOMAIN Neighbours[a] :
           cells[a].visible[i] = before[Neighbours[a][i]].current

(* The credits of the submissions are a ledger: each generation costs a cell *)
(* once what its behaviour costs, whatever it tried before, and never more   *)
(* than it has (chargeBehavior, rejectModelDecisionAndWait). *)
CreditsAreSpentOnce ==
  \A g \in Gens, a \in Agents :
    submissions[g][a] # None =>
      LET before == IF g = 1 THEN CreditsPerCell ELSE submissions[g - 1][a].credits IN
      /\ submissions[g][a].credits = before - Cost[submissions[g][a].behavior]
      /\ submissions[g][a].credits >= 0

(* A measurement that calls itself valid has each candidate of the panel     *)
(* once in every repeat (balancedCandidateOrder, chunked and the second      *)
(* attempt of a block). *)
ValidMeansComplete ==
  target.repeat = Rechecks /\ target.blocks = <<>> /\ target.valid =>
    \A id \in Ids : target.measured[id] = IF id \in PanelIds THEN Rechecks ELSE 0

(* The run ends: no cell waits for another or for itself (the settle barrier *)
(* of the driver against onAgentEvent), nor for a submission that the board  *)
(* refuses: the candidate a cell kept, adopted or evaluated is one the       *)
(* evaluator has evidence of, of a generation that fits (executeSubmission   *)
(* against liveActionDelivered). *)
RunEnds == <>Ended
=============================================================================
