---------------------------- MODULE SwarmRunProofs -----------------------------
(***************************************************************************)
(* A run of the swarm, proved for any cells, neighbourhoods, generations,  *)
(* credits, candidates and bounds of the loop: no cell waits for an action *)
(* that is not running, no assertion of the driver fails, every decision   *)
(* is made on the frozen results of the generation before, and credits are *)
(* spent once.                                                             *)
(*                                                                         *)
(* The functions of SwarmCell are reasoned about first, without any        *)
(* variable: from a cell that fits its kernel, each outcome leads to one   *)
(* that does.                                                              *)
(***************************************************************************)
EXTENDS SwarmRun, FiniteSetTheorems, SequenceTheorems, WellFoundedInduction, TLAPS

Statuses == {"idle", "deciding", "tooling", "materializing", "evaluating", "submitting",
             "waiting", "failed"}
Early == {"deciding", "tooling", "evaluating", "materializing"}
Cell == [generation : 0..Generations, status : Statuses, expected : Asked \cup {None},
         current : Candidate \cup {None}, credits : Int, behavior : Behaviors \cup {None},
         visible : Seq(Candidate), live : Loop \cup {None}]
Phases == {"dispatch", "settle", "restart", "panel", "recheck", "final", "completed", "failed",
           "broken"}

Typed ==
  /\ mode \in {"live", "mock"}
  /\ cells \in [Agents -> Cell]
  /\ DOMAIN inbox = Agents
  /\ open \in [Agents -> SUBSET Asked]
  /\ closed \in [Agents -> SUBSET Asked]
  /\ evaluations \in [Gens -> [Agents -> [id : Ids, behavior : Behaviors] \cup {None}]]
  /\ submissions \in [Gens -> [Agents -> Submission \cup {None}]]
  /\ driver \in [phase : Phases, generation : Gens, sent : SUBSET Agents,
                 states : [Agents -> [current : Candidate, credits : Int]],
                 seen : [Agents -> Cell \cup {None}]]
  /\ finalists \subseteq Ids
  /\ faults \in Nat

(* Nothing was charged in this generation yet; or its behaviour was.         *)
Unspent(c, budget) == c.credits = budget /\ budget >= 0
Paid(c, budget) ==
  c.behavior \in Behaviors /\ c.credits = budget - Cost[c.behavior] /\ c.credits >= 0

(* The loop of a cell that goes on is one normalizeState() takes back, and    *)
(* its counts say which turns and tools it has had.                          *)
Kinds(actions) == {x.kind : x \in actions}
Sound(loop) ==
  /\ loop \in Loop /\ loop.draft \in Drafts \cup {None}
  /\ loop.turn < MaxModelTurns /\ loop.tools <= MaxToolCalls
AwaitsModel(c, over) ==
  /\ Sound(c.live) /\ c.live.tools = c.live.turn
  /\ c.live.pending = None /\ c.live.terminal = None
  /\ c.expected = Action("model", c.generation, c.live.turn)
  /\ \A x \in over : x.kind \in {"model", "tool"} /\ x.n < c.live.turn
AwaitsTool(c, over) ==
  /\ Sound(c.live) /\ c.live.tools = c.live.turn + 1 /\ c.live.tools < MaxModelTurns
  /\ c.live.pending # None /\ c.live.terminal = None
  /\ c.expected = Action("tool", c.generation, c.live.turn)
  /\ \A x \in over : \/ x.kind = "model" /\ x.n <= c.live.turn
                     \/ x.kind = "tool" /\ x.n < c.live.turn
AwaitsEvaluation(c, over) ==
  /\ Sound(c.live) /\ c.live.pending = None
  /\ c.live.terminal # None /\ c.live.terminal.id \in Ids
  /\ c.expected = Action("evaluate", c.generation, 0)
  /\ Kinds(over) \subseteq {"model", "tool"}
AwaitsWork(c, over) ==
  /\ c.expected = Action("materialize", c.generation, 0)
  /\ Kinds(over) \subseteq {"decide"}
AwaitsBoard(c, over) ==
  /\ c.expected = Action("submit", c.generation, 0)
  /\ "submit" \notin Kinds(over)
  /\ c.live # None => Sound(c.live) /\ c.live.pending = None
AwaitsDecision(c, over) == c.expected = Action("decide", c.generation, 0) /\ over = {}
CannotPay(c, running, over) ==
  /\ c.expected = Action("decide", c.generation, 0)
  /\ running = {} /\ over = {c.expected}
  /\ Cost[Decision(c).behavior] > c.credits

(* What the status of a cell says of its state, of the actions that run and   *)
(* are over, of the services m and of the credits it began with.             *)
CellFits(c, running, over, m, budget) ==
  /\ c.status = "idle" => c = Dormant
  /\ c.status # "idle" => c.generation > 0 /\ c.current \in Candidate
  /\ c.status \in {"idle", "waiting"} =>
       c.expected = None /\ c.live = None /\ c.visible = <<>> /\ running = {} /\ over = {}
  /\ c.status \in Early \cup {"submitting"} => (c.live # None <=> m = "live")
  /\ c.status = "deciding" =>
       /\ Unspent(c, budget)
       /\ m = "live" => AwaitsModel(c, over) /\ running = {c.expected}
       /\ m # "live" => \/ AwaitsDecision(c, over) /\ running = {c.expected}
                        \/ CannotPay(c, running, over)
  /\ c.status = "tooling" =>
       m = "live" /\ Unspent(c, budget) /\ AwaitsTool(c, over) /\ running = {c.expected}
  /\ c.status = "evaluating" =>
       m = "live" /\ Paid(c, budget) /\ AwaitsEvaluation(c, over) /\ running = {c.expected}
  /\ c.status = "materializing" =>
       m # "live" /\ Paid(c, budget) /\ AwaitsWork(c, over) /\ running = {c.expected}
  /\ c.status = "submitting" => Paid(c, budget) /\ AwaitsBoard(c, over) /\ running = {c.expected}
  /\ c.status = "waiting" => Paid(c, budget)
  /\ c.status = "failed" => c.expected = None /\ running = {}

(* What a cell starts a generation with.                                     *)
Start(g, a) == IF g <= 1 THEN FreshState ELSE submissions[g - 1][a]
Budget(a) == Start(cells[a].generation, a).credits
CellsFit == \A a \in Agents : CellFits(cells[a], open[a], closed[a], mode, Budget(a))
SeesAt(a) ==
  cells[a].visible # <<>> =>
    cells[a].visible =
      [i \in DOMAIN Neighbours[a] |-> Start(cells[a].generation, Neighbours[a][i]).current]
SeesStart == \A a \in Agents : SeesAt(a)

(* The board has what the cells submitted, of every generation that is over. *)
SubmissionsFit ==
  /\ \A a \in Agents : \A g \in Gens :
       /\ g > cells[a].generation \/ (g = cells[a].generation /\ cells[a].status # "waiting") =>
            submissions[g][a] = None
       /\ g = cells[a].generation /\ cells[a].status = "waiting" =>
            submissions[g][a] = View(cells[a])
  /\ \A g \in Gens : g < driver.generation => \A a \in Agents : submissions[g][a] # None

(* A cell has done generation g; it was asked for the generation of the       *)
(* driver.                                                                    *)
Rested(a, g) ==
  /\ g = 0 => cells[a] = Dormant
  /\ g > 0 => cells[a].generation = g /\ cells[a].status = "waiting"
Asks(a) ==
  \/ inbox[a] = Observation(a) /\ Rested(a, driver.generation - 1)
  \/ inbox[a] = None /\ cells[a].generation = driver.generation
StatesOf(g) ==
  [a \in Agents |-> [current |-> Start(g, a).current, credits |-> Start(g, a).credits]]
Behind == \A a \in Agents : cells[a].generation <= driver.generation
Dispatching ==
  driver.phase = "dispatch" =>
    \A a \in Agents : /\ driver.seen[a] = None
                      /\ a \notin driver.sent => inbox[a] = None /\ Rested(a, driver.generation - 1)
Opens ==
  driver.phase \in {"dispatch", "settle"} =>
    driver.states = StatesOf(driver.generation) /\ \A a \in driver.sent : Asks(a)
Settling ==
  driver.phase = "settle" =>
    /\ driver.sent = Agents /\ Agents # {}
    /\ \A a \in Agents : driver.seen[a] # None =>
         driver.seen[a] = cells[a] /\ Rested(a, driver.generation) /\ inbox[a] = None
Restarting ==
  driver.phase = "restart" =>
    /\ driver.states = StatesOf(driver.generation + 1)
    /\ \A a \in Agents : driver.seen[a] = cells[a]
Resting ==
  /\ driver.phase \in {"restart", "panel", "recheck", "final", "completed"} =>
       \A a \in Agents : inbox[a] = None /\ Rested(a, driver.generation)
  /\ driver.phase \in {"panel", "recheck", "final", "completed"} =>
       driver.generation = Generations
DriverFits == Behind /\ Dispatching /\ Opens /\ Settling /\ Restarting /\ Resting

(* Finalists were evaluated, or are the seed.                                *)
Known(id) ==
  id = Seed \/ \E g \in Gens : \E a \in Agents :
                 evaluations[g][a] # None /\ evaluations[g][a].id = id
FreshEvaluations ==
  \A a \in Agents : \A g \in Gens :
    g > cells[a].generation \/ (g = cells[a].generation /\ cells[a].status \in Early) =>
      evaluations[g][a] = None
SubmissionsKnown ==
  mode = "live" => \A g \in Gens : \A a \in Agents :
    submissions[g][a] # None => Known(submissions[g][a].current.id)
FinalistsKnown == \A id \in finalists : Known(id)
Failures == \A a \in Agents : cells[a].status = "failed" => faults > 0

IInv == /\ Typed /\ CellsFit /\ SeesStart /\ SubmissionsFit /\ DriverFits
        /\ FreshEvaluations /\ SubmissionsKnown /\ FinalistsKnown /\ Failures
        /\ AssertionsHold /\ CreditsAreSpentOnce

-----------------------------------------------------------------------------
(* Cells and their loops. *)
LEMMA NoneApart ==
  /\ None \notin Asked /\ None \notin Loop /\ None \notin NonTerminal
  /\ None \notin Terminal /\ None \notin Submission
BY SwarmCellAssumption, SwarmRunAssumption DEF SwarmCellAssumption, SwarmRunAssumption

LEMMA Numbers ==
  /\ MaxModelTurns \in Nat /\ MaxModelTurns > 0 /\ MaxToolCalls \in Nat
  /\ Generations \in Nat /\ Generations > 0 /\ CreditsPerCell \in Nat
  /\ Ids \subseteq Nat /\ Seed \in Ids /\ Drafts \subseteq Ids
  /\ ScoreOf \in [Ids -> Int]
BY SwarmCellAssumption, SwarmRunAssumption DEF SwarmCellAssumption, SwarmRunAssumption, Ids

LEMMA CellFields ==
  ASSUME NEW c \in Cell
  PROVE  /\ c.generation \in 0..Generations /\ c.generation \in Nat /\ c.status \in Statuses
         /\ c.expected \in Asked \cup {None} /\ c.current \in Candidate \cup {None}
         /\ c.credits \in Int /\ c.behavior \in Behaviors \cup {None}
         /\ c.visible \in Seq(Candidate) /\ c.live \in Loop \cup {None}
BY Numbers DEF Cell

LEMMA Actions ==
  ASSUME NEW g \in Nat, NEW n \in Nat,
         NEW kind \in {"decide", "materialize", "challenge", "model", "tool", "evaluate", "submit"}
  PROVE  /\ Action(kind, g, n) \in Asked
         /\ Action(kind, g, n).kind = kind /\ Action(kind, g, n).n = n
         /\ Action(kind, g, n).generation = g
BY DEF Action, Asked

LEMMA Awaited ==
  ASSUME NEW c \in Cell, NEW status \in Statuses, NEW action \in Asked
  PROVE  LET step == Await(c, status, action) IN
         /\ step.action = action /\ step.cell \in Cell
         /\ step.cell.status = status /\ step.cell.expected = action
         /\ step.cell.generation = c.generation /\ step.cell.current = c.current
         /\ step.cell.credits = c.credits /\ step.cell.behavior = c.behavior
         /\ step.cell.visible = c.visible /\ step.cell.live = c.live
BY DEF Await, Cell

LEMMA Charged ==
  ASSUME NEW c \in Cell, NEW behavior \in Behaviors
  PROVE  LET paid == Charge(c, behavior) IN
         /\ paid \in Cell
         /\ paid.behavior = behavior /\ paid.credits = c.credits - Cost[behavior]
         /\ paid.generation = c.generation /\ paid.status = c.status
         /\ paid.expected = c.expected /\ paid.current = c.current
         /\ paid.visible = c.visible /\ paid.live = c.live
<1>1. Cost[behavior] \in Int
  BY DEF Cost, Behaviors
<1> DEFINE credits == c.credits - Cost[behavior]
<1>2. credits \in Int
  BY <1>1 DEF Cell
<1>3. Charge(c, behavior) = [c EXCEPT !.credits = credits, !.behavior = behavior]
  BY DEF Charge
<1> HIDE DEF credits
<1>4. LET paid == [c EXCEPT !.credits = credits, !.behavior = behavior] IN
      /\ paid \in Cell
      /\ paid.behavior = behavior /\ paid.credits = credits
      /\ paid.generation = c.generation /\ paid.status = c.status
      /\ paid.expected = c.expected /\ paid.current = c.current
      /\ paid.visible = c.visible /\ paid.live = c.live
  BY <1>2 DEF Cell
<1> QED
  BY <1>3, <1>4 DEF credits

LEMMA Held ==
  ASSUME NEW c \in Cell, NEW candidate \in Candidate
  PROVE  LET with == [c EXCEPT !.current = candidate] IN
         /\ with \in Cell
         /\ with.current = candidate /\ with.credits = c.credits /\ with.behavior = c.behavior
         /\ with.generation = c.generation /\ with.status = c.status
         /\ with.expected = c.expected /\ with.visible = c.visible /\ with.live = c.live
BY DEF Cell

LEMMA Looping ==
  ASSUME NEW c \in Cell, NEW loop \in Loop
  PROVE  LET with == [c EXCEPT !.live = loop] IN
         /\ with \in Cell
         /\ with.current = c.current /\ with.credits = c.credits /\ with.behavior = c.behavior
         /\ with.generation = c.generation /\ with.status = c.status
         /\ with.expected = c.expected /\ with.visible = c.visible /\ with.live = loop
BY DEF Cell

LEMMA Costs ==
  /\ \A behavior \in Behaviors : Cost[behavior] \in Nat
  /\ Behaviors = {"explore", "improve", "challenge", "adopt", "wait"}
  /\ Cost["wait"] = 0
BY DEF Behaviors, Cost

(* normalizeState() takes every cell that waits for an outcome as it is.     *)
LEMMA AlreadyNormal ==
  ASSUME NEW c \in Cell, c.live # None => Sound(c.live), c.live # None =>
           (c.live.pending # None => c.live.tools > 0 /\ c.live.terminal = None)
  PROVE  Normal(c) = c
<1>1. CASE c.live = None
  BY <1>1 DEF Normal
<1>2. CASE c.live # None
  <2>1. c.live \in Loop
    BY <1>2 DEF Sound
  <2>2. c.live.turn \in Nat /\ c.live.tools \in Nat
    BY <2>1 DEF Loop
  <2>3. c.live.turn \in 0..(MaxModelTurns - 1) /\ c.live.tools \in 0..MaxToolCalls
    BY <1>2, <2>2, Numbers DEF Sound
  <2> QED
    BY <1>2, <2>3 DEF Normal, WellFormed
<1> QED
  BY <1>1, <1>2

-----------------------------------------------------------------------------
(* What a step of a cell makes of the actions that run and are over.         *)
NowOpen(step, running, over, ended) ==
  (running \ ended) \cup ({step.action} \ ({None} \cup over \cup ended))
NowClosed(step, over, ended) ==
  IF step.cell.status = "waiting" THEN {}
  ELSE {action \in over \cup ended : action.generation = step.cell.generation}
StepFits(step, c, running, over, ended, m, budget) ==
  /\ step.cell \in Cell /\ step.cell.generation = c.generation
  /\ step.cell.visible \in {c.visible, <<>>}
  /\ NowOpen(step, running, over, ended) \subseteq Asked
  /\ NowClosed(step, over, ended) \subseteq Asked
  /\ CellFits(step.cell, NowOpen(step, running, over, ended), NowClosed(step, over, ended),
              m, budget)

LEMMA SubmitFits ==
  ASSUME NEW c \in Cell, c.generation > 0, c.current \in Candidate,
         NEW m, NEW budget, Paid(c, budget),
         c.live # None <=> m = "live", c.live # None => Sound(c.live) /\ c.live.pending = None,
         NEW x \in Asked, NEW over, over \subseteq Asked,
         x.kind # "submit", \A y \in over : y.kind # "submit"
  PROVE  /\ StepFits(Submit(c), c, {x}, over, {x}, m, budget)
         /\ Submit(c).cell.status = "submitting"
<1> DEFINE action == Action("submit", c.generation, 0)
           step == Submit(c)
<1>1. c.generation \in Nat
  BY CellFields
<1>2. action \in Asked /\ action.kind = "submit"
  BY <1>1, Actions
<1>3. /\ step.action = action /\ step.cell \in Cell
      /\ step.cell.status = "submitting" /\ step.cell.expected = action
      /\ step.cell.generation = c.generation /\ step.cell.current = c.current
      /\ step.cell.credits = c.credits /\ step.cell.behavior = c.behavior
      /\ step.cell.visible = c.visible /\ step.cell.live = c.live
  BY <1>2, Awaited DEF Submit, Statuses
<1>4. action \notin over /\ action # x
  BY <1>2
<1> HIDE DEF step
<1> HIDE DEF action
<1>5. /\ NowOpen(step, {x}, over, {x}) = {action}
      /\ NowOpen(step, {x}, over, {x}) \subseteq Asked
      /\ NowClosed(step, over, {x}) \subseteq over \cup {x}
      /\ NowClosed(step, over, {x}) \subseteq Asked
  BY <1>2, <1>3, <1>4, NoneApart DEF NowOpen, NowClosed
<1> USE DEF action
<1> DEFINE running == NowOpen(step, {x}, over, {x})
           now == NowClosed(step, over, {x})
<1>6. AwaitsBoard(step.cell, now)
  BY <1>3, <1>5 DEF AwaitsBoard, Kinds
<1>7. Paid(step.cell, budget)
  BY <1>3 DEF Paid
<1>8. CellFits(step.cell, running, now, m, budget)
  BY <1>3, <1>5, <1>6, <1>7 DEF CellFits, Early
<1> QED
  BY <1>3, <1>5, <1>8 DEF StepFits, step

-----------------------------------------------------------------------------
(* What may happen to a cell that waits for the outcome of x.                *)
LEMMA InFlight ==
  ASSUME NEW c \in Cell, NEW m \in {"live", "mock"}, NEW budget,
         NEW running, NEW over, over \subseteq Asked, running \subseteq Asked,
         CellFits(c, running, over, m, budget), NEW x \in running
  PROVE  /\ running = {x} /\ c.expected = x /\ x.generation = c.generation
         /\ c.generation \in Nat /\ c.generation > 0 /\ c.current \in Candidate
         /\ c.live # None <=> m = "live"
         /\ Normal(c) = c
         /\ c.status \in Early \cup {"submitting"}
         /\ x.kind = "model" <=> c.status = "deciding" /\ m = "live"
         /\ x.kind = "decide" <=> c.status = "deciding" /\ m = "mock"
         /\ x.kind = "tool" <=> c.status = "tooling"
         /\ x.kind = "evaluate" <=> c.status = "evaluating"
         /\ x.kind = "materialize" <=> c.status = "materializing"
         /\ x.kind = "submit" <=> c.status = "submitting"
<1>1. c.status \in Statuses /\ c.generation \in Nat
  BY CellFields
<1>2. c.status \in Early \cup {"submitting"}
  BY <1>1 DEF Statuses, Early, CellFits
<1>3. /\ running = {c.expected} /\ c.generation > 0 /\ c.current \in Candidate
      /\ c.live # None <=> m = "live"
  BY <1>2 DEF Early, CellFits, CannotPay
<1>4. x = c.expected
  BY <1>3
<1>5. /\ c.status = "deciding" /\ m = "live" => AwaitsModel(c, over)
      /\ c.status = "deciding" /\ m = "mock" => c.expected = Action("decide", c.generation, 0)
      /\ c.status = "tooling" => AwaitsTool(c, over) /\ m = "live"
      /\ c.status = "evaluating" => AwaitsEvaluation(c, over) /\ m = "live"
      /\ c.status = "materializing" => AwaitsWork(c, over) /\ m = "mock"
      /\ c.status = "submitting" => AwaitsBoard(c, over)
  BY DEF CellFits, AwaitsDecision, CannotPay
<1>6. c.live # None =>
        Sound(c.live) /\ (c.live.pending # None => c.live.tools > 0 /\ c.live.terminal = None)
  <2>1. CASE c.status = "tooling"
    <3>1. Sound(c.live) /\ c.live.tools = c.live.turn + 1 /\ c.live.terminal = None
      BY <1>5, <2>1 DEF AwaitsTool
    <3>2. c.live.turn \in Nat
      BY <3>1 DEF Sound, Loop
    <3> QED
      BY <3>1, <3>2
  <2>2. CASE c.status # "tooling"
    BY <1>2, <1>3, <1>5, <2>2 DEF Early, AwaitsModel, AwaitsEvaluation, AwaitsBoard
  <2> QED
    BY <2>1, <2>2
<1>7. Normal(c) = c
  BY <1>6, AlreadyNormal
<1>8. /\ c.status = "deciding" /\ m = "live" => x.kind = "model"
      /\ c.status = "deciding" /\ m = "mock" => x.kind = "decide"
      /\ c.status = "tooling" => x.kind = "tool"
      /\ c.status = "evaluating" => x.kind = "evaluate"
      /\ c.status = "materializing" => x.kind = "materialize"
      /\ c.status = "submitting" => x.kind = "submit"
      /\ x.generation = c.generation
  BY <1>2, <1>4, <1>5
     DEF Early, AwaitsModel, AwaitsTool, AwaitsEvaluation, AwaitsWork, AwaitsBoard, Action
<1> QED
  BY <1>1, <1>2, <1>3, <1>4, <1>7, <1>8 DEF Early

LEMMA LeastNumber ==
  ASSUME NEW N, N \subseteq Nat, N # {}
  PROVE  \E n \in N : \A k \in N : n <= k
<1>1. PICK n \in N : \A k \in N : <<k, n>> \notin OpToRel(<, Nat)
  BY NatLessThanWellFounded, WFMin
<1>2. \A k \in N : ~(k < n)
  BY <1>1 DEF OpToRel
<1> QED
  BY <1>2

LEMMA VisibleIsCandidate ==
  ASSUME NEW c \in Cell, c.current \in Candidate, NEW id
  PROVE  Visible(c, id) \in Candidate
<1> DEFINE same == {i \in DOMAIN c.visible : c.visible[i].id = id}
           least == CHOOSE i \in same : \A j \in same : i <= j
<1>1. CASE same = {}
  BY <1>1 DEF Visible
<1>2. CASE same # {}
  <2>1. c.visible \in Seq(Candidate)
    BY CellFields
  <2>2. same \subseteq Nat /\ same \subseteq DOMAIN c.visible
    BY <2>1
  <2>3. \E i \in same : \A j \in same : i <= j
    <3> HIDE DEF same
    <3> QED
      BY <1>2, <2>2, LeastNumber
  <2>4. least \in same
    BY <2>3
  <2>5. Visible(c, id) = c.visible[least]
    BY <1>2 DEF Visible
  <2>6. least \in DOMAIN c.visible
    <3> HIDE DEF same, least
    <3> QED
      BY <2>2, <2>4
  <2>7. c.visible[least] \in Candidate
    <3> HIDE DEF same, least, Candidate
    <3> QED
      BY <2>1, <2>6
  <2> QED
    BY <2>5, <2>7
<1> QED
  BY <1>1, <1>2

LEMMA EvaluateFits ==
  ASSUME NEW c \in Cell, NEW budget, NEW over, over \subseteq Asked, NEW x \in Asked,
         c.generation > 0, c.current \in Candidate,
         Unspent(c, budget), AwaitsModel(c, over), x = c.expected,
         NEW call, call.name \in {"finalize_candidate", "challenge_candidate"},
         BehaviorOf(call) \in Behaviors, Cost[BehaviorOf(call)] <= c.credits, NEW id \in Ids
  PROVE  /\ StepFits(Evaluate(c, call, id), c, {x}, over, {x}, "live", budget)
         /\ Evaluate(c, call, id).cell.status = "evaluating"
<1> DEFINE behavior == BehaviorOf(call)
           paid == Charge(c, behavior)
           terminal == [name |-> call.name, id |-> id]
           loop == [c.live EXCEPT !.terminal = terminal]
           charged == [paid EXCEPT !.live = loop]
           action == Action("evaluate", c.generation, 0)
           step == Evaluate(c, call, id)
<1>1. c.generation \in Nat /\ c.credits \in Int
  BY CellFields
<1>2. /\ Sound(c.live) /\ c.live \in Loop /\ c.live.pending = None
      /\ \A y \in over : y.kind \in {"model", "tool"}
      /\ x.kind = "model"
  BY <1>1 DEF AwaitsModel, Sound, Action
<1>3. /\ paid \in Cell
      /\ paid.behavior = behavior /\ paid.credits = c.credits - Cost[behavior]
      /\ paid.generation = c.generation /\ paid.current = c.current
      /\ paid.visible = c.visible /\ paid.live = c.live
  BY Charged
<1>4. terminal \in Terminal /\ terminal.id = id
  BY Numbers DEF Terminal
<1>5. terminal # None
  BY <1>4, NoneApart
<1> HIDE DEF terminal
<1>6. loop \in Loop /\ Sound(loop) /\ loop.pending = None /\ loop.terminal = terminal
  BY <1>2, <1>4 DEF Sound, Loop
<1> HIDE DEF loop, paid
<1>7. /\ charged \in Cell
      /\ charged.behavior = behavior /\ charged.credits = c.credits - Cost[behavior]
      /\ charged.generation = c.generation /\ charged.current = c.current
      /\ charged.visible = c.visible /\ charged.live = loop
  BY <1>3, <1>6, Looping
<1>8. action \in Asked /\ action.kind = "evaluate"
  BY <1>1, Actions
<1>9. step = Await(charged, "evaluating", action)
  BY <1>3 DEF Evaluate, paid, loop, terminal
<1> HIDE DEF charged
<1>10. /\ step.action = action /\ step.cell \in Cell
       /\ step.cell.status = "evaluating" /\ step.cell.expected = action
       /\ step.cell.generation = c.generation /\ step.cell.current = c.current
       /\ step.cell.credits = c.credits - Cost[behavior] /\ step.cell.behavior = behavior
       /\ step.cell.visible = c.visible /\ step.cell.live = loop
  BY <1>7, <1>8, <1>9, Awaited DEF Statuses
<1> DEFINE running == NowOpen(step, {x}, over, {x})
           now == NowClosed(step, over, {x})
<1> HIDE DEF step, action
<1>11. /\ running = {action} /\ running \subseteq Asked
       /\ now \subseteq over \cup {x} /\ now \subseteq Asked
  BY <1>2, <1>8, <1>10, NoneApart DEF NowOpen, NowClosed
<1>12. AwaitsEvaluation(step.cell, now)
  BY <1>2, <1>4, <1>5, <1>6, <1>10, <1>11 DEF AwaitsEvaluation, Kinds, action
<1>13. Paid(step.cell, budget)
  BY <1>1, <1>10, Costs DEF Paid, Unspent
<1>14. CellFits(step.cell, running, now, "live", budget)
  <2>1. step.cell.live # None
    BY <1>6, <1>10, NoneApart
  <2> QED
    BY <1>10, <1>11, <1>12, <1>13, <2>1 DEF CellFits, Early
<1> QED
  BY <1>10, <1>11, <1>14 DEF StepFits, step

LEMMA WaitsFits ==
  ASSUME NEW c \in Cell, NEW budget, NEW over, over \subseteq Asked, NEW x \in Asked,
         c.generation > 0, c.current \in Candidate,
         Unspent(c, budget), AwaitsModel(c, over), x = c.expected
  PROVE  /\ StepFits(Waits(c), c, {x}, over, {x}, "live", budget)
         /\ Waits(c).cell.status = "submitting"
<1> DEFINE paid == Charge(c, "wait")
<1>1. /\ Sound(c.live) /\ c.live # None /\ c.live.pending = None
      /\ \A y \in over : y.kind # "submit"
      /\ x.kind # "submit"
  BY NoneApart DEF AwaitsModel, Sound, Action
<1>2. /\ paid \in Cell
      /\ paid.behavior = "wait" /\ paid.credits = c.credits - Cost["wait"]
      /\ paid.generation = c.generation /\ paid.current = c.current
      /\ paid.visible = c.visible /\ paid.live = c.live
  BY Charged, Costs
<1> HIDE DEF paid
<1>3. Paid(paid, budget)
  BY <1>2, Costs, CellFields DEF Paid, Unspent
<1>4. /\ StepFits(Submit(paid), paid, {x}, over, {x}, "live", budget)
      /\ Submit(paid).cell.status = "submitting"
  BY <1>1, <1>2, <1>3, SubmitFits
<1> QED
  BY <1>2, <1>4 DEF StepFits, Waits, paid

LEMMA AdoptFits ==
  ASSUME NEW c \in Cell, NEW m, NEW budget, NEW over, over \subseteq Asked, NEW x \in Asked,
         c.generation > 0, c.current \in Candidate, Unspent(c, budget),
         Cost["adopt"] <= c.credits, NEW candidate \in Candidate,
         c.live # None <=> m = "live", c.live # None => Sound(c.live) /\ c.live.pending = None,
         x.kind # "submit", \A y \in over : y.kind # "submit"
  PROVE  LET step == Submit([Charge(c, "adopt") EXCEPT !.current = candidate]) IN
         StepFits(step, c, {x}, over, {x}, m, budget) /\ step.cell.status = "submitting"
<1> DEFINE paid == Charge(c, "adopt")
           with == [paid EXCEPT !.current = candidate]
<1>1. /\ paid \in Cell
      /\ paid.behavior = "adopt" /\ paid.credits = c.credits - Cost["adopt"]
      /\ paid.generation = c.generation
      /\ paid.visible = c.visible /\ paid.live = c.live
  BY Charged, Costs
<1> HIDE DEF paid
<1>2. /\ with \in Cell
      /\ with.behavior = "adopt" /\ with.credits = c.credits - Cost["adopt"]
      /\ with.generation = c.generation /\ with.current = candidate
      /\ with.visible = c.visible /\ with.live = c.live
  BY <1>1, Held
<1> HIDE DEF with
<1>3. Paid(with, budget)
  BY <1>2, Costs, CellFields DEF Paid, Unspent
<1>4. /\ StepFits(Submit(with), with, {x}, over, {x}, m, budget)
      /\ Submit(with).cell.status = "submitting"
  BY <1>2, <1>3, SubmitFits
<1> QED
  BY <1>2, <1>4 DEF StepFits, with, paid

LEMMA CallToolFits ==
  ASSUME NEW c \in Cell, NEW budget, NEW over, over \subseteq Asked, NEW x \in Asked,
         c.generation > 0, c.current \in Candidate,
         Unspent(c, budget), AwaitsModel(c, over), x = c.expected,
         NEW call, call.name \in NonTerminal, ~NoMoreTools(c)
  PROVE  /\ StepFits(CallTool(c, call), c, {x}, over, {x}, "live", budget)
         /\ CallTool(c, call).cell.status = "tooling"
<1> DEFINE name == call.name
           count == c.live.tools + 1
           loop == [c.live EXCEPT !.tools = count, !.pending = name]
           called == [c EXCEPT !.live = loop]
           action == Action("tool", c.generation, c.live.tools)
           step == CallTool(c, call)
<1>1. c.generation \in Nat
  BY CellFields
<1>2. /\ Sound(c.live) /\ c.live \in Loop /\ c.live.terminal = None
      /\ c.live.tools = c.live.turn /\ c.live.turn \in Nat
      /\ \A y \in over : y.kind \in {"model", "tool"} /\ y.n < c.live.turn
      /\ x.kind = "model" /\ x.n = c.live.turn
  BY <1>1 DEF AwaitsModel, Sound, Action, Loop
<1>3. c.live.turn + 1 < MaxModelTurns /\ c.live.tools + 1 <= MaxToolCalls
  BY <1>2, Numbers DEF NoMoreTools
<1>4. name # None /\ name \in NonTerminal
  BY NoneApart
<1>15. count \in Nat /\ count = c.live.turn + 1
  BY <1>2
<1> HIDE DEF name, count
<1>5. /\ loop \in Loop /\ loop.draft = c.live.draft /\ loop.turn = c.live.turn
      /\ loop.tools = c.live.turn + 1 /\ loop.pending = name /\ loop.terminal = None
  BY <1>2, <1>4, <1>15 DEF Loop
<1> HIDE DEF loop
<1>6. Sound(loop)
  BY <1>2, <1>3, <1>5, Numbers DEF Sound
<1>7. /\ called \in Cell
      /\ called.behavior = c.behavior /\ called.credits = c.credits
      /\ called.generation = c.generation /\ called.current = c.current
      /\ called.visible = c.visible /\ called.live = loop
  BY <1>5, Looping
<1>8. action \in Asked /\ action = Action("tool", c.generation, c.live.turn)
      /\ action.kind = "tool" /\ action.n = c.live.turn
  BY <1>1, <1>2, Actions
<1>9. step = Await(called, "tooling", action)
  BY DEF CallTool, name, loop, count
<1> HIDE DEF called, action
<1>10. /\ step.action = action /\ step.cell \in Cell
       /\ step.cell.status = "tooling" /\ step.cell.expected = action
       /\ step.cell.generation = c.generation /\ step.cell.current = c.current
       /\ step.cell.credits = c.credits /\ step.cell.behavior = c.behavior
       /\ step.cell.visible = c.visible /\ step.cell.live = loop
  BY <1>7, <1>8, <1>9, Awaited DEF Statuses
<1> DEFINE running == NowOpen(step, {x}, over, {x})
           now == NowClosed(step, over, {x})
<1> HIDE DEF step
<1>11. action # x /\ action \notin over
  BY <1>2, <1>8
<1>12. /\ running = {action} /\ running \subseteq Asked
       /\ now \subseteq over \cup {x} /\ now \subseteq Asked
  BY <1>8, <1>10, <1>11, NoneApart DEF NowOpen, NowClosed
<1>13. AwaitsTool(step.cell, now)
  <2>1. \A y \in now : \/ y.kind = "model" /\ y.n <= c.live.turn
                       \/ y.kind = "tool" /\ y.n < c.live.turn
    <3> HIDE DEF now, running
    <3> TAKE y \in now
    <3>0. y.n \in Nat
      BY <1>12 DEF Asked
    <3>1. CASE y = x
      BY <1>2, <3>1
    <3>2. CASE y \in over
      BY <1>2, <3>0, <3>2
    <3> QED
      BY <1>12, <3>1, <3>2
  <2> QED
    BY <1>3, <1>2, <1>4, <1>5, <1>6, <1>8, <1>10, <2>1 DEF AwaitsTool
<1>14. CellFits(step.cell, running, now, "live", budget)
  <2>1. step.cell.live # None
    BY <1>5, <1>10, NoneApart
  <2> QED
    BY <1>10, <1>12, <1>13, <2>1 DEF CellFits, Early, Unspent
<1> QED
  BY <1>10, <1>12, <1>14 DEF StepFits, step

(* The answer of a model: any call a model may make. *)
LEMMA CallsOf ==
  ASSUME NEW call \in Calls
  PROVE  /\ call.id \in Ids
         /\ call.name \in {"wait", "run_public_checks", "finalize_candidate", "read_candidate",
                           "adopt_candidate", "challenge_candidate"}
         /\ BehaviorOf(call) \in Behaviors
         /\ call.name = "adopt_candidate" => BehaviorOf(call) = "adopt"
<1>1. /\ call.name \in {"wait", "run_public_checks", "finalize_candidate", "read_candidate",
                          "adopt_candidate", "challenge_candidate"}
      /\ call.id \in Ids
      /\ call.name = "finalize_candidate" => call.behavior \in {"explore", "improve"}
  BY Numbers DEF Calls, Call
<1>2. BehaviorOf(call) \in Behaviors
  BY <1>1, Costs DEF BehaviorOf
<1>3. call.name = "adopt_candidate" => BehaviorOf(call) = "adopt"
  BY DEF BehaviorOf
<1> QED
  BY <1>1, <1>2, <1>3

LEMMA ModelFits ==
  ASSUME NEW c \in Cell, NEW m \in {"live", "mock"}, NEW budget,
         NEW running, NEW over, over \subseteq Asked, running \subseteq Asked,
         CellFits(c, running, over, m, budget), NEW x \in running,
         x.kind = "model", NEW call \in Calls
  PROVE  LET step == Delivered(c, x, call) IN
         /\ StepFits(step, c, running, over, {x}, m, budget)
         /\ c.status = "deciding"
         /\ step.cell.status \in {"tooling", "evaluating", "submitting"}
<1>1. /\ running = {x} /\ c.expected = x /\ x \in Asked
      /\ c.generation > 0 /\ c.current \in Candidate
      /\ m = "live" /\ c.live # None /\ Normal(c) = c /\ c.status = "deciding"
  BY InFlight
<1>2. Unspent(c, budget) /\ AwaitsModel(c, over)
  BY <1>1 DEF CellFits
<1>3. Delivered(c, x, call) = FunctionCalled(c, call)
  BY <1>1 DEF Delivered, LiveDelivered, ExpectedKind
<1>4. CASE Rejected(c, call) \/ call.name = "wait"
  <2>1. FunctionCalled(c, call) = Waits(c)
    BY <1>4 DEF FunctionCalled, NonTerminal
  <2> QED
    BY <1>1, <1>2, <1>3, <2>1, WaitsFits
<1>5. CASE ~Rejected(c, call) /\ call.name \in NonTerminal
  <2>1. FunctionCalled(c, call) = CallTool(c, call) /\ ~NoMoreTools(c)
    BY <1>5 DEF FunctionCalled, NonTerminal, Rejected
  <2> QED
    BY <1>1, <1>2, <1>3, <1>5, <2>1, CallToolFits
<1>6. ASSUME ~Rejected(c, call), call.name \in {"finalize_candidate", "challenge_candidate"}
      PROVE  LET step == Delivered(c, x, call) IN
             /\ StepFits(step, c, running, over, {x}, m, budget)
             /\ step.cell.status = "evaluating"
  <2> DEFINE id == IF call.name = "finalize_candidate" THEN c.live.draft ELSE call.id
  <2>1. FunctionCalled(c, call) = Evaluate(c, call, id)
    BY <1>6 DEF FunctionCalled, NonTerminal
  <2>2. id \in Ids
    BY <1>2, <1>6, CallsOf, Numbers DEF Rejected, AwaitsModel, Sound
  <2>3. ~(Cost[BehaviorOf(call)] > c.credits) /\ BehaviorOf(call) \in Behaviors
    BY <1>6, CallsOf DEF Rejected
  <2>4. Cost[BehaviorOf(call)] <= c.credits
    BY <2>3, Costs, CellFields
  <2> HIDE DEF id
  <2> QED
    BY <1>1, <1>2, <1>3, <1>6, <2>1, <2>2, <2>3, <2>4, EvaluateFits
<1>7. CASE ~Rejected(c, call) /\ call.name = "adopt_candidate"
  <2> DEFINE candidate == Visible(c, call.id)
  <2>1. FunctionCalled(c, call) = Submit([Charge(c, "adopt") EXCEPT !.current = candidate])
    BY <1>7 DEF FunctionCalled, NonTerminal
  <2>2. candidate \in Candidate
    BY <1>1, VisibleIsCandidate
  <2>3. ~(Cost["adopt"] > c.credits) /\ Cost["adopt"] \in Nat
    BY <1>7, CallsOf, Costs DEF Rejected
  <2>4. Cost["adopt"] <= c.credits
    BY <2>3, CellFields
  <2>5. /\ Sound(c.live) /\ c.live.pending = None
        /\ x.kind # "submit" /\ \A y \in over : y.kind # "submit"
    BY <1>2 DEF AwaitsModel
  <2> HIDE DEF candidate
  <2>6. c.live # None <=> m = "live"
    BY <1>1
  <2> DEFINE step == Submit([Charge(c, "adopt") EXCEPT !.current = candidate])
  <2>7. StepFits(step, c, {x}, over, {x}, m, budget) /\ step.cell.status = "submitting"
    BY <1>1, <1>2, <2>2, <2>4, <2>5, <2>6, AdoptFits
  <2> QED
    BY <1>1, <1>3, <2>1, <2>7
<1> QED
  BY <1>1, <1>4, <1>5, <1>6, <1>7, CallsOf DEF NonTerminal

(* The answer of a tool brings the next turn of the model. *)
LEMMA ToolFits ==
  ASSUME NEW c \in Cell, NEW m \in {"live", "mock"}, NEW budget,
         NEW running, NEW over, over \subseteq Asked, running \subseteq Asked,
         CellFits(c, running, over, m, budget), NEW x \in running,
         x.kind = "tool", NEW result \in [id : Drafts, pass : BOOLEAN]
  PROVE  LET step == Delivered(c, x, result) IN
         /\ StepFits(step, c, running, over, {x}, m, budget)
         /\ c.status = "tooling" /\ step.cell.status = "deciding"
<1> DEFINE turn == c.live.turn + 1
           draft == DraftAfter(c, result)
           loop == [c.live EXCEPT !.turn = turn, !.pending = None, !.draft = draft]
           next == [c EXCEPT !.live = loop]
           action == Action("model", c.generation, turn)
           step == Delivered(c, x, result)
<1>1. /\ running = {x} /\ c.expected = x /\ x \in Asked /\ c.generation \in Nat
      /\ c.generation > 0 /\ c.current \in Candidate
      /\ m = "live" /\ c.live # None /\ Normal(c) = c /\ c.status = "tooling"
  <2>1. c.status = "tooling"
    BY InFlight
  <2>2. m = "live"
    BY <2>1 DEF CellFits
  <2> QED
    BY <2>1, <2>2, InFlight
<1>2. Unspent(c, budget) /\ AwaitsTool(c, over)
  BY <1>1 DEF CellFits
<1>3. /\ Sound(c.live) /\ c.live \in Loop /\ c.live.pending # None /\ c.live.terminal = None
      /\ c.live.turn \in Nat /\ turn < MaxModelTurns /\ c.live.tools = turn
      /\ x.kind = "tool" /\ x.n = c.live.turn
  BY <1>1, <1>2 DEF AwaitsTool, Sound, Loop, Action
<1>4. draft \in Drafts \cup {None} /\ draft \in Nat \cup {None} /\ turn \in Nat
  <2>1. draft \in Drafts \cup {None}
    BY <1>3 DEF DraftAfter, Sound
  <2> HIDE DEF draft
  <2>2. draft \in Nat \cup {None}
    BY <2>1, Numbers
  <2>3. turn \in Nat
    BY <1>3
  <2> QED
    BY <2>1, <2>2, <2>3
<1>5. step = ModelTurn(next)
  <2>1. step = ToolDelivered(c, result)
    BY <1>1 DEF Delivered, LiveDelivered, ExpectedKind
  <2>2. ~(c.live.pending = None \/ c.live.turn + 1 >= MaxModelTurns)
    BY <1>3, Numbers
  <2>3. ToolDelivered(c, result) = ModelTurn(next)
    BY <2>2 DEF ToolDelivered
  <2> QED
    BY <2>1, <2>3
<1> HIDE DEF turn, draft
<1>6. /\ loop \in Loop /\ loop.draft = draft /\ loop.turn = turn /\ loop.pending = None
      /\ loop.tools = turn /\ loop.terminal = None
  BY <1>3, <1>4 DEF Loop
<1> HIDE DEF loop
<1>7. Sound(loop)
  BY <1>3, <1>4, <1>6 DEF Sound
<1>8. /\ next \in Cell
      /\ next.behavior = c.behavior /\ next.credits = c.credits
      /\ next.generation = c.generation /\ next.current = c.current
      /\ next.visible = c.visible /\ next.live = loop
  BY <1>6, Looping
<1>9. action \in Asked /\ action.kind = "model" /\ action.n = turn
  BY <1>1, <1>4, Actions
<1> HIDE DEF next
<1>10. step = Await(next, "deciding", action)
  BY <1>5, <1>6, <1>8 DEF ModelTurn
<1> HIDE DEF action
<1>11. /\ step.action = action /\ step.cell \in Cell
       /\ step.cell.status = "deciding" /\ step.cell.expected = action
       /\ step.cell.generation = c.generation /\ step.cell.current = c.current
       /\ step.cell.credits = c.credits /\ step.cell.behavior = c.behavior
       /\ step.cell.visible = c.visible /\ step.cell.live = loop
  BY <1>8, <1>9, <1>10, Awaited DEF Statuses
<1> DEFINE open1 == NowOpen(step, {x}, over, {x})
           now == NowClosed(step, over, {x})
<1> HIDE DEF step
<1>12. \A y \in over \cup {x} : y.kind \in {"model", "tool"} /\ y.n < turn
  <2> TAKE y \in over \cup {x}
  <2>1. y.n \in Nat
    BY <1>1 DEF Asked
  <2> QED
    BY <1>2, <1>3, <2>1 DEF AwaitsTool, turn
<1>13. action # x /\ action \notin over
  BY <1>4, <1>9, <1>12
<1>14. /\ open1 = {action} /\ open1 \subseteq Asked
       /\ now \subseteq over \cup {x} /\ now \subseteq Asked
  BY <1>1, <1>9, <1>11, <1>13, NoneApart DEF NowOpen, NowClosed
<1>15. AwaitsModel(step.cell, now)
  BY <1>6, <1>7, <1>9, <1>11, <1>12, <1>14 DEF AwaitsModel, action
<1>16. CellFits(step.cell, open1, now, m, budget)
  <2>1. step.cell.live # None
    BY <1>6, <1>11, NoneApart
  <2> QED
    BY <1>1, <1>2, <1>11, <1>14, <1>15, <2>1 DEF CellFits, Early, Unspent
<1> QED
  BY <1>1, <1>11, <1>14, <1>16 DEF StepFits, step

(* The evaluator measured the candidate that the cell ended its loop with. *)
Measures(candidate, c) == candidate.id = c.live.terminal.id

(* What an evaluation shows is submitted. *)
LEMMA EvaluationFits ==
  ASSUME NEW c \in Cell, NEW m \in {"live", "mock"}, NEW budget,
         NEW running, NEW over, over \subseteq Asked, running \subseteq Asked,
         CellFits(c, running, over, m, budget), NEW x \in running,
         x.kind = "evaluate", NEW candidate \in Candidate, Measures(candidate, c)
  PROVE  LET step == Delivered(c, x, candidate) IN
         /\ StepFits(step, c, running, over, {x}, m, budget)
         /\ c.status = "evaluating" /\ step.cell.status = "submitting"
<1> DEFINE shown == Evaluation(c, candidate)
           loop == [c.live EXCEPT !.terminal = None]
           with == [c EXCEPT !.current = shown]
           next == [with EXCEPT !.live = loop]
<1>1. /\ running = {x} /\ c.expected = x /\ x \in Asked /\ c.generation \in Nat
      /\ c.generation > 0 /\ c.current \in Candidate
      /\ m = "live" /\ c.live # None /\ Normal(c) = c /\ c.status = "evaluating"
  <2>1. c.status = "evaluating"
    BY InFlight
  <2>2. m = "live"
    BY <2>1 DEF CellFits
  <2> QED
    BY <2>1, <2>2, InFlight
<1>2. Paid(c, budget) /\ AwaitsEvaluation(c, over)
  BY <1>1 DEF CellFits
<1>3. /\ Sound(c.live) /\ c.live \in Loop /\ c.live.pending = None /\ c.live.terminal # None
      /\ \A y \in over : y.kind \in {"model", "tool"}
  BY <1>2 DEF AwaitsEvaluation, Sound, Kinds
<1>4. shown \in Candidate
  BY <1>1 DEF Evaluation
<1>5. Delivered(c, x, candidate) = Submit(next)
  <2>1. Delivered(c, x, candidate) = EvaluationDelivered(c, candidate)
    BY <1>1 DEF Delivered, LiveDelivered, ExpectedKind
  <2> QED
    BY <1>3, <2>1 DEF EvaluationDelivered, Measures
<1> HIDE DEF shown
<1>6. loop \in Loop /\ Sound(loop) /\ loop.pending = None
  BY <1>3 DEF Sound, Loop
<1> HIDE DEF loop
<1>7. /\ with \in Cell
      /\ with.current = shown /\ with.credits = c.credits /\ with.behavior = c.behavior
      /\ with.generation = c.generation /\ with.visible = c.visible
  BY <1>4, Held
<1> HIDE DEF with
<1>8. /\ next \in Cell
      /\ next.behavior = c.behavior /\ next.credits = c.credits
      /\ next.generation = c.generation /\ next.current = shown
      /\ next.visible = c.visible /\ next.live = loop
  BY <1>6, <1>7, Looping
<1> HIDE DEF next
<1>9. Paid(next, budget) /\ next.live # None
  BY <1>2, <1>6, <1>8, NoneApart DEF Paid
<1>10. /\ StepFits(Submit(next), next, {x}, over, {x}, m, budget)
       /\ Submit(next).cell.status = "submitting"
  BY <1>1, <1>3, <1>4, <1>6, <1>8, <1>9, SubmitFits
<1> QED
  BY <1>1, <1>5, <1>8, <1>10 DEF StepFits

(* The mock services: a decision, which the cell may be unable to pay ... *)
LEMMA DecisionOf ==
  ASSUME NEW c PROVE Decision(c).behavior \in {"wait", "adopt", "explore", "improve"}
BY DEF Decision

LEMMA DecisionFits ==
  ASSUME NEW c \in Cell, NEW m \in {"live", "mock"}, NEW budget,
         NEW running, NEW over, over \subseteq Asked, running \subseteq Asked,
         CellFits(c, running, over, m, budget), NEW x \in running,
         x.kind = "decide"
  PROVE  LET step == Delivered(c, x, Decision(c)) IN
         /\ StepFits(step, c, running, over, {x}, m, budget)
         /\ c.status = "deciding"
         /\ step.cell.status \in {"deciding", "materializing", "submitting"}
<1> DEFINE decision == Decision(c)
           behavior == decision.behavior
           paid == Charge(c, behavior)
           step == Delivered(c, x, Decision(c))
           open1 == NowOpen(step, {x}, over, {x})
           now == NowClosed(step, over, {x})
<1>1. /\ running = {x} /\ c.expected = x /\ x \in Asked /\ c.generation \in Nat
      /\ c.generation > 0 /\ c.current \in Candidate /\ x.generation = c.generation
      /\ m # "live" /\ c.live = None /\ Normal(c) = c /\ c.status = "deciding"
  BY InFlight
<1>2. Unspent(c, budget) /\ over = {} /\ x = Action("decide", c.generation, 0)
  BY <1>1 DEF CellFits, CannotPay, AwaitsDecision
<1>3. step = Decided(c, decision)
  BY <1>1 DEF Delivered, MockDelivered
<1>4. behavior \in {"wait", "adopt", "explore", "improve"}
  BY DecisionOf
<1>5. c.credits \in Int /\ Cost[behavior] \in Nat /\ behavior \in Behaviors
  BY <1>4, CellFields, Costs
<1>6. CASE Cost[behavior] > c.credits
  <2>1. step = Keep(c)
    BY <1>3, <1>6 DEF Decided, Throws
  <2>2. step.cell = c /\ step.action = None
    BY <2>1 DEF Keep
  <2> HIDE DEF step
  <2>3. open1 = {} /\ now = {x}
    BY <1>1, <1>2, <2>2 DEF NowOpen, NowClosed
  <2> HIDE DEF open1, now
  <2>4. CannotPay(c, open1, now)
    BY <1>1, <1>2, <1>6, <2>3 DEF CannotPay
  <2>5. CellFits(c, open1, now, m, budget)
    BY <1>1, <1>2, <2>4 DEF CellFits, Early
  <2> QED
    BY <1>1, <2>2, <2>3, <2>5 DEF StepFits, step, open1, now
<1>7. CASE ~(Cost[behavior] > c.credits)
  <2>1. /\ paid \in Cell
        /\ paid.behavior = behavior /\ paid.credits = c.credits - Cost[behavior]
        /\ paid.generation = c.generation /\ paid.current = c.current
        /\ paid.visible = c.visible /\ paid.live = c.live
    BY <1>5, Charged
  <2>2. Paid(paid, budget)
    BY <1>2, <1>5, <1>7, <2>1 DEF Paid, Unspent
  <2>3. x.kind # "submit" /\ \A y \in over : y.kind # "submit"
    BY <1>2
  <2>4. c.live # None <=> m = "live"
    BY <1>1
  <2>5. CASE behavior = "wait"
    <3>1. step = Submit(paid)
      BY <1>3, <1>7, <2>5 DEF Decided
    <3> HIDE DEF paid
    <3>2. /\ StepFits(Submit(paid), paid, {x}, over, {x}, m, budget)
          /\ Submit(paid).cell.status = "submitting"
      BY <1>1, <2>1, <2>2, <2>3, <2>4, SubmitFits
    <3> QED
      BY <1>1, <2>1, <3>1, <3>2 DEF StepFits
  <2>6. CASE behavior = "adopt"
    <3> DEFINE candidate == Visible(c, decision.target)
    <3>1. step = Submit([Charge(c, "adopt") EXCEPT !.current = candidate])
      BY <1>3, <1>7, <2>6 DEF Decided
    <3>2. candidate \in Candidate /\ Cost["adopt"] <= c.credits
      BY <1>1, <1>5, <1>7, <2>6, VisibleIsCandidate
    <3> HIDE DEF candidate
    <3> DEFINE adopted == Submit([Charge(c, "adopt") EXCEPT !.current = candidate])
    <3>3. /\ StepFits(adopted, c, {x}, over, {x}, m, budget)
          /\ adopted.cell.status = "submitting"
      BY <1>1, <1>2, <2>3, <2>4, <3>2, AdoptFits
    <3> QED
      BY <1>1, <3>1, <3>3
  <2>7. CASE behavior \in {"explore", "improve"}
    <3> DEFINE action == Action("materialize", c.generation, 0)
    <3>1. step = Await(paid, "materializing", action)
      BY <1>3, <1>7, <2>7 DEF Decided
    <3>2. action \in Asked /\ action.kind = "materialize" /\ x.kind = "decide"
      BY <1>1, Actions
    <3> HIDE DEF paid, action
    <3>3. /\ step.action = action /\ step.cell \in Cell
          /\ step.cell.status = "materializing" /\ step.cell.expected = action
          /\ step.cell.generation = c.generation /\ step.cell.current = c.current
          /\ step.cell.credits = paid.credits /\ step.cell.behavior = behavior
          /\ step.cell.visible = c.visible /\ step.cell.live = c.live
      BY <2>1, <3>1, <3>2, Awaited DEF Statuses
    <3> HIDE DEF step
    <3>4. /\ open1 = {action} /\ open1 \subseteq Asked /\ now \subseteq {x} /\ now \subseteq Asked
      BY <1>1, <1>2, <3>2, <3>3, NoneApart DEF NowOpen, NowClosed
    <3>5. AwaitsWork(step.cell, now)
      BY <3>2, <3>3, <3>4 DEF AwaitsWork, Kinds, action
    <3>6. Paid(step.cell, budget)
      BY <2>1, <2>2, <3>3 DEF Paid
    <3>7. CellFits(step.cell, open1, now, m, budget)
      BY <1>1, <3>3, <3>4, <3>5, <3>6 DEF CellFits, Early
    <3> QED
      BY <1>1, <3>3, <3>4, <3>7 DEF StepFits, step
  <2> QED
    BY <1>4, <2>5, <2>6, <2>7
<1> QED
  BY <1>6, <1>7

(* ... and its work. *)
LEMMA WorkFits ==
  ASSUME NEW c \in Cell, NEW m \in {"live", "mock"}, NEW budget,
         NEW running, NEW over, over \subseteq Asked, running \subseteq Asked,
         CellFits(c, running, over, m, budget), NEW x \in running,
         x.kind = "materialize", NEW candidate \in Candidate
  PROVE  LET step == Delivered(c, x, candidate) IN
         /\ StepFits(step, c, running, over, {x}, m, budget)
         /\ c.status = "materializing" /\ step.cell.status = "submitting"
<1> DEFINE with == [c EXCEPT !.current = candidate]
<1>1. /\ running = {x} /\ c.expected = x /\ x \in Asked /\ c.generation > 0
      /\ Normal(c) = c /\ c.status = "materializing" /\ (c.live # None <=> m = "live")
  BY InFlight
<1>2. m # "live" /\ c.live = None /\ Paid(c, budget) /\ AwaitsWork(c, over)
  BY <1>1 DEF CellFits
<1>3. Delivered(c, x, candidate) = Submit(with)
  BY <1>1, <1>2 DEF Delivered, MockDelivered, Worked
<1>4. /\ with \in Cell
      /\ with.current = candidate /\ with.credits = c.credits /\ with.behavior = c.behavior
      /\ with.generation = c.generation /\ with.visible = c.visible /\ with.live = c.live
  BY Held
<1> HIDE DEF with
<1>5. Paid(with, budget)
  BY <1>2, <1>4 DEF Paid
<1>6. \A y \in over : y.kind # "submit"
  BY <1>2 DEF AwaitsWork, Kinds
<1>7. /\ StepFits(Submit(with), with, {x}, over, {x}, m, budget)
      /\ Submit(with).cell.status = "submitting"
  <2>1. /\ with.live # None <=> m = "live"
        /\ with.live # None => Sound(with.live) /\ with.live.pending = None
        /\ with.generation > 0 /\ with.current \in Candidate /\ x.kind # "submit"
    BY <1>1, <1>2, <1>4
  <2> QED
    BY <1>1, <1>4, <1>5, <1>6, <2>1, SubmitFits
<1> QED
  BY <1>1, <1>3, <1>4, <1>7 DEF StepFits

(* The board has taken the submission.                                       *)
LEMMA SubmittedFits ==
  ASSUME NEW c \in Cell, NEW m \in {"live", "mock"}, NEW budget,
         NEW running, NEW over, over \subseteq Asked, running \subseteq Asked,
         CellFits(c, running, over, m, budget), NEW x \in running, x.kind = "submit"
  PROVE  LET step == Delivered(c, x, None) IN
         /\ StepFits(step, c, running, over, {x}, m, budget)
         /\ c.status = "submitting" /\ step.cell.status = "waiting"
         /\ Paid(c, budget) /\ View(step.cell) = View(c)
         /\ step.cell.visible = <<>>
<1> DEFINE step == Delivered(c, x, None)
           done == [c EXCEPT !.status = "waiting", !.expected = None, !.visible = <<>>,
                             !.live = None]
<1>1. /\ running = {x} /\ c.expected = x /\ c.generation > 0 /\ c.current \in Candidate
      /\ Normal(c) = c /\ c.status = "submitting"
  BY InFlight
<1>2. Paid(c, budget)
  BY <1>1 DEF CellFits
<1>3. step = Keep(done)
  BY <1>1 DEF Delivered, LiveDelivered, MockDelivered, ExpectedKind, Submitted
<1>4. step.cell = done /\ step.action = None
  BY <1>3 DEF Keep
<1>5. /\ done \in Cell /\ done.status = "waiting" /\ done.expected = None
      /\ done.visible = <<>> /\ done.live = None /\ done.generation = c.generation
      /\ done.current = c.current /\ done.credits = c.credits /\ done.behavior = c.behavior
  <2> DEFINE none == <<>>
             emptied == [c EXCEPT !.visible = none, !.live = None]
  <2>1. none \in Seq(Candidate)
    OBVIOUS
  <2> HIDE DEF none
  <2>2. /\ emptied \in Cell /\ emptied.visible = none /\ emptied.live = None
        /\ emptied.generation = c.generation /\ emptied.current = c.current
        /\ emptied.credits = c.credits /\ emptied.behavior = c.behavior
    BY <2>1 DEF Cell
  <2>3. done = [emptied EXCEPT !.status = "waiting", !.expected = None]
    BY DEF Cell, none
  <2> HIDE DEF emptied, done
  <2> QED
    BY <2>2, <2>3, ZenonT(60) DEF Cell, Statuses, none
<1> HIDE DEF done, step
<1>6. NowOpen(step, {x}, over, {x}) = {} /\ NowClosed(step, over, {x}) = {}
  BY <1>4, <1>5 DEF NowOpen, NowClosed
<1>7. CellFits(done, {}, {}, m, budget)
  BY <1>1, <1>2, <1>5 DEF CellFits, Early, Paid
<1>8. View(done) = View(c)
  BY <1>5 DEF View
<1> QED
  BY <1>1, <1>2, <1>4, <1>5, <1>6, <1>7, <1>8 DEF StepFits, step

(* An action without an answer that makes sense fails the cell.              *)
LEMMA FailureFits ==
  ASSUME NEW c \in Cell, NEW m \in {"live", "mock"}, NEW budget,
         NEW running, NEW over, over \subseteq Asked, running \subseteq Asked,
         CellFits(c, running, over, m, budget), NEW x \in running
  PROVE  LET step == ActionFailed(c, x) IN
         /\ StepFits(step, c, running, over, {x}, m, budget)
         /\ step.cell.status = "failed"
<1> DEFINE step == ActionFailed(c, x)
           lost == [c EXCEPT !.status = "failed", !.expected = None]
<1>1. /\ running = {x} /\ c.expected = x /\ x \in Asked
      /\ c.generation > 0 /\ c.current \in Candidate /\ Normal(c) = c
  BY InFlight
<1>2. step.cell = lost /\ step.action = None
  BY <1>1 DEF ActionFailed, Fail, Keep
<1>3. /\ lost \in Cell /\ lost.status = "failed" /\ lost.expected = None
      /\ lost.visible = c.visible /\ lost.generation = c.generation /\ lost.current = c.current
  BY DEF Cell, Statuses
<1> HIDE DEF lost, step
<1>4. NowOpen(step, {x}, over, {x}) = {} /\ NowClosed(step, over, {x}) \subseteq Asked
  BY <1>1, <1>2 DEF NowOpen, NowClosed
<1>5. CellFits(lost, {}, NowClosed(step, over, {x}), m, budget)
  BY <1>1, <1>3 DEF CellFits, Early
<1> QED
  BY <1>1, <1>2, <1>3, <1>4, <1>5 DEF StepFits, step

(* A cell at rest opens the generation it is asked for.                      *)
LEMMA OpeningFits ==
  ASSUME NEW c \in Cell, c.expected = None, c.live = None,
         NEW m \in {"live", "mock"}, NEW g \in Gens, g > c.generation,
         NEW candidate \in Candidate, NEW credits \in Int, credits >= 0,
         NEW visible \in Seq(Candidate),
         NEW observation, observation = [generation |-> g, live |-> m = "live",
           current |-> candidate, credits |-> credits, visible |-> visible]
  PROVE  LET step == Opened(c, observation)
             open1 == NowOpen(step, {}, {}, {})
             now == NowClosed(step, {}, {}) IN
         /\ step.cell \in Cell /\ step.cell.generation = g /\ step.cell.visible = visible
         /\ step.cell.status = "deciding"
         /\ open1 \subseteq Asked /\ now = {}
         /\ CellFits(step.cell, open1, now, m, credits)
<1> DEFINE step == Opened(c, observation)
           open1 == NowOpen(step, {}, {}, {})
           now == NowClosed(step, {}, {})
           loop == IF m = "live" THEN NewLoop ELSE None
           opened == [generation |-> g, status |-> "deciding",
                      expected |-> None, current |-> candidate,
                      credits |-> credits, behavior |-> None,
                      visible |-> visible, live |-> loop]
           action == IF m = "live" THEN Action("model", g, 0) ELSE Action("decide", g, 0)
<1>1. g \in Nat /\ g > 0 /\ g \in 0..Generations
  BY Numbers DEF Gens
<1>2. Normal(c) = c
  BY AlreadyNormal
<1>3. ~Ignores(c, observation)
  <2>1. c.generation \in Nat
    BY CellFields
  <2> QED
    BY <1>1, <2>1 DEF Ignores
<1>4. loop \in Loop \cup {None}
  BY DEF NewLoop, Loop
<1>5. opened \in Cell
  BY <1>1, <1>4 DEF Cell, Statuses
<1>6. step = Await(opened, "deciding", action)
  <2>1. CASE m = "live"
    BY <1>2, <1>3, <2>1 DEF Opened, ModelTurn, NewLoop
  <2>2. CASE m # "live"
    BY <1>2, <1>3, <2>2 DEF Opened
  <2> QED
    BY <2>1, <2>2
<1>7. action \in Asked
  BY <1>1, Actions
<1>8. /\ opened.generation = g /\ opened.current = candidate /\ opened.credits = credits
      /\ opened.visible = visible /\ opened.live = loop
  OBVIOUS
<1> HIDE DEF opened, action
<1>9. /\ step.action = action /\ step.cell \in Cell
      /\ step.cell.status = "deciding" /\ step.cell.expected = action
      /\ step.cell.generation = g /\ step.cell.current = candidate
      /\ step.cell.credits = credits
      /\ step.cell.visible = visible /\ step.cell.live = loop
  BY <1>5, <1>6, <1>7, <1>8, Awaited DEF Statuses
<1> HIDE DEF step
<1>10. open1 = {action} /\ open1 \subseteq Asked /\ now = {}
  BY <1>7, <1>9, NoneApart DEF NowOpen, NowClosed
<1> HIDE DEF open1, now
<1>11. Unspent(step.cell, credits)
  BY <1>9 DEF Unspent
<1>12. CASE m = "live"
  <2>1. /\ loop \in Loop /\ loop.turn = 0 /\ loop.tools = 0 /\ loop.pending = None
        /\ loop.terminal = None /\ loop.draft = None
    BY <1>4, <1>12, NoneApart DEF NewLoop, Loop
  <2>2. Sound(loop)
    BY <2>1, Numbers DEF Sound
  <2> HIDE DEF loop
  <2>3. AwaitsModel(step.cell, now)
    BY <1>9, <1>10, <1>12, <2>1, <2>2 DEF AwaitsModel, action
  <2>4. CellFits(step.cell, open1, now, m, credits)
    BY <1>1, <1>9, <1>10, <1>11, <1>12, <2>1, <2>3, NoneApart DEF CellFits, Early
  <2> QED
    BY <1>9, <1>10, <2>4 DEF step, open1, now
<1>13. CASE m # "live"
  <2>1. AwaitsDecision(step.cell, now)
    BY <1>9, <1>10, <1>13 DEF AwaitsDecision, action
  <2>2. CellFits(step.cell, open1, now, m, credits)
    BY <1>1, <1>9, <1>10, <1>11, <1>13, <2>1 DEF CellFits, Early
  <2> QED
    BY <1>9, <1>10, <2>2 DEF step, open1, now
<1> QED
  BY <1>12, <1>13

-----------------------------------------------------------------------------
(* The steps of cells and services. *)
LEMMA CellAt ==
  ASSUME IInv, NEW a \in Agents
  PROVE  /\ cells[a] \in Cell /\ open[a] \subseteq Asked /\ closed[a] \subseteq Asked
         /\ mode \in {"live", "mock"}
         /\ CellFits(cells[a], open[a], closed[a], mode, Budget(a))
BY DEF IInv, Typed, CellsFit

LEMMA DriverAt ==
  ASSUME Typed
  PROVE  /\ driver.generation \in Gens /\ driver.generation \in Nat /\ driver.generation > 0
         /\ driver.phase \in Phases /\ driver.sent \subseteq Agents
         /\ driver.states \in [Agents -> [current : Candidate, credits : Int]]
         /\ driver.seen \in [Agents -> Cell \cup {None}]
         /\ driver.generation <= Generations
BY Numbers DEF Typed, Gens

LEMMA Applied ==
  ASSUME Typed, NEW a \in Agents, NEW step, NEW ended, Apply(a, step, ended),
         step.cell \in Cell,
         NowOpen(step, open[a], closed[a], ended) \subseteq Asked,
         NowClosed(step, closed[a], ended) \subseteq Asked
  PROVE  /\ cells' \in [Agents -> Cell] /\ cells'[a] = step.cell
         /\ open' \in [Agents -> SUBSET Asked]
         /\ open'[a] = NowOpen(step, open[a], closed[a], ended)
         /\ closed' \in [Agents -> SUBSET Asked]
         /\ closed'[a] = NowClosed(step, closed[a], ended)
         /\ \A b \in Agents \ {a} :
              cells'[b] = cells[b] /\ open'[b] = open[b] /\ closed'[b] = closed[b]
<1>1. cells' \in [Agents -> Cell] /\ cells'[a] = step.cell
      /\ \A b \in Agents \ {a} : cells'[b] = cells[b]
  BY DEF Apply, Typed
<1>2. open' \in [Agents -> SUBSET Asked]
      /\ open'[a] = NowOpen(step, open[a], closed[a], ended)
      /\ \A b \in Agents \ {a} : open'[b] = open[b]
  <2> DEFINE now == NowOpen(step, open[a], closed[a], ended)
  <2>1. open' = [open EXCEPT ![a] = now]
    BY DEF Apply, NowOpen, Typed
  <2> HIDE DEF now
  <2> QED
    BY <2>1 DEF Typed, now
<1>3. closed' \in [Agents -> SUBSET Asked]
      /\ closed'[a] = NowClosed(step, closed[a], ended)
      /\ \A b \in Agents \ {a} : closed'[b] = closed[b]
  <2> DEFINE now == NowClosed(step, closed[a], ended)
  <2>1. closed' = [closed EXCEPT ![a] = now]
    BY DEF Apply, NowClosed, Typed
  <2> HIDE DEF now
  <2> QED
    BY <2>1 DEF Typed, now
<1> QED
  BY <1>1, <1>2, <1>3

(* A cell is at rest only while it is neither at work nor failed.            *)
Active(a) == cells[a].status \notin {"idle", "waiting"}

LEMMA ActiveIsNotRested ==
  ASSUME NEW a \in Agents, Active(a), NEW g \in Nat
  PROVE  ~Rested(a, g)
BY DEF Active, Rested, Dormant

(* While cells may move, those that do are of the present generation and are  *)
(* waited for; who has an opening in its inbox rests.                        *)
LEMMA Moving ==
  ASSUME IInv, ~Ended, NEW a \in Agents, Active(a) \/ inbox[a] # None
  PROVE  /\ driver.phase \in {"dispatch", "settle"} /\ a \in driver.sent /\ driver.seen[a] = None
         /\ Active(a) => inbox[a] = None /\ cells[a].generation = driver.generation
         /\ inbox[a] # None => inbox[a] = Observation(a) /\ Rested(a, driver.generation - 1)
<1> DEFINE g == driver.generation
<1>1. /\ Typed /\ Dispatching /\ Opens /\ Settling /\ Resting /\ AssertionsHold
      /\ g \in Nat /\ g - 1 \in Nat /\ driver.phase \in Phases
  BY DriverAt DEF IInv, DriverFits
<1> HIDE DEF g
<1>2. Active(a) => ~Rested(a, g) /\ ~Rested(a, g - 1)
  BY <1>1, ActiveIsNotRested
<1>3. driver.phase \in {"dispatch", "settle"}
  <2>1. driver.phase \notin {"completed", "failed", "broken"}
    BY <1>1 DEF Ended
  <2>2. driver.phase \notin {"restart", "panel", "recheck", "final"}
    BY <1>1, <1>2 DEF Resting, g
  <2> QED
    BY <1>1, <2>1, <2>2 DEF Phases
<1>4. a \in driver.sent
  BY <1>1, <1>2, <1>3 DEF Dispatching, Settling, g
<1>5. driver.seen[a] = None
  BY <1>1, <1>2, <1>3 DEF Dispatching, Settling, g
<1>6. Asks(a)
  BY <1>1, <1>3, <1>4 DEF Opens
<1> QED
  BY <1>2, <1>3, <1>4, <1>5, <1>6 DEF Asks, g

(* The start of a generation does not change once it has begun.              *)
LEMMA StartStays ==
  ASSUME Typed, SubmissionsFit, NEW a \in Agents, NEW g \in 0..driver.generation,
         \A h \in Gens : h < driver.generation => submissions'[h] = submissions[h]
  PROVE  Start(g, a)' = Start(g, a)
<1>1. g \in Nat /\ driver.generation \in Gens /\ driver.generation \in Nat
  BY DriverAt
<1>2. CASE g <= 1
  BY <1>2 DEF Start
<1>3. CASE g > 1
  <2>1. g - 1 \in Gens /\ g - 1 < driver.generation
    BY <1>1, <1>3, Numbers DEF Gens
  <2> QED
    BY <2>1 DEF Start
<1> QED
  BY <1>1, <1>2, <1>3

(* What the step of one cell leaves alone: the driver and the other cells.   *)
LEMMA OthersKeep ==
  ASSUME IInv, ~Ended, NEW a \in Agents, Active(a) \/ inbox[a] # None,
         mode' = mode, driver' = driver,
         inbox'[a] = None, cells'[a].generation = driver.generation,
         \A b \in Agents \ {a} : /\ cells'[b] = cells[b] /\ open'[b] = open[b]
                                 /\ closed'[b] = closed[b] /\ inbox'[b] = inbox[b],
         \A h \in Gens : h < driver.generation => submissions'[h] = submissions[h]
  PROVE  /\ DriverFits' /\ AssertionsHold'
         /\ \A b \in Agents : \A g \in 0..driver.generation : Start(g, b)' = Start(g, b)
         /\ \A b \in Agents \ {a} :
              SeesAt(b)' /\ CellFits(cells'[b], open'[b], closed'[b], mode', Budget(b)')
<1> DEFINE g == driver.generation
<1>1. /\ Typed /\ CellsFit /\ SeesStart /\ SubmissionsFit /\ AssertionsHold
      /\ Behind /\ Dispatching /\ Opens /\ Settling
      /\ g \in Nat /\ g > 0
  BY DriverAt DEF IInv, DriverFits
<1>2. /\ driver.phase \in {"dispatch", "settle"} /\ a \in driver.sent /\ driver.seen[a] = None
  BY Moving
<1>3. \A b \in Agents : \A h \in 0..g : Start(h, b)' = Start(h, b)
  BY <1>1, StartStays
<1>4. \A b \in Agents : cells[b].generation \in 0..g
  <2> TAKE b \in Agents
  <2>1. cells[b].generation \in Nat
    BY <1>1, CellFields DEF Typed
  <2> QED
    BY <1>1, <2>1 DEF Behind
<1>5. StatesOf(g)' = StatesOf(g)
  BY <1>1, <1>3 DEF StatesOf
<1>6. \A b \in Agents \ {a} : \A h : Rested(b, h)' <=> Rested(b, h)
  BY DEF Rested
<1>7. \A b \in Agents \ {a} : Asks(b)' <=> Asks(b)
  BY <1>6 DEF Asks, Observation, Candidates, Rested
<1>8. Asks(a)'
  BY DEF Asks
<1>9. Behind'
  BY <1>1, <1>4 DEF Behind
<1>10. Dispatching'
  BY <1>1, <1>2, <1>6 DEF Dispatching, Rested
<1>11. Opens'
  <2>1. driver.states = StatesOf(g) /\ \A b \in driver.sent : Asks(b)
    BY <1>1, <1>2 DEF Opens
  <2>2. \A b \in driver.sent : Asks(b)'
    <3>1. driver.sent \subseteq Agents
      BY <1>1, DriverAt
    <3> QED
      BY <1>7, <1>8, <2>1, <3>1
  <2> QED
    BY <1>5, <2>1, <2>2 DEF Opens
<1>12. Settling'
  BY <1>1, <1>2, <1>6 DEF Settling, Rested
<1>13. Restarting' /\ Resting' /\ AssertionsHold'
  BY <1>2 DEF Restarting, Resting, AssertionsHold
<1>14. ASSUME NEW b \in Agents \ {a}
       PROVE  SeesAt(b)' /\ CellFits(cells'[b], open'[b], closed'[b], mode', Budget(b)')
  <2>1. cells'[b] = cells[b] /\ open'[b] = open[b] /\ closed'[b] = closed[b]
        /\ cells[b].generation \in 0..g /\ SeesAt(b)
    BY <1>1, <1>4 DEF SeesStart
  <2>2. Budget(b)' = Budget(b)
    BY <1>3, <2>1 DEF Budget, Start
  <2>3. CellFits(cells[b], open[b], closed[b], mode, Budget(b))
    BY <1>1 DEF CellsFit
  <2>4. cells[b].generation > 1 =>
          submissions'[cells[b].generation - 1] = submissions[cells[b].generation - 1]
    <3>1. cells[b].generation > 1 =>
            cells[b].generation - 1 \in Gens /\ cells[b].generation - 1 < g
      BY <1>1, <2>1, DriverAt, Numbers DEF Gens
    <3> QED
      BY <3>1
  <2>5. SeesAt(b)'
    BY <2>1, <2>4 DEF SeesAt, Start
  <2> QED
    BY <2>1, <2>2, <2>3, <2>5
<1> QED
  BY <1>3, <1>9, <1>10, <1>11, <1>12, <1>13, <1>14 DEF DriverFits

(* The outcome of any action but a submission. *)
Evaluations == [Gens -> [Agents -> [id : Ids, behavior : Behaviors] \cup {None}]]
LEMMA OutcomeKeeps ==
  ASSUME IInv, ~Ended, NEW a \in Agents, NEW x \in open[a], NEW step, Apply(a, step, {x}),
         StepFits(step, cells[a], open[a], closed[a], {x}, mode, Budget(a)),
         step.cell.status \notin {"idle", "waiting"},
         step.cell.status \in Early => cells[a].status \in Early /\ evaluations' = evaluations,
         step.cell.status = "failed" => faults' > 0,
         faults' \in Nat, faults <= faults',
         evaluations' \in Evaluations,
         \A g \in Gens : \A b \in Agents :
           \/ evaluations'[g][b] = evaluations[g][b]
           \/ b = a /\ g = cells[a].generation /\ evaluations[g][b] = None,
         UNCHANGED <<mode, inbox, submissions, driver, finalists>>
  PROVE  IInv'
<1>1. /\ Typed /\ CellsFit /\ SeesStart /\ SubmissionsFit /\ FreshEvaluations
      /\ SubmissionsKnown /\ FinalistsKnown /\ Failures /\ CreditsAreSpentOnce
  BY DEF IInv
<1>2. /\ cells[a] \in Cell /\ open[a] \subseteq Asked /\ closed[a] \subseteq Asked
      /\ mode \in {"live", "mock"}
      /\ CellFits(cells[a], open[a], closed[a], mode, Budget(a))
  BY CellAt
<1>3. cells[a].status \in Early \cup {"submitting"}
  BY <1>2, InFlight
<1>4. Active(a)
  BY <1>3 DEF Active, Early
<1>5. /\ cells' \in [Agents -> Cell] /\ cells'[a] = step.cell
      /\ open' \in [Agents -> SUBSET Asked] /\ closed' \in [Agents -> SUBSET Asked]
      /\ open'[a] = NowOpen(step, open[a], closed[a], {x})
      /\ closed'[a] = NowClosed(step, closed[a], {x})
      /\ \A b \in Agents \ {a} :
           cells'[b] = cells[b] /\ open'[b] = open[b] /\ closed'[b] = closed[b]
  <2>1. /\ step.cell \in Cell
        /\ NowOpen(step, open[a], closed[a], {x}) \subseteq Asked
        /\ NowClosed(step, closed[a], {x}) \subseteq Asked
    BY DEF StepFits
  <2> QED
    BY <1>1, <2>1, Applied, SMTT(30)
<1>6. /\ inbox[a] = None /\ cells[a].generation = driver.generation
  BY <1>4, Moving
<1>7. cells'[a].generation = cells[a].generation /\ cells[a].generation \in 0..driver.generation
  BY <1>1, <1>5, <1>6, DriverAt DEF StepFits
<1>8. /\ DriverFits' /\ AssertionsHold'
      /\ \A b \in Agents : \A g \in 0..driver.generation : Start(g, b)' = Start(g, b)
      /\ \A b \in Agents \ {a} :
           SeesAt(b)' /\ CellFits(cells'[b], open'[b], closed'[b], mode', Budget(b)')
  BY <1>4, <1>5, <1>6, <1>7, OthersKeep
<1>9. Typed'
  BY <1>1, <1>5 DEF Typed, Evaluations
<1>10. CellsFit'
  <2>1. Budget(a)' = Budget(a)
    BY <1>7, <1>8 DEF Budget, Start
  <2>2. CellFits(cells'[a], open'[a], closed'[a], mode', Budget(a)')
    BY <1>5, <2>1 DEF StepFits
  <2> QED
    BY <1>8, <2>2 DEF CellsFit
<1>11. SeesStart'
  <2>1. cells'[a].visible \in {cells[a].visible, <<>>} /\ SeesAt(a)
    BY <1>1, <1>5 DEF StepFits, SeesStart
  <2>2. SeesAt(a)'
    BY <1>7, <2>1 DEF SeesAt, Start
  <2> QED
    BY <1>8, <2>2 DEF SeesStart
<1>12. SubmissionsFit'
  <2>1. /\ cells[a].status # "waiting" /\ cells'[a].status # "waiting"
    BY <1>4, <1>5 DEF Active
  <2>2. ASSUME NEW b \in Agents, NEW g \in Gens
        PROVE  /\ g > cells'[b].generation
                  \/ (g = cells'[b].generation /\ cells'[b].status # "waiting") =>
                    submissions'[g][b] = None
               /\ g = cells'[b].generation /\ cells'[b].status = "waiting" =>
                    submissions'[g][b] = View(cells'[b])
    <3>1. CASE b = a
      BY <1>1, <1>5, <1>7, <2>1, <3>1 DEF SubmissionsFit
    <3>2. CASE b # a
      BY <1>1, <1>5, <3>2 DEF SubmissionsFit
    <3> QED
      BY <3>1, <3>2
  <2>3. \A g \in Gens : g < driver'.generation => \A b \in Agents : submissions'[g][b] # None
    BY <1>1 DEF SubmissionsFit
  <2> QED
    BY <2>2, <2>3 DEF SubmissionsFit
<1>13. FreshEvaluations'
  <2>1. SUFFICES ASSUME NEW b \in Agents, NEW g \in Gens,
                        g > cells'[b].generation
                        \/ (g = cells'[b].generation /\ cells'[b].status \in Early)
                 PROVE  evaluations'[g][b] = None
    BY DEF FreshEvaluations
  <2>2. CASE b # a
    BY <1>1, <1>5, <2>1, <2>2 DEF FreshEvaluations
  <2>3. CASE b = a /\ g = cells[a].generation
    <3>1. cells'[a].status \in Early
      BY <1>2, <1>7, <2>1, <2>3, CellFields
    <3> QED
      BY <1>1, <1>5, <1>7, <2>3, <3>1 DEF FreshEvaluations
  <2>4. CASE b = a /\ g # cells[a].generation
    BY <1>1, <1>5, <1>7, <2>1, <2>4 DEF FreshEvaluations
  <2> QED
    BY <2>2, <2>3, <2>4
<1>14. \A id : Known(id) => Known(id)'
  BY DEF Known
<1>15. SubmissionsKnown' /\ FinalistsKnown'
  BY <1>1, <1>14 DEF SubmissionsKnown, FinalistsKnown
<1>16. Failures'
  <2>1. \A b \in Agents \ {a} : cells'[b].status = "failed" => faults > 0
    BY <1>1, <1>5 DEF Failures
  <2>2. faults \in Nat
    BY <1>1 DEF Typed
  <2> QED
    BY <1>5, <2>1, <2>2 DEF Failures
<1>17. CreditsAreSpentOnce'
  BY <1>1 DEF CreditsAreSpentOnce
<1> QED
  BY <1>8, <1>9, <1>10, <1>11, <1>12, <1>13, <1>15, <1>16, <1>17 DEF IInv

LEMMA QuietOutcomeKeeps ==
  ASSUME IInv, ~Ended, NEW a \in Agents, NEW x \in open[a], NEW step, Apply(a, step, {x}),
         StepFits(step, cells[a], open[a], closed[a], {x}, mode, Budget(a)),
         step.cell.status \in Early \cup {"submitting"}, cells[a].status \in Early,
         UNCHANGED <<mode, inbox, submissions, driver, finalists, evaluations, faults>>
  PROVE  IInv'
<1>1. evaluations' \in Evaluations /\ faults' \in Nat /\ faults <= faults'
  BY DEF IInv, Typed, Evaluations
<1>2. step.cell.status \notin {"idle", "waiting", "failed"}
  BY DEF Early
<1> QED
  BY <1>1, <1>2, OutcomeKeeps

(* The services, one after the other. *)
LEMMA ModelKeeps ==
  ASSUME IInv, NEW a \in Agents, ModelAnswers(a)
  PROVE  IInv'
<1>1. PICK x \in Running(a, "model"), call \in Calls :
        ~Ended /\ Outcome(a, x, call) /\ UNCHANGED <<evaluations, submissions>>
  BY DEF ModelAnswers
<1> DEFINE step == Delivered(cells[a], x, call)
<1>2. /\ x \in open[a] /\ x.kind = "model" /\ Apply(a, step, {x})
      /\ UNCHANGED <<mode, inbox, submissions, driver, finalists, evaluations, faults>>
  BY <1>1 DEF Running, Outcome
<1>3. /\ StepFits(step, cells[a], open[a], closed[a], {x}, mode, Budget(a))
      /\ cells[a].status = "deciding"
      /\ step.cell.status \in {"tooling", "evaluating", "submitting"}
  BY <1>2, CellAt, ModelFits, ZenonT(60)
<1>4. cells[a].status \in Early /\ step.cell.status \in Early \cup {"submitting"}
  BY <1>3 DEF Early
<1> HIDE DEF step
<1> QED
  BY <1>1, <1>2, <1>3, <1>4, QuietOutcomeKeeps

LEMMA ToolKeeps ==
  ASSUME IInv, NEW a \in Agents, ToolAnswers(a)
  PROVE  IInv'
<1>1. PICK x \in Running(a, "tool"), id \in Drafts, pass \in BOOLEAN :
        ~Ended /\ Outcome(a, x, [id |-> id, pass |-> pass]) /\ UNCHANGED <<evaluations, submissions>>
  BY DEF ToolAnswers
<1> DEFINE result == [id |-> id, pass |-> pass]
           step == Delivered(cells[a], x, result)
<1>2. /\ x \in open[a] /\ x.kind = "tool" /\ Apply(a, step, {x}) /\ result \in [id : Drafts, pass : BOOLEAN]
      /\ UNCHANGED <<mode, inbox, submissions, driver, finalists, evaluations, faults>>
  BY <1>1 DEF Running, Outcome
<1> HIDE DEF result
<1>3. /\ StepFits(step, cells[a], open[a], closed[a], {x}, mode, Budget(a))
      /\ cells[a].status = "tooling" /\ step.cell.status = "deciding"
  <2>1. /\ cells[a] \in Cell /\ open[a] \subseteq Asked /\ closed[a] \subseteq Asked
        /\ mode \in {"live", "mock"}
        /\ CellFits(cells[a], open[a], closed[a], mode, Budget(a))
    BY CellAt
  <2> QED
    BY <1>2, <2>1, ToolFits, SMTT(30)
<1>4. cells[a].status \in Early /\ step.cell.status \in Early \cup {"submitting"}
  BY <1>3 DEF Early
<1> HIDE DEF step
<1> QED
  BY <1>1, <1>2, <1>3, <1>4, QuietOutcomeKeeps

LEMMA DecisionKeeps ==
  ASSUME IInv, NEW a \in Agents, MockDecides(a)
  PROVE  IInv'
<1>1. PICK x \in Running(a, "decide") :
        ~Ended /\ Outcome(a, x, Decision(cells[a])) /\ UNCHANGED <<evaluations, submissions>>
  BY DEF MockDecides
<1> DEFINE step == Delivered(cells[a], x, Decision(cells[a]))
<1>2. /\ x \in open[a] /\ x.kind = "decide" /\ Apply(a, step, {x})
      /\ UNCHANGED <<mode, inbox, submissions, driver, finalists, evaluations, faults>>
  BY <1>1 DEF Running, Outcome
<1>3. /\ StepFits(step, cells[a], open[a], closed[a], {x}, mode, Budget(a))
      /\ cells[a].status = "deciding"
      /\ step.cell.status \in {"deciding", "materializing", "submitting"}
  BY <1>2, CellAt, DecisionFits
<1>4. cells[a].status \in Early /\ step.cell.status \in Early \cup {"submitting"}
  BY <1>3 DEF Early
<1> HIDE DEF step
<1> QED
  BY <1>1, <1>2, <1>3, <1>4, QuietOutcomeKeeps

(* What an evaluation shows is of this cell and generation, and the first.   *)
LEMMA EvaluatedOnce ==
  ASSUME IInv, NEW a \in Agents, NEW x \in open[a], cells[a].status \in Early,
         NEW id \in Ids, NEW behavior \in Behaviors, Evaluated(a, x.generation, id, behavior),
         ~Ended
  PROVE  /\ x.generation \in Gens /\ x.generation = cells[a].generation
         /\ evaluations' \in Evaluations
         /\ \A g \in Gens : \A b \in Agents :
              \/ evaluations'[g][b] = evaluations[g][b]
              \/ b = a /\ g = cells[a].generation /\ evaluations[g][b] = None
         /\ Measured(a, x.generation, id) \in Candidate
<1>1. Typed /\ FreshEvaluations
  BY DEF IInv
<1>2. x.generation = cells[a].generation
  BY CellAt, InFlight
<1>3. x.generation \in Gens
  <2>1. Active(a)
    BY DEF Active, Early
  <2> QED
    BY <1>1, <1>2, <2>1, Moving, DriverAt
<1>4. evaluations[x.generation][a] = None
  BY <1>1, <1>2, <1>3 DEF FreshEvaluations
<1> DEFINE shown == [id |-> id, behavior |-> behavior]
<1>5. shown \in [id : Ids, behavior : Behaviors]
  OBVIOUS
<1>6. evaluations' = [evaluations EXCEPT ![x.generation][a] = shown]
  BY DEF Evaluated
<1> HIDE DEF shown
<1>7. /\ evaluations' \in Evaluations
      /\ \A g \in Gens : \A b \in Agents :
           evaluations'[g][b] = IF g = x.generation /\ b = a THEN shown ELSE evaluations[g][b]
  BY <1>1, <1>3, <1>5, <1>6 DEF Typed, Evaluations
<1>8. Measured(a, x.generation, id) \in Candidate
  BY <1>3, Numbers DEF Measured, Candidate
<1> QED
  BY <1>2, <1>3, <1>4, <1>7, <1>8

LEMMA EvaluatorKeeps ==
  ASSUME IInv, NEW a \in Agents, EvaluatorAnswers(a)
  PROVE  IInv'
<1> DEFINE id == cells[a].live.terminal.id
<1>1. PICK x \in Running(a, "evaluate") :
        /\ ~Ended /\ Evaluated(a, x.generation, id, cells[a].behavior)
        /\ Outcome(a, x, Measured(a, x.generation, id)) /\ UNCHANGED submissions
  BY DEF EvaluatorAnswers
<1> DEFINE candidate == Measured(a, x.generation, id)
           step == Delivered(cells[a], x, candidate)
<1>2. /\ x \in open[a] /\ x.kind = "evaluate" /\ Apply(a, step, {x})
      /\ UNCHANGED <<mode, inbox, submissions, driver, finalists, faults>>
  BY <1>1 DEF Running, Outcome
<1>3. cells[a].status = "evaluating"
  BY <1>2, CellAt, InFlight
<1>4. id \in Ids /\ cells[a].behavior \in Behaviors
  BY <1>3, CellAt DEF CellFits, AwaitsEvaluation, Paid
<1>5. /\ evaluations' \in Evaluations
      /\ \A g \in Gens : \A b \in Agents :
           \/ evaluations'[g][b] = evaluations[g][b]
           \/ b = a /\ g = cells[a].generation /\ evaluations[g][b] = None
      /\ candidate \in Candidate
  BY <1>1, <1>2, <1>3, <1>4, EvaluatedOnce DEF Early
<1>6. Measures(candidate, cells[a])
  BY DEF Measured, Measures
<1> HIDE DEF candidate
<1>7. /\ StepFits(step, cells[a], open[a], closed[a], {x}, mode, Budget(a))
      /\ step.cell.status = "submitting"
  <2>1. /\ cells[a] \in Cell /\ open[a] \subseteq Asked /\ closed[a] \subseteq Asked
        /\ mode \in {"live", "mock"}
        /\ CellFits(cells[a], open[a], closed[a], mode, Budget(a))
    BY CellAt
  <2>2. x \in open[a] /\ x.kind = "evaluate" /\ candidate \in Candidate
    BY <1>2, <1>5
  <2> QED
    BY <1>6, <2>1, <2>2, EvaluationFits, SMTT(30)
<1>8. faults' \in Nat /\ faults <= faults'
  BY <1>2 DEF IInv, Typed
<1>9. step.cell.status \notin Early \cup {"idle", "waiting", "failed"}
  BY <1>7 DEF Early
<1> HIDE DEF step
<1> QED
  BY <1>1, <1>2, <1>5, <1>7, <1>8, <1>9, OutcomeKeeps

LEMMA WorkKeeps ==
  ASSUME IInv, NEW a \in Agents, MockMaterializes(a)
  PROVE  IInv'
<1>1. PICK x \in Running(a, "materialize"), id \in Drafts :
        /\ ~Ended /\ Evaluated(a, x.generation, id, cells[a].behavior)
        /\ Outcome(a, x, Measured(a, x.generation, id)) /\ UNCHANGED submissions
  BY DEF MockMaterializes
<1> DEFINE candidate == Measured(a, x.generation, id)
           step == Delivered(cells[a], x, candidate)
<1>2. /\ x \in open[a] /\ x.kind = "materialize" /\ Apply(a, step, {x})
      /\ UNCHANGED <<mode, inbox, submissions, driver, finalists, faults>>
  BY <1>1 DEF Running, Outcome
<1>3. cells[a].status = "materializing"
  BY <1>2, CellAt, InFlight
<1>4. id \in Ids /\ cells[a].behavior \in Behaviors
  BY <1>3, CellAt, Numbers DEF CellFits, Paid
<1>5. /\ evaluations' \in Evaluations
      /\ \A g \in Gens : \A b \in Agents :
           \/ evaluations'[g][b] = evaluations[g][b]
           \/ b = a /\ g = cells[a].generation /\ evaluations[g][b] = None
      /\ candidate \in Candidate
  BY <1>1, <1>2, <1>3, <1>4, EvaluatedOnce DEF Early
<1> HIDE DEF candidate
<1>6. /\ StepFits(step, cells[a], open[a], closed[a], {x}, mode, Budget(a))
      /\ step.cell.status = "submitting"
  <2>1. /\ cells[a] \in Cell /\ open[a] \subseteq Asked /\ closed[a] \subseteq Asked
        /\ mode \in {"live", "mock"}
        /\ CellFits(cells[a], open[a], closed[a], mode, Budget(a))
    BY CellAt
  <2>2. x \in open[a] /\ x.kind = "materialize" /\ candidate \in Candidate
    BY <1>2, <1>5
  <2> QED
    BY <2>1, <2>2, WorkFits
<1>7. faults' \in Nat /\ faults <= faults'
  BY <1>2 DEF IInv, Typed
<1>8. step.cell.status \notin Early \cup {"idle", "waiting", "failed"}
  BY <1>6 DEF Early
<1> HIDE DEF step
<1> QED
  BY <1>1, <1>2, <1>5, <1>6, <1>7, <1>8, OutcomeKeeps

LEMMA FailureKeeps ==
  ASSUME IInv, NEW a \in Agents, ActionFails(a)
  PROVE  IInv'
<1>1. PICK x \in open[a] :
        /\ ~Ended /\ faults' = faults + 1 /\ Apply(a, ActionFailed(cells[a], x), {x})
        /\ UNCHANGED <<mode, inbox, services, driver, finalists>>
  BY DEF ActionFails
<1> DEFINE step == ActionFailed(cells[a], x)
<1>2. /\ StepFits(step, cells[a], open[a], closed[a], {x}, mode, Budget(a))
      /\ step.cell.status = "failed"
  <2>1. /\ cells[a] \in Cell /\ open[a] \subseteq Asked /\ closed[a] \subseteq Asked
        /\ mode \in {"live", "mock"}
        /\ CellFits(cells[a], open[a], closed[a], mode, Budget(a))
    BY CellAt
  <2>2. x \in open[a]
    BY <1>1
  <2> QED
    BY <2>1, <2>2, FailureFits, ZenonT(120)
<1>3. Typed
  BY DEF IInv
<1>4. faults' \in Nat /\ faults <= faults' /\ faults' > 0
  BY <1>1, <1>3 DEF Typed
<1>5. evaluations' \in Evaluations /\ evaluations' = evaluations /\ submissions' = submissions
  BY <1>1, <1>3 DEF Typed, Evaluations, services
<1>6. step.cell.status \notin Early \cup {"idle", "waiting"}
  BY <1>2 DEF Early
<1>7. Apply(a, step, {x})
  BY <1>1
<1> HIDE DEF step
<1> QED
  BY <1>1, <1>2, <1>4, <1>5, <1>6, <1>7, OutcomeKeeps

(* The board takes what a cell shows, once, and the cell waits.              *)
LEMMA BoardTakes ==
  ASSUME IInv, NEW a \in Agents, NEW x \in open[a], x.kind = "submit", ~Ended,
         Admitted(a, x.generation),
         submissions' = [submissions EXCEPT ![x.generation][a] = View(cells[a])]
  PROVE  /\ cells[a].generation = driver.generation /\ driver.generation \in Gens
         /\ inbox[a] = None /\ Active(a)
         /\ cells[a].status = "submitting" /\ Paid(cells[a], Budget(a))
         /\ View(cells[a]) \in Submission
         /\ submissions[driver.generation][a] = None
         /\ submissions' \in [Gens -> [Agents -> Submission \cup {None}]]
         /\ submissions'[driver.generation][a] = View(cells[a])
         /\ \A g \in Gens : \A b \in Agents :
              g # driver.generation \/ b # a => submissions'[g][b] = submissions[g][b]
         /\ \A g \in Gens : g # driver.generation => submissions'[g] = submissions[g]
<1> DEFINE g == driver.generation
<1>1. Typed
  BY DEF IInv
<1>2. /\ cells[a] \in Cell /\ cells[a].status = "submitting" /\ x.generation = cells[a].generation
      /\ cells[a].current \in Candidate
      /\ CellFits(cells[a], open[a], closed[a], mode, Budget(a))
  <2>1. /\ cells[a] \in Cell /\ open[a] \subseteq Asked /\ closed[a] \subseteq Asked
        /\ mode \in {"live", "mock"}
        /\ CellFits(cells[a], open[a], closed[a], mode, Budget(a))
    BY CellAt
  <2> QED
    BY <2>1, InFlight
<1>3. Paid(cells[a], Budget(a))
  BY <1>2 DEF CellFits
<1>4. Active(a)
  BY <1>2 DEF Active
<1>5. inbox[a] = None /\ cells[a].generation = g /\ g \in Gens
  BY <1>1, <1>4, Moving, DriverAt
<1>6. submissions[g][a] = None
  BY <1>2, <1>5 DEF Admitted
<1>7. View(cells[a]) \in Submission
  BY <1>2, <1>3, CellFields DEF View, Submission, Paid
<1> HIDE DEF g
<1> DEFINE shown == View(cells[a])
<1>8. submissions' = [submissions EXCEPT ![g][a] = shown] /\ shown \in Submission
  BY <1>2, <1>5, <1>7
<1> HIDE DEF shown
<1>9. submissions \in [Gens -> [Agents -> Submission \cup {None}]]
  BY <1>1 DEF Typed
<1>10. /\ submissions' \in [Gens -> [Agents -> Submission \cup {None}]]
       /\ submissions'[g][a] = shown
       /\ \A h \in Gens : \A b \in Agents :
            h # g \/ b # a => submissions'[h][b] = submissions[h][b]
       /\ \A h \in Gens : h # g => submissions'[h] = submissions[h]
  <2> DEFINE row == [submissions[g] EXCEPT ![a] = shown]
  <2>1. row \in [Agents -> Submission \cup {None}]
        /\ row[a] = shown /\ \A b \in Agents \ {a} : row[b] = submissions[g][b]
    BY <1>5, <1>8, <1>9
  <2>2. submissions' = [submissions EXCEPT ![g] = row]
    BY <1>5, <1>8, <1>9
  <2> HIDE DEF row
  <2> QED
    BY <1>5, <1>9, <2>1, <2>2, ZenonT(60)
<1> QED
  BY <1>2, <1>3, <1>4, <1>5, <1>6, <1>7, <1>10 DEF g, shown

(* Of a submission that costs what it should, the ledger stays right.        *)
LEMMA LedgerKeeps ==
  ASSUME Typed, CreditsAreSpentOnce, NEW a \in Agents, NEW g \in Gens,
         submissions[g][a] = None, NEW shown \in Submission, submissions'[g][a] = shown,
         shown.credits = Start(g, a).credits - Cost[shown.behavior], shown.credits >= 0,
         \A h \in Gens : \A b \in Agents :
           h # g \/ b # a => submissions'[h][b] = submissions[h][b],
         \A h \in Gens : h > g => submissions[h][a] = None
  PROVE  CreditsAreSpentOnce'
<1> SUFFICES ASSUME NEW h \in Gens, NEW b \in Agents, submissions'[h][b] # None
             PROVE  LET before == IF h = 1 THEN CreditsPerCell ELSE submissions'[h - 1][b].credits IN
                    /\ submissions'[h][b].credits = before - Cost[submissions'[h][b].behavior]
                    /\ submissions'[h][b].credits >= 0
  BY DEF CreditsAreSpentOnce
<1>1. h # 1 => h - 1 \in Gens /\ h - 1 # h
  BY Numbers DEF Gens
<1>2. CASE h = g /\ b = a
  <2>1. h # 1 => submissions'[h - 1][b] = submissions[h - 1][b]
    BY <1>1, <1>2
  <2>2. Start(g, a).credits = IF h = 1 THEN CreditsPerCell ELSE submissions'[h - 1][b].credits
    BY <1>2, <2>1, Numbers DEF Start, FreshState, Gens
  <2> QED
    BY <1>2, <2>2
<1>3. CASE ~(h = g /\ b = a)
  <2>1. submissions'[h][b] = submissions[h][b]
    BY <1>3
  <2>2. h # 1 => submissions'[h - 1][b] = submissions[h - 1][b]
    <3>1. CASE b = a /\ h - 1 = g
      BY <2>1, <3>1, Numbers DEF Gens
    <3>2. CASE ~(b = a /\ h - 1 = g)
      BY <1>1, <3>2
    <3> QED
      BY <3>1, <3>2
  <2> QED
    BY <2>1, <2>2 DEF CreditsAreSpentOnce
<1> QED
  BY <1>2, <1>3

LEMMA BackedIsKnown ==
  ASSUME Typed, NEW candidate \in Candidate, NEW g \in Gens, Backed(candidate, g)
  PROVE  Known(candidate.id)
<1>1. CASE candidate = SeedCandidate
  BY <1>1 DEF SeedCandidate, Known
<1>2. CASE candidate # SeedCandidate
  <2> DEFINE made == candidate.by[2]
             agent == candidate.by[1]
  <2>1. made \in 1..g /\ evaluations[made][agent] # None /\ evaluations[made][agent].id = candidate.id
    BY <1>2 DEF Backed
  <2>2. made \in Gens
    BY <2>1, Numbers DEF Gens
  <2>3. agent \in Agents
    <3>1. candidate.by \in (Agents \X Gens) \cup {<<0, 0>>}
      BY DEF Candidate
    <3>2. made # 0
      BY <2>1
    <3> QED
      BY <3>1, <3>2
  <2> QED
    BY <2>1, <2>2, <2>3 DEF Known
<1> QED
  BY <1>1, <1>2

LEMMA BoardKeeps ==
  ASSUME IInv, NEW a \in Agents, BoardAccepts(a)
  PROVE  IInv'
<1> DEFINE g == driver.generation
<1>1. PICK x \in Running(a, "submit") :
        /\ ~Ended /\ Admitted(a, x.generation) /\ Outcome(a, x, None)
        /\ submissions' = [submissions EXCEPT ![x.generation][a] = View(cells[a])]
        /\ UNCHANGED evaluations
  BY DEF BoardAccepts
<1> DEFINE step == Delivered(cells[a], x, None)
<1>2. /\ x \in open[a] /\ x.kind = "submit" /\ Apply(a, step, {x})
      /\ UNCHANGED <<mode, inbox, driver, finalists, evaluations, faults>>
  BY <1>1 DEF Running, Outcome
<1>3. /\ Typed /\ CellsFit /\ SeesStart /\ SubmissionsFit /\ FreshEvaluations
      /\ SubmissionsKnown /\ FinalistsKnown /\ Failures /\ CreditsAreSpentOnce
  BY DEF IInv
<1>4. /\ cells[a].generation = g /\ g \in Gens /\ inbox[a] = None /\ Active(a)
      /\ cells[a].status = "submitting" /\ Paid(cells[a], Budget(a))
      /\ View(cells[a]) \in Submission /\ submissions[g][a] = None
      /\ submissions' \in [Gens -> [Agents -> Submission \cup {None}]]
      /\ submissions'[g][a] = View(cells[a])
      /\ \A h \in Gens : \A b \in Agents :
           h # g \/ b # a => submissions'[h][b] = submissions[h][b]
      /\ \A h \in Gens : h # g => submissions'[h] = submissions[h]
  BY <1>1, <1>2, BoardTakes
<1>5. /\ StepFits(step, cells[a], open[a], closed[a], {x}, mode, Budget(a))
      /\ step.cell.status = "waiting" /\ View(step.cell) = View(cells[a])
      /\ step.cell.visible = <<>>
  <2>1. /\ cells[a] \in Cell /\ open[a] \subseteq Asked /\ closed[a] \subseteq Asked
        /\ mode \in {"live", "mock"}
        /\ CellFits(cells[a], open[a], closed[a], mode, Budget(a))
    BY CellAt
  <2>2. x \in open[a] /\ x.kind = "submit"
    BY <1>2
  <2> QED
    BY <2>1, <2>2, SubmittedFits, SMTT(30)
<1> HIDE DEF step
<1>6. /\ cells' \in [Agents -> Cell] /\ cells'[a] = step.cell
      /\ open' \in [Agents -> SUBSET Asked] /\ closed' \in [Agents -> SUBSET Asked]
      /\ open'[a] = NowOpen(step, open[a], closed[a], {x})
      /\ closed'[a] = NowClosed(step, closed[a], {x})
      /\ \A b \in Agents \ {a} :
           cells'[b] = cells[b] /\ open'[b] = open[b] /\ closed'[b] = closed[b]
  <2>1. /\ step.cell \in Cell
        /\ NowOpen(step, open[a], closed[a], {x}) \subseteq Asked
        /\ NowClosed(step, closed[a], {x}) \subseteq Asked
    BY <1>5 DEF StepFits
  <2> QED
    BY <1>2, <1>3, <2>1, Applied, SMTT(30)
<1>7. /\ cells'[a].generation = g /\ cells'[a].status = "waiting"
      /\ View(cells'[a]) = View(cells[a]) /\ cells'[a].visible = <<>>
      /\ g \in Nat /\ g \in 0..g
  BY <1>3, <1>4, <1>5, <1>6, DriverAt DEF StepFits
<1>8. /\ DriverFits' /\ AssertionsHold'
      /\ \A b \in Agents : \A h \in 0..g : Start(h, b)' = Start(h, b)
      /\ \A b \in Agents \ {a} :
           SeesAt(b)' /\ CellFits(cells'[b], open'[b], closed'[b], mode', Budget(b)')
  <2>1. \A h \in Gens : h < g => submissions'[h] = submissions[h]
    BY <1>4, <1>7, Numbers, SMTT(30) DEF Gens
  <2>2. Active(a) \/ inbox[a] # None
    BY <1>4
  <2>3. /\ mode' = mode /\ driver' = driver /\ inbox'[a] = None /\ cells'[a].generation = g
        /\ \A b \in Agents \ {a} : /\ cells'[b] = cells[b] /\ open'[b] = open[b]
                                   /\ closed'[b] = closed[b] /\ inbox'[b] = inbox[b]
    BY <1>2, <1>4, <1>6, <1>7
  <2> QED
    BY <1>1, <2>1, <2>2, <2>3, OthersKeep
<1>9. Typed'
  BY <1>2, <1>3, <1>4, <1>6 DEF Typed
<1>10. CellsFit'
  <2>1. Budget(a)' = Budget(a)
    BY <1>4, <1>7, <1>8 DEF Budget, Start
  <2>2. CellFits(cells'[a], open'[a], closed'[a], mode', Budget(a)')
    BY <1>2, <1>5, <1>6, <2>1 DEF StepFits
  <2> QED
    BY <1>8, <2>2 DEF CellsFit
<1>11. SeesStart'
  BY <1>7, <1>8 DEF SeesStart, SeesAt
<1>12. SubmissionsFit'
  <2>1. ASSUME NEW b \in Agents, NEW h \in Gens
        PROVE  /\ h > cells'[b].generation
                  \/ (h = cells'[b].generation /\ cells'[b].status # "waiting") =>
                    submissions'[h][b] = None
               /\ h = cells'[b].generation /\ cells'[b].status = "waiting" =>
                    submissions'[h][b] = View(cells'[b])
    <3>1. CASE b = a
      <4>1. h > g => h # g
        BY <1>7, Numbers DEF Gens
      <4> QED
        BY <1>3, <1>4, <1>7, <3>1, <4>1 DEF SubmissionsFit
    <3>2. CASE b # a
      BY <1>3, <1>4, <1>6, <3>2 DEF SubmissionsFit
    <3> QED
      BY <3>1, <3>2
  <2>2. \A h \in Gens : h < driver'.generation => \A b \in Agents : submissions'[h][b] # None
    BY <1>2, <1>3, <1>4, NoneApart DEF SubmissionsFit
  <2> QED
    BY <2>1, <2>2 DEF SubmissionsFit
<1>13. FreshEvaluations'
  <2>1. SUFFICES ASSUME NEW b \in Agents, NEW h \in Gens,
                        h > cells'[b].generation
                        \/ (h = cells'[b].generation /\ cells'[b].status \in Early)
                 PROVE  evaluations'[h][b] = None
    BY DEF FreshEvaluations
  <2>2. CASE b # a
    BY <1>2, <1>3, <1>6, <2>1, <2>2 DEF FreshEvaluations
  <2>3. CASE b = a
    BY <1>2, <1>3, <1>4, <1>7, <2>1, <2>3 DEF FreshEvaluations, Early
  <2> QED
    BY <2>2, <2>3
<1>14. \A id : Known(id)' <=> Known(id)
  BY <1>2 DEF Known
<1>15. SubmissionsKnown'
  <2>1. SUFFICES ASSUME mode = "live", NEW h \in Gens, NEW b \in Agents, submissions'[h][b] # None
                 PROVE  Known(submissions'[h][b].current.id)
    BY <1>2, <1>14 DEF SubmissionsKnown
  <2>2. CASE h = g /\ b = a
    <3>1. x.generation = g
      BY <1>2, <1>4, CellAt, InFlight
    <3>2. Backed(cells[a].current, g)
      BY <1>1, <2>1, <3>1 DEF Admitted
    <3>3. cells[a].current \in Candidate
      BY <1>4 DEF View, Submission
    <3>4. submissions'[h][b].current = cells[a].current
      BY <1>4, <2>2 DEF View
    <3> QED
      BY <1>3, <1>4, <3>2, <3>3, <3>4, BackedIsKnown
  <2>3. CASE ~(h = g /\ b = a)
    BY <1>3, <1>4, <2>1, <2>3 DEF SubmissionsKnown
  <2> QED
    BY <2>2, <2>3
<1>16. FinalistsKnown'
  BY <1>2, <1>3, <1>14 DEF FinalistsKnown
<1>17. Failures'
  BY <1>2, <1>3, <1>6, <1>7 DEF Failures
<1>18. CreditsAreSpentOnce'
  <2> DEFINE shown == View(cells[a])
  <2>1. shown.credits = Start(g, a).credits - Cost[shown.behavior] /\ shown.credits >= 0
    BY <1>4 DEF Paid, View, Budget
  <2>2. \A h \in Gens : h > g => submissions[h][a] = None
    BY <1>3, <1>4 DEF SubmissionsFit
  <2>3. shown \in Submission /\ submissions'[g][a] = shown
    BY <1>4
  <2> HIDE DEF shown
  <2> QED
    BY <1>3, <1>4, <2>1, <2>2, <2>3, LedgerKeeps
<1> QED
  BY <1>8, <1>9, <1>10, <1>11, <1>12, <1>13, <1>15, <1>16, <1>17, <1>18 DEF IInv

(* What a generation begins with is what the one before submitted.           *)
LEMMA StartFits ==
  ASSUME Typed, SubmissionsFit, CreditsAreSpentOnce, NEW g \in Nat, g <= driver.generation,
         NEW a \in Agents
  PROVE  /\ Start(g, a).current \in Candidate /\ Start(g, a).credits \in Int
         /\ Start(g, a).credits >= 0
<1>1. driver.generation \in Gens /\ driver.generation \in Nat
  BY DriverAt
<1>2. CASE g <= 1
  BY <1>2, Numbers DEF Start, FreshState, SeedCandidate, Candidate
<1>3. CASE g > 1
  <2>1. g - 1 \in Gens /\ g - 1 < driver.generation
    BY <1>1, <1>3, Numbers DEF Gens
  <2>2. submissions[g - 1][a] \in Submission
    BY <2>1 DEF SubmissionsFit, Typed
  <2>3. submissions[g - 1][a] # None
    BY <2>1 DEF SubmissionsFit
  <2>4. submissions[g - 1][a].credits >= 0
    BY <2>1, <2>3 DEF CreditsAreSpentOnce
  <2>5. Start(g, a) = submissions[g - 1][a]
    BY <1>3 DEF Start
  <2> QED
    BY <2>2, <2>4, <2>5 DEF Submission
<1> QED
  BY <1>1, <1>2, <1>3

LEMMA OpeningKeeps ==
  ASSUME IInv, NEW a \in Agents, HandleOpening(a)
  PROVE  IInv'
<1> DEFINE g == driver.generation
           observation == inbox[a]
           step == Opened(cells[a], observation)
           candidate == driver.states[a].current
           credits == driver.states[a].credits
           visible == [i \in DOMAIN Neighbours[a] |-> driver.states[Neighbours[a][i]].current]
<1>1. /\ Typed /\ CellsFit /\ SeesStart /\ SubmissionsFit /\ FreshEvaluations
      /\ SubmissionsKnown /\ FinalistsKnown /\ Failures /\ CreditsAreSpentOnce /\ DriverFits
  BY DEF IInv
<1>2. /\ ~Ended /\ inbox[a] # None /\ Apply(a, step, {}) /\ inbox' = [inbox EXCEPT ![a] = None]
      /\ UNCHANGED <<mode, evaluations, submissions, driver, finalists, faults>>
  BY DEF HandleOpening, services
<1>3. /\ driver.phase \in {"dispatch", "settle"} /\ observation = Observation(a)
      /\ Rested(a, g - 1) /\ g \in Gens /\ g \in Nat /\ g > 0 /\ g - 1 \in Nat
  BY <1>1, <1>2, Moving, DriverAt
<1>4. /\ cells[a] \in Cell /\ mode \in {"live", "mock"}
      /\ CellFits(cells[a], open[a], closed[a], mode, Budget(a))
  BY CellAt
<1>5. /\ cells[a].generation = g - 1 /\ cells[a].expected = None /\ cells[a].live = None
      /\ open[a] = {} /\ closed[a] = {} /\ cells[a].status \in {"idle", "waiting"}
  <2>1. cells[a].generation = g - 1 /\ cells[a].status \in {"idle", "waiting"}
    BY <1>3 DEF Rested, Dormant
  <2> QED
    BY <1>4, <2>1 DEF CellFits
<1>6. driver.states = StatesOf(g)
  BY <1>1, <1>3 DEF DriverFits, Opens
<1>7. \A b \in Agents : driver.states[b].current = Start(g, b).current
                        /\ driver.states[b].credits = Start(g, b).credits
  BY <1>6 DEF StatesOf
<1>8. /\ candidate \in Candidate /\ credits \in Int /\ credits >= 0
      /\ \A b \in Agents : driver.states[b].current \in Candidate
  BY <1>1, <1>3, <1>7, StartFits
<1>9. visible \in Seq(Candidate)
  <2>1. Neighbours[a] \in Seq(Agents)
    BY SwarmRunAssumption DEF SwarmRunAssumption
  <2> QED
    BY <1>8, <2>1
<1>10. observation = [generation |-> g, live |-> mode = "live", current |-> candidate,
                      credits |-> credits, visible |-> visible]
  BY <1>3 DEF Observation, Candidates
<1>11. g > cells[a].generation
  BY <1>3, <1>5
<1> HIDE DEF candidate, credits, visible, observation
<1>12. /\ step.cell \in Cell /\ step.cell.generation = g /\ step.cell.visible = visible
       /\ step.cell.status = "deciding"
       /\ NowOpen(step, {}, {}, {}) \subseteq Asked /\ NowClosed(step, {}, {}) = {}
       /\ CellFits(step.cell, NowOpen(step, {}, {}, {}), NowClosed(step, {}, {}), mode, credits)
  BY <1>3, <1>4, <1>5, <1>8, <1>9, <1>10, <1>11, OpeningFits
<1> HIDE DEF step
<1>13. /\ cells' \in [Agents -> Cell] /\ cells'[a] = step.cell
       /\ open' \in [Agents -> SUBSET Asked] /\ closed' \in [Agents -> SUBSET Asked]
       /\ open'[a] = NowOpen(step, {}, {}, {}) /\ closed'[a] = NowClosed(step, {}, {})
       /\ \A b \in Agents \ {a} :
            cells'[b] = cells[b] /\ open'[b] = open[b] /\ closed'[b] = closed[b]
  <2>1. /\ step.cell \in Cell
        /\ NowOpen(step, open[a], closed[a], {}) \subseteq Asked
        /\ NowClosed(step, closed[a], {}) \subseteq Asked
    BY <1>5, <1>12
  <2>2. Apply(a, step, {})
    BY <1>2
  <2>3. /\ cells' \in [Agents -> Cell] /\ cells'[a] = step.cell
        /\ open' \in [Agents -> SUBSET Asked] /\ closed' \in [Agents -> SUBSET Asked]
        /\ open'[a] = NowOpen(step, open[a], closed[a], {})
        /\ closed'[a] = NowClosed(step, closed[a], {})
        /\ \A b \in Agents \ {a} :
             cells'[b] = cells[b] /\ open'[b] = open[b] /\ closed'[b] = closed[b]
    BY <1>1, <2>1, <2>2, Applied
  <2> QED
    BY <1>5, <2>3
<1>14. /\ cells'[a].generation = g /\ cells'[a].status = "deciding"
       /\ cells'[a].visible = visible
  BY <1>12, <1>13
<1>15. /\ DriverFits' /\ AssertionsHold'
       /\ \A b \in Agents : \A h \in 0..g : Start(h, b)' = Start(h, b)
       /\ \A b \in Agents \ {a} :
            SeesAt(b)' /\ CellFits(cells'[b], open'[b], closed'[b], mode', Budget(b)')
  <2>1. \A h \in Gens : h < g => submissions'[h] = submissions[h]
    BY <1>2
  <2>2. /\ mode' = mode /\ driver' = driver /\ inbox'[a] = None /\ cells'[a].generation = g
        /\ \A b \in Agents \ {a} : /\ cells'[b] = cells[b] /\ open'[b] = open[b]
                                   /\ closed'[b] = closed[b] /\ inbox'[b] = inbox[b]
    BY <1>1, <1>2, <1>13, <1>14 DEF Typed
  <2> QED
    BY <1>2, <2>1, <2>2, OthersKeep
<1>16. Typed'
  BY <1>1, <1>2, <1>13 DEF Typed
<1>17. CellsFit'
  <2>1. Budget(a)' = credits
    BY <1>2, <1>3, <1>7, <1>14 DEF Budget, Start, credits
  <2>2. CellFits(cells'[a], open'[a], closed'[a], mode', Budget(a)')
    BY <1>2, <1>12, <1>13, <2>1
  <2> QED
    BY <1>15, <2>2 DEF CellsFit
<1>18. SeesStart'
  <2>1. visible = [i \in DOMAIN Neighbours[a] |-> Start(g, Neighbours[a][i]).current]
    <3>1. \A i \in DOMAIN Neighbours[a] : Neighbours[a][i] \in Agents
      BY SwarmRunAssumption DEF SwarmRunAssumption
    <3> QED
      BY <1>7, <3>1 DEF visible
  <2>2. submissions' = submissions
    BY <1>2
  <2>3. SeesAt(a)'
    BY <1>14, <2>1, <2>2 DEF SeesAt, Start
  <2> QED
    BY <1>15, <2>3 DEF SeesStart
<1>19. SubmissionsFit'
  <2>1. ASSUME NEW b \in Agents, NEW h \in Gens
        PROVE  /\ h > cells'[b].generation
                  \/ (h = cells'[b].generation /\ cells'[b].status # "waiting") =>
                    submissions'[h][b] = None
               /\ h = cells'[b].generation /\ cells'[b].status = "waiting" =>
                    submissions'[h][b] = View(cells'[b])
    <3>1. CASE b = a
      <4>1. h > g \/ h = g => h > cells[a].generation
        BY <1>3, <1>5, Numbers DEF Gens
      <4> QED
        BY <1>1, <1>2, <1>14, <3>1, <4>1 DEF SubmissionsFit
    <3>2. CASE b # a
      BY <1>1, <1>2, <1>13, <3>2 DEF SubmissionsFit
    <3> QED
      BY <3>1, <3>2
  <2>2. \A h \in Gens : h < driver'.generation => \A b \in Agents : submissions'[h][b] # None
    BY <1>1, <1>2 DEF SubmissionsFit
  <2> QED
    BY <2>1, <2>2 DEF SubmissionsFit
<1>20. FreshEvaluations'
  <2>1. SUFFICES ASSUME NEW b \in Agents, NEW h \in Gens,
                        h > cells'[b].generation
                        \/ (h = cells'[b].generation /\ cells'[b].status \in Early)
                 PROVE  evaluations'[h][b] = None
    BY DEF FreshEvaluations
  <2>2. CASE b # a
    BY <1>1, <1>2, <1>13, <2>1, <2>2 DEF FreshEvaluations
  <2>3. CASE b = a
    <3>1. h > cells[a].generation
      BY <1>3, <1>5, <1>14, <2>1, <2>3, Numbers DEF Gens
    <3> QED
      BY <1>1, <1>2, <2>3, <3>1 DEF FreshEvaluations
  <2> QED
    BY <2>2, <2>3
<1>21. \A id : Known(id)' <=> Known(id)
  BY <1>2 DEF Known
<1>22. SubmissionsKnown' /\ FinalistsKnown'
  BY <1>1, <1>2, <1>21 DEF SubmissionsKnown, FinalistsKnown
<1>23. Failures'
  BY <1>1, <1>2, <1>13, <1>14 DEF Failures
<1>24. CreditsAreSpentOnce'
  BY <1>1, <1>2 DEF CreditsAreSpentOnce
<1> QED
  BY <1>15, <1>16, <1>17, <1>18, <1>19, <1>20, <1>22, <1>23, <1>24 DEF IInv

-----------------------------------------------------------------------------
(* The steps of the driver: cells, kernels and services stay as they are.    *)
LEMMA DriverKeeps ==
  ASSUME IInv, UNCHANGED <<mode, cells, open, closed, evaluations, submissions, faults>>,
         Typed', DriverFits', AssertionsHold', FinalistsKnown',
         \A g \in Gens : g < driver'.generation => \A a \in Agents : submissions[g][a] # None
  PROVE  IInv'
<1>1. /\ CellsFit /\ SeesStart /\ SubmissionsFit /\ FreshEvaluations
      /\ SubmissionsKnown /\ Failures /\ CreditsAreSpentOnce
  BY DEF IInv
<1>2. CellsFit'
  BY <1>1 DEF CellsFit, Budget, Start
<1>3. SeesStart'
  BY <1>1 DEF SeesStart, SeesAt, Start
<1>4. SubmissionsFit'
  BY <1>1 DEF SubmissionsFit
<1>5. FreshEvaluations' /\ CreditsAreSpentOnce' /\ Failures'
  BY <1>1 DEF FreshEvaluations, CreditsAreSpentOnce, Failures
<1>6. SubmissionsKnown'
  BY <1>1 DEF SubmissionsKnown, Known
<1> QED
  BY <1>2, <1>3, <1>4, <1>5, <1>6 DEF IInv

LEMMA StandStill ==
  ASSUME IInv, UNCHANGED <<mode, cells, inbox, open, closed, evaluations, submissions, driver,
                           finalists, faults>>
  PROVE  IInv'
<1>1. /\ Typed /\ DriverFits /\ AssertionsHold /\ FinalistsKnown /\ SubmissionsFit
  BY DEF IInv
<1>2. Typed'
  BY <1>1 DEF Typed
<1>3. DriverFits'
  BY <1>1 DEF DriverFits, Behind, Dispatching, Opens, Settling, Restarting, Resting, Rested,
              Asks, Observation, Candidates, StatesOf, Start
<1>4. AssertionsHold'
  BY <1>1 DEF AssertionsHold, Unaffordable
<1>5. FinalistsKnown'
  BY <1>1 DEF FinalistsKnown, Known
<1>6. \A g \in Gens : g < driver'.generation => \A a \in Agents : submissions[g][a] # None
  BY <1>1 DEF SubmissionsFit
<1> QED
  BY <1>2, <1>3, <1>4, <1>5, <1>6, DriverKeeps

LEMMA DispatchKeeps ==
  ASSUME IInv, NEW a \in Agents, Dispatch(a)
  PROVE  IInv'
<1> DEFINE g == driver.generation
<1>1. /\ Typed /\ FinalistsKnown /\ SubmissionsFit
      /\ Behind /\ Dispatching /\ Opens
  BY DEF IInv, DriverFits
<1>2. /\ driver.phase = "dispatch" /\ a \notin driver.sent
      /\ UNCHANGED <<mode, cells, open, closed, evaluations, submissions, finalists, faults>>
      /\ inbox' = [inbox EXCEPT ![a] = Observation(a)]
  BY DEF Dispatch, services
<1>3. /\ driver'.generation = g /\ driver'.states = driver.states /\ driver'.seen = driver.seen
      /\ driver'.sent = driver.sent \cup {a}
      /\ driver'.phase = IF driver.sent \cup {a} = Agents THEN "settle" ELSE "dispatch"
      /\ driver' \in [phase : Phases, generation : Gens, sent : SUBSET Agents,
                      states : [Agents -> [current : Candidate, credits : Int]],
                      seen : [Agents -> Cell \cup {None}]]
  <2> DEFINE phase == IF driver.sent \cup {a} = Agents THEN "settle" ELSE "dispatch"
             sent == driver.sent \cup {a}
  <2>1. driver' = [driver EXCEPT !.sent = sent, !.phase = phase]
    BY <1>2 DEF Dispatch
  <2>2. phase \in Phases /\ sent \in SUBSET Agents
    BY <1>1, DriverAt DEF Phases
  <2> HIDE DEF phase, sent
  <2>3. /\ driver'.generation = g /\ driver'.states = driver.states /\ driver'.seen = driver.seen
        /\ driver'.sent = sent /\ driver'.phase = phase
        /\ driver' \in [phase : Phases, generation : Gens, sent : SUBSET Agents,
                        states : [Agents -> [current : Candidate, credits : Int]],
                        seen : [Agents -> Cell \cup {None}]]
    BY <1>1, <2>1, <2>2 DEF Typed
  <2> QED
    BY <2>3 DEF phase, sent
<1>4. /\ inbox'[a] = Observation(a) /\ DOMAIN inbox' = Agents
      /\ \A b \in Agents \ {a} : inbox'[b] = inbox[b]
  BY <1>1, <1>2 DEF Typed
<1>5. Typed'
  BY <1>1, <1>2, <1>3, <1>4 DEF Typed
<1>6. \A b \in Agents : Observation(b)' = Observation(b)
  BY <1>2, <1>3 DEF Observation, Candidates
<1>7. \A b \in Agents : \A h : Rested(b, h)' <=> Rested(b, h)
  BY <1>2 DEF Rested
<1>8. StatesOf(g)' = StatesOf(g)
  BY <1>2, <1>3 DEF StatesOf, Start
<1>9. \A b \in Agents : b \in driver.sent => Asks(b)
  BY <1>1, <1>2 DEF Opens
<1>10. ASSUME NEW b \in Agents, b \in driver'.sent
       PROVE  Asks(b)'
  <2>1. CASE b = a
    <3>1. inbox'[b] = Observation(b)'
      BY <1>4, <1>6, <2>1
    <3>2. Rested(b, g - 1)
      BY <1>1, <1>2, <2>1 DEF Dispatching
    <3> QED
      BY <1>2, <1>3, <3>1, <3>2 DEF Asks, Rested
  <2>2. CASE b # a
    <3>1. Asks(b)
      BY <1>3, <1>9, <1>10, <2>2
    <3> QED
      BY <1>2, <1>3, <1>4, <1>6, <2>2, <3>1 DEF Asks, Rested
  <2> QED
    BY <2>1, <2>2
<1>11. Opens'
  <2>1. driver.states = StatesOf(g)
    BY <1>1, <1>2 DEF Opens
  <2>2. driver'.states = StatesOf(driver.generation)'
    BY <1>2, <1>3, <2>1 DEF StatesOf, Start
  <2>3. driver'.sent \subseteq Agents
    BY <1>3
  <2> QED
    BY <1>10, <2>2, <2>3 DEF Opens
<1>12. Dispatching'
  BY <1>1, <1>2, <1>3, <1>4 DEF Dispatching, Rested
<1>13. Settling'
  BY <1>1, <1>2, <1>3 DEF Settling, Dispatching
<1>14. Behind' /\ Restarting' /\ Resting'
  BY <1>1, <1>2, <1>3 DEF Behind, Restarting, Resting
<1>15. DriverFits' /\ AssertionsHold'
  BY <1>3, <1>11, <1>12, <1>13, <1>14 DEF DriverFits, AssertionsHold
<1>16. FinalistsKnown'
  BY <1>1, <1>2 DEF FinalistsKnown, Known
<1>17. \A h \in Gens : h < driver'.generation => \A b \in Agents : submissions[h][b] # None
  BY <1>1, <1>3 DEF SubmissionsFit
<1> QED
  BY <1>2, <1>5, <1>15, <1>16, <1>17, DriverKeeps

LEMMA SettleKeeps ==
  ASSUME IInv, NEW a \in Agents, Settle(a)
  PROVE  IInv'
<1> DEFINE g == driver.generation
<1>1. /\ Typed /\ FinalistsKnown /\ SubmissionsFit
      /\ Behind /\ Opens /\ Settling
  BY DEF IInv, DriverFits
<1>2. /\ driver.phase = "settle" /\ driver.seen[a] = None /\ HasSettled(a)
      /\ UNCHANGED <<mode, cells, inbox, open, closed, evaluations, submissions, finalists, faults>>
  BY DEF Settle, services, kernels
<1>3. g \in Nat /\ g > 0 /\ cells[a] \in Cell
  BY <1>1, DriverAt DEF Typed
<1>4. /\ driver'.generation = g /\ driver'.states = driver.states /\ driver'.sent = driver.sent
      /\ driver'.phase = "settle" /\ driver'.seen[a] = cells[a]
      /\ \A b \in Agents \ {a} : driver'.seen[b] = driver.seen[b]
      /\ driver' \in [phase : Phases, generation : Gens, sent : SUBSET Agents,
                      states : [Agents -> [current : Candidate, credits : Int]],
                      seen : [Agents -> Cell \cup {None}]]
  <2> DEFINE seen == [driver.seen EXCEPT ![a] = cells[a]]
  <2>1. driver.seen \in [Agents -> Cell \cup {None}]
    BY <1>1, DriverAt
  <2>2. seen \in [Agents -> Cell \cup {None}] /\ seen[a] = cells[a]
        /\ \A b \in Agents \ {a} : seen[b] = driver.seen[b]
    BY <1>3, <2>1
  <2>3. driver' = [driver EXCEPT !.seen = seen]
    BY <1>1 DEF Settle, Typed
  <2> HIDE DEF seen
  <2> QED
    BY <1>1, <1>2, <2>2, <2>3 DEF Typed
<1>5. inbox[a] = None /\ Rested(a, g)
  <2>1. Asks(a)
    BY <1>1, <1>2 DEF Opens, Settling
  <2>2. ~Rested(a, g - 1)
    BY <1>2, <1>3 DEF HasSettled, Rested, Dormant
  <2> QED
    BY <1>2, <1>3, <2>1, <2>2 DEF Asks, HasSettled, Rested
<1>6. Typed'
  BY <1>1, <1>2, <1>4 DEF Typed
<1>7. \A b \in Agents : Observation(b)' = Observation(b)
  BY <1>2, <1>4 DEF Observation, Candidates
<1>8. Opens'
  <2>1. \A b \in Agents : Asks(b)' <=> Asks(b)
    BY <1>2, <1>4, <1>7 DEF Asks, Rested
  <2>2. driver.states = StatesOf(driver.generation) /\ \A b \in driver.sent : Asks(b)
    BY <1>1, <1>2 DEF Opens
  <2>3. driver'.states = StatesOf(driver.generation)'
    BY <1>2, <1>4, <2>2 DEF StatesOf, Start
  <2>4. driver.sent \subseteq Agents
    BY <1>1, DriverAt
  <2> QED
    BY <1>4, <2>1, <2>2, <2>3, <2>4 DEF Opens
<1>9. Settling'
  <2>1. driver.sent = Agents /\ Agents # {}
    BY <1>1, <1>2 DEF Settling
  <2>2. ASSUME NEW b \in Agents, driver'.seen[b] # None
        PROVE  driver'.seen[b] = cells[b] /\ Rested(b, g) /\ inbox[b] = None
    <3>1. CASE b = a
      BY <1>4, <1>5, <3>1
    <3>2. CASE b # a
      BY <1>1, <1>2, <1>4, <2>2, <3>2 DEF Settling
    <3> QED
      BY <3>1, <3>2
  <2> QED
    BY <1>2, <1>4, <2>1, <2>2 DEF Settling, Rested
<1>10. Behind' /\ Dispatching' /\ Restarting' /\ Resting'
  BY <1>1, <1>2, <1>4 DEF Behind, Dispatching, Restarting, Resting
<1>11. DriverFits' /\ AssertionsHold'
  BY <1>4, <1>8, <1>9, <1>10 DEF DriverFits, AssertionsHold
<1>12. FinalistsKnown'
  BY <1>1, <1>2 DEF FinalistsKnown, Known
<1>13. \A h \in Gens : h < driver'.generation => \A b \in Agents : submissions[h][b] # None
  BY <1>1, <1>4 DEF SubmissionsFit
<1> QED
  BY <1>2, <1>6, <1>11, <1>12, <1>13, DriverKeeps

DriverType ==
  [phase : Phases, generation : Gens, sent : SUBSET Agents,
   states : [Agents -> [current : Candidate, credits : Int]], seen : [Agents -> Cell \cup {None}]]

(* It gives up only on cells that failed or cannot pay. *)
LEMMA GivingUpKeeps ==
  ASSUME IInv, GivesUp
  PROVE  IInv'
<1>1. /\ Typed /\ FinalistsKnown /\ SubmissionsFit /\ Behind /\ Failures
  BY DEF IInv, DriverFits
<1>2. /\ UNCHANGED <<mode, cells, inbox, open, closed, evaluations, submissions, finalists, faults>>
      /\ driver' = [driver EXCEPT !.phase = "failed"]
  BY DEF GivesUp, services, kernels
<1>3. /\ driver'.phase = "failed" /\ driver'.generation = driver.generation
      /\ driver' \in DriverType
  BY <1>1, <1>2 DEF Typed, DriverType, Phases
<1>4. Typed'
  BY <1>1, <1>2, <1>3 DEF Typed, DriverType
<1>5. DriverFits'
  BY <1>1, <1>2, <1>3
     DEF DriverFits, Behind, Dispatching, Opens, Settling, Restarting, Resting
<1>6. AssertionsHold'
  <2>1. PICK a \in Agents : cells[a].status = "failed" \/ Unaffordable(a)
    BY DEF GivesUp
  <2>2. faults > 0 \/ Unaffordable(a)
    BY <1>1, <2>1 DEF Failures
  <2> QED
    BY <1>2, <1>3, <2>2 DEF AssertionsHold, Unaffordable
<1>7. FinalistsKnown'
  BY <1>1, <1>2 DEF FinalistsKnown, Known
<1>8. \A h \in Gens : h < driver'.generation => \A b \in Agents : submissions[h][b] # None
  BY <1>1, <1>3 DEF SubmissionsFit
<1> QED
  BY <1>2, <1>4, <1>5, <1>6, <1>7, <1>8, DriverKeeps

(* When every cell rests, its submission is what it shows.                   *)
LEMMA RestedShow ==
  ASSUME IInv, NEW a \in Agents, Rested(a, driver.generation)
  PROVE  /\ cells[a].generation = driver.generation /\ cells[a].status = "waiting"
         /\ submissions[driver.generation][a] = View(cells[a])
         /\ View(cells[a]) \in Submission /\ open[a] = {}
<1>1. driver.generation \in Gens /\ driver.generation > 0 /\ SubmissionsFit
  BY DriverAt DEF IInv
<1>2. cells[a].generation = driver.generation /\ cells[a].status = "waiting"
  BY <1>1 DEF Rested
<1>3. submissions[driver.generation][a] = View(cells[a])
  BY <1>1, <1>2 DEF SubmissionsFit
<1>4. cells[a] \in Cell /\ CellFits(cells[a], open[a], closed[a], mode, Budget(a))
  BY CellAt
<1>5. cells[a].current \in Candidate /\ cells[a].behavior \in Behaviors /\ open[a] = {}
  BY <1>2, <1>4 DEF CellFits, Paid
<1>6. View(cells[a]) \in Submission
  BY <1>4, <1>5, CellFields DEF View, Submission
<1> QED
  BY <1>2, <1>3, <1>5, <1>6

(* The driver goes on from a generation that every cell has done.            *)
LEMMA GoingOnKeeps ==
  ASSUME IInv, \A a \in Agents : inbox[a] = None /\ Rested(a, driver.generation),
         NEW d \in DriverType, d.generation = driver.generation,
         d.states = StatesOf(driver.generation + 1),
         driver' = AfterGeneration(d),
         UNCHANGED <<mode, cells, inbox, open, closed, evaluations, submissions, faults>>,
         finalists' \subseteq Ids, FinalistsKnown'
  PROVE  IInv'
<1> DEFINE g == driver.generation
<1>1. /\ Typed /\ SubmissionsFit /\ g \in Gens /\ g \in Nat /\ g > 0 /\ g <= Generations
  BY DriverAt DEF IInv
<1>2. \A a \in Agents : /\ cells[a].generation = g /\ submissions[g][a] # None
  BY RestedShow, NoneApart
<1>3. CASE g < Generations
  <2> DEFINE seen == [a \in Agents |-> None]
             next == g + 1
  <2>1. driver' = [d EXCEPT !.generation = next, !.phase = "dispatch", !.sent = {}, !.seen = seen]
    BY <1>3 DEF AfterGeneration
  <2>2. next \in Gens /\ seen \in [Agents -> Cell \cup {None}] /\ "dispatch" \in Phases
        /\ next \in Nat /\ next > g
    BY <1>1, <1>3, Numbers DEF Gens, Phases
  <2> HIDE DEF next
  <2>3. /\ driver'.generation = next /\ driver'.phase = "dispatch" /\ driver'.sent = {}
        /\ driver'.seen = seen /\ driver'.states = d.states /\ driver' \in DriverType
    <3> HIDE DEF seen
    <3> QED
      BY <2>1, <2>2 DEF DriverType
  <2>4. Typed'
    BY <1>1, <2>3 DEF Typed, DriverType
  <2>5. Behind'
    BY <1>1, <1>2, <2>2, <2>3 DEF Behind
  <2>6. Dispatching'
    <3>1. driver'.generation - 1 = g
      BY <1>1, <2>3 DEF next
    <3> QED
      BY <2>3, <3>1 DEF Dispatching, Rested
  <2>7. Opens'
    <3>1. driver'.states = StatesOf(driver.generation)'
      BY <2>3 DEF StatesOf, Start, next
    <3> QED
      BY <2>3, <3>1 DEF Opens
  <2>8. DriverFits' /\ AssertionsHold'
    BY <2>3, <2>5, <2>6, <2>7 DEF DriverFits, Settling, Restarting, Resting, AssertionsHold
  <2>9. \A h \in Gens : h < driver'.generation => \A b \in Agents : submissions[h][b] # None
    <3> TAKE h \in Gens
    <3>1. h \in Nat /\ (h < next => h < g \/ h = g)
      BY <1>1, Numbers DEF Gens, next
    <3> QED
      BY <1>1, <1>2, <2>3, <3>1 DEF SubmissionsFit
  <2> QED
    BY <2>4, <2>8, <2>9, DriverKeeps
<1>4. CASE g = Generations
  <2> DEFINE phase == IF mode = "live" /\ Rechecks > 0 THEN "panel" ELSE "final"
  <2>1. driver' = [d EXCEPT !.phase = phase]
    BY <1>1, <1>4 DEF AfterGeneration
  <2>2. phase \in {"panel", "final"} /\ phase \in Phases
    BY DEF Phases
  <2> HIDE DEF phase
  <2>3. /\ driver'.generation = g /\ driver'.phase \in {"panel", "final"} /\ driver' \in DriverType
    BY <2>1, <2>2 DEF DriverType
  <2>4. Typed'
    BY <1>1, <2>3 DEF Typed, DriverType
  <2>5. Behind' /\ Resting'
    <3>1. \A a \in Agents : cells'[a].generation = g /\ inbox'[a] = None
      BY <1>2
    <3>2. \A a \in Agents : Rested(a, driver.generation)'
      BY <2>3 DEF Rested
    <3> QED
      BY <1>1, <1>4, <2>3, <3>1, <3>2 DEF Behind, Resting
  <2>6. DriverFits' /\ AssertionsHold'
    BY <2>3, <2>5
       DEF DriverFits, Dispatching, Opens, Settling, Restarting, AssertionsHold
  <2>7. \A h \in Gens : h < driver'.generation => \A b \in Agents : submissions[h][b] # None
    BY <1>1, <2>3 DEF SubmissionsFit
  <2> QED
    BY <2>4, <2>6, <2>7, DriverKeeps
<1> QED
  BY <1>1, <1>3, <1>4, Numbers

LEMMA RestartKeeps ==
  ASSUME IInv, RestartCelld
  PROVE  IInv'
<1>1. /\ Typed /\ FinalistsKnown /\ Restarting /\ Resting
  BY DEF IInv, DriverFits
<1>2. /\ driver.phase = "restart"
      /\ UNCHANGED <<mode, cells, inbox, open, closed, evaluations, submissions, finalists, faults>>
  BY DEF RestartCelld, services, kernels
<1>3. driver' = AfterGeneration(driver)
  BY <1>1, <1>2 DEF RestartCelld, Restarting
<1>4. /\ driver.states = StatesOf(driver.generation + 1)
      /\ \A a \in Agents : inbox[a] = None /\ Rested(a, driver.generation)
  BY <1>1, <1>2 DEF Restarting, Resting
<1>5. finalists' \subseteq Ids /\ FinalistsKnown' /\ driver \in DriverType
  BY <1>1, <1>2 DEF Typed, FinalistsKnown, Known, DriverType
<1> QED
  BY <1>2, <1>3, <1>4, <1>5, GoingOnKeeps

LEMMA FinishKeeps ==
  ASSUME IInv, Finish
  PROVE  IInv'
<1>1. /\ Typed /\ FinalistsKnown /\ Resting /\ SubmissionsFit /\ Behind
  BY DEF IInv, DriverFits
<1>2. /\ driver.phase = "final"
      /\ UNCHANGED <<mode, cells, inbox, open, closed, evaluations, submissions, finalists, faults>>
  BY DEF Finish, services, kernels
<1>3. /\ driver.generation = Generations
      /\ \A a \in Agents : inbox[a] = None /\ Rested(a, driver.generation)
  BY <1>1, <1>2 DEF Resting
<1>4. \A a \in Agents : cells[a].generation = Generations /\ cells[a].status = "waiting"
                        /\ open[a] = {}
  BY <1>3, RestedShow
<1>5. driver' = [driver EXCEPT !.phase = "completed"]
  BY <1>4 DEF Finish
<1>6. /\ driver'.phase = "completed" /\ driver'.generation = driver.generation
      /\ driver' \in DriverType
  BY <1>1, <1>5 DEF Typed, DriverType, Phases
<1>7. Typed'
  BY <1>1, <1>2, <1>6 DEF Typed, DriverType
<1>8. DriverFits' /\ AssertionsHold'
  BY <1>1, <1>2, <1>3, <1>6
     DEF DriverFits, Behind, Dispatching, Opens, Settling, Restarting, Resting, Rested, AssertionsHold
<1>9. FinalistsKnown'
  BY <1>1, <1>2 DEF FinalistsKnown, Known
<1>10. \A h \in Gens : h < driver'.generation => \A b \in Agents : submissions[h][b] # None
  BY <1>1, <1>6 DEF SubmissionsFit
<1> QED
  BY <1>2, <1>7, <1>8, <1>9, <1>10, DriverKeeps

-----------------------------------------------------------------------------
(* The finalist of a generation. *)
Better(snapshot, a, b) ==
  \/ snapshot[a].current.score > snapshot[b].current.score
  \/ snapshot[a].current.score = snapshot[b].current.score /\ a <= b
Above(snapshot, a) == {b \in Agents : ~Better(snapshot, a, b)}

(* The finalist of a snapshot is one of its cells (generationFinalist): of    *)
(* finitely many scores one is the best, and of the agents that have it one  *)
(* is the first.                                                             *)
THEOREM FinalistIsOfTheSnapshot ==
  ASSUME NEW snapshot \in [Agents -> Submission], Agents # {}
  PROVE  Finalist(snapshot) \in Agents
<1> DEFINE Size(a) == Cardinality(Above(snapshot, a))
           sizes == {Size(a) : a \in Agents}
<1>1. IsFiniteSet(Agents) /\ Agents \subseteq Nat
  BY SwarmRunAssumption DEF SwarmRunAssumption
<1>2. \A a \in Agents : /\ IsFiniteSet(Above(snapshot, a)) /\ Size(a) \in Nat
                        /\ Above(snapshot, a) \subseteq Agents
  <2> TAKE a \in Agents
  <2>1. Above(snapshot, a) \subseteq Agents
    BY DEF Above
  <2> QED
    BY <1>1, <2>1, FS_Subset, FS_CardinalityType
<1>3. sizes \subseteq Nat /\ sizes # {}
  BY <1>2
<1>4. PICK a \in Agents : \A b \in Agents : Size(a) <= Size(b)
  <2>1. PICK n \in sizes : \A k \in sizes : n <= k
    BY <1>3, LeastNumber
  <2> QED
    BY <2>1
<1>5. \A b \in Agents : snapshot[b].current.score \in Int
  BY DEF Submission, Candidate
<1>6. ASSUME NEW b \in Agents, ~Better(snapshot, a, b)
      PROVE  FALSE
  <2>1. \A c \in Agents : ~Better(snapshot, b, c) => ~Better(snapshot, a, c)
    BY <1>1, <1>5, <1>6 DEF Better
  <2>2. Above(snapshot, b) \subseteq Above(snapshot, a)
    BY <2>1 DEF Above
  <2>3. b \in Above(snapshot, a)
    BY <1>6 DEF Above
  <2>4. b \notin Above(snapshot, b)
    BY <1>1, <1>5 DEF Above, Better
  <2>5. Size(b) < Size(a)
    <3>1. Above(snapshot, b) # Above(snapshot, a)
      BY <2>3, <2>4
    <3>2. IsFiniteSet(Above(snapshot, a)) /\ Size(a) \in Nat /\ Size(b) \in Nat
      BY <1>2
    <3>3. Cardinality(Above(snapshot, b)) <= Cardinality(Above(snapshot, a))
      BY <2>2, <3>2, FS_Subset
    <3>4. Cardinality(Above(snapshot, b)) # Cardinality(Above(snapshot, a))
      BY <2>2, <3>1, <3>2, FS_Subset
    <3> QED
      BY <3>2, <3>3, <3>4
  <2>6. Size(a) <= Size(b) /\ Size(a) \in Nat /\ Size(b) \in Nat
    BY <1>2, <1>4
  <2> QED
    BY <2>5, <2>6
<1>7. \E f \in DOMAIN snapshot : \A b \in DOMAIN snapshot : Better(snapshot, f, b)
  BY <1>6
<1> QED
  BY <1>7 DEF Finalist, Better

LEMMA CloseKeeps ==
  ASSUME IInv, CloseGeneration
  PROVE  IInv'
<1> DEFINE g == driver.generation
           snapshot == submissions[g]
           states == StatesAfter(snapshot)
           closing == [driver EXCEPT !.states = states]
           finalist == snapshot[Finalist(snapshot)].current
<1>1. /\ Typed /\ FinalistsKnown /\ SubmissionsKnown /\ SubmissionsFit /\ Settling
      /\ g \in Gens /\ g \in Nat /\ g > 0
  BY DriverAt DEF IInv, DriverFits
<1>2. /\ driver.phase = "settle" /\ \A a \in Agents : driver.seen[a] # None
      /\ UNCHANGED <<mode, cells, inbox, open, closed, evaluations, submissions, faults>>
  BY DEF CloseGeneration, kernels
<1>3. /\ Agents # {}
      /\ \A a \in Agents : driver.seen[a] = cells[a] /\ Rested(a, g) /\ inbox[a] = None
  BY <1>1, <1>2 DEF Settling
<1>4. \A a \in Agents : /\ cells[a].generation = g
                        /\ snapshot[a] = View(cells[a]) /\ snapshot[a] \in Submission
  BY <1>3, RestedShow
<1>5. \A a \in Agents : snapshot[a] # None
  BY <1>4, NoneApart
<1>6. snapshot \in [Agents -> Submission]
  BY <1>1, <1>4 DEF Typed
<1>7. /\ driver' = IF g = 1 THEN [closing EXCEPT !.phase = "restart"] ELSE AfterGeneration(closing)
      /\ finalists' = IF mode = "live" THEN finalists \cup {finalist.id} ELSE finalists
  BY <1>5 DEF CloseGeneration
<1>8. states = StatesOf(g + 1)
  <2>1. \A a \in Agents : Start(g + 1, a) = snapshot[a]
    BY <1>1 DEF Start
  <2>2. \A a \in Agents : driver.seen[a].current = snapshot[a].current
                          /\ driver.seen[a].credits = snapshot[a].credits
    <3> TAKE a \in Agents
    <3>1. View(cells[a]).current = cells[a].current /\ View(cells[a]).credits = cells[a].credits
      BY DEF View
    <3>2. driver.seen[a] = cells[a] /\ snapshot[a] = View(cells[a])
      BY <1>3, <1>4
    <3> QED
      BY <3>1, <3>2
  <2> QED
    BY <2>1, <2>2 DEF StatesAfter, StatesOf
<1>9. states \in [Agents -> [current : Candidate, credits : Int]]
  <2>1. \A a \in Agents : snapshot[a].current \in Candidate /\ snapshot[a].credits \in Int
    BY <1>4 DEF Submission
  <2>2. \A a \in Agents : Start(g + 1, a) = snapshot[a]
    BY <1>1 DEF Start
  <2> QED
    BY <1>8, <2>1, <2>2 DEF StatesOf
<1> HIDE DEF states
<1>10. /\ closing \in DriverType /\ closing.generation = g /\ closing.states = states
       /\ closing.seen = driver.seen
  BY <1>1, <1>9 DEF Typed, DriverType
<1>11. finalists' \subseteq Ids /\ FinalistsKnown'
  <2>1. Finalist(snapshot) \in Agents
    BY <1>3, <1>6, FinalistIsOfTheSnapshot
  <2>2. finalist.id \in Ids
    BY <1>4, <2>1 DEF Submission, Candidate
  <2>3. mode = "live" => Known(finalist.id)
    BY <1>1, <1>5, <2>1 DEF SubmissionsKnown
  <2> HIDE DEF finalist
  <2>4. \A id \in finalists' : Known(id)
    BY <1>1, <1>7, <2>3 DEF FinalistsKnown
  <2> QED
    BY <1>1, <1>2, <1>7, <2>2, <2>4 DEF Typed, FinalistsKnown, Known
<1> HIDE DEF closing, finalist, snapshot
<1>12. CASE g = 1
  <2>1. driver' = [closing EXCEPT !.phase = "restart"]
    BY <1>7, <1>12
  <2>2. /\ driver'.phase = "restart" /\ driver'.generation = g /\ driver'.states = states
        /\ driver'.seen = driver.seen /\ driver' \in DriverType
    BY <1>10, <2>1 DEF DriverType, Phases
  <2>3. Typed'
    BY <1>1, <1>2, <1>11, <2>2 DEF Typed, DriverType
  <2>4. Restarting'
    <3>1. driver'.states = StatesOf(driver.generation + 1)'
      BY <1>2, <1>8, <2>2 DEF StatesOf, Start
    <3> QED
      BY <1>2, <1>3, <2>2, <3>1 DEF Restarting
  <2>5. Behind' /\ Resting'
    <3>1. \A a \in Agents : cells'[a].generation = g /\ inbox'[a] = None
      BY <1>2, <1>3, <1>4
    <3>2. \A a \in Agents : Rested(a, driver.generation)'
      BY <1>2, <1>3, <2>2 DEF Rested
    <3> QED
      BY <1>1, <2>2, <3>1, <3>2 DEF Behind, Resting
  <2>6. DriverFits' /\ AssertionsHold'
    BY <2>2, <2>4, <2>5 DEF DriverFits, Dispatching, Opens, Settling, AssertionsHold
  <2>7. \A h \in Gens : h < driver'.generation => \A b \in Agents : submissions[h][b] # None
    BY <1>1, <2>2 DEF SubmissionsFit
  <2> QED
    BY <1>2, <1>11, <2>3, <2>6, <2>7, DriverKeeps
<1>13. CASE g # 1
  <2>1. driver' = AfterGeneration(closing)
    BY <1>7, <1>13
  <2> QED
    BY <1>2, <1>3, <1>8, <1>10, <1>11, <2>1, GoingOnKeeps
<1> QED
  BY <1>12, <1>13

-----------------------------------------------------------------------------
(* The panel is the evaluated candidates, each of them.                      *)
(* Between finite sets of one size, what keeps values apart reaches all.      *)
Apart(f, S) == \A x, y \in S : x # y => f[x] # f[y]
LEMMA Onto ==
  ASSUME NEW S, NEW T, IsFiniteSet(S), IsFiniteSet(T), Cardinality(S) = Cardinality(T),
         NEW f, f \in [S -> T], Apart(f, S)
  PROVE  \A t \in T : \E x \in S : f[x] = t
<1> SUFFICES ASSUME NEW t \in T, \A x \in S : f[x] # t PROVE FALSE
  OBVIOUS
<1> DEFINE U == T \ {t}
<1>1. IsFiniteSet(U) /\ Cardinality(U) = Cardinality(T) - 1
  BY FS_RemoveElement
<1>2. f \in [S -> U]
  OBVIOUS
<1>3. Cardinality(T) \in Nat
  BY FS_CardinalityType
<1> HIDE DEF U
<1>4. Cardinality(U) < Cardinality(S)
  BY <1>1, <1>3
<1> QED
  BY <1>1, <1>2, <1>4, FS_PigeonHole DEF Apart

Numbered(S) == S \subseteq Nat

(* A finite set of numbers has an ascending sequence, by the rank of its      *)
(* members, and each ascending sequence has all of them, and each once: the   *)
(* sort of targetCandidatePanel() loses nobody.                              *)
THEOREM AscendingHasAll ==
  ASSUME NEW S, Numbered(S), IsFiniteSet(S)
  PROVE  /\ Ascending(S) \in [1..Cardinality(S) -> S]
         /\ Apart(Ascending(S), DOMAIN Ascending(S))
         /\ \A x \in S : \E i \in DOMAIN Ascending(S) : Ascending(S)[i] = x
<1> DEFINE n == Cardinality(S)
           Below(x) == {y \in S : y <= x}
           rank == [x \in S |-> Cardinality(Below(x))]
<1>0. \A x \in S : x \in Nat
  BY DEF Numbered
<1>1. n \in Nat /\ IsFiniteSet(1..n) /\ Cardinality(1..n) = n
  BY FS_CardinalityType, FS_Interval
<1>2. \A x \in S : Below(x) \in SUBSET S /\ IsFiniteSet(Below(x))
  <2> TAKE x \in S
  <2>1. Below(x) \in SUBSET S
    OBVIOUS
  <2> HIDE DEF Below
  <2> QED
    BY <2>1, FS_Subset
<1>3. \A x, y \in S : x < y => Cardinality(Below(x)) < Cardinality(Below(y))
  <2> TAKE x, y \in S
  <2> HAVE x < y
  <2>1. Below(x) \in SUBSET Below(y) /\ y \in Below(y) /\ y \notin Below(x)
    <3>1. x \in Nat /\ y \in Nat
      BY <1>0
    <3>2. \A z \in S : z <= x => z <= y
      BY <1>0, <3>1
    <3>3. Below(x) \subseteq Below(y)
      BY <3>2
    <3>4. y \in Below(y) /\ y \notin Below(x)
      BY <3>1
    <3> QED
      BY <3>3, <3>4
  <2>2. IsFiniteSet(Below(y)) /\ IsFiniteSet(Below(x))
    BY <1>2
  <2> HIDE DEF Below
  <2>3. /\ Cardinality(Below(x)) <= Cardinality(Below(y))
        /\ Cardinality(Below(x)) # Cardinality(Below(y))
    BY <2>1, <2>2, FS_Subset
  <2>4. Cardinality(Below(x)) \in Nat /\ Cardinality(Below(y)) \in Nat
    BY <2>2, FS_CardinalityType
  <2> QED
    BY <2>3, <2>4
<1>4. \A x \in S : rank[x] \in 1..n
  <2> TAKE x \in S
  <2>1. x \in Below(x)
    BY <1>0
  <2>2. Below(x) \in SUBSET S /\ IsFiniteSet(Below(x))
    BY <1>2
  <2> HIDE DEF Below
  <2>3. Cardinality(Below(x)) <= n
    BY <2>2, FS_Subset
  <2>4. Cardinality(Below(x)) \in Nat /\ Cardinality(Below(x)) # 0
    BY <2>1, <2>2, FS_CardinalityType, FS_EmptySet
  <2> QED
    BY <1>1, <2>3, <2>4
<1>5. \A x, y \in S : x < y => rank[x] < rank[y]
  BY <1>3
<1>6. rank \in [S -> 1..n]
  BY <1>4
<1> HIDE DEF rank, n
<1>7. \A k \in 1..n : \E x \in S : rank[x] = k
  <2>1. \A x, y \in S : x # y => rank[x] # rank[y]
    <3> TAKE x, y \in S
    <3>1. x < y \/ y < x \/ x = y
      BY <1>0
    <3>2. rank[x] \in Nat /\ rank[y] \in Nat
      BY <1>1, <1>4
    <3> QED
      BY <1>5, <3>1, <3>2
  <2>2. Cardinality(S) = Cardinality(1..n)
    BY <1>1 DEF n
  <2> DEFINE Ranks == 1..n
  <2>3. IsFiniteSet(S) /\ IsFiniteSet(Ranks) /\ Cardinality(S) = Cardinality(Ranks)
        /\ rank \in [S -> Ranks] /\ Apart(rank, S)
    BY <1>1, <1>6, <2>1, <2>2 DEF Apart
  <2> HIDE DEF Ranks, Below
  <2>4. \A k \in Ranks : \E x \in S : rank[x] = k
    BY <2>3, Onto
  <2> QED
    BY <2>4 DEF Ranks
<1> DEFINE up == [k \in 1..n |-> CHOOSE x \in S : rank[x] = k]
<1>8. \A k \in 1..n : up[k] \in S /\ rank[up[k]] = k
  BY <1>7
<1>9. up \in [1..n -> S]
  BY <1>8
<1> HIDE DEF up
<1>10. \A i, j \in 1..n : i < j => up[i] < up[j]
  <2> TAKE i, j \in 1..n
  <2> HAVE i < j
  <2>1. up[i] \in S /\ up[j] \in S /\ rank[up[i]] = i /\ rank[up[j]] = j
    BY <1>8
  <2>2. up[i] \in Nat /\ up[j] \in Nat
    BY <1>0, <2>1
  <2>3. up[i] < up[j] \/ up[j] < up[i] \/ up[i] = up[j]
    BY <2>2
  <2> QED
    BY <1>5, <2>1, <2>2, <2>3
<1>11. \E s \in [1..n -> S] : \A i, j \in DOMAIN s : i < j => s[i] < s[j]
  BY <1>9, <1>10
<1> DEFINE s == Ascending(S)
<1>12. s \in [1..n -> S] /\ \A i, j \in DOMAIN s : i < j => s[i] < s[j]
  BY <1>11 DEF Ascending, n
<1> HIDE DEF s
<1>13. \A i, j \in 1..n : i # j => s[i] # s[j]
  <2> TAKE i, j \in 1..n
  <2>0. n \in Nat
    BY <1>1
  <2>1. i \in Nat /\ j \in Nat
    BY <2>0
  <2>3. s[i] \in S /\ s[j] \in S
    BY <1>12
  <2>4. s[i] \in Nat /\ s[j] \in Nat
    BY <1>0, <2>3
  <2>2. (i < j => s[i] < s[j]) /\ (j < i => s[j] < s[i])
    BY <1>12
  <2> QED
    BY <2>1, <2>2, <2>4
<1>14. \A x \in S : \E i \in 1..n : s[i] = x
  <2>1. Cardinality(1..n) = Cardinality(S)
    BY <1>1 DEF n
  <2>2. Apart(s, 1..n)
    BY <1>13 DEF Apart
  <2> QED
    BY <1>1, <1>12, <2>1, <2>2, Onto
<1> QED
  BY <1>12, <1>13, <1>14 DEF s, n, Apart

(* Every evaluated candidate but the baseline is in the panel.               *)
Shown == {x \in Gens \X Agents : evaluations[x[1]][x[2]] # None}

Measurable == {e.id : e \in {evaluations[ga[1]][ga[2]] : ga \in Shown}} \ {Seed}

LEMMA PanelFits ==
  ASSUME Typed
  PROVE  /\ IsFiniteSet(Measurable) /\ Numbered(Measurable) /\ Measurable \subseteq Ids
         /\ PanelNow = Ascending(Measurable)
<1> DEFINE evaluated == {evaluations[ga[1]][ga[2]] : ga \in Shown}
           name == [x \in Shown |-> evaluations[x[1]][x[2]].id]
           names == {name[x] : x \in Shown}
<1>1. \A x \in Shown : evaluations[x[1]][x[2]] \in [id : Ids, behavior : Behaviors]
  BY DEF Shown, Typed
<1>2. IsFiniteSet(Shown)
  <2>1. IsFiniteSet(Gens) /\ IsFiniteSet(Agents)
    BY Numbers, SwarmRunAssumption, FS_Interval DEF SwarmRunAssumption, Gens
  <2>2. IsFiniteSet(Gens \X Agents)
    BY <2>1, FS_Product
  <2>3. Shown \in SUBSET (Gens \X Agents)
    BY DEF Shown
  <2> QED
    BY <2>2, <2>3, FS_Subset
<1>3. IsFiniteSet(names)
  <2>1. name \in Surjection(Shown, names)
    BY DEF Surjection
  <2> HIDE DEF name, names
  <2> QED
    BY <1>2, <2>1, FS_Surjection
<1>4. Measurable \in SUBSET names
  BY DEF Measurable
<1>5. IsFiniteSet(Measurable)
  <2> HIDE DEF names
  <2> QED
    BY <1>3, <1>4, FS_Subset
<1>6. Measurable \subseteq Ids
  BY <1>1 DEF Measurable
<1>7. Numbered(Measurable)
  BY <1>6, Numbers DEF Numbered
<1>8. PanelNow = Ascending(Measurable)
  BY DEF PanelNow, Panel, Measurable, Shown
<1> QED
  BY <1>5, <1>6, <1>7, <1>8

LEMMA PanelHasAll ==
  ASSUME Typed, NEW id, id # Seed, Known(id)
  PROVE  id \in PanelIds
<1>1. id \in Measurable
  <2> DEFINE evaluated == {evaluations[ga[1]][ga[2]] : ga \in Shown}
  <2>1. PICK g \in Gens, a \in Agents : evaluations[g][a] # None /\ evaluations[g][a].id = id
    BY DEF Known
  <2>2. <<g, a>> \in Shown
    BY <2>1 DEF Shown
  <2>3. evaluations[g][a] \in evaluated
    BY <2>2
  <2> HIDE DEF evaluated
  <2> QED
    BY <2>1, <2>3 DEF Measurable, evaluated
<1>2. \E i \in DOMAIN Ascending(Measurable) : Ascending(Measurable)[i] = id
  BY <1>1, PanelFits, AscendingHasAll
<1> QED
  BY <1>2, PanelFits DEF PanelIds

(* The measurements of the panel. *)
LEMMA RecheckKeeps ==
  ASSUME IInv, BeginRecheck
  PROVE  IInv'
<1>1. /\ Typed /\ FinalistsKnown /\ Resting /\ SubmissionsFit /\ Behind
  BY DEF IInv, DriverFits
<1>2. /\ driver.phase = "panel"
      /\ UNCHANGED <<mode, cells, inbox, open, closed, evaluations, submissions, finalists, faults>>
  BY DEF BeginRecheck, services, kernels
<1>3. finalists \ {Seed} \subseteq PanelIds
  BY <1>1, PanelHasAll DEF FinalistsKnown
<1>4. driver' = [driver EXCEPT !.phase = "recheck"]
  BY <1>3 DEF BeginRecheck
<1>5. /\ driver'.phase = "recheck" /\ driver'.generation = driver.generation
      /\ driver' \in DriverType
  BY <1>1, <1>4 DEF Typed, DriverType, Phases
<1>6. Typed'
  BY <1>1, <1>2, <1>5 DEF Typed, DriverType
<1>7. DriverFits' /\ AssertionsHold'
  BY <1>1, <1>2, <1>5
     DEF DriverFits, Behind, Dispatching, Opens, Settling, Restarting, Resting, Rested, AssertionsHold
<1>8. FinalistsKnown'
  BY <1>1, <1>2 DEF FinalistsKnown, Known
<1>9. \A h \in Gens : h < driver'.generation => \A b \in Agents : submissions[h][b] # None
  BY <1>1, <1>5 DEF SubmissionsFit
<1> QED
  BY <1>2, <1>6, <1>7, <1>8, <1>9, DriverKeeps

LEMMA RepeatKeeps ==
  ASSUME IInv, NextRepeat
  PROVE  IInv'
<1>1. /\ Typed /\ FinalistsKnown /\ Resting /\ SubmissionsFit /\ Behind
  BY DEF IInv, DriverFits
<1>2. /\ driver.phase = "recheck"
      /\ UNCHANGED <<mode, cells, inbox, open, closed, evaluations, submissions, finalists, faults>>
  BY DEF NextRepeat, services, kernels
<1>3. CASE driver' = driver
  BY <1>2, <1>3, StandStill
<1>4. CASE driver' = [driver EXCEPT !.phase = "final"]
  <2>1. /\ driver'.phase = "final" /\ driver'.generation = driver.generation
        /\ driver' \in DriverType
    BY <1>1, <1>4 DEF Typed, DriverType, Phases
  <2>2. Typed'
    BY <1>1, <1>2, <2>1 DEF Typed, DriverType
  <2>3. DriverFits' /\ AssertionsHold'
    BY <1>1, <1>2, <2>1
       DEF DriverFits, Behind, Dispatching, Opens, Settling, Restarting, Resting, Rested,
           AssertionsHold
  <2>4. FinalistsKnown'
    BY <1>1, <1>2 DEF FinalistsKnown, Known
  <2>5. \A h \in Gens : h < driver'.generation => \A b \in Agents : submissions[h][b] # None
    BY <1>1, <2>1 DEF SubmissionsFit
  <2> QED
    BY <1>2, <2>2, <2>3, <2>4, <2>5, DriverKeeps
<1> QED
  BY <1>3, <1>4 DEF NextRepeat

-----------------------------------------------------------------------------
(* The inductive invariant. *)
LEMMA InitFits == Init => IInv
<1> SUFFICES ASSUME Init PROVE IInv
  OBVIOUS
<1>1. /\ driver = [phase |-> "dispatch", generation |-> 1, sent |-> {},
                   states |-> [a \in Agents |-> FreshState], seen |-> [a \in Agents |-> None]]
      /\ \A a \in Agents : /\ cells[a] = Dormant /\ inbox[a] = None
                           /\ open[a] = {} /\ closed[a] = {}
      /\ \A g \in Gens : \A a \in Agents : evaluations[g][a] = None /\ submissions[g][a] = None
  BY DEF Init, NothingYet
<1>2. Dormant \in Cell
  BY Numbers DEF Dormant, Cell, Statuses
<1>3. FreshState \in [current : Candidate, credits : Int]
  BY Numbers DEF FreshState, SeedCandidate, Candidate
<1>4. Typed
  <2>1. mode \in {"live", "mock"} /\ faults \in Nat /\ finalists \subseteq Ids
    BY SwarmRunAssumption DEF Init, SwarmRunAssumption
  <2>2. cells \in [Agents -> Cell] /\ DOMAIN inbox = Agents
        /\ open \in [Agents -> SUBSET Asked] /\ closed \in [Agents -> SUBSET Asked]
    BY <1>2 DEF Init
  <2>3. /\ evaluations \in [Gens -> [Agents -> [id : Ids, behavior : Behaviors] \cup {None}]]
        /\ submissions \in [Gens -> [Agents -> Submission \cup {None}]]
    BY DEF Init, NothingYet
  <2>4. driver \in DriverType
    <3>1. /\ [a \in Agents |-> FreshState] \in [Agents -> [current : Candidate, credits : Int]]
          /\ [a \in Agents |-> None] \in [Agents -> Cell \cup {None}]
          /\ 1 \in Gens /\ "dispatch" \in Phases
      BY <1>3, Numbers DEF Gens, Phases
    <3> QED
      BY <1>1, <3>1 DEF DriverType
  <2> QED
    BY <2>1, <2>2, <2>3, <2>4 DEF Typed, DriverType
<1>5. CellsFit
  BY <1>1 DEF CellsFit, CellFits, Dormant, Early
<1>6. SeesStart
  BY <1>1 DEF SeesStart, SeesAt, Dormant
<1>7. SubmissionsFit
  <2>1. \A g \in Gens : g \in Nat /\ g > 0
    BY Numbers DEF Gens
  <2> QED
    BY <1>1, <2>1 DEF SubmissionsFit, Dormant
<1>8. DriverFits
  <2>1. Behind
    BY <1>1 DEF Behind, Dormant
  <2>2. Dispatching
    BY <1>1 DEF Dispatching, Rested
  <2>3. Opens
    BY <1>1, <1>3 DEF Opens, StatesOf, Start
  <2> QED
    BY <1>1, <2>1, <2>2, <2>3 DEF DriverFits, Settling, Restarting, Resting
<1>9. FreshEvaluations /\ SubmissionsKnown /\ CreditsAreSpentOnce
  BY <1>1 DEF FreshEvaluations, SubmissionsKnown, CreditsAreSpentOnce
<1>10. FinalistsKnown /\ Failures /\ AssertionsHold
  BY <1>1 DEF Init, FinalistsKnown, Failures, AssertionsHold, Dormant
<1> QED
  BY <1>4, <1>5, <1>6, <1>7, <1>8, <1>9, <1>10 DEF IInv

LEMMA NextFits == IInv /\ [Next]_vars => IInv'
<1> SUFFICES ASSUME IInv, [Next]_vars PROVE IInv'
  OBVIOUS
<1>1. ASSUME NEW a \in Agents, CellStep(a) PROVE IInv'
  <2>1. CASE HandleOpening(a)
    BY <2>1, OpeningKeeps
  <2>2. CASE ModelAnswers(a)
    BY <2>2, ModelKeeps
  <2>3. CASE ToolAnswers(a)
    BY <2>3, ToolKeeps
  <2>4. CASE EvaluatorAnswers(a)
    BY <2>4, EvaluatorKeeps
  <2>5. CASE MockDecides(a)
    BY <2>5, DecisionKeeps
  <2>6. CASE MockMaterializes(a)
    BY <2>6, WorkKeeps
  <2>7. CASE BoardAccepts(a)
    BY <2>7, BoardKeeps
  <2> QED
    BY <1>1, <2>1, <2>2, <2>3, <2>4, <2>5, <2>6, <2>7 DEF CellStep
<1>2. ASSUME NEW a \in Agents, Dispatch(a) \/ Settle(a) PROVE IInv'
  BY <1>2, DispatchKeeps, SettleKeeps
<1>3. ASSUME NEW drifts \in BOOLEAN, MeasureBlock(drifts) PROVE IInv'
  <2>1. UNCHANGED <<mode, cells, inbox, open, closed, evaluations, submissions, driver,
                    finalists, faults>>
    BY <1>3 DEF MeasureBlock, kernels, services
  <2> QED
    BY <2>1, StandStill
<1>4. CASE DriverStep
  BY <1>2, <1>3, <1>4, GivingUpKeeps, CloseKeeps, RestartKeeps, FinishKeeps, RecheckKeeps,
     RepeatKeeps DEF DriverStep
<1>5. ASSUME NEW a \in Agents, ActionFails(a) PROVE IInv'
  BY <1>5, FailureKeeps
<1>6. CASE UNCHANGED vars
  BY <1>6, StandStill DEF vars, kernels, services
<1> QED
  BY <1>1, <1>4, <1>5, <1>6 DEF Next, GoesOn

LEMMA InvariantHolds == Spec => []IInv
BY InitFits, NextFits, PTL DEF Spec

-----------------------------------------------------------------------------
(* What it shows. *)
LEMMA AwaitedRuns == IInv => NobodyWaitsInVain
<1> SUFFICES ASSUME IInv, NEW a \in Agents
             PROVE  /\ open[a] \subseteq {cells[a].expected}
                    /\ cells[a].expected # None =>
                         cells[a].expected \in open[a] \/ Unaffordable(a)
  BY DEF NobodyWaitsInVain
<1>1. /\ cells[a] \in Cell /\ mode \in {"live", "mock"}
      /\ CellFits(cells[a], open[a], closed[a], mode, Budget(a))
  BY CellAt
<1>2. cells[a].status \in Statuses
  BY <1>1, CellFields
<1>3. CASE cells[a].status \in {"idle", "waiting", "failed"}
  BY <1>1, <1>3 DEF CellFits
<1>4. CASE cells[a].status = "deciding" /\ mode # "live"
           /\ CannotPay(cells[a], open[a], closed[a])
  <2>1. Unaffordable(a)
    BY <1>1, <1>4 DEF CannotPay, Unaffordable
  <2> QED
    BY <1>4, <2>1 DEF CannotPay
<1>5. CASE open[a] = {cells[a].expected}
  BY <1>5
<1> QED
  BY <1>1, <1>2, <1>3, <1>4, <1>5 DEF CellFits, Statuses

LEMMA NeighboursAreFrozen == IInv => FrozenNeighbourhood
<1> SUFFICES ASSUME IInv, NEW a \in Agents, cells[a].visible # <<>>, cells[a].generation > 1
             PROVE  LET before == submissions[cells[a].generation - 1] IN
                    /\ \A b \in Agents : before[b] # None
                    /\ \A i \in DOMAIN Neighbours[a] :
                         cells[a].visible[i] = before[Neighbours[a][i]].current
  BY DEF FrozenNeighbourhood
<1> DEFINE g == cells[a].generation
<1>1. /\ Typed /\ SubmissionsFit /\ Behind /\ SeesAt(a) /\ driver.generation \in Nat
  BY DriverAt DEF IInv, DriverFits, SeesStart
<1>2. cells[a] \in Cell
  BY CellAt
<1>3. g \in Nat /\ g \in 0..Generations
  BY <1>2, CellFields
<1>4. g - 1 \in Gens /\ g - 1 < driver.generation
  BY <1>1, <1>3, Numbers DEF Behind, Gens
<1>5. \A b \in Agents : submissions[g - 1][b] # None
  BY <1>1, <1>4 DEF SubmissionsFit
<1>6. \A b : Start(g, b) = submissions[g - 1][b]
  BY <1>3 DEF Start
<1>7. cells[a].visible = [i \in DOMAIN Neighbours[a] |-> Start(g, Neighbours[a][i]).current]
  BY <1>1 DEF SeesAt
<1> QED
  BY <1>5, <1>6, <1>7

(* Of every run, whatever the cells, the neighbourhoods and the bounds of    *)
(* the loop: the state is well-formed, with credits and counts as numbers,   *)
(* and every cell holds what its status says (IInv).                         *)
THEOREM TypesHold == Spec => []Typed
<1>1. IInv => Typed
  BY DEF IInv
<1> QED
  BY <1>1, InvariantHolds, PTL

(* No cell waits for an action that is not running: no loop, rejection or    *)
(* failure asks for an identifier that was used before, and normalizeState() *)
(* takes no loop from a cell that still needs it (onAgentEvent).             *)
THEOREM CellsAreServed == Spec => []NobodyWaitsInVain
BY InvariantHolds, AwaitedRuns, PTL

(* No assertion of the driver fails, at the settle barrier, across the        *)
(* restart of celld, at the panel and at the end, and it gives up on a run    *)
(* only for a reason (swarm-celld-run.mjs).                                  *)
THEOREM RunsAreSound == Spec => []AssertionsHold
<1>1. IInv => AssertionsHold
  BY DEF IInv
<1> QED
  BY <1>1, InvariantHolds, PTL

(* What a cell sees of its neighbours is what all of them submitted to the    *)
(* generation before, although some have begun to change it.                 *)
THEOREM NeighboursStayFrozen == Spec => []FrozenNeighbourhood
BY InvariantHolds, NeighboursAreFrozen, PTL

(* The credits of the submissions are a ledger of what the behaviours cost,   *)
(* and never negative (chargeBehavior, rejectModelDecisionAndWait).          *)
THEOREM LedgersBalance == Spec => []CreditsAreSpentOnce
<1>1. IInv => CreditsAreSpentOnce
  BY DEF IInv
<1> QED
  BY <1>1, InvariantHolds, PTL

-----------------------------------------------------------------------------
(* The measurement of the panel: orders, blocks and what they add up to.     *)
LEMMA SmallRemainder ==
  ASSUME NEW n \in Nat, n > 0, NEW x \in Nat, x < n + n
  PROVE  x % n = IF x < n THEN x ELSE x - n
<1>1. x < n => x % n = x
  OBVIOUS
<1>2. n <= x => x % n = x - n
  OBVIOUS
<1> QED
  BY <1>1, <1>2

(* Each is an order of the same panel.                                       *)
Reorders(q, p, n) ==
  /\ DOMAIN q = 1..n
  /\ \A j \in 1..n : \E i \in 1..n : q[j] = p[i]
  /\ \A i \in 1..n : \E j \in 1..n : q[j] = p[i]
  /\ Apart(q, 1..n)

LEMMA LengthOf ==
  ASSUME NEW n \in Nat, NEW p, DOMAIN p = 1..n, p = [i \in 1..n |-> p[i]]
  PROVE  Len(p) = n
<1>1. p \in Seq({p[i] : i \in 1..n})
  OBVIOUS
<1> QED
  BY <1>1

LEMMA RotationReorders ==
  ASSUME NEW n \in Nat, n > 0, NEW p, DOMAIN p = 1..n, Len(p) = n, Apart(p, 1..n),
         NEW offset \in 0..(n - 1)
  PROVE  Reorders(Rotated(p, offset), p, n)
<1> DEFINE at(i) == 1 + ((i - 1 + offset) % n)
           q == Rotated(p, offset)
<1>1. DOMAIN q = 1..n /\ \A i \in 1..n : q[i] = p[at(i)]
  BY DEF Rotated
<1>2. \A i \in 1..n : at(i) = IF i + offset <= n THEN i + offset ELSE i + offset - n
  <2> TAKE i \in 1..n
  <2>1. i - 1 + offset \in Nat /\ i - 1 + offset < n + n
    OBVIOUS
  <2> QED
    BY <2>1, SmallRemainder
<1> HIDE DEF at, q
<1>3. \A i \in 1..n : at(i) \in 1..n
  BY <1>2
<1>4. \A i \in 1..n : \E j \in 1..n : at(j) = i
  <2> TAKE i \in 1..n
  <2> DEFINE j == IF i > offset THEN i - offset ELSE i - offset + n
  <2>1. j \in 1..n /\ (IF j + offset <= n THEN j + offset ELSE j + offset - n) = i
    OBVIOUS
  <2> QED
    BY <1>2, <2>1
<1>5. \A i, j \in 1..n : i # j => at(i) # at(j)
  BY <1>2
<1>6. Apart(q, 1..n)
  BY <1>1, <1>3, <1>5 DEF Apart
<1>7. \A i \in 1..n : \E j \in 1..n : q[j] = p[i]
  BY <1>1, <1>4
<1> QED
  BY <1>1, <1>3, <1>6, <1>7 DEF Reorders, q

LEMMA ReversalReorders ==
  ASSUME NEW n \in Nat, NEW p, NEW q, Len(q) = n, Reorders(q, p, n)
  PROVE  Reorders(Backwards(q), p, n)
<1> DEFINE b == Backwards(q)
<1>1. DOMAIN b = 1..n /\ \A i \in 1..n : b[i] = q[n + 1 - i]
  BY DEF Backwards, Reorders
<1>2. \A i \in 1..n : n + 1 - i \in 1..n /\ n + 1 - (n + 1 - i) = i
  OBVIOUS
<1>3. \A i, j \in 1..n : i # j => n + 1 - i # n + 1 - j
  OBVIOUS
<1> DEFINE N == 1..n
           mirror == [i \in 1..n |-> n + 1 - i]
<1>4. /\ DOMAIN b = N /\ \A i \in N : b[i] = q[mirror[i]] /\ mirror[i] \in N
      /\ \A i \in N : mirror[mirror[i]] = i
      /\ \A i, j \in N : i # j => mirror[i] # mirror[j]
  BY <1>1, <1>2, <1>3
<1>5. /\ \A j \in N : \E i \in N : q[j] = p[i]
      /\ \A i \in N : \E j \in N : q[j] = p[i]
      /\ \A i, j \in N : i # j => q[i] # q[j]
  BY DEF Reorders, Apart
<1> HIDE DEF b, N, mirror
<1>6. \A j \in N : \E i \in N : b[j] = p[i]
  <2> TAKE j \in N
  <2>1. b[j] = q[mirror[j]] /\ mirror[j] \in N
    BY <1>4
  <2>2. PICK i \in N : q[mirror[j]] = p[i]
    BY <1>5, <2>1
  <2> QED
    BY <2>1, <2>2
<1>8. \A i, j \in N : i # j => b[i] # b[j]
  <2> TAKE i, j \in N
  <2> HAVE i # j
  <2>1. mirror[i] # mirror[j] /\ mirror[i] \in N /\ mirror[j] \in N
    BY <1>4
  <2>2. b[i] = q[mirror[i]] /\ b[j] = q[mirror[j]]
    BY <1>4
  <2>3. q[mirror[i]] # q[mirror[j]]
    BY <1>5, <2>1
  <2> QED
    BY <2>2, <2>3
<1>7. \A i \in N : \E j \in N : b[j] = p[i]
  <2> TAKE i \in N
  <2>1. PICK j \in N : q[j] = p[i]
    BY <1>5
  <2>2. mirror[j] \in N /\ b[mirror[j]] = q[j]
    BY <1>4, <2>1
  <2> QED
    BY <2>1, <2>2
<1> QED
  BY <1>4, <1>6, <1>7, <1>8 DEF Reorders, Apart, b, N

LEMMA BalancedReorders ==
  ASSUME NEW n \in Nat, NEW p, DOMAIN p = 1..n, Len(p) = n, Apart(p, 1..n),
         NEW repeat \in Nat, repeat > 0
  PROVE  Reorders(BalancedOrder(p, repeat), p, n)
<1>1. CASE n < 2
  <2>1. BalancedOrder(p, repeat) = p
    BY <1>1 DEF BalancedOrder
  <2>2. Reorders(p, p, n)
    BY DEF Reorders
  <2> QED
    BY <2>1, <2>2
<1>2. CASE n >= 2
  <2> DEFINE offset == (repeat - 1) % n
             q == Rotated(p, offset)
  <2>1. offset \in 0..(n - 1)
    BY <1>2
  <2>2. Reorders(q, p, n)
    <3> HIDE DEF offset
    <3> QED
      BY <1>2, <2>1, RotationReorders
  <2>3. Len(q) = n
    <3>1. DOMAIN q = 1..n /\ q = [i \in 1..n |-> q[i]]
      BY DEF Rotated
    <3> HIDE DEF q
    <3> QED
      BY <3>1, LengthOf
  <2>4. BalancedOrder(p, repeat) = q \/ BalancedOrder(p, repeat) = Backwards(q)
    BY <1>2 DEF BalancedOrder
  <2> HIDE DEF q
  <2> QED
    BY <2>2, <2>3, <2>4, ReversalReorders
<1> QED
  BY <1>1, <1>2

(* Blocks follow each other without a gap and go on to the end.              *)
Upto(k, n, size) == IF k * size < n THEN k * size ELSE n

LEMMA BlockBounds ==
  ASSUME NEW n \in Nat, NEW size \in Nat \ {0}
  PROVE  LET m == (n + size - 1) \div size IN
         /\ m \in Nat
         /\ \A k \in 0..(m - 1) : k * size < n
         /\ n <= m * size
<1> DEFINE m == (n + size - 1) \div size
<1>1. n + size - 1 \in Nat /\ size \in Nat /\ size > 0
  OBVIOUS
<1>2. m \in Nat /\ size * m <= n + size - 1 /\ n + size - 1 < size * m + size
  <2> DEFINE x == n + size - 1
  <2>1. x \in Nat
    BY <1>1
  <2> HIDE DEF x
  <2>2. x \div size \in Nat /\ size * (x \div size) <= x /\ x < size * (x \div size) + size
    BY <1>1, <2>1
  <2> QED
    BY <2>2 DEF x
<1> HIDE DEF m
<1>3. size * m = m * size /\ size * m \in Nat
  BY <1>1, <1>2
<1>4. n <= m * size
  BY <1>1, <1>2, <1>3
<1>5. ASSUME NEW k \in 0..(m - 1)
      PROVE  k * size < n
  <2>1. k \in Nat /\ k + 1 \in Nat /\ k + 1 <= m
    BY <1>2
  <2>2. (k + 1) * size <= m * size
    BY <1>1, <1>2, <2>1
  <2>3. (k + 1) * size = k * size + size /\ k * size \in Nat
    BY <1>1, <2>1
  <2> QED
    BY <1>1, <1>2, <1>3, <2>2, <2>3
<1> QED
  BY <1>2, <1>4, <1>5 DEF m

IsPart(block, s, low, high) ==
  /\ block = [i \in 1..(high - low) |-> block[i]]
  /\ \A i \in 1..(high - low) : block[i] = s[low + i]

LEMMA BlocksFollow ==
  ASSUME NEW T, NEW n \in Nat, NEW s \in Seq(T), Len(s) = n, NEW size \in Nat \ {0}
  PROVE  LET c == Chunked(s, size) IN
         /\ c \in Seq(Seq(T))
         /\ \A k \in 0..(Len(c) - 1) :
              /\ Upto(k, n, size) < Upto(k + 1, n, size) /\ Upto(k + 1, n, size) <= n
              /\ IsPart(c[k + 1], s, Upto(k, n, size), Upto(k + 1, n, size))
         /\ Upto(Len(c), n, size) = n
<1> DEFINE m == (n + size - 1) \div size
           c == Chunked(s, size)
           low(k) == (k - 1) * size + 1
           high(k) == IF k * size < n THEN k * size ELSE n
<1>1. m \in Nat /\ (\A k \in 0..(m - 1) : k * size < n) /\ n <= m * size
  BY BlockBounds
<1> HIDE DEF m
<1>2. c = [k \in 1..m |-> SubSeq(s, low(k), high(k))]
  BY DEF Chunked, m
<1>3. \A k \in 1..m : /\ low(k) = (k - 1) * size + 1 /\ (k - 1) * size \in Nat
                      /\ (k - 1) * size < n /\ k * size = (k - 1) * size + size /\ high(k) \in 1..n
                      /\ low(k) <= high(k)
  <2> TAKE k \in 1..m
  <2>1. k \in Nat /\ k - 1 \in Nat /\ k - 1 \in 0..(m - 1) /\ size \in Nat /\ size > 0
    BY <1>1
  <2>2. (k - 1) * size < n
    BY <1>1, <2>1
  <2>3. k * size \in Nat /\ (k - 1) * size \in Nat /\ k * size = (k - 1) * size + size
    BY <2>1
  <2> QED
    BY <2>1, <2>2, <2>3
<1> HIDE DEF low, high, c
<1>4. ASSUME NEW k \in 1..m
      PROVE  /\ c[k] \in Seq(T) /\ Len(c[k]) = high(k) - low(k) + 1
             /\ \A i \in 1..(high(k) - low(k) + 1) : c[k][i] = s[low(k) + i - 1]
  <2>1. low(k) \in Int /\ high(k) \in Int /\ low(k) <= high(k) /\ 1 <= low(k) /\ high(k) <= n
    BY <1>3
  <2>2. \A i \in low(k)..high(k) : s[i] \in T
    BY <2>1
  <2>3. c[k] = SubSeq(s, low(k), high(k))
    BY <1>2
  <2> QED
    BY <2>1, <2>2, <2>3, SubSeqProperties
<1>5. c \in Seq(Seq(T)) /\ Len(c) = m
  <2>1. DOMAIN c = 1..m /\ c = [k \in 1..m |-> c[k]]
    BY <1>2
  <2> QED
    BY <1>1, <1>4, <2>1
<1>6. ASSUME NEW k \in 0..(m - 1)
      PROVE  /\ Upto(k, n, size) = k * size /\ Upto(k + 1, n, size) = high(k + 1)
             /\ low(k + 1) = k * size + 1 /\ k * size \in Nat
  <2>1. k + 1 \in 1..m /\ k + 1 - 1 = k
    BY <1>1
  <2>2. k * size < n
    BY <1>1
  <2> QED
    BY <1>3, <2>1, <2>2 DEF Upto, high
<1>7. ASSUME NEW k \in 0..(m - 1)
      PROVE  /\ Upto(k, n, size) < Upto(k + 1, n, size) /\ Upto(k + 1, n, size) <= n
             /\ IsPart(c[k + 1], s, Upto(k, n, size), Upto(k + 1, n, size))
  <2>1. k + 1 \in 1..m
    BY <1>1
  <2> DEFINE l == low(k + 1)
             h == high(k + 1)
             b == c[k + 1]
  <2>2. /\ l = k * size + 1 /\ k * size \in Nat /\ h \in 1..n /\ l <= h
        /\ Upto(k, n, size) = k * size /\ Upto(k + 1, n, size) = h
    BY <1>3, <1>6, <2>1
  <2>3. /\ b \in Seq(T) /\ Len(b) = h - l + 1 /\ \A i \in 1..(h - l + 1) : b[i] = s[l + i - 1]
    BY <1>4, <2>1
  <2> HIDE DEF l, h, b
  <2> DEFINE u == k * size
  <2>4. u \in Nat /\ l = u + 1 /\ h - l + 1 = h - u /\ \A i \in Nat : l + i - 1 = u + i
    BY <2>2
  <2> HIDE DEF u
  <2>5. b = [i \in 1..(h - u) |-> b[i]]
    <3>1. b \in Seq(T) /\ Len(b) = h - u
      BY <2>3, <2>4
    <3> QED
      BY <3>1
  <2>8. \A i \in 1..(h - u) : b[i] = s[u + i]
    <3> TAKE i \in 1..(h - u)
    <3>1. i \in Nat /\ i \in 1..(h - l + 1) /\ l + i - 1 = u + i
      BY <2>2, <2>4
    <3> QED
      BY <2>3, <3>1
  <2>6. IsPart(b, s, u, h)
    BY <2>5, <2>8 DEF IsPart
  <2>7. u < h /\ h <= n
    BY <2>2, <2>4
  <2> QED
    BY <2>2, <2>6, <2>7 DEF u, b
<1>8. Upto(m, n, size) = n
  <2>1. m * size \in Nat
    BY <1>1
  <2> QED
    BY <1>1, <2>1 DEF Upto
<1> QED
  BY <1>5, <1>7, <1>8 DEF c

(* What is counted in a block adds to what was seen before.                  *)
Once(s, p, id) == IF \E i \in 1..p : s[i] = id THEN 1 ELSE 0

LEMMA CountMoves ==
  ASSUME NEW n \in Nat, NEW s, Apart(s, 1..n), NEW low \in Nat, NEW high \in Nat,
         low < high, high <= n, NEW block, IsPart(block, s, low, high), NEW id
  PROVE  Once(s, low, id) + Cardinality({i \in DOMAIN block : block[i] = id}) = Once(s, high, id)
<1> DEFINE hits == {i \in 1..(high - low) : s[low + i] = id}
<1> DEFINE found == {i \in DOMAIN block : block[i] = id}
<1>1. found = hits
  <2>1. DOMAIN block = 1..(high - low)
    BY DEF IsPart
  <2> QED
    BY <2>1 DEF IsPart
<1> HIDE DEF found
<1>2. \A i \in 1..(high - low) : low + i \in (low + 1)..high
  OBVIOUS
<1>3. \A i \in (low + 1)..high : i - low \in 1..(high - low) /\ low + (i - low) = i
  OBVIOUS
<1>4. \A i, j \in 1..n : s[i] = id /\ s[j] = id => i = j
  BY DEF Apart
<1>5. 1..high = (1..low) \cup ((low + 1)..high) /\ 1..high \subseteq 1..n
  OBVIOUS
<1>6. CASE \E i \in 1..low : s[i] = id
  <2>1. PICK i \in 1..low : s[i] = id
    BY <1>6
  <2>2. \A j \in (low + 1)..high : s[j] # id
    <3> TAKE j \in (low + 1)..high
    <3>1. i \in 1..n /\ j \in 1..n /\ i # j
      OBVIOUS
    <3> QED
      BY <1>4, <2>1, <3>1
  <2>3. hits = {}
    BY <1>2, <2>2
  <2>4. Once(s, low, id) = 1 /\ Once(s, high, id) = 1
    BY <1>5, <2>1 DEF Once
  <2> QED
    <3>1. Cardinality(found) = 0
      BY <1>1, <2>3, FS_EmptySet
    <3> QED
      BY <2>4, <3>1 DEF found
<1>7. CASE \E i \in (low + 1)..high : s[i] = id
  <2>1. PICK i \in (low + 1)..high : s[i] = id
    BY <1>7
  <2>2. \A j \in 1..low : s[j] # id
    <3> TAKE j \in 1..low
    <3>1. i \in 1..n /\ j \in 1..n /\ i # j
      OBVIOUS
    <3> QED
      BY <1>4, <2>1, <3>1
  <2>3. hits = {i - low}
    <3>1. i - low \in hits
      BY <1>3, <2>1
    <3>2. \A j \in hits : j = i - low
      <4> TAKE j \in hits
      <4>1. low + j \in 1..n /\ i \in 1..n /\ s[low + j] = id /\ j \in Int
        OBVIOUS
      <4>2. low + j = i
        BY <1>4, <2>1, <4>1
      <4> QED
        BY <4>1, <4>2
    <3> HIDE DEF hits
    <3> QED
      BY <3>1, <3>2
  <2>4. Once(s, low, id) = 0 /\ Once(s, high, id) = 1
    BY <1>5, <2>1, <2>2 DEF Once
  <2> QED
    <3>1. Cardinality(found) = 1
      BY <1>1, <2>3, FS_Singleton
    <3> QED
      BY <2>4, <3>1 DEF found
<1>8. CASE ~(\E i \in 1..low : s[i] = id) /\ ~(\E i \in (low + 1)..high : s[i] = id)
  <2>1. hits = {}
    BY <1>2, <1>8
  <2>2. Once(s, low, id) = 0 /\ Once(s, high, id) = 0
    BY <1>5, <1>8 DEF Once
  <2> QED
    <3>1. Cardinality(found) = 0
      BY <1>1, <2>1, FS_EmptySet
    <3> QED
      BY <2>2, <3>1 DEF found
<1> QED
  BY <1>6, <1>7, <1>8

-----------------------------------------------------------------------------
(* What the driver has measured: all repeats before this one, and of this    *)
(* one the blocks that are not left.                                         *)
Order(repeat) == BalancedOrder(PanelNow, repeat)
Progress(k) ==
  /\ k + Len(target.blocks) = Len(Blocks(target.repeat))
  /\ \A j \in 1..Len(target.blocks) : target.blocks[j] = Blocks(target.repeat)[k + j]
  /\ target.valid =>
       \A id \in Ids : target.measured[id] =
         (IF id \in PanelIds THEN target.repeat - 1 ELSE 0)
           + Once(Order(target.repeat), Upto(k, Len(PanelNow), BlockSize), id)
Target == [repeat : 0..Rechecks, blocks : Seq(Seq(Ids)), attempt : Nat, valid : BOOLEAN,
           measured : [Ids -> Nat]]
Unmeasured == target.blocks = <<>> /\ \A id \in Ids : target.measured[id] = 0
TargetFits ==
  /\ target \in Target
  /\ driver.phase \in {"panel", "recheck"} => Rechecks > 0
  /\ driver.phase \notin {"recheck", "final", "completed"} => target.repeat = 0
  /\ target.repeat = 0 => Unmeasured
  /\ target.repeat > 0 => \E k \in Nat : Progress(k)

LEMMA Sizes ==
  /\ Rechecks \in Nat /\ BlockSize \in Nat \ {0}
BY SwarmRunAssumption DEF SwarmRunAssumption

(* Each order has the panel, once each.                                      *)
LEMMA OrderFits ==
  ASSUME Typed, NEW repeat \in Nat, repeat > 0
  PROVE  /\ Len(PanelNow) \in Nat /\ Order(repeat) \in Seq(Ids)
         /\ Len(Order(repeat)) = Len(PanelNow)
         /\ Apart(Order(repeat), 1..Len(PanelNow))
         /\ \A id : Once(Order(repeat), Len(PanelNow), id) = IF id \in PanelIds THEN 1 ELSE 0
<1> DEFINE n == Cardinality(Measurable)
           o == Order(repeat)
<1>1. /\ PanelNow \in [1..n -> Measurable] /\ Apart(PanelNow, DOMAIN PanelNow)
      /\ n \in Nat /\ Measurable \subseteq Ids
  BY PanelFits, AscendingHasAll, FS_CardinalityType
<1> HIDE DEF n
<1>2. Len(PanelNow) = n /\ DOMAIN PanelNow = 1..n
  BY <1>1, LengthOf
<1>3. Reorders(o, PanelNow, n)
  BY <1>1, <1>2, BalancedReorders DEF Order
<1> HIDE DEF o
<1>4. \A j \in 1..n : o[j] \in Ids
  BY <1>1, <1>3 DEF Reorders
<1>5. o = [j \in 1..n |-> o[j]]
  <2>1. o = PanelNow \/ o = Backwards(Rotated(PanelNow, (repeat - 1) % Len(PanelNow)))
        \/ o = Rotated(PanelNow, (repeat - 1) % Len(PanelNow))
    BY DEF o, Order, BalancedOrder
  <2>2. DOMAIN o = 1..n
    BY <1>3 DEF Reorders
  <2> QED
    BY <1>1, <2>1, <2>2 DEF Backwards, Rotated
<1>6. o \in Seq(Ids) /\ Len(o) = n
  BY <1>1, <1>4, <1>5
<1>7. ASSUME NEW id PROVE Once(o, n, id) = IF id \in PanelIds THEN 1 ELSE 0
  <2>1. id \in PanelIds <=> \E i \in 1..n : PanelNow[i] = id
    BY <1>2 DEF PanelIds
  <2>2. (\E i \in 1..n : PanelNow[i] = id) <=> \E j \in 1..n : o[j] = id
    BY <1>3 DEF Reorders
  <2> QED
    BY <2>1, <2>2 DEF Once
<1> QED
  BY <1>1, <1>2, <1>3, <1>6, <1>7 DEF o, Reorders

(* At the end of a repeat all of the panel was measured in it.               *)
LEMMA RepeatIsComplete ==
  ASSUME Typed, TargetFits, target.repeat > 0, target.blocks = <<>>, target.valid, NEW id \in Ids
  PROVE  target.measured[id] = IF id \in PanelIds THEN target.repeat ELSE 0
<1> DEFINE n == Len(PanelNow)
           o == Order(target.repeat)
<1>1. target.repeat \in Nat /\ target.repeat > 0
  BY Sizes DEF TargetFits, Target
<1>2. n \in Nat /\ o \in Seq(Ids) /\ Len(o) = n
      /\ Once(o, n, id) = IF id \in PanelIds THEN 1 ELSE 0
  BY <1>1, OrderFits
<1>3. PICK k \in Nat : Progress(k)
  BY DEF TargetFits
<1>4. k = Len(Blocks(target.repeat))
  BY <1>3 DEF Progress
<1>5. Blocks(target.repeat) = Chunked(o, BlockSize)
  BY DEF Blocks, Order
<1>6. target.measured[id] = (IF id \in PanelIds THEN target.repeat - 1 ELSE 0)
                              + Once(o, Upto(k, n, BlockSize), id)
  BY <1>3 DEF Progress
<1> HIDE DEF n, o
<1>7. Upto(Len(Chunked(o, BlockSize)), n, BlockSize) = n
  BY <1>2, Sizes, BlocksFollow
<1>8. Upto(k, n, BlockSize) = n
  BY <1>4, <1>5, <1>7
<1> QED
  BY <1>1, <1>2, <1>6, <1>8

LEMMA ValidIsComplete ==
  ASSUME Typed, TargetFits
  PROVE  ValidMeansComplete
<1> SUFFICES ASSUME target.repeat = Rechecks, target.blocks = <<>>, target.valid, NEW id \in Ids
             PROVE  target.measured[id] = IF id \in PanelIds THEN Rechecks ELSE 0
  BY DEF ValidMeansComplete
<1>1. CASE target.repeat = 0
  BY <1>1 DEF TargetFits, Unmeasured
<1>2. CASE target.repeat > 0
  BY <1>2, RepeatIsComplete
<1> QED
  BY <1>1, <1>2, Sizes

(* A repeat begins with all its blocks.                                      *)
LEMMA RepeatBegins ==
  ASSUME Typed, Typed', evaluations' = evaluations, target' \in Target,
         target'.repeat > 0, target'.blocks = Blocks(target'.repeat),
         target'.valid => \A id \in Ids : target'.measured[id] =
                            IF id \in PanelIds THEN target'.repeat - 1 ELSE 0
  PROVE  Progress(0)'
<1> DEFINE n == Len(PanelNow)
           o == Order(target'.repeat)
           c == Chunked(o, BlockSize)
<1>1. target'.repeat \in Nat /\ target'.repeat > 0
  BY Sizes DEF Target
<1>2. n \in Nat /\ o \in Seq(Ids) /\ Len(o) = n
  BY <1>1, OrderFits
<1>3. PanelNow' = PanelNow /\ PanelIds' = PanelIds
  BY DEF PanelNow, PanelIds
<1>4. Blocks(target.repeat)' = c /\ Order(target.repeat)' = o /\ target'.blocks = c
  BY <1>3 DEF Blocks, Order
<1> HIDE DEF o
<1>5. c \in Seq(Seq(Ids))
  BY <1>2, Sizes, BlocksFollow
<1> HIDE DEF c, n
<1>6. Len(c) \in Nat /\ 0 + Len(c) = Len(c) /\ \A j \in 1..Len(c) : 0 + j = j
  BY <1>5
<1>7. Upto(0, n, BlockSize) = 0
  BY <1>2, Sizes DEF Upto
<1>8. \A id : Once(o, 0, id) = 0
  BY DEF Once
<1>9. target'.valid => \A id \in Ids : target'.measured[id] =
         (IF id \in PanelIds THEN target'.repeat - 1 ELSE 0) + Once(o, Upto(0, n, BlockSize), id)
  BY <1>1, <1>7, <1>8
<1> QED
  BY <1>3, <1>4, <1>6, <1>9 DEF Progress, n

LEMMA TargetRests ==
  ASSUME TargetFits, target' = target,
         target.repeat = 0 \/ evaluations' = evaluations,
         driver'.phase \in {"panel", "recheck"} => Rechecks > 0,
         driver'.phase \notin {"recheck", "final", "completed"} => target.repeat = 0
  PROVE  TargetFits'
<1>1. CASE target.repeat = 0
  BY <1>1, Sizes DEF TargetFits, Unmeasured, Target
<1>2. CASE target.repeat # 0
  <2>1. target.repeat > 0
    BY <1>2, Sizes DEF TargetFits, Target
  <2>2. PICK k \in Nat : Progress(k)
    BY <2>1 DEF TargetFits
  <2>3. PanelNow' = PanelNow
    BY <1>2 DEF PanelNow
  <2>4. Progress(k)'
    BY <2>2, <2>3 DEF Progress, Blocks, Order, PanelIds
  <2> QED
    BY <1>2, <2>4 DEF TargetFits
<1> QED
  BY <1>1, <1>2

(* While cells are at work nothing is measured.                              *)
LEMMA AtWork ==
  ASSUME IInv, NEW a \in Agents, CellStep(a) \/ ActionFails(a)
  PROVE  driver.phase \in {"dispatch", "settle"} /\ UNCHANGED <<driver, target>>
<1>1. /\ ~Ended /\ UNCHANGED <<driver, target>>
      /\ inbox[a] # None \/ open[a] # {}
  BY DEF CellStep, ActionFails, HandleOpening, ModelAnswers, ToolAnswers, EvaluatorAnswers,
         MockDecides, MockMaterializes, BoardAccepts, Outcome, Running
<1>2. open[a] # {} => Active(a)
  BY CellAt DEF CellFits, Active
<1> QED
  BY <1>1, <1>2, Moving

(* A block is measured; or was measured for nothing.                         *)
LEMMA MeasureKeeps ==
  ASSUME IInv, TargetFits, NEW drifts \in BOOLEAN, MeasureBlock(drifts)
  PROVE  TargetFits'
<1>1. /\ driver.phase = "recheck" /\ driver' = driver /\ evaluations' = evaluations
      /\ target.blocks # <<>> /\ Typed /\ target \in Target
  BY DEF MeasureBlock, services, IInv, TargetFits
<1>2. target.repeat > 0 /\ target.repeat \in Nat
  BY <1>1, Sizes DEF TargetFits, Target, Unmeasured
<1>3. PICK k \in Nat : Progress(k)
  BY <1>2 DEF TargetFits
<1> DEFINE block == Head(target.blocks)
           n == Len(PanelNow)
           o == Order(target.repeat)
           c == Chunked(o, BlockSize)
           count(id) == Cardinality({i \in DOMAIN block : block[i] = id})
<1>4. PanelNow' = PanelNow /\ PanelIds' = PanelIds
  BY <1>1 DEF PanelNow, PanelIds
<1>5. n \in Nat /\ o \in Seq(Ids) /\ Len(o) = n /\ Apart(o, 1..n)
  BY <1>1, <1>2, OrderFits
<1>6. Blocks(target.repeat) = c
  BY DEF Blocks, Order
<1>7. /\ c \in Seq(Seq(Ids))
      /\ \A l \in 0..(Len(c) - 1) :
           /\ Upto(l, n, BlockSize) < Upto(l + 1, n, BlockSize)
           /\ Upto(l + 1, n, BlockSize) <= n
           /\ IsPart(c[l + 1], o, Upto(l, n, BlockSize), Upto(l + 1, n, BlockSize))
  <2> HIDE DEF o, n
  <2> QED
    BY <1>5, Sizes, BlocksFollow
<1>8. /\ target.blocks \in Seq(Seq(Ids)) /\ block \in Seq(Ids)
      /\ Tail(target.blocks) \in Seq(Seq(Ids)) /\ Len(Tail(target.blocks)) = Len(target.blocks) - 1
      /\ \A j \in 1..Len(Tail(target.blocks)) : Tail(target.blocks)[j] = target.blocks[j + 1]
      /\ Len(target.blocks) \in Nat /\ Len(target.blocks) > 0 /\ block = target.blocks[1]
  <2>1. target.blocks \in Seq(Seq(Ids))
    BY <1>1 DEF Target
  <2> QED
    BY <1>1, <2>1, HeadTailProperties
<1>9. k \in 0..(Len(c) - 1) /\ block = c[k + 1] /\ k + Len(target.blocks) = Len(c) /\ Len(c) \in Nat
  BY <1>3, <1>6, <1>7, <1>8 DEF Progress
<1>10. \A id \in Ids : count(id) \in Nat
  <2> TAKE id \in Ids
  <2>0. Len(block) \in Nat /\ DOMAIN block = 1..Len(block)
    <3> HIDE DEF block
    <3> QED
      BY <1>8
  <2> HIDE DEF block
  <2>1. IsFiniteSet(1..Len(block))
    BY <2>0, FS_Interval
  <2>2. {i \in DOMAIN block : block[i] = id} \in SUBSET (1..Len(block))
    BY <2>0
  <2>3. IsFiniteSet({i \in DOMAIN block : block[i] = id})
    BY <2>1, <2>2, FS_Subset
  <2> QED
    BY <2>3, FS_CardinalityType
<1>11. CASE Counts(drifts)
  <2> DEFINE sums == [id \in Ids |-> target.measured[id] + count(id)]
             rest == Tail(target.blocks)
  <2>1. target' = [target EXCEPT !.blocks = rest, !.attempt = 1, !.measured = sums]
    BY <1>11 DEF MeasureBlock
  <2> HIDE DEF count, block
  <2>10. sums \in [Ids -> Nat] /\ rest \in Seq(Seq(Ids))
         /\ \A id \in Ids : sums[id] = target.measured[id] + count(id)
    BY <1>1, <1>8, <1>10 DEF Target
  <2> HIDE DEF sums
  <2>2. /\ target' \in Target /\ target'.repeat = target.repeat /\ target'.valid = target.valid
        /\ target'.blocks = Tail(target.blocks)
        /\ \A id \in Ids : target'.measured[id] = target.measured[id] + count(id)
    <3> HIDE DEF rest
    <3>1. /\ target' \in Target /\ target'.repeat = target.repeat /\ target'.valid = target.valid
          /\ target'.blocks = rest /\ target'.measured = sums
      BY <1>1, <2>1, <2>10 DEF Target
    <3> QED
      BY <2>10, <3>1 DEF rest
  <2> DEFINE low == Upto(k, n, BlockSize)
             high == Upto(k + 1, n, BlockSize)
  <2>3. low \in Nat /\ high \in Nat /\ low < high /\ high <= n /\ IsPart(block, o, low, high)
    <3>1. low \in Nat /\ high \in Nat
      <4>1. k * BlockSize \in Nat /\ (k + 1) * BlockSize \in Nat
        BY Sizes
      <4> QED
        BY <1>5, <4>1 DEF Upto
    <3> QED
      BY <1>7, <1>9, <3>1
  <2> HIDE DEF low, high, n, o, c
  <2>4. ASSUME NEW id \in Ids
        PROVE  Once(o, low, id) + count(id) = Once(o, high, id)
    BY <1>5, <2>3, CountMoves DEF count
  <2>5. target'.valid => \A id \in Ids : target'.measured[id] =
          (IF id \in PanelIds THEN target.repeat - 1 ELSE 0) + Once(o, high, id)
    <3> SUFFICES ASSUME target'.valid, NEW id \in Ids
                 PROVE  target'.measured[id] =
                          (IF id \in PanelIds THEN target.repeat - 1 ELSE 0) + Once(o, high, id)
      OBVIOUS
    <3>1. target.measured[id] = (IF id \in PanelIds THEN target.repeat - 1 ELSE 0) + Once(o, low, id)
      BY <1>3, <2>2 DEF Progress, o, n, low
    <3>2. Once(o, low, id) \in Nat
      BY DEF Once
    <3> QED
      BY <1>2, <1>10, <2>2, <2>4, <3>1, <3>2
  <2>6. /\ (k + 1) + Len(target'.blocks) = Len(c)
        /\ \A j \in 1..Len(target'.blocks) : target'.blocks[j] = c[(k + 1) + j]
    <3>1. Len(target'.blocks) = Len(target.blocks) - 1
      BY <1>8, <2>2
    <3>2. \A j \in 1..Len(target'.blocks) :
            j + 1 \in 1..Len(target.blocks) /\ k + (j + 1) = (k + 1) + j
      BY <1>8, <3>1
    <3>3. \A j \in 1..Len(target.blocks) : target.blocks[j] = c[k + j]
      BY <1>3, <1>6 DEF Progress, c
    <3>4. (k + 1) + (Len(target.blocks) - 1) = Len(c)
      <4> DEFINE left == Len(target.blocks)
      <4>1. left \in Nat /\ k + left = Len(c)
        BY <1>8, <1>9
      <4> HIDE DEF left
      <4>2. (k + 1) + (left - 1) = k + left
        BY <4>1
      <4> QED
        BY <4>1, <4>2 DEF left
    <3>5. ASSUME NEW j \in 1..Len(target'.blocks) PROVE target'.blocks[j] = c[(k + 1) + j]
      <4>1. j + 1 \in 1..Len(target.blocks) /\ k + (j + 1) = (k + 1) + j
        BY <3>2
      <4>2. target'.blocks[j] = target.blocks[j + 1]
        BY <1>8, <2>2, <3>1
      <4>3. target.blocks[j + 1] = c[k + (j + 1)]
        BY <3>3, <4>1
      <4> QED
        BY <4>1, <4>2, <4>3
    <3> QED
      BY <3>1, <3>4, <3>5
  <2>7. Progress(k + 1)'
    BY <1>4, <1>6, <2>2, <2>5, <2>6 DEF Progress, Blocks, Order, o, n, high, c
  <2> QED
    BY <1>1, <1>2, <2>2, <2>7 DEF TargetFits
<1>12. CASE ~Counts(drifts) /\ target.attempt = 1
  <2>1. target' = [target EXCEPT !.attempt = 2]
    BY <1>12 DEF MeasureBlock
  <2>2. /\ target' \in Target /\ target'.repeat = target.repeat /\ target'.valid = target.valid
        /\ target'.blocks = target.blocks /\ target'.measured = target.measured
    BY <1>1, <2>1 DEF Target
  <2>3. Progress(k)'
    BY <1>3, <1>4, <2>2 DEF Progress, Blocks, Order
  <2> QED
    BY <1>1, <1>2, <2>2, <2>3 DEF TargetFits
<1>13. CASE ~Counts(drifts) /\ target.attempt # 1
  <2>1. target' = [target EXCEPT !.blocks = Tail(target.blocks), !.attempt = 1, !.valid = FALSE]
    BY <1>13 DEF MeasureBlock
  <2>2. /\ target' \in Target /\ target'.repeat = target.repeat /\ ~target'.valid
        /\ target'.blocks = Tail(target.blocks)
    BY <1>1, <1>8, <2>1 DEF Target
  <2> HIDE DEF c
  <2>3. /\ (k + 1) + Len(target'.blocks) = Len(c)
        /\ \A j \in 1..Len(target'.blocks) : target'.blocks[j] = c[(k + 1) + j]
    <3>1. Len(target'.blocks) = Len(target.blocks) - 1
      BY <1>8, <2>2
    <3>2. \A j \in 1..Len(target'.blocks) :
            j + 1 \in 1..Len(target.blocks) /\ k + (j + 1) = (k + 1) + j
      BY <1>8, <3>1
    <3>3. \A j \in 1..Len(target.blocks) : target.blocks[j] = c[k + j]
      BY <1>3, <1>6 DEF Progress, c
    <3>4. (k + 1) + (Len(target.blocks) - 1) = Len(c)
      <4> DEFINE left == Len(target.blocks)
      <4>1. left \in Nat /\ k + left = Len(c)
        BY <1>8, <1>9
      <4> HIDE DEF left
      <4>2. (k + 1) + (left - 1) = k + left
        BY <4>1
      <4> QED
        BY <4>1, <4>2 DEF left
    <3>5. ASSUME NEW j \in 1..Len(target'.blocks) PROVE target'.blocks[j] = c[(k + 1) + j]
      <4>1. j + 1 \in 1..Len(target.blocks) /\ k + (j + 1) = (k + 1) + j
        BY <3>2
      <4>2. target'.blocks[j] = target.blocks[j + 1]
        BY <1>8, <2>2, <3>1
      <4>3. target.blocks[j + 1] = c[k + (j + 1)]
        BY <3>3, <4>1
      <4> QED
        BY <4>1, <4>2, <4>3
    <3> QED
      BY <3>1, <3>4, <3>5
  <2>4. Progress(k + 1)'
    BY <1>4, <1>6, <2>2, <2>3 DEF Progress, Blocks, Order
  <2> QED
    BY <1>1, <1>2, <2>2, <2>4 DEF TargetFits
<1> QED
  BY <1>11, <1>12, <1>13

LEMMA BeginningKeeps ==
  ASSUME IInv, TargetFits, BeginRecheck
  PROVE  TargetFits'
<1>1. /\ driver.phase = "panel" /\ evaluations' = evaluations /\ Typed /\ IInv'
      /\ target.repeat = 0 /\ Unmeasured /\ target \in Target /\ Rechecks > 0
  BY RecheckKeeps DEF BeginRecheck, services, IInv, TargetFits
<1>2. finalists \ {Seed} \subseteq PanelIds
  BY <1>1, PanelHasAll DEF IInv, FinalistsKnown
<1>3. /\ driver' = [driver EXCEPT !.phase = "recheck"]
      /\ target' = [target EXCEPT !.repeat = 1, !.blocks = Blocks(1)]
  BY <1>2 DEF BeginRecheck
<1>4. Blocks(1) \in Seq(Seq(Ids))
  <2>1. Order(1) \in Seq(Ids)
    BY <1>1, OrderFits
  <2> QED
    BY <2>1, Sizes, BlocksFollow DEF Blocks, Order
<1>5. /\ target' \in Target /\ target'.repeat = 1 /\ target'.blocks = Blocks(1)
      /\ \A id \in Ids : target'.measured[id] = 0
  <2> DEFINE first == Blocks(1)
  <2>1. target' = [target EXCEPT !.repeat = 1, !.blocks = first] /\ first \in Seq(Seq(Ids))
        /\ 1 \in 0..Rechecks
    BY <1>1, <1>3, <1>4, Sizes
  <2> HIDE DEF first
  <2>2. /\ target' \in Target /\ target'.repeat = 1 /\ target'.blocks = first
        /\ target'.measured = target.measured
    BY <1>1, <2>1 DEF Target
  <2> QED
    BY <1>1, <2>2 DEF Unmeasured, first
<1>6. Progress(0)'
  BY <1>1, <1>5, RepeatBegins DEF IInv
<1>7. driver'.phase = "recheck"
  BY <1>1, <1>3, DriverAt DEF Typed
<1> QED
  BY <1>1, <1>5, <1>6, <1>7 DEF TargetFits

LEMMA NextRepeatKeeps ==
  ASSUME IInv, TargetFits, NextRepeat
  PROVE  TargetFits'
<1>1. /\ driver.phase = "recheck" /\ evaluations' = evaluations /\ Typed /\ IInv'
      /\ target.blocks = <<>> /\ target \in Target /\ Rechecks > 0
  BY RepeatKeeps DEF NextRepeat, services, IInv, TargetFits
<1>2. CASE target.repeat >= Rechecks
  <2>1. driver' = [driver EXCEPT !.phase = "final"] /\ target' = target
    BY <1>1, <1>2, Sizes DEF NextRepeat, Target
  <2>2. driver'.phase = "final"
    BY <1>1, <2>1 DEF Typed
  <2> QED
    BY <1>1, <2>1, <2>2, TargetRests
<1>3. CASE target.repeat < Rechecks
  <2> DEFINE next == target.repeat + 1
  <2>1. driver' = driver /\ target' = [target EXCEPT !.repeat = next, !.blocks = Blocks(next)]
    BY <1>3 DEF NextRepeat
  <2>2. next \in 1..Rechecks /\ target.repeat \in Nat /\ next - 1 = target.repeat
    BY <1>1, <1>3, Sizes DEF Target
  <2>3. Blocks(next) \in Seq(Seq(Ids))
    <3>1. Order(next) \in Seq(Ids)
      BY <1>1, <2>2, OrderFits
    <3> QED
      BY <3>1, Sizes, BlocksFollow DEF Blocks, Order
  <2>4. \A id \in Ids : target.valid =>
          target.measured[id] = IF id \in PanelIds THEN target.repeat ELSE 0
    <3> TAKE id \in Ids
    <3>1. CASE target.repeat = 0
      BY <1>1, <3>1 DEF TargetFits, Unmeasured
    <3>2. CASE target.repeat > 0
      BY <1>1, <3>2, RepeatIsComplete
    <3> QED
      BY <2>2, <3>1, <3>2
  <2> HIDE DEF next
  <2>5. /\ target' \in Target /\ target'.repeat = next /\ target'.blocks = Blocks(next)
        /\ target'.valid = target.valid /\ target'.measured = target.measured
    <3> DEFINE first == Blocks(next)
    <3>1. target' = [target EXCEPT !.repeat = next, !.blocks = first] /\ first \in Seq(Seq(Ids))
          /\ next \in 0..Rechecks
      BY <2>1, <2>2, <2>3, Sizes
    <3> HIDE DEF first
    <3>2. /\ target' \in Target /\ target'.repeat = next /\ target'.blocks = first
          /\ target'.valid = target.valid /\ target'.measured = target.measured
      BY <1>1, <3>1 DEF Target
    <3> QED
      BY <3>2 DEF first
  <2>6. Progress(0)'
    BY <1>1, <2>2, <2>4, <2>5, RepeatBegins DEF IInv
  <2> QED
    BY <1>1, <2>1, <2>2, <2>5, <2>6 DEF TargetFits
<1> QED
  BY <1>1, <1>2, <1>3, Sizes DEF Target

LEMMA AfterwardsPhase ==
  ASSUME NEW d, {"phase", "generation", "sent", "seen"} \subseteq DOMAIN d
  PROVE  /\ AfterGeneration(d).phase \in {"dispatch", "panel", "final"}
         /\ AfterGeneration(d).phase = "panel" => Rechecks > 0
BY DEF AfterGeneration

LEMMA ClosingPhase ==
  ASSUME Typed, CloseGeneration \/ RestartCelld, driver'.phase # "broken"
  PROVE  /\ driver.phase \in {"settle", "restart"} /\ target' = target
         /\ driver'.phase \in {"restart", "dispatch", "panel", "final"}
         /\ driver'.phase = "panel" => Rechecks > 0
<1> DEFINE closed1 == [driver EXCEPT !.states = StatesAfter(submissions[driver.generation])]
<1>1. DOMAIN driver = {"phase", "generation", "sent", "states", "seen"}
      /\ DOMAIN closed1 = DOMAIN driver
  BY DEF Typed
<1>2. /\ driver.phase \in {"settle", "restart"} /\ target' = target
      /\ \/ driver' = [driver EXCEPT !.phase = "broken"]
         \/ driver' = [closed1 EXCEPT !.phase = "restart"]
         \/ driver' = AfterGeneration(closed1)
         \/ driver' = AfterGeneration(driver)
  BY DEF CloseGeneration, RestartCelld
<1> HIDE DEF closed1
<1> QED
  BY <1>1, <1>2, AfterwardsPhase

LEMMA TargetStays == IInv /\ TargetFits /\ [Next]_vars => TargetFits'
<1> SUFFICES ASSUME IInv, TargetFits, [Next]_vars PROVE TargetFits'
  OBVIOUS
<1>0. IInv' /\ Typed /\ Typed' /\ driver'.phase # "broken"
  BY NextFits DEF IInv, AssertionsHold
<1>1. ASSUME NEW a \in Agents, CellStep(a) \/ ActionFails(a) PROVE TargetFits'
  <2>1. driver.phase \in {"dispatch", "settle"} /\ UNCHANGED <<driver, target>>
    BY <1>1, AtWork
  <2> QED
    BY <2>1, TargetRests DEF TargetFits
<1>2. ASSUME NEW a \in Agents, Dispatch(a) \/ Settle(a) PROVE TargetFits'
  <2>1. /\ driver.phase \in {"dispatch", "settle"} /\ driver'.phase \in {"dispatch", "settle"}
        /\ target' = target
    BY <1>0, <1>2 DEF Dispatch, Settle, Typed
  <2> QED
    BY <2>1, TargetRests DEF TargetFits
<1>3. CASE GivesUp
  <2>1. driver.phase = "settle" /\ driver'.phase = "failed" /\ target' = target
    BY <1>0, <1>3 DEF GivesUp, Typed
  <2> QED
    BY <2>1, TargetRests DEF TargetFits
<1>5. CASE CloseGeneration \/ RestartCelld
  <2>1. /\ driver.phase \in {"settle", "restart"} /\ target' = target
        /\ driver'.phase \in {"restart", "dispatch", "panel", "final"}
        /\ driver'.phase = "panel" => Rechecks > 0
    BY <1>0, <1>5, ClosingPhase
  <2> QED
    BY <2>1, TargetRests DEF TargetFits
<1>6. CASE Finish
  <2>1. /\ driver.phase = "final" /\ target' = target /\ evaluations' = evaluations
        /\ driver'.phase = "completed"
    BY <1>0, <1>6 DEF Finish, services, Typed
  <2> QED
    BY <2>1, TargetRests DEF TargetFits
<1>7. CASE UNCHANGED vars
  <2>1. target' = target /\ driver' = driver /\ evaluations' = evaluations
    BY <1>7 DEF vars, services
  <2> QED
    BY <2>1, TargetRests DEF TargetFits
<1> QED
  BY <1>1, <1>2, <1>3, <1>5, <1>6, <1>7, BeginningKeeps, MeasureKeeps, NextRepeatKeeps
     DEF Next, GoesOn, DriverStep

(* A run whose measurement of the panel is valid has measured every candidate *)
(* of it in every repeat and nothing else (measureQualityTarget,             *)
(* balancedCandidateOrder, chunked), for any panel, repeats and size of block. *)
THEOREM ValidPanelsAreComplete == Spec => []ValidMeansComplete
<1>1. Init => TargetFits
  <2> SUFFICES ASSUME Init PROVE TargetFits
    OBVIOUS
  <2>1. target = [repeat |-> 0, blocks |-> <<>>, attempt |-> 1, valid |-> TRUE,
                  measured |-> [id \in Ids |-> 0]]
    BY DEF Init
  <2>2. target \in Target
    BY <2>1, Sizes DEF Target
  <2>3. driver.phase = "dispatch"
    BY DEF Init
  <2> QED
    BY <2>1, <2>2, <2>3 DEF TargetFits, Unmeasured
<1>2. IInv /\ TargetFits => ValidMeansComplete
  BY ValidIsComplete DEF IInv
<1> QED
  BY <1>1, <1>2, TargetStays, InvariantHolds, PTL DEF Spec
=============================================================================
