-------------------------------- MODULE RepoRuns --------------------------------
(***************************************************************************)
(* The experiments on the repository agent (examples/repo-agent/worker.ts):*)
(* a driver posts runs to cells, phase by phase, takes their results for   *)
(* the next phase, and restarts celld once in between                      *)
(* (cube-preflight-run.mjs, formal-protocol-run.mjs,                       *)
(* repo-maintenance-run.mjs).  What a run is asked to do is left out.      *)
(***************************************************************************)
EXTENDS JobLane

CONSTANTS
  Cells,
  CellOf,        \* the cell of a run; the run's action has the run's name
  PhaseOf,       \* and its phase: runs of one phase are posted together
  RestartAfter   \* the phase after which celld is restarted

Runs == Jobs
Phases == {PhaseOf[r] : r \in Runs}
RunsOf(c) == {r \in Runs : CellOf[r] = c}

RepoRunsAssumption ==
  /\ JobLaneAssumption
  /\ IsFiniteSet(Runs)
  /\ \A r \in Runs, n \in 0..MaxClaims : None # [run |-> r, attempt |-> n]
  /\ CellOf \in [Runs -> Cells]
  /\ Phases = 1..Cardinality(Phases)
  /\ \A r, s \in Runs : CellOf[r] = CellOf[s] /\ PhaseOf[r] = PhaseOf[s] => r = s
  /\ RestartAfter \in Phases

VARIABLES
  runs,     \* protein_runs: the status of every run, and its result
  cells,    \* the state of the agent in every cell
  driver
vars == <<jobs, runs, cells, driver>>

NoRun == [status |-> "none", result |-> None]
FreshState == [active |-> None, completed |-> 0, last |-> None]

Init ==
  /\ JobsInit
  /\ runs = [r \in Runs |-> NoRun]
  /\ cells = [c \in Cells |-> FreshState]
  /\ driver = [status |-> "running", phase |-> 1, reports |-> [r \in Runs |-> None],
               before |-> None]

SetRun(r, status, result) ==
  runs' = [runs EXCEPT ![r] = [status |-> status, result |-> result]]

-----------------------------------------------------------------------------
(* onAgentEvent(): protein.run.requested *)
Requested(r) ==
  /\ runs[r].status = "requested"
  /\ SetRun(r, "running", None)
  /\ cells' = [cells EXCEPT ![CellOf[r]].active = r]
  /\ lane' = Begun(r)
  /\ UNCHANGED <<requests, ledger, faults, driver>>

(* protein.action.delivered: whatever run is active is taken for the one     *)
(* that is over. *)
Completes(r) ==
  LET c == CellOf[r] IN
  /\ lane[r].status = "delivered"
  /\ SetRun(r, "completed", lane[r].result)
  /\ cells' = [cells EXCEPT ![c] =
       [active |-> None, completed |-> @.completed + 1, last |-> lane[r].result]]
  /\ lane' = Handled(r)
  /\ UNCHANGED <<requests, ledger, faults, driver>>

(* protein.action.failed *)
Fails(r) ==
  /\ lane[r].status = "failed"
  /\ SetRun(r, "failed", None)
  /\ cells' = [cells EXCEPT ![CellOf[r]].active = None]
  /\ lane' = Handled(r)
  /\ UNCHANGED <<requests, ledger, faults, driver>>

Executes(q) ==
  /\ Finish(q, [run |-> q.job, attempt |-> q.attempt])
  /\ UNCHANGED <<runs, cells, driver>>

-----------------------------------------------------------------------------
(* runCell(): the run is posted, and polled until it is over. *)
Post(r) ==
  /\ driver.status = "running"
  /\ PhaseOf[r] = driver.phase
  /\ runs[r].status = "none"
  /\ SetRun(r, "requested", None)
  /\ UNCHANGED <<jobs, cells, driver>>

Report(r) ==
  /\ driver.status = "running"
  /\ runs[r].status = "completed"
  /\ driver.reports[r] = None
  /\ driver' = [driver EXCEPT !.reports[r] = runs[r].result]
  /\ UNCHANGED <<jobs, runs, cells>>

(* A run failed: everything is stopped. *)
GivesUp ==
  /\ driver.status = "running"
  /\ \E r \in Runs : runs[r].status = "failed"
  /\ driver' = [driver EXCEPT !.status = "failed"]
  /\ UNCHANGED <<jobs, runs, cells>>

AllPosted == \A r \in Runs : PhaseOf[r] = driver.phase => runs[r].status # "none"   \* a fault
PhaseDone == \A r \in Runs : PhaseOf[r] = driver.phase => driver.reports[r] # None

(* In the end the executor must have done as many jobs as there are runs.    *)
NextPhase(d) ==
  IF d.phase + 1 \in Phases THEN [d EXCEPT !.phase = @ + 1, !.status = "running"]
  ELSE [d EXCEPT !.status = IF \A r \in Runs : ledger[r] # None THEN "passed" ELSE "broken"]

EndOfPhase ==
  /\ driver.status = "running"
  /\ PhaseDone
  /\ driver' = IF driver.phase = RestartAfter
               THEN [driver EXCEPT !.status = "restart", !.before = cells]
               ELSE NextPhase(driver)
  /\ UNCHANGED <<jobs, runs, cells>>

RestartCelld ==
  /\ driver.status = "restart"
  /\ RestartHost
  /\ driver' = [driver EXCEPT !.status = "compare"]
  /\ UNCHANGED <<runs, cells>>

(* The cells must come back as they were, with all their runs completed.     *)
CompletedSoFar(c) == Cardinality({r \in RunsOf(c) : PhaseOf[r] <= RestartAfter})
Compare ==
  /\ driver.status = "compare"
  /\ driver' = IF /\ cells = driver.before
                  /\ \A c \in Cells : cells[c].completed = CompletedSoFar(c)
               THEN NextPhase(driver) ELSE [driver EXCEPT !.status = "broken"]
  /\ UNCHANGED <<jobs, runs, cells>>

Ended == driver.status \in {"passed", "failed", "broken"}

Next ==
  /\ ~Ended
  /\ \/ JobStep /\ UNCHANGED <<runs, cells, driver>>
     \/ \E q \in requests : Executes(q)
     \/ \E r \in Runs : Requested(r) \/ Completes(r) \/ Fails(r) \/ Post(r) \/ Report(r)
     \/ GivesUp \/ EndOfPhase \/ RestartCelld \/ Compare

Spec == Init /\ [][Next]_vars
-----------------------------------------------------------------------------
(* The books of a cell are those of its runs: the active run is the one that *)
(* is running, the others are counted once, and the last result is that of   *)
(* one of them, although an outcome does not look at whose it is             *)
(* (onAgentEvent) and jobs are done again when leases run out.               *)
BooksAgree ==
  \A c \in Cells :
    LET are(status) == {r \in RunsOf(c) : runs[r].status = status} IN
    /\ are("running") = {cells[c].active} \ {None}
    /\ cells[c].completed = Cardinality(are("completed"))
    /\ cells[c].last # None => \E r \in are("completed") : cells[c].last = runs[r].result

(* No assertion of a driver fails: the cells come back from the restart as   *)
(* they were seen, late answers and second executions notwithstanding, and   *)
(* every run has its job in the end. *)
AssertionsHold == driver.status # "broken"
=============================================================================
