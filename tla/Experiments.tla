------------------------------ MODULE Experiments ------------------------------
(***************************************************************************)
(* The experiments of the repository that give their cells jobs: those on  *)
(* the repository agent (RepoRuns) and the one on the compute fabric       *)
(* (Fabric).  Both stand on the lane and the executor of JobLane.  A host  *)
(* runs one of them at a time; when it is over everything is stopped, and  *)
(* before that it can always go on: nobody waits for nothing.              *)
(***************************************************************************)
EXTENDS Naturals

CONSTANTS
  AgentRuns, Agents, AgentOf, PhaseOf, RestartAfter,   \* of the repository agents
  NReports, Sources, DeniedReport, MaxModelCalls,      \* of the compute fabric
  RunsFitLeases, CapabilitiesFitLeases, MaxRunClaims, MaxCapabilityClaims,
  MaxAttempts, MaxFaults, None

VARIABLES
  kind,       \* the experiment
  lane, requests, ledger, faults, cells, driver,
  runs,       \* of the repository agents
  posted,     \* of the compute fabric
  receipts
vars == <<kind, lane, requests, ledger, faults, cells, driver, runs, posted, receipts>>

(* The jobs of the one are idempotent, those of the other are looked up      *)
(* before they are sent. *)
Repository == INSTANCE RepoRuns WITH
  Jobs <- AgentRuns, Cells <- Agents, CellOf <- AgentOf,
  Reconcilable <- FALSE, JobsFitLeases <- RunsFitLeases, MaxClaims <- MaxRunClaims
Cube == INSTANCE Fabric WITH
  JobsFitLeases <- CapabilitiesFitLeases, MaxClaims <- MaxCapabilityClaims

ASSUME ExperimentsAssumption == Repository!RepoRunsAssumption /\ Cube!FabricAssumption

Init ==
  \/ kind = "repository" /\ Repository!Init /\ posted = None /\ receipts = None
  \/ kind = "fabric" /\ Cube!Init /\ runs = None

Over ==
  /\ IF kind = "repository" THEN Repository!Ended ELSE Cube!Ended
  /\ UNCHANGED vars

Next ==
  \/ kind = "repository" /\ Repository!Next /\ UNCHANGED <<kind, posted, receipts>>
  \/ kind = "fabric" /\ Cube!Next /\ UNCHANGED <<kind, runs>>
  \/ Over

Spec == Init /\ [][Next]_vars
-----------------------------------------------------------------------------
(* The books of the cells of the repository agent are those of their runs    *)
(* (onAgentEvent; RepoRuns says how). *)
BooksAgree == kind = "repository" => Repository!BooksAgree

(* No cell of the fabric is given work while it is at work (onAgentEvent     *)
(* throws on it). *)
NobodyIsBusy == kind = "fabric" => Cube!NobodyIsBusy

(* Only what was built and verified is accepted (Fabric says how; the        *)
(* driver's revisions, retry and selection). *)
AcceptedIsVerified == kind = "fabric" => Cube!AcceptedIsVerified

(* No more model jobs are asked for than the budget has calls (the guards of *)
(* the driver before it revises; a job counts once however often it runs).   *)
BudgetHolds == kind = "fabric" => Cube!BudgetHolds

(* No assertion of a driver about its cells fails, before, in or after the   *)
(* restart of celld. *)
AssertionsHold ==
  IF kind = "repository" THEN Repository!AssertionsHold ELSE Cube!AssertionsHold
=============================================================================
