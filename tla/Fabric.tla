--------------------------------- MODULE Fabric ---------------------------------
(***************************************************************************)
(* The compute fabric (examples/compute-fabric-cube): a driver             *)
(* (compute-fabric-run.mjs) takes repair reports through the cells of      *)
(* their domains; a cell completes cheap work by itself and has a          *)
(* capability job done for the rest (worker.ts, capability-executor.mjs).  *)
(* celld is restarted while the sandboxes run, one evaluation is denied    *)
(* and asked for again, and the last two reports compete.                  *)
(*                                                                         *)
(* The reports that are no repairs, relationships, duplicates of events    *)
(* and the wake after hibernation are left out.                            *)
(***************************************************************************)
EXTENDS Naturals, FiniteSets

CONSTANTS
  NReports,        \* repairs, in the order of the configuration
  Sources,         \* repairs a model may propose
  DeniedReport,    \* denyFirstBoundedEvaluationForTask
  MaxModelCalls,   \* budgets.maxModelCalls
  MaxAttempts, JobsFitLeases, MaxClaims, MaxFaults, None

Reports == 1..NReports
Final == NReports
Rivals == {Final - 1, Final}

Models == {"triage", "patch", "revise-public", "revise", "resolve"}
Sandboxes == {"sandbox", "sandbox-public", "sandbox-revision"}
Revisions == {"revise-public", "sandbox-public", "revise", "sandbox-revision", "verify-revision"}
Evaluators == {"verify", "verify-retry", "verify-revision"}
Work ==
  ({"triage", "patch", "revise-public", "revise", "accept"} \cup Sandboxes \cup Evaluators) \X Reports
    \cup {"conflict", "resolve", "release"} \X {Final}
Jobs == {w \in Work : w[1] \in Models \cup Sandboxes \cup Evaluators}

CellOf(w) ==
  CASE w[1] = "triage" -> <<"triage", w[2]>>
    [] w[1] \in {"patch", "revise-public", "revise"} \cup Sandboxes -> <<"execute", w[2]>>
    [] w[1] \in {"accept"} \cup Evaluators -> <<"verify", w[2]>>
    [] OTHER -> <<"integration", Final>>
Cells == {CellOf(w) : w \in Work}

VARIABLES lane, requests, ledger, faults,
  posted,     \* per work, what its assignment is about: None, or a set of sources
  cells,      \* the agent of every cell
  receipts,   \* per work, the receipt in the state of its cell
  driver

INSTANCE JobLane WITH Reconcilable <- TRUE

FabricAssumption ==
  /\ JobLaneAssumption
  /\ NReports \in Nat \ {0, 1} /\ MaxModelCalls \in Nat /\ DeniedReport \in Reports
  /\ None \notin [source : Sources \cup {None}, ok : BOOLEAN]
  /\ \A s \in SUBSET (Sources \cup {None}) : None # s

lanes == <<lane, requests, ledger, faults>>
vars == <<lanes, posted, cells, receipts, driver>>

Init ==
  /\ JobsInit
  /\ posted = [w \in Work |-> None]
  /\ cells = [c \in Cells |-> [status |-> "idle", pending |-> None]]
  /\ receipts = [w \in Work |-> None]
  /\ driver = [step |-> "repair", open |-> {},
               todo |-> {"triage", "patch"} \X Reports,
               sandboxes |-> [r \in Reports |-> None], evaluations |-> [r \in Reports |-> None],
               before |-> {}, accepted |-> {}]

Pending(c, status, w) == cells' = [cells EXCEPT ![c] = [status |-> status, pending |-> w]]
Receives(w, result) == receipts' = [receipts EXCEPT ![w] = result]
Got(w) == receipts[w] # None

-----------------------------------------------------------------------------
(* onAgentEvent(): fabric.work.assigned; a cell at work throws. *)
Waits(w) == posted[w] # None /\ ~Got(w) /\ (w \in Jobs => lane[w].status = "none")
Assigned(w) ==
  /\ Waits(w) /\ cells[CellOf(w)].pending = None
  /\ IF w \in Jobs
     THEN /\ Pending(CellOf(w), "working", w)
          /\ lane' = Begun(w)
          /\ UNCHANGED receipts
     ELSE /\ Pending(CellOf(w), "idle", None)
          /\ Receives(w, [source |-> None, ok |-> TRUE])
          /\ UNCHANGED lane
  /\ UNCHANGED <<requests, ledger, faults, posted, driver>>

(* A fault: the action stays pending. *)
DeliversKeeping(w) ==
  /\ lane[w].status = "delivered"
  /\ lane' = Handled(w)
  /\ Receives(w, lane[w].result)
  /\ UNCHANGED <<requests, ledger, faults, posted, cells, driver>>

(* protein.action.delivered: only the pending action counts. *)
Delivers(w) ==
  /\ lane[w].status = "delivered"
  /\ lane' = Handled(w)
  /\ IF cells[CellOf(w)].pending = w
     THEN Pending(CellOf(w), "idle", None) /\ Receives(w, lane[w].result)
     ELSE UNCHANGED <<cells, receipts>>
  /\ UNCHANGED <<requests, ledger, faults, posted, driver>>

(* protein.action.failed *)
Fails(w) ==
  /\ lane[w].status = "failed"
  /\ lane' = Handled(w)
  /\ Pending(CellOf(w), "failed", None)
  /\ UNCHANGED <<requests, ledger, faults, posted, receipts, driver>>

(* execute(): a model proposes any source, or picks one; a check of a source *)
(* may go either way; one evaluation is denied by schedule. *)
Denied(w) == w = <<"verify", DeniedReport>>
Outcomes(w) ==
  IF Denied(w) THEN {[source |-> None, ok |-> FALSE]}
  ELSE [source : posted[w], ok : IF w[1] \in Models THEN {TRUE} ELSE BOOLEAN]
Executes(q) ==
  /\ \E result \in Outcomes(q.job) : Finish(q, result)
  /\ UNCHANGED <<posted, cells, receipts, driver>>

-----------------------------------------------------------------------------
(* assign(): an event id that is known with another content is refused.      *)
Refused(ws) == \E w \in ws : posted[w] # None

(* What a work is about: the source that was built or proposed before it.    *)
About(w, d) ==
  LET of(kind) == {receipts[<<kind, w[2]>>].source}
  IN CASE w[1] = "triage" -> {None}
       [] w[1] \in {"patch", "revise-public", "revise"} -> Sources
       [] w[1] = "sandbox" -> of("patch")
       [] w[1] = "sandbox-public" -> of("revise-public")
       [] w[1] = "sandbox-revision" -> of("revise")
       [] w[1] = "verify-revision" -> of("sandbox-revision")
       [] w[1] \in {"verify", "verify-retry"} -> {d.sandboxes[w[2]].source}
       [] w[1] = "resolve" -> {d.sandboxes[r].source : r \in Rivals}
       [] OTHER -> {}

Stops(status) == driver' = [driver EXCEPT !.step = status] /\ UNCHANGED posted
Asks(ws, d) ==
  IF Refused(ws) THEN Stops("failed")
  ELSE /\ posted' = [w \in Work |-> IF w \in ws THEN About(w, d) ELSE posted[w]]
       /\ driver' = [d EXCEPT !.open = {w \in @ : ~Got(w)} \cup ws]

(* A revision that has to pass does not. *)
StillFails(w) == w[1] \in {"sandbox-public", "verify-revision"} /\ ~receipts[w].ok
AllGot == \A w \in driver.open : Got(w)   \* completion()

(* One work after the other, each when the one before is complete: revisions *)
(* report by report, the rest kind by kind. *)
Precedes(v, w) ==
  IF v[1] \in Revisions /\ v[2] # w[2] THEN v[2] < w[2]
  ELSE \/ v[1] = w[1] /\ v[2] < w[2]
       \/ <<v[1], w[1]>> \in {<<"triage", "patch">>, <<"revise-public", "sandbox-public">>,
            <<"revise", "sandbox-revision">>, <<"revise", "verify-revision">>,
            <<"sandbox-revision", "verify-revision">>, <<"conflict", "resolve">>,
            <<"accept", "release">>}
AskNext ==
  /\ AllGot
  /\ \E w \in driver.todo :
       /\ \A v \in driver.todo : ~Precedes(v, w)
       /\ IF \E v \in driver.open : StillFails(v) THEN Stops("failed")
          ELSE Asks({w}, [driver EXCEPT !.todo = @ \ {w}])
  /\ UNCHANGED <<lanes, cells, receipts>>

Through(step) ==
  /\ driver.step = step /\ driver.todo = {} /\ AllGot
  /\ UNCHANGED <<lanes, cells, receipts>>

StartSandboxes ==
  /\ Through("repair")
  /\ Asks({"sandbox"} \X Reports, [driver EXCEPT !.step = "active"])

(* Some sandbox runs: the cells are looked at, and celld is restarted.       *)
LookBefore ==
  /\ driver.step = "active"
  /\ \E q \in requests : q.stage = "executing"
  /\ driver' = [driver EXCEPT !.step = "restart", !.before = {w \in Work : Got(w)}]
  /\ UNCHANGED <<lanes, posted, cells, receipts>>

(* A fault: what a cell held in memory only is gone. *)
RestartForgetting ==
  /\ driver.step = "restart"
  /\ RestartHost
  /\ driver' = [driver EXCEPT !.step = "sandboxed"]
  /\ receipts' = [w \in Work |-> IF w[1] = "patch" THEN None ELSE receipts[w]]
  /\ UNCHANGED <<posted, cells>>

RestartCelld ==
  /\ driver.step = "restart"
  /\ RestartHost
  /\ driver' = [driver EXCEPT !.step = "sandboxed"]
  /\ UNCHANGED <<posted, cells, receipts>>

CallsMade == Cardinality({w \in Jobs : w[1] \in Models /\ ledger[w] # None})   \* stats.modelCalls
NoneSpared(n) == n <= MaxModelCalls - CallsMade   \* a fault: no call is left for the resolver
FitsBudget(n) == n <= MaxModelCalls - CallsMade - 1

(* The reports that failed are revised one after the other, if they may be.  *)
Revise(failed, kinds, d) ==
  IF failed # {} /\ ~FitsBudget(Cardinality(failed)) THEN Stops("failed")
  ELSE driver' = [d EXCEPT !.todo = kinds \X failed] /\ UNCHANGED posted

Newest(first, later, r) ==
  IF Got(<<later, r>>) THEN receipts[<<later, r>>] ELSE receipts[<<first, r>>]

PrefixKept == \A w \in driver.before : Got(w)
PublicChecks ==
  /\ Through("sandboxed")
  /\ LET d == [driver EXCEPT !.step = "public",
                 !.sandboxes = [r \in Reports |-> receipts[<<"sandbox", r>>]]]
     IN IF ~PrefixKept THEN Stops("broken")
        ELSE Revise({r \in Reports : ~d.sandboxes[r].ok}, {"revise-public", "sandbox-public"}, d)

Verify ==
  /\ Through("public")
  /\ IF \E w \in driver.open : StillFails(w) THEN Stops("failed")
     ELSE Asks({"verify"} \X Reports,
               [driver EXCEPT !.step = "verify",
                  !.sandboxes = [r \in Reports |-> Newest("sandbox", "sandbox-public", r)]])

(* The denied evaluation is asked for again, in its turn. *)
Retry ==
  /\ driver.step = "verify"
  /\ posted[<<"verify-retry", DeniedReport>>] = None
  /\ \A r \in 1..DeniedReport : Got(<<"verify", r>>)
  /\ Asks({<<"verify-retry", DeniedReport>>}, driver)
  /\ UNCHANGED <<lanes, cells, receipts>>

PublicPass(d, r) == d.sandboxes[r].ok      \* a fault: the wrong evidence is read
HiddenPass(d, r) == d.evaluations[r].ok
HiddenChecks ==
  /\ Through("verify")
  /\ Got(<<"verify-retry", DeniedReport>>)
  /\ LET d == [driver EXCEPT !.step = "hidden",
                 !.evaluations = [r \in Reports |-> Newest("verify", "verify-retry", r)]]
     IN Revise({r \in Reports : ~HiddenPass(d, r)},
               {"revise", "sandbox-revision", "verify-revision"}, d)

(* revise() replaces both receipts of a report once the revision passes.     *)
Revised(d) ==
  LET revised == {r \in Reports : Got(<<"verify-revision", r>>)}
  IN [d EXCEPT
        !.sandboxes = [r \in Reports |-> IF r \in revised THEN receipts[<<"sandbox-revision", r>>] ELSE @[r]],
        !.evaluations = [r \in Reports |-> IF r \in revised THEN receipts[<<"verify-revision", r>>] ELSE @[r]]]

(* The rivals must differ; if they do not, the last is revised once more.    *)
Compete(step) ==
  /\ Through(step)
  /\ LET d == Revised(driver)
         differ == d.sandboxes[Final - 1].source # d.sandboxes[Final].source
     IN IF \E w \in driver.open : StillFails(w) THEN Stops("failed")
        ELSE IF differ
        THEN /\ driver' = [d EXCEPT !.step = "resolve", !.todo = {"conflict", "resolve"} \X {Final}]
             /\ UNCHANGED posted
        ELSE IF step = "diverse" \/ CallsMade + 2 > MaxModelCalls THEN Stops("failed")
        ELSE /\ driver' = [d EXCEPT !.step = "diverse",
                  !.todo = {"revise", "sandbox-revision", "verify-revision"} \X {Final}]
             /\ UNCHANGED posted

(* The rivals' common task is accepted where the first of them was verified. *)
Select ==
  /\ Through("resolve")
  /\ LET winner == CHOOSE r \in Rivals :
                     driver.sandboxes[r].source = receipts[<<"resolve", Final>>].source
         selected == (Reports \ Rivals) \cup {winner}
     IN IF \A r \in selected : HiddenPass(driver, r)
        THEN /\ driver' = [driver EXCEPT !.step = "accept", !.accepted = selected,
                  !.todo = ({"accept"} \X (1..Final - 1)) \cup {<<"release", Final>>}]
             /\ UNCHANGED posted
        ELSE Stops("failed")

Release ==
  /\ Through("accept")
  /\ Stops("passed")

(* A poll runs out: what is waited for cannot come any more. *)
Hopeless ==
  \/ \E w \in driver.open : ~Got(w) /\ ~Waits(w) /\ cells[CellOf(w)].pending # w
  \/ driver.step = "active" /\ AllGot
Ended == driver.step \in {"passed", "failed", "broken"}
GivesUp ==
  /\ Hopeless
  /\ Stops("failed")
  /\ UNCHANGED <<lanes, cells, receipts>>

Next ==
  /\ ~Ended
  /\ \/ JobStep /\ UNCHANGED <<posted, cells, receipts, driver>>
     \/ \E q \in requests : Executes(q)
     \/ \E w \in Work : Assigned(w)
     \/ \E w \in Jobs : Delivers(w) \/ Fails(w)
     \/ AskNext \/ StartSandboxes \/ LookBefore \/ RestartCelld \/ PublicChecks \/ Verify \/ Retry
     \/ HiddenChecks \/ Compete("hidden") \/ Compete("diverse") \/ Select \/ Release \/ GivesUp

Spec == Init /\ [][Next]_vars
-----------------------------------------------------------------------------
(* A cell is never given work while it is at work: onAgentEvent() would      *)
(* throw, and the experiment would hang on it. *)
NobodyIsBusy == \A w \in Work : Waits(w) => cells[CellOf(w)].pending = None

(* What is accepted was built in a sandbox and passed a hidden evaluation of *)
(* that very source, by the durable receipts of the cells, although jobs are *)
(* done twice around the restart, reports are revised, and one evaluation    *)
(* was denied. *)
AcceptedIsVerified ==
  \A r \in driver.accepted : \E b \in Sandboxes, v \in Evaluators :
    /\ Got(<<b, r>>) /\ Got(<<v, r>>) /\ receipts[<<v, r>>].ok
    /\ {receipts[<<b, r>>].source, receipts[<<v, r>>].source} = {driver.sandboxes[r].source}

(* The driver asks for no more model jobs than the budget has calls,         *)
(* whatever is revised and however late a result counts, the resolver's      *)
(* included.  A job is counted once, as its result is: a call that is paid   *)
(* for and times out is paid for again when the job is executed again.       *)
ModelJobsAsked == {w \in Jobs : w[1] \in Models /\ posted[w] # None}
BudgetHolds == Cardinality(ModelJobsAsked) <= MaxModelCalls

(* Nothing a cell has completed is lost in the restart. *)
AssertionsHold == driver.step # "broken"
=============================================================================
