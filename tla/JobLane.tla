-------------------------------- MODULE JobLane --------------------------------
(***************************************************************************)
(* The jobs of the experiments: the action lane of a cell, as its driver   *)
(* sees it, against an executor that keeps its results by idempotency key  *)
(* (mock-executor.mjs, capability-executor.mjs, maintenance-executor.mjs,  *)
(* formal-executor.mjs and preflight-executor.mjs all do it alike).  The   *)
(* executor looks for the key, awaits the body and the work, and enters    *)
(* the result afterwards: nothing keeps a second request out meanwhile.    *)
(*                                                                         *)
(* Of the kernel (ProteinCell) this keeps claims, retries and the fence    *)
(* against answers to older claims.  Unsafe actions are not used here.     *)
(***************************************************************************)
EXTENDS Naturals, FiniteSets

CONSTANTS
  Jobs,           \* action ids, which are the keys
  Reconcilable,   \* are the actions reconcilable, or else idempotent?
  MaxAttempts,    \* maxActionAttempts
  JobsFitLeases,  \* does the work of a request end before the lease of its claim?
  MaxClaims,      \* bound of the model: claims of one action
  MaxFaults,      \* bound of the model: executions that fail
  None

JobLaneAssumption ==
  /\ {Reconcilable, JobsFitLeases} \subseteq BOOLEAN
  /\ {MaxAttempts, MaxClaims} \subseteq Nat \ {0}
  /\ MaxFaults \in Nat /\ None \notin Jobs

VARIABLES
  lane,       \* per action, its row, and whether the handler that claimed it lives
  requests,   \* requests that are sent and not answered
  ledger,     \* state.jobs: per key, the result
  faults
jobs == <<lane, requests, ledger, faults>>

NoAction == [status |-> "none", attempts |-> 0, alive |-> FALSE, result |-> None]
Request(j, attempt) == [job |-> j, attempt |-> attempt, stage |-> "arriving", result |-> None]

JobsInit ==
  /\ lane = [j \in Jobs |-> NoAction]
  /\ requests = {}
  /\ ledger = [j \in Jobs |-> None]
  /\ faults = 0

-----------------------------------------------------------------------------
(* The decision of an event asks for the action. *)
Begun(j) == [lane EXCEPT ![j].status = "ready"]
Redelivered(j) == lane   \* a fault: the outcome event is not settled
(* The outcome event of the action is handled; the rest of its row does not  *)
(* matter any more. *)
Handled(j) == [lane EXCEPT ![j] = [NoAction EXCEPT !.status = "done"]]

(* A lease runs out under a handler that is gone, after its request is over; *)
(* under one that waits, or whose request goes on, only if the work may      *)
(* outlast leases. *)
LeaseMayEnd(j) ==
  JobsFitLeases => ~lane[j].alive /\ \A q \in requests : q.job # j

Claimable(j) ==
  /\ lane[j].attempts < MaxClaims
  /\ lane[j].status = "ready" \/ (lane[j].status \in {"looking", "sent"} /\ LeaseMayEnd(j))

Sent(j, row) ==
  /\ lane' = [lane EXCEPT ![j] = [row EXCEPT !.status = "sent"]]
  /\ requests' = requests \cup {Request(j, row.attempts)}

(* claimAction(); an idempotent action is sent right away. *)
Claim(j) ==
  LET row == [lane[j] EXCEPT !.attempts = @ + 1, !.alive = TRUE] IN
  /\ Claimable(j)
  /\ IF Reconcilable
     THEN lane' = [lane EXCEPT ![j] = [row EXCEPT !.status = "looking"]] /\ UNCHANGED requests
     ELSE Sent(j, row)
  /\ UNCHANGED <<ledger, faults>>

Delivered(j, result) == [lane EXCEPT ![j].status = "delivered", ![j].result = result]

(* The executor throws, or answers 500: failOrRetryAction(). *)
Thrown(j) ==
  [lane EXCEPT ![j].status = IF lane[j].attempts >= MaxAttempts THEN "failed" ELSE "ready"]

Known(j) == ledger[j] # None

(* reconcileAction(): GET /jobs/:key before every dispatch. *)
Lookup(j) ==
  /\ lane[j].status = "looking" /\ lane[j].alive
  /\ IF Known(j) THEN lane' = Delivered(j, ledger[j]) /\ UNCHANGED requests
     ELSE Sent(j, lane[j])
  /\ UNCHANGED <<ledger, faults>>

-----------------------------------------------------------------------------
(* An answer counts if its sender lives and nobody claimed the action since; *)
(* where it does not, it is dropped. *)
Orphaned(q) == ~lane[q.job].alive \/ lane[q.job].attempts # q.attempt
Counts(q) == ~Orphaned(q) /\ lane[q.job].status = "sent"

Executing(q) == requests' = (requests \ {q}) \cup {[q EXCEPT !.stage = "executing"]}
Answering(q, result) ==
  requests' = (requests \ {q}) \cup
    IF Counts(q) THEN {[q EXCEPT !.stage = "answering", !.result = result]} ELSE {}

(* POST /jobs: a result that is there is returned. *)
Receive(q) ==
  /\ q.stage = "arriving"
  /\ IF Known(q.job) THEN Answering(q, ledger[q.job]) ELSE Executing(q)
  /\ UNCHANGED <<lane, ledger, faults>>

(* A request whose sender went away may get lost. *)
Lost(q) ==
  /\ q.stage = "arriving" /\ Orphaned(q)
  /\ requests' = requests \ {q}
  /\ UNCHANGED <<lane, ledger, faults>>

Finish(q, result) ==
  /\ q.stage = "executing"
  /\ ledger' = [ledger EXCEPT ![q.job] = result]
  /\ Answering(q, result)
  /\ UNCHANGED <<lane, faults>>

ExecutionFails(q) ==
  /\ q.stage = "executing"
  /\ faults < MaxFaults
  /\ faults' = faults + 1
  /\ Answering(q, None)
  /\ UNCHANGED <<lane, ledger>>

(* It takes so long that the fetch times out; the executor goes on. *)
TimesOut(q) ==
  /\ q.stage = "executing" /\ Counts(q)
  /\ faults < MaxFaults
  /\ faults' = faults + 1
  /\ lane' = Thrown(q.job)
  /\ UNCHANGED <<requests, ledger>>

Answer(q) ==
  /\ q.stage = "answering"
  /\ requests' = requests \ {q}
  /\ lane' = IF ~Counts(q) THEN lane
             ELSE IF q.result = None THEN Thrown(q.job) ELSE Delivered(q.job, q.result)
  /\ UNCHANGED <<ledger, faults>>

(* celld stops and starts: handlers are gone, rows and the executor stay.    *)
RestartHost ==
  /\ lane' = [j \in Jobs |-> [lane[j] EXCEPT !.alive = FALSE]]
  /\ UNCHANGED <<requests, ledger, faults>>

JobStep ==
  \/ \E j \in Jobs : Claim(j) \/ Lookup(j)
  \/ \E q \in requests : Receive(q) \/ Lost(q) \/ ExecutionFails(q) \/ TimesOut(q) \/ Answer(q)
=============================================================================
